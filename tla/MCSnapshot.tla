----------------------------- MODULE MCSnapshot -----------------------------
(***************************************************************************)
(* Small instances of the optimistic interface: clients that hold copies   *)
(* of one or two commitments while the rest of the store goes on.          *)
(***************************************************************************)
EXTENDS SnapshotStore, TLC

Symmetry ==
    Permutations(Commitment) \cup Permutations(Worker) \cup Permutations(Client)
=============================================================================
