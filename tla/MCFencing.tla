------------------------------ MODULE MCFencing ------------------------------
(***************************************************************************)
(* Small instances of the store.  Each .cfg that names this module picks   *)
(* the actors one question needs: workers and guards around one            *)
(* commitment, two commitments around shared scopes, or three commitments  *)
(* that decompose and depend on each other.                                *)
(***************************************************************************)
EXTENDS FenceRefinement, TLC

Symmetry ==
    Permutations(Commitment) \cup Permutations(Worker) \cup Permutations(Guard)
        \cup Permutations(Scope) \cup Permutations(Action)
=============================================================================
