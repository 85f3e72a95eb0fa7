--------------------------- MODULE FenceRefinement ---------------------------
(***************************************************************************)
(* The store implements the scope fence.  The promise is read off the lock *)
(* rows; only whether a held lock is frozen is a matter of its guard.      *)
(***************************************************************************)
EXTENDS FencedStore

\* The state of the fence that the row of scope k shows.
ShownOwner(k) ==
    [mode |-> IF lock[k].mode = "held" /\ guard[lock[k].guard].st = "uncertain"
              THEN "frozen" ELSE lock[k].mode,
     guard |-> lock[k].guard,
     action |-> lock[k].action]

Fence == INSTANCE ScopeFence WITH
    owner <- [k \in Scope |-> ShownOwner(k)],
    known <- {g \in Guard : guard[g].st # "absent"},
    used <- {guard[g].action : g \in Guard} \ {None}

\* Whatever the claims, leases and restarts around it, the store's lock table
\* is a scope fence: every operation is a step of ScopeFence or leaves the
\* scopes alone.
ImplementsScopeFence == Fence!FenceSpec
=============================================================================
