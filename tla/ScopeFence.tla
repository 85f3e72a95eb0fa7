----------------------------- MODULE ScopeFence -----------------------------
(***************************************************************************)
(* What the store promises about scopes, and all a holder of a scope may   *)
(* rely on: a scope is free, reserved for one guard, held for the action   *)
(* that guard was admitted for, or frozen because the outcome of that      *)
(* action is unknown.  A reservation may end at any moment.  A held scope  *)
(* is given up by the outcome of its action alone, a frozen scope never.   *)
(* The scopes of one guard move together, a guard is never reserved for    *)
(* twice and an action is never admitted twice.  Claims, leases, epochs,   *)
(* boot generations and restarts do not appear.                            *)
(***************************************************************************)
CONSTANTS Scope, Guard, Action, None

VARIABLES
    owner,  \* what each scope is doing
    known,  \* the guards that were ever issued
    used    \* the actions that were ever admitted

fence == <<owner, known, used>>

Free == [mode |-> "free", guard |-> None, action |-> None]
Reserved(g) == [mode |-> "reserved", guard |-> g, action |-> None]
Held(g, a) == [mode |-> "held", guard |-> g, action |-> a]
Frozen(g, a) == [mode |-> "frozen", guard |-> g, action |-> a]

FenceInit ==
    /\ owner = [k \in Scope |-> Free]
    /\ known = {}
    /\ used = {}

\* The scopes once the reservations of the guards in D are gone.
Without(D) ==
    [k \in Scope |-> IF \E g \in D : owner[k] = Reserved(g) THEN Free ELSE owner[k]]

\* The scopes once every one that is before has become after.
Moved(rest, before, after) ==
    [k \in Scope |-> IF rest[k] = before THEN after ELSE rest[k]]

Reserve(g, ks, D) ==
    /\ g \notin known
    /\ ks # {}
    /\ \A k \in ks : Without(D)[k] = Free
    /\ owner' = [k \in Scope |-> IF k \in ks THEN Reserved(g) ELSE Without(D)[k]]
    /\ known' = known \cup {g}
    /\ UNCHANGED used

EndReservations(D) ==
    /\ owner' = Without(D)
    /\ UNCHANGED <<known, used>>

Admit(g, a, D) ==
    /\ g \notin D
    /\ \E k \in Scope : owner[k] = Reserved(g)
    /\ a \notin used
    /\ owner' = Moved(Without(D), Reserved(g), Held(g, a))
    /\ used' = used \cup {a}
    /\ UNCHANGED known

Resolve(g, a) ==
    /\ owner' = Moved(owner, Held(g, a), Free)
    /\ UNCHANGED <<known, used>>

Freeze(g, a) ==
    /\ owner' = Moved(owner, Held(g, a), Frozen(g, a))
    /\ UNCHANGED <<known, used>>

FenceNext ==
    \/ \E g \in Guard, a \in Action : Resolve(g, a) \/ Freeze(g, a)
    \/ \E D \in SUBSET Guard :
        \/ EndReservations(D)
        \/ \E g \in Guard :
            \/ \E ks \in SUBSET Scope : Reserve(g, ks, D)
            \/ \E a \in Action : Admit(g, a, D)

FenceSpec == FenceInit /\ [][FenceNext]_fence
=============================================================================
