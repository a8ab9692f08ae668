------------------------- MODULE MembershipLifecycle -------------------------
(***************************************************************************)
(* What UserGroupService promises about memberships, whoever works on them *)
(* at the same time: a membership is created pending, becomes applied at   *)
(* most once, may end at any time, and exists again only after it has been *)
(* assigned again. A job that still holds an ended membership in memory    *)
(* brings nothing back.                                                    *)
(***************************************************************************)
CONSTANT Pairs  \* the pairs <<member, group>>

VARIABLES pending, applied

lifecycle == <<pending, applied>>

Init == pending = {} /\ applied = {}

Assign(p) ==
    /\ p \notin pending \cup applied
    /\ pending' = pending \cup {p}
    /\ UNCHANGED applied

Apply(p) ==
    /\ p \in pending
    /\ pending' = pending \ {p}
    /\ applied' = applied \cup {p}

\* Deleting a group ends all the memberships it takes part in.
End(ended) ==
    /\ pending' = pending \ ended
    /\ applied' = applied \ ended

Next ==
    \/ \E p \in Pairs : Assign(p) \/ Apply(p)
    \/ \E ended \in SUBSET Pairs : End(ended)

Spec == Init /\ [][Next]_lifecycle

=============================================================================
