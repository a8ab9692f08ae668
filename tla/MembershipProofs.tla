--------------------------- MODULE MembershipProofs ---------------------------
(***************************************************************************)
(* GroupSharing implements MembershipLifecycle, for every value of the     *)
(* constants: whatever the jobs still hold in memory, no step brings an    *)
(* ended membership back, and applied is reached from pending only. It     *)
(* rests on the unique check of the assignments (a pair has one row) and   *)
(* on the saves of the applier going by identifier.                        *)
(*                                                                         *)
(* And, where no group takes part in two nestings: members of an applied   *)
(* subgroup see what is shared with the parent group, whichever of the two *)
(* memberships was assigned or applied first.                              *)
(***************************************************************************)
EXTENDS RowSourceProofs, FiniteSetTheorems

PairsUnique == \A a, b \in ugas : Pair(a) = Pair(b) => a = b

PendingPairs(rows) == {Pair(a) : a \in {b \in rows : b.apply}}
AppliedPairs(rows) == {Pair(a) : a \in {b \in rows : ~b.apply}}
AllPairs == (Users \cup Groups) \X Groups

LEMMA PairType == ASSUME TypeOK, NEW a \in ugas PROVE Pair(a) \in AllPairs
BY DEF TypeOK, Uga, Pair, AllPairs

\* A step on the rows is a step of the lifecycle, or none.
LifecycleStep ==
    \/ PendingPairs(ugas') = PendingPairs(ugas) /\ AppliedPairs(ugas') = AppliedPairs(ugas)
    \/ Lifecycle!Next

\* Ended memberships end in the lifecycle.
LEMMA EndedRows ==
    ASSUME TypeOK, PairsUnique, ugas' \subseteq ugas PROVE LifecycleStep /\ PairsUnique'
<1> DEFINE gone == {Pair(a) : a \in ugas \ ugas'}
<1>1. gone \in SUBSET AllPairs
  BY PairType
<1>2. \A a \in ugas : Pair(a) \in gone <=> a \notin ugas'
  BY DEF PairsUnique
<1> HIDE DEF gone
<1>3. /\ PendingPairs(ugas') = PendingPairs(ugas) \ gone
      /\ AppliedPairs(ugas') = AppliedPairs(ugas) \ gone
  BY <1>2 DEF PendingPairs, AppliedPairs
<1>4. /\ {Pair(a) : a \in {b \in ugas : b.apply}}' = PendingPairs(ugas')
      /\ {Pair(a) : a \in {b \in ugas : ~b.apply}}' = AppliedPairs(ugas')
  BY DEF PendingPairs, AppliedPairs, Pair
<1>5. \E ended \in SUBSET AllPairs :
          /\ PendingPairs(ugas') = PendingPairs(ugas) \ ended
          /\ AppliedPairs(ugas') = AppliedPairs(ugas) \ ended
  BY <1>1, <1>3
<1>6. \E ended \in SUBSET AllPairs : Lifecycle!End(ended)
  BY <1>4, <1>5 DEF Lifecycle!End, PendingPairs, AppliedPairs
<1>7. Lifecycle!Next
  BY <1>6, Zenon DEF Lifecycle!Next, AllPairs
<1> QED BY <1>7 DEF LifecycleStep, PairsUnique, Pair

LEMMA NewRow ==
    ASSUME TypeOK, PairsUnique, NEW c \in Users \cup Groups, NEW g \in Groups, Assign(c, g)
    PROVE  LifecycleStep /\ PairsUnique'
<1> DEFINE new == [id |-> ugaSeq, parent |-> g, child |-> c, apply |-> TRUE, remove |-> FALSE]
<1>1. ugas' = ugas \cup {new} /\ \A a \in ugas : ~(a.child = c /\ a.parent = g)
  BY DEF Assign
<1>2. new.apply /\ Pair(new) = <<c, g>>
  BY DEF Pair
<1> HIDE DEF new
<1>3. \A a \in ugas : Pair(a) # <<c, g>>
  BY <1>1 DEF Pair
<1>4. /\ PendingPairs(ugas') = PendingPairs(ugas) \cup {<<c, g>>}
      /\ AppliedPairs(ugas') = AppliedPairs(ugas)
      /\ <<c, g>> \notin PendingPairs(ugas) \cup AppliedPairs(ugas)
  BY <1>1, <1>2, <1>3 DEF PendingPairs, AppliedPairs
<1>5. Lifecycle!Assign(<<c, g>>)
  BY <1>4 DEF Lifecycle!Assign, PendingPairs, AppliedPairs, Pair
<1>6. Lifecycle!Next
  BY <1>5 DEF Lifecycle!Next
<1>7. PairsUnique'
  BY <1>1, <1>2, <1>3 DEF PairsUnique, Pair
<1> QED BY <1>6, <1>7 DEF LifecycleStep

\* Marking a membership for removal changes nothing for the lifecycle.
LEMMA MarkedRow ==
    ASSUME TypeOK, PairsUnique, NEW c, NEW g, DeferUnassignGroup(c, g)
    PROVE  LifecycleStep /\ PairsUnique'
<1>1. PICK a \in ugas : ugas' = (ugas \ {a}) \cup {[a EXCEPT !.remove = TRUE]}
  BY DEF DeferUnassignGroup
<1> DEFINE b == [a EXCEPT !.remove = TRUE]
<1>2. Pair(b) = Pair(a) /\ b.apply = a.apply
  BY DEF TypeOK, Uga, Pair
<1>3. ugas' = (ugas \ {a}) \cup {b}
  BY <1>1
<1> HIDE DEF b
<1>4. PendingPairs(ugas') = PendingPairs(ugas) /\ AppliedPairs(ugas') = AppliedPairs(ugas)
  BY <1>2, <1>3 DEF PendingPairs, AppliedPairs
<1>5. PairsUnique'
  BY <1>2, <1>3 DEF PairsUnique, Pair
<1> QED BY <1>4, <1>5 DEF LifecycleStep

\* The save of the applier applies the row with its identifier, if there is one
\* and it is pending, and does nothing otherwise.
LEMMA AppliedRow ==
    ASSUME TypeOK, IdsOK, PairsUnique, NEW a, ugas' = SaveApplied(a)
    PROVE  LifecycleStep /\ PairsUnique'
<1>1. CASE \A b \in ugas : b.id # a.id
  <2>1. ugas' = ugas
    BY <1>1 DEF SaveApplied
  <2> QED BY <2>1, EndedRows
<1>2. ASSUME NEW b \in ugas, b.id = a.id PROVE LifecycleStep /\ PairsUnique'
  <2> DEFINE c == [b EXCEPT !.apply = FALSE]
  <2>1. Pair(c) = Pair(b) /\ c.apply = FALSE /\ c.id = b.id
    BY DEF TypeOK, Uga, Pair
  <2>2. ugas' = (ugas \ {b}) \cup {c}
    BY <1>2 DEF SaveApplied, IdsOK
  <2>3. ~b.apply => c = b
    BY DEF TypeOK, Uga
  <2> HIDE DEF c
  <2>4. PairsUnique'
    BY <2>1, <2>2 DEF PairsUnique, Pair
  <2>5. CASE b.apply
    <3>1. \A e \in ugas \ {b} : Pair(e) # Pair(b)
      BY DEF PairsUnique
    <3>2. /\ PendingPairs(ugas') = PendingPairs(ugas) \ {Pair(b)}
          /\ AppliedPairs(ugas') = AppliedPairs(ugas) \cup {Pair(b)}
          /\ Pair(b) \in PendingPairs(ugas)
      BY <2>1, <2>2, <2>5, <3>1 DEF PendingPairs, AppliedPairs
    <3>3. Lifecycle!Apply(Pair(b))
      BY <3>2 DEF Lifecycle!Apply, PendingPairs, AppliedPairs, Pair
    <3>4. Pair(b) \in AllPairs
      BY PairType
    <3>5. Lifecycle!Next
      BY <3>3, <3>4 DEF Lifecycle!Next, AllPairs
    <3> QED BY <2>4, <3>5 DEF LifecycleStep
  <2>6. CASE ~b.apply
    <3>1. ugas' = ugas
      BY <2>2, <2>3, <2>6
    <3> QED BY <3>1, EndedRows
  <2> QED BY <2>5, <2>6
<1> QED BY <1>1, <1>2

\* What a step can do to the memberships.
RowsStep ==
    \/ ugas' \subseteq ugas /\ UNCHANGED ugaSeq
    \/ \E c \in Users \cup Groups, g \in Groups :
           Assign(c, g) /\ (c \in Groups => <<c, g>> \in Nesting)
    \/ \E n \in Nesting : DeferUnassignGroup(n[1], n[2])
    \/ \E a : ugas' = SaveApplied(a) /\ UNCHANGED ugaSeq

LEMMA RowsStepOfNext == ASSUME [Next]_vars PROVE RowsStep
<1> USE DEF tables
<1>2. CASE SharingCall
  <2>1. ASSUME NEW u, NEW r, NEW edit, ShareRecord(u, r, edit) PROVE UNCHANGED <<ugas, ugaSeq>>
    BY <2>1, Zenon DEF ShareRecord
  <2>2. ASSUME NEW us, NEW r, UnshareRecord(us, r) PROVE UNCHANGED <<ugas, ugaSeq>>
    BY <2>2, Zenon DEF UnshareRecord
  <2>3. ASSUME NEW r, NEW g, NEW edit, NEW generic, ShareRecordWithGroup(r, g, edit, generic)
        PROVE  UNCHANGED <<ugas, ugaSeq>>
    BY <2>3, Zenon DEF ShareRecordWithGroup
  <2>4. ASSUME NEW r, NEW gs, NEW kinds, UnshareRecordWithGroup(r, gs, kinds)
        PROVE  UNCHANGED <<ugas, ugaSeq>>
    BY <2>4, Zenon DEF UnshareRecordWithGroup
  <2>5. UNCHANGED <<ugas, ugaSeq>>
    BY <1>2, <2>1, <2>2, <2>3, <2>4, Zenon DEF SharingCall
  <2> QED BY <2>5 DEF RowsStep
<1>3. CASE GroupCall
  <2>1. \A n \in Nesting : n[1] \in Groups /\ n[2] \in Groups /\ n = <<n[1], n[2]>>
    BY SharingAssumption
  <2>2. ASSUME NEW c, NEW g, UnassignUserFromGroup(c, g) \/ UnassignGroupFromGroup(c, g)
        PROVE  ugas' \subseteq ugas /\ UNCHANGED ugaSeq
    BY <2>2 DEF UnassignUserFromGroup, UnassignGroupFromGroup
  <2>3. ASSUME NEW a, DeleteUserGroupAssignment(a) PROVE ugas' \subseteq ugas /\ UNCHANGED ugaSeq
    BY <2>3 DEF DeleteUserGroupAssignment
  <2>4. ASSUME NEW g, DeleteGroup(g) PROVE ugas' \subseteq ugas /\ UNCHANGED ugaSeq
    BY <2>4 DEF DeleteGroup
  <2>5. ASSUME NEW u \in Users, NEW g \in Groups, Assign(u, g) PROVE RowsStep
    BY <2>5, SharingAssumption DEF RowsStep
  <2>6. ASSUME NEW n \in Nesting, Assign(n[1], n[2]) PROVE RowsStep
    BY <2>1, <2>6 DEF RowsStep
  <2>7. ASSUME NEW n \in Nesting, DeferUnassignGroup(n[1], n[2]) PROVE RowsStep
    BY <2>7 DEF RowsStep
  <2>8. ugas' \subseteq ugas /\ UNCHANGED ugaSeq => RowsStep
    BY DEF RowsStep
  <2> QED
    BY <1>3, <2>2, <2>3, <2>4, <2>5, <2>6, <2>7, <2>8, Zenon DEF GroupCall
<1>4. ASSUME NEW w \in Appliers, ApplierStep(w) \/ ApplierFail(w) PROVE RowsStep
  <2>1. CASE ApplierMark(w)
    BY <2>1 DEF ApplierMark, RowsStep
  <2>2. CASE ~ApplierMark(w)
    <3>1. UNCHANGED <<ugas, ugaSeq>>
      BY <1>4, <2>2
      DEF ApplierStep, ApplierCheck, ApplierAcquire, ApplierLoad, ApplierReadSupergroups,
          ApplierLostUser, ApplierReadParents, ApplierShareNext, ApplierReadDirect,
          ApplierCopyNext, ApplierFinish, ApplierRelease, ApplierFail
    <3> QED BY <3>1 DEF RowsStep
  <2> QED BY <2>1, <2>2
<1>5. ASSUME NEW w \in Removers, RemoverStep(w) \/ RemoverFail(w) PROVE RowsStep
  <2>1. ugas' \subseteq ugas /\ UNCHANGED ugaSeq
    <3>1. CASE RemoverDelete(w)
      BY <3>1 DEF RemoverDelete
    <3>2. CASE ~RemoverDelete(w)
      BY <1>5, <3>2
      DEF RemoverStep, RemoverCheck, RemoverAcquire, RemoverLoad, RemoverNext, RemoverBatch,
          RemoverFail, RemoverRelease
    <3> QED BY <3>1, <3>2
  <2> QED BY <2>1 DEF RowsStep
<1>6. CASE Restart \/ UNCHANGED vars
  BY <1>6 DEF Restart, vars, RowsStep
<1> QED BY <1>2, <1>3, <1>4, <1>5, <1>6 DEF Next, JobStep

LEMMA MembershipStep ==
    ASSUME IInv, PairsUnique, [Next]_vars PROVE LifecycleStep /\ PairsUnique'
<1>1. TypeOK /\ IdsOK
  BY DEF IInv, TypeInv
<1>2. RowsStep
  BY RowsStepOfNext
<1> QED BY <1>1, <1>2, EndedRows, NewRow, MarkedRow, AppliedRow DEF RowsStep

\* Calls, jobs with what they hold in memory, failures and restarts together
\* treat memberships as MembershipLifecycle says.
THEOREM MembershipsLive == Spec => MembershipsFollowLifecycle
<1>1. Init => PairsUnique /\ Lifecycle!Init
  BY DEF Init, PairsUnique, Lifecycle!Init
<1>2. IInv /\ PairsUnique /\ [Next]_vars =>
          PairsUnique' /\ [Lifecycle!Next]_(Lifecycle!lifecycle)
  <2> SUFFICES ASSUME IInv, PairsUnique, [Next]_vars
               PROVE  PairsUnique' /\ (Lifecycle!Next \/ UNCHANGED Lifecycle!lifecycle)
    OBVIOUS
  <2>1. LifecycleStep /\ PairsUnique'
    BY MembershipStep
  <2>2. PendingPairs(ugas') = PendingPairs(ugas) /\ AppliedPairs(ugas') = AppliedPairs(ugas)
            => UNCHANGED Lifecycle!lifecycle
    BY DEF Lifecycle!lifecycle, PendingPairs, AppliedPairs, Pair
  <2> QED BY <2>1, <2>2 DEF LifecycleStep
<1> QED
  BY <1>1, <1>2, IndInit, IndNext, PTL
  DEF Spec, MembershipsFollowLifecycle, Lifecycle!Spec

-----------------------------------------------------------------------------
(* Members of a subgroup see the records of the parent group, when no group *)
(* takes part in two nestings. The condition is needed: a third level is    *)
(* skipped by the applier (the run three_level_chain), two parents of one   *)
(* group share one path, and two subgroups of one parent compete for the    *)
(* path of a common user. Under it there is one way up from a group.        *)

NestingsApart ==
    \A m, n \in Nesting : m # n => m[1] # n[1] /\ m[1] # n[2] /\ m[2] # n[1] /\ m[2] # n[2]

\* Only the given pairs are nested, each by one membership at a time.
GraphOK ==
    /\ PairsUnique
    /\ \A b \in GroupUgas : Pair(b) \in Nesting
    /\ IsFiniteSet(ugas)

\* The memberships of groups are edges without a common group.
LEMMA EdgesApart ==
    ASSUME NestingsApart, GraphOK, NEW b \in GroupUgas, NEW c \in GroupUgas,
           b # c
    PROVE  /\ b.child # c.child /\ b.child # c.parent
           /\ b.parent # c.child /\ b.parent # c.parent
<1>1. Pair(b) \in Nesting /\ Pair(c) \in Nesting
  BY DEF GraphOK
<1>2. Pair(b) # Pair(c)
  BY DEF GraphOK, PairsUnique, GroupUgas
<1>3. /\ Pair(b)[1] # Pair(c)[1] /\ Pair(b)[1] # Pair(c)[2]
      /\ Pair(b)[2] # Pair(c)[1] /\ Pair(b)[2] # Pair(c)[2]
  BY <1>1, <1>2 DEF NestingsApart
<1> QED BY <1>3 DEF Pair

LEMMA EdgeIsNoLoop ==
    ASSUME GraphOK, NEW b \in GroupUgas PROVE b.child # b.parent /\ b.child \in Groups
<1>1. Pair(b) \in Nesting
  BY DEF GraphOK
<1> QED BY <1>1, SharingAssumption DEF Pair, GroupUgas

\* So a chain is a single membership,
LEMMA ChainIsEdge ==
    ASSUME NestingsApart, GraphOK, NEW h, NEW g, NEW S \in Chains(h, g)
    PROVE  \E b \in GroupUgas : S = {b} /\ b.child = h /\ b.parent = g
<1>1. S \in SUBSET GroupUgas /\ IsChain(S, h, g)
  BY DEF Chains
<1>2. /\ \E b \in S : b.child = h
      /\ {a.parent : a \in S} \ {g} = {a.child : a \in S} \ {h}
      /\ \A a, b \in S : a.parent = b.parent => a = b
  BY <1>1 DEF IsChain
<1>3. ASSUME NEW b \in S PROVE b.parent = g
  <2>1. SUFFICES ASSUME b.parent # g PROVE FALSE
    OBVIOUS
  <2>2. PICK c \in S : c.child = b.parent
    BY <1>2, <2>1
  <2>3. b \in GroupUgas /\ c \in GroupUgas
    BY <1>1
  <2>4. b # c
    BY <2>2, <2>3, EdgeIsNoLoop
  <2> QED BY <2>2, <2>3, <2>4, EdgesApart
<1>4. PICK b \in S : b.child = h
  BY <1>2
<1>5. S = {b}
  BY <1>2, <1>3
<1> QED BY <1>1, <1>3, <1>4, <1>5

\* and a single membership is a chain.
LEMMA EdgeIsChain ==
    ASSUME GraphOK, NEW b \in GroupUgas PROVE {b} \in Chains(b.child, b.parent)
<1>1. b.child # b.parent
  BY EdgeIsNoLoop
<1>2. {a.parent : a \in {b}} = {b.parent} /\ {a.child : a \in {b}} = {b.child}
  OBVIOUS
<1>3. IsChain({b}, b.child, b.parent)
  BY <1>1, <1>2 DEF IsChain
<1> QED BY <1>3 DEF Chains

LEMMA ReachesOne ==
    ASSUME NestingsApart, GraphOK, NEW h, NEW g, NEW k, Reaches(h, g, k), k # 0
    PROVE  k = 1 /\ \E b \in GroupUgas : b.child = h /\ b.parent = g
<1>1. PICK S \in Chains(h, g) : Cardinality(S) = k
  BY DEF Reaches
<1>2. PICK b \in GroupUgas : S = {b} /\ b.child = h /\ b.parent = g
  BY ChainIsEdge
<1> QED BY <1>1, <1>2, FS_Singleton

LEMMA EdgeReaches ==
    ASSUME GraphOK, NEW b \in GroupUgas PROVE Reaches(b.child, b.parent, 1)
BY EdgeIsChain, FS_Singleton DEF Reaches

\* Above a set of groups with a subgroup among them the walk has one level.
LEMMA HeightIsOne ==
    ASSUME NestingsApart, GraphOK, NEW e \in GroupUgas, NEW starts, e.child \in starts,
           e.parent \in Groups
    PROVE  Height(starts) = 1
<1> DEFINE n == Cardinality(GroupUgas)
           Top(k) == /\ \E h \in starts, g \in Groups : Reaches(h, g, k)
                     /\ \A j \in (k + 1)..n : ~ \E h \in starts, g \in Groups : Reaches(h, g, j)
<1>1. n \in Nat /\ n # 0
  <2>1. IsFiniteSet(GroupUgas)
    BY FS_Subset DEF GraphOK, GroupUgas
  <2> QED BY <2>1, FS_CardinalityType, FS_EmptySet
<1> HIDE DEF n
<1>2. 1 \in 0..n
  BY <1>1
<1>3. Reaches(e.child, e.parent, 1)
  BY EdgeReaches
<1>4. Top(1)
  <2>1. \A j \in (1 + 1)..n : j # 0 /\ j # 1
    BY <1>1
  <2> QED BY <1>3, <2>1, ReachesOne
<1>5. ASSUME NEW k \in 0..n, Top(k) PROVE k = 1
  <2>1. k # 0
    <3>1. SUFFICES ASSUME k = 0 PROVE FALSE
      OBVIOUS
    <3>2. 1 \in (k + 1)..n
      BY <1>1, <3>1
    <3> QED BY <1>3, <1>5, <3>2
  <2> QED BY <1>5, <2>1, ReachesOne
<1>6. Height(starts) = CHOOSE k \in 0..n : Top(k)
  BY DEF Height, n
<1> HIDE DEF Top
<1> QED BY <1>2, <1>4, <1>5, <1>6

\* The groups that the walk returns for it include the parent group, and the
\* membership it keeps for that group is one of the subgroup.
LEMMA LevelAbove ==
    ASSUME NestingsApart, GraphOK, NEW e \in GroupUgas, NEW starts, e.child \in starts,
           e.parent \in Groups
    PROVE  /\ e.parent \in LastLevel(starts)
           /\ \A h : Reaches(h, e.parent, Height(starts)) => h = e.child
<1>1. Height(starts) = 1
  BY HeightIsOne
<1>2. e.parent \in LastLevel(starts)
  BY <1>1, EdgeReaches DEF LastLevel
<1>3. ASSUME NEW h, Reaches(h, e.parent, 1) PROVE h = e.child
  <2>1. PICK b \in GroupUgas : b.child = h /\ b.parent = e.parent
    BY <1>3, ReachesOne
  <2> QED BY <2>1, EdgesApart
<1> QED BY <1>1, <1>2, <1>3

\* Its path names that membership and the one of the subgroup in the parent.
LEMMA PathAbove ==
    ASSUME NestingsApart, GraphOK, NEW e \in GroupUgas, NEW a, a.parent = e.child
    PROVE  HierarchyPath(a) \subseteq {a.id, e.id}
<1>1. ASSUME NEW b \in EdgesAbove(a.parent) PROVE b = e
  <2>1. b \in GroupUgas
    BY DEF EdgesAbove
  <2>2. CASE b.child = a.parent
    BY <2>1, <2>2, EdgesApart
  <2>3. CASE Chains(a.parent, b.child) # {}
    <3>1. PICK c \in GroupUgas : c.child = a.parent /\ c.parent = b.child
      BY <2>3, ChainIsEdge
    <3>2. c = e
      BY <3>1, EdgesApart
    <3> QED BY <2>1, <3>1, <3>2, EdgesApart
  <2> QED BY <2>2, <2>3 DEF EdgesAbove
<1> QED BY <1>1 DEF HierarchyPath, Ids

LEMMA GraphInit == Init => GraphOK
BY FS_EmptySet DEF Init, GraphOK, PairsUnique, GroupUgas

\* A membership is renamed by no step: it keeps its identifier and its groups.
LEMMA GraphNext ==
    ASSUME IInv, GraphOK, [Next]_vars PROVE GraphOK'
<1>t. TypeOK
  BY DEF IInv, TypeInv
<1>1. PairsUnique'
  BY MembershipStep DEF GraphOK
<1>2. SUFFICES (\A b \in GroupUgas' : Pair(b) \in Nesting) /\ IsFiniteSet(ugas')
  BY <1>1 DEF GraphOK, Pair
<1>3. IsFiniteSet(ugas) /\ \A b \in ugas : b.child \in Groups => Pair(b) \in Nesting
  BY DEF GraphOK, GroupUgas
<1>4. CASE ugas' \subseteq ugas
  BY <1>3, <1>4, FS_Subset DEF GroupUgas
<1>5. ASSUME NEW c, NEW g, Assign(c, g), c \in Groups => <<c, g>> \in Nesting
      PROVE  (\A b \in GroupUgas' : Pair(b) \in Nesting) /\ IsFiniteSet(ugas')
  <2> DEFINE row == [id |-> ugaSeq, parent |-> g, child |-> c, apply |-> TRUE, remove |-> FALSE]
  <2>r. ugas' = ugas \cup {row} /\ Pair(row) = <<c, g>> /\ row.child = c
    BY <1>5 DEF Assign, Pair
  <2> HIDE DEF row
  <2>1. PICK new : ugas' = ugas \cup {new} /\ Pair(new) = <<c, g>> /\ new.child = c
    BY <2>r
  <2>2. IsFiniteSet(ugas')
    BY <1>3, <2>1, FS_AddElement
  <2> QED BY <1>3, <1>5, <2>1, <2>2 DEF GroupUgas
<1>6. ASSUME NEW n \in Nesting, DeferUnassignGroup(n[1], n[2])
      PROVE  (\A b \in GroupUgas' : Pair(b) \in Nesting) /\ IsFiniteSet(ugas')
  <2>1. PICK a \in ugas : ugas' = (ugas \ {a}) \cup {[a EXCEPT !.remove = TRUE]}
    BY <1>6 DEF DeferUnassignGroup
  <2>2. PICK new : new = [a EXCEPT !.remove = TRUE]
    OBVIOUS
  <2>3. new.child = a.child /\ Pair(new) = Pair(a)
    BY <1>t, <2>2 DEF TypeOK, Uga, Pair
  <2>4. ugas' = (ugas \ {a}) \cup {new}
    BY <2>1, <2>2
  <2>5. IsFiniteSet(ugas \ {a})
    BY <1>3, FS_Subset
  <2>6. IsFiniteSet(ugas')
    BY <2>4, <2>5, FS_AddElement
  <2> QED BY <1>3, <2>3, <2>4, <2>6 DEF GroupUgas
<1>7. ASSUME NEW a, ugas' = SaveApplied(a)
      PROVE  (\A b \in GroupUgas' : Pair(b) \in Nesting) /\ IsFiniteSet(ugas')
  <2> DEFINE saved(b) == IF b.id = a.id THEN [b EXCEPT !.apply = FALSE] ELSE b
  <2>1. ASSUME NEW b \in ugas PROVE saved(b).child = b.child /\ Pair(saved(b)) = Pair(b)
    BY <1>t DEF TypeOK, Uga, Pair
  <2>2. ugas' = {saved(b) : b \in ugas}
    BY <1>7, Zenon DEF SaveApplied
  <2> HIDE DEF saved
  <2>3. PICK f : f = [b \in ugas |-> saved(b)]
    OBVIOUS
  <2>4. f \in Surjection(ugas, ugas')
    BY <2>2, <2>3 DEF Surjection
  <2>5. IsFiniteSet(ugas')
    BY <1>3, <2>4, FS_Surjection
  <2> QED BY <1>3, <2>1, <2>2, <2>5 DEF GroupUgas
<1> QED BY <1>4, <1>5, <1>6, <1>7, RowsStepOfNext DEF RowsStep

\* Where a row comes from.
RowFrom(b, c) ==
    /\ c.id = b.id /\ c.child = b.child /\ c.parent = b.parent
    /\ c.remove => b.remove
    /\ b.remove => c.remove \/ b.child \in Groups

LEMMA RowOrigin ==
    ASSUME IInv, [Next]_vars, NEW b \in ugas'
    PROVE  \/ \E c \in ugas : RowFrom(b, c)
           \/ b.id = ugaSeq /\ b.apply /\ ~b.remove
<1>t. TypeOK
  BY DEF IInv, TypeInv
<1>1. CASE ugas' \subseteq ugas
  BY <1>1 DEF RowFrom
<1>2. ASSUME NEW c, NEW g, Assign(c, g)
      PROVE  (\E d \in ugas : RowFrom(b, d)) \/ (b.id = ugaSeq /\ b.apply /\ ~b.remove)
  BY <1>2 DEF Assign, RowFrom
<1>3. ASSUME NEW n \in Nesting, DeferUnassignGroup(n[1], n[2])
      PROVE  \E c \in ugas : RowFrom(b, c)
  <2>1. PICK a \in ugas : /\ a.child = n[1]
                          /\ ugas' = (ugas \ {a}) \cup {[a EXCEPT !.remove = TRUE]}
    BY <1>3 DEF DeferUnassignGroup
  <2>2. a.child \in Groups
    BY <2>1, SharingAssumption
  <2>3. a \in Uga
    BY <1>t DEF TypeOK
  <2>4. CASE b = [a EXCEPT !.remove = TRUE]
    BY <2>2, <2>3, <2>4 DEF RowFrom, Uga
  <2>5. CASE b \in ugas
    BY <2>5 DEF RowFrom
  <2> QED BY <2>1, <2>4, <2>5
<1>4. ASSUME NEW a, ugas' = SaveApplied(a) PROVE \E c \in ugas : RowFrom(b, c)
  <2>1. PICK c \in ugas : b = IF c.id = a.id THEN [c EXCEPT !.apply = FALSE] ELSE c
    BY <1>4 DEF SaveApplied
  <2>2. c \in Uga
    BY <1>t DEF TypeOK
  <2> QED BY <2>1, <2>2 DEF RowFrom, Uga
<1> QED BY <1>1, <1>2, <1>3, <1>4, RowsStepOfNext DEF RowsStep

\* The remover works on memberships of groups that are marked for removal, and
\* a mark is never taken back.
Marked(w) == rlist[w] \cup {c \in {rcur[w]} : rpc[w] \in {"batch", "delete"}}

MarkedOK ==
    /\ \A b \in ugas : b.remove => b.child \in Groups
    /\ \A w \in Removers : \A c \in Marked(w) :
           c.id < ugaSeq /\ \A b \in ugas : b.id = c.id => b.remove

LEMMA MarkedInit == Init => MarkedOK
BY DEF Init, MarkedOK, Marked

LEMMA MarkedStep ==
    ASSUME TypeOK, [Next]_vars, NEW v \in Removers
    PROVE  \A c \in Marked(v)' : c \in Marked(v) \/ (c \in ugas /\ c.remove)
<1> DEFINE Goal == \A c \in Marked(v)' : c \in Marked(v) \/ (c \in ugas /\ c.remove)
<1> USE DEF tables, applierVars
<1>1. UNCHANGED removerVars => Goal
  BY DEF removerVars, Marked
<1>2. CASE SharingCall
  <2>1. UNCHANGED removerVars
    <3>1. ASSUME NEW u, NEW r, NEW edit, ShareRecord(u, r, edit) PROVE UNCHANGED removerVars
      BY <3>1, Zenon DEF ShareRecord
    <3>2. ASSUME NEW us, NEW r, UnshareRecord(us, r) PROVE UNCHANGED removerVars
      BY <3>2, Zenon DEF UnshareRecord
    <3>3. ASSUME NEW r, NEW g, NEW edit, NEW generic, ShareRecordWithGroup(r, g, edit, generic)
          PROVE  UNCHANGED removerVars
      BY <3>3, Zenon DEF ShareRecordWithGroup
    <3>4. ASSUME NEW r, NEW gs, NEW kinds, UnshareRecordWithGroup(r, gs, kinds)
          PROVE  UNCHANGED removerVars
      BY <3>4, Zenon DEF UnshareRecordWithGroup
    <3> QED BY <1>2, <3>1, <3>2, <3>3, <3>4, Zenon DEF SharingCall
  <2> QED BY <1>1, <2>1
<1>3. CASE GroupCall
  <2>1. UNCHANGED removerVars
    BY <1>3
    DEF GroupCall, Assign, UnassignUserFromGroup, UnassignGroupFromGroup, DeferUnassignGroup,
        DeleteUserGroupAssignment, DeleteGroup
  <2> QED BY <1>1, <2>1
<1>4. ASSUME NEW w \in Appliers, ApplierStep(w) \/ ApplierFail(w) PROVE Goal
  <2>1. UNCHANGED removerVars
    BY <1>4
    DEF ApplierStep, ApplierCheck, ApplierAcquire, ApplierLoad, ApplierReadSupergroups,
        ApplierLostUser, ApplierReadParents, ApplierShareNext, ApplierReadDirect,
        ApplierCopyNext, ApplierMark, ApplierFinish, ApplierRelease, ApplierFail
  <2> QED BY <1>1, <2>1
<1>5. ASSUME NEW w \in Removers, RemoverStep(w) \/ RemoverFail(w) PROVE Goal
  <2> USE DEF GotoR, TypeOK, Marked
  <2>1. CASE RemoverCheck(w) \/ RemoverAcquire(w) \/ RemoverFail(w)
    BY <2>1 DEF RemoverCheck, RemoverAcquire, RemoverFail
  <2>2. CASE RemoverLoad(w)
    BY <2>2 DEF RemoverLoad
  <2>3. CASE RemoverNext(w)
    <3>1. CASE rlist[w] = {}
      BY <2>3, <3>1 DEF RemoverNext
    <3>2. CASE rlist[w] # {}
      <4>1. PICK a \in rlist[w] : /\ rcur' = [rcur EXCEPT ![w] = a]
                                  /\ rlist' = [rlist EXCEPT ![w] = @ \ {a}]
                                  /\ rpc' = [rpc EXCEPT ![w] = "batch"]
        BY <2>3, <3>2 DEF RemoverNext
      <4> QED BY <4>1
    <3> QED BY <3>1, <3>2
  <2>4. CASE RemoverBatch(w)
    <3>1. /\ rpc[w] = "batch" /\ UNCHANGED <<rlist, rcur>>
          /\ \E pc \in {"batch", "delete"} : rpc' = [rpc EXCEPT ![w] = pc]
      BY <2>4 DEF RemoverBatch
    <3> QED BY <3>1
  <2>5. CASE RemoverDelete(w)
    BY <2>5 DEF RemoverDelete
  <2>6. CASE RemoverRelease(w)
    BY <2>6 DEF RemoverRelease
  <2> QED BY <1>5, <2>1, <2>2, <2>3, <2>4, <2>5, <2>6 DEF RemoverStep
<1>6. CASE Restart
  BY <1>6 DEF Restart, Marked
<1>7. CASE UNCHANGED vars
  BY <1>1, <1>7 DEF vars
<1> QED BY <1>2, <1>3, <1>4, <1>5, <1>6, <1>7 DEF Next, JobStep

LEMMA MarkedNext ==
    ASSUME IInv, MarkedOK, [Next]_vars PROVE MarkedOK'
<1>t. TypeOK /\ IdsOK
  BY DEF IInv, TypeInv
<1>1. \A b \in ugas' : b.remove => b.child \in Groups
  BY RowOrigin DEF RowFrom, MarkedOK
<1>2. ugaSeq \in Nat /\ (ugaSeq' = ugaSeq \/ ugaSeq' = ugaSeq + 1)
  BY <1>t, RowsStepOfNext DEF TypeOK, RowsStep, Assign, DeferUnassignGroup
<1>3. ASSUME NEW w \in Removers, NEW c \in Marked(w)'
      PROVE  c.id < ugaSeq' /\ \A b \in ugas' : b.id = c.id => b.remove
  <2>1. c \in Marked(w) \/ (c \in ugas /\ c.remove)
    BY <1>t, MarkedStep
  <2>2. c.id \in Nat
    BY <1>t, <2>1 DEF Marked, TypeOK, Uga, NoUga, NoId
  <2>3. c.id < ugaSeq /\ \A b \in ugas : b.id = c.id => b.remove
    BY <1>t, <2>1 DEF MarkedOK, IdsOK
  <2>4. c.id < ugaSeq'
    BY <1>2, <2>2, <2>3
  <2>5. ASSUME NEW b \in ugas', b.id = c.id PROVE b.remove
    <3>1. b.id # ugaSeq
      BY <1>2, <2>2, <2>3, <2>5
    <3> QED BY <2>3, <2>5, <3>1, RowOrigin DEF RowFrom
  <2> QED BY <2>4, <2>5
<1> QED BY <1>1, <1>3 DEF MarkedOK

-----------------------------------------------------------------------------
\* A sharing of a parent group, a subgroup that stays in it, and its member.
Above(a, e, s) == a.parent = e.child /\ e.parent = s.group /\ ~s.copy /\ ~e.remove

\* A row that took the way from the one to the other, in whichever of the two
\* forms: only a deletion by one of the two memberships can hit it.
SubRow(x, s, a, e) ==
    ~x.generic /\ x.grs = s.id /\ x.uga = a.id /\ x.path \subseteq {a.id, e.id}

HasSub(rows, s, a, e) == \E x \in rows : SubRow(x, s, a, e)

\* The row is there, or the membership that was assigned last is pending: the
\* run that applies it finds the other one.
SubServed ==
    \A a \in UserUgas, e \in GroupUgas, s \in grss : Above(a, e, s) =>
        \/ HasSub(urss, s, a, e)
        \/ a.id < e.id /\ e.apply
        \/ e.id < a.id /\ a.apply

\* While that run works on it, the row is there or among those to be written,
\* or the sharing is among those to be copied.
SubHeld(w, a, e, s) ==
    /\ apc[w] \in {"super", "direct"} /\ a.id = acur[w].id /\ e.id < a.id =>
           HasSub(urss \cup atodo[w], s, a, e)
    /\ apc[w] = "copy" /\ e.id = acur[w].id /\ a.id < e.id =>
           HasSub(urss, s, a, e) \/ s.id \in Ids(acopy[w])

SubInHand ==
    \A w \in Appliers : \A a \in UserUgas, e \in GroupUgas, s \in grss :
        Above(a, e, s) => SubHeld(w, a, e, s)

SubInv == GraphOK /\ MarkedOK /\ SubServed /\ SubInHand

LEMMA UpsertKeepsSubRows ==
    ASSUME NEW new, NEW s, NEW a, NEW e, NEW more, HasSub(urss \cup more, s, a, e)
    PROVE  HasSub(Upsert(new) \cup more, s, a, e)
<1>1. PICK x \in urss \cup more : SubRow(x, s, a, e)
  BY DEF HasSub
<1>2. CASE \E y \in new : SameSharing(x, y)
  <2>1. PICK y \in new : SameSharing(x, y)
    BY <1>2
  <2>2. SubRow(y, s, a, e)
    BY <1>1, <2>1 DEF SameSharing, SubRow
  <2> QED BY <2>2 DEF HasSub, Upsert
<1>3. CASE ~\E y \in new : SameSharing(x, y)
  BY <1>1, <1>3 DEF HasSub, Upsert
<1> QED BY <1>2, <1>3

\* A sharing of the parent group goes to the members of the subgroup, whatever
\* is pending,
LEMMA PropagationServesSubgroups ==
    ASSUME GraphOK, NEW s, NEW id, NEW t, t.id = id,
           NEW a \in UserUgas, NEW e \in GroupUgas, a.parent = e.child
    PROVE  HasSub(Upsert(PropagatedRows(s, id, e.parent, {})), t, a, e)
<1> DEFINE m == [uga |-> a, path |-> Ids({e})]
           x == PropagatedRow(s.record, m.uga.child, id, m.uga.id, {} \cup m.path, s.edit)
<1>1. {e} \in Chains(a.parent, e.parent)
  BY EdgeIsChain
<1>2. m \in MembersBelow(e.parent)
  BY <1>1 DEF MembersBelow, SubgroupMembers
<1>3. x \in PropagatedRows(s, id, e.parent, {})
  BY <1>2 DEF PropagatedRows
<1>4. SubRow(x, t, a, e)
  BY DEF SubRow, PropagatedRow, Ids
<1> HIDE DEF x
<1> QED BY <1>3, <1>4 DEF HasSub, Upsert

\* and so does the copy that is made for the subgroup.
LEMMA CopyServesSubgroups ==
    ASSUME NEW s, NEW id, NEW t, t.id = id,
           NEW a \in UserUgas, NEW e \in GroupUgas, a.parent = e.child
    PROVE  HasSub(Upsert(PropagatedRows(s, id, e.child, {e.id})), t, a, e)
<1> DEFINE m == [uga |-> a, path |-> {}]
           x == PropagatedRow(s.record, m.uga.child, id, m.uga.id, {e.id} \cup m.path, s.edit)
<1>1. m \in MembersBelow(e.child)
  BY DEF MembersBelow, DirectMembers
<1>2. x \in PropagatedRows(s, id, e.child, {e.id})
  BY <1>1 DEF PropagatedRows
<1>3. SubRow(x, t, a, e)
  BY DEF SubRow, PropagatedRow
<1> HIDE DEF x
<1> QED BY <1>2, <1>3 DEF HasSub, Upsert

\* What a step outside the loops of the applier may do to a sharing, a subgroup
\* and its member: keep them, serve them, or be the assignment of one of them.
LEMMA SubFrame ==
    ASSUME TypeOK', SubServed, SubInHand, UNCHANGED <<apc, acur, atodo, acopy>>,
           \A a \in UserUgas', e \in GroupUgas', s \in grss' : Above(a, e, s) =>
               \/ \E b \in UserUgas, f \in GroupUgas, t \in grss :
                      /\ Above(b, f, t) /\ b.id = a.id /\ f.id = e.id /\ t.id = s.id
                      /\ b.apply => a.apply
                      /\ f.apply => e.apply
               \/ HasSub(urss', s, a, e)
               \/ /\ e.id < a.id /\ a.apply
                  /\ \A w \in Appliers : apc[w] \in {"super", "direct"} => acur[w].id # a.id
               \/ /\ a.id < e.id /\ e.apply
                  /\ \A w \in Appliers : apc[w] = "copy" => acur[w].id # e.id,
           \A a \in UserUgas', e \in GroupUgas', s \in grss' : \A more :
               Above(a, e, s) /\ HasSub(urss \cup more, s, a, e) =>
                   HasSub(urss' \cup more, s, a, e)
    PROVE  SubServed' /\ SubInHand'
<1> SUFFICES ASSUME NEW a \in UserUgas', NEW e \in GroupUgas', NEW s \in grss', Above(a, e, s)
             PROVE  /\ \/ HasSub(urss', s, a, e)
                       \/ a.id < e.id /\ e.apply
                       \/ e.id < a.id /\ a.apply
                    /\ \A w \in Appliers :
                        /\ apc[w] \in {"super", "direct"} /\ a.id = acur[w].id /\ e.id < a.id =>
                               HasSub(urss' \cup atodo[w], s, a, e)
                        /\ apc[w] = "copy" /\ e.id = acur[w].id /\ a.id < e.id =>
                               HasSub(urss', s, a, e) \/ s.id \in Ids(acopy[w])
  BY Zenon DEF SubServed, SubInHand, SubHeld
<1>1. CASE \E b \in UserUgas, f \in GroupUgas, t \in grss :
               /\ Above(b, f, t) /\ b.id = a.id /\ f.id = e.id /\ t.id = s.id
               /\ b.apply => a.apply
               /\ f.apply => e.apply
  <2>1. PICK b \in UserUgas, f \in GroupUgas, t \in grss :
               /\ Above(b, f, t) /\ b.id = a.id /\ f.id = e.id /\ t.id = s.id
               /\ b.apply => a.apply
               /\ f.apply => e.apply
    BY <1>1
  <2>2. \A rows : HasSub(rows, t, b, f) <=> HasSub(rows, s, a, e)
    BY <2>1 DEF HasSub, SubRow
  <2>3. \A more : HasSub(urss \cup more, s, a, e) => HasSub(urss' \cup more, s, a, e)
    BY Zenon
  <2>4. HasSub(urss, s, a, e) => HasSub(urss', s, a, e)
    <3>1. urss \cup {} = urss /\ urss' \cup {} = urss'
      OBVIOUS
    <3> QED BY <2>3, <3>1
  <2>5. \/ HasSub(urss', s, a, e)
        \/ a.id < e.id /\ e.apply
        \/ e.id < a.id /\ a.apply
    BY <2>1, <2>2, <2>4 DEF SubServed
  <2>6. ASSUME NEW w \in Appliers, apc[w] \in {"super", "direct"}, a.id = acur[w].id, e.id < a.id
        PROVE  HasSub(urss' \cup atodo[w], s, a, e)
    <3>1. HasSub(urss \cup atodo[w], t, b, f)
      BY <2>1, <2>6 DEF SubInHand, SubHeld
    <3>2. HasSub(urss \cup atodo[w], s, a, e)
      BY <2>2, <3>1
    <3> QED BY <2>3, <3>2, Zenon
  <2>7. ASSUME NEW w \in Appliers, apc[w] = "copy", e.id = acur[w].id, a.id < e.id
        PROVE  HasSub(urss', s, a, e) \/ s.id \in Ids(acopy[w])
    BY <2>1, <2>2, <2>4, <2>7 DEF SubInHand, SubHeld
  <2> QED BY <2>5, <2>6, <2>7
<1>2. CASE HasSub(urss', s, a, e)
  BY <1>2 DEF HasSub
<1>n. a.id \in Nat /\ e.id \in Nat
  BY DEF TypeOK, UserUgas, GroupUgas, Uga
<1>3. CASE /\ e.id < a.id /\ a.apply
           /\ \A w \in Appliers : apc[w] \in {"super", "direct"} => acur[w].id # a.id
  BY <1>3, <1>n
<1>4. CASE /\ a.id < e.id /\ e.apply
           /\ \A w \in Appliers : apc[w] = "copy" => acur[w].id # e.id
  BY <1>4, <1>n
<1> QED BY <1>1, <1>2, <1>3, <1>4

\* A deletion that spares the rows of what remains.
LEMMA FewerSubFrame ==
    ASSUME TypeOK', SubServed, SubInHand, UNCHANGED <<apc, acur, atodo, acopy>>,
           ugas' \subseteq ugas, grss' \subseteq grss,
           \A x \in urss, a \in UserUgas', e \in GroupUgas', s \in grss' :
               ~e.remove /\ SubRow(x, s, a, e) => x \in urss'
    PROVE  SubServed' /\ SubInHand'
<1>1. /\ \A a \in UserUgas' : a \in UserUgas
      /\ \A e \in GroupUgas' : e \in GroupUgas
  BY DEF UserUgas, GroupUgas
<1>2. \A a \in UserUgas', e \in GroupUgas', s \in grss' : \A more :
          Above(a, e, s) /\ HasSub(urss \cup more, s, a, e) => HasSub(urss' \cup more, s, a, e)
  BY DEF HasSub, Above
<1> QED BY <1>1, <1>2, SubFrame

LEMMA SubInit == Init => SubInv
<1> SUFFICES ASSUME Init PROVE SubInv
  OBVIOUS
<1>1. ugas = {}
  BY DEF Init
<1>2. SubServed /\ SubInHand
  BY <1>1 DEF SubServed, SubInHand, UserUgas
<1> QED BY <1>2, GraphInit, MarkedInit DEF SubInv

LEMMA SubSharingCall ==
    ASSUME IInv, IInv', SubInv, SharingCall PROVE SubServed' /\ SubInHand'
<1> USE DEF applierVars, removerVars
<1>t. TypeOK' /\ IdsOK /\ SubServed /\ SubInHand /\ GraphOK
  BY DEF IInv, TypeInv, SubInv
<1>1. ASSUME NEW u, NEW r, NEW edit, ShareRecord(u, r, edit) PROVE SubServed' /\ SubInHand'
  <2>1. /\ urss' = Upsert({GenericRow(u, r, edit)})
        /\ UNCHANGED <<ugas, grss, apc, acur, atodo, acopy>>
    BY <1>1 DEF ShareRecord
  <2>2. \A s, a, e, more : HasSub(urss \cup more, s, a, e) => HasSub(urss' \cup more, s, a, e)
    BY <2>1, UpsertKeepsSubRows
  <2> QED BY <1>t, <2>1, <2>2, SubFrame DEF UserUgas, GroupUgas
<1>2. ASSUME NEW us, NEW r, UnshareRecord(us, r) PROVE SubServed' /\ SubInHand'
  <2>1. /\ urss' = {x \in urss : ~(x.generic /\ x.record = r /\ x.user \in us)}
        /\ UNCHANGED <<ugas, grss, apc, acur, atodo, acopy>>
    BY <1>2 DEF UnshareRecord
  <2> QED BY <1>t, <2>1, FewerSubFrame DEF SubRow
<1>3. ASSUME NEW r, NEW g, NEW edit, NEW generic, ShareRecordWithGroup(r, g, edit, generic)
      PROVE  SubServed' /\ SubInHand'
  <2> DEFINE same == {s \in grss : generic /\ s.generic /\ s.record = r /\ s.group = g}
             id == IF same = {} THEN grsSeq ELSE (CHOOSE s \in same : TRUE).id
             s == [id |-> id, record |-> r, group |-> g, edit |-> edit,
                   generic |-> generic, copy |-> FALSE]
  <2>1. /\ grss' = {t \in grss : t.id # id} \cup {s}
        /\ urss' = Upsert(PropagatedRows(s, id, g, {}))
        /\ UNCHANGED <<groups, ugas, ugaSeq, applierVars, removerVars, faults>>
    BY <1>3, Zenon DEF ShareRecordWithGroup
  <2>2. s.id = id /\ s.group = g
    OBVIOUS
  <2> HIDE DEF same, id, s
  <2>3. \A t, a, e, more : HasSub(urss \cup more, t, a, e) => HasSub(urss' \cup more, t, a, e)
    BY <2>1, UpsertKeepsSubRows
  <2>4. ASSUME NEW a \in UserUgas, NEW e \in GroupUgas, Above(a, e, s) PROVE HasSub(urss', s, a, e)
    BY <1>t, <2>1, <2>2, <2>4, PropagationServesSubgroups DEF Above
  <2>5. UserUgas' = UserUgas /\ GroupUgas' = GroupUgas /\ UNCHANGED <<apc, acur, atodo, acopy>>
    BY <2>1 DEF UserUgas, GroupUgas
  <2>6. \A t \in grss' : t \in grss \/ t = s
    BY <2>1
  <2> QED BY <1>t, <2>3, <2>4, <2>5, <2>6, SubFrame
<1>4. ASSUME NEW r, NEW gs, NEW kinds, UnshareRecordWithGroup(r, gs, kinds)
      PROVE  SubServed' /\ SubInHand'
  <2> DEFINE gone == {s \in grss : s.record = r /\ s.group \in gs /\ s.generic \in kinds}
  <2>1. /\ grss' = grss \ gone /\ urss' = {x \in urss : x.generic \/ x.grs \notin Ids(gone)}
        /\ UNCHANGED <<ugas, apc, acur, atodo, acopy>>
    BY <1>4, Zenon DEF UnshareRecordWithGroup
  <2>2. \A s \in grss' : s.id \notin Ids(gone)
    BY <1>t, <2>1 DEF IdsOK, Ids
  <2> QED BY <1>t, <2>1, <2>2, FewerSubFrame DEF SubRow
<1> QED BY <1>1, <1>2, <1>3, <1>4, Zenon DEF SharingCall

LEMMA SubGroupCall ==
    ASSUME IInv, IInv', SubInv, GroupCall PROVE SubServed' /\ SubInHand'
<1> USE DEF applierVars, removerVars
<1>t. TypeOK /\ TypeOK' /\ IdsOK /\ LoadedOK /\ CurrentOK /\ SubServed /\ SubInHand
  BY DEF IInv, TypeInv, SubInv
<1>1. ASSUME NEW c, NEW g, Assign(c, g) PROVE SubServed' /\ SubInHand'
  <2> DEFINE row == [id |-> ugaSeq, parent |-> g, child |-> c, apply |-> TRUE, remove |-> FALSE]
  <2>1. /\ ugas' = ugas \cup {row} /\ row.id = ugaSeq /\ row.apply
        /\ UNCHANGED <<grss, urss, apc, acur, atodo, acopy>>
    BY <1>1 DEF Assign
  <2> HIDE DEF row
  <2>2. ugaSeq \in Nat /\ \A a \in ugas : a.id \in Nat /\ a.id < ugaSeq
    BY <1>t DEF IdsOK, TypeOK, Uga
  <2>3. \A w \in Appliers : apc[w] \in {"super", "direct", "copy"} => acur[w].id # ugaSeq
    <3>1. \A w \in Appliers : \A a \in Loaded(w) : a.id < ugaSeq
      BY <1>t DEF LoadedOK
    <3>2. \A w \in Appliers : apc[w] \in {"super", "direct", "copy"} =>
              acur[w] \in Loaded(w) /\ acur[w].id \in Nat
      BY <1>t DEF CurrentOK, Loaded, Uga
    <3> QED BY <2>2, <3>1, <3>2
  <2>4. ASSUME NEW a \in UserUgas', NEW e \in GroupUgas', a = row \/ e = row
        PROVE  \/ /\ e.id < a.id /\ a.apply
                  /\ \A w \in Appliers : apc[w] \in {"super", "direct"} => acur[w].id # a.id
               \/ /\ a.id < e.id /\ e.apply
                  /\ \A w \in Appliers : apc[w] = "copy" => acur[w].id # e.id
    <3>1. a.child # e.child
      BY SharingAssumption DEF UserUgas, GroupUgas
    <3>2. a \in ugas \cup {row} /\ e \in ugas \cup {row}
      BY <2>1 DEF UserUgas, GroupUgas
    <3>3. CASE a = row
      BY <2>1, <2>2, <2>3, <3>1, <3>2, <3>3
    <3>4. CASE e = row
      BY <2>1, <2>2, <2>3, <3>1, <3>2, <3>4
    <3> QED BY <2>4, <3>3, <3>4
  <2>5. /\ \A a \in UserUgas' : a \in UserUgas \/ a = row
        /\ \A e \in GroupUgas' : e \in GroupUgas \/ e = row
    BY <2>1 DEF UserUgas, GroupUgas
  <2> QED BY <1>t, <2>1, <2>4, <2>5, SubFrame
<1>2. ASSUME NEW u, NEW g, UnassignUserFromGroup(u, g) PROVE SubServed' /\ SubInHand'
  <2> DEFINE gone == {a \in ugas : a.child = u /\ a.parent = g}
  <2>1. /\ ugas' = ugas \ gone /\ urss' = {x \in urss : x.generic \/ x.uga \notin Ids(gone)}
        /\ UNCHANGED <<grss, apc, acur, atodo, acopy>>
    BY <1>2, Zenon DEF UnassignUserFromGroup
  <2>2. \A a \in ugas' : a.id \notin Ids(gone)
    BY <1>t, <2>1 DEF IdsOK, Ids
  <2> QED BY <1>t, <2>1, <2>2, FewerSubFrame DEF SubRow, UserUgas
<1>3. ASSUME NEW c, NEW g, UnassignGroupFromGroup(c, g) PROVE SubServed' /\ SubInHand'
  <2> DEFINE gone == {a \in ugas : a.child = c /\ a.parent = g}
  <2>1. /\ ugas' = ugas \ gone /\ urss' = {x \in urss : x.path \cap Ids(gone) = {}}
        /\ UNCHANGED <<grss, apc, acur, atodo, acopy>>
    BY <1>3, Zenon DEF UnassignGroupFromGroup
  <2>2. \A a \in ugas' : a.id \notin Ids(gone)
    BY <1>t, <2>1 DEF IdsOK, Ids
  <2> QED BY <1>t, <2>1, <2>2, FewerSubFrame DEF SubRow, UserUgas, GroupUgas
<1>4. ASSUME NEW c, NEW g, DeferUnassignGroup(c, g) PROVE SubServed' /\ SubInHand'
  <2>1. PICK a \in ugas : ugas' = (ugas \ {a}) \cup {[a EXCEPT !.remove = TRUE]}
    BY <1>4 DEF DeferUnassignGroup
  <2>2. UNCHANGED <<grss, urss, apc, acur, atodo, acopy>>
    BY <1>4 DEF DeferUnassignGroup
  <2>3. PICK new : new = [a EXCEPT !.remove = TRUE]
    OBVIOUS
  <2>4. /\ ugas' = (ugas \ {a}) \cup {new}
        /\ new.id = a.id /\ new.parent = a.parent /\ new.child = a.child
        /\ new.apply = a.apply /\ new.remove
    BY <1>t, <2>1, <2>3 DEF TypeOK, Uga
  <2>5. \A b \in ugas' : \E d \in ugas :
            /\ d.id = b.id /\ d.parent = b.parent /\ d.child = b.child /\ d.apply = b.apply
            /\ ~b.remove => ~d.remove
    BY <2>4
  <2>6. /\ \A b \in UserUgas' : \E d \in UserUgas :
               d.id = b.id /\ d.parent = b.parent /\ d.apply = b.apply
        /\ \A b \in GroupUgas' : \E d \in GroupUgas :
               /\ d.id = b.id /\ d.parent = b.parent /\ d.child = b.child /\ d.apply = b.apply
               /\ ~b.remove => ~d.remove
    BY <2>5 DEF UserUgas, GroupUgas
  <2>7. \A b \in UserUgas', e \in GroupUgas', s \in grss' : Above(b, e, s) =>
            \E d \in UserUgas, f \in GroupUgas, t \in grss :
                /\ Above(d, f, t) /\ d.id = b.id /\ f.id = e.id /\ t.id = s.id
                /\ d.apply => b.apply
                /\ f.apply => e.apply
    BY <2>2, <2>6 DEF Above
  <2> QED BY <1>t, <2>2, <2>7, SubFrame
<1>5. ASSUME NEW a, DeleteUserGroupAssignment(a) PROVE SubServed' /\ SubInHand'
  <2>1. ugas' = ugas \ {a} /\ UNCHANGED <<grss, urss, apc, acur, atodo, acopy>>
    BY <1>5 DEF DeleteUserGroupAssignment
  <2> QED BY <1>t, <2>1, FewerSubFrame
<1>6. ASSUME NEW g, DeleteGroup(g) PROVE SubServed' /\ SubInHand'
  <2> DEFINE shared == {s \in grss : s.group = g}
             memberships == {a \in ugas : a.child = g}
  <2>1. /\ urss' = {x \in urss : /\ x.generic \/ x.grs \notin Ids(shared)
                                 /\ x.path \cap Ids(memberships) = {}}
        /\ grss' = grss \ shared
        /\ ugas' = {a \in ugas : a.child # g /\ a.parent # g}
        /\ UNCHANGED <<apc, acur, atodo, acopy>>
    BY <1>6, Zenon DEF DeleteGroup
  <2>2. \A s \in grss' : s.id \notin Ids(shared)
    BY <1>t, <2>1 DEF IdsOK, Ids
  <2>3. \A a \in ugas' : a.id \notin Ids(memberships)
    BY <1>t, <2>1 DEF IdsOK, Ids
  <2> QED BY <1>t, <2>1, <2>2, <2>3, FewerSubFrame DEF SubRow, UserUgas, GroupUgas
<1> QED BY <1>1, <1>2, <1>3, <1>4, <1>5, <1>6, Zenon DEF GroupCall

\* What the remover deletes by a membership names one that is marked.
LEMMA SubRemover ==
    ASSUME IInv, IInv', SubInv, NEW w \in Removers, RemoverStep(w) \/ RemoverFail(w)
    PROVE  SubServed' /\ SubInHand'
<1>t. TypeOK' /\ SubServed /\ SubInHand /\ MarkedOK
  BY DEF IInv, TypeInv, SubInv
<1>1. CASE RemoverBatch(w)
  <2>1. /\ UNCHANGED <<ugas, grss, apc, acur, atodo, acopy>> /\ rpc[w] = "batch"
        /\ \A x \in urss : rcur[w].id \notin x.path => x \in urss'
    BY <1>1 DEF RemoverBatch, applierVars
  <2>2. rcur[w] \in Marked(w)
    BY <2>1 DEF Marked
  <2>3. \A b \in ugas : b.id = rcur[w].id => b.remove /\ b.child \in Groups
    BY <1>t, <2>2 DEF MarkedOK
  <2>4. ASSUME NEW x \in urss, NEW a \in UserUgas', NEW e \in GroupUgas', NEW s \in grss',
               ~e.remove, SubRow(x, s, a, e)
        PROVE  x \in urss'
    <3>1. a \in ugas /\ e \in ugas /\ a.child \notin Groups
      BY <2>1, SharingAssumption DEF UserUgas, GroupUgas
    <3>2. rcur[w].id # a.id /\ rcur[w].id # e.id
      BY <2>3, <2>4, <3>1
    <3> QED BY <2>1, <2>4, <3>2 DEF SubRow
  <2> QED BY <1>t, <2>1, <2>4, FewerSubFrame
<1>2. CASE ~RemoverBatch(w)
  <2>1. UNCHANGED <<grss, urss, apc, acur, atodo, acopy>> /\ ugas' \subseteq ugas
    <3> USE DEF tables, applierVars
    <3>1. CASE RemoverDelete(w)
      BY <3>1 DEF RemoverDelete
    <3>2. CASE ~RemoverDelete(w)
      BY <1>2, <3>2
      DEF RemoverStep, RemoverCheck, RemoverAcquire, RemoverLoad, RemoverNext, RemoverFail,
          RemoverRelease
    <3> QED BY <3>1, <3>2
  <2> QED BY <1>t, <2>1, FewerSubFrame
<1> QED BY <1>1, <1>2

\* A run that does not change the tables, and has not more in hand than before.
LEMMA SubControl ==
    ASSUME SubServed, SubInHand, UNCHANGED <<ugas, grss, urss>>,
           \A v \in Appliers : apc'[v] \in {"super", "direct", "copy"} =>
               /\ apc'[v] = apc[v] /\ acur'[v] = acur[v]
               /\ atodo'[v] = atodo[v] /\ acopy'[v] = acopy[v]
    PROVE  SubServed' /\ SubInHand'
<1>1. UserUgas' = UserUgas /\ GroupUgas' = GroupUgas
  BY DEF UserUgas, GroupUgas
<1>2. SubServed'
  BY <1>1 DEF SubServed
<1>3. SUFFICES ASSUME NEW w \in Appliers,
                      NEW a \in UserUgas', NEW e \in GroupUgas', NEW s \in grss', Above(a, e, s)
               PROVE  SubHeld(w, a, e, s)'
  BY <1>2 DEF SubInHand
<1>4. SubHeld(w, a, e, s)
  BY <1>1, <1>3 DEF SubInHand
<1>5. CASE apc'[w] \in {"super", "direct", "copy"}
  BY <1>4, <1>5 DEF SubHeld
<1>6. CASE apc'[w] \notin {"super", "direct", "copy"}
  BY <1>6 DEF SubHeld
<1> QED BY <1>5, <1>6

\* The first query: the walk up from the group of the member finds the sharing,
\* and the path it records names the two memberships.
LEMMA SubReadSupergroups ==
    ASSUME NestingsApart, IInv, IInv', SubInv, NEW w \in Appliers, NEW c \in alist[w],
           ApplierReadSupergroups(w, c)
    PROVE  SubServed' /\ SubInHand'
<1>t. TypeOK /\ LoadedOK /\ SubServed /\ SubInHand /\ GraphOK
  BY DEF IInv, TypeInv, SubInv
<1>1. PICK seed \in Seeds(c.child) :
        atodo' = [atodo EXCEPT ![w] =
            {PropagatedRow(s.record, c.child, s.id, c.id, HierarchyPath(seed[s.group]), s.edit) :
                s \in {t \in grss : t.group \in LastLevel(GroupsOf(c.child))}}]
  BY Zenon DEF ApplierReadSupergroups
<1>2. /\ UNCHANGED <<ugas, grss, urss, acopy>>
      /\ acur' = [acur EXCEPT ![w] = c] /\ apc' = [apc EXCEPT ![w] = "super"]
  BY DEF ApplierReadSupergroups, tables, Goto
<1>3. UserUgas' = UserUgas /\ GroupUgas' = GroupUgas
  BY <1>2 DEF UserUgas, GroupUgas
<1>4. ASSUME NEW a \in UserUgas, NEW e \in GroupUgas, NEW s \in grss, Above(a, e, s), a.id = c.id
      PROVE  HasSub(atodo'[w], s, a, e)
  <2>1. a \in ugas /\ e \in ugas /\ e.parent \in Groups
    BY <1>t DEF UserUgas, GroupUgas, TypeOK, Uga
  <2>2. a.parent = c.parent /\ a.child = c.child
    BY <1>t, <1>4, <2>1 DEF LoadedOK, Loaded
  <2>3. a \in MembershipsOf(c.child) /\ e.child \in GroupsOf(c.child) /\ s.group = e.parent
    BY <1>4, <2>2 DEF MembershipsOf, GroupsOf, Above
  <2>4. /\ e.parent \in LastLevel(GroupsOf(c.child))
        /\ \A h : Reaches(h, e.parent, Height(GroupsOf(c.child))) => h = e.child
    BY <1>t, <2>1, <2>3, LevelAbove
  <2>5. /\ seed[s.group] \in MembershipsOf(c.child)
        /\ Reaches(seed[s.group].parent, s.group, Height(GroupsOf(c.child)))
    BY <2>3, <2>4 DEF Seeds
  <2>6. seed[s.group] \in ugas /\ seed[s.group].child = a.child /\ seed[s.group].parent = a.parent
    BY <1>4, <2>2, <2>3, <2>4, <2>5 DEF MembershipsOf, UserUgas, Above
  <2>7. seed[s.group] = a
    BY <1>t, <2>1, <2>6 DEF GraphOK, PairsUnique, Pair
  <2>8. HierarchyPath(seed[s.group]) \subseteq {a.id, e.id}
    BY <1>t, <1>4, <2>7, PathAbove DEF Above
  <2> DEFINE x == PropagatedRow(s.record, c.child, s.id, c.id,
                                HierarchyPath(seed[s.group]), s.edit)
  <2>9. SubRow(x, s, a, e)
    BY <1>4, <2>8 DEF SubRow, PropagatedRow
  <2>10. x \in atodo'[w]
    BY <1>t, <1>1, <2>3, <2>4 DEF TypeOK
  <2> HIDE DEF x
  <2> QED BY <2>9, <2>10 DEF HasSub
<1>5. SubServed'
  BY <1>t, <1>2, <1>3 DEF SubServed
<1>6. \A v \in Appliers \ {w} : /\ atodo'[v] = atodo[v] /\ acur'[v] = acur[v]
                                /\ apc'[v] = apc[v]
  BY <1>t, <1>1, <1>2 DEF TypeOK
<1>7. acur'[w] = c /\ apc'[w] = "super"
  BY <1>t, <1>2 DEF TypeOK
<1>8. SUFFICES ASSUME NEW v \in Appliers,
                      NEW a \in UserUgas', NEW e \in GroupUgas', NEW s \in grss', Above(a, e, s)
               PROVE  SubHeld(v, a, e, s)'
  BY <1>5 DEF SubInHand
<1>9. CASE v = w
  <2>1. a.id = c.id => HasSub(urss' \cup atodo'[w], s, a, e)
    BY <1>2, <1>3, <1>4, <1>8 DEF HasSub
  <2> QED BY <1>7, <1>9, <2>1 DEF SubHeld
<1>10. CASE v # w
  <2>1. SubHeld(v, a, e, s)
    BY <1>t, <1>2, <1>3, <1>8 DEF SubInHand
  <2> QED BY <1>2, <1>6, <1>10, <2>1 DEF SubHeld
<1> QED BY <1>9, <1>10

\* A write of either loop moves a row from the memory of the run to the table.
LEMMA SubShareNext ==
    ASSUME IInv, SubInv, NEW w \in Appliers, ApplierShareNext(w)
    PROVE  SubServed' /\ SubInHand'
<1>t. TypeOK /\ SubServed /\ SubInHand
  BY DEF IInv, TypeInv, SubInv
<1>1. PICK x \in atodo[w] : urss' = Upsert({x}) /\ atodo' = [atodo EXCEPT ![w] = @ \ {x}]
  BY DEF ApplierShareNext
<1>2. UNCHANGED <<ugas, grss, apc, acur, acopy>>
  BY DEF ApplierShareNext
<1>3. UserUgas' = UserUgas /\ GroupUgas' = GroupUgas
  BY <1>2 DEF UserUgas, GroupUgas
<1>4. \A s, a, e, more : HasSub(urss \cup more, s, a, e) => HasSub(urss' \cup more, s, a, e)
  BY <1>1, UpsertKeepsSubRows
<1>5. \A s, a, e : HasSub(urss, s, a, e) => HasSub(urss', s, a, e)
  <2>1. urss \cup {} = urss /\ urss' \cup {} = urss'
    OBVIOUS
  <2> QED BY <1>4, <2>1
<1>6. \A v \in Appliers : \A s, a, e :
          HasSub(urss \cup atodo[v], s, a, e) => HasSub(urss' \cup atodo'[v], s, a, e)
  <2>1. SUFFICES ASSUME NEW v \in Appliers, NEW s, NEW a, NEW e, HasSub(urss \cup atodo[v], s, a, e)
                 PROVE  HasSub(urss' \cup atodo'[v], s, a, e)
    OBVIOUS
  <2>2. HasSub(urss' \cup atodo[v], s, a, e)
    BY <1>4, <2>1
  <2>3. x \in urss'
    BY <1>1 DEF Upsert
  <2>4. atodo[v] \subseteq atodo'[v] \cup {x}
    BY <1>t, <1>1 DEF TypeOK
  <2> QED BY <2>2, <2>3, <2>4 DEF HasSub
<1>7. SubServed'
  BY <1>t, <1>2, <1>3, <1>5 DEF SubServed
<1>8. SUFFICES ASSUME NEW v \in Appliers,
                      NEW a \in UserUgas', NEW e \in GroupUgas', NEW s \in grss', Above(a, e, s)
               PROVE  SubHeld(v, a, e, s)'
  BY <1>7 DEF SubInHand
<1>9. SubHeld(v, a, e, s)
  BY <1>t, <1>2, <1>3, <1>8 DEF SubInHand
<1> QED BY <1>2, <1>5, <1>6, <1>9 DEF SubHeld

\* The second query is made when the first loop has written all its rows.
LEMMA SubReadDirect ==
    ASSUME IInv, SubInv, NEW w \in Appliers, ApplierReadDirect(w)
    PROVE  SubServed' /\ SubInHand'
<1>t. TypeOK /\ SubServed /\ SubInHand
  BY DEF IInv, TypeInv, SubInv
<1> DEFINE rows == {PropagatedRow(s.record, acur[w].child, s.id, acur[w].id, {}, s.edit) :
                       s \in {t \in grss : t.group = acur[w].parent}}
<1>1. atodo' = [atodo EXCEPT ![w] = rows]
  BY Zenon DEF ApplierReadDirect
<1> HIDE DEF rows
<1>2. /\ UNCHANGED <<ugas, grss, urss, acur, acopy>> /\ atodo[w] = {}
      /\ apc' = [apc EXCEPT ![w] = "direct"] /\ apc[w] = "super"
  BY DEF ApplierReadDirect, tables, Goto
<1>3. UserUgas' = UserUgas /\ GroupUgas' = GroupUgas
  BY <1>2 DEF UserUgas, GroupUgas
<1>4. SubServed'
  BY <1>t, <1>2, <1>3 DEF SubServed
<1>5. \A v \in Appliers : /\ atodo[v] \subseteq atodo'[v]
                          /\ apc'[v] \in {"super", "direct"} => apc[v] \in {"super", "direct"}
                          /\ apc'[v] = "copy" => apc[v] = "copy"
  BY <1>t, <1>1, <1>2 DEF TypeOK
<1>6. SUFFICES ASSUME NEW v \in Appliers,
                      NEW a \in UserUgas', NEW e \in GroupUgas', NEW s \in grss', Above(a, e, s)
               PROVE  SubHeld(v, a, e, s)'
  BY <1>4 DEF SubInHand
<1>7. SubHeld(v, a, e, s)
  BY <1>t, <1>2, <1>3, <1>6 DEF SubInHand
<1>8. HasSub(urss \cup atodo[v], s, a, e) => HasSub(urss' \cup atodo'[v], s, a, e)
  BY <1>2, <1>5 DEF HasSub
<1> QED BY <1>2, <1>5, <1>7, <1>8 DEF SubHeld

\* The copies to be made for a subgroup include every sharing of its parent.
LEMMA SubReadParents ==
    ASSUME IInv, SubInv, NEW w \in Appliers, NEW c \in alist[w], ApplierReadParents(w, c)
    PROVE  SubServed' /\ SubInHand'
<1>t. TypeOK /\ LoadedOK /\ SubServed /\ SubInHand
  BY DEF IInv, TypeInv, SubInv
<1>1. /\ UNCHANGED <<ugas, grss, urss, atodo>>
      /\ acur' = [acur EXCEPT ![w] = c] /\ apc' = [apc EXCEPT ![w] = "copy"]
      /\ acopy' = [acopy EXCEPT ![w] =
             {s \in grss : s.group \in {c.parent} \cup LastLevel({c.parent})}]
  BY DEF ApplierReadParents, tables, Goto
<1>2. UserUgas' = UserUgas /\ GroupUgas' = GroupUgas
  BY <1>1 DEF UserUgas, GroupUgas
<1>3. ASSUME NEW a \in UserUgas, NEW e \in GroupUgas, NEW s \in grss, Above(a, e, s), e.id = c.id
      PROVE  s.id \in Ids(acopy'[w])
  <2>1. e.parent = c.parent
    BY <1>t, <1>3 DEF LoadedOK, Loaded, GroupUgas
  <2>2. s \in acopy'[w]
    BY <1>t, <1>1, <1>3, <2>1 DEF TypeOK, Above
  <2> QED BY <2>2 DEF Ids
<1>4. \A v \in Appliers \ {w} : acopy'[v] = acopy[v] /\ acur'[v] = acur[v] /\ apc'[v] = apc[v]
  BY <1>t, <1>1 DEF TypeOK
<1>5. acur'[w] = c /\ apc'[w] = "copy"
  BY <1>t, <1>1 DEF TypeOK
<1>6. SubServed'
  BY <1>t, <1>1, <1>2 DEF SubServed
<1>7. SUFFICES ASSUME NEW v \in Appliers,
                      NEW a \in UserUgas', NEW e \in GroupUgas', NEW s \in grss', Above(a, e, s)
               PROVE  SubHeld(v, a, e, s)'
  BY <1>6 DEF SubInHand
<1>8. CASE v = w
  BY <1>1, <1>2, <1>3, <1>5, <1>7, <1>8 DEF SubHeld
<1>9. CASE v # w
  <2>1. SubHeld(v, a, e, s)
    BY <1>t, <1>1, <1>2, <1>7 DEF SubInHand
  <2> QED BY <1>1, <1>4, <1>9, <2>1 DEF SubHeld
<1> QED BY <1>8, <1>9

\* The copy of a sharing serves the members of the subgroup under the identifier
\* of the original.
LEMMA SubCopyNext ==
    ASSUME IInv, SubInv, NEW w \in Appliers, ApplierCopyNext(w)
    PROVE  SubServed' /\ SubInHand'
<1>t. TypeOK /\ CurrentOK /\ LoadedOK /\ SubServed /\ SubInHand
  BY DEF IInv, TypeInv, SubInv
<1>s. PICK s0 \in acopy[w] :
        IF acur[w].child \in groups
        THEN /\ grss' = grss \cup {[id |-> grsSeq, record |-> s0.record, group |-> acur[w].child,
                                   edit |-> s0.edit, generic |-> FALSE, copy |-> TRUE]}
             /\ grsSeq' = grsSeq + 1
             /\ urss' = Upsert(PropagatedRows(s0, s0.id, acur[w].child, {acur[w].id}))
             /\ acopy' = [acopy EXCEPT ![w] = @ \ {s0}]
             /\ UNCHANGED apc
        ELSE Goto(w, "release") /\ UNCHANGED <<grss, grsSeq, urss, acopy>>
  BY Zenon DEF ApplierCopyNext
<1>1. UNCHANGED <<ugas, acur, atodo>> /\ apc[w] = "copy"
  BY DEF ApplierCopyNext
<1>2. UserUgas' = UserUgas /\ GroupUgas' = GroupUgas
  BY <1>1 DEF UserUgas, GroupUgas
<1>3. CASE acur[w].child \in groups
  <2>1. /\ urss' = Upsert(PropagatedRows(s0, s0.id, acur[w].child, {acur[w].id}))
        /\ acopy' = [acopy EXCEPT ![w] = @ \ {s0}]
        /\ UNCHANGED apc
    BY <1>s, <1>3
  <2>2. \A s \in grss' : s \in grss \/ s.copy
    BY <1>s, <1>3
  <2>3. \A s, a, e, more : HasSub(urss \cup more, s, a, e) => HasSub(urss' \cup more, s, a, e)
    BY <2>1, UpsertKeepsSubRows
  <2>4. \A s, a, e : HasSub(urss, s, a, e) => HasSub(urss', s, a, e)
    <3>1. urss \cup {} = urss /\ urss' \cup {} = urss'
      OBVIOUS
    <3> QED BY <2>3, <3>1
  <2>5. ASSUME NEW a \in UserUgas, NEW e \in GroupUgas, NEW s, a.parent = e.child,
               e.id = acur[w].id, s.id \in Ids(acopy[w])
        PROVE  HasSub(urss', s, a, e) \/ s.id \in Ids(acopy'[w])
    <3>1. acur[w] \in Loaded(w)
      BY <1>t, <1>1 DEF CurrentOK, Loaded
    <3>2. e.child = acur[w].child
      BY <1>t, <2>5, <3>1 DEF LoadedOK, GroupUgas
    <3>3. CASE s.id = s0.id
      BY <2>1, <2>5, <3>2, <3>3, CopyServesSubgroups
    <3>4. CASE s.id # s0.id
      <4>1. PICK z \in acopy[w] : z.id = s.id
        BY <2>5 DEF Ids
      <4>2. z \in acopy'[w]
        BY <1>t, <2>1, <3>4, <4>1 DEF TypeOK
      <4> QED BY <4>1, <4>2 DEF Ids
    <3> QED BY <3>3, <3>4
  <2>6. SubServed'
    BY <1>t, <1>2, <2>2, <2>4 DEF SubServed, Above
  <2>7. SUFFICES ASSUME NEW v \in Appliers,
                        NEW a \in UserUgas', NEW e \in GroupUgas', NEW s \in grss', Above(a, e, s)
                 PROVE  SubHeld(v, a, e, s)'
    BY <2>6 DEF SubInHand
  <2>8. SubHeld(v, a, e, s) /\ a.parent = e.child
    BY <1>t, <1>2, <2>2, <2>7 DEF SubInHand, Above
  <2>9. ASSUME apc[v] = "copy", e.id = acur[v].id, a.id < e.id
        PROVE  HasSub(urss', s, a, e) \/ s.id \in Ids(acopy'[v])
    <3>1. HasSub(urss, s, a, e) \/ s.id \in Ids(acopy[v])
      BY <2>8, <2>9 DEF SubHeld
    <3>2. CASE v = w
      BY <1>2, <2>4, <2>5, <2>7, <2>8, <2>9, <3>1, <3>2
    <3>3. CASE v # w
      BY <1>t, <2>1, <2>4, <3>1, <3>3 DEF TypeOK
    <3> QED BY <3>2, <3>3
  <2>10. ASSUME apc[v] \in {"super", "direct"}, a.id = acur[v].id, e.id < a.id
         PROVE  HasSub(urss' \cup atodo[v], s, a, e)
    BY <2>3, <2>8, <2>10 DEF SubHeld
  <2> QED BY <1>1, <2>1, <2>9, <2>10 DEF SubHeld
<1>4. CASE acur[w].child \notin groups
  <2>1. UNCHANGED <<grss, urss, acopy>> /\ apc' = [apc EXCEPT ![w] = "release"]
    BY <1>s, <1>4 DEF Goto
  <2>2. \A v \in Appliers : apc'[v] \in {"super", "direct", "copy"} => apc'[v] = apc[v]
    BY <1>t, <2>1 DEF TypeOK
  <2> QED BY <1>t, <1>1, <2>1, <2>2, SubControl
<1> QED BY <1>3, <1>4

\* The save: when the membership that was assigned last is applied, nothing that
\* goes this way is left in hand.
LEMMA SubMark ==
    ASSUME IInv, IInv', SubInv, NEW w \in Appliers, ApplierMark(w)
    PROVE  SubServed' /\ SubInHand'
<1>t. TypeOK /\ TypeOK' /\ CurrentOK /\ LoadedOK /\ SubServed /\ SubInHand
  BY DEF IInv, TypeInv, SubInv
<1>1. /\ \/ apc[w] = "direct" /\ atodo[w] = {}
         \/ apc[w] = "copy" /\ acopy[w] = {}
      /\ ugas' = SaveApplied(acur[w])
      /\ acur' = [acur EXCEPT ![w] = NoUga]
      /\ \E pc \in {"next", "release"} : apc' = [apc EXCEPT ![w] = pc]
      /\ UNCHANGED <<grss, urss, atodo, acopy>>
  BY DEF ApplierMark, Goto
<1> DEFINE saved(b) == IF b.id = acur[w].id THEN [b EXCEPT !.apply = FALSE] ELSE b
<1>2. ASSUME NEW b \in ugas
      PROVE  /\ saved(b).id = b.id /\ saved(b).parent = b.parent /\ saved(b).child = b.child
             /\ saved(b).remove = b.remove
             /\ b.id # acur[w].id => saved(b) = b
  BY <1>t, <1>2 DEF TypeOK, Uga
<1>s. ugas' = {saved(b) : b \in ugas}
  BY <1>1, Zenon DEF SaveApplied
<1> HIDE DEF saved
<1>3. \A b \in ugas' : \E c \in ugas :
          /\ c.id = b.id /\ c.parent = b.parent /\ c.child = b.child /\ c.remove = b.remove
          /\ b.id # acur[w].id => b = c
  BY <1>2, <1>s
<1>4. ASSUME NEW a \in UserUgas', NEW e \in GroupUgas', NEW s \in grss', Above(a, e, s)
      PROVE  \E b \in UserUgas, f \in GroupUgas :
                 /\ s \in grss /\ Above(b, f, s) /\ b.id = a.id /\ f.id = e.id
                 /\ b.id # acur[w].id => a = b
                 /\ f.id # acur[w].id => e = f
  <2>1. PICK b \in UserUgas : /\ b.id = a.id /\ b.parent = a.parent
                              /\ a.id # acur[w].id => a = b
    BY <1>3 DEF UserUgas
  <2>2. PICK f \in GroupUgas : /\ f.id = e.id /\ f.parent = e.parent /\ f.child = e.child
                               /\ f.remove = e.remove
                               /\ e.id # acur[w].id => e = f
    BY <1>3 DEF GroupUgas
  <2> QED BY <1>1, <1>4, <2>1, <2>2 DEF Above
<1>5. ASSUME NEW a, NEW e, NEW b, NEW f, NEW s, NEW rows, b.id = a.id, f.id = e.id
      PROVE  HasSub(rows, s, b, f) = HasSub(rows, s, a, e)
  BY <1>5 DEF HasSub, SubRow
<1>6. acur[w] \in Loaded(w) /\ (apc[w] = "direct" => acur[w].child \in Users)
                            /\ (apc[w] = "copy" => acur[w].child \in Groups)
  BY <1>t, <1>1 DEF CurrentOK, Loaded
<1>7. \A b \in ugas : b.id = acur[w].id => b.child = acur[w].child
  BY <1>t, <1>6 DEF LoadedOK
<1>8. SubServed'
  <2>1. SUFFICES ASSUME NEW a \in UserUgas', NEW e \in GroupUgas', NEW s \in grss', Above(a, e, s)
                 PROVE  \/ HasSub(urss', s, a, e)
                        \/ a.id < e.id /\ e.apply
                        \/ e.id < a.id /\ a.apply
    BY DEF SubServed
  <2>2. PICK b \in UserUgas, f \in GroupUgas :
             /\ s \in grss /\ Above(b, f, s) /\ b.id = a.id /\ f.id = e.id
             /\ b.id # acur[w].id => a = b
             /\ f.id # acur[w].id => e = f
    BY <1>4, <2>1
  <2>3. \/ HasSub(urss, s, b, f)
        \/ b.id < f.id /\ f.apply
        \/ f.id < b.id /\ b.apply
    BY <1>t, <2>2 DEF SubServed
  <2>4. CASE HasSub(urss, s, b, f)
    BY <1>1, <1>5, <2>2, <2>4
  <2>5. CASE b.id < f.id /\ f.apply
    <3>1. CASE f.id = acur[w].id
      <4>1. f.child = acur[w].child /\ f.child \notin Users
        BY <1>7, <3>1, SharingAssumption DEF GroupUgas
      <4>2. apc[w] = "copy" /\ acopy[w] = {}
        BY <1>1, <1>6, <4>1
      <4>3. HasSub(urss, s, b, f)
        BY <1>t, <2>2, <2>5, <3>1, <4>2 DEF SubInHand, SubHeld, Ids
      <4> QED BY <2>4, <4>3
    <3>2. CASE f.id # acur[w].id
      BY <2>2, <2>5, <3>2
    <3> QED BY <3>1, <3>2
  <2>6. CASE f.id < b.id /\ b.apply
    <3>1. CASE b.id = acur[w].id
      <4>1. b.child = acur[w].child /\ b.child \notin Groups
        BY <1>7, <3>1, SharingAssumption DEF UserUgas
      <4>2. apc[w] = "direct" /\ atodo[w] = {}
        BY <1>1, <1>6, <4>1
      <4>3. HasSub(urss \cup atodo[w], s, b, f)
        BY <1>t, <2>2, <2>6, <3>1, <4>2 DEF SubInHand, SubHeld
      <4>4. HasSub(urss, s, b, f)
        BY <4>2, <4>3 DEF HasSub
      <4> QED BY <2>4, <4>4
    <3>2. CASE b.id # acur[w].id
      BY <2>2, <2>6, <3>2
    <3> QED BY <3>1, <3>2
  <2> QED BY <2>3, <2>4, <2>5, <2>6
<1>9. SUFFICES ASSUME NEW v \in Appliers,
                      NEW a \in UserUgas', NEW e \in GroupUgas', NEW s \in grss', Above(a, e, s)
               PROVE  SubHeld(v, a, e, s)'
  BY <1>8 DEF SubInHand
<1>10. PICK b \in UserUgas, f \in GroupUgas :
             s \in grss /\ Above(b, f, s) /\ b.id = a.id /\ f.id = e.id
  BY <1>4, <1>9
<1>11. SubHeld(v, b, f, s)
  BY <1>t, <1>10 DEF SubInHand
<1>12. CASE v = w
  BY <1>t, <1>1, <1>12 DEF SubHeld, TypeOK
<1>13. CASE v # w
  <2>1. apc'[v] = apc[v] /\ acur'[v] = acur[v]
    BY <1>t, <1>1, <1>13 DEF TypeOK
  <2>2. \A rows : HasSub(rows, s, b, f) <=> HasSub(rows, s, a, e)
    BY <1>10 DEF HasSub, SubRow
  <2> QED BY <1>1, <1>10, <1>11, <2>1, <2>2 DEF SubHeld
<1> QED BY <1>12, <1>13

LEMMA SubApplier ==
    ASSUME NestingsApart, IInv, IInv', SubInv, NEW w \in Appliers, ApplierStep(w) \/ ApplierFail(w)
    PROVE  SubServed' /\ SubInHand'
<1> USE DEF tables, Goto
<1>t. TypeOK /\ SubServed /\ SubInHand
  BY DEF IInv, TypeInv, SubInv
<1>1. CASE ApplierCheck(w) \/ ApplierAcquire(w) \/ ApplierLoad(w) \/ ApplierFinish(w)
               \/ ApplierFail(w)
  <2>1. /\ UNCHANGED <<ugas, grss, urss, acur, atodo, acopy>>
        /\ \E pc \in {"acquire", "load", "next", "release"} : apc' = [apc EXCEPT ![w] = pc]
    BY <1>1 DEF ApplierCheck, ApplierAcquire, ApplierLoad, ApplierFinish, ApplierFail
  <2>2. \A v \in Appliers : apc'[v] \in {"super", "direct", "copy"} => apc'[v] = apc[v]
    BY <1>t, <2>1 DEF TypeOK
  <2> QED BY <1>t, <2>1, <2>2, SubControl
<1>2. ASSUME NEW a \in alist[w], ApplierLostUser(w, a) PROVE SubServed' /\ SubInHand'
  <2>1. GroupsOf(a.child) = {} /\ a.child \in Users
    BY <1>2 DEF ApplierLostUser
  <2>2. UNCHANGED <<ugas, grss, urss, acopy>>
    BY <1>2 DEF ApplierLostUser
  <2>3. \E pc \in {"super", "release"} : /\ apc' = [apc EXCEPT ![w] = pc]
                                         /\ pc = "super" => ugas = {}
    BY <1>2 DEF ApplierLostUser
  <2>4. \A v \in Appliers \ {w} : atodo'[v] = atodo[v] /\ acur'[v] = acur[v] /\ apc'[v] = apc[v]
    BY <1>2, <1>t DEF ApplierLostUser, TypeOK
  <2>5. CASE ugas = {}
    BY <2>2, <2>5 DEF SubServed, SubInHand, UserUgas
  <2>6. CASE ugas # {}
    <3>1. apc'[w] = "release"
      BY <1>t, <2>3, <2>6 DEF TypeOK
    <3> QED BY <1>t, <2>2, <2>4, <3>1, SubControl
  <2> QED BY <2>5, <2>6
<1>3. CASE ApplierRelease(w)
  <2>1. UNCHANGED <<ugas, grss, urss>>
    BY <1>3 DEF ApplierRelease
  <2>2. \A v \in Appliers \ {w} : /\ atodo'[v] = atodo[v] /\ acopy'[v] = acopy[v]
                                  /\ acur'[v] = acur[v] /\ apc'[v] = apc[v]
    BY <1>3, <1>t DEF ApplierRelease, TypeOK
  <2>3. apc'[w] = "idle"
    BY <1>3, <1>t DEF ApplierRelease, TypeOK
  <2> QED BY <1>t, <2>1, <2>2, <2>3, SubControl
<1> QED
  BY <1>1, <1>2, <1>3, SubReadSupergroups, SubShareNext, SubReadDirect, SubReadParents,
     SubCopyNext, SubMark
  DEF ApplierStep

LEMMA SubNext ==
    ASSUME NestingsApart, IInv, IInv', SubInv, [Next]_vars PROVE SubInv'
<1>t. TypeOK' /\ SubServed /\ SubInHand
  BY DEF IInv, TypeInv, SubInv
<1>1. GraphOK' /\ MarkedOK'
  BY GraphNext, MarkedNext DEF SubInv
<1>2. CASE SharingCall
  BY <1>1, <1>2, SubSharingCall DEF SubInv
<1>3. CASE GroupCall
  BY <1>1, <1>3, SubGroupCall DEF SubInv
<1>4. CASE JobStep
  BY <1>1, <1>4, SubApplier, SubRemover DEF SubInv, JobStep
<1>5. CASE Restart
  <2>1. UNCHANGED <<ugas, grss, urss>> /\ \A v \in Appliers : apc'[v] = "idle"
    BY <1>5 DEF Restart, tables
  <2>2. SubServed' /\ SubInHand'
    BY <1>t, <2>1, SubControl
  <2> QED BY <1>1, <2>2 DEF SubInv
<1>6. CASE UNCHANGED vars
  <2>1. UNCHANGED <<ugas, grss, urss, apc, acur, atodo, acopy>>
    BY <1>6 DEF vars, tables, applierVars
  <2>2. SubServed' /\ SubInHand'
    BY <1>t, <2>1, SubControl
  <2> QED BY <1>1, <2>2 DEF SubInv
<1> QED BY <1>2, <1>3, <1>4, <1>5, <1>6 DEF Next

\* As long as no group takes part in two nestings: whatever calls, job runs,
\* failures and restarts interleave, an applied member of an applied subgroup
\* holds a row for every sharing of the parent group, no matter which of the two
\* memberships came first and which run applied them.
THEOREM AppliedSubgroupsAreServed ==
    ASSUME NestingsApart PROVE Spec => []AppliedSubgroupsSeeParentRecords
<1>1. IInv /\ SourceInv /\ SubInv /\ [Next]_vars => IInv' /\ SourceInv' /\ SubInv'
  BY IndNext, SourceNext, SubNext
<1>2. IInv /\ SourceInv /\ SubInv => AppliedSubgroupsSeeParentRecords
  <2> SUFFICES ASSUME IInv, SourceInv, SubInv,
                      NEW a \in UserUgas, NEW e \in GroupUgas, NEW s \in grss,
                      ~a.apply, ~e.apply, ~e.remove,
                      a.parent = e.child, e.parent = s.group, ~s.copy
               PROVE  \E x \in urss : ~x.generic /\ x.user = a.child /\ x.record = s.record
    BY DEF AppliedSubgroupsSeeParentRecords
  <2>1. HasSub(urss, s, a, e)
    BY DEF SubInv, SubServed, Above
  <2>2. PICK x \in urss : SubRow(x, s, a, e)
    BY <2>1 DEF HasSub
  <2>3. a \in ugas /\ RowOK(x)
    BY DEF SourceInv, UserUgas
  <2> QED BY <2>2, <2>3 DEF SubRow, RowOK
<1> QED BY <1>1, <1>2, IndInit, SourceInit, SubInit, PTL DEF Spec

=============================================================================
