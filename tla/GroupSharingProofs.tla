-------------------------- MODULE GroupSharingProofs --------------------------
(***************************************************************************)
(* Proofs about GroupSharing for every number of users, groups, records,   *)
(* memberships, sharings, scheduler threads and failures.                  *)
(***************************************************************************)
EXTENDS GroupSharing, TLAPS

-----------------------------------------------------------------------------
(* Types.                                                                  *)

\* The rows a group sharing is propagated to are well formed.
LEMMA PropagatedRowsType ==
    ASSUME TypeOK, NEW s \in Grs, NEW id \in Nat, NEW g, NEW base \in SUBSET Nat
    PROVE  PropagatedRows(s, id, g, base) \subseteq Urs
<1>1. \A m \in MembersBelow(g) : m.uga \in UserUgas /\ m.path \in SUBSET Nat
  <2>1. \A m \in DirectMembers(g) : m.uga \in UserUgas /\ m.path \in SUBSET Nat
    BY DEF DirectMembers
  <2>2. \A m \in SubgroupMembers(g) : m.uga \in UserUgas /\ m.path \in SUBSET Nat
    BY DEF SubgroupMembers, Chains, GroupUgas, Ids, TypeOK, Uga
  <2> QED BY <2>1, <2>2 DEF MembersBelow
<1> SUFFICES ASSUME NEW m \in MembersBelow(g)
             PROVE  PropagatedRow(s.record, m.uga.child, id, m.uga.id,
                                   base \cup m.path, s.edit) \in Urs
  BY DEF PropagatedRows
<1>2. m.uga.child \in Users /\ m.uga.id \in Nat
  BY <1>1 DEF UserUgas, TypeOK, Uga
<1> QED BY <1>1, <1>2 DEF PropagatedRow, Urs, Grs

LEMMA UpsertType ==
    ASSUME TypeOK, NEW new \in SUBSET Urs PROVE Upsert(new) \subseteq Urs
BY DEF Upsert, TypeOK

\* The paths that the applier collects above a user are sets of identifiers.
LEMMA HierarchyPathType ==
    ASSUME TypeOK, NEW user, NEW seed \in Seeds(user), NEW g \in LastLevel(GroupsOf(user))
    PROVE  HierarchyPath(seed[g]) \in SUBSET Nat
<1>1. seed[g] \in ugas
  BY DEF Seeds, MembershipsOf, UserUgas
<1>2. \A h : EdgesAbove(h) \subseteq ugas
  BY DEF EdgesAbove, GroupUgas
<1> QED BY <1>1, <1>2 DEF HierarchyPath, Ids, TypeOK, Uga

\* While a run of the applier works on a membership it holds one: of a user in
\* the loops over sharings, of a group in the loop over copies.
CurrentOK ==
    \A w \in Appliers :
        /\ apc[w] \in {"super", "direct"} => acur[w] \in Uga /\ acur[w].child \in Users
        /\ apc[w] = "copy" => acur[w] \in Uga /\ acur[w].child \in Groups

TypeInv == TypeOK /\ CurrentOK

\* Type correctness, one step per action.
LEMMA TypeInit == Init => TypeInv
<1> SUFFICES ASSUME Init PROVE TypeInv
  OBVIOUS
<1>1. /\ apc \in [Appliers -> ApplierPc] /\ rpc \in [Removers -> RemoverPc]
      /\ \A w \in Appliers : apc[w] = "idle"
  BY DEF Init, ApplierPc, RemoverPc
<1>2. /\ alist \in [Appliers -> SUBSET Uga] /\ rlist \in [Removers -> SUBSET Uga]
      /\ atodo \in [Appliers -> SUBSET Urs] /\ acopy \in [Appliers -> SUBSET Grs]
  BY DEF Init
<1>3. acur \in [Appliers -> Uga \cup {NoUga}] /\ rcur \in [Removers -> Uga \cup {NoUga}]
  BY DEF Init
<1> QED BY <1>1, <1>2, <1>3 DEF Init, TypeInv, TypeOK, CurrentOK

LEMMA TypeSharingCall ==
    ASSUME TypeInv, SharingCall PROVE TypeInv'
<1> USE DEF applierVars, removerVars, TypeInv
<1>1. ASSUME NEW u \in Users, NEW r \in Records, NEW edit \in BOOLEAN, ShareRecord(u, r, edit)
      PROVE  TypeInv'
  <2>1. GenericRow(u, r, edit) \in Urs
    BY <1>1 DEF GenericRow, Urs, NoId
  <2>2. urss' \subseteq Urs
    BY <1>1, <2>1, UpsertType DEF ShareRecord
  <2> QED BY <1>1, <2>2 DEF ShareRecord, TypeOK, CurrentOK
<1>2. ASSUME NEW us, NEW r, UnshareRecord(us, r) PROVE TypeInv'
  BY <1>2 DEF UnshareRecord, TypeOK, CurrentOK
<1>3. ASSUME NEW r \in Records, NEW g \in Groups, NEW edit \in BOOLEAN, NEW generic \in BOOLEAN,
             ShareRecordWithGroup(r, g, edit, generic)
      PROVE  TypeInv'
  <2> DEFINE same == {s \in grss : generic /\ s.generic /\ s.record = r /\ s.group = g}
             id == IF same = {} THEN grsSeq ELSE (CHOOSE s \in same : TRUE).id
             s == [id |-> id, record |-> r, group |-> g, edit |-> edit,
                   generic |-> generic, copy |-> FALSE]
  <2>1. /\ grss' = {t \in grss : t.id # id} \cup {s}
        /\ grsSeq' = IF same = {} THEN grsSeq + 1 ELSE grsSeq
        /\ urss' = Upsert(PropagatedRows(s, id, g, {}))
        /\ UNCHANGED <<groups, ugas, ugaSeq, applierVars, removerVars, faults>>
    BY <1>3, Zenon DEF ShareRecordWithGroup
  <2>2. id \in Nat
    BY DEF TypeOK, Grs
  <2>3. s \in Grs
    BY <2>2 DEF Grs
  <2>4. PropagatedRows(s, id, g, {}) \subseteq Urs
    BY <2>2, <2>3, PropagatedRowsType
  <2> HIDE DEF same, id, s
  <2>5. urss' \subseteq Urs
    BY <2>1, <2>4, UpsertType
  <2> QED BY <2>1, <2>3, <2>5 DEF TypeOK, CurrentOK
<1>4. ASSUME NEW r, NEW gs, NEW kinds, UnshareRecordWithGroup(r, gs, kinds) PROVE TypeInv'
  BY <1>4 DEF UnshareRecordWithGroup, TypeOK, CurrentOK
<1>5. EditFlags \subseteq BOOLEAN /\ GroupKinds \subseteq BOOLEAN
  BY SharingAssumption
<1>6. CASE \E u \in Users, r \in Records, edit \in EditFlags : ShareRecord(u, r, edit)
  BY <1>1, <1>5, <1>6
<1>7. CASE \E r \in Records, us \in {{u} : u \in Users} \cup {Users} : UnshareRecord(us, r)
  BY <1>2, <1>7
<1>8. CASE \E r \in Records, g \in Groups, edit \in EditFlags, generic \in GroupKinds :
               ShareRecordWithGroup(r, g, edit, generic)
  BY <1>3, <1>5, <1>8
<1>9. CASE \E r \in Records, gs \in {{g} : g \in Groups} \cup {Groups},
              kinds \in (SUBSET GroupKinds) \ {{}} : UnshareRecordWithGroup(r, gs, kinds)
  BY <1>4, <1>9
<1> QED
  BY <1>6, <1>7, <1>8, <1>9, Zenon DEF SharingCall

LEMMA TypeGroupCall ==
    ASSUME TypeInv, GroupCall PROVE TypeInv'
<1> USE DEF applierVars, removerVars, TypeInv, CurrentOK
<1>1. ASSUME NEW c \in Users \cup Groups, NEW g \in Groups, Assign(c, g) PROVE TypeInv'
  <2>1. [id |-> ugaSeq, parent |-> g, child |-> c, apply |-> TRUE, remove |-> FALSE] \in Uga
    BY DEF TypeOK, Uga
  <2>2. ugas' \subseteq Uga
    BY <1>1, <2>1 DEF Assign, TypeOK
  <2>3. ugaSeq \in Nat /\ ugaSeq' = ugaSeq + 1
    BY <1>1 DEF Assign, TypeOK
  <2>4. ugaSeq' \in Nat
    BY <2>3
  <2>5. UNCHANGED <<groups, grss, urss, grsSeq, applierVars, removerVars, faults>>
    BY <1>1 DEF Assign
  <2> QED BY <2>2, <2>4, <2>5 DEF TypeOK
<1>2. ASSUME NEW u, NEW g, UnassignUserFromGroup(u, g) PROVE TypeInv'
  BY <1>2 DEF UnassignUserFromGroup, TypeOK
<1>3. ASSUME NEW c, NEW g, UnassignGroupFromGroup(c, g) PROVE TypeInv'
  BY <1>3 DEF UnassignGroupFromGroup, TypeOK
<1>4. ASSUME NEW c, NEW g, DeferUnassignGroup(c, g) PROVE TypeInv'
  BY <1>4 DEF DeferUnassignGroup, TypeOK, Uga
<1>5. ASSUME NEW a, DeleteUserGroupAssignment(a) PROVE TypeInv'
  BY <1>5 DEF DeleteUserGroupAssignment, TypeOK
<1>6. ASSUME NEW g, DeleteGroup(g) PROVE TypeInv'
  BY <1>6 DEF DeleteGroup, TypeOK
<1>7. \A n \in Nesting : n[1] \in Groups /\ n[2] \in Groups
  BY SharingAssumption
<1> QED
  BY <1>1, <1>2, <1>3, <1>4, <1>5, <1>6, <1>7 DEF GroupCall

LEMMA TypeApplier ==
    ASSUME TypeInv, NEW w \in Appliers, ApplierStep(w) \/ ApplierFail(w) PROVE TypeInv'
<1> USE DEF tables, removerVars, Goto, ApplierPc, TypeInv
<1>1. CASE ApplierCheck(w)
  BY <1>1 DEF ApplierCheck, TypeOK, CurrentOK
<1>2. CASE ApplierAcquire(w)
  BY <1>2 DEF ApplierAcquire, TypeOK, CurrentOK
<1>3. CASE ApplierLoad(w)
  BY <1>3 DEF ApplierLoad, TypeOK, CurrentOK
<1>4. ASSUME NEW a \in alist[w], ApplierReadSupergroups(w, a) PROVE TypeInv'
  <2>1. a \in Uga /\ a.id \in Nat /\ a.child \in Users
    BY <1>4 DEF TypeOK, Uga, ApplierReadSupergroups
  <2>2. PICK seed \in Seeds(a.child) :
          atodo' = [atodo EXCEPT ![w] =
              {PropagatedRow(s.record, a.child, s.id, a.id, HierarchyPath(seed[s.group]), s.edit) :
                  s \in {t \in grss : t.group \in LastLevel(GroupsOf(a.child))}}]
    BY <1>4, Zenon DEF ApplierReadSupergroups
  <2>3. ASSUME NEW s \in grss, s.group \in LastLevel(GroupsOf(a.child))
        PROVE  PropagatedRow(s.record, a.child, s.id, a.id, HierarchyPath(seed[s.group]), s.edit)
                   \in Urs
    <3>1. HierarchyPath(seed[s.group]) \in SUBSET Nat
      BY <2>3, HierarchyPathType
    <3>2. s \in Grs
      BY DEF TypeOK
    <3> QED BY <2>1, <3>1, <3>2 DEF PropagatedRow, Urs, Grs
  <2>4. atodo' \in [Appliers -> SUBSET Urs]
    BY <2>2, <2>3 DEF TypeOK
  <2> QED BY <1>4, <2>1, <2>4 DEF ApplierReadSupergroups, TypeOK, CurrentOK
<1>5. ASSUME NEW a \in alist[w], ApplierLostUser(w, a) PROVE TypeInv'
  BY <1>5 DEF ApplierLostUser, TypeOK, CurrentOK
<1>6. ASSUME NEW a \in alist[w], ApplierReadParents(w, a) PROVE TypeInv'
  BY <1>6 DEF ApplierReadParents, TypeOK, CurrentOK
<1>7. CASE ApplierShareNext(w)
  <2>1. PICK x \in atodo[w] : urss' = Upsert({x}) /\ atodo' = [atodo EXCEPT ![w] = @ \ {x}]
    BY <1>7 DEF ApplierShareNext
  <2>2. urss' \subseteq Urs
    BY <2>1, UpsertType DEF TypeOK
  <2> QED BY <1>7, <2>1, <2>2 DEF ApplierShareNext, TypeOK, CurrentOK
<1>8. CASE ApplierReadDirect(w)
  <2> DEFINE rows == {PropagatedRow(s.record, acur[w].child, s.id, acur[w].id, {}, s.edit) :
                         s \in {t \in grss : t.group = acur[w].parent}}
  <2>1. acur[w] \in Uga /\ acur[w].child \in Users
    BY <1>8 DEF ApplierReadDirect, CurrentOK
  <2>2. rows \subseteq Urs
    <3> SUFFICES ASSUME NEW s \in grss
                 PROVE  PropagatedRow(s.record, acur[w].child, s.id, acur[w].id, {}, s.edit) \in Urs
      OBVIOUS
    <3>1. s \in Grs /\ acur[w].id \in Nat
      BY <2>1 DEF TypeOK, Uga
    <3> QED BY <2>1, <3>1 DEF PropagatedRow, Urs, Grs
  <2>3. atodo' = [atodo EXCEPT ![w] = rows]
    BY <1>8, Zenon DEF ApplierReadDirect
  <2> HIDE DEF rows
  <2> QED BY <1>8, <2>2, <2>3 DEF ApplierReadDirect, TypeOK, CurrentOK
<1>9. CASE ApplierCopyNext(w)
  <2>1. acur[w] \in Uga /\ acur[w].id \in Nat
    BY <1>9 DEF ApplierCopyNext, CurrentOK, Uga
  <2>2. PICK s \in acopy[w] :
          IF acur[w].child \in groups
          THEN /\ grss' = grss \cup {[id |-> grsSeq, record |-> s.record, group |-> acur[w].child,
                                     edit |-> s.edit, generic |-> FALSE, copy |-> TRUE]}
               /\ grsSeq' = grsSeq + 1
               /\ urss' = Upsert(PropagatedRows(s, s.id, acur[w].child, {acur[w].id}))
               /\ acopy' = [acopy EXCEPT ![w] = @ \ {s}]
               /\ UNCHANGED apc
          ELSE Goto(w, "release") /\ UNCHANGED <<grss, grsSeq, urss, acopy>>
    BY <1>9, Zenon DEF ApplierCopyNext
  <2>3. s \in Grs
    BY DEF TypeOK
  <2>4. PropagatedRows(s, s.id, acur[w].child, {acur[w].id}) \subseteq Urs
    BY <2>1, <2>3, PropagatedRowsType DEF Grs
  <2>5. UNCHANGED <<groups, ugas, ugaSeq, applying, alist, acur, atodo, removerVars, faults>>
    BY <1>9 DEF ApplierCopyNext
  <2>6. CASE acur[w].child \in groups
    <3>1. [id |-> grsSeq, record |-> s.record, group |-> acur[w].child, edit |-> s.edit,
           generic |-> FALSE, copy |-> TRUE] \in Grs
      BY <2>3, <2>6 DEF TypeOK, Grs
    <3>2. grss' \subseteq Grs
      BY <2>2, <2>6, <3>1 DEF TypeOK
    <3>6. grsSeq \in Nat /\ grsSeq' = grsSeq + 1
      BY <2>2, <2>6 DEF TypeOK
    <3>5. grsSeq' \in Nat
      BY <3>6
    <3>3. urss' \subseteq Urs
      BY <2>2, <2>4, <2>6, UpsertType
    <3>4. acopy' \in [Appliers -> SUBSET Grs] /\ apc' = apc
      BY <2>2, <2>6 DEF TypeOK
    <3> QED BY <2>5, <3>2, <3>3, <3>4, <3>5 DEF TypeOK, CurrentOK
  <2>7. CASE acur[w].child \notin groups
    BY <2>2, <2>5, <2>7 DEF TypeOK, CurrentOK
  <2> QED BY <2>6, <2>7
<1>10. CASE ApplierMark(w)
  <2>1. ugas' \subseteq Uga
    <3>1. ASSUME NEW b \in ugas PROVE [b EXCEPT !.apply = FALSE] \in Uga
      BY DEF TypeOK, Uga
    <3> QED BY <1>10, <3>1 DEF ApplierMark, SaveApplied, TypeOK
  <2> QED BY <1>10, <2>1 DEF ApplierMark, TypeOK, CurrentOK
<1>11. CASE ApplierFinish(w)
  BY <1>11 DEF ApplierFinish, TypeOK, CurrentOK
<1>12. CASE ApplierFail(w)
  BY <1>12 DEF ApplierFail, TypeOK, CurrentOK
<1>13. CASE ApplierRelease(w)
  BY <1>13 DEF ApplierRelease, TypeOK, CurrentOK
<1> QED
  BY <1>1, <1>2, <1>3, <1>4, <1>5, <1>6, <1>7, <1>8, <1>9, <1>10, <1>11, <1>12, <1>13
  DEF ApplierStep

LEMMA TypeRemover ==
    ASSUME TypeInv, NEW w \in Removers, RemoverStep(w) \/ RemoverFail(w) PROVE TypeInv'
<1> USE DEF tables, applierVars, GotoR, RemoverPc, TypeInv, CurrentOK
<1>1. CASE RemoverCheck(w)
  BY <1>1 DEF RemoverCheck, TypeOK
<1>2. CASE RemoverAcquire(w)
  BY <1>2 DEF RemoverAcquire, TypeOK
<1>3. CASE RemoverLoad(w)
  BY <1>3 DEF RemoverLoad, TypeOK
<1>4. CASE RemoverNext(w)
  BY <1>4 DEF RemoverNext, TypeOK
<1>5. CASE RemoverBatch(w)
  <2>1. urss' \subseteq urss /\ \E pc \in {"delete", "batch"} : rpc' = [rpc EXCEPT ![w] = pc]
    BY <1>5 DEF RemoverBatch
  <2>2. UNCHANGED <<groups, ugas, grss, ugaSeq, grsSeq, applierVars, removing, rlist, rcur, faults>>
    BY <1>5 DEF RemoverBatch
  <2> QED BY <2>1, <2>2 DEF TypeOK
<1>6. CASE RemoverDelete(w)
  BY <1>6 DEF RemoverDelete, TypeOK
<1>7. CASE RemoverFail(w)
  BY <1>7 DEF RemoverFail, TypeOK
<1>8. CASE RemoverRelease(w)
  BY <1>8 DEF RemoverRelease, TypeOK
<1> QED
  BY <1>1, <1>2, <1>3, <1>4, <1>5, <1>6, <1>7, <1>8 DEF RemoverStep

LEMMA TypeRestart ==
    ASSUME TypeInv, Restart PROVE TypeInv'
<1>1. /\ apc' \in [Appliers -> ApplierPc] /\ rpc' \in [Removers -> RemoverPc]
      /\ \A w \in Appliers : apc'[w] = "idle"
  BY DEF Restart, ApplierPc, RemoverPc
<1>2. /\ alist' \in [Appliers -> SUBSET Uga] /\ rlist' \in [Removers -> SUBSET Uga]
      /\ atodo' \in [Appliers -> SUBSET Urs] /\ acopy' \in [Appliers -> SUBSET Grs]
  BY DEF Restart
<1>3. acur' \in [Appliers -> Uga \cup {NoUga}] /\ rcur' \in [Removers -> Uga \cup {NoUga}]
  BY DEF Restart
<1>4. UNCHANGED tables /\ faults' = faults + 1 /\ applying' = FALSE /\ removing' = FALSE
  BY DEF Restart
<1>5. faults \in Nat /\ faults' = faults + 1
  BY DEF Restart, TypeInv, TypeOK
<1>6. faults' \in Nat
  BY <1>5
<1>7. TypeOK'
  BY <1>1, <1>2, <1>3, <1>4, <1>6 DEF TypeInv, TypeOK, tables
<1>8. CurrentOK'
  BY <1>1 DEF CurrentOK
<1> QED BY <1>7, <1>8 DEF TypeInv

LEMMA TypeNext == TypeInv /\ [Next]_vars => TypeInv'
<1> SUFFICES ASSUME TypeInv, [Next]_vars PROVE TypeInv'
  OBVIOUS
<1>1. CASE UNCHANGED vars
  BY <1>1 DEF vars, tables, applierVars, removerVars, TypeInv, TypeOK, CurrentOK
<1>2. CASE SharingCall
  BY <1>2, TypeSharingCall
<1>3. CASE GroupCall
  BY <1>3, TypeGroupCall
<1>4. CASE JobStep
  BY <1>4, TypeApplier, TypeRemover DEF JobStep
<1>5. CASE Restart
  BY <1>5, TypeRestart
<1> QED BY <1>1, <1>2, <1>3, <1>4, <1>5 DEF Next

\* The state of the model keeps the types that TypeOK lists.
THEOREM TypeCorrect == Spec => []TypeOK
<1>1. Spec => []TypeInv
  BY TypeInit, TypeNext, PTL DEF Spec
<1> QED BY <1>1, PTL DEF TypeInv

-----------------------------------------------------------------------------
(* Applied members see the records of their group. The property is not     *)
(* inductive: it has to say what a run of the applier still has in hand.   *)

HasRow(rows, s, a) == \E x \in rows : DirectRow(x, s, a)

\* Identifiers are unique and below the sequences they come from.
IdsOK ==
    /\ \A a \in ugas : a.id < ugaSeq
    /\ \A a, b \in ugas : a.id = b.id => a = b
    /\ \A s \in grss : s.id < grsSeq
    /\ \A s, t \in grss : s.id = t.id => s = t

\* A membership in memory is not one that was assigned later.
Loaded(w) == alist[w] \cup ({acur[w]} \cap Uga)

LoadedOK ==
    \A w \in Appliers : \A a \in Loaded(w) :
        /\ a.id < ugaSeq
        /\ \A b \in ugas : b.id = a.id => b.parent = a.parent /\ b.child = a.child

\* In the second loop every sharing of the group has its row, or the row is
\* still to be written.
InHandOK ==
    \A w \in Appliers : apc[w] = "direct" =>
        \A a \in UserUgas, s \in grss :
            a.id = acur[w].id /\ s.group = a.parent /\ ~s.copy => HasRow(urss \cup atodo[w], s, a)

IInv == TypeInv /\ IdsOK /\ LoadedOK /\ InHandOK /\ AppliedMembersSeeGroupRecords

\* An upsert replaces a row only by one that serves the same purpose.
LEMMA UpsertKeepsRows ==
    ASSUME NEW new, NEW s, NEW a, NEW more, HasRow(urss \cup more, s, a)
    PROVE  HasRow(Upsert(new) \cup more, s, a)
<1>1. PICK x \in urss \cup more : DirectRow(x, s, a)
  BY DEF HasRow
<1>2. CASE \E y \in new : SameSharing(x, y)
  BY <1>1, <1>2 DEF SameSharing, DirectRow, HasRow, Upsert
<1>3. CASE ~\E y \in new : SameSharing(x, y)
  BY <1>1, <1>3 DEF HasRow, Upsert
<1> QED BY <1>2, <1>3

\* A propagated sharing has its row for every direct member of the group.
LEMMA PropagationServesMembers ==
    ASSUME NEW s, NEW id, NEW t, t.id = id, NEW g, NEW a \in UserUgas, a.parent = g
    PROVE  HasRow(Upsert(PropagatedRows(s, id, g, {})), t, a)
<1> DEFINE m == [uga |-> a, path |-> {}]
           x == PropagatedRow(s.record, a.child, id, a.id, {}, s.edit)
<1>1. m \in MembersBelow(g)
  BY DEF MembersBelow, DirectMembers
<1>2. PropagatedRow(s.record, m.uga.child, id, m.uga.id, {} \cup m.path, s.edit) = x
  OBVIOUS
<1>3. x \in PropagatedRows(s, id, g, {})
  BY <1>1, <1>2 DEF PropagatedRows
<1>4. DirectRow(x, t, a)
  BY DEF DirectRow, PropagatedRow
<1> QED BY <1>3, <1>4 DEF HasRow, Upsert

\* What a step outside the loops of the applier may do: keep or end memberships
\* and sharings, add pending memberships and served sharings, keep the rows of
\* the rest.
LEMMA Frame ==
    ASSUME InHandOK, AppliedMembersSeeGroupRecords, UNCHANGED <<apc, acur, atodo>>,
           \A a \in UserUgas' :
               \/ \E b \in UserUgas : b.id = a.id /\ b.parent = a.parent /\ (~a.apply => ~b.apply)
               \/ a.apply /\ \A w \in Appliers : apc[w] = "direct" => acur[w].id # a.id,
           \A s \in grss' :
               \/ s.copy
               \/ \E t \in grss : t.id = s.id /\ t.group = s.group /\ ~t.copy
               \/ \A a \in UserUgas' : a.parent = s.group => HasRow(urss', s, a),
           \A a \in UserUgas', s \in grss' : \A more :
               HasRow(urss \cup more, s, a) => HasRow(urss' \cup more, s, a)
    PROVE  InHandOK' /\ AppliedMembersSeeGroupRecords'
<1>1. InHandOK'
  <2> SUFFICES ASSUME NEW w \in Appliers, apc[w] = "direct", NEW a \in UserUgas', NEW s \in grss',
                      a.id = acur[w].id, s.group = a.parent, ~s.copy
               PROVE  HasRow(urss' \cup atodo[w], s, a)
    BY DEF InHandOK
  <2>1. PICK b \in UserUgas : b.id = a.id /\ b.parent = a.parent
    OBVIOUS
  <2>2. CASE \E t \in grss : t.id = s.id /\ t.group = s.group /\ ~t.copy
    <3>1. PICK t \in grss : t.id = s.id /\ t.group = s.group /\ ~t.copy
      BY <2>2
    <3>2. HasRow(urss \cup atodo[w], t, b)
      BY <2>1, <3>1 DEF InHandOK
    <3>3. HasRow(urss \cup atodo[w], s, a)
      BY <2>1, <3>1, <3>2 DEF HasRow, DirectRow
    <3> QED BY <3>3
  <2>3. CASE HasRow(urss', s, a)
    BY <2>3 DEF HasRow
  <2> QED BY <2>2, <2>3
<1>2. AppliedMembersSeeGroupRecords'
  <2> SUFFICES ASSUME NEW a \in UserUgas', NEW s \in grss', ~a.apply, s.group = a.parent, ~s.copy
               PROVE  HasRow(urss', s, a)
    BY DEF AppliedMembersSeeGroupRecords, HasRow, DirectRow
  <2>1. PICK b \in UserUgas : b.id = a.id /\ b.parent = a.parent /\ ~b.apply
    OBVIOUS
  <2>2. CASE \E t \in grss : t.id = s.id /\ t.group = s.group /\ ~t.copy
    <3>1. PICK t \in grss : t.id = s.id /\ t.group = s.group /\ ~t.copy
      BY <2>2
    <3>2. HasRow(urss \cup {}, s, a)
      BY <2>1, <3>1 DEF AppliedMembersSeeGroupRecords, HasRow, DirectRow
    <3>3. HasRow(urss' \cup {}, s, a)
      BY <3>2
    <3> QED BY <3>3 DEF HasRow
  <2> QED BY <2>2
<1> QED BY <1>1, <1>2

LEMMA IndInit == Init => IInv
<1> SUFFICES ASSUME Init PROVE IInv
  OBVIOUS
<1>1. ugas = {} /\ grss = {} /\ \A w \in Appliers : apc[w] = "idle"
  BY DEF Init
<1>2. \A w \in Appliers : Loaded(w) = {}
  BY DEF Init, Loaded, NoUga, NoId, Uga
<1> QED
  BY <1>1, <1>2, TypeInit
  DEF IInv, IdsOK, LoadedOK, InHandOK, AppliedMembersSeeGroupRecords, UserUgas

\* Deleting memberships or sharings cannot confuse identifiers.
LEMMA FewerRows ==
    ASSUME IdsOK, LoadedOK, ugas' \subseteq ugas, grss' \subseteq grss,
           UNCHANGED <<ugaSeq, grsSeq, alist, acur>>
    PROVE  IdsOK' /\ LoadedOK'
BY DEF IdsOK, LoadedOK, Loaded

\* A deletion of rows that spares those of remaining sharings and memberships.
LEMMA FewerRowsFrame ==
    ASSUME InHandOK, AppliedMembersSeeGroupRecords, UNCHANGED <<apc, acur, atodo>>,
           ugas' \subseteq ugas, grss' \subseteq grss,
           \A x \in urss, a \in ugas', s \in grss' : DirectRow(x, s, a) => x \in urss'
    PROVE  InHandOK' /\ AppliedMembersSeeGroupRecords'
<1>1. \A a \in UserUgas' : a \in UserUgas
  BY DEF UserUgas
<1>2. \A a \in UserUgas', s \in grss' : \A more :
          HasRow(urss \cup more, s, a) => HasRow(urss' \cup more, s, a)
  BY DEF HasRow, UserUgas
<1>3. \A s \in grss' : s.copy \/ \E t \in grss : t.id = s.id /\ t.group = s.group /\ ~t.copy
  OBVIOUS
<1> QED BY <1>1, <1>2, <1>3, Frame

LEMMA IndSharingCall ==
    ASSUME IInv, SharingCall PROVE IInv'
<1> USE DEF applierVars, removerVars, IInv
<1>t. TypeInv'
  BY TypeSharingCall
<1>1. ASSUME NEW u, NEW r, NEW edit, ShareRecord(u, r, edit) PROVE IInv'
  <2>1. /\ urss' = Upsert({GenericRow(u, r, edit)})
        /\ UNCHANGED <<ugas, grss, ugaSeq, grsSeq, applierVars>>
    BY <1>1 DEF ShareRecord
  <2>2. IdsOK' /\ LoadedOK'
    BY <2>1, FewerRows
  <2>3. \A a \in UserUgas', s \in grss' : \A more :
            HasRow(urss \cup more, s, a) => HasRow(urss' \cup more, s, a)
    BY <2>1, UpsertKeepsRows
  <2>4. InHandOK' /\ AppliedMembersSeeGroupRecords'
    BY <2>1, <2>3, Frame DEF UserUgas
  <2> QED BY <1>t, <2>2, <2>4
<1>2. ASSUME NEW us, NEW r, UnshareRecord(us, r) PROVE IInv'
  <2>1. /\ urss' = {x \in urss : ~(x.generic /\ x.record = r /\ x.user \in us)}
        /\ UNCHANGED <<ugas, grss, ugaSeq, grsSeq, applierVars>>
    BY <1>2 DEF UnshareRecord
  <2>2. IdsOK' /\ LoadedOK'
    BY <2>1, FewerRows
  <2>3. InHandOK' /\ AppliedMembersSeeGroupRecords'
    BY <2>1, FewerRowsFrame DEF DirectRow
  <2> QED BY <1>t, <2>2, <2>3
<1>3. ASSUME NEW r, NEW g, NEW edit, NEW generic, ShareRecordWithGroup(r, g, edit, generic)
      PROVE  IInv'
  <2> DEFINE same == {s \in grss : generic /\ s.generic /\ s.record = r /\ s.group = g}
             id == IF same = {} THEN grsSeq ELSE (CHOOSE s \in same : TRUE).id
             s == [id |-> id, record |-> r, group |-> g, edit |-> edit,
                   generic |-> generic, copy |-> FALSE]
  <2>1. /\ grss' = {t \in grss : t.id # id} \cup {s}
        /\ grsSeq' = IF same = {} THEN grsSeq + 1 ELSE grsSeq
        /\ urss' = Upsert(PropagatedRows(s, id, g, {}))
        /\ UNCHANGED <<groups, ugas, ugaSeq, applierVars, removerVars, faults>>
    BY <1>3, Zenon DEF ShareRecordWithGroup
  <2>2. id \in Nat /\ id < grsSeq' /\ grsSeq \in Nat /\ grsSeq =< grsSeq'
    <3>1. grsSeq \in Nat
      BY DEF TypeInv, TypeOK
    <3>2. CASE same = {}
      BY <2>1, <3>1, <3>2
    <3>3. CASE same # {}
      BY <2>1, <3>1, <3>3 DEF IdsOK, TypeInv, TypeOK, Grs
    <3> QED BY <3>2, <3>3
  <2>3. s.id = id /\ s.group = g
    OBVIOUS
  <2> HIDE DEF same, id, s
  <2>4. IdsOK'
    <3>1. \A t \in grss : t.id \in Nat /\ t.id < grsSeq
      BY DEF IdsOK, TypeInv, TypeOK, Grs
    <3>2. ASSUME NEW t \in grss PROVE t.id < grsSeq'
      <4>1. t.id \in Nat /\ t.id < grsSeq
        BY <3>1
      <4>2. grsSeq' \in Nat
        BY <1>t DEF TypeInv, TypeOK
      <4> QED BY <2>2, <4>1, <4>2
    <3> QED BY <2>1, <2>2, <2>3, <3>2 DEF IdsOK
  <2>5. LoadedOK'
    BY <2>1 DEF LoadedOK, Loaded
  <2>6. \A t \in grss' :
            \/ t.copy
            \/ \E v \in grss : v.id = t.id /\ v.group = t.group /\ ~v.copy
            \/ \A a \in UserUgas' : a.parent = t.group => HasRow(urss', t, a)
    BY <2>1, <2>3, PropagationServesMembers DEF UserUgas
  <2>7. \A a \in UserUgas', t \in grss' : \A more :
            HasRow(urss \cup more, t, a) => HasRow(urss' \cup more, t, a)
    BY <2>1, UpsertKeepsRows
  <2>8. InHandOK' /\ AppliedMembersSeeGroupRecords'
    BY <2>1, <2>6, <2>7, Frame DEF UserUgas
  <2> QED BY <1>t, <2>4, <2>5, <2>8
<1>4. ASSUME NEW r, NEW gs, NEW kinds, UnshareRecordWithGroup(r, gs, kinds) PROVE IInv'
  <2> DEFINE gone == {s \in grss : s.record = r /\ s.group \in gs /\ s.generic \in kinds}
  <2>1. /\ grss' = grss \ gone /\ urss' = {x \in urss : x.generic \/ x.grs \notin Ids(gone)}
        /\ UNCHANGED <<ugas, ugaSeq, grsSeq, applierVars>>
    BY <1>4, Zenon DEF UnshareRecordWithGroup
  <2>2. IdsOK' /\ LoadedOK'
    BY <2>1, FewerRows
  <2>3. \A s \in grss' : s.id \notin Ids(gone)
    BY <2>1 DEF IdsOK, Ids
  <2>4. InHandOK' /\ AppliedMembersSeeGroupRecords'
    BY <2>1, <2>3, FewerRowsFrame DEF DirectRow
  <2> QED BY <1>t, <2>2, <2>4
<1> QED
  BY <1>1, <1>2, <1>3, <1>4, Zenon DEF SharingCall

LEMMA IndGroupCall ==
    ASSUME IInv, GroupCall PROVE IInv'
<1> USE DEF applierVars, removerVars, IInv
<1>t. TypeInv'
  BY TypeGroupCall
<1>1. ASSUME NEW c, NEW g, Assign(c, g) PROVE IInv'
  <2> DEFINE new == [id |-> ugaSeq, parent |-> g, child |-> c, apply |-> TRUE, remove |-> FALSE]
  <2>1. /\ ugas' = ugas \cup {new} /\ ugaSeq' = ugaSeq + 1
        /\ UNCHANGED <<grss, urss, grsSeq, applierVars>>
    BY <1>1 DEF Assign
  <2>2. new.id = ugaSeq /\ new.apply
    OBVIOUS
  <2> HIDE DEF new
  <2>3. ugaSeq \in Nat /\ \A a \in ugas : a.id \in Nat /\ a.id < ugaSeq
    BY DEF IdsOK, TypeInv, TypeOK, Uga
  <2>4. IdsOK'
    BY <2>1, <2>2, <2>3 DEF IdsOK
  <2>5. \A w \in Appliers : \A a \in Loaded(w) : a.id \in Nat /\ a.id < ugaSeq
    BY DEF LoadedOK, Loaded, TypeInv, TypeOK, Uga
  <2>6. LoadedOK'
    BY <2>1, <2>2, <2>3, <2>5 DEF LoadedOK, Loaded
  <2>7. \A w \in Appliers : apc[w] = "direct" => acur[w].id # new.id
    BY <2>2, <2>3, <2>5 DEF TypeInv, CurrentOK, Loaded
  <2>8. InHandOK' /\ AppliedMembersSeeGroupRecords'
    BY <2>1, <2>2, <2>7, Frame DEF UserUgas
  <2> QED BY <1>t, <2>4, <2>6, <2>8
<1>2. ASSUME NEW u, NEW g, UnassignUserFromGroup(u, g) PROVE IInv'
  <2> DEFINE gone == {a \in ugas : a.child = u /\ a.parent = g}
  <2>1. /\ ugas' = ugas \ gone /\ urss' = {x \in urss : x.generic \/ x.uga \notin Ids(gone)}
        /\ UNCHANGED <<grss, ugaSeq, grsSeq, applierVars>>
    BY <1>2, Zenon DEF UnassignUserFromGroup
  <2>2. IdsOK' /\ LoadedOK'
    BY <2>1, FewerRows
  <2>3. \A a \in ugas' : a.id \notin Ids(gone)
    BY <2>1 DEF IdsOK, Ids
  <2>4. InHandOK' /\ AppliedMembersSeeGroupRecords'
    BY <2>1, <2>3, FewerRowsFrame DEF DirectRow
  <2> QED BY <1>t, <2>2, <2>4
<1>3. ASSUME NEW c, NEW g, UnassignGroupFromGroup(c, g) PROVE IInv'
  <2> DEFINE gone == {a \in ugas : a.child = c /\ a.parent = g}
  <2>1. /\ ugas' = ugas \ gone /\ urss' = {x \in urss : x.path \cap Ids(gone) = {}}
        /\ UNCHANGED <<grss, ugaSeq, grsSeq, applierVars>>
    BY <1>3, Zenon DEF UnassignGroupFromGroup
  <2>2. IdsOK' /\ LoadedOK'
    BY <2>1, FewerRows
  <2>3. InHandOK' /\ AppliedMembersSeeGroupRecords'
    BY <2>1, FewerRowsFrame DEF DirectRow
  <2> QED BY <1>t, <2>2, <2>3
<1>4. ASSUME NEW c, NEW g, DeferUnassignGroup(c, g) PROVE IInv'
  <2>a. PICK a \in ugas : ugas' = (ugas \ {a}) \cup {[a EXCEPT !.remove = TRUE]}
    BY <1>4 DEF DeferUnassignGroup
  <2>1. PICK new : ugas' = (ugas \ {a}) \cup {new} /\ new = [a EXCEPT !.remove = TRUE]
    BY <2>a, Zenon
  <2>2. UNCHANGED <<grss, urss, ugaSeq, grsSeq, applierVars>>
    BY <1>4 DEF DeferUnassignGroup
  <2>3. new.id = a.id /\ new.parent = a.parent /\ new.child = a.child /\ new.apply = a.apply
    BY <2>1 DEF TypeInv, TypeOK, Uga
  <2>s. \A b \in ugas' : \E d \in ugas :
            d.id = b.id /\ d.parent = b.parent /\ d.child = b.child /\ d.apply = b.apply
    BY <2>1, <2>3
  <2>r. ugas' = (ugas \ {a}) \cup {new} /\ new.id = a.id
    BY <2>1, <2>3
  <2>4. IdsOK'
    <3>1. \A b \in ugas' : b.id < ugaSeq
      BY <2>s DEF IdsOK
    <3>2. \A b, c2 \in ugas' : b.id = c2.id => b = c2
      BY <2>r, <2>1 DEF IdsOK
    <3> QED BY <3>1, <3>2, <2>2 DEF IdsOK
  <2>5. LoadedOK'
    BY <2>2, <2>s DEF LoadedOK, Loaded
  <2>u. \A b \in UserUgas' : \E d \in UserUgas :
            d.id = b.id /\ d.parent = b.parent /\ (~b.apply => ~d.apply)
    BY <2>s DEF UserUgas
  <2>6. InHandOK' /\ AppliedMembersSeeGroupRecords'
    BY <2>2, <2>u, Frame
  <2> QED BY <1>t, <2>4, <2>5, <2>6
<1>5. ASSUME NEW a, DeleteUserGroupAssignment(a) PROVE IInv'
  <2>1. ugas' = ugas \ {a} /\ UNCHANGED <<grss, urss, ugaSeq, grsSeq, applierVars>>
    BY <1>5 DEF DeleteUserGroupAssignment
  <2> QED BY <1>t, <2>1, FewerRows, FewerRowsFrame
<1>6. ASSUME NEW g, DeleteGroup(g) PROVE IInv'
  <2> DEFINE shared == {s \in grss : s.group = g}
             memberships == {a \in ugas : a.child = g}
  <2>1. /\ urss' = {x \in urss : /\ x.generic \/ x.grs \notin Ids(shared)
                                 /\ x.path \cap Ids(memberships) = {}}
        /\ grss' = grss \ shared
        /\ ugas' = {a \in ugas : a.child # g /\ a.parent # g}
        /\ UNCHANGED <<ugaSeq, grsSeq, applierVars>>
    BY <1>6, Zenon DEF DeleteGroup
  <2>2. IdsOK' /\ LoadedOK'
    BY <2>1, FewerRows
  <2>3. \A s \in grss' : s.id \notin Ids(shared)
    BY <2>1 DEF IdsOK, Ids
  <2>4. InHandOK' /\ AppliedMembersSeeGroupRecords'
    BY <2>1, <2>3, FewerRowsFrame DEF DirectRow
  <2> QED BY <1>t, <2>2, <2>4
<1> QED
  BY <1>1, <1>2, <1>3, <1>4, <1>5, <1>6, Zenon DEF GroupCall

\* The applier. What a run read before the steps of others stays right about the
\* memberships that still exist, because identifiers are never reused.
LEMMA IndApplierControl ==
    ASSUME IInv, UNCHANGED <<ugas, grss, urss, ugaSeq, grsSeq>>,
           \A v \in Appliers : Loaded(v)' \subseteq Loaded(v) \cup ugas,
           \A v \in Appliers : apc'[v] = "direct" =>
               apc[v] = "direct" /\ acur'[v] = acur[v] /\ atodo'[v] = atodo[v],
           TypeInv'
    PROVE  IInv'
<1> USE DEF IInv
<1>1. IdsOK' /\ AppliedMembersSeeGroupRecords'
  BY DEF IdsOK, AppliedMembersSeeGroupRecords, UserUgas, DirectRow
<1>2. LoadedOK'
  <2> SUFFICES ASSUME NEW v \in Appliers, NEW a \in Loaded(v)'
               PROVE  /\ a.id < ugaSeq
                      /\ \A b \in ugas : b.id = a.id => b.parent = a.parent /\ b.child = a.child
    BY DEF LoadedOK
  <2>1. a \in Loaded(v) \/ a \in ugas
    OBVIOUS
  <2> QED BY <2>1 DEF LoadedOK, IdsOK
<1>3. InHandOK'
  BY DEF InHandOK, HasRow, UserUgas
<1> QED BY <1>1, <1>2, <1>3

LEMMA IndApplierRuns ==
    ASSUME IInv, NEW w \in Appliers,
           \/ ApplierCheck(w) \/ ApplierAcquire(w) \/ ApplierLoad(w)
           \/ \E a \in alist[w] : \/ ApplierReadSupergroups(w, a)
                                 \/ ApplierLostUser(w, a)
                                 \/ ApplierReadParents(w, a)
           \/ ApplierFinish(w) \/ ApplierFail(w) \/ ApplierRelease(w)
    PROVE  IInv'
<1> USE DEF tables, Goto
<1>t. TypeInv'
  BY TypeApplier DEF IInv, ApplierStep
<1>u. /\ apc \in [Appliers -> ApplierPc] /\ acur \in [Appliers -> Uga \cup {NoUga}]
      /\ alist \in [Appliers -> SUBSET Uga]
  BY DEF IInv, TypeInv, TypeOK
<1>n. NoUga \notin Uga
  BY DEF NoUga, Uga
<1>1. CASE ApplierCheck(w) \/ ApplierAcquire(w) \/ ApplierFinish(w) \/ ApplierFail(w)
  BY <1>1, <1>t, <1>u, IndApplierControl
     DEF ApplierCheck, ApplierAcquire, ApplierFinish, ApplierFail, Loaded
<1>2. CASE ApplierLoad(w)
  <2>1. \A v \in Appliers : Loaded(v)' \subseteq Loaded(v) \cup ugas
    BY <1>2, <1>u DEF ApplierLoad, Loaded
  <2> QED BY <1>2, <2>1, <1>t, <1>u, IndApplierControl DEF ApplierLoad
<1>3. CASE \E a \in alist[w] : \/ ApplierReadSupergroups(w, a)
                              \/ ApplierLostUser(w, a)
                              \/ ApplierReadParents(w, a)
  <2>1. PICK a \in alist[w] : \/ ApplierReadSupergroups(w, a)
                             \/ ApplierLostUser(w, a)
                             \/ ApplierReadParents(w, a)
    BY <1>3
  <2>2. /\ acur' = [acur EXCEPT ![w] = a] /\ apc[w] = "next"
        /\ UNCHANGED <<ugas, grss, urss, ugaSeq, grsSeq, alist>>
    BY <2>1 DEF ApplierReadSupergroups, ApplierLostUser, ApplierReadParents
  <2>3. apc' \in {[apc EXCEPT ![w] = pc] : pc \in {"super", "release", "copy"}}
    BY <2>1 DEF ApplierReadSupergroups, ApplierLostUser, ApplierReadParents
  <2>4. \A v \in Appliers \ {w} : atodo'[v] = atodo[v]
    <3>1. CASE ApplierReadSupergroups(w, a)
      BY <3>1 DEF ApplierReadSupergroups, IInv, TypeInv, TypeOK
    <3>2. CASE ApplierLostUser(w, a) \/ ApplierReadParents(w, a)
      BY <3>2 DEF ApplierLostUser, ApplierReadParents, IInv, TypeInv, TypeOK
    <3> QED BY <2>1, <3>1, <3>2
  <2>5. \A v \in Appliers : Loaded(v)' \subseteq Loaded(v)
    BY <2>1, <2>2, <1>u DEF Loaded
  <2>6. \A v \in Appliers : apc'[v] = "direct" =>
            apc[v] = "direct" /\ acur'[v] = acur[v] /\ atodo'[v] = atodo[v]
    BY <2>2, <2>3, <2>4, <1>u
  <2> QED BY <2>2, <2>5, <2>6, <1>t, IndApplierControl
<1>4. CASE ApplierRelease(w)
  <2>1. \A v \in Appliers : Loaded(v)' \subseteq Loaded(v)
    BY <1>4, <1>u, <1>n DEF ApplierRelease, Loaded
  <2>2. \A v \in Appliers : apc'[v] = "direct" => v # w
    BY <1>4, <1>u DEF ApplierRelease
  <2>3. \A v \in Appliers : v # w =>
            apc'[v] = apc[v] /\ acur'[v] = acur[v] /\ atodo'[v] = atodo[v]
    BY <1>4, <1>u DEF ApplierRelease, IInv, TypeInv, TypeOK
  <2> QED BY <1>4, <2>1, <2>2, <2>3, <1>t, IndApplierControl DEF ApplierRelease
<1> QED BY <1>1, <1>2, <1>3, <1>4

\* A write of either loop: the row leaves the hands of the run for the table.
LEMMA IndShareNext ==
    ASSUME IInv, NEW w \in Appliers, ApplierShareNext(w) PROVE IInv'
<1>t. TypeInv'
  BY TypeApplier DEF IInv, ApplierStep
<1>1. PICK x \in atodo[w] : urss' = Upsert({x}) /\ atodo' = [atodo EXCEPT ![w] = @ \ {x}]
  BY DEF ApplierShareNext
<1>2. UNCHANGED <<ugas, grss, ugaSeq, grsSeq, apc, alist, acur>>
  BY DEF ApplierShareNext
<1>3. IdsOK' /\ LoadedOK'
  BY <1>2, FewerRows DEF IInv
<1>4. \A s, a, more : HasRow(urss \cup more, s, a) => HasRow(urss' \cup more, s, a)
  BY <1>1, UpsertKeepsRows
<1>5. \A v \in Appliers : \A s, a :
          HasRow(urss \cup atodo[v], s, a) => HasRow(urss' \cup atodo'[v], s, a)
  <2>1. SUFFICES ASSUME NEW v \in Appliers, NEW s, NEW a, HasRow(urss \cup atodo[v], s, a)
                 PROVE  HasRow(urss' \cup atodo'[v], s, a)
    OBVIOUS
  <2>2. HasRow(urss' \cup atodo[v], s, a)
    BY <1>4, <2>1
  <2>3. x \in urss'
    BY <1>1 DEF Upsert
  <2>4. atodo[v] \subseteq atodo'[v] \cup {x}
    BY <1>1 DEF IInv, TypeInv, TypeOK
  <2> QED BY <2>2, <2>3, <2>4 DEF HasRow
<1>6. InHandOK'
  BY <1>2, <1>5 DEF IInv, InHandOK, UserUgas
<1>7. AppliedMembersSeeGroupRecords'
  <2> SUFFICES ASSUME NEW a \in UserUgas, NEW s \in grss, ~a.apply, a.parent = s.group, ~s.copy
               PROVE  HasRow(urss', s, a)
    BY <1>2 DEF AppliedMembersSeeGroupRecords, HasRow, UserUgas
  <2>1. HasRow(urss \cup {}, s, a)
    BY DEF IInv, AppliedMembersSeeGroupRecords, HasRow
  <2>2. HasRow(urss' \cup {}, s, a)
    BY <1>4, <2>1
  <2> QED BY <2>2 DEF HasRow
<1> QED BY <1>t, <1>3, <1>6, <1>7 DEF IInv

\* The second query takes all sharings of the group in hand.
LEMMA IndReadDirect ==
    ASSUME IInv, NEW w \in Appliers, ApplierReadDirect(w) PROVE IInv'
<1>t. TypeInv'
  BY TypeApplier DEF IInv, ApplierStep
<1> DEFINE rows == {PropagatedRow(s.record, acur[w].child, s.id, acur[w].id, {}, s.edit) :
                       s \in {t \in grss : t.group = acur[w].parent}}
<1>1. atodo' = [atodo EXCEPT ![w] = rows]
  BY Zenon DEF ApplierReadDirect
<1>2. /\ UNCHANGED <<ugas, grss, urss, ugaSeq, grsSeq, alist, acur>>
      /\ apc' = [apc EXCEPT ![w] = "direct"] /\ apc[w] = "super"
  BY DEF ApplierReadDirect, tables, Goto
<1>3. IdsOK' /\ LoadedOK'
  BY <1>2, FewerRows DEF IInv
<1>4. AppliedMembersSeeGroupRecords'
  BY <1>2 DEF IInv, AppliedMembersSeeGroupRecords, UserUgas, DirectRow
<1>5. ASSUME NEW a \in UserUgas, NEW s \in grss, a.id = acur[w].id, s.group = a.parent
      PROVE  HasRow(rows, s, a)
  <2>1. acur[w] \in Loaded(w)
    BY <1>2 DEF IInv, TypeInv, CurrentOK, Loaded
  <2>2. acur[w].parent = a.parent
    BY <1>5, <2>1 DEF IInv, LoadedOK, UserUgas
  <2> DEFINE x == PropagatedRow(s.record, acur[w].child, s.id, acur[w].id, {}, s.edit)
  <2>3. x \in rows
    BY <1>5, <2>2
  <2>4. DirectRow(x, s, a)
    BY <1>5 DEF DirectRow, PropagatedRow
  <2> HIDE DEF x, rows
  <2> QED BY <2>3, <2>4 DEF HasRow
<1> HIDE DEF rows
<1>6. InHandOK'
  <2> SUFFICES ASSUME NEW v \in Appliers, apc'[v] = "direct", NEW a \in UserUgas, NEW s \in grss,
                      a.id = acur[v].id, s.group = a.parent, ~s.copy
               PROVE  HasRow(urss \cup atodo'[v], s, a)
    BY <1>2 DEF InHandOK, HasRow, UserUgas
  <2>1. CASE v = w
    <3>1. HasRow(rows, s, a)
      BY <2>1, <1>5
    <3>2. atodo'[w] = rows
      BY <1>1 DEF IInv, TypeInv, TypeOK
    <3> QED BY <2>1, <3>1, <3>2 DEF HasRow
  <2>2. CASE v # w
    <3>1. apc[v] = "direct" /\ atodo'[v] = atodo[v]
      BY <1>1, <1>2, <2>2 DEF IInv, TypeInv, TypeOK
    <3> QED BY <3>1 DEF IInv, InHandOK
  <2> QED BY <2>1, <2>2
<1> QED BY <1>t, <1>3, <1>4, <1>6 DEF IInv

\* A copy is a new sharing that its members need no row for.
LEMMA IndCopyNext ==
    ASSUME IInv, NEW w \in Appliers, ApplierCopyNext(w) PROVE IInv'
<1>t. TypeInv'
  BY TypeApplier DEF IInv, ApplierStep
<1>s. PICK s \in acopy[w] :
        IF acur[w].child \in groups
        THEN /\ grss' = grss \cup {[id |-> grsSeq, record |-> s.record, group |-> acur[w].child,
                                   edit |-> s.edit, generic |-> FALSE, copy |-> TRUE]}
             /\ grsSeq' = grsSeq + 1
             /\ urss' = Upsert(PropagatedRows(s, s.id, acur[w].child, {acur[w].id}))
             /\ acopy' = [acopy EXCEPT ![w] = @ \ {s}]
             /\ UNCHANGED apc
        ELSE Goto(w, "release") /\ UNCHANGED <<grss, grsSeq, urss, acopy>>
  BY Zenon DEF ApplierCopyNext
<1> DEFINE new == [id |-> grsSeq, record |-> s.record, group |-> acur[w].child,
                   edit |-> s.edit, generic |-> FALSE, copy |-> TRUE]
<1>1. /\ new.id = grsSeq /\ new.copy = TRUE
      /\ IF acur[w].child \in groups
         THEN /\ grss' = grss \cup {new}
              /\ grsSeq' = grsSeq + 1
              /\ urss' = Upsert(PropagatedRows(s, s.id, acur[w].child, {acur[w].id}))
              /\ UNCHANGED apc
         ELSE Goto(w, "release") /\ UNCHANGED <<grss, grsSeq, urss>>
  <2>1. new.id = grsSeq /\ new.copy = TRUE
    OBVIOUS
  <2> QED BY <1>s, <2>1, Zenon
<1> HIDE DEF new
<1>2. UNCHANGED <<ugas, ugaSeq, alist, acur, atodo>>
  BY DEF ApplierCopyNext
<1>3. CASE acur[w].child \in groups
  <2>1. UNCHANGED apc /\ grss' = grss \cup {new} /\ grsSeq' = grsSeq + 1
    BY <1>1, <1>3
  <2>2. grsSeq \in Nat /\ \A r \in grss : r.id \in Nat /\ r.id < grsSeq
    BY DEF IInv, IdsOK, TypeInv, TypeOK, Grs
  <2>3. IdsOK'
    BY <1>1, <1>2, <2>1, <2>2 DEF IInv, IdsOK
  <2>4. LoadedOK'
    BY <1>2 DEF IInv, LoadedOK, Loaded
  <2>5. \A r, a, more : HasRow(urss \cup more, r, a) => HasRow(urss' \cup more, r, a)
    BY <1>1, <1>3, UpsertKeepsRows
  <2>6. InHandOK' /\ AppliedMembersSeeGroupRecords'
    BY <1>1, <1>2, <2>1, <2>5, Frame DEF IInv, UserUgas
  <2> QED BY <1>t, <2>3, <2>4, <2>6 DEF IInv
<1>4. CASE acur[w].child \notin groups
  <2>1. UNCHANGED <<grss, grsSeq, urss>> /\ apc' = [apc EXCEPT ![w] = "release"]
    BY <1>1, <1>4 DEF Goto
  <2>2. \A v \in Appliers : apc'[v] = "direct" => apc[v] = "direct"
    BY <2>1 DEF IInv, TypeInv, TypeOK
  <2> QED BY <1>t, <1>2, <2>1, <2>2, IndApplierControl DEF Loaded
<1> QED BY <1>3, <1>4

\* The save: nothing is left in hand, so every sharing of the group has its row.
LEMMA IndMark ==
    ASSUME IInv, NEW w \in Appliers, ApplierMark(w) PROVE IInv'
<1>t. TypeInv'
  BY TypeApplier DEF IInv, ApplierStep
<1>1. /\ \/ apc[w] = "direct" /\ atodo[w] = {}
         \/ apc[w] = "copy"
      /\ ugas' = SaveApplied(acur[w])
      /\ alist' = [alist EXCEPT ![w] = @ \ {acur[w]}]
      /\ acur' = [acur EXCEPT ![w] = NoUga]
      /\ \E pc \in {"next", "release"} : apc' = [apc EXCEPT ![w] = pc]
      /\ UNCHANGED <<grss, urss, ugaSeq, grsSeq, atodo>>
  BY DEF ApplierMark, Goto
<1> DEFINE saved(b) == IF b.id = acur[w].id THEN [b EXCEPT !.apply = FALSE] ELSE b
<1>2. ASSUME NEW b \in ugas
      PROVE  /\ saved(b).id = b.id /\ saved(b).parent = b.parent /\ saved(b).child = b.child
             /\ b.id # acur[w].id => saved(b) = b
  BY <1>2 DEF IInv, TypeInv, TypeOK, Uga
<1>s. ugas' = {saved(b) : b \in ugas}
  BY <1>1, Zenon DEF SaveApplied
<1> HIDE DEF saved
<1>3. \A b \in ugas' : \E c \in ugas :
          /\ c.id = b.id /\ c.parent = b.parent /\ c.child = b.child
          /\ b = saved(c)
          /\ b.id # acur[w].id => b = c
  BY <1>2, <1>s
<1>4. IdsOK'
  <2>1. \A a, b \in ugas' : a.id = b.id => a = b
    BY <1>3 DEF IInv, IdsOK
  <2>2. \A a \in ugas' : a.id < ugaSeq
    BY <1>3 DEF IInv, IdsOK
  <2> QED BY <1>1, <2>1, <2>2 DEF IInv, IdsOK
<1>5. LoadedOK'
  <2>1. \A v \in Appliers : Loaded(v)' \subseteq Loaded(v)
    <3>1. ASSUME NEW v \in Appliers
          PROVE  alist'[v] \subseteq alist[v] /\ acur'[v] \in {NoUga, acur[v]}
      BY <1>1, <3>1 DEF IInv, TypeInv, TypeOK
    <3>2. NoUga \notin Uga
      BY DEF NoUga, Uga
    <3> QED BY <3>1, <3>2 DEF Loaded
  <2> QED BY <1>1, <1>3, <2>1 DEF IInv, LoadedOK
<1>6. InHandOK'
  <2> SUFFICES ASSUME NEW v \in Appliers, apc'[v] = "direct", NEW a \in UserUgas', NEW s \in grss,
                      a.id = acur'[v].id, s.group = a.parent, ~s.copy
               PROVE  HasRow(urss \cup atodo[v], s, a)
    BY <1>1 DEF InHandOK, HasRow
  <2>1. apc[v] = "direct" /\ acur'[v] = acur[v]
    BY <1>1 DEF IInv, TypeInv, TypeOK
  <2>2. PICK b \in UserUgas : b.id = a.id /\ b.parent = a.parent
    BY <1>3 DEF UserUgas
  <2>3. HasRow(urss \cup atodo[v], s, b)
    BY <2>1, <2>2 DEF IInv, InHandOK
  <2> QED BY <2>2, <2>3 DEF HasRow, DirectRow
<1>7. AppliedMembersSeeGroupRecords'
  <2> SUFFICES ASSUME NEW a \in UserUgas', NEW s \in grss, ~a.apply, a.parent = s.group, ~s.copy
               PROVE  HasRow(urss, s, a)
    BY <1>1 DEF AppliedMembersSeeGroupRecords, HasRow
  <2>1. PICK b \in UserUgas : /\ b.id = a.id /\ b.parent = a.parent /\ b.child = a.child
                              /\ b.id # acur[w].id => ~b.apply
    BY <1>3 DEF UserUgas
  <2>2. CASE b.id = acur[w].id
    <3>1. apc[w] # "copy"
      <4>1. SUFFICES ASSUME apc[w] = "copy" PROVE FALSE
        OBVIOUS
      <4>2. acur[w] \in Loaded(w) /\ acur[w].child \in Groups
        BY <4>1 DEF IInv, TypeInv, CurrentOK, Loaded
      <4>3. b.child = acur[w].child
        BY <2>2, <4>2 DEF IInv, LoadedOK, UserUgas
      <4> QED BY <4>2, <4>3, SharingAssumption DEF UserUgas
    <3>2. apc[w] = "direct" /\ atodo[w] = {}
      BY <1>1, <3>1
    <3>3. HasRow(urss \cup atodo[w], s, b)
      BY <2>1, <2>2, <3>2 DEF IInv, InHandOK
    <3> QED BY <2>1, <3>2, <3>3 DEF HasRow, DirectRow
  <2>3. CASE b.id # acur[w].id
    BY <2>1, <2>3 DEF IInv, AppliedMembersSeeGroupRecords, HasRow, DirectRow
  <2> QED BY <2>2, <2>3
<1> QED BY <1>t, <1>4, <1>5, <1>6, <1>7 DEF IInv

\* The remover deletes rows that have a path, and memberships.
LEMMA IndRemover ==
    ASSUME IInv, NEW w \in Removers, RemoverStep(w) \/ RemoverFail(w) PROVE IInv'
<1>t. TypeInv'
  BY TypeRemover DEF IInv
<1>1. /\ UNCHANGED <<grss, ugaSeq, grsSeq, apc, alist, acur, atodo>> /\ ugas' \subseteq ugas
      /\ \A x \in urss : x.path = {} => x \in urss'
  <2> USE DEF tables, applierVars
  <2>1. CASE RemoverBatch(w)
    BY <2>1 DEF RemoverBatch
  <2>2. CASE RemoverDelete(w)
    BY <2>2 DEF RemoverDelete
  <2>3. CASE RemoverCheck(w) \/ RemoverAcquire(w) \/ RemoverLoad(w) \/ RemoverNext(w)
                 \/ RemoverFail(w) \/ RemoverRelease(w)
    BY <2>3 DEF RemoverCheck, RemoverAcquire, RemoverLoad, RemoverNext, RemoverFail, RemoverRelease
  <2> QED BY <2>1, <2>2, <2>3 DEF RemoverStep
<1>2. IdsOK' /\ LoadedOK'
  BY <1>1, FewerRows DEF IInv
<1>3. InHandOK' /\ AppliedMembersSeeGroupRecords'
  BY <1>1, FewerRowsFrame DEF IInv, DirectRow
<1> QED BY <1>t, <1>2, <1>3 DEF IInv

\* After a restart nothing is in hand.
LEMMA IndRestart ==
    ASSUME IInv, Restart PROVE IInv'
<1>t. TypeInv'
  BY TypeRestart DEF IInv
<1>1. UNCHANGED <<ugas, grss, urss, ugaSeq, grsSeq>>
  BY DEF Restart, tables
<1>2. \A w \in Appliers : apc'[w] = "idle" /\ alist'[w] = {} /\ acur'[w] = NoUga
  BY DEF Restart
<1>3. \A w \in Appliers : Loaded(w)' = {}
  BY <1>2 DEF Loaded, NoUga, Uga
<1>4. IdsOK' /\ LoadedOK' /\ InHandOK'
  BY <1>1, <1>2, <1>3 DEF IInv, IdsOK, LoadedOK, InHandOK
<1>5. AppliedMembersSeeGroupRecords'
  BY <1>1 DEF IInv, AppliedMembersSeeGroupRecords, UserUgas, DirectRow
<1> QED BY <1>t, <1>4, <1>5 DEF IInv

LEMMA IndNext == IInv /\ [Next]_vars => IInv'
<1> SUFFICES ASSUME IInv, [Next]_vars PROVE IInv'
  OBVIOUS
<1>1. CASE UNCHANGED vars
  <2>1. TypeInv'
    BY <1>1, TypeNext DEF IInv
  <2>2. UNCHANGED <<ugas, grss, urss, ugaSeq, grsSeq, apc, alist, acur, atodo>>
    BY <1>1 DEF vars, tables, applierVars
  <2>3. IdsOK' /\ LoadedOK'
    BY <2>2, FewerRows DEF IInv
  <2>4. InHandOK' /\ AppliedMembersSeeGroupRecords'
    BY <2>2, FewerRowsFrame DEF IInv
  <2> QED BY <2>1, <2>3, <2>4 DEF IInv
<1>2. CASE SharingCall
  BY <1>2, IndSharingCall
<1>3. CASE GroupCall
  BY <1>3, IndGroupCall
<1>4. ASSUME NEW w \in Appliers, ApplierStep(w) \/ ApplierFail(w) PROVE IInv'
  BY <1>4, IndApplierRuns, IndShareNext, IndReadDirect, IndCopyNext, IndMark DEF ApplierStep
<1>5. ASSUME NEW w \in Removers, RemoverStep(w) \/ RemoverFail(w) PROVE IInv'
  BY <1>5, IndRemover
<1>6. CASE Restart
  BY <1>6, IndRestart
<1> QED BY <1>1, <1>2, <1>3, <1>4, <1>5, <1>6 DEF Next, JobStep

\* Whatever calls, job runs, failures and restarts interleave, an applied member
\* holds a row for every sharing of its group.
THEOREM AppliedMembersAreServed == Spec => []AppliedMembersSeeGroupRecords
<1>1. Spec => []IInv
  BY IndInit, IndNext, PTL DEF Spec
<1> QED BY <1>1, PTL DEF IInv

=============================================================================
