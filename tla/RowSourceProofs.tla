--------------------------- MODULE RowSourceProofs ---------------------------
(***************************************************************************)
(* Rows of GroupSharing, for every value of the constants: propagated rows *)
(* agree with the sharing and the membership they name, direct grants are  *)
(* left alone by groups and jobs, and on a quiet server every propagated   *)
(* row has its sources.  The rows are written long after the reads they    *)
(* were computed from, so the invariants speak of the rows and copies that *)
(* a run of the applier has in memory as well; that identifiers are unique *)
(* and never reused comes from IInv of GroupSharingProofs.                 *)
(***************************************************************************)
EXTENDS GroupSharingProofs

\* A row, written or in memory, agrees with what is left of its sources. Both
\* identifiers were issued, so no later sharing or membership can have them.
RowOK(x) ==
    ~x.generic =>
        /\ x.grs < grsSeq /\ x.uga < ugaSeq
        /\ \A s \in grss : x.grs = s.id => x.record = s.record
        /\ \A a \in ugas : x.uga = a.id => x.user = a.child
        /\ \A s \in grss, a \in ugas :
               x.grs = s.id /\ x.uga = a.id /\ x.path = {} => s.group = a.parent

\* A sharing in memory, to be copied, is for the record its row is for.
CopyOK(s) == s.id < grsSeq /\ \A t \in grss : t.id = s.id => t.record = s.record

SourceInv ==
    /\ \A x \in urss : RowOK(x)
    /\ \A w \in Appliers : \A x \in atodo[w] : RowOK(x)
    /\ \A w \in Appliers : \A s \in acopy[w] : CopyOK(s)

\* What no step does: give an issued identifier to other data.
SourcesKept ==
    /\ grsSeq =< grsSeq' /\ ugaSeq =< ugaSeq'
    /\ \A s \in grss' :
           \/ grsSeq =< s.id
           \/ \E t \in grss : t.id = s.id /\ t.record = s.record /\ t.group = s.group
    /\ \A a \in ugas' :
           \/ ugaSeq =< a.id
           \/ \E b \in ugas : b.id = a.id /\ b.child = a.child /\ b.parent = a.parent

-----------------------------------------------------------------------------
(* The frame of a step.                                                    *)

LEMMA RowStaysOK ==
    ASSUME TypeOK, TypeOK', SourcesKept, NEW x \in Urs, RowOK(x) PROVE RowOK(x)'
<1> SUFFICES ASSUME ~x.generic PROVE RowOK(x)'
  BY DEF RowOK
<1>1. /\ x.grs \in Nat /\ x.uga \in Nat /\ x.grs < grsSeq /\ x.uga < ugaSeq
      /\ {grsSeq, ugaSeq, grsSeq', ugaSeq'} \subseteq Nat
  BY DEF RowOK, Urs, TypeOK
<1>2. x.grs < grsSeq' /\ x.uga < ugaSeq'
  BY <1>1 DEF SourcesKept
<1>3. \A s \in grss' : x.grs = s.id =>
          \E t \in grss : t.id = s.id /\ t.record = s.record /\ t.group = s.group
  BY <1>1 DEF SourcesKept
<1>4. \A a \in ugas' : x.uga = a.id =>
          \E b \in ugas : b.id = a.id /\ b.child = a.child /\ b.parent = a.parent
  BY <1>1 DEF SourcesKept
<1>5. \A s \in grss' : x.grs = s.id => x.record = s.record
  BY <1>3 DEF RowOK
<1>6. \A a \in ugas' : x.uga = a.id => x.user = a.child
  BY <1>4 DEF RowOK
<1>7. ASSUME NEW s \in grss', NEW a \in ugas', x.grs = s.id, x.uga = a.id, x.path = {}
      PROVE  s.group = a.parent
  <2>1. PICK t \in grss : t.id = s.id /\ t.group = s.group
    BY <1>3, <1>7
  <2>2. PICK b \in ugas : b.id = a.id /\ b.parent = a.parent
    BY <1>4, <1>7
  <2> QED BY <1>7, <2>1, <2>2 DEF RowOK
<1> QED BY <1>2, <1>5, <1>6, <1>7 DEF RowOK

LEMMA CopyStaysOK ==
    ASSUME TypeOK, TypeOK', SourcesKept, NEW s \in Grs, CopyOK(s) PROVE CopyOK(s)'
<1>1. s.id \in Nat /\ s.id < grsSeq /\ {grsSeq, grsSeq'} \subseteq Nat
  BY DEF CopyOK, Grs, TypeOK
<1>2. s.id < grsSeq'
  BY <1>1 DEF SourcesKept
<1>3. \A t \in grss' : t.id = s.id => \E v \in grss : v.id = t.id /\ v.record = t.record
  BY <1>1 DEF SourcesKept
<1> QED BY <1>2, <1>3 DEF CopyOK

\* Only rows and copies that are new to the tables or to the memory of a run
\* have to be looked at.
LEMMA NewRowsOnly ==
    ASSUME TypeOK, TypeOK', SourceInv, SourcesKept,
           \A x \in urss' :
               x \in urss \/ (\E w \in Appliers : x \in atodo[w]) \/ RowOK(x)',
           \A w \in Appliers : \A x \in atodo'[w] : x \in atodo[w] \/ RowOK(x)',
           \A w \in Appliers : \A s \in acopy'[w] : s \in acopy[w] \/ CopyOK(s)'
    PROVE  SourceInv'
<1>1. /\ \A x \in urss : x \in Urs
      /\ \A w \in Appliers : \A x \in atodo[w] : x \in Urs
      /\ \A w \in Appliers : \A s \in acopy[w] : s \in Grs
  BY DEF TypeOK
<1>2. \A x \in urss' : RowOK(x)'
  BY <1>1, RowStaysOK DEF SourceInv
<1>3. \A w \in Appliers : \A x \in atodo'[w] : RowOK(x)'
  BY <1>1, RowStaysOK DEF SourceInv
<1>4. \A w \in Appliers : \A s \in acopy'[w] : CopyOK(s)'
  BY <1>1, CopyStaysOK DEF SourceInv
<1> QED BY <1>2, <1>3, <1>4 DEF SourceInv

\* Most steps only delete.
LEMMA DeletionsKeepSources ==
    ASSUME TypeOK, ugas' \subseteq ugas, grss' \subseteq grss, UNCHANGED <<ugaSeq, grsSeq>>
    PROVE  SourcesKept
BY DEF SourcesKept, TypeOK

LEMMA DeletionsOnly ==
    ASSUME TypeOK, TypeOK', SourceInv,
           ugas' \subseteq ugas, grss' \subseteq grss, urss' \subseteq urss,
           UNCHANGED <<ugaSeq, grsSeq>>,
           \A w \in Appliers : atodo'[w] \subseteq atodo[w] /\ acopy'[w] \subseteq acopy[w]
    PROVE  SourceInv'
<1>1. SourcesKept
  BY DeletionsKeepSources
<1> QED BY <1>1, NewRowsOnly

\* The members a sharing is propagated to hold memberships, those without a
\* path in the group itself: the path of a subgroup has at least one id.
LEMMA MembersHoldMemberships ==
    ASSUME NEW g, NEW m \in MembersBelow(g)
    PROVE  m.uga \in UserUgas /\ (m.path = {} => m.uga.parent = g)
<1>1. CASE m \in DirectMembers(g)
  BY <1>1 DEF DirectMembers, UserUgas
<1>2. CASE m \in SubgroupMembers(g)
  <2>1. PICK a \in UserUgas : \E S \in Chains(a.parent, g) : m = [uga |-> a, path |-> Ids(S)]
    BY <1>2 DEF SubgroupMembers
  <2>p. PICK S \in Chains(a.parent, g) : m = [uga |-> a, path |-> Ids(S)]
    BY <2>1
  <2>2. PICK e \in S : e.child = a.parent
    BY DEF Chains, IsChain
  <2>3. e.id \in Ids(S)
    BY <2>2 DEF Ids
  <2> QED BY <2>p, <2>3 DEF UserUgas
<1> QED BY <1>1, <1>2 DEF MembersBelow

-----------------------------------------------------------------------------
LEMMA SourceInit == Init => SourceInv
BY DEF Init, SourceInv

LEMMA SourceSharingCall ==
    ASSUME IInv, IInv', SourceInv, SharingCall PROVE SourceInv'
<1> USE DEF applierVars, removerVars
<1>t. TypeOK /\ TypeOK' /\ IdsOK /\ IdsOK'
  BY DEF IInv, TypeInv
<1>1. ASSUME NEW u, NEW r, NEW edit, ShareRecord(u, r, edit) PROVE SourceInv'
  <2>1. /\ urss' = Upsert({GenericRow(u, r, edit)})
        /\ UNCHANGED <<ugas, grss, ugaSeq, grsSeq, atodo, acopy>>
    BY <1>1 DEF ShareRecord
  <2>2. SourcesKept
    BY <1>t, <2>1, DeletionsKeepSources
  <2>3. RowOK(GenericRow(u, r, edit))'
    BY DEF RowOK, GenericRow
  <2>4. \A x \in urss' : x \in urss \/ x = GenericRow(u, r, edit)
    BY <2>1 DEF Upsert
  <2> QED BY <1>t, <2>1, <2>2, <2>3, <2>4, NewRowsOnly
<1>2. ASSUME NEW us, NEW r, UnshareRecord(us, r) PROVE SourceInv'
  BY <1>t, <1>2, DeletionsOnly DEF UnshareRecord
<1>3. ASSUME NEW r, NEW g, NEW edit, NEW generic, ShareRecordWithGroup(r, g, edit, generic)
      PROVE  SourceInv'
  <2> DEFINE same == {s \in grss : generic /\ s.generic /\ s.record = r /\ s.group = g}
             id == IF same = {} THEN grsSeq ELSE (CHOOSE s \in same : TRUE).id
             s == [id |-> id, record |-> r, group |-> g, edit |-> edit,
                   generic |-> generic, copy |-> FALSE]
  <2>1. /\ grss' = {t \in grss : t.id # id} \cup {s}
        /\ grsSeq' = IF same = {} THEN grsSeq + 1 ELSE grsSeq
        /\ urss' = Upsert(PropagatedRows(s, id, g, {}))
        /\ UNCHANGED <<groups, ugas, ugaSeq, applierVars, removerVars, faults>>
    BY <1>3, Zenon DEF ShareRecordWithGroup
  <2>2. s.id = id /\ s.record = r /\ s.group = g /\ s \in grss'
    BY <2>1
  <2>3. /\ grsSeq \in Nat /\ grsSeq =< grsSeq'
        /\ id = grsSeq \/ \E t \in grss : t.id = id /\ t.record = r /\ t.group = g
    <3>1. grsSeq \in Nat
      BY <1>t DEF TypeOK
    <3>2. CASE same = {}
      <4>1. id = grsSeq /\ grsSeq' = grsSeq + 1
        BY <2>1, <3>2
      <4> HIDE DEF same, id, s
      <4> QED BY <3>1, <4>1
    <3>3. CASE same # {}
      <4>1. grsSeq' = grsSeq
        BY <2>1, <3>3
      <4>2. \E t \in same : t.id = id
        BY <3>3
      <4>3. \A t \in same : t \in grss /\ t.record = r /\ t.group = g
        OBVIOUS
      <4> HIDE DEF same, id, s
      <4> QED BY <3>1, <4>1, <4>2, <4>3
    <3> QED BY <3>2, <3>3
  <2> HIDE DEF same, id, s
  <2>4. SourcesKept
    <3>1. ugaSeq =< ugaSeq' /\ \A a \in ugas' : a \in ugas
      BY <1>t, <2>1 DEF TypeOK
    <3>2. \A t \in grss' : t \in grss \/ t = s
      BY <2>1
    <3>3. \A t \in grss' :
              \/ grsSeq =< t.id
              \/ \E v \in grss : v.id = t.id /\ v.record = t.record /\ v.group = t.group
      BY <2>2, <2>3, <3>2
    <3> QED BY <2>3, <3>1, <3>3 DEF SourcesKept
  <2>5. ASSUME NEW x \in PropagatedRows(s, id, g, {}) PROVE RowOK(x)'
    <3>1. PICK m \in MembersBelow(g) :
            x = PropagatedRow(s.record, m.uga.child, id, m.uga.id, {} \cup m.path, s.edit)
      BY <2>5 DEF PropagatedRows
    <3>2. /\ x.grs = s.id /\ x.record = s.record
          /\ x.uga = m.uga.id /\ x.user = m.uga.child /\ x.path = m.path
      BY <2>2, <3>1 DEF PropagatedRow
    <3>3. m.uga \in ugas' /\ (m.path = {} => m.uga.parent = g)
      BY <2>1, MembersHoldMemberships DEF UserUgas
    <3>4. x.grs < grsSeq' /\ x.uga < ugaSeq'
      BY <1>t, <2>2, <3>2, <3>3 DEF IdsOK
    <3>5. /\ \A t \in grss' : x.grs = t.id => t = s
          /\ \A a \in ugas' : x.uga = a.id => a = m.uga
      BY <1>t, <2>2, <3>2, <3>3 DEF IdsOK
    <3> QED BY <2>2, <3>2, <3>3, <3>4, <3>5 DEF RowOK
  <2>6. \A x \in urss' : x \in urss \/ RowOK(x)'
    BY <2>1, <2>5 DEF Upsert
  <2> QED BY <1>t, <2>1, <2>4, <2>6, NewRowsOnly
<1>4. ASSUME NEW r, NEW gs, NEW kinds, UnshareRecordWithGroup(r, gs, kinds) PROVE SourceInv'
  <2>1. /\ grss' \subseteq grss /\ urss' \subseteq urss
        /\ UNCHANGED <<ugas, ugaSeq, grsSeq, atodo, acopy>>
    BY <1>4 DEF UnshareRecordWithGroup
  <2> QED BY <1>t, <2>1, DeletionsOnly
<1> QED
  BY <1>1, <1>2, <1>3, <1>4, Zenon DEF SharingCall

LEMMA SourceGroupCall ==
    ASSUME IInv, IInv', SourceInv, GroupCall PROVE SourceInv'
<1> USE DEF applierVars, removerVars
<1>t. TypeOK /\ TypeOK'
  BY DEF IInv, TypeInv
<1>1. ASSUME NEW c, NEW g, Assign(c, g) PROVE SourceInv'
  <2>1. /\ ugas' = ugas \cup {[id |-> ugaSeq, parent |-> g, child |-> c,
                               apply |-> TRUE, remove |-> FALSE]}
        /\ ugaSeq' = ugaSeq + 1
        /\ UNCHANGED <<grss, urss, grsSeq, atodo, acopy>>
    BY <1>1 DEF Assign
  <2>2. ugaSeq \in Nat /\ grsSeq \in Nat
    BY <1>t DEF TypeOK
  <2>3. \A a \in ugas' : a \in ugas \/ a.id = ugaSeq
    BY <2>1
  <2>4. SourcesKept
    BY <2>1, <2>2, <2>3 DEF SourcesKept
  <2> QED BY <1>t, <2>1, <2>4, NewRowsOnly
<1>2. ASSUME NEW u, NEW g, UnassignUserFromGroup(u, g) PROVE SourceInv'
  <2>1. /\ ugas' \subseteq ugas /\ urss' \subseteq urss
        /\ UNCHANGED <<grss, ugaSeq, grsSeq, atodo, acopy>>
    BY <1>2 DEF UnassignUserFromGroup
  <2> QED BY <1>t, <2>1, DeletionsOnly
<1>3. ASSUME NEW c, NEW g, UnassignGroupFromGroup(c, g) PROVE SourceInv'
  <2>1. /\ ugas' \subseteq ugas /\ urss' \subseteq urss
        /\ UNCHANGED <<grss, ugaSeq, grsSeq, atodo, acopy>>
    BY <1>3 DEF UnassignGroupFromGroup
  <2> QED BY <1>t, <2>1, DeletionsOnly
<1>4. ASSUME NEW c, NEW g, DeferUnassignGroup(c, g) PROVE SourceInv'
  <2>1. PICK a \in ugas : ugas' = (ugas \ {a}) \cup {[a EXCEPT !.remove = TRUE]}
    BY <1>4 DEF DeferUnassignGroup
  <2>2. a \in Uga
    BY <1>t DEF TypeOK
  <2>3. \A b \in ugas' : \E e \in ugas : e.id = b.id /\ e.child = b.child /\ e.parent = b.parent
    BY <2>1, <2>2 DEF Uga
  <2>4. UNCHANGED <<grss, urss, ugaSeq, grsSeq, atodo, acopy>>
    BY <1>4 DEF DeferUnassignGroup
  <2>5. SourcesKept
    BY <1>t, <2>3, <2>4 DEF SourcesKept, TypeOK
  <2> QED BY <1>t, <2>4, <2>5, NewRowsOnly
<1>5. ASSUME NEW a, DeleteUserGroupAssignment(a) PROVE SourceInv'
  BY <1>t, <1>5, DeletionsOnly DEF DeleteUserGroupAssignment
<1>6. ASSUME NEW g, DeleteGroup(g) PROVE SourceInv'
  <2>1. /\ ugas' \subseteq ugas /\ grss' \subseteq grss /\ urss' \subseteq urss
        /\ UNCHANGED <<ugaSeq, grsSeq, atodo, acopy>>
    BY <1>6 DEF DeleteGroup
  <2> QED BY <1>t, <2>1, DeletionsOnly
<1> QED
  BY <1>1, <1>2, <1>3, <1>4, <1>5, <1>6 DEF GroupCall

\* The first query computes rows with a path: it holds at least the membership
\* the group was reached from.
LEMMA SourceReadSupergroups ==
    ASSUME IInv, IInv', SourceInv, NEW w \in Appliers, NEW a \in alist[w],
           ApplierReadSupergroups(w, a)
    PROVE  SourceInv'
<1>t. TypeOK /\ TypeOK' /\ IdsOK /\ LoadedOK
  BY DEF IInv, TypeInv
<1>1. PICK seed \in Seeds(a.child) :
        atodo' = [atodo EXCEPT ![w] =
            {PropagatedRow(s.record, a.child, s.id, a.id, HierarchyPath(seed[s.group]), s.edit) :
                s \in {t \in grss : t.group \in LastLevel(GroupsOf(a.child))}}]
  BY Zenon DEF ApplierReadSupergroups
<1>2. UNCHANGED <<ugas, grss, urss, ugaSeq, grsSeq, acopy>>
  BY DEF ApplierReadSupergroups, tables
<1>3. SourcesKept
  BY <1>t, <1>2, DeletionsKeepSources
<1>4. ASSUME NEW s \in grss
      PROVE  RowOK(PropagatedRow(s.record, a.child, s.id, a.id,
                                 HierarchyPath(seed[s.group]), s.edit))
  <2> DEFINE x == PropagatedRow(s.record, a.child, s.id, a.id,
                                HierarchyPath(seed[s.group]), s.edit)
  <2>1. /\ x.grs = s.id /\ x.record = s.record /\ x.uga = a.id /\ x.user = a.child
        /\ x.path = HierarchyPath(seed[s.group])
    BY DEF PropagatedRow
  <2>2. x.path # {}
    BY <2>1 DEF HierarchyPath
  <2>3. a.id < ugaSeq /\ \A b \in ugas : b.id = a.id => b.child = a.child
    BY <1>t DEF LoadedOK, Loaded
  <2>4. s.id < grsSeq /\ \A t \in grss : t.id = s.id => t = s
    BY <1>t DEF IdsOK
  <2> HIDE DEF x
  <2>5. RowOK(x)
    BY <2>1, <2>2, <2>3, <2>4 DEF RowOK
  <2> QED BY <2>5 DEF x
<1>5. ASSUME NEW v \in Appliers, NEW x \in atodo'[v] PROVE x \in atodo[v] \/ RowOK(x)'
  <2>1. CASE v = w
    <3>1. \E s \in grss : x = PropagatedRow(s.record, a.child, s.id, a.id,
                                             HierarchyPath(seed[s.group]), s.edit)
      BY <1>t, <1>1, <1>5, <2>1 DEF TypeOK
    <3>2. RowOK(x)
      BY <1>4, <3>1
    <3> QED BY <1>2, <3>2 DEF RowOK
  <2>2. CASE v # w
    BY <1>t, <1>1, <1>5, <2>2 DEF TypeOK
  <2> QED BY <2>1, <2>2
<1> QED BY <1>t, <1>2, <1>3, <1>5, NewRowsOnly

\* The second query computes rows without a path, for the group in hand only.
LEMMA SourceReadDirect ==
    ASSUME IInv, IInv', SourceInv, NEW w \in Appliers, ApplierReadDirect(w)
    PROVE  SourceInv'
<1>t. TypeOK /\ TypeOK' /\ IdsOK /\ LoadedOK /\ CurrentOK
  BY DEF IInv, TypeInv
<1>1. atodo' = [atodo EXCEPT ![w] =
          {PropagatedRow(s.record, acur[w].child, s.id, acur[w].id, {}, s.edit) :
              s \in {t \in grss : t.group = acur[w].parent}}]
  BY Zenon DEF ApplierReadDirect
<1>2. UNCHANGED <<ugas, grss, urss, ugaSeq, grsSeq, acopy>>
  BY DEF ApplierReadDirect, tables
<1>3. SourcesKept
  BY <1>t, <1>2, DeletionsKeepSources
<1>4. /\ acur[w].id < ugaSeq
      /\ \A b \in ugas : b.id = acur[w].id =>
             b.parent = acur[w].parent /\ b.child = acur[w].child
  <2>1. acur[w] \in Loaded(w)
    BY <1>t DEF ApplierReadDirect, CurrentOK, Loaded
  <2> QED BY <1>t, <2>1 DEF LoadedOK
<1>5. ASSUME NEW s \in grss, s.group = acur[w].parent
      PROVE  RowOK(PropagatedRow(s.record, acur[w].child, s.id, acur[w].id, {}, s.edit))
  <2> DEFINE x == PropagatedRow(s.record, acur[w].child, s.id, acur[w].id, {}, s.edit)
  <2>1. x.grs = s.id /\ x.record = s.record /\ x.uga = acur[w].id /\ x.user = acur[w].child
    BY DEF PropagatedRow
  <2>2. s.id < grsSeq /\ \A t \in grss : t.id = s.id => t = s
    BY <1>t DEF IdsOK
  <2> HIDE DEF x
  <2>3. RowOK(x)
    BY <1>4, <1>5, <2>1, <2>2 DEF RowOK
  <2> QED BY <2>3 DEF x
<1>6. ASSUME NEW v \in Appliers, NEW x \in atodo'[v] PROVE x \in atodo[v] \/ RowOK(x)'
  <2>1. CASE v = w
    <3>1. \E s \in grss :
              /\ s.group = acur[w].parent
              /\ x = PropagatedRow(s.record, acur[w].child, s.id, acur[w].id, {}, s.edit)
      BY <1>t, <1>1, <1>6, <2>1 DEF TypeOK
    <3>2. RowOK(x)
      BY <1>5, <3>1
    <3> QED BY <1>2, <3>2 DEF RowOK
  <2>2. CASE v # w
    BY <1>t, <1>1, <1>6, <2>2 DEF TypeOK
  <2> QED BY <2>1, <2>2
<1> QED BY <1>t, <1>2, <1>3, <1>6, NewRowsOnly

\* A copy is recorded under a new identifier, its rows under that of the sharing
\* that was copied, and with a path.
LEMMA SourceCopyNext ==
    ASSUME IInv, IInv', SourceInv, NEW w \in Appliers, ApplierCopyNext(w)
    PROVE  SourceInv'
<1>t. TypeOK /\ TypeOK' /\ IdsOK
  BY DEF IInv, TypeInv
<1>1. PICK s \in acopy[w] :
        IF acur[w].child \in groups
        THEN /\ grss' = grss \cup {[id |-> grsSeq, record |-> s.record, group |-> acur[w].child,
                                   edit |-> s.edit, generic |-> FALSE, copy |-> TRUE]}
             /\ grsSeq' = grsSeq + 1
             /\ urss' = Upsert(PropagatedRows(s, s.id, acur[w].child, {acur[w].id}))
             /\ acopy' = [acopy EXCEPT ![w] = @ \ {s}]
             /\ UNCHANGED apc
        ELSE Goto(w, "release") /\ UNCHANGED <<grss, grsSeq, urss, acopy>>
  BY Zenon DEF ApplierCopyNext
<1>2. UNCHANGED <<ugas, ugaSeq, atodo>>
  BY DEF ApplierCopyNext
<1>3. CASE acur[w].child \in groups
  <2> DEFINE new == [id |-> grsSeq, record |-> s.record, group |-> acur[w].child,
                     edit |-> s.edit, generic |-> FALSE, copy |-> TRUE]
  <2>1. /\ grss' = grss \cup {new} /\ grsSeq' = grsSeq + 1
        /\ urss' = Upsert(PropagatedRows(s, s.id, acur[w].child, {acur[w].id}))
        /\ acopy' = [acopy EXCEPT ![w] = @ \ {s}]
    BY <1>1, <1>3, Zenon
  <2>2. new.id = grsSeq
    OBVIOUS
  <2> HIDE DEF new
  <2>3. grsSeq \in Nat /\ ugaSeq \in Nat
    BY <1>t DEF TypeOK
  <2>4. \A t \in grss' : t \in grss \/ t.id = grsSeq
    BY <2>1, <2>2
  <2>5. SourcesKept
    BY <1>2, <2>1, <2>3, <2>4 DEF SourcesKept
  <2>6. CopyOK(s) /\ s \in Grs
    BY <1>t DEF SourceInv, TypeOK
  <2>7. ASSUME NEW x \in PropagatedRows(s, s.id, acur[w].child, {acur[w].id})
        PROVE  RowOK(x)'
    <3>1. PICK m \in MembersBelow(acur[w].child) :
            x = PropagatedRow(s.record, m.uga.child, s.id, m.uga.id,
                              {acur[w].id} \cup m.path, s.edit)
      BY <2>7 DEF PropagatedRows
    <3>2. /\ x.grs = s.id /\ x.record = s.record
          /\ x.uga = m.uga.id /\ x.user = m.uga.child /\ x.path # {}
      BY <3>1 DEF PropagatedRow
    <3>3. m.uga \in ugas
      BY MembersHoldMemberships DEF UserUgas
    <3>4. m.uga.id < ugaSeq /\ \A a \in ugas : a.id = m.uga.id => a = m.uga
      BY <1>t, <3>3 DEF IdsOK
    <3>5. CopyOK(s)'
      BY <1>t, <2>5, <2>6, CopyStaysOK
    <3> QED BY <1>2, <3>2, <3>4, <3>5 DEF RowOK, CopyOK
  <2>8. \A x \in urss' : x \in urss \/ RowOK(x)'
    BY <2>1, <2>7 DEF Upsert
  <2>9. \A v \in Appliers : acopy'[v] \subseteq acopy[v]
    BY <1>t, <2>1 DEF TypeOK
  <2> QED BY <1>t, <1>2, <2>5, <2>8, <2>9, NewRowsOnly
<1>4. CASE acur[w].child \notin groups
  <2>1. UNCHANGED <<grss, grsSeq, urss, acopy>>
    BY <1>1, <1>4
  <2> QED BY <1>t, <1>2, <2>1, DeletionsOnly
<1> QED BY <1>3, <1>4

LEMMA SourceApplier ==
    ASSUME IInv, IInv', SourceInv, NEW w \in Appliers, ApplierStep(w) \/ ApplierFail(w)
    PROVE  SourceInv'
<1> USE DEF tables
<1>t. TypeOK /\ TypeOK' /\ IdsOK
  BY DEF IInv, TypeInv
<1>1. CASE \/ ApplierCheck(w) \/ ApplierAcquire(w) \/ ApplierLoad(w)
           \/ ApplierFinish(w) \/ ApplierFail(w)
  <2>1. UNCHANGED <<ugas, grss, urss, ugaSeq, grsSeq, atodo, acopy>>
    BY <1>1 DEF ApplierCheck, ApplierAcquire, ApplierLoad, ApplierFinish, ApplierFail
  <2> QED BY <1>t, <2>1, DeletionsOnly
<1>2. ASSUME NEW a \in alist[w], ApplierLostUser(w, a) PROVE SourceInv'
  <2>1. UNCHANGED <<ugas, grss, urss, ugaSeq, grsSeq, acopy>> /\ atodo' = [atodo EXCEPT ![w] = {}]
    BY <1>2 DEF ApplierLostUser
  <2>2. \A v \in Appliers : atodo'[v] \subseteq atodo[v]
    BY <1>t, <2>1 DEF TypeOK
  <2> QED BY <1>t, <2>1, <2>2, DeletionsOnly
<1>3. ASSUME NEW a \in alist[w], ApplierReadParents(w, a) PROVE SourceInv'
  <2>1. /\ UNCHANGED <<ugas, grss, urss, ugaSeq, grsSeq, atodo>>
        /\ \E copies \in SUBSET grss : acopy' = [acopy EXCEPT ![w] = copies]
    BY <1>3 DEF ApplierReadParents
  <2>2. \A s \in grss : CopyOK(s)'
    BY <1>t, <2>1 DEF CopyOK, IdsOK
  <2>3. \A v \in Appliers : \A s \in acopy'[v] : s \in acopy[v] \/ s \in grss
    BY <1>t, <2>1 DEF TypeOK
  <2>4. SourcesKept
    BY <1>t, <2>1, DeletionsKeepSources
  <2> QED BY <1>t, <2>1, <2>2, <2>3, <2>4, NewRowsOnly
<1>4. CASE ApplierShareNext(w)
  <2>1. PICK x \in atodo[w] : urss' = Upsert({x}) /\ atodo' = [atodo EXCEPT ![w] = @ \ {x}]
    BY <1>4 DEF ApplierShareNext
  <2>2. UNCHANGED <<ugas, grss, ugaSeq, grsSeq, acopy>>
    BY <1>4 DEF ApplierShareNext
  <2>3. \A y \in urss' : y \in urss \/ y \in atodo[w]
    BY <2>1 DEF Upsert
  <2>4. \A v \in Appliers : atodo'[v] \subseteq atodo[v]
    BY <1>t, <2>1 DEF TypeOK
  <2>5. SourcesKept
    BY <1>t, <2>2, DeletionsKeepSources
  <2> QED BY <1>t, <2>2, <2>3, <2>4, <2>5, NewRowsOnly
<1>5. CASE ApplierMark(w)
  <2>1. ugas' = SaveApplied(acur[w]) /\ UNCHANGED <<grss, urss, ugaSeq, grsSeq, atodo, acopy>>
    BY <1>5 DEF ApplierMark
  <2>2. \A b \in ugas : LET c == [b EXCEPT !.apply = FALSE]
                        IN  c.id = b.id /\ c.child = b.child /\ c.parent = b.parent
    BY <1>t DEF TypeOK, Uga
  <2>3. \A b \in ugas' : \E e \in ugas : e.id = b.id /\ e.child = b.child /\ e.parent = b.parent
    BY <2>1, <2>2 DEF SaveApplied
  <2>4. SourcesKept
    BY <1>t, <2>1, <2>3 DEF SourcesKept, TypeOK
  <2> QED BY <1>t, <2>1, <2>4, NewRowsOnly
<1>6. CASE ApplierRelease(w)
  <2>1. /\ UNCHANGED <<ugas, grss, urss, ugaSeq, grsSeq>>
        /\ atodo' = [atodo EXCEPT ![w] = {}] /\ acopy' = [acopy EXCEPT ![w] = {}]
    BY <1>6 DEF ApplierRelease
  <2>2. \A v \in Appliers : atodo'[v] \subseteq atodo[v] /\ acopy'[v] \subseteq acopy[v]
    BY <1>t, <2>1 DEF TypeOK
  <2> QED BY <1>t, <2>1, <2>2, DeletionsOnly
<1> QED
  BY <1>1, <1>2, <1>3, <1>4, <1>5, <1>6, SourceReadSupergroups, SourceReadDirect, SourceCopyNext
  DEF ApplierStep

LEMMA SourceRemover ==
    ASSUME IInv, IInv', SourceInv, NEW w \in Removers, RemoverStep(w) \/ RemoverFail(w)
    PROVE  SourceInv'
<1> USE DEF tables, applierVars
<1>t. TypeOK /\ TypeOK'
  BY DEF IInv, TypeInv
<1>1. /\ UNCHANGED <<grss, ugaSeq, grsSeq, atodo, acopy>>
      /\ ugas' \subseteq ugas /\ urss' \subseteq urss
  <2>1. CASE RemoverBatch(w)
    BY <2>1 DEF RemoverBatch
  <2>2. CASE RemoverDelete(w)
    BY <2>2 DEF RemoverDelete
  <2>3. CASE RemoverCheck(w) \/ RemoverAcquire(w) \/ RemoverLoad(w) \/ RemoverNext(w)
                 \/ RemoverFail(w) \/ RemoverRelease(w)
    BY <2>3 DEF RemoverCheck, RemoverAcquire, RemoverLoad, RemoverNext, RemoverFail, RemoverRelease
  <2> QED BY <2>1, <2>2, <2>3 DEF RemoverStep
<1> QED BY <1>t, <1>1, DeletionsOnly

LEMMA SourceNext == IInv /\ IInv' /\ SourceInv /\ [Next]_vars => SourceInv'
<1> SUFFICES ASSUME IInv, IInv', SourceInv, [Next]_vars PROVE SourceInv'
  OBVIOUS
<1>t. TypeOK /\ TypeOK'
  BY DEF IInv, TypeInv
<1>1. CASE UNCHANGED vars
  BY <1>t, <1>1, DeletionsOnly DEF vars, tables, applierVars
<1>2. CASE SharingCall
  BY <1>2, SourceSharingCall
<1>3. CASE GroupCall
  BY <1>3, SourceGroupCall
<1>4. CASE JobStep
  BY <1>4, SourceApplier, SourceRemover DEF JobStep
<1>5. CASE Restart
  <2>1. /\ UNCHANGED <<ugas, grss, urss, ugaSeq, grsSeq>>
        /\ \A w \in Appliers : atodo'[w] = {} /\ acopy'[w] = {}
    BY <1>5 DEF Restart, tables
  <2> QED BY <1>t, <2>1, DeletionsOnly
<1> QED BY <1>1, <1>2, <1>3, <1>4, <1>5 DEF Next

\* Whatever changes between the reads of a job run and its writes, and whatever
\* fails, a propagated row is for the record of the sharing and the user of the
\* membership it names, and without a path both are of the same group.
THEOREM RowsMatchTheirSources == Spec => []PropagatedRowsMatchTheirSources
<1>1. Spec => [](IInv /\ SourceInv)
  BY IndInit, IndNext, SourceInit, SourceNext, PTL DEF Spec
<1>2. SourceInv => PropagatedRowsMatchTheirSources
  BY DEF SourceInv, RowOK, PropagatedRowsMatchTheirSources
<1> QED BY <1>1, <1>2, PTL

-----------------------------------------------------------------------------
(* Direct grants.                                                          *)

\* A generic row has no path, so a deletion by path cannot hit it; what a run of
\* the applier has in memory is never generic, so its upserts cannot either.
GrantInv ==
    /\ \A x \in urss : x.generic => x.path = {}
    /\ \A w \in Appliers : \A x \in atodo[w] : ~x.generic

GrantsKept == GrantInv' /\ Grants' = Grants

LEMMA UpsertKeepsGrants ==
    ASSUME TypeOK, GrantInv, NEW new \in SUBSET Urs, \A y \in new : ~y.generic,
           urss' = Upsert(new),
           \A w \in Appliers : atodo'[w] \subseteq atodo[w]
    PROVE  GrantsKept
<1>1. \A x \in urss, y \in new : x.generic => ~SameSharing(x, y)
  BY DEF SameSharing, TypeOK, Urs
<1>2. \A x : x \in Grants' <=> x \in Grants
  BY <1>1 DEF Grants, Upsert
<1>3. \A x \in urss' : x.generic => x \in urss
  BY DEF Upsert
<1> QED BY <1>2, <1>3 DEF GrantsKept, GrantInv

LEMMA DeletionsKeepGrants ==
    ASSUME GrantInv, urss' \subseteq urss, \A x \in urss : x.generic => x \in urss',
           \A w \in Appliers : \A x \in atodo'[w] : x \in atodo[w] \/ ~x.generic
    PROVE  GrantsKept
<1>1. \A x : x \in Grants' <=> x \in Grants
  BY DEF Grants
<1> QED BY <1>1 DEF GrantsKept, GrantInv

LEMMA PropagatedRowsAreNotGeneric ==
    ASSUME NEW s, NEW id, NEW g, NEW base
    PROVE  \A y \in PropagatedRows(s, id, g, base) : ~y.generic
BY DEF PropagatedRows, PropagatedRow

LEMMA GrantsGroupCall ==
    ASSUME TypeInv, GrantInv, GroupCall PROVE GrantsKept
<1> USE DEF applierVars, removerVars
<1>1. ASSUME NEW c, NEW g, Assign(c, g) \/ DeferUnassignGroup(c, g) PROVE GrantsKept
  BY <1>1, DeletionsKeepGrants DEF Assign, DeferUnassignGroup
<1>2. ASSUME NEW u, NEW g, UnassignUserFromGroup(u, g) PROVE GrantsKept
  BY <1>2, DeletionsKeepGrants DEF UnassignUserFromGroup
<1>3. ASSUME NEW c, NEW g, UnassignGroupFromGroup(c, g) PROVE GrantsKept
  <2>1. /\ urss' \subseteq urss /\ UNCHANGED atodo
        /\ \A x \in urss : x.path = {} => x \in urss'
    BY <1>3 DEF UnassignGroupFromGroup
  <2> QED BY <2>1, DeletionsKeepGrants DEF GrantInv
<1>4. ASSUME NEW a, DeleteUserGroupAssignment(a) PROVE GrantsKept
  BY <1>4, DeletionsKeepGrants DEF DeleteUserGroupAssignment
<1>5. ASSUME NEW g, DeleteGroup(g) PROVE GrantsKept
  <2>1. /\ urss' \subseteq urss /\ UNCHANGED atodo
        /\ \A x \in urss : x.generic /\ x.path = {} => x \in urss'
    BY <1>5 DEF DeleteGroup
  <2> QED BY <2>1, DeletionsKeepGrants DEF GrantInv
<1> QED BY <1>1, <1>2, <1>3, <1>4, <1>5 DEF GroupCall

LEMMA GrantsApplier ==
    ASSUME TypeInv, GrantInv, NEW w \in Appliers, ApplierStep(w) \/ ApplierFail(w)
    PROVE  GrantsKept
<1> USE DEF tables, TypeInv
<1>1. CASE \/ ApplierCheck(w) \/ ApplierAcquire(w) \/ ApplierLoad(w)
           \/ ApplierMark(w) \/ ApplierFinish(w) \/ ApplierFail(w)
           \/ \E a \in alist[w] : ApplierReadParents(w, a)
  <2>1. UNCHANGED <<urss, atodo>>
    BY <1>1
    DEF ApplierCheck, ApplierAcquire, ApplierLoad, ApplierMark, ApplierFinish, ApplierFail,
        ApplierReadParents
  <2> QED BY <2>1, DeletionsKeepGrants
<1>2. ASSUME NEW rows, \A x \in rows : ~x.generic,
             UNCHANGED urss, atodo' = [atodo EXCEPT ![w] = rows]
      PROVE  GrantsKept
  <2>1. \A v \in Appliers : \A x \in atodo'[v] : x \in atodo[v] \/ ~x.generic
    BY <1>2 DEF TypeOK
  <2> QED BY <1>2, <2>1, DeletionsKeepGrants
<1>3. ASSUME NEW a \in alist[w], ApplierReadSupergroups(w, a) PROVE GrantsKept
  <2>1. UNCHANGED urss
    BY <1>3 DEF ApplierReadSupergroups
  <2>2. PICK seed \in Seeds(a.child) :
          atodo' = [atodo EXCEPT ![w] =
              {PropagatedRow(s.record, a.child, s.id, a.id, HierarchyPath(seed[s.group]), s.edit) :
                  s \in {t \in grss : t.group \in LastLevel(GroupsOf(a.child))}}]
    BY <1>3, Zenon DEF ApplierReadSupergroups
  <2> DEFINE rows == {PropagatedRow(s.record, a.child, s.id, a.id,
                                    HierarchyPath(seed[s.group]), s.edit) :
                         s \in {t \in grss : t.group \in LastLevel(GroupsOf(a.child))}}
  <2>3. \A x \in rows : ~x.generic
    BY DEF PropagatedRow
  <2>4. atodo' = [atodo EXCEPT ![w] = rows]
    BY <2>2
  <2> HIDE DEF rows
  <2> QED BY <1>2, <2>1, <2>3, <2>4
<1>4. CASE ApplierReadDirect(w)
  <2>1. UNCHANGED urss
    BY <1>4 DEF ApplierReadDirect
  <2>2. atodo' = [atodo EXCEPT ![w] =
            {PropagatedRow(s.record, acur[w].child, s.id, acur[w].id, {}, s.edit) :
                s \in {t \in grss : t.group = acur[w].parent}}]
    BY <1>4, Zenon DEF ApplierReadDirect
  <2>3. \A r, u, s, m, path, edit : ~PropagatedRow(r, u, s, m, path, edit).generic
    BY DEF PropagatedRow
  <2> QED BY <1>2, <2>1, <2>2, <2>3
<1>5. CASE (\E a \in alist[w] : ApplierLostUser(w, a)) \/ ApplierRelease(w)
  <2>1. UNCHANGED urss /\ atodo' = [atodo EXCEPT ![w] = {}]
    BY <1>5 DEF ApplierLostUser, ApplierRelease
  <2>2. \A v \in Appliers : atodo'[v] \subseteq atodo[v]
    BY <2>1 DEF TypeOK
  <2> QED BY <2>1, <2>2, DeletionsKeepGrants
<1>6. CASE ApplierShareNext(w)
  <2>1. PICK x \in atodo[w] : urss' = Upsert({x}) /\ atodo' = [atodo EXCEPT ![w] = @ \ {x}]
    BY <1>6 DEF ApplierShareNext
  <2>2. {x} \in SUBSET Urs /\ ~x.generic
    BY DEF GrantInv, TypeOK
  <2>3. \A v \in Appliers : atodo'[v] \subseteq atodo[v]
    BY <2>1 DEF TypeOK
  <2> QED BY <2>1, <2>2, <2>3, UpsertKeepsGrants
<1>7. CASE ApplierCopyNext(w)
  <2>1. /\ UNCHANGED atodo
        /\ \/ UNCHANGED urss
           \/ \E s \in acopy[w] :
                  urss' = Upsert(PropagatedRows(s, s.id, acur[w].child, {acur[w].id}))
    BY <1>7 DEF ApplierCopyNext
  <2>2. CASE UNCHANGED urss
    BY <2>1, <2>2, DeletionsKeepGrants
  <2>3. ASSUME NEW s \in acopy[w],
               urss' = Upsert(PropagatedRows(s, s.id, acur[w].child, {acur[w].id}))
        PROVE  GrantsKept
    <3>1. s \in Grs /\ s.id \in Nat /\ acur[w].id \in Nat
      BY <1>7 DEF ApplierCopyNext, CurrentOK, TypeOK, Grs, Uga
    <3>2. PropagatedRows(s, s.id, acur[w].child, {acur[w].id}) \in SUBSET Urs
      BY <3>1, PropagatedRowsType
    <3> QED BY <2>1, <2>3, <3>2, UpsertKeepsGrants, PropagatedRowsAreNotGeneric
  <2> QED BY <2>1, <2>2, <2>3
<1> QED BY <1>1, <1>3, <1>4, <1>5, <1>6, <1>7 DEF ApplierStep

LEMMA GrantsRemover ==
    ASSUME TypeInv, GrantInv, NEW w \in Removers, RemoverStep(w) \/ RemoverFail(w)
    PROVE  GrantsKept
<1> USE DEF tables, applierVars
<1>1. /\ UNCHANGED atodo /\ urss' \subseteq urss
      /\ \A x \in urss : x.path = {} => x \in urss'
  <2>1. CASE RemoverBatch(w)
    BY <2>1 DEF RemoverBatch
  <2>2. CASE RemoverCheck(w) \/ RemoverAcquire(w) \/ RemoverLoad(w) \/ RemoverNext(w)
                 \/ RemoverDelete(w) \/ RemoverFail(w) \/ RemoverRelease(w)
    BY <2>2
    DEF RemoverCheck, RemoverAcquire, RemoverLoad, RemoverNext, RemoverDelete, RemoverFail,
        RemoverRelease
  <2> QED BY <2>1, <2>2 DEF RemoverStep
<1> QED BY <1>1, DeletionsKeepGrants DEF GrantInv

\* The two calls that grants belong to.
GrantCall ==
    \/ \E u \in Users, r \in Records, edit \in EditFlags : ShareRecord(u, r, edit)
    \/ \E us \in SUBSET Users, r \in Records : UnshareRecord(us, r)

LEMMA GrantsStep ==
    ASSUME TypeInv, GrantInv, [Next]_vars
    PROVE  GrantInv' /\ (Grants' # Grants => GrantCall)
<1> USE DEF applierVars, removerVars, tables
<1>1. CASE SharingCall
  <2>1. ASSUME NEW u \in Users, NEW r \in Records, NEW edit \in EditFlags, ShareRecord(u, r, edit)
        PROVE  GrantInv' /\ GrantCall
    <3>1. \A x \in urss' : x \in urss \/ x.path = {}
      BY <2>1 DEF ShareRecord, Upsert, GenericRow
    <3> QED BY <2>1, <3>1 DEF ShareRecord, GrantInv, GrantCall
  <2>2. ASSUME NEW us \in SUBSET Users, NEW r \in Records, UnshareRecord(us, r)
        PROVE  GrantInv' /\ GrantCall
    BY <2>2 DEF UnshareRecord, GrantInv, GrantCall
  <2>3. ASSUME NEW r \in Records, NEW g \in Groups, NEW edit \in BOOLEAN, NEW generic \in BOOLEAN,
               ShareRecordWithGroup(r, g, edit, generic)
        PROVE  GrantsKept
    <3>1. PICK s \in Grs, id \in Nat :
            urss' = Upsert(PropagatedRows(s, id, g, {})) /\ UNCHANGED atodo
      <4> DEFINE same == {s \in grss : generic /\ s.generic /\ s.record = r /\ s.group = g}
                 id == IF same = {} THEN grsSeq ELSE (CHOOSE s \in same : TRUE).id
                 s == [id |-> id, record |-> r, group |-> g, edit |-> edit,
                       generic |-> generic, copy |-> FALSE]
      <4>1. urss' = Upsert(PropagatedRows(s, id, g, {})) /\ UNCHANGED applierVars
        BY <2>3, Zenon DEF ShareRecordWithGroup
      <4>2. id \in Nat
        BY DEF TypeInv, TypeOK, Grs
      <4>3. s \in Grs
        BY <4>2 DEF Grs
      <4> HIDE DEF id, s
      <4> QED BY <4>1, <4>2, <4>3
    <3>2. PropagatedRows(s, id, g, {}) \in SUBSET Urs
      BY PropagatedRowsType DEF TypeInv
    <3> QED BY <3>1, <3>2, UpsertKeepsGrants, PropagatedRowsAreNotGeneric DEF TypeInv
  <2>4. ASSUME NEW r, NEW gs, NEW kinds, UnshareRecordWithGroup(r, gs, kinds) PROVE GrantsKept
    BY <2>4, DeletionsKeepGrants DEF UnshareRecordWithGroup
  <2>5. EditFlags \subseteq BOOLEAN /\ GroupKinds \subseteq BOOLEAN
    BY SharingAssumption
  <2>6. CASE \E u \in Users, r \in Records, edit \in EditFlags : ShareRecord(u, r, edit)
    BY <2>1, <2>6
  <2>7. CASE \E r \in Records, us \in {{u} : u \in Users} \cup {Users} : UnshareRecord(us, r)
    BY <2>2, <2>7
  <2>8. CASE \E r \in Records, g \in Groups, edit \in EditFlags, generic \in GroupKinds :
                 ShareRecordWithGroup(r, g, edit, generic)
    BY <2>3, <2>5, <2>8 DEF GrantsKept
  <2>9. CASE \E r \in Records, gs \in {{g} : g \in Groups} \cup {Groups},
                kinds \in (SUBSET GroupKinds) \ {{}} : UnshareRecordWithGroup(r, gs, kinds)
    BY <2>4, <2>9 DEF GrantsKept
  <2> QED BY <1>1, <2>6, <2>7, <2>8, <2>9, Zenon DEF SharingCall
<1>2. CASE GroupCall
  BY <1>2, GrantsGroupCall DEF GrantsKept
<1>3. CASE JobStep
  BY <1>3, GrantsApplier, GrantsRemover DEF JobStep, GrantsKept
<1>4. CASE Restart
  <2>1. UNCHANGED urss /\ \A w \in Appliers : atodo'[w] = {}
    BY <1>4 DEF Restart
  <2> QED BY <2>1, DeletionsKeepGrants DEF GrantsKept
<1>5. CASE UNCHANGED vars
  <2>1. UNCHANGED <<urss, atodo>>
    BY <1>5 DEF vars
  <2> QED BY <2>1, DeletionsKeepGrants DEF GrantsKept
<1> QED BY <1>1, <1>2, <1>3, <1>4, <1>5 DEF Next

\* Nothing that happens to groups, memberships, group sharings or in a job run
\* adds, changes or removes a direct grant.
THEOREM GrantsAreLeftAlone == Spec => GroupsLeaveGrantsAlone
<1>1. Init => GrantInv
  BY DEF Init, GrantInv
<1>2. TypeInv /\ GrantInv /\ [Next]_vars =>
          GrantInv' /\ [Grants' # Grants =>
              \/ \E u \in Users, r \in Records, edit \in EditFlags : ShareRecord(u, r, edit)
              \/ \E us \in SUBSET Users, r \in Records : UnshareRecord(us, r)]_vars
  BY GrantsStep DEF GrantCall
<1> QED BY <1>1, <1>2, TypeInit, TypeNext, PTL DEF Spec, GroupsLeaveGrantsAlone

-----------------------------------------------------------------------------
(* Live sources. While jobs run and no call arrives, no sharing and no     *)
(* membership of a user ends, so what a run has read still exists when it  *)
(* writes; between runs nothing is in memory. (The late_insert_race run    *)
(* shows what a call in the middle of a run does.)                         *)

LiveRow(x) == ~x.generic => x.grs \in Ids(grss) /\ x.uga \in Ids(UserUgas)

RowsLive ==
    /\ \A x \in urss : LiveRow(x)
    /\ \A w \in Appliers :
        /\ \A x \in atodo[w] : LiveRow(x)
        /\ \A s \in acopy[w] : s.id \in Ids(grss)
        /\ \A a \in Loaded(w) : a.child \in Users => a.id \in Ids(UserUgas)

IdleIsEmpty ==
    /\ \A w \in Appliers : apc[w] = "idle" => atodo[w] = {} /\ acopy[w] = {} /\ Loaded(w) = {}
    /\ \A w \in Removers : rpc[w] = "idle" => rlist[w] = {}

\* Only memberships of groups are ever marked, so the remover deletes no others.
OnlyGroupsRemoved ==
    /\ \A a \in ugas : a.remove => a.child \in Groups
    /\ \A w \in Removers :
        /\ \A a \in rlist[w], b \in UserUgas : b.id # a.id
        /\ rpc[w] \in {"batch", "delete"} => \A b \in UserUgas : b.id # rcur[w].id

LiveInv == RowsLive /\ IdleIsEmpty /\ OnlyGroupsRemoved

\* A call while no job runs: only the rows of the tables matter.
LEMMA QuietCallFrame ==
    ASSUME LiveInv, JobsIdle, UNCHANGED <<applierVars, removerVars>>,
           \A x \in urss' : LiveRow(x)',
           \A a \in ugas' : a.remove => a.child \in Groups
    PROVE  LiveInv'
<1> USE DEF applierVars, removerVars
<1>1. /\ \A w \in Appliers : apc'[w] = "idle" /\ atodo'[w] = {} /\ acopy'[w] = {}
      /\ \A w \in Removers : rpc'[w] = "idle" /\ rlist'[w] = {}
  BY DEF LiveInv, IdleIsEmpty, JobsIdle
<1>2. \A w \in Appliers : Loaded(w)' = {}
  BY DEF LiveInv, IdleIsEmpty, JobsIdle, Loaded
<1>3. RowsLive'
  BY <1>1, <1>2 DEF RowsLive
<1>4. IdleIsEmpty'
  BY <1>1, <1>2 DEF IdleIsEmpty
<1>5. OnlyGroupsRemoved'
  BY <1>1 DEF OnlyGroupsRemoved
<1> QED BY <1>3, <1>4, <1>5 DEF LiveInv

LEMMA LiveRowStays ==
    ASSUME NEW x, LiveRow(x),
           Ids(grss) \subseteq Ids(grss'), Ids(UserUgas) \subseteq Ids(UserUgas')
    PROVE  LiveRow(x)'
<1>1. Ids(grss)' = Ids(grss') /\ Ids(UserUgas)' = Ids(UserUgas')
  BY DEF Ids
<1> QED BY <1>1 DEF LiveRow

LEMMA LiveSharingCall ==
    ASSUME IInv, LiveInv, JobsIdle, SharingCall PROVE LiveInv'
<1>t. TypeOK /\ IdsOK /\ RowsLive /\ OnlyGroupsRemoved
  BY DEF IInv, TypeInv, LiveInv
<1>1. ASSUME NEW u, NEW r, NEW edit, ShareRecord(u, r, edit) PROVE LiveInv'
  <2>1. /\ urss' = Upsert({GenericRow(u, r, edit)})
        /\ UNCHANGED <<ugas, grss, applierVars, removerVars>>
    BY <1>1 DEF ShareRecord
  <2>2. \A x \in urss' : x \in urss \/ x.generic
    BY <2>1 DEF Upsert, GenericRow
  <2>3. \A x \in urss' : LiveRow(x)'
    BY <1>t, <2>1, <2>2 DEF RowsLive, LiveRow, UserUgas
  <2> QED BY <1>t, <2>1, <2>3, QuietCallFrame DEF OnlyGroupsRemoved
<1>2. ASSUME NEW us, NEW r, UnshareRecord(us, r) PROVE LiveInv'
  <2>1. urss' \subseteq urss /\ UNCHANGED <<ugas, grss, applierVars, removerVars>>
    BY <1>2 DEF UnshareRecord
  <2>2. \A x \in urss' : LiveRow(x)'
    BY <1>t, <2>1 DEF RowsLive, LiveRow, UserUgas
  <2> QED BY <1>t, <2>1, <2>2, QuietCallFrame DEF OnlyGroupsRemoved
<1>3. ASSUME NEW r, NEW g, NEW edit, NEW generic, ShareRecordWithGroup(r, g, edit, generic)
      PROVE  LiveInv'
  <2>1. PICK s, id :
          /\ s.id = id /\ grss' = {t \in grss : t.id # id} \cup {s}
          /\ urss' = Upsert(PropagatedRows(s, id, g, {}))
          /\ UNCHANGED <<ugas, applierVars, removerVars>>
    <3> DEFINE same == {s \in grss : generic /\ s.generic /\ s.record = r /\ s.group = g}
               id == IF same = {} THEN grsSeq ELSE (CHOOSE s \in same : TRUE).id
               s == [id |-> id, record |-> r, group |-> g, edit |-> edit,
                     generic |-> generic, copy |-> FALSE]
    <3>1. /\ grss' = {t \in grss : t.id # id} \cup {s}
          /\ urss' = Upsert(PropagatedRows(s, id, g, {}))
          /\ UNCHANGED <<ugas, applierVars, removerVars>>
      BY <1>3, Zenon DEF ShareRecordWithGroup
    <3>2. s.id = id
      OBVIOUS
    <3> HIDE DEF id, s
    <3> QED BY <3>1, <3>2
  <2>2. Ids(grss) \subseteq Ids(grss') /\ Ids(UserUgas) \subseteq Ids(UserUgas') /\ id \in Ids(grss')
    BY <2>1 DEF Ids, UserUgas
  <2>3. ASSUME NEW x \in PropagatedRows(s, id, g, {}) PROVE LiveRow(x)'
    <3>1. PICK m \in MembersBelow(g) :
            x = PropagatedRow(s.record, m.uga.child, id, m.uga.id, {} \cup m.path, s.edit)
      BY <2>3 DEF PropagatedRows
    <3>2. m.uga.id \in Ids(UserUgas')
      BY <2>1, MembersHoldMemberships DEF Ids, UserUgas
    <3>3. x.grs = id /\ x.uga = m.uga.id
      BY <3>1 DEF PropagatedRow
    <3>4. Ids(grss)' = Ids(grss') /\ Ids(UserUgas)' = Ids(UserUgas')
      BY DEF Ids
    <3> QED BY <2>2, <3>2, <3>3, <3>4 DEF LiveRow
  <2>4. \A x \in urss' : x \in urss \/ LiveRow(x)'
    BY <2>1, <2>3 DEF Upsert
  <2>5. \A x \in urss' : LiveRow(x)'
    BY <1>t, <2>2, <2>4, LiveRowStays DEF RowsLive
  <2> QED BY <1>t, <2>1, <2>5, QuietCallFrame DEF OnlyGroupsRemoved
<1>4. ASSUME NEW r, NEW gs, NEW kinds, UnshareRecordWithGroup(r, gs, kinds) PROVE LiveInv'
  <2> DEFINE gone == {s \in grss : s.record = r /\ s.group \in gs /\ s.generic \in kinds}
  <2>1. /\ grss' = grss \ gone /\ urss' = {x \in urss : x.generic \/ x.grs \notin Ids(gone)}
        /\ UNCHANGED <<ugas, applierVars, removerVars>>
    BY <1>4, Zenon DEF UnshareRecordWithGroup
  <2> HIDE DEF gone
  <2>2. \A x \in urss' : LiveRow(x)'
    BY <1>t, <2>1 DEF RowsLive, LiveRow, UserUgas, Ids
  <2> QED BY <1>t, <2>1, <2>2, QuietCallFrame DEF OnlyGroupsRemoved
<1> QED
  BY <1>1, <1>2, <1>3, <1>4, Zenon DEF SharingCall

\* Without the deletions of single rows and of groups.
LEMMA LiveGroupCall ==
    ASSUME Calls \subseteq {"grant"}, IInv, LiveInv, JobsIdle, GroupCall PROVE LiveInv'
<1>t. TypeOK /\ RowsLive /\ OnlyGroupsRemoved /\ Users \cap Groups = {}
  BY SharingAssumption DEF IInv, TypeInv, LiveInv
<1>1. ASSUME NEW c, NEW g, Assign(c, g) PROVE LiveInv'
  <2>1. /\ ugas' = ugas \cup {[id |-> ugaSeq, parent |-> g, child |-> c,
                               apply |-> TRUE, remove |-> FALSE]}
        /\ UNCHANGED <<grss, urss, applierVars, removerVars>>
    BY <1>1 DEF Assign
  <2>2. \A a \in ugas' : a.remove => a.child \in Groups
    BY <1>t, <2>1 DEF OnlyGroupsRemoved
  <2>3. Ids(grss) \subseteq Ids(grss') /\ Ids(UserUgas) \subseteq Ids(UserUgas')
    BY <2>1 DEF Ids, UserUgas
  <2>4. \A x \in urss' : LiveRow(x)'
    BY <1>t, <2>1, <2>3, LiveRowStays DEF RowsLive
  <2> QED BY <2>1, <2>2, <2>4, QuietCallFrame
<1>2. ASSUME NEW u, NEW g, UnassignUserFromGroup(u, g) PROVE LiveInv'
  <2> DEFINE gone == {a \in ugas : a.child = u /\ a.parent = g}
  <2>1. /\ ugas' = ugas \ gone /\ urss' = {x \in urss : x.generic \/ x.uga \notin Ids(gone)}
        /\ UNCHANGED <<grss, applierVars, removerVars>>
    BY <1>2, Zenon DEF UnassignUserFromGroup
  <2> HIDE DEF gone
  <2>2. \A x \in urss' : LiveRow(x)'
    BY <1>t, <2>1 DEF RowsLive, LiveRow, UserUgas, Ids
  <2> QED BY <1>t, <2>1, <2>2, QuietCallFrame DEF OnlyGroupsRemoved
<1>3. ASSUME NEW c \in Groups, NEW g, UnassignGroupFromGroup(c, g) PROVE LiveInv'
  <2>1. /\ ugas' = ugas \ {a \in ugas : a.child = c /\ a.parent = g} /\ urss' \subseteq urss
        /\ UNCHANGED <<grss, applierVars, removerVars>>
    BY <1>3 DEF UnassignGroupFromGroup
  <2>2. UserUgas' = UserUgas
    BY <1>t, <2>1 DEF UserUgas
  <2>3. \A x \in urss' : LiveRow(x)'
    BY <1>t, <2>1, <2>2 DEF RowsLive, LiveRow
  <2> QED BY <1>t, <2>1, <2>3, QuietCallFrame DEF OnlyGroupsRemoved
<1>4. ASSUME NEW c \in Groups, NEW g, DeferUnassignGroup(c, g) PROVE LiveInv'
  <2>1. PICK a \in ugas : a.child = c /\ ugas' = (ugas \ {a}) \cup {[a EXCEPT !.remove = TRUE]}
    BY <1>4 DEF DeferUnassignGroup
  <2>2. UNCHANGED <<grss, urss, applierVars, removerVars>>
    BY <1>4 DEF DeferUnassignGroup
  <2>3. [a EXCEPT !.remove = TRUE].child = c
    BY <1>t, <2>1 DEF TypeOK, Uga
  <2>4. UserUgas' = UserUgas
    BY <1>t, <2>1, <2>3 DEF UserUgas
  <2>5. \A x \in urss' : LiveRow(x)'
    BY <1>t, <2>2, <2>4 DEF RowsLive, LiveRow
  <2>6. \A b \in ugas' : b.remove => b.child \in Groups
    BY <1>t, <2>1, <2>3 DEF OnlyGroupsRemoved
  <2> QED BY <2>2, <2>5, <2>6, QuietCallFrame
<1>5. \A n \in Nesting : n[1] \in Groups
  BY SharingAssumption
<1> QED
  BY <1>1, <1>2, <1>3, <1>4, <1>5 DEF GroupCall

\* In a step of a job the sources stay.
LEMMA LiveFrame ==
    ASSUME RowsLive,
           Ids(grss) \subseteq Ids(grss'), Ids(UserUgas) \subseteq Ids(UserUgas'),
           \A x \in urss' :
               x \in urss \/ (\E w \in Appliers : x \in atodo[w]) \/ LiveRow(x)',
           \A w \in Appliers :
               /\ \A x \in atodo'[w] : x \in atodo[w] \/ LiveRow(x)'
               /\ \A s \in acopy'[w] : s \in acopy[w] \/ s.id \in Ids(grss')
               /\ \A a \in Loaded(w)' :
                      a \in Loaded(w) \/ (a.child \in Users => a.id \in Ids(UserUgas'))
    PROVE  RowsLive'
<1>1. Ids(grss)' = Ids(grss') /\ Ids(UserUgas)' = Ids(UserUgas')
  BY DEF Ids
<1>2. \A x \in urss' : LiveRow(x)'
  BY LiveRowStays DEF RowsLive
<1>3. \A w \in Appliers : \A x \in atodo'[w] : LiveRow(x)'
  BY LiveRowStays DEF RowsLive
<1>4. \A w \in Appliers : \A s \in acopy'[w] : s.id \in Ids(grss)'
  BY <1>1 DEF RowsLive
<1>5. \A w \in Appliers : \A a \in Loaded(w)' : a.child \in Users => a.id \in Ids(UserUgas)'
  BY <1>1 DEF RowsLive
<1> QED BY <1>2, <1>3, <1>4, <1>5 DEF RowsLive

\* The same for a step that reads or writes no sharing and no membership.
LEMMA LiveControl ==
    ASSUME RowsLive, UNCHANGED <<grss, ugas, urss>>,
           \A w \in Appliers :
               /\ atodo'[w] \subseteq atodo[w] /\ acopy'[w] \subseteq acopy[w]
               /\ Loaded(w)' \subseteq Loaded(w)
    PROVE  RowsLive'
<1>1. Ids(grss) \subseteq Ids(grss') /\ Ids(UserUgas) \subseteq Ids(UserUgas')
  BY DEF Ids, UserUgas
<1> QED BY <1>1, LiveFrame

LEMMA LiveApplierRows ==
    ASSUME IInv, LiveInv, NEW w \in Appliers, ApplierStep(w) \/ ApplierFail(w)
    PROVE  RowsLive'
<1> USE DEF tables, Goto
<1>t. TypeOK /\ CurrentOK /\ RowsLive
  BY DEF IInv, TypeInv, LiveInv
<1>n. NoUga \notin Uga
  BY DEF NoUga, Uga
<1>1. CASE ApplierCheck(w) \/ ApplierAcquire(w) \/ ApplierFinish(w) \/ ApplierFail(w)
  <2>1. UNCHANGED <<grss, ugas, urss, atodo, acopy, alist, acur>>
    BY <1>1 DEF ApplierCheck, ApplierAcquire, ApplierFinish, ApplierFail
  <2> QED BY <1>t, <2>1, LiveControl DEF Loaded
<1>2. CASE ApplierLoad(w)
  <2>1. /\ UNCHANGED <<grss, ugas, urss, atodo, acopy, acur>>
        /\ alist' = [alist EXCEPT ![w] = {a \in ugas : a.apply}]
    BY <1>2 DEF ApplierLoad
  <2>2. \A v \in Appliers : \A a \in alist'[v] : a \in alist[v] \/ a \in ugas
    BY <1>t, <2>1 DEF TypeOK
  <2>3. \A a \in ugas : a.child \in Users => a.id \in Ids(UserUgas')
    BY <2>1 DEF UserUgas, Ids
  <2>4. \A v \in Appliers : \A a \in Loaded(v)' :
            a \in Loaded(v) \/ (a.child \in Users => a.id \in Ids(UserUgas'))
    BY <2>1, <2>2, <2>3 DEF Loaded
  <2>5. Ids(grss) \subseteq Ids(grss') /\ Ids(UserUgas) \subseteq Ids(UserUgas')
    BY <2>1 DEF Ids, UserUgas
  <2> QED BY <1>t, <2>1, <2>4, <2>5, LiveFrame
<1>3. ASSUME NEW a \in alist[w], ApplierReadSupergroups(w, a) PROVE RowsLive'
  <2>1. UNCHANGED <<grss, ugas, urss, acopy, alist>> /\ acur' = [acur EXCEPT ![w] = a]
    BY <1>3 DEF ApplierReadSupergroups
  <2>2. PICK seed \in Seeds(a.child) :
          atodo' = [atodo EXCEPT ![w] =
              {PropagatedRow(s.record, a.child, s.id, a.id, HierarchyPath(seed[s.group]), s.edit) :
                  s \in {t \in grss : t.group \in LastLevel(GroupsOf(a.child))}}]
    BY <1>3, Zenon DEF ApplierReadSupergroups
  <2>3. a.id \in Ids(UserUgas)
    BY <1>t, <1>3 DEF RowsLive, Loaded, ApplierReadSupergroups
  <2>4. Ids(grss)' = Ids(grss) /\ Ids(UserUgas)' = Ids(UserUgas)
    BY <2>1 DEF Ids, UserUgas
  <2>5. ASSUME NEW s \in grss, NEW path
        PROVE  LiveRow(PropagatedRow(s.record, a.child, s.id, a.id, path, s.edit))'
    <3>1. s.id \in Ids(grss)
      BY DEF Ids
    <3> QED BY <2>3, <2>4, <3>1 DEF LiveRow, PropagatedRow
  <2>6. \A v \in Appliers : \A x \in atodo'[v] : x \in atodo[v] \/ LiveRow(x)'
    <3> SUFFICES ASSUME NEW v \in Appliers, NEW x \in atodo'[v], x \notin atodo[v]
                 PROVE  LiveRow(x)'
      OBVIOUS
    <3>1. \E s \in grss : \E path : x = PropagatedRow(s.record, a.child, s.id, a.id, path, s.edit)
      BY <1>t, <2>2 DEF TypeOK
    <3> QED BY <2>5, <3>1
  <2>7. \A v \in Appliers : Loaded(v)' \subseteq Loaded(v)
    BY <1>t, <2>1 DEF Loaded, TypeOK
  <2>8. Ids(grss) \subseteq Ids(grss') /\ Ids(UserUgas) \subseteq Ids(UserUgas')
    BY <2>1 DEF Ids, UserUgas
  <2> QED BY <1>t, <2>1, <2>6, <2>7, <2>8, LiveFrame
<1>4. ASSUME NEW a \in alist[w], ApplierLostUser(w, a) PROVE RowsLive'
  <2>1. /\ UNCHANGED <<grss, ugas, urss, acopy, alist>>
        /\ acur' = [acur EXCEPT ![w] = a] /\ atodo' = [atodo EXCEPT ![w] = {}]
    BY <1>4 DEF ApplierLostUser
  <2>2. \A v \in Appliers : Loaded(v)' \subseteq Loaded(v) /\ atodo'[v] \subseteq atodo[v]
    BY <1>t, <2>1 DEF Loaded, TypeOK
  <2> QED BY <1>t, <2>1, <2>2, LiveControl
<1>5. ASSUME NEW a \in alist[w], ApplierReadParents(w, a) PROVE RowsLive'
  <2>1. /\ UNCHANGED <<grss, ugas, urss, atodo, alist>> /\ acur' = [acur EXCEPT ![w] = a]
        /\ \E copies \in SUBSET grss : acopy' = [acopy EXCEPT ![w] = copies]
    BY <1>5 DEF ApplierReadParents
  <2>2. \A v \in Appliers : Loaded(v)' \subseteq Loaded(v)
    BY <1>t, <2>1 DEF Loaded, TypeOK
  <2>3. \A v \in Appliers : \A s \in acopy'[v] : s \in acopy[v] \/ s \in grss
    BY <1>t, <2>1 DEF TypeOK
  <2>4. \A s \in grss : s.id \in Ids(grss')
    BY <2>1 DEF Ids
  <2>5. Ids(grss) \subseteq Ids(grss') /\ Ids(UserUgas) \subseteq Ids(UserUgas')
    BY <2>1 DEF Ids, UserUgas
  <2> QED BY <1>t, <2>1, <2>2, <2>3, <2>4, <2>5, LiveFrame
<1>6. CASE ApplierShareNext(w)
  <2>1. PICK x \in atodo[w] : urss' = Upsert({x}) /\ atodo' = [atodo EXCEPT ![w] = @ \ {x}]
    BY <1>6 DEF ApplierShareNext
  <2>2. UNCHANGED <<grss, ugas, acopy, alist, acur>>
    BY <1>6 DEF ApplierShareNext
  <2>3. \A y \in urss' : y \in urss \/ y \in atodo[w]
    BY <2>1 DEF Upsert
  <2>4. \A v \in Appliers : atodo'[v] \subseteq atodo[v] /\ Loaded(v)' = Loaded(v)
    BY <1>t, <2>1, <2>2 DEF TypeOK, Loaded
  <2>5. Ids(grss) \subseteq Ids(grss') /\ Ids(UserUgas) \subseteq Ids(UserUgas')
    BY <2>2 DEF Ids, UserUgas
  <2> QED BY <1>t, <2>2, <2>3, <2>4, <2>5, LiveFrame
<1>7. CASE ApplierReadDirect(w)
  <2>1. UNCHANGED <<grss, ugas, urss, acopy, alist, acur>>
    BY <1>7 DEF ApplierReadDirect
  <2>2. atodo' = [atodo EXCEPT ![w] =
            {PropagatedRow(s.record, acur[w].child, s.id, acur[w].id, {}, s.edit) :
                s \in {t \in grss : t.group = acur[w].parent}}]
    BY <1>7, Zenon DEF ApplierReadDirect
  <2>3. acur[w].id \in Ids(UserUgas)
    BY <1>t, <1>7 DEF RowsLive, Loaded, ApplierReadDirect, CurrentOK
  <2>4. Ids(grss)' = Ids(grss) /\ Ids(UserUgas)' = Ids(UserUgas)
    BY <2>1 DEF Ids, UserUgas
  <2>5. ASSUME NEW s \in grss
        PROVE  LiveRow(PropagatedRow(s.record, acur[w].child, s.id, acur[w].id, {}, s.edit))'
    <3> DEFINE x == PropagatedRow(s.record, acur[w].child, s.id, acur[w].id, {}, s.edit)
    <3>1. x.grs = s.id /\ x.uga = acur[w].id
      BY DEF PropagatedRow
    <3>2. s.id \in Ids(grss)
      BY DEF Ids
    <3>3. \A y : y.grs = s.id /\ y.uga = acur[w].id => LiveRow(y)'
      BY <2>3, <2>4, <3>2 DEF LiveRow
    <3>4. UNCHANGED acur
      BY <2>1
    <3> QED BY <3>1, <3>3, <3>4
  <2>6. \A v \in Appliers : \A x \in atodo'[v] : x \in atodo[v] \/ LiveRow(x)'
    <3> SUFFICES ASSUME NEW v \in Appliers, NEW x \in atodo'[v], x \notin atodo[v]
                 PROVE  LiveRow(x)'
      OBVIOUS
    <3>1. \E s \in grss :
              x = PropagatedRow(s.record, acur[w].child, s.id, acur[w].id, {}, s.edit)
      BY <1>t, <2>2 DEF TypeOK
    <3>2. x.grs \in Ids(grss) /\ x.uga \in Ids(UserUgas)
      BY <2>3, <3>1 DEF PropagatedRow, Ids
    <3> QED BY <2>4, <3>2 DEF LiveRow
  <2>7. \A v \in Appliers : Loaded(v)' = Loaded(v)
    BY <2>1 DEF Loaded
  <2>8. Ids(grss) \subseteq Ids(grss') /\ Ids(UserUgas) \subseteq Ids(UserUgas')
    BY <2>1 DEF Ids, UserUgas
  <2> QED BY <1>t, <2>1, <2>6, <2>7, <2>8, LiveFrame
<1>8. CASE ApplierCopyNext(w)
  <2>1. UNCHANGED <<ugas, atodo, alist, acur>>
    BY <1>8 DEF ApplierCopyNext
  <2>2. /\ Ids(UserUgas) \subseteq Ids(UserUgas')
        /\ \A v \in Appliers : Loaded(v)' = Loaded(v)
    BY <2>1 DEF Ids, UserUgas, Loaded
  <2>3. CASE UNCHANGED <<grss, urss, acopy>>
    BY <1>t, <2>1, <2>2, <2>3, LiveControl
  <2>4. ASSUME NEW s \in acopy[w], NEW new,
               grss' = grss \cup {new},
               urss' = Upsert(PropagatedRows(s, s.id, acur[w].child, {acur[w].id})),
               acopy' = [acopy EXCEPT ![w] = @ \ {s}]
        PROVE  RowsLive'
    <3>1. Ids(grss) \subseteq Ids(grss') /\ s.id \in Ids(grss)
      BY <1>t, <2>4 DEF Ids, RowsLive
    <3>2. ASSUME NEW x \in PropagatedRows(s, s.id, acur[w].child, {acur[w].id})
          PROVE  LiveRow(x)'
      <4>1. PICK m \in MembersBelow(acur[w].child) :
              x = PropagatedRow(s.record, m.uga.child, s.id, m.uga.id,
                                {acur[w].id} \cup m.path, s.edit)
        BY <3>2 DEF PropagatedRows
      <4>2. x.grs = s.id /\ x.uga = m.uga.id
        BY <4>1 DEF PropagatedRow
      <4>3. m.uga.id \in Ids(UserUgas)
        BY MembersHoldMemberships DEF Ids
      <4>4. LiveRow(x)
        BY <3>1, <4>2, <4>3 DEF LiveRow
      <4> QED BY <2>2, <3>1, <4>4, LiveRowStays
    <3>3. \A x \in urss' : x \in urss \/ LiveRow(x)'
      BY <2>4, <3>2 DEF Upsert
    <3>4. \A v \in Appliers : acopy'[v] \subseteq acopy[v]
      BY <1>t, <2>4 DEF TypeOK
    <3> QED BY <1>t, <2>1, <2>2, <3>1, <3>3, <3>4, LiveFrame
  <2> QED BY <1>8, <2>3, <2>4, Zenon DEF ApplierCopyNext
<1>9. CASE ApplierMark(w)
  <2>1. /\ ugas' = SaveApplied(acur[w]) /\ UNCHANGED <<grss, urss, atodo, acopy>>
        /\ alist' = [alist EXCEPT ![w] = @ \ {acur[w]}] /\ acur' = [acur EXCEPT ![w] = NoUga]
    BY <1>9 DEF ApplierMark
  <2>2. \A b \in ugas : LET c == [b EXCEPT !.apply = FALSE]
                        IN  c.id = b.id /\ c.child = b.child
    BY <1>t DEF TypeOK, Uga
  <2>3. \A b \in ugas : \E c \in ugas' : c.id = b.id /\ c.child = b.child
    BY <2>1, <2>2 DEF SaveApplied
  <2>4. Ids(UserUgas) \subseteq Ids(UserUgas') /\ Ids(grss) \subseteq Ids(grss')
    BY <2>1, <2>3 DEF Ids, UserUgas
  <2>5. \A v \in Appliers : Loaded(v)' \subseteq Loaded(v)
    <3>1. ASSUME NEW v \in Appliers PROVE alist'[v] \subseteq alist[v] /\ acur'[v] \in {NoUga, acur[v]}
      BY <1>t, <2>1 DEF TypeOK
    <3> QED BY <1>n, <3>1 DEF Loaded
  <2> QED BY <1>t, <2>1, <2>4, <2>5, LiveFrame
<1>10. CASE ApplierRelease(w)
  <2>1. /\ UNCHANGED <<grss, ugas, urss>>
        /\ alist' = [alist EXCEPT ![w] = {}] /\ acur' = [acur EXCEPT ![w] = NoUga]
        /\ atodo' = [atodo EXCEPT ![w] = {}] /\ acopy' = [acopy EXCEPT ![w] = {}]
    BY <1>10 DEF ApplierRelease
  <2>2. ASSUME NEW v \in Appliers
        PROVE  /\ alist'[v] \subseteq alist[v] /\ acur'[v] \in {NoUga, acur[v]}
               /\ atodo'[v] \subseteq atodo[v] /\ acopy'[v] \subseteq acopy[v]
    BY <1>t, <2>1 DEF TypeOK
  <2>3. \A v \in Appliers : Loaded(v)' \subseteq Loaded(v)
    BY <1>n, <2>2 DEF Loaded
  <2> QED BY <1>t, <2>1, <2>2, <2>3, LiveControl
<1> QED
  BY <1>1, <1>2, <1>3, <1>4, <1>5, <1>6, <1>7, <1>8, <1>9, <1>10 DEF ApplierStep

LEMMA LiveApplier ==
    ASSUME IInv, LiveInv, NEW w \in Appliers, ApplierStep(w) \/ ApplierFail(w)
    PROVE  LiveInv'
<1> USE DEF Goto
<1>t. TypeOK /\ RowsLive /\ IdleIsEmpty /\ OnlyGroupsRemoved
  BY DEF IInv, TypeInv, LiveInv
<1>1. RowsLive'
  BY LiveApplierRows
<1>r. UNCHANGED removerVars
  BY DEF ApplierStep, ApplierCheck, ApplierAcquire, ApplierLoad, ApplierReadSupergroups,
         ApplierLostUser, ApplierReadParents, ApplierShareNext, ApplierReadDirect, ApplierCopyNext,
         ApplierMark, ApplierFinish, ApplierRelease, ApplierFail
<1>2. IdleIsEmpty'
  <2>1. CASE ApplierRelease(w)
    <3>1. /\ alist' = [alist EXCEPT ![w] = {}] /\ acur' = [acur EXCEPT ![w] = NoUga]
          /\ atodo' = [atodo EXCEPT ![w] = {}] /\ acopy' = [acopy EXCEPT ![w] = {}]
          /\ apc' = [apc EXCEPT ![w] = "idle"]
      BY <2>1 DEF ApplierRelease
    <3>2. NoUga \notin Uga
      BY DEF NoUga, Uga
    <3>3. alist'[w] = {} /\ acur'[w] = NoUga /\ atodo'[w] = {} /\ acopy'[w] = {}
      BY <1>t, <3>1 DEF TypeOK
    <3>4. Loaded(w)' = {}
      BY <3>2, <3>3 DEF Loaded
    <3>5. ASSUME NEW v \in Appliers, v # w
          PROVE  /\ alist'[v] = alist[v] /\ acur'[v] = acur[v] /\ apc'[v] = apc[v]
                 /\ atodo'[v] = atodo[v] /\ acopy'[v] = acopy[v]
      BY <1>t, <3>1, <3>5 DEF TypeOK
    <3> QED BY <1>t, <1>r, <3>3, <3>4, <3>5 DEF IdleIsEmpty, Loaded, removerVars
  <2>2. CASE ~ApplierRelease(w)
    <3> DEFINE Moved == /\ apc'[w] # "idle"
                        /\ \A v \in Appliers \ {w} :
                               /\ alist'[v] = alist[v] /\ acur'[v] = acur[v] /\ apc'[v] = apc[v]
                               /\ atodo'[v] = atodo[v] /\ acopy'[v] = acopy[v]
    <3>1. Moved
      <4> USE <1>t DEF tables, TypeOK
      <4>1. CASE ApplierCheck(w) \/ ApplierAcquire(w) \/ ApplierLoad(w) \/ ApplierFinish(w)
                     \/ ApplierFail(w)
        BY <4>1 DEF ApplierCheck, ApplierAcquire, ApplierLoad, ApplierFinish, ApplierFail
      <4>2. ASSUME NEW a \in alist[w], ApplierReadSupergroups(w, a) PROVE Moved
        <5>1. /\ UNCHANGED <<alist, acopy>> /\ acur' = [acur EXCEPT ![w] = a]
              /\ apc' = [apc EXCEPT ![w] = "super"]
              /\ \E rows : atodo' = [atodo EXCEPT ![w] = rows]
          BY <4>2 DEF ApplierReadSupergroups
        <5> QED BY <5>1
      <4>3. ASSUME NEW a \in alist[w], ApplierLostUser(w, a) \/ ApplierReadParents(w, a)
            PROVE  Moved
        BY <4>3 DEF ApplierLostUser, ApplierReadParents
      <4>4. CASE ApplierShareNext(w) \/ ApplierReadDirect(w)
        BY <4>4 DEF ApplierShareNext, ApplierReadDirect
      <4>5. CASE ApplierCopyNext(w)
        <5>1. /\ UNCHANGED <<alist, acur, atodo>> /\ apc[w] = "copy"
              /\ apc' = apc \/ apc' = [apc EXCEPT ![w] = "release"]
              /\ acopy' = acopy \/ \E s : acopy' = [acopy EXCEPT ![w] = @ \ {s}]
          BY <4>5 DEF ApplierCopyNext
        <5> QED BY <5>1
      <4>6. CASE ApplierMark(w)
        BY <4>6 DEF ApplierMark
      <4> QED BY <2>2, <4>1, <4>2, <4>3, <4>4, <4>5, <4>6 DEF ApplierStep
    <3> QED BY <1>t, <1>r, <3>1 DEF IdleIsEmpty, Loaded, removerVars
  <2> QED BY <2>1, <2>2
<1>3. OnlyGroupsRemoved'
  <2>1. \A b \in ugas' : \E c \in ugas :
            b.id = c.id /\ b.child = c.child /\ b.remove = c.remove
    <3>1. CASE ApplierMark(w)
      <4>1. ugas' = SaveApplied(acur[w])
        BY <3>1 DEF ApplierMark
      <4>2. \A b \in ugas : LET c == [b EXCEPT !.apply = FALSE]
                            IN  c.id = b.id /\ c.child = b.child /\ c.remove = b.remove
        BY <1>t DEF TypeOK, Uga
      <4> QED BY <4>1, <4>2 DEF SaveApplied
    <3>2. CASE ~ApplierMark(w)
      <4>1. UNCHANGED ugas
        BY <3>2
        DEF ApplierStep, ApplierCheck, ApplierAcquire, ApplierLoad, ApplierReadSupergroups,
            ApplierLostUser, ApplierReadParents, ApplierShareNext, ApplierReadDirect,
            ApplierCopyNext, ApplierFinish, ApplierRelease, ApplierFail, tables
      <4> QED BY <4>1
    <3> QED BY <3>1, <3>2
  <2>2. \A b \in UserUgas' : \E c \in UserUgas : b.id = c.id
    BY <2>1 DEF UserUgas
  <2> QED BY <1>t, <1>r, <2>1, <2>2 DEF OnlyGroupsRemoved, removerVars
<1> QED BY <1>1, <1>2, <1>3 DEF LiveInv

LEMMA LiveRemover ==
    ASSUME IInv, LiveInv, NEW w \in Removers, RemoverStep(w) \/ RemoverFail(w)
    PROVE  LiveInv'
<1> USE DEF tables, GotoR
<1>t. /\ TypeOK /\ IdsOK /\ RowsLive /\ IdleIsEmpty /\ OnlyGroupsRemoved
      /\ Users \cap Groups = {}
  BY SharingAssumption DEF IInv, TypeInv, LiveInv
<1>1. /\ UNCHANGED <<grss, applierVars>> /\ urss' \subseteq urss /\ ugas' \subseteq ugas
      /\ UserUgas' = UserUgas
  <2>1. CASE RemoverDelete(w)
    <3>1. /\ rpc[w] = "delete" /\ ugas' = {a \in ugas : a.id # rcur[w].id}
          /\ UNCHANGED <<grss, urss, applierVars>>
      BY <2>1 DEF RemoverDelete
    <3>2. \A b \in UserUgas : b.id # rcur[w].id
      BY <1>t, <3>1 DEF OnlyGroupsRemoved
    <3> QED BY <3>1, <3>2 DEF UserUgas
  <2>2. CASE RemoverBatch(w)
    BY <2>2 DEF RemoverBatch, UserUgas
  <2>3. CASE RemoverCheck(w) \/ RemoverAcquire(w) \/ RemoverLoad(w) \/ RemoverNext(w)
                 \/ RemoverFail(w) \/ RemoverRelease(w)
    BY <2>3 DEF RemoverCheck, RemoverAcquire, RemoverLoad, RemoverNext, RemoverFail,
                RemoverRelease, UserUgas
  <2> QED BY <2>1, <2>2, <2>3 DEF RemoverStep
<1>2. RowsLive'
  <2>1. Ids(grss) \subseteq Ids(grss') /\ Ids(UserUgas) \subseteq Ids(UserUgas')
    BY <1>1 DEF Ids
  <2> QED BY <1>t, <1>1, <2>1, LiveFrame DEF applierVars, Loaded
<1>3. \A a \in ugas, b \in UserUgas : a.remove => b.id # a.id
  BY <1>t DEF OnlyGroupsRemoved, UserUgas, IdsOK
<1>4. /\ \A v \in Removers \ {w} : rlist'[v] = rlist[v] /\ rcur'[v] = rcur[v] /\ rpc'[v] = rpc[v]
      /\ rpc'[w] = "idle" => rlist'[w] = {}
      /\ \A a \in rlist'[w], b \in UserUgas : b.id # a.id
      /\ rpc'[w] \in {"batch", "delete"} => \A b \in UserUgas : b.id # rcur'[w].id
  <2> USE <1>t DEF TypeOK
  <2>1. CASE RemoverCheck(w) \/ RemoverAcquire(w) \/ RemoverFail(w) \/ RemoverDelete(w)
    BY <2>1
    DEF RemoverCheck, RemoverAcquire, RemoverFail, RemoverDelete, OnlyGroupsRemoved
  <2>2. CASE RemoverLoad(w)
    BY <1>3, <2>2 DEF RemoverLoad, OnlyGroupsRemoved
  <2>3. CASE RemoverNext(w)
    BY <2>3 DEF RemoverNext, OnlyGroupsRemoved
  <2>4. CASE RemoverBatch(w)
    <3>1. /\ rpc[w] = "batch" /\ UNCHANGED <<rlist, rcur>>
          /\ \E pc \in {"delete", "batch"} : rpc' = [rpc EXCEPT ![w] = pc]
      BY <2>4 DEF RemoverBatch
    <3> QED BY <3>1 DEF OnlyGroupsRemoved
  <2>5. CASE RemoverRelease(w)
    BY <2>5 DEF RemoverRelease, OnlyGroupsRemoved
  <2> QED BY <2>1, <2>2, <2>3, <2>4, <2>5 DEF RemoverStep
<1>5. IdleIsEmpty'
  BY <1>t, <1>1, <1>4 DEF IdleIsEmpty, applierVars, Loaded
<1>6. OnlyGroupsRemoved'
  BY <1>t, <1>1, <1>4 DEF OnlyGroupsRemoved
<1> QED BY <1>2, <1>5, <1>6 DEF LiveInv

LEMMA LiveRestart ==
    ASSUME LiveInv, Restart PROVE LiveInv'
<1>1. /\ UNCHANGED tables
      /\ \A w \in Appliers : /\ apc'[w] = "idle" /\ alist'[w] = {} /\ acur'[w] = NoUga
                             /\ atodo'[w] = {} /\ acopy'[w] = {}
      /\ \A w \in Removers : rpc'[w] = "idle" /\ rlist'[w] = {}
  BY DEF Restart
<1>2. \A w \in Appliers : Loaded(w)' = {}
  BY <1>1 DEF Loaded, NoUga, Uga
<1>3. \A x \in urss' : LiveRow(x)'
  BY <1>1 DEF LiveInv, RowsLive, LiveRow, UserUgas, tables
<1>4. RowsLive'
  BY <1>1, <1>2, <1>3 DEF RowsLive
<1>5. IdleIsEmpty' /\ OnlyGroupsRemoved'
  BY <1>1, <1>2 DEF LiveInv, IdleIsEmpty, OnlyGroupsRemoved, tables
<1> QED BY <1>4, <1>5 DEF LiveInv

LEMMA LiveInit == Init => LiveInv
<1> SUFFICES ASSUME Init PROVE LiveInv
  OBVIOUS
<1>1. \A w \in Appliers : Loaded(w) = {}
  BY DEF Init, Loaded, NoUga, NoId, Uga
<1>2. RowsLive /\ IdleIsEmpty
  BY <1>1 DEF Init, RowsLive, IdleIsEmpty
<1>3. OnlyGroupsRemoved
  BY DEF Init, OnlyGroupsRemoved
<1> QED BY <1>2, <1>3 DEF LiveInv

LEMMA LiveStep ==
    ASSUME Calls \subseteq {"grant"}, IInv, LiveInv, [QuietNext]_vars PROVE LiveInv'
<1>1. CASE UNCHANGED vars
  <2>1. UNCHANGED <<tables, applierVars, removerVars>>
    BY <1>1 DEF vars
  <2>2. RowsLive'
    <3>1. UNCHANGED <<grss, ugas, urss, atodo, acopy, alist, acur>>
      BY <2>1 DEF tables, applierVars
    <3> QED BY <3>1, LiveControl DEF LiveInv, Loaded
  <2>3. IdleIsEmpty' /\ OnlyGroupsRemoved'
    BY <2>1
    DEF LiveInv, IdleIsEmpty, OnlyGroupsRemoved, Loaded, UserUgas, tables, applierVars, removerVars
  <2> QED BY <2>2, <2>3 DEF LiveInv
<1>2. CASE JobsIdle /\ SharingCall
  BY <1>2, LiveSharingCall
<1>3. CASE JobsIdle /\ GroupCall
  BY <1>3, LiveGroupCall
<1>4. CASE JobStep
  BY <1>4, LiveApplier, LiveRemover DEF JobStep
<1>5. CASE Restart
  BY <1>5, LiveRestart
<1> QED BY <1>1, <1>2, <1>3, <1>4, <1>5 DEF QuietNext

\* On a quiet server, where neither groups nor single membership rows are deleted,
\* every propagated row names a sharing and a membership that exist, so that the
\* end of either takes it along. What is in the way elsewhere is a call between
\* the reads and the writes of a run, not the paths, the copies or the failures.
THEOREM QuietRowsNameLiveSources ==
    ASSUME Calls \subseteq {"grant"} PROVE QuietSpec => []PropagatedRowsNameLiveSources
<1>1. IInv /\ LiveInv /\ [QuietNext]_vars => IInv' /\ LiveInv'
  <2>1. [QuietNext]_vars => [Next]_vars
    BY DEF QuietNext, Next
  <2> QED BY <2>1, IndNext, LiveStep
<1>2. LiveInv => PropagatedRowsNameLiveSources
  BY DEF LiveInv, RowsLive, LiveRow, PropagatedRowsNameLiveSources
<1> QED BY <1>1, <1>2, IndInit, LiveInit, PTL DEF QuietSpec

=============================================================================
