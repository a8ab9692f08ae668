---------------------------- MODULE GroupSharing ----------------------------
(***************************************************************************)
(* Record sharing through user groups: SharingService and UserGroupService *)
(* together with the two background jobs that work off the memberships     *)
(* they mark, UgaApplierJob and UgaRemoverJob.                             *)
(*                                                                         *)
(* Four database tables are the state of the service:                      *)
(*   groups  UserGroup rows,                                               *)
(*   ugas    UserGroupAssignment rows: a user or a group is a member of a  *)
(*           parent group; isApplyPending and isRemovePending schedule the *)
(*           work of the jobs,                                             *)
(*   grss    GroupRecordSharing rows: a record is shared with a group,     *)
(*   urss    UserRecordSharing rows: what a user can actually access. A    *)
(*           generic row is a direct grant, any other is propagated from a *)
(*           group sharing and names it, the membership it came through    *)
(*           and the group-to-group memberships on the way.                *)
(*                                                                         *)
(* A service call is one transaction and one action. The jobs are not      *)
(* transactional: each save of theirs is an action of its own, and so is   *)
(* each read of a hierarchy with its sharings, so calls interleave.        *)
(***************************************************************************)
EXTENDS Naturals, FiniteSets

CONSTANTS
    Users, Groups, Records,
    Nesting,    \* the pairs <<child, parent>> that are ever nested (acyclic)
    GroupKinds, \* values of isGeneric that group sharings are created with
    EditFlags,  \* edit permissions that sharings are created with
    Appliers,   \* scheduler threads that may execute UgaApplierJob
    Removers,   \* scheduler threads that may execute UgaRemoverJob
    Calls,      \* optional calls of the instance: "grant" (to a user),
                \* "deleteGroup", "controller" (its deletion of single rows)
    BatchLimit, \* rows one transaction of the remover deletes (100 in the job)
    MaxUga,     \* bound: memberships ever created
    MaxGrs,     \* bound: a call shares with a group only below this sequence value
    MaxFaults   \* bound: failing job runs plus server restarts

ASSUME SharingAssumption ==
    /\ Users \cap Groups = {}
    /\ Nesting \subseteq Groups \X Groups
    /\ \A g \in Groups : <<g, g>> \notin Nesting
    /\ GroupKinds \subseteq BOOLEAN /\ EditFlags \subseteq BOOLEAN
    /\ Calls \subseteq {"grant", "deleteGroup", "controller"}
    /\ BatchLimit \in Nat \ {0}
    /\ MaxUga \in Nat /\ MaxGrs \in Nat /\ MaxFaults \in Nat

VARIABLES
    groups, ugas, grss, urss,
    ugaSeq, grsSeq,             \* KID sequences: identifiers are never reused
    applying, apc, alist, acur, atodo, acopy,
    removing, rpc, rlist, rcur,
    faults

tables == <<groups, ugas, grss, urss, ugaSeq, grsSeq>>
applierVars == <<applying, apc, alist, acur, atodo, acopy>>
removerVars == <<removing, rpc, rlist, rcur>>
vars == <<tables, applierVars, removerVars, faults>>

-----------------------------------------------------------------------------
(* Rows. An identifier is a positive number, NoId an empty column.         *)

NoId == 0

Uga == [id : Nat, parent : Groups, child : Users \cup Groups,
        apply : BOOLEAN, remove : BOOLEAN]

\* copy tells a sharing made by propagateGroupSharingsToGroup from one made by
\* a call. No column holds it: it is only used by properties.
Grs == [id : Nat, record : Records, group : Groups, edit : BOOLEAN,
        generic : BOOLEAN, copy : BOOLEAN]

\* path is groupSharingHierarchy, read only with LIKE '%id%': a set of ids.
Urs == [record : Records, user : Users, edit : BOOLEAN, generic : BOOLEAN,
        grs : Nat, uga : Nat, path : SUBSET Nat]

NoUga == [id |-> NoId]

Ids(rows) == {x.id : x \in rows}
UserUgas == {a \in ugas : a.child \in Users}
GroupUgas == {a \in ugas : a.child \in Groups}

ApplierPc == {"idle", "acquire", "load", "next", "super", "direct", "copy", "release"}
RemoverPc == {"idle", "acquire", "load", "next", "batch", "delete", "release"}

TypeOK ==
    /\ groups \subseteq Groups
    /\ ugas \subseteq Uga
    /\ grss \subseteq Grs
    /\ urss \subseteq Urs
    /\ ugaSeq \in Nat /\ grsSeq \in Nat /\ faults \in Nat
    /\ applying \in BOOLEAN /\ removing \in BOOLEAN
    /\ apc \in [Appliers -> ApplierPc]
    /\ alist \in [Appliers -> SUBSET Uga]
    /\ acur \in [Appliers -> Uga \cup {NoUga}]
    /\ atodo \in [Appliers -> SUBSET Urs]
    /\ acopy \in [Appliers -> SUBSET Grs]
    /\ rpc \in [Removers -> RemoverPc]
    /\ rlist \in [Removers -> SUBSET Uga]
    /\ rcur \in [Removers -> Uga \cup {NoUga}]

-----------------------------------------------------------------------------
(* A definition called Mutated... is never used: it is the definition that  *)
(* follows it with a plausible mistake, for which the check of a property   *)
(* has to fail.                                                            *)

(* The group graph. The services walk it recursively; on an acyclic graph  *)
(* the walks from h up to g are the chains of memberships between the two. *)

IsChain(S, h, g) ==
    LET parents == {a.parent : a \in S}
        children == {a.child : a \in S}
    IN  /\ h \in children \ parents
        /\ g \in parents \ children
        /\ parents \ {g} = children \ {h}
        /\ \A a, b \in S : a.parent = b.parent \/ a.child = b.child => a = b

Chains(h, g) == {S \in SUBSET GroupUgas : IsChain(S, h, g)}

MutatedDirectMembers(g) ==
    {[uga |-> a, path |-> {}] : a \in {b \in UserUgas : b.parent = g /\ ~b.apply}}

\* propagateGroupSharing, lines 380-402: the user memberships it reaches from
\* a group, each with the ids it has pushed on the hierarchy path by then.
DirectMembers(g) ==
    {[uga |-> a, path |-> {}] : a \in {b \in UserUgas : b.parent = g}}

SubgroupMembers(g) ==
    UNION {{[uga |-> a, path |-> Ids(S)] : S \in Chains(a.parent, g)} : a \in UserUgas}

MembersBelow(g) == DirectMembers(g) \cup SubgroupMembers(g)

Reaches(h, g, k) == (k = 0 /\ h = g) \/ \E S \in Chains(h, g) : Cardinality(S) = k

MutatedHeight(starts) == 0

\* getParentGroups: each round replaces the groups by their parents; the
\* recursion stops at the first round without any and returns the groups it
\* then holds, those reached in exactly that many rounds.
Height(starts) ==
    CHOOSE k \in 0..Cardinality(GroupUgas) :
        /\ \E h \in starts, g \in Groups : Reaches(h, g, k)
        /\ \A j \in (k + 1)..Cardinality(GroupUgas) :
               ~ \E h \in starts, g \in Groups : Reaches(h, g, j)

LastLevel(starts) == {g \in Groups : \E h \in starts : Reaches(h, g, Height(starts))}

\* The list of ids is one object shared by all paths above a group: it ends
\* up holding every membership found above that group.
EdgesAbove(h) == {a \in GroupUgas : a.child = h \/ Chains(h, a.child) # {}}

\* getGroupsForUserWithHierarchy: each group it returns keeps the path of one of
\* the direct memberships it was reached from (the last one put into the map).
MembershipsOf(user) == {a \in UserUgas : a.child = user}
GroupsOf(user) == {a.parent : a \in MembershipsOf(user)}

Seeds(user) ==
    {seed \in [LastLevel(GroupsOf(user)) -> MembershipsOf(user)] :
        \A g \in DOMAIN seed : Reaches(seed[g].parent, g, Height(GroupsOf(user)))}

MutatedHierarchyPath(seed) == {}

HierarchyPath(seed) == {seed.id} \cup Ids(EdgesAbove(seed.parent))

-----------------------------------------------------------------------------
(* shareRecord: the row it looks for, and update or insert.                *)

GenericRow(u, r, edit) ==
    [record |-> r, user |-> u, edit |-> edit, generic |-> TRUE,
     grs |-> NoId, uga |-> NoId, path |-> {}]

MutatedPropagatedRow(r, u, grs, uga, path, edit) ==
    [record |-> u, user |-> r, edit |-> edit, generic |-> FALSE,
     grs |-> grs, uga |-> uga, path |-> path]

PropagatedRow(r, u, grs, uga, path, edit) ==
    [record |-> r, user |-> u, edit |-> edit, generic |-> FALSE,
     grs |-> grs, uga |-> uga, path |-> path]

MutatedSameSharing(x, y) == x.user = y.user /\ x.record = y.record

SameSharing(x, y) ==
    /\ x.generic = y.generic
    /\ IF x.generic THEN x.user = y.user /\ x.record = y.record
       ELSE x.grs = y.grs /\ x.uga = y.uga /\ x.path = y.path

Upsert(new) == {x \in urss : \A y \in new : ~SameSharing(x, y)} \cup new

\* propagateGroupSharing of sharing s, recorded under identifier id, to the
\* members of group g, the path starting with base.
PropagatedRows(s, id, g, base) ==
    {PropagatedRow(s.record, m.uga.child, id, m.uga.id, base \cup m.path, s.edit) :
        m \in MembersBelow(g)}

-----------------------------------------------------------------------------
Init ==
    /\ groups = Groups /\ ugas = {} /\ grss = {} /\ urss = {}
    /\ ugaSeq = 1 /\ grsSeq = 1 /\ faults = 0
    /\ applying = FALSE /\ removing = FALSE
    /\ apc = [w \in Appliers |-> "idle"] /\ rpc = [w \in Removers |-> "idle"]
    /\ alist = [w \in Appliers |-> {}] /\ rlist = [w \in Removers |-> {}]
    /\ acur = [w \in Appliers |-> NoUga] /\ rcur = [w \in Removers |-> NoUga]
    /\ atodo = [w \in Appliers |-> {}] /\ acopy = [w \in Appliers |-> {}]

(* SharingService. *)

ShareRecord(u, r, edit) ==
    /\ urss' = Upsert({GenericRow(u, r, edit)})
    /\ UNCHANGED <<groups, ugas, grss, ugaSeq, grsSeq, applierVars, removerVars, faults>>

\* unshareRecord, and unshareRecordWithAllUsers when us is everybody.
UnshareRecord(us, r) ==
    /\ urss' = {x \in urss : ~(x.generic /\ x.record = r /\ x.user \in us)}
    /\ UNCHANGED <<groups, ugas, grss, ugaSeq, grsSeq, applierVars, removerVars, faults>>

\* A generic sharing of the same record and group is updated, any other is
\* inserted; then it is propagated to all members, pending ones included.
ShareRecordWithGroup(r, g, edit, generic) ==
    LET same == {s \in grss : generic /\ s.generic /\ s.record = r /\ s.group = g}
        id == IF same = {} THEN grsSeq ELSE (CHOOSE s \in same : TRUE).id
        s == [id |-> id, record |-> r, group |-> g, edit |-> edit,
              generic |-> generic, copy |-> FALSE]
    IN  /\ g \in groups
        /\ same = {} => grsSeq < MaxGrs
        /\ grss' = {t \in grss : t.id # id} \cup {s}
        /\ grsSeq' = IF same = {} THEN grsSeq + 1 ELSE grsSeq
        /\ urss' = Upsert(PropagatedRows(s, id, g, {}))
        /\ UNCHANGED <<groups, ugas, ugaSeq, applierVars, removerVars, faults>>

\* unshareRecordWithGroup, for one group or for all, of the given kinds.
UnshareRecordWithGroup(r, gs, kinds) ==
    LET gone == {s \in grss : s.record = r /\ s.group \in gs /\ s.generic \in kinds}
    IN  /\ grss' = grss \ gone
        /\ urss' = {x \in urss : x.generic \/ x.grs \notin Ids(gone)}
        /\ UNCHANGED <<groups, ugas, ugaSeq, grsSeq, applierVars, removerVars, faults>>

(* UserGroupService. *)

\* assignUserToGroup and assignGroupToGroup: the unique checks reject a second
\* assignment; the sharings are left to the applier.
Assign(child, g) ==
    /\ g \in groups /\ (child \in Groups => child \in groups)
    /\ \A a \in ugas : ~(a.child = child /\ a.parent = g)
    /\ ugaSeq <= MaxUga
    /\ ugas' = ugas \cup {[id |-> ugaSeq, parent |-> g, child |-> child,
                           apply |-> TRUE, remove |-> FALSE]}
    /\ ugaSeq' = ugaSeq + 1
    /\ UNCHANGED <<groups, grss, urss, grsSeq, applierVars, removerVars, faults>>

MutatedUnassignUserFromGroup(u, g) ==
    LET gone == {a \in ugas : a.child = u /\ a.parent = g}
    IN  /\ gone # {}
        /\ urss' = {x \in urss : x.generic \/ x.uga \notin Ids(gone) \/ x.path # {}}
        /\ ugas' = ugas \ gone
        /\ UNCHANGED <<groups, grss, ugaSeq, grsSeq, applierVars, removerVars, faults>>

UnassignUserFromGroup(u, g) ==
    LET gone == {a \in ugas : a.child = u /\ a.parent = g}
    IN  /\ gone # {}
        /\ urss' = {x \in urss : x.generic \/ x.uga \notin Ids(gone)}
        /\ ugas' = ugas \ gone
        /\ UNCHANGED <<groups, grss, ugaSeq, grsSeq, applierVars, removerVars, faults>>

\* unassignUserGroupFromGroup, not deferred: deleteSharingsForHierarchy.
UnassignGroupFromGroup(c, g) ==
    LET gone == {a \in ugas : a.child = c /\ a.parent = g}
    IN  /\ gone # {}
        /\ urss' = {x \in urss : x.path \cap Ids(gone) = {}}
        /\ ugas' = ugas \ gone
        /\ UNCHANGED <<groups, grss, ugaSeq, grsSeq, applierVars, removerVars, faults>>

\* unassignUserGroupFromGroup, deferred: left to the remover.
DeferUnassignGroup(c, g) ==
    /\ \E a \in ugas :
        /\ a.child = c /\ a.parent = g
        /\ ugas' = (ugas \ {a}) \cup {[a EXCEPT !.remove = TRUE]}
    /\ UNCHANGED <<groups, grss, urss, ugaSeq, grsSeq, applierVars, removerVars, faults>>

\* UserGroupController.unassignGroupMember: the row alone is deleted.
DeleteUserGroupAssignment(a) ==
    /\ ugas' = ugas \ {a}
    /\ UNCHANGED <<groups, grss, urss, ugaSeq, grsSeq, applierVars, removerVars, faults>>

\* The database cascades the deletion to sharings and memberships of the group.
DeleteGroup(g) ==
    LET shared == {s \in grss : s.group = g}
        memberships == {a \in ugas : a.child = g}
    IN  /\ g \in groups
        /\ urss' = {x \in urss : /\ x.generic \/ x.grs \notin Ids(shared)
                                 /\ x.path \cap Ids(memberships) = {}}
        /\ groups' = groups \ {g}
        /\ grss' = grss \ shared
        /\ ugas' = {a \in ugas : a.child # g /\ a.parent # g}
        /\ UNCHANGED <<ugaSeq, grsSeq, applierVars, removerVars, faults>>

-----------------------------------------------------------------------------
(* UgaApplierJob.execute and batchPropagatePendingUserGroupSharings.       *)

Goto(w, pc) == apc' = [apc EXCEPT ![w] = pc]

\* inProgressSince is tested, then set: two steps, not one.
ApplierCheck(w) ==
    /\ apc[w] = "idle" /\ ~applying
    /\ Goto(w, "acquire")
    /\ UNCHANGED <<tables, applying, alist, acur, atodo, acopy, removerVars, faults>>

ApplierAcquire(w) ==
    /\ apc[w] = "acquire"
    /\ applying' = TRUE
    /\ Goto(w, "load")
    /\ UNCHANGED <<tables, alist, acur, atodo, acopy, removerVars, faults>>

ApplierLoad(w) ==
    /\ apc[w] = "load"
    /\ alist' = [alist EXCEPT ![w] = {a \in ugas : a.apply}]
    /\ Goto(w, "next")
    /\ UNCHANGED <<tables, applying, acur, atodo, acopy, removerVars, faults>>

\* propagateGroupSharingsToUser, first query: the sharings of the groups that
\* getGroupsForUserWithHierarchy finds.
ApplierReadSupergroups(w, a) ==
    LET shared == {s \in grss : s.group \in LastLevel(GroupsOf(a.child))}
    IN  /\ apc[w] = "next" /\ a \in alist[w] /\ a.child \in Users
        /\ GroupsOf(a.child) # {}
        /\ acur' = [acur EXCEPT ![w] = a]
        /\ \E seed \in Seeds(a.child) :
               atodo' = [atodo EXCEPT ![w] =
                   {PropagatedRow(s.record, a.child, s.id, a.id,
                                  HierarchyPath(seed[s.group]), s.edit) : s \in shared}]
        /\ Goto(w, "super")
        /\ UNCHANGED <<tables, applying, alist, acopy, removerVars, faults>>

\* The user has left all groups since the list was loaded: the queries by the
\* (empty) set of groups are unrestricted, and the first row that either of
\* them returns ends the run with a null pointer exception.
ApplierLostUser(w, a) ==
    /\ apc[w] = "next" /\ a \in alist[w] /\ a.child \in Users
    /\ GroupsOf(a.child) = {}
    /\ acur' = [acur EXCEPT ![w] = a]
    /\ atodo' = [atodo EXCEPT ![w] = {}]
    /\ Goto(w, IF ugas = {} /\ grss = {} THEN "super" ELSE "release")
    /\ UNCHANGED <<tables, applying, alist, acopy, removerVars, faults>>

\* One iteration of either loop: shareRecord, in a transaction of its own.
ApplierShareNext(w) ==
    /\ apc[w] \in {"super", "direct"}
    /\ \E x \in atodo[w] :
        /\ urss' = Upsert({x})
        /\ atodo' = [atodo EXCEPT ![w] = @ \ {x}]
    /\ UNCHANGED <<groups, ugas, grss, ugaSeq, grsSeq, applying, apc, alist, acur, acopy,
                   removerVars, faults>>

\* Second query: the sharings of the group the user was assigned to.
ApplierReadDirect(w) ==
    LET a == acur[w]
        shared == {s \in grss : s.group = a.parent}
    IN  /\ apc[w] = "super" /\ atodo[w] = {}
        /\ atodo' = [atodo EXCEPT ![w] =
               {PropagatedRow(s.record, a.child, s.id, a.id, {}, s.edit) : s \in shared}]
        /\ Goto(w, "direct")
        /\ UNCHANGED <<tables, applying, alist, acur, acopy, removerVars, faults>>

\* propagateGroupSharingsToGroup: the sharings of the parent group and of the
\* groups getParentGroups finds above it.
ApplierReadParents(w, a) ==
    /\ apc[w] = "next" /\ a \in alist[w] /\ a.child \in Groups
    /\ acur' = [acur EXCEPT ![w] = a]
    /\ acopy' = [acopy EXCEPT ![w] =
           {s \in grss : s.group \in {a.parent} \cup LastLevel({a.parent})}]
    /\ Goto(w, "copy")
    /\ UNCHANGED <<tables, applying, alist, atodo, removerVars, faults>>

\* One iteration: shareRecordWithGroup of the child group, never generic, so
\* always a new row; the propagated rows name the sharing that was copied. A
\* group deleted in the meantime violates the foreign key and ends the run.
ApplierCopyNext(w) ==
    LET a == acur[w]
    IN  /\ apc[w] = "copy"
        /\ \E s \in acopy[w] :
            IF a.child \in groups
            THEN /\ grss' = grss \cup {[id |-> grsSeq, record |-> s.record, group |-> a.child,
                                        edit |-> s.edit, generic |-> FALSE, copy |-> TRUE]}
                 /\ grsSeq' = grsSeq + 1
                 /\ urss' = Upsert(PropagatedRows(s, s.id, a.child, {a.id}))
                 /\ acopy' = [acopy EXCEPT ![w] = @ \ {s}]
                 /\ UNCHANGED apc
            ELSE Goto(w, "release") /\ UNCHANGED <<grss, grsSeq, urss, acopy>>
        /\ UNCHANGED <<groups, ugas, ugaSeq, applying, alist, acur, atodo, removerVars, faults>>

MutatedSaveApplied(a) ==
    {b \in ugas : b.id # a.id} \cup {[a EXCEPT !.apply = FALSE]}

\* The row, if it is still there, is saved with isApplyPending = false (the
\* other columns were not loaded and stay).
SaveApplied(a) == {IF b.id = a.id THEN [b EXCEPT !.apply = FALSE] ELSE b : b \in ugas}

\* Past the time limit the run ends.
ApplierMark(w) ==
    LET a == acur[w]
    IN  /\ \/ apc[w] = "direct" /\ atodo[w] = {}
           \/ apc[w] = "copy" /\ acopy[w] = {}
        /\ ugas' = SaveApplied(a)
        /\ alist' = [alist EXCEPT ![w] = @ \ {a}]
        /\ acur' = [acur EXCEPT ![w] = NoUga]
        /\ \E pc \in {"next", "release"} : Goto(w, pc)
        /\ UNCHANGED <<groups, grss, urss, ugaSeq, grsSeq, applying, atodo, acopy,
                       removerVars, faults>>

ApplierFinish(w) ==
    /\ apc[w] = "next" /\ alist[w] = {}
    /\ Goto(w, "release")
    /\ UNCHANGED <<tables, applying, alist, acur, atodo, acopy, removerVars, faults>>

\* A query or a save fails: its transaction is rolled back, the run ends.
ApplierFail(w) ==
    /\ apc[w] \in {"load", "super", "direct", "copy"} /\ faults < MaxFaults
    /\ Goto(w, "release")
    /\ faults' = faults + 1
    /\ UNCHANGED <<tables, applying, alist, acur, atodo, acopy, removerVars>>

MutatedApplierRelease(w) ==
    /\ apc[w] = "release"
    /\ applying' = (alist[w] # {})
    /\ alist' = [alist EXCEPT ![w] = {}]
    /\ acur' = [acur EXCEPT ![w] = NoUga]
    /\ atodo' = [atodo EXCEPT ![w] = {}]
    /\ acopy' = [acopy EXCEPT ![w] = {}]
    /\ Goto(w, "idle")
    /\ UNCHANGED <<tables, removerVars, faults>>

\* The finally block.
ApplierRelease(w) ==
    /\ apc[w] = "release"
    /\ applying' = FALSE
    /\ alist' = [alist EXCEPT ![w] = {}]
    /\ acur' = [acur EXCEPT ![w] = NoUga]
    /\ atodo' = [atodo EXCEPT ![w] = {}]
    /\ acopy' = [acopy EXCEPT ![w] = {}]
    /\ Goto(w, "idle")
    /\ UNCHANGED <<tables, removerVars, faults>>

-----------------------------------------------------------------------------
(* UgaRemoverJob.execute.                                                  *)

GotoR(w, pc) == rpc' = [rpc EXCEPT ![w] = pc]

RemoverCheck(w) ==
    /\ rpc[w] = "idle" /\ ~removing
    /\ GotoR(w, "acquire")
    /\ UNCHANGED <<tables, applierVars, removing, rlist, rcur, faults>>

RemoverAcquire(w) ==
    /\ rpc[w] = "acquire"
    /\ removing' = TRUE
    /\ GotoR(w, "load")
    /\ UNCHANGED <<tables, applierVars, rlist, rcur, faults>>

RemoverLoad(w) ==
    /\ rpc[w] = "load"
    /\ rlist' = [rlist EXCEPT ![w] = {a \in ugas : a.remove}]
    /\ GotoR(w, "next")
    /\ UNCHANGED <<tables, applierVars, removing, rcur, faults>>

RemoverNext(w) ==
    /\ rpc[w] = "next"
    /\ IF rlist[w] = {} THEN GotoR(w, "release") /\ UNCHANGED <<rlist, rcur>>
       ELSE \E a \in rlist[w] : /\ rcur' = [rcur EXCEPT ![w] = a]
                                /\ rlist' = [rlist EXCEPT ![w] = @ \ {a}]
                                /\ GotoR(w, "batch")
    /\ UNCHANGED <<tables, applierVars, removing, faults>>

\* propagateDeleteUserGroupAssignment: up to BatchLimit rows are deleted and
\* the rest is counted.
RemoverBatch(w) ==
    LET through == {x \in urss : rcur[w].id \in x.path}
        size == IF Cardinality(through) < BatchLimit THEN Cardinality(through) ELSE BatchLimit
    IN  /\ rpc[w] = "batch"
        /\ \E rows \in SUBSET through : /\ Cardinality(rows) = size
                                        /\ urss' = urss \ rows
        /\ GotoR(w, IF Cardinality(through) = size THEN "delete" ELSE "batch")
        /\ UNCHANGED <<groups, ugas, grss, ugaSeq, grsSeq, applierVars, removing, rlist, rcur, faults>>

MutatedRemoverDelete(w) ==
    /\ rpc[w] = "delete"
    /\ ugas' = {IF a.id = rcur[w].id THEN [a EXCEPT !.remove = FALSE] ELSE a : a \in ugas}
    /\ rcur' = [rcur EXCEPT ![w] = NoUga]
    /\ \E pc \in {"next", "release"} : GotoR(w, pc)
    /\ UNCHANGED <<groups, grss, urss, ugaSeq, grsSeq, applierVars, removing, rlist, faults>>

RemoverDelete(w) ==
    /\ rpc[w] = "delete"
    /\ ugas' = {a \in ugas : a.id # rcur[w].id}
    /\ rcur' = [rcur EXCEPT ![w] = NoUga]
    /\ \E pc \in {"next", "release"} : GotoR(w, pc)
    /\ UNCHANGED <<groups, grss, urss, ugaSeq, grsSeq, applierVars, removing, rlist, faults>>

RemoverFail(w) ==
    /\ rpc[w] \in {"load", "batch", "delete"} /\ faults < MaxFaults
    /\ GotoR(w, "release")
    /\ faults' = faults + 1
    /\ UNCHANGED <<tables, applierVars, removing, rlist, rcur>>

RemoverRelease(w) ==
    /\ rpc[w] = "release"
    /\ removing' = FALSE
    /\ rlist' = [rlist EXCEPT ![w] = {}]
    /\ rcur' = [rcur EXCEPT ![w] = NoUga]
    /\ GotoR(w, "idle")
    /\ UNCHANGED <<tables, applierVars, faults>>

\* The server restarts: the tables stay, job state and the static flags do not.
Restart ==
    /\ faults < MaxFaults /\ faults' = faults + 1
    /\ applying' = FALSE /\ removing' = FALSE
    /\ apc' = [w \in Appliers |-> "idle"] /\ rpc' = [w \in Removers |-> "idle"]
    /\ alist' = [w \in Appliers |-> {}] /\ rlist' = [w \in Removers |-> {}]
    /\ acur' = [w \in Appliers |-> NoUga] /\ rcur' = [w \in Removers |-> NoUga]
    /\ atodo' = [w \in Appliers |-> {}] /\ acopy' = [w \in Appliers |-> {}]
    /\ UNCHANGED tables

-----------------------------------------------------------------------------
SharingCall ==
    \/ "grant" \in Calls /\
           \E r \in Records : \/ \E u \in Users, edit \in EditFlags : ShareRecord(u, r, edit)
                             \/ \E us \in {{u} : u \in Users} \cup {Users} : UnshareRecord(us, r)
    \/ \E r \in Records, g \in Groups, edit \in EditFlags, generic \in GroupKinds :
           ShareRecordWithGroup(r, g, edit, generic)
    \/ \E r \in Records, gs \in {{g} : g \in Groups} \cup {Groups},
          kinds \in (SUBSET GroupKinds) \ {{}} : UnshareRecordWithGroup(r, gs, kinds)

GroupCall ==
    \/ \E u \in Users, g \in Groups : Assign(u, g) \/ UnassignUserFromGroup(u, g)
    \/ \E n \in Nesting : \/ Assign(n[1], n[2])
                          \/ UnassignGroupFromGroup(n[1], n[2])
                          \/ DeferUnassignGroup(n[1], n[2])
    \/ "controller" \in Calls /\ \E a \in ugas : DeleteUserGroupAssignment(a)
    \/ "deleteGroup" \in Calls /\ \E g \in Groups : DeleteGroup(g)

ApplierStep(w) ==
    \/ ApplierCheck(w) \/ ApplierAcquire(w) \/ ApplierLoad(w)
    \/ \E a \in alist[w] : \/ ApplierReadSupergroups(w, a)
                          \/ ApplierLostUser(w, a)
                          \/ ApplierReadParents(w, a)
    \/ ApplierShareNext(w) \/ ApplierReadDirect(w) \/ ApplierCopyNext(w)
    \/ ApplierMark(w) \/ ApplierFinish(w) \/ ApplierRelease(w)

RemoverStep(w) ==
    \/ RemoverCheck(w) \/ RemoverAcquire(w) \/ RemoverLoad(w) \/ RemoverNext(w)
    \/ RemoverBatch(w) \/ RemoverDelete(w) \/ RemoverRelease(w)

JobStep ==
    \/ \E w \in Appliers : ApplierStep(w) \/ ApplierFail(w)
    \/ \E w \in Removers : RemoverStep(w) \/ RemoverFail(w)

Next == SharingCall \/ GroupCall \/ JobStep \/ Restart

Spec == Init /\ [][Next]_vars

\* The scheduler fires both jobs every minute and a started run goes on.
FairSpec ==
    /\ Spec
    /\ \A w \in Appliers : WF_vars(ApplierStep(w))
    /\ \A w \in Removers : WF_vars(RemoverStep(w))

\* The same system on a quiet server: no call arrives while a job runs.
JobsIdle ==
    /\ \A w \in Appliers : apc[w] = "idle"
    /\ \A w \in Removers : rpc[w] = "idle"

QuietNext == (JobsIdle /\ (SharingCall \/ GroupCall)) \/ JobStep \/ Restart

QuietSpec ==
    /\ Init /\ [][QuietNext]_vars
    /\ \A w \in Appliers : WF_vars(ApplierStep(w))
    /\ \A w \in Removers : WF_vars(RemoverStep(w))

-----------------------------------------------------------------------------
(* Properties.                                                             *)

DirectRow(x, s, a) == ~x.generic /\ x.grs = s.id /\ x.uga = a.id /\ x.path = {}

\* Once a membership is applied, its user holds a row for every sharing of the
\* group, whatever calls, other job runs, failures and restarts came between
\* the reads and the writes of the run that applied it. (The copies made by
\* propagateGroupSharingsToGroup carry the rows of the original instead.)
AppliedMembersSeeGroupRecords ==
    \A a \in UserUgas, s \in grss :
        ~a.apply /\ a.parent = s.group /\ ~s.copy => \E x \in urss : DirectRow(x, s, a)

\* The same one level up: a member of a subgroup can see what is shared with the
\* parent group once both memberships are applied and none is leaving.
AppliedSubgroupsSeeParentRecords ==
    \A a \in UserUgas, e \in GroupUgas, s \in grss :
        /\ ~a.apply /\ ~e.apply /\ ~e.remove
        /\ a.parent = e.child /\ e.parent = s.group /\ ~s.copy
        => \E x \in urss : ~x.generic /\ x.user = a.child /\ x.record = s.record

\* A propagated row agrees with the rows it names as long as they exist: the
\* record of the sharing goes to the user of the membership, and without a
\* path the two are of the same group.
PropagatedRowsMatchTheirSources ==
    \A x \in urss, s \in grss, a \in ugas :
        ~x.generic /\ x.grs = s.id /\ x.uga = a.id =>
            /\ x.record = s.record /\ x.user = a.child
            /\ x.path = {} => s.group = a.parent

\* Every propagated row names a sharing and a membership that still exist, so
\* that the deletion of either takes the row along.
PropagatedRowsNameLiveSources ==
    \A x \in urss : ~x.generic => x.grs \in Ids(grss) /\ x.uga \in Ids(UserUgas)

MemberOf(u, g) == \E a \in MembershipsOf(u) : a.parent = g \/ Chains(a.parent, g) # {}

\* Nobody keeps a propagated row without being, directly or through subgroups,
\* a member of a group that the record is shared with.
AccessIsJustified ==
    \A x \in urss : ~x.generic =>
        \E s \in grss : s.record = x.record /\ MemberOf(x.user, s.group)

\* A direct grant does not depend on groups: nothing that happens to groups,
\* memberships or group sharings adds, changes or removes one.
Grants == {x \in urss : x.generic}
GroupsLeaveGrantsAlone ==
    [][Grants' # Grants =>
        \/ \E u \in Users, r \in Records, edit \in EditFlags : ShareRecord(u, r, edit)
        \/ \E us \in SUBSET Users, r \in Records : UnshareRecord(us, r)]_vars

\* Memberships live as MembershipLifecycle says.
Pair(a) == <<a.child, a.parent>>
Lifecycle == INSTANCE MembershipLifecycle WITH
    Pairs <- (Users \cup Groups) \X Groups,
    pending <- {Pair(a) : a \in {b \in ugas : b.apply}},
    applied <- {Pair(a) : a \in {b \in ugas : ~b.apply}}
MembershipsFollowLifecycle == Lifecycle!Spec

\* A pending membership is applied or ends, though runs fail and restart.
PendingIsApplied ==
    \A n \in 1..MaxUga :
        (\E a \in ugas : a.id = n /\ a.apply) ~> ~(\E a \in ugas : a.id = n /\ a.apply)

\* A membership marked for removal is removed, though runs fail and restart.
MarkedIsRemoved ==
    \A n \in 1..MaxUga :
        (\E a \in ugas : a.id = n /\ a.remove) ~> ~(\E a \in ugas : a.id = n)

=============================================================================
