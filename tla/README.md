# Kommet: a verification project

Kommet (`src/`) is a Java platform for building web applications: types, records,
record-level access, business processes, scheduled tasks and code that users deploy.
One server hosts many environments, each with a database of its own and an in-memory
description of it (`EnvData`); in the browser, widgets of its own query it. This directory holds TLA+ modules for its core logic,
TLC configurations that check them on small instances, and proofs for TLAPS.

Paths below are relative to `src/src/main/java/kommet/`, those of scripts (`km.*.js`) to
`src/src/main/webapp/resources/km/js/`.

## 1. Inventory

| Component | State it keeps | Operations | What makes it correct |
|---|---|---|---|
| Record sharing and groups: `data/sharing`, `services/UserGroupService` | tables of groups, memberships (UGA), group sharings (GRS), user sharings (URS) | share/unshare with user or group, assign/unassign, delete group | members of a group get a row for each of its sharings; no row outlives what it comes from; direct grants are independent of groups |
| Membership jobs: `UgaApplierJob`, `UgaRemoverJob` | a static "in progress" flag each, the list a run holds in memory | run once a minute per environment | every pending membership is applied and every deferred removal is carried out, whatever runs meanwhile |
| Sharing rules: `services/SharingRuleService` | rule rows, derived sharings, a registry in `EnvData` | save, delete, recalculate for a rule, a type or a record | the sharings of a rule are those of the records it selects; memory agrees with the database |
| Business processes: `businessprocess/BusinessProcessExecutor` | results per invocation, blocked invocations | execute, resume when inputs arrive | an invocation runs after its inputs have values; no branch is forgotten; executions on a cached executor are independent |
| Scheduled tasks: `scheduler` | task rows, jobs in the scheduler's memory | schedule, unschedule, execute, load at start | a job exists exactly for each row, after a restart too |
| Reminders: `services/ReminderService` | reminder rows with a status, a periodic checker | save, run, send | a reminder is sent once, inside its interval |
| Files: `files/FileService` | file and revision rows, files on disk | save, delete, assign | the latest revision has its file; a rollback leaves no row without a file |
| Setting hierarchy: `uch` | settings with the user, profile, locale or environment they apply to | save, get, delete | the most specific setting wins; no orphan rows |
| Environment caches: `env`, `triggers`, `data/UniqueCheckService` | `EnvData`: types, triggers, unique checks, rules | load, register, unregister inside transactions | memory describes the committed database |
| Record save: `data/DataService` | records, history, derived rows | save, delete, associate, types and fields | the stages run in order, a failing stage leaves nothing behind |
| Record tables: `km.table.js`, `km.datasource.js`, `km.tablesearch.js` | shared criteria, page, footer, rows, queries in flight | render, page, sort, filter, search, answers | a view that shows its last answer agrees with the criteria; no page beyond the result |
| Reference lookups: `km.ref.js`, `km.ui.js` | selected id, display name, dialog | open, select, clear, close, name answered | the field submits what was picked and shows its name |
| Authentication and permissions: `auth` | users, sessions, profile and permission caches | log in, save profile, check permission | a changed permission applies to the next request |
| Deployment and libraries: `deployment`, `services/LibraryService` | packages, items of a library | deploy, activate, remove | a failed deployment leaves nothing |

Not modelled, and why: code compilation (`koll`: Java compilation and class loading; what
saving a class does to its sharing rules is modelled), the query language, REL and JSON
(`dao/queries`, `rel`, `json`: conversions without shared state), mail, integration, PDF and
reports (input and output), controllers and view tags (`web`, `basic/keetle`; the actions
of theirs that change state between two service calls are modelled), reminders (date
arithmetic over one status column), files (one row and one file), setting hierarchies (a
lookup without state), authentication and permission caches (replaced as a whole), and the
other widgets of the browser, which draw answers. Of the scripts under
`src/src/main/webapp/resources` some 150,000 lines are third-party code (jQuery, d3, dc,
CodeMirror, TinyMCE and others, several in two versions) or minified copies: nothing of
them is modelled, so a share of the scripts as a whole says little about these modules.

How the parts interact. A save (`DataService.save`) calls triggers, sharing and sharing
rules, business processes and history in one transaction. Sharing rules share records
through `SharingService`; so do users, and so do the membership jobs. Quartz, in the
server's memory, fires the membership jobs, the scheduled tasks and the reminder checker
on threads of its own. Everything consults `EnvData`, which is changed in transactions
and not rolled back with them; a deployment changes classes, with their sharing rules, and
scheduled tasks in one transaction. In the browser a lookup opens tables over criteria that
it keeps, and tables and lookups query the server without waiting for the answer.

What is hard: the jobs are not transactional and interleave with calls; runs fail, time
out and are lost at a restart; memory and database are changed by different means, and a
checked exception commits what was done before it; answers reach a widget in any order.
`PROJECT.json` lists each hazard at its line with the properties that cover it.

## 2. Plan

| | Module | Composes | Status |
|---|---|---|---|
| 1 | `GroupSharing`, abstract `MembershipLifecycle`, `GroupSharingProofs`, `RowSourceProofs`, `MembershipProofs` | services and jobs | done |
| 2 | `ProcessExecutor`, abstract `ProcessRun`, `ProcessExecutorProofs`, `ProcessBranchProofs` | | done |
| 3 | `SharingRules`, a library of what saving and deleting rules and classes does to rows and registry | | done |
| 4 | `Environment`, `EnvironmentProofs` | SharingRules with the cache, scheduled tasks, transactions, deployments, record saves, restarts | done |
| 5 | `RecordTable` | table, data source and search panel | done |
| 6 | `RecordLookup`, abstract `ReferenceField`, `RecordLookupProofs`, `RecordPageProofs` | RecordTable with the lookup field | done |
| 7 | the job flag that all environments share; the SQL membership queries against the closure they stand for | GroupSharing | open |
| 8 | triggers and unique checks in the registry; whom a rule shares with | Environment, GroupSharing | open |

Every safety property that a passing run checks has a theorem; those of the open modules
are still to come. Theorem still open for the built ones: that the subgroup property holds
for the groups that a nesting reaches when several subgroups have one parent but no users
in common (section 5 says why more is not true).

## 3. Modules

### GroupSharing

State: the four tables as sets of records (`groups`, `ugas`, `grss`, `urss`), the two KID
sequences, and per scheduler thread the program counter and the data its run holds in
memory (`alist` the loaded memberships, `acur` the one in work, `atodo` the rows of the
current loop that are still to be written, `acopy` the sharings still to be copied;
`rlist`, `rcur` for the remover). `applying` and `removing` are the static
`inProgressSince` fields.

| Action | Code |
|---|---|
| `ShareRecord`, `UnshareRecord` | `SharingService.shareRecord`, `unshareRecord`, `unshareRecordWithAllUsers` |
| `ShareRecordWithGroup`, `UnshareRecordWithGroup` | the methods of these names, with `propagateGroupSharing` and `deleteGroupSharings` |
| `Assign` | `UserGroupService.assignUserToGroup`, `assignGroupToGroup` |
| `UnassignUserFromGroup`, `UnassignGroupFromGroup`, `DeferUnassignGroup` | `unassignUserFromGroup`; `unassignUserGroupFromGroup` with `isDeterred` false, true |
| `DeleteUserGroupAssignment` | `UserGroupController.unassignGroupMember` |
| `DeleteGroup` | `UserGroupService.delete` with the database's cascades |
| `Applier...` | `UgaApplierJob.execute` and `batchPropagatePendingUserGroupSharings`, step by step |
| `Remover...` | `UgaRemoverJob.execute`, step by step |
| `Restart` | the server stops and starts; `scheduleUgaApplier` and `scheduleUgaRemover` register the jobs again |

Abstractions.
- A service call is `@Transactional`, and one action. The jobs are not transactional: each
  of their saves is an action, and so is each read of a hierarchy together with the
  sharings found from it (the code issues several queries).
- A hierarchy path is the set of the ids it holds. The code joins them with `;` and reads
  them with `LIKE '%id%'` only, except in the lookup of an upsert, where lists with the
  same ids have the same order on an acyclic graph walked one way.
- The walks through group memberships are sets of chains of memberships; on an acyclic
  graph these are the paths the recursion takes. `Seeds` leaves open which of several
  paths to a group the applier keeps, since the code keeps the one a `HashMap` returned
  last. `EdgesAbove` reproduces that all paths above a group share one list object; when
  walks from two memberships of a user merge it may hold more ids than the list.
- `edit` stands for the permissions of a sharing. Reason, sharing rule and access type are
  left out: no query of these operations filters by them except an optional reason.
- `copy` marks sharings made by `propagateGroupSharingsToGroup`; properties read it, the
  actions do not.
- Deleting a missing row has no effect, and saving one writes nothing (an UPDATE of no
  rows). A save writes the columns that were loaded or set: a membership's flags are not
  loaded by `UserGroupAssignmentDao.get`, so a save changes the one flag it sets.
- Left out: `deleteSharing` by id, group renames, `isApplyImmediately` (only tests pass
  true).

### MembershipLifecycle

What the service promises about a membership: created pending, applied at most once,
ended at any time, back only by a new assignment. `GroupSharing` implements it under the
mapping `pending` = pairs of pending rows, `applied` = pairs of the other rows
(`MembershipsFollowLifecycle`). It would fail if a job that still holds an ended
membership could write it back.

### MCGroupSharing

Model values and the nestings: none, one level, a chain of three groups, a group with two
parents, two groups with one parent.

### GroupSharingProofs, RowSourceProofs, MembershipProofs

The proofs, section 5.

### ProcessExecutor

`EnvData.getProcessExecutor` keeps one prepared executor per process, and every save of a
record that triggers the process executes it. Its fields are the state: `process` (with the
maps of `prepare`), `results` (`actionExecutionResults`, reduced to which execution
recorded them) and `blocked` (`blockedInvocations`, one element per waiting input). The
locals of an execution are functions over `Executions`: `starts`, `stack` (the frames of
the recursive `executeUntilBlocked`), `resume` (`invocationsToResume`), `current`. `calls`
says which executions a thread is in. `ran` and `waited` are history.

| Action | Code |
|---|---|
| `Execute` | the call of `execute` with `cleanExecutionData`; from outside, or from an action that saves |
| `EnterProcess`, `RejectRecord` | `executeEntryPoint` |
| `StartAt` | the loop over `startingPoints` |
| `FollowReady`, `FollowBlocked`, `BlockedByItself`, `BranchEnd` | `executeUntilBlocked` for actions and subprocesses |
| `FollowCondition` | the same for an If, with `executeIfAction` and `evaluateREL` |
| `CompleteInvocation` | `executeInvocation` after the action has returned |
| `Fail` | an exception of the entry point, an action, or a condition |
| `ReleaseBlocked`, `Resume`, `GiveUp`, `Return` | the loop that resumes, `getProcessOutput` |

Abstractions.
- What the execution of an action does is between `Invoke` and `CompleteInvocation`; in
  between, a nested execution may use the executor (`process.saves`).
- An input is the set of the invocations with an assignment to it. Inputs from the process
  or from attributes need no invocation; a failure to find them is one of `Fail`'s.
- The order of the transitions that leave one invocation is the order of rows of a query,
  and is left open.
- A FieldUpdate records no result. FieldValue, a code action and a subprocess do; the
  subprocess has an executor of its own and is one invocation here.
- `ProcessAssumption` states what `BusinessProcessService.validateNonDraftProcess` and the
  process's action types guarantee: an entry point without incoming transitions, whose
  kind is not If, starting points without inputs from other invocations. An If as another
  starting point would be called as a code action, and is left out.
- Processes are acyclic in the runs, not in the proofs: saving a cyclic one does not
  return (`initActualDataTypeOnInvocation` recurses along the inputs).

### ProcessRun

What the executor promises, whatever the graph: executions come one after the other and
share no results; an invocation is performed only when each of its inputs has a value.
`ProcessExecutor` implements it with `performed` = the keys of `results` and `open` = some
execution is going on (`ExecutesProcessRun`). It fails if an execution keeps results of
the one before, or calls an action with part of its inputs.

### MCProcessExecutor

Families of processes over an entry point and three invocations: which of them follow
which, which inputs wait for which, and one of three kinds for the middle one; one whose
action waits for itself and that has more starting points; and the two processes of the
violations.

### ProcessExecutorProofs, ProcessBranchProofs

The proofs, section 5.

### SharingRules

A library of operators, without variables: what the calls of `SharingRuleService` and
`ClassService` make of a database (`code`, `rules`, `recs`, `shared`, `tasks`) and of the
registry in `EnvData` (`reg` for `sharingRulesByType`, `deps` for
`dependentSharingRulesByType`). A call that may throw half-way has a set of results, each
with the rows and the registry it leaves and whether it succeeded.

| Operator | Code |
|---|---|
| `Loaded`, `Refreshed`, `Unregistered`, `WithDependents` | `registerSharingRule`, `refreshSharingRulesForType`, `unregisterSharingRule`, the end of `handleSharingRuleDeclarations` |
| `DeleteRulesResults` | `SharingRuleService.delete`, with "Invalid state: rule was not registered" |
| `WithRules`, `WithBrokenRules` | `SharingRuleService.save`, when `recalculateSharing` returns and when it throws |
| `DeclareRulesResults`, `SaveClassResults`, `DeleteClassResults` | `handleSharingRuleDeclarations`, `fullSave`, `ClassService.delete` |

Abstractions. Whom a rule shares with is left out, and with it the rows in the tables of
GroupSharing: a sharing is a rule and a record. The code of a class is the set of rules it
declares. A rule is saved with the number of the transaction, so that a new version is
another row, as its id is in the code.

### Environment

State: `db` the committed rows, `cached` and `mem` the environment in `EnvService.envs` and
its registry, `jobs` those of Quartz (a `RAMJobStore`), `tx` the open transaction with its
own view of the rows, `save` a record being saved next to it.

| Action | Code |
|---|---|
| `LoadEnv`, `ClearCache`, `ResetEnv`, `Restart` | `EnvService.get` on a miss, `clear` from the set-up page, `resetEnv` in a failed deployment; the server |
| `Begin` | a service call from a controller, `deployZip`, `deactivateLibrary` |
| `SaveClass`, `DeleteClass` | `ClassService.fullSave`, `delete`, also as items of a package |
| `ScheduleTask`, `UnscheduleTask` | `ScheduledTaskService.schedule` (with the `unschedule` before it in `ScheduledTaskController.save`), `unschedule` |
| `Commit`, `AbandonDeployment`, `RollBack` | the end of a transaction: see below |
| `CleanUpFailedDeployment` | the method of this name, with the rollback that follows |
| `BeginRecordSave`, `CommitRecordSave` | `DataService.save`: `recalculateSharingForType`, `recalculateDependentSharingForType` |

What ends a transaction. `KommetException` is a checked exception, and Spring's annotations
name only `FailedPackageDeploymentException` and `LibraryDeactivationException` in
`rollbackFor`: every other `KommetException` commits what was done before it. `Commit`
therefore also follows a call that failed, `AbandonDeployment` a package with an item that
cannot be parsed (`DeploymentException`), and `RollBack` a runtime exception, which may
come at any point, or a failed deactivation.

Abstractions and bounds. One such transaction and one record save at a time (two class
saves at once overwrite each other's refresh of the registry: not modelled). The cache is
not cleared by hand while a transaction is open. A request reads the registry and
recalculates in one action. Row locks: a save that refers to an uncommitted rule fails,
one that refers to a deleted rule waits (`BeginRecordSave`), a deletion of a rule waits for
a save that refers to it (`RulesAreFree`). A task that the scheduler has refused gets its
old id back when it is saved again.

The ghosts name the endings after which the code is known to leave memory and rows apart:
`tainted` (a call that failed and committed, or a rollback without reset, since the
environment was loaded), `orphaned` (a rollback since the server started), `halfDone` (a
failed class save that committed), `reloaded` (loaded while a failed deployment was being
cleaned up), `excused` (records whose save was open while rules were changing, or that were
saved with a registry that one of these endings had left wrong), `broken` (a committed rule
whose own first calculation threw in a call that was committed: `WithBrokenRules`). No guard
reads them. The properties say that nothing else does. In particular a failing call that
commits excuses no record: only the one rule that threw is excepted from `RecordsAreShared`,
every other rule keeps its sharings. A task that a deployment refuses is put on the clean-up list
or not (`listed` in `LeaveTask`): `DeploymentProcess` returns before `addScheduledTask` for
`ALWAYS_REJECT` and for a missing class. Saving and deleting a class may throw before its
rules are touched (`Refused`) and after them.

### RecordTable

The tables that exist over one criteria object (`jcr`), each with its page, page count,
footer, highlighted page and rows; `posts` the queries in flight, with the copy of the
criteria they carry; `store` the records. `Serve` (the server reads the database) and
`Deliver` (the callback runs) take any query, so answers overtake each other; a lost one is
a query that is never taken.

| Action | Code |
|---|---|
| `RenderTable` | `km.table.create`, `render` |
| `ClickPage`, `PrevPage`, `NextPage` | the footer's links, `goToPage`, `prevPage`, `nextPage`, `update` |
| `SortColumn` | the header's sort button, `sort` |
| `FilterColumn`, `ClearFilter` | keyup in a column filter, `addRestriction`, `removeRestrictions` |
| `Search` | the search panel's `search` |
| `Deliver` | the callbacks of `render`, `update`, `sort`: `renderRows`, `rerenderFooter`, `updatePaginationDisplay` |
| `ChangeStore` | another user inserts or deletes a record |

Abstractions. A page is the set of its rows; without an ordering the database may return
any of the matching records. A restriction is a property and an argument with the set of
records that meet it. The server matches, orders and cuts (`JCR.getQuery`), lists the rows
and counts the matches with a second query (`JSDSController.query` 219 and 271); `Serve` does
both at once, and no property compares the rows with the count. `addRestriction` throws at a
column of numbers or Booleans when the filter names no operator (`km.table.js` 1667-1695):
such columns are not in `FilterProps`. The criteria come with a list of restrictions (without one
`removeRestrictions` would throw). Grouping, wait mode, columns, export and `setPageSize`,
which nothing calls, are left out. `Sublist` is the loop that copies the items to keep to a
new array; the code has it for each such list. The ghosts `asked`, `shown`, `ask`, `kind` and
`tangled` say which query a view answers; `rash` marks a page that was chosen by a number of
pages other than that of the last answer: a click while answers are on their way, or a link
of a footer that was not redrawn.

### RecordLookup and ReferenceField

`RecordLookup` extends `RecordTable` with the field: `value` (`selectedRecordId` and the
hidden input), `name` (the visible input), the dialog, and the queries for a name. A dialog
covers the page, so the field is used only when none is open; a click while a list is still
loading opens a second one. `ReferenceField` is what the field promises the form: what it
submits was picked from a list that was offered, picking takes the old name away, and a
name is shown only if it was asked for. `RecordLookup` implements it with `offered` = the
rows on the screen (`ImplementsReferenceField`).

### MCEnvironment, MCRecordLookup, MCRecordTable

Values of the constants: one class with two rules, one of which also depends on its own
type, and one task; two records on pages of one; a panel with two properties.

### EnvironmentProofs, RecordLookupProofs, RecordPageProofs

The proofs, section 5.

## 4. Runs

| Run | Specification | Result | Distinct states |
|---|---|---|---|
| `group_sharing_jobs` | `Spec`: calls, one applier, one remover, one fault, all interleaved | pass | 451,670 |
| `group_sharing_quiet` | `QuietSpec`: calls between job runs only, direct grants, one fault | pass | 119,970 |
| `group_sharing_live` | `FairSpec`: calls, one applier, one fault | pass | 112,564 |
| `member_leaves` | `QuietSpec`, one user of two groups, no faults | violation | |
| `late_insert_race` | `Spec`, one user and one group, no faults | violation | |
| `three_level_chain` | `QuietSpec`, three nested groups, no faults, no remover | violation | |
| `process_executions` | `FairSpec`: every process of the families, two executions in a row, failures anywhere | pass | 79,207 |
| `released_branch` | `Spec`, one process, one execution | violation | |
| `nested_execution` | `Spec`, one process, two executions | violation | |
| `record_lookup` | `Spec`: a lookup, two tables at most, every order of answers, others change records | pass | 588,578 |
| `environment` | `Spec`: three transactions, two record saves, one cleared cache or restart | pass | 7,328,281 |
| `stale_search_restriction` | `TableSpec`, two searches over a panel of two properties | violation | |

Bounds. One user, one record and two groups, one of which may be nested in the other, are
the least that has a direct member, a member through a subgroup, a subgroup and a copy.
`MaxUga` = 2 memberships ever created: the member and the nesting, or the member twice (it
leaves and comes back while a run holds the first membership). `MaxGrs` = 2 lets calls
create one sharing; copies come on top. One fault is one failing run or one restart.
`BatchLimit` = 1 makes the remover need several batches. Deadlock is checked everywhere.

For the executor two executions are the least in which one leaves something behind for
the other. Four invocations are enough for a fork, a join, an invocation that waits for a
later one, and a chain of two that wait, with the entry point; no process of
the families saves a triggering record, as `nested_execution` shows what happens then.
`Finished` lets the model stop when all executions are over.

For `record_lookup` three clicks are the least that opens a list, goes on in it and picks,
or opens two lists and picks from one; two records on pages of one give two pages, and the
second `TableIds` a table that is rendered while another is shown. For `environment` three
transactions are the least that saves a class, changes it and fails; a package has two
items, a class and a task; two record saves share a record of the rule's type and one of a
type it depends on. Deadlock is not checked in these three: the bounds stop the user.
The theorems of section 5 have no bounds.

Fairness. `FairSpec` and `QuietSpec` assume weak fairness of each job: the cron triggers
fire every minute and a started run continues (`UserGroupService` 203-205, 227-229).
Failing runs are not fair and bounded by `MaxFaults`: with unboundedly many, nothing is
ever applied. `PendingIsApplied` needs no quiet server; `MarkedIsRemoved` is checked on
one, because the remover works until a count of rows is zero and calls that keep
inserting rows through the membership keep it going. In `ProcessExecutor`, a thread that is
in an execution goes on with it (weak fairness of `Step`); neither calls nor failures are
fair. `ExecutionsEnd` then says that the `while (true)` that resumes invocations makes
progress in each round. In `RecordLookup`, `NameAnswered` is weakly fair: the callback of a
query runs (jQuery's `$.post`) unless the query is lost, which is an action of its own.
Nothing else is fair. `Environment` states no liveness: nothing retries there.

What the violations show (details in `PROJECT.json`, findings).
- `member_leaves`: rows for all groups of a user are attributed to the membership being
  applied, so a user who leaves one of two groups keeps its records.
- `late_insert_race`: a row inserted after the deletion of its sharing stays for ever.
- `three_level_chain`: the walk upwards returns the last level only, so a member of the
  lowest of three groups never sees what is shared with the middle one.
- `released_branch`: an invocation that waited is executed when its inputs are there, but
  the call that follows its transitions is commented out; the process returns with the
  rest of the branch left out.
- `nested_execution`: an action that saves a record triggering its own process executes the
  same cached executor, and the outer execution goes on with the results of the inner one.
- `stale_search_restriction`: the search panel removes its restrictions from the list by
  index while it walks it, and steps over the one behind a removed one; a search for two
  properties and then for other values combines old and new values.

Met while modelling and not given runs of their own: the paths of all groups above a group
are one list object (`UserGroupService` 427), so the row that comes through one parent of a
group names the membership in the other parent, and is deleted with it (the configuration of
`three_level_chain` with `Nesting <- TwoParents` finds it); a user of two subgroups of one
group has one row per sharing of it, through one of the two, and loses it when that subgroup
leaves, even if the other stays (with `TwoChildren` and `MaxUga = 4`); a permission revoked on a group
sharing stays on rows that have another path; removing a member on the group page deletes
the membership and leaves its rows; copies made for a nested group survive the end of the
nesting; `get-user-groups.sql` returns direct groups and their parents only, while
`getGroupsForUser` is documented to return all. In the executor: a condition that lacks an
input is evaluated as false, because the result that says so is dropped; an input with
several sources lets an invocation run as soon as one of them has run, but once it waits,
it waits for all; an invocation behind a join runs once per branch that reaches it; what an
execution that failed left waiting may run in the next one, on a branch that one does not
take; `processInputValues` is null on an executor that `EnvData` has prepared, so an
assignment from a process input to an invocation other than the entry point fails there.

In the environment, each visible as a ghost above: a class save that fails behind its rules
commits (the old rules are gone, the code stays old); a new class whose revert throws
"Invalid state" remains; a scheduled task edited with an invalid cron expression is deleted,
because `schedule` deletes what it calls the inserted task; an edited task that is refused
at once has lost its job; a failed deactivation rolls back rows but neither the registry nor
the jobs; a malformed item commits half a package; the clean-up of a failed deployment
removes a job that another request has just re-created for the old version of the task; a
record inserted while a class is saved may remain unshared.

In the browser: a late answer to a query for a name is shown over another selection or an
empty field; a table that finishes rendering after a pick opens the dialog again; clearing
a filter keeps the page; a sort does not redraw the footer, so that after a sort that counts
fewer pages a link of the old footer leads to a page that does not exist; after a deletion a
table can be on a page that has no rows and no link, and its footer marks none; the filter of a column
overwrites the argument of a search restriction on the same property.

## 5. Proofs

`GroupSharingProofs` proves for all values of the constants that satisfy
`SharingAssumption` (users and groups are disjoint, numbers are naturals), so for any
number of users, groups, memberships, sharings, appliers, removers and faults:

- `TypeCorrect`: `Spec => []TypeOK`. The invariant adds `CurrentOK`: inside its loops a
  run holds a membership of a user, or of a group, as its program counter says.
- `AppliedMembersAreServed`: `Spec => []AppliedMembersSeeGroupRecords`. The property is
  not inductive: the step that marks a membership as applied says nothing of rows. The
  inductive invariant `IInv` adds
  - `IdsOK`: ids are unique and below their sequences;
  - `LoadedOK`: a membership in memory is not one assigned later, and agrees with its
    row as long as that exists;
  - `InHandOK`: once the second query has run, each sharing of the group has its row, or
    the row is still in `atodo`. Sharings created after the query are served by
    `ShareRecordWithGroup` itself, which includes pending members: this is what makes the
    unlocked read safe, and the mutant that propagates to applied members only breaks it.
  Each action is a lemma; steps outside the applier's loops go through `Frame`.

The theorem covers several appliers at once, so the unlocked test of `inProgressSince`
does no harm to this property.

`RowSourceProofs` continues from that invariant:

- `RowsMatchTheirSources` (`PropagatedRowsMatchTheirSources`). `SourceInv` says of every row,
  written or still in `atodo`, and of every copy in `acopy`, that its identifiers were issued
  and that it agrees with what is left of the sharing and the membership they name. A source
  may be gone when the row is written; what keeps the row right is that no other sharing or
  membership ever gets its identifier (`SourcesKept`).
- `GrantsAreLeftAlone` (`GroupsLeaveGrantsAlone`). `GrantInv`: a directly granted row has no
  path, so no deletion by path hits it, and what a run has in memory is never generic, so
  none of its upserts does.
- `QuietRowsNameLiveSources` (`PropagatedRowsNameLiveSources`) for `QuietSpec` and
  `Calls \subseteq {"grant"}`, the conditions of the run. `LiveInv`: sources stay while jobs
  run, between runs nothing is in memory, and only memberships of groups are ever marked, so
  the remover deletes no membership that rows name.

`MembershipProofs` shows that `GroupSharing` implements `MembershipLifecycle`
(`MembershipsLive`). The refinement needs that a pair has at most one row (`PairsUnique`, the
unique check) and that the save of the applier goes by identifier (`IdsOK`): the row it
applies is pending, already applied, or gone, and then nothing is written.

It also proves `AppliedSubgroupsAreServed` (`AppliedSubgroupsSeeParentRecords`) for `Spec`,
with any number of groups, users, appliers, removers and faults, under `NestingsApart`: no
group takes part in two nestings. The condition is what the code can do: with three levels
the middle one is skipped (`three_level_chain`), with two parents one ending membership
takes the rows of the other, and with two subgroups of one parent a common
user has the row through one of them only (`TwoParents` and `TwoChildren`, section 4). The
property says nothing of
a membership that is pending, and the run that applies it reads in several steps, so
`SubInv` follows both memberships from the start:
  - `GraphOK`: only the given pairs are nested, each by one membership at a time, so there
    is one way up from a group;
  - `MarkedOK`: what the remover works on is marked, and a mark is never taken back;
  - `SubServed`: for a member, a nesting that is not marked, and a sharing of the parent, the
    row is there, or of the two memberships the one assigned later is still pending: the run
    that applies it finds the other one;
  - `SubInHand`: while that run works, the row is there or still in `atodo`, or the sharing
    is still in `acopy`.
The row meant names the membership of the user and has at most the two memberships in its
path, so that no call deletes it while both stay. A sharing made meanwhile is propagated by
`ShareRecordWithGroup` itself, through pending memberships too.

`ProcessExecutorProofs` proves for every set of processes that satisfies
`ProcessAssumption`, so for every graph, any number of invocations and executions:

- `TypeCorrect`: `Spec => []TypeOK`, with any number of threads and any nesting.
- Under `Sequential` (one thread, and no process has an action that saves a triggering
  record), the condition that `nested_execution` shows to be needed:
  `OwnResultsOfSequentialExecutions` (`OwnResults`), `NothingWaitingIsForgotten`
  (`WaitingInvocationsRun`), and `ImplementsProcessRun` (`ExecutesProcessRun`).

The inductive invariant `IInv` adds to the types
  - `AloneInv`: an active execution is the only one that its thread is in, so at most one is
    active; `Sequential` gives this, and the rest needs it;
  - `StartsInv`: only starting points are started, which have no inputs to wait for;
  - `OwnInv`: once past the entry point, what is recorded was recorded by this execution,
    each completed action is recorded, what waited has run or is still blocked, and an
    invocation that is being called has its inputs.
`WaitingInvocationsRun` follows at `Return`, whose guard is that `blocked` is empty.

`ProcessBranchProofs` proves `BranchesAreFollowed` (`BranchesRunToTheEnd`) with any threads
and nesting, without `Sequential`: the frames and the invocation in hand are locals of an
execution. `BranchInv`: as long as nothing had to wait, what follows an invocation that has
run has run too, is in a frame, or is being called.

`EnvironmentProofs` proves the type invariant and the five properties of `environment` for
any classes, rules, types, tasks, records and bounds, from the assumptions of
`SharingRules` and `Environment` on their constants: `TypeCorrect`, `RegistryIsRight`,
`TasksHaveJobs`, `NoOrphanedJobs`, `CodeAndRulesAgree`, `RecordsGetTheirSharings`. The
properties speak of the moments between transactions; `IInv` says what holds inside one:
  - `TxInv`: a transaction at work has the environment in the cache, one that is cleaning
    up has it there only if it was loaded again, and both views have the same records;
  - `RegistryInv`, `TasksInv`: until something fails, registry and jobs are those of the
    rows that the transaction sees, otherwise those of the committed ones;
  - `JobsInv`: a job without a committed task belongs to the open transaction, and in a
    deployment it is on the clean-up list;
  - `CodeInv`: code and rules agree in both views;
  - `SharedInv`: in each view every record is shared by every rule, but for `excused` records
    and the `broken` rules of that view, also after calls that failed, and a save in
    progress carries the sharings its record lacks (`BrokenRulesShared`: what a failed
    calculation leaves behind is shared by all rules but its own).
Each operator of `SharingRules` has lemmas about what its results keep; each action is a
lemma per part of `IInv`.

`RecordLookupProofs` proves, for any records, page size, search panel, filters and number
of tables: `ScreenIsRight` (`ScreenAgreesWithCriteria`), `NameIsRight`
(`QuietNameIsTheSelections`) and `LookupRefinesField` (`ImplementsReferenceField`). `IInv`:
  - `RowsInv`: what is shown or on its way are records that are or were there;
  - `NumbersInv`: no query has a number above the last one sent, so that a view that shows
    the last answer is told apart from every other;
  - `ScreenInv`: a table is on the screen, or is being rendered by exactly one query;
  - `AgreeInv`: unless a list was opened twice at once there is one table, whose last query
    carries the present criteria, and the footer drawn by a refresh has the pages counted and
    marks the current one if it is among them;
  - `FieldInv`: the name is that of the selection, or is still asked for, or is excused.

`RecordPageProofs` continues from that invariant: `TypeCorrect` (`TypeOK`, with the types of
the restrictions) and `SettledPagesExist` (`SettledPageExists`). Both rest on lemmas about
ranks: the rank of an element among a finite set is below its cardinality, grows with the
element, and every number below the cardinality is a rank (`RankBound`, `RankGrows`,
`RankExists`). From it `SublistItems`: a sublist has the items at the kept places and no
others; and `PageHasRecords`: a page that begins before the end of the result is not empty.
`PageInv` says, while nothing was deleted: a page chosen by the last answer begins before the
end of the present result, the answer to it counts that page, and the last answer counted no
more pages than there are. That
needs the filters and the search to go back to page 0, the insertions of others to keep what
matches, and `ClearFilter` to leave a list of restrictions that matches no less. The exception
`rash` came out of this proof: it found the link of a footer that a sort did not redraw.

Only model-checked: the liveness properties (`PendingIsApplied`, `MarkedIsRemoved`,
`ExecutionsEnd`, `SelectionGetsItsName`), which like ENABLED are out of the prover's reach.
Every safety property and refinement of the passing runs is proved, under the conditions
named here.
