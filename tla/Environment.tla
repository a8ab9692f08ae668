---------------------------- MODULE Environment ----------------------------
(***************************************************************************)
(* An environment: its database, its cache in the memory of the server     *)
(* (EnvService, EnvData), the jobs of the scheduler, the transaction that  *)
(* changes classes and scheduled tasks, a save of a record next to it, and *)
(* the restarts of the server.                                             *)
(*                                                                         *)
(* A transaction works on its own view of the database (tx.db), but what   *)
(* it does to the cache and to the scheduler is seen at once and is not    *)
(* undone with it.  KommetException is a checked exception: a call that    *)
(* throws it commits; only a failed deployment or deactivation             *)
(* (rollbackFor) and a runtime exception roll back.                        *)
(***************************************************************************)
EXTENDS SharingRules, Functions

CONSTANTS Tasks,       \* scheduled tasks, by id
          MaxItems,    \* bound: items of a package
          MaxSaves,    \* bound: saves of records
          MaxClears    \* bound: clearings of the cache and restarts

ASSUME TasksAssumption == Tasks \cap Classes = {}
ASSUME BoundsAssumption == MaxItems \in Nat /\ MaxSaves \in Nat /\ MaxClears \in Nat

VARIABLES db,       \* the committed database
          cached,   \* the environment is in EnvService.envs
          mem,      \* its registry of sharing rules
          jobs,     \* the jobs of the scheduler: task -> version of the task
          tx,       \* the transaction on classes and tasks
          save,     \* the transaction that saves a record
          txs, saves, clears,   \* counters
          tainted,  \* ghost: a call or a rollback left cache and rows apart
          orphaned, \* ghost: a rollback left jobs behind since the start
          halfDone, \* ghost: a class save failed and committed
          reloaded, \* ghost: the cache was filled before a failed deployment ended
          excused,  \* ghost: records saved across a change, or with a wrong registry
          broken    \* ghost: the rules whose first calculation threw

ghosts == <<tainted, orphaned, halfDone, reloaded, excused, broken>>
counters == <<txs, saves, clears>>
vars == <<db, cached, mem, jobs, tx, save, counters, ghosts>>

\* Tasks, each with the transaction that saved it.
TaskVersions == UNION {[K -> 0..MaxTx] : K \in SUBSET Tasks}
Database == [code : [Classes -> (SUBSET Methods) \cup {Absent}],
             rules : SUBSET Rule,
             tasks : TaskVersions,
             recs : SUBSET Records,
             shared : SUBSET Sharing]
Tx == [kind : {"call", "deploy", "deactivate"},
       db : Database,
       items : SUBSET (Classes \cup Tasks),
       cleanup : SUBSET Tasks,
       failed : BOOLEAN,
       broken : SUBSET Rule,
       phase : {"work", "cleanup"}]
NoTx == [kind |-> "none"]
RecordSave == [rec : Records, rows : SUBSET Sharing]
NoSave == [rec |-> "none", rows |-> {}]

TypeOK ==
  /\ db \in Database
  /\ cached \in BOOLEAN
  /\ mem \in Registry
  /\ jobs \in TaskVersions
  /\ tx \in Tx \cup {NoTx}
  /\ save \in RecordSave \cup {NoSave}
  /\ txs \in 0..MaxTx /\ saves \in 0..MaxSaves /\ clears \in 0..MaxClears
  /\ tainted \in BOOLEAN /\ orphaned \in BOOLEAN
  /\ halfDone \in BOOLEAN /\ reloaded \in BOOLEAN
  /\ excused \subseteq Records /\ broken \subseteq Rule

Without(f, k) == Restrict(f, DOMAIN f \ {k})
With(f, k, v) == [x \in DOMAIN f \cup {k} |-> IF x = k THEN v ELSE f[x]]

Init ==
  /\ db = [code |-> [c \in Classes |-> Absent], rules |-> {}, tasks |-> <<>>,
           recs |-> {}, shared |-> {}]
  /\ cached = FALSE
  /\ mem = Loaded({})
  /\ jobs = <<>>
  /\ tx = NoTx /\ save = NoSave
  /\ txs = 0 /\ saves = 0 /\ clears = 0
  /\ tainted = FALSE /\ orphaned = FALSE /\ halfDone = FALSE /\ reloaded = FALSE
  /\ excused = {} /\ broken = {}

----------------------------------------------------------------------------
(* The cache.                                                              *)

\* Mutant: the jobs are not made.
MutatedLoadEnv ==
  /\ ~cached
  /\ cached' = TRUE
  /\ mem' = Loaded(db.rules)
  /\ tainted' = FALSE
  /\ reloaded' = (tx # NoTx)
  /\ UNCHANGED <<db, jobs, tx, save, counters, orphaned, halfDone, excused,
                 broken>>

\* The first request: the rules are read and a job is made for every task.
\* Jobs of tasks that are gone stay.
LoadEnv ==
  /\ ~cached
  /\ cached' = TRUE
  /\ mem' = Loaded(db.rules)
  /\ jobs' = [k \in DOMAIN jobs \cup DOMAIN db.tasks |->
                IF k \in DOMAIN db.tasks THEN db.tasks[k] ELSE jobs[k]]
  /\ tainted' = FALSE
  /\ reloaded' = (tx # NoTx)
  /\ UNCHANGED <<db, tx, save, counters, orphaned, halfDone, excused,
                 broken>>

\* envs.remove: the registry goes with the environment.
Uncache == cached' = FALSE /\ mem' = Loaded({})

\* By hand, on the set-up page; bound: not while a transaction is open.
ClearCache ==
  /\ cached /\ tx = NoTx
  /\ clears < MaxClears /\ clears' = clears + 1
  /\ Uncache
  /\ UNCHANGED <<db, jobs, tx, save, txs, saves, ghosts>>

\* The server stops: the scheduler keeps its jobs in memory.
Restart ==
  /\ clears < MaxClears /\ clears' = clears + 1
  /\ Uncache /\ tainted' = FALSE
  /\ jobs' = <<>> /\ orphaned' = FALSE
  /\ tx' = NoTx /\ save' = NoSave
  /\ UNCHANGED <<db, txs, saves, halfDone, reloaded, excused, broken>>

----------------------------------------------------------------------------
(* Transactions on classes and tasks.                                      *)

Begin(kind) ==
  /\ cached /\ tx = NoTx
  /\ txs < MaxTx /\ txs' = txs + 1
  /\ tx' = [kind |-> kind, db |-> db, items |-> {}, cleanup |-> {},
            failed |-> FALSE, broken |-> {}, phase |-> "work"]
  /\ UNCHANGED <<db, cached, mem, jobs, save, saves, clears, ghosts>>

\* The next item of the transaction is i: a call has one, a package has its
\* classes before its tasks, a deactivation deletes its classes last.
Handles(i, kinds) ==
  /\ tx.kind \in kinds
  /\ tx.phase = "work"
  /\ i \notin tx.items
  /\ Cardinality(tx.items) < (IF tx.kind = "call" THEN 1 ELSE MaxItems)
  /\ tx.kind = "deploy" /\ i \in Classes => tx.items \cap Tasks = {}
  /\ tx.kind = "deactivate" /\ i \in Tasks => tx.items \cap Classes = {}

\* A save that writes sharings of a rule keeps the rule from being deleted.
RulesAreFree(c) == \A s \in save.rows : s.rule \notin RulesOf(tx.db, c)

\* Mutant: a class is put on the list of tasks to clean up.
MutatedLeaveRules(c, x) ==
  /\ RulesAreFree(c)
  /\ mem' = x.mem
  /\ tx' = [tx EXCEPT !.db = x.db, !.items = @ \cup {c}, !.cleanup = @ \cup {c},
                      !.failed = @ \/ ~x.ok, !.broken = @ \cup x.broken]
  /\ excused' = excused \cup ({save.rec} \cap Records)
  /\ UNCHANGED <<db, cached, jobs, save, counters, tainted, orphaned, halfDone,
                 reloaded, broken>>

LeaveRules(c, x) ==
  /\ RulesAreFree(c)
  /\ mem' = x.mem
  /\ tx' = [tx EXCEPT !.db = x.db, !.items = @ \cup {c}, !.failed = @ \/ ~x.ok,
                      !.broken = @ \cup x.broken]
  /\ excused' = excused \cup ({save.rec} \cap Records)
  /\ UNCHANGED <<db, cached, jobs, save, counters, tainted, orphaned, halfDone,
                 reloaded, broken>>

SaveClass(c) ==
  /\ Handles(c, {"call", "deploy"})
  /\ \E methods \in SUBSET Methods :
       \E x \in SaveClassResults(mem, tx.db, c, methods, txs) : LeaveRules(c, x)

DeleteClass(c) ==
  /\ Handles(c, {"call", "deactivate"})
  /\ tx.db.code[c] # Absent
  /\ \E x \in DeleteClassResults(mem, tx.db, c) : LeaveRules(c, x)

\* A deployment lists a task it may have to clean up once it has called
\* schedule for it, and not when it rejects it before.
LeaveTask(k, tasks, newJobs, ok, listed) ==
  /\ jobs' = newJobs
  /\ tx' = [tx EXCEPT !.db.tasks = tasks, !.items = @ \cup {k},
                      !.cleanup = IF tx.kind = "deploy" /\ listed THEN @ \cup {k} ELSE @,
                      !.failed = @ \/ ~ok]
  /\ UNCHANGED <<db, cached, mem, save, counters, ghosts>>

\* schedule: the row, then the job in place of the one that is there.  It may
\* refuse the task at once; the task page has then unscheduled it already.
\* When the scheduler refuses it, the row is deleted, that of an old task as
\* well.
ScheduleTask(k) ==
  /\ Handles(k, {"call", "deploy"})
  /\ \/ LeaveTask(k, With(tx.db.tasks, k, txs), With(jobs, k, txs), TRUE, TRUE)
     \/ \E listed \in BOOLEAN :
          LeaveTask(k, tx.db.tasks, IF tx.kind = "call" THEN Without(jobs, k) ELSE jobs,
                    FALSE, listed)
     \/ LeaveTask(k, Without(tx.db.tasks, k), Without(jobs, k), FALSE, TRUE)

\* unschedule(task, true)
UnscheduleTask(k) ==
  /\ Handles(k, {"call", "deactivate"})
  /\ k \in DOMAIN tx.db.tasks
  /\ LeaveTask(k, Without(tx.db.tasks, k), Without(jobs, k), TRUE, FALSE)

----------------------------------------------------------------------------
(* The end of a transaction.                                               *)

TxCommitted ==
  /\ db' = tx.db
  /\ tx' = NoTx
  /\ tainted' = (tainted \/ tx.failed)
  /\ halfDone' = (halfDone \/ tx.failed)
  /\ broken' = (broken \cup tx.broken) \cap tx.db.rules
  /\ UNCHANGED <<cached, mem, jobs, save, counters, orphaned, reloaded, excused>>

\* Also the end of a call that threw: its exception is checked.
Commit ==
  /\ tx # NoTx /\ tx.phase = "work" /\ tx.items # {}
  /\ tx.kind = "call" \/ ~tx.failed
  /\ TxCommitted

\* A package with an item that cannot be parsed: the exception is checked and
\* not the one that rolls back.
AbandonDeployment ==
  /\ tx # NoTx /\ tx.kind = "deploy" /\ tx.phase = "work"
  /\ TxCommitted

\* A runtime exception, or the end of a failed deactivation.
RollBack ==
  /\ tx # NoTx /\ tx.phase = "work"
  /\ tx' = NoTx
  /\ tainted' = TRUE /\ orphaned' = TRUE
  /\ UNCHANGED <<db, cached, mem, jobs, save, counters, halfDone, reloaded, excused,
                 broken>>

\* Mutant: the environment stays in the cache.
MutatedResetEnv ==
  /\ tx # NoTx /\ tx.kind = "deploy" /\ tx.phase = "work" /\ tx.failed
  /\ tx' = [tx EXCEPT !.phase = "cleanup"]
  /\ UNCHANGED <<db, cached, mem, jobs, save, counters, ghosts>>

\* A deployment with a failed item takes the environment out of the cache ...
ResetEnv ==
  /\ tx # NoTx /\ tx.kind = "deploy" /\ tx.phase = "work" /\ tx.failed
  /\ Uncache
  /\ tx' = [tx EXCEPT !.phase = "cleanup"]
  /\ UNCHANGED <<db, jobs, save, counters, ghosts>>

\* Mutant: the jobs are left behind.
MutatedCleanUpFailedDeployment ==
  /\ tx # NoTx /\ tx.phase = "cleanup"
  /\ tx' = NoTx
  /\ UNCHANGED <<db, cached, mem, jobs, save, counters, ghosts>>

\* ... then removes the jobs it made, and is rolled back.
CleanUpFailedDeployment ==
  /\ tx # NoTx /\ tx.phase = "cleanup"
  /\ jobs' = Restrict(jobs, DOMAIN jobs \ tx.cleanup)
  /\ tx' = NoTx
  /\ UNCHANGED <<db, cached, mem, save, counters, ghosts>>

----------------------------------------------------------------------------
(* Saving a record.                                                        *)

\* A new record is shared by the rules of its type; then the rules that depend
\* on its type run again for all their records.
SharingsOf(r) ==
  LET seen == db.recs \cup {r}
      own == IF r \in db.recs THEN {} ELSE {x \in mem.reg : RefOf(x) = RecType[r]}
      dependent == IF RecType[r] \in DOMAIN mem.deps THEN mem.deps[RecType[r]] ELSE {}
  IN  [rule : own, rec : {r}] \cup
      {s \in [rule : dependent, rec : seen] : RecType[s.rec] = RefOf(s.rule)}

\* A rule that is not committed makes the save fail, one that a transaction
\* has deleted makes it wait.
BeginRecordSave(r) ==
  /\ cached /\ save = NoSave
  /\ saves < MaxSaves /\ saves' = saves + 1
  /\ \A s \in SharingsOf(r) :
       s.rule \in db.rules /\ (tx # NoTx => s.rule \in tx.db.rules)
  /\ save' = [rec |-> r, rows |-> SharingsOf(r)]
  /\ excused' = IF tainted \/ tx # NoTx THEN excused \cup {r} ELSE excused
  /\ UNCHANGED <<db, cached, mem, jobs, tx, txs, clears, tainted, orphaned,
                 halfDone, reloaded, broken>>

WithSave(d) ==
  [d EXCEPT !.recs = @ \cup {save.rec}, !.shared = @ \cup save.rows]

CommitRecordSave ==
  /\ save # NoSave
  /\ db' = WithSave(db)
  /\ tx' = IF tx = NoTx THEN NoTx ELSE [tx EXCEPT !.db = WithSave(@)]
  /\ save' = NoSave
  /\ UNCHANGED <<cached, mem, jobs, counters, ghosts>>

Next ==
  \/ LoadEnv \/ ClearCache \/ Restart
  \/ \E kind \in {"call", "deploy", "deactivate"} : Begin(kind)
  \/ tx # NoTx /\ \/ \E c \in Classes : SaveClass(c) \/ DeleteClass(c)
                  \/ \E k \in Tasks : ScheduleTask(k) \/ UnscheduleTask(k)
  \/ Commit \/ AbandonDeployment \/ RollBack \/ ResetEnv \/ CleanUpFailedDeployment
  \/ \E r \in Records : BeginRecordSave(r)
  \/ CommitRecordSave

Spec == Init /\ [][Next]_vars

----------------------------------------------------------------------------
(* Properties.                                                             *)

DescribesRules(m, d) ==
  /\ m.reg = d.rules
  /\ \A r \in d.rules : DepsOf(r) \subseteq DOMAIN m.deps
  /\ \A t \in DOMAIN m.deps : m.deps[t] = {r \in d.rules : t \in DepsOf(r)}

HaveJobs(tasks, j) == \A k \in DOMAIN tasks : k \in DOMAIN j /\ j[k] = tasks[k]

CodeHasItsRules(d) ==
  \A c \in Classes :
    /\ d.code[c] = Absent => RulesOf(d, c) = {}
    /\ d.code[c] # Absent => {r.method : r \in RulesOf(d, c)} = d.code[c]

AreShared(recs, rules, shared) ==
  \A x \in recs, r \in rules :
    RecType[x] = RefOf(r) => [rule |-> r, rec |-> x] \in shared

\* Between transactions the registry of a cached environment holds exactly the
\* committed rules, each under its type and under every type it depends on,
\* unless a call failed or was rolled back since the environment was loaded.
\* Deployments that fail are no exception (ClassService, EnvData, ResetEnv).
RegistryDescribesRules == cached /\ tx = NoTx /\ ~tainted => DescribesRules(mem, db)

\* Between transactions every task of a cached environment has the job of its
\* present version, unless a call failed or was rolled back since it was
\* loaded, or it was loaded before a failed deployment had cleaned up.
TasksAreScheduled ==
  cached /\ tx = NoTx /\ ~tainted /\ ~reloaded => HaveJobs(db.tasks, jobs)

\* Between transactions no job runs a task that does not exist, unless a
\* transaction was rolled back since the server started: what a failed
\* deployment scheduled is removed (schedule, cleanUpFailedDeployment).
JobsHaveTasks ==
  tx = NoTx /\ ~orphaned => DOMAIN jobs \subseteq DOMAIN db.tasks

\* The committed rules of a class are those its committed code declares, unless
\* the save or the deletion of a class failed and was committed: deployments
\* and rollbacks keep code and rules together (fullSave, delete).
ClassesHaveTheirRules == ~halfDone => CodeHasItsRules(db)

\* Every record is shared by every rule of its type, whether the rule or the
\* record came first and whatever failed or was reloaded in between.  Two
\* exceptions: records saved while a transaction on the rules was open or while
\* the registry was wrong (excused), and the one rule whose own first
\* calculation threw in a class save that was committed all the same (broken):
\* such a save leaves the sharings of all other rules complete
\* (recalculateSharing, recalculateSharingForType, initSharingRules).
RecordsAreShared ==
  tx = NoTx => AreShared(db.recs \ excused, db.rules \ broken, db.shared)

=============================================================================
