-------------------------- MODULE ProcessExecutor --------------------------
(***************************************************************************)
(* BusinessProcessExecutor: executes the invocations of a process along    *)
(* its transitions, puts aside those whose inputs are not there yet, and   *)
(* resumes them afterwards.                                                *)
(*                                                                         *)
(* An environment caches one executor per process (EnvData), prepared      *)
(* once; every save of a record that triggers the process executes it. Its *)
(* fields are the shared state here: process, results, blocked. A thread   *)
(* executes several times in nested fashion when an action of the process  *)
(* itself saves a record that triggers it.                                 *)
(***************************************************************************)
EXTENDS Naturals, Sequences, FiniteSets

CONSTANTS
    Invocations,
    Executions, \* bound: calls of execute()
    Threads,
    Processes   \* the processes of the instance

(* A process, as prepare() leaves it.                                      *)
(*   transitions  pairs <<previous action, next action>>                   *)
(*   kind         an action (or subprocess), whose outputs are recorded; a *)
(*                FieldUpdate, which has none; an If                       *)
(*   inputs       per invocation a set of inputs, each given as the set of *)
(*                invocations that have an assignment to it; for an If the *)
(*                singletons of the invocations its condition requires.    *)
(*                Inputs from the process or from attributes need no other *)
(*                invocation and are left out                              *)
(*   outputs      the source invocations of the process outputs            *)
(*   saves        invocations whose action saves a record that triggers    *)
(*                the process                                              *)
ProcessType ==
    [transitions : SUBSET (Invocations \X Invocations),
     kind : [Invocations -> {"action", "update", "if"}],
     inputs : [Invocations -> SUBSET SUBSET Invocations],
     onTrue : [Invocations -> SUBSET Invocations],
     onFalse : [Invocations -> SUBSET Invocations],
     entry : Invocations,
     outputs : SUBSET Invocations,
     saves : SUBSET Invocations]

Predecessors(p, i) == {h \in Invocations : <<h, i>> \in p.transitions}

(* A saved process has one entry point, a standard action without incoming *)
(* transitions; inputs of starting actions come from the process or from   *)
(* attributes (validateNonDraftProcess). An If and a FieldUpdate have no   *)
(* outputs.                                                                *)
ASSUME ProcessAssumption ==
    /\ Processes \subseteq ProcessType
    /\ \A p \in Processes :
        /\ Predecessors(p, p.entry) = {} /\ p.kind[p.entry] = "action"
        /\ \A i \in Invocations : Predecessors(p, i) = {} =>
               p.inputs[i] = {} /\ p.kind[i] # "if"
        /\ \A i \in Invocations : \A sources \in p.inputs[i] :
               sources # {} /\ \A s \in sources : p.kind[s] = "action"

VARIABLES
    process,    \* field process, with the maps prepare() fills
    results,    \* field actionExecutionResults: for each invocation that has
                \* outputs, the execution that recorded them
    blocked,    \* field blockedInvocations: one element per waiting input
    calls,      \* per thread the executions it is in, the innermost first
    pc, outcome,
    starts,     \* starting points still to be executed
    stack,      \* frames of executeUntilBlocked: next actions still to follow
    resume,     \* invocationsToResume
    current,    \* the invocation whose action is being called
    ran, waited \* history: invocations completed, invocations put aside

fields == <<process, results, blocked>>
locals == <<pc, outcome, starts, stack, resume, current>>
vars == <<fields, calls, locals, ran, waited>>

NoResults == [i \in {} |-> i]
Waiting == [inv : Invocations, missing : SUBSET Invocations]

Init ==
    /\ process \in Processes
    /\ results = NoResults /\ blocked = {}
    /\ calls = [t \in Threads |-> <<>>]
    /\ pc = [x \in Executions |-> "idle"]
    /\ outcome = [x \in Executions |-> "none"]
    /\ starts = [x \in Executions |-> {}]
    /\ stack = [x \in Executions |-> <<>>]
    /\ resume = [x \in Executions |-> {}]
    /\ current = [x \in Executions |-> process.entry]
    /\ ran = [x \in Executions |-> {}]
    /\ waited = [x \in Executions |-> {}]

-----------------------------------------------------------------------------
Successors(i) == {n \in Invocations : <<i, n>> \in process.transitions}
StartingPoints == {i \in Invocations : Predecessors(process, i) = {}}

Executed == DOMAIN results

\* Mutant: one input that is there is enough.
MutatedUnready(i) ==
    {sources \in process.inputs[i] :
        \A other \in process.inputs[i] : other \cap Executed = {}}

\* The inputs of an invocation that none of their sources has provided yet.
Unready(i) == {sources \in process.inputs[i] : sources \cap Executed = {}}

\* Execution x is at p and is the innermost one of its thread.
At(x, p) ==
    /\ pc[x] = p
    /\ \E t \in Threads : calls[t] # <<>> /\ Head(calls[t]) = x

Leave(x, result) ==
    /\ pc' = [pc EXCEPT ![x] = "done"]
    /\ outcome' = [outcome EXCEPT ![x] = result]
    /\ calls' = [t \in Threads |->
           IF calls[t] # <<>> /\ Head(calls[t]) = x THEN Tail(calls[t]) ELSE calls[t]]

-----------------------------------------------------------------------------
(* The call, and the entry point.                                          *)

\* Mutant: only what would fail the next execution is removed.
MutatedCleanedResults == [i \in Executed \ {process.entry} |-> results[i]]

\* cleanExecutionData
CleanedResults == NoResults

\* A thread calls the executor from outside, or from an action that saves.
MayCall(t) ==
    \/ calls[t] = <<>>
    \/ /\ calls[t] # <<>> /\ pc[Head(calls[t])] = "invoking"
       /\ current[Head(calls[t])] \in process.saves

Execute(t, x) ==
    /\ pc[x] = "idle" /\ MayCall(t)
    /\ calls' = [calls EXCEPT ![t] = <<x>> \o @]
    /\ results' = CleanedResults
    /\ pc' = [pc EXCEPT ![x] = "entry"]
    /\ UNCHANGED <<process, blocked, outcome, starts, stack, resume, current, ran, waited>>

\* Mutant: the key is stored as the value.
MutatedRecord(x, i) == [j \in Executed \cup {i} |-> IF j = i THEN i ELSE results[j]]

Record(x, i) == [j \in Executed \cup {i} |-> IF j = i THEN x ELSE results[j]]

EnterProcess(x) ==
    /\ At(x, "entry")
    /\ process.entry \notin Executed
    /\ results' = Record(x, process.entry)
    /\ pc' = [pc EXCEPT ![x] = "running"]
    /\ starts' = [starts EXCEPT ![x] = StartingPoints]
    /\ ran' = [ran EXCEPT ![x] = {process.entry}]
    /\ UNCHANGED <<process, blocked, calls, outcome, stack, resume, current, waited>>

\* The type of the record is not among the accepted ones.
RejectRecord(x) ==
    /\ At(x, "entry")
    /\ process.entry \notin Executed
    /\ Leave(x, "rejected")
    /\ UNCHANGED <<fields, starts, stack, resume, current, ran, waited>>

-----------------------------------------------------------------------------
(* executeInvocation: an invocation all of whose inputs are there is       *)
(* called; the outputs are recorded when the action has returned.          *)

\* Mutant: what has run stays blocked.
MutatedBlockedWithout(i) == blocked

\* blockedInvocations.remove
BlockedWithout(i) == {b \in blocked : b.inv # i}

Invoke(x, i) ==
    /\ pc' = [pc EXCEPT ![x] = "invoking"]
    /\ current' = [current EXCEPT ![x] = i]

\* The invocation is complete. Its transitions are followed unless it was
\* resumed.
CompleteInvocation(x) ==
    LET i == current[x]
    IN  /\ At(x, "invoking")
        /\ results' = IF process.kind[i] = "action" THEN Record(x, i) ELSE results
        /\ blocked' = BlockedWithout(i)
        /\ pc' = [pc EXCEPT ![x] = "running"]
        /\ ran' = [ran EXCEPT ![x] = @ \cup {i}]
        /\ IF i \in resume[x]
           THEN resume' = [resume EXCEPT ![x] = @ \ {i}] /\ UNCHANGED stack
           ELSE stack' = [stack EXCEPT ![x] = <<Successors(i)>> \o @] /\ UNCHANGED resume
        /\ UNCHANGED <<process, calls, outcome, starts, current, waited>>

\* An exception: from the entry point, an action or a condition.
Fail(x) ==
    /\ \/ At(x, "entry") \/ At(x, "invoking")
       \/ /\ At(x, "running") /\ stack[x] # <<>>
          /\ \E f \in Head(stack[x]) : process.kind[f] = "if"
    /\ Leave(x, "failed")
    /\ UNCHANGED <<fields, starts, stack, resume, current, ran, waited>>

-----------------------------------------------------------------------------
(* The starting points, each with the branches behind it.                  *)

StartAt(x, s) ==
    /\ At(x, "running") /\ stack[x] = <<>> /\ s \in starts[x]
    /\ starts' = [starts EXCEPT ![x] = @ \ {s}]
    /\ IF s = process.entry
       THEN stack' = [stack EXCEPT ![x] = <<Successors(s)>>] /\ UNCHANGED <<pc, current>>
       ELSE Invoke(x, s) /\ UNCHANGED stack
    /\ UNCHANGED <<fields, calls, outcome, resume, ran, waited>>

-----------------------------------------------------------------------------
(* executeUntilBlocked: depth first along the transitions. The order of    *)
(* transitions that leave the same invocation is left open.                *)

Following(x, n) ==
    /\ At(x, "running") /\ stack[x] # <<>>
    /\ n \in Head(stack[x])

\* Mutant: the loop over the transitions ends with the first one.
MutatedFollowed(x, n) == <<{}>> \o Tail(stack[x])

\* The frames once the transition to n is taken.
Followed(x, n) == <<Head(stack[x]) \ {n}>> \o Tail(stack[x])

FollowReady(x, n) ==
    /\ Following(x, n) /\ process.kind[n] # "if" /\ Unready(n) = {}
    /\ stack' = [stack EXCEPT ![x] = Followed(x, n)]
    /\ Invoke(x, n)
    /\ UNCHANGED <<fields, calls, outcome, starts, resume, ran, waited>>

FollowBlocked(x, n) ==
    /\ Following(x, n) /\ process.kind[n] # "if"
    /\ Unready(n) # {} /\ n \notin UNION Unready(n)
    /\ stack' = [stack EXCEPT ![x] = Followed(x, n)]
    /\ blocked' = BlockedWithout(n)
                      \cup {[inv |-> n, missing |-> sources] : sources \in Unready(n)}
    /\ waited' = [waited EXCEPT ![x] = @ \cup {n}]
    /\ UNCHANGED <<process, results, calls, pc, outcome, starts, resume, current, ran>>

BlockedByItself(x, n) ==
    /\ Following(x, n) /\ process.kind[n] # "if"
    /\ n \in UNION Unready(n)
    /\ Leave(x, "failed")
    /\ UNCHANGED <<fields, starts, stack, resume, current, ran, waited>>

\* executeIfAction: a condition that lacks an input is evaluated as false,
\* because the result that says so is dropped.
Verdicts(f) == IF Unready(f) = {} THEN BOOLEAN ELSE {FALSE}
Winners(f, verdict) == IF verdict THEN process.onTrue[f] ELSE process.onFalse[f]

FollowCondition(x, f, verdict) ==
    /\ Following(x, f) /\ process.kind[f] = "if" /\ verdict \in Verdicts(f)
    /\ LET won == Winners(f, verdict)
       IN  stack' = [stack EXCEPT ![x] =
               IF won = {} THEN Followed(x, f)
               ELSE <<Successors(f) \cap won>> \o Followed(x, f)]
    /\ ran' = [ran EXCEPT ![x] = @ \cup {f}]
    /\ UNCHANGED <<fields, calls, pc, outcome, starts, resume, current, waited>>

BranchEnd(x) ==
    /\ At(x, "running") /\ stack[x] # <<>> /\ Head(stack[x]) = {}
    /\ stack' = [stack EXCEPT ![x] = Tail(@)]
    /\ UNCHANGED <<fields, calls, pc, outcome, starts, resume, current, ran, waited>>

-----------------------------------------------------------------------------
(* The loop that resumes what was put aside.                               *)

AtLoop(x) ==
    /\ At(x, "running")
    /\ starts[x] = {} /\ stack[x] = <<>> /\ resume[x] = {}

StillMissing(b) == b.missing \ Executed

\* Mutant: a round keeps only the inputs it has unblocked.
MutatedReduced == {b \in blocked : StillMissing(b) = {}}

\* An input with executed sources forgets them; an unblocked one is kept.
Reduced ==
    {IF StillMissing(b) = {} THEN b ELSE [b EXCEPT !.missing = StillMissing(b)] :
        b \in blocked}

BlockedInvocations == {b.inv : b \in blocked}

Resumable ==
    {i \in BlockedInvocations :
        \A b \in blocked : b.inv = i => StillMissing(b) = {}}

ReleaseBlocked(x) ==
    /\ AtLoop(x) /\ Resumable # {}
    /\ resume' = [resume EXCEPT ![x] = Resumable]
    /\ waited' = [waited EXCEPT ![x] = @ \cup Resumable]
    /\ blocked' = Reduced
    /\ UNCHANGED <<process, results, calls, pc, outcome, starts, stack, current, ran>>

\* What an execution finds missing again is left to the next round.
Resume(x, i) ==
    /\ At(x, "running") /\ i \in resume[x]
    /\ IF Unready(i) = {}
       THEN Invoke(x, i) /\ UNCHANGED resume
       ELSE resume' = [resume EXCEPT ![x] = @ \ {i}] /\ UNCHANGED <<pc, current>>
    /\ UNCHANGED <<fields, calls, outcome, starts, stack, ran, waited>>

\* "Business process is blocked at the following actions"
GiveUp(x) ==
    /\ AtLoop(x) /\ blocked # {} /\ Resumable = {}
    /\ blocked' = Reduced
    /\ Leave(x, "blocked")
    /\ UNCHANGED <<process, results, starts, stack, resume, current, ran, waited>>

\* getProcessOutput: a source without a result is a null pointer exception.
Return(x) ==
    /\ AtLoop(x) /\ blocked = {}
    /\ Leave(x, IF process.outputs \subseteq Executed THEN "returned" ELSE "failed")
    /\ UNCHANGED <<fields, starts, stack, resume, current, ran, waited>>

-----------------------------------------------------------------------------
\* What the code does next by itself. A failure is a choice of the environment.
Step(x) ==
    \/ EnterProcess(x) \/ RejectRecord(x)
    \/ CompleteInvocation(x)
    \/ \E i \in Invocations :
        \/ StartAt(x, i)
        \/ FollowReady(x, i) \/ FollowBlocked(x, i) \/ BlockedByItself(x, i)
        \/ \E verdict \in BOOLEAN : FollowCondition(x, i, verdict)
        \/ Resume(x, i)
    \/ BranchEnd(x)
    \/ ReleaseBlocked(x) \/ GiveUp(x) \/ Return(x)

Finished == \A x \in Executions : pc[x] = "done"

Next ==
    \/ \E x \in Executions :
        \/ \E t \in Threads : Execute(t, x)
        \/ Step(x)
        \/ Fail(x)
    \/ Finished /\ UNCHANGED vars

Spec == Init /\ [][Next]_vars

(* A thread that is in an execution goes on with it.                       *)
FairSpec == Spec /\ \A x \in Executions : WF_vars(Step(x))

-----------------------------------------------------------------------------
Outcomes == {"none", "returned", "rejected", "blocked", "failed"}

(* The types of the executor's fields and of the locals of an execution.   *)
TypeOK ==
    /\ process \in ProcessType
    /\ Executed \subseteq Invocations /\ results \in [Executed -> Executions]
    /\ blocked \subseteq Waiting
    /\ calls \in [Threads -> Seq(Executions)]
    /\ pc \in [Executions -> {"idle", "entry", "running", "invoking", "done"}]
    /\ outcome \in [Executions -> Outcomes]
    /\ starts \in [Executions -> SUBSET Invocations]
    /\ stack \in [Executions -> Seq(SUBSET Invocations)]
    /\ resume \in [Executions -> SUBSET Invocations]
    /\ current \in [Executions -> Invocations]
    /\ ran \in [Executions -> SUBSET Invocations]
    /\ waited \in [Executions -> SUBSET Invocations]

(* An execution that goes on works with its own results: those of earlier  *)
(* executions on the same executor are gone, and those of the actions it   *)
(* has called are all there (cleanExecutionData, actionExecutionResults).  *)
OwnResults ==
    \A x \in Executions : pc[x] = "running" =>
        /\ \A i \in Executed : results[i] = x
        /\ {i \in ran[x] : process.kind[i] = "action"} \subseteq Executed

(* What had to wait for an input is not forgotten: when the process        *)
(* returns its outputs, every invocation that was put aside has run.       *)
WaitingInvocationsRun ==
    \A x \in Executions : outcome[x] = "returned" => waited[x] \subseteq ran[x]

\* Behind each invocation that ran, its transitions were followed: all of
\* them, or those of one side of a condition.
FollowedToTheEnd(x) ==
    \A i \in ran[x] :
        IF process.kind[i] = "if"
        THEN \E verdict \in BOOLEAN :
                 Successors(i) \cap Winners(i, verdict) \subseteq ran[x]
        ELSE Successors(i) \subseteq ran[x]

(* A process whose invocations never had to wait runs every branch to its  *)
(* end before it returns (executeUntilBlocked).                            *)
BranchesRunToTheEnd ==
    \A x \in Executions :
        outcome[x] = "returned" /\ waited[x] = {} => FollowedToTheEnd(x)

(* A released branch continues: the comments at the loop that resumes      *)
(* branches say so of what had to wait as well.                            *)
ReleasedBranchesContinue ==
    \A x \in Executions : outcome[x] = "returned" => FollowedToTheEnd(x)

Active == {x \in Executions : pc[x] \in {"entry", "running", "invoking"}}

Run == INSTANCE ProcessRun WITH open <- Active # {}, performed <- Executed

(* The executor implements ProcessRun: executions share nothing, and no    *)
(* action is called before its inputs have values.                         *)
ExecutesProcessRun == Run!Spec

(* Every execution ends, with outputs or with an exception: the loop that  *)
(* resumes invocations makes progress in each round.                       *)
ExecutionsEnd ==
    \A x \in Executions : (pc[x] = "entry") ~> (pc[x] = "done")

=============================================================================
