------------------------ MODULE ProcessExecutorProofs ------------------------
(***************************************************************************)
(* Proofs about ProcessExecutor for every set of processes, invocations    *)
(* and executions.                                                         *)
(***************************************************************************)
EXTENDS ProcessExecutor, SequenceTheorems, TLAPS

-----------------------------------------------------------------------------
(* Types.                                                                  *)

TypeInv == TypeOK /\ process \in Processes

\* Stacks and lists of calls: what is pushed and what is left after a pop.
LEMMA PushType ==
    ASSUME NEW S, NEW el \in S, NEW s \in Seq(S) PROVE <<el>> \o s \in Seq(S)
<1>1. <<el>> \in Seq(S)
  OBVIOUS
<1> QED BY <1>1, ConcatProperties

LEMMA PopType ==
    ASSUME NEW S, NEW s \in Seq(S), s # <<>> PROVE Head(s) \in S /\ Tail(s) \in Seq(S)
BY HeadTailProperties

LEMMA ProcessFacts ==
    ASSUME NEW p \in Processes
    PROVE  /\ p \in ProcessType
           /\ p.entry \in Invocations
           /\ p.kind[p.entry] = "action"
           /\ \A i \in Invocations : p.inputs[i] \subseteq SUBSET Invocations
BY ProcessAssumption DEF ProcessType

LEMMA LeaveType ==
    ASSUME TypeInv, NEW x \in Executions, NEW o \in Outcomes, Leave(x, o)
    PROVE  /\ calls' \in [Threads -> Seq(Executions)]
           /\ pc' \in [Executions -> {"idle", "entry", "running", "invoking", "done"}]
           /\ outcome' \in [Executions -> Outcomes]
<1>1. \A t \in Threads : calls[t] \in Seq(Executions)
  BY DEF TypeInv, TypeOK
<1>2. \A t \in Threads : calls[t] # <<>> => Tail(calls[t]) \in Seq(Executions)
  BY <1>1, PopType
<1> QED BY <1>1, <1>2 DEF Leave, TypeInv, TypeOK

LEMMA RecordType ==
    ASSUME TypeInv, NEW x \in Executions, NEW i \in Invocations, results' = Record(x, i)
    PROVE  /\ Executed' = Executed \cup {i}
           /\ results' \in [Executed' -> Executions]
           /\ \A j \in Executed' : results'[j] = IF j = i THEN x ELSE results[j]
BY DEF Record, Executed, TypeInv, TypeOK

\* The frames after a transition is taken.
LEMMA FollowedType ==
    ASSUME TypeInv, NEW x \in Executions, NEW n, stack[x] # <<>>
    PROVE  Followed(x, n) \in Seq(SUBSET Invocations)
<1>1. stack[x] \in Seq(SUBSET Invocations)
  BY DEF TypeInv, TypeOK
<1>2. Head(stack[x]) \in SUBSET Invocations /\ Tail(stack[x]) \in Seq(SUBSET Invocations)
  BY <1>1, PopType
<1>3. Head(stack[x]) \ {n} \in SUBSET Invocations
  BY <1>2
<1> QED BY <1>2, <1>3, PushType DEF Followed

LEMMA ReducedType == ASSUME TypeInv PROVE Reduced \subseteq Waiting
<1> SUFFICES ASSUME NEW b \in blocked
             PROVE  (IF StillMissing(b) = {} THEN b
                     ELSE [b EXCEPT !.missing = StillMissing(b)]) \in Waiting
  BY DEF Reduced
<1>1. b \in Waiting
  BY DEF TypeInv, TypeOK
<1> QED BY <1>1 DEF Waiting, StillMissing

LEMMA TypeInit == Init => TypeInv
<1> SUFFICES ASSUME Init PROVE TypeInv
  OBVIOUS
<1>1. process \in Processes /\ process \in ProcessType /\ process.entry \in Invocations
  BY ProcessFacts DEF Init
<1>2. results \in [Executed -> Executions] /\ Executed = {}
  BY DEF Init, NoResults, Executed
<1>3. \A S : <<>> \in Seq(S)
  OBVIOUS
<1> QED BY <1>1, <1>2, <1>3 DEF Init, TypeInv, TypeOK, Outcomes

\* Type correctness, one step per action.
LEMMA TypeStep == TypeInv /\ [Next]_vars => TypeInv'
<1> SUFFICES ASSUME TypeInv, [Next]_vars PROVE TypeInv'
  OBVIOUS
<1> USE DEF TypeInv, locals, fields
<1>0. /\ process \in ProcessType /\ process.entry \in Invocations
      /\ \A i \in Invocations : process.inputs[i] \subseteq SUBSET Invocations
  BY ProcessFacts
<1>1. ASSUME NEW x \in Executions, NEW t \in Threads, Execute(t, x) PROVE TypeInv'
  <2>1. calls[t] \in Seq(Executions)
    BY DEF TypeOK
  <2>2. <<x>> \o calls[t] \in Seq(Executions)
    BY <2>1, PushType
  <2>3. calls' \in [Threads -> Seq(Executions)]
    BY <1>1, <2>2 DEF Execute, TypeOK
  <2>4. Executed' = {} /\ results' \in [Executed' -> Executions]
    BY <1>1 DEF Execute, CleanedResults, NoResults, Executed
  <2> QED BY <1>1, <2>3, <2>4 DEF Execute, TypeOK
<1>2. ASSUME NEW x \in Executions, EnterProcess(x) PROVE TypeInv'
  <2>1. StartingPoints \subseteq Invocations
    BY DEF StartingPoints
  <2>2. Executed' \subseteq Invocations /\ results' \in [Executed' -> Executions]
    BY <1>2, <1>0, RecordType DEF EnterProcess, TypeOK
  <2> QED BY <1>2, <1>0, <2>1, <2>2 DEF EnterProcess, TypeOK
<1>3. ASSUME NEW x \in Executions, NEW o \in Outcomes, Leave(x, o),
             UNCHANGED <<process, results, starts, stack, resume, current, ran, waited>>,
             blocked' \subseteq Waiting
      PROVE  TypeInv'
  BY <1>3, LeaveType DEF TypeOK, Executed
<1>4. ASSUME NEW x \in Executions, CompleteInvocation(x) PROVE TypeInv'
  <2> DEFINE i == current[x]
  <2>1. i \in Invocations
    BY DEF TypeOK
  <2>2. Executed' \subseteq Invocations /\ results' \in [Executed' -> Executions]
    <3>1. CASE results' = Record(x, i)
      BY <3>1, <2>1, RecordType DEF TypeOK
    <3>2. CASE results' = results
      BY <3>2 DEF TypeOK, Executed
    <3> QED BY <1>4, <3>1, <3>2 DEF CompleteInvocation
  <2>3. <<Successors(i)>> \o stack[x] \in Seq(SUBSET Invocations)
    <3>1. Successors(i) \in SUBSET Invocations /\ stack[x] \in Seq(SUBSET Invocations)
      BY DEF Successors, TypeOK
    <3> QED BY <3>1, PushType
  <2>4. resume' \in [Executions -> SUBSET Invocations]
        /\ stack' \in [Executions -> Seq(SUBSET Invocations)]
    <3>1. CASE i \in resume[x]
      <4>1. resume' = [resume EXCEPT ![x] = @ \ {i}] /\ stack' = stack
        BY <1>4, <3>1 DEF CompleteInvocation
      <4> QED BY <4>1 DEF TypeOK
    <3>2. CASE i \notin resume[x]
      BY <1>4, <2>3, <3>2 DEF CompleteInvocation, TypeOK
    <3> QED BY <3>1, <3>2
  <2> QED BY <1>4, <2>1, <2>2, <2>4 DEF CompleteInvocation, BlockedWithout, TypeOK
<1>5. ASSUME NEW x \in Executions, NEW s \in Invocations, StartAt(x, s) PROVE TypeInv'
  <2>1. Successors(s) \in SUBSET Invocations
    BY DEF Successors
  <2>2. <<Successors(s)>> \in Seq(SUBSET Invocations)
    BY <2>1
  <2>3. pc' \in [Executions -> {"idle", "entry", "running", "invoking", "done"}]
        /\ current' \in [Executions -> Invocations]
        /\ stack' \in [Executions -> Seq(SUBSET Invocations)]
    <3>1. CASE s = process.entry
      BY <1>5, <2>2, <3>1 DEF StartAt, TypeOK
    <3>2. CASE s # process.entry
      BY <1>5, <3>2 DEF StartAt, Invoke, TypeOK
    <3> QED BY <3>1, <3>2
  <2> QED BY <1>5, <2>3 DEF StartAt, TypeOK, Executed
<1>6. ASSUME NEW x \in Executions, NEW n \in Invocations, FollowReady(x, n) PROVE TypeInv'
  BY <1>6, FollowedType DEF FollowReady, Following, Invoke, TypeOK, Executed
<1>7. ASSUME NEW x \in Executions, NEW n \in Invocations, FollowBlocked(x, n) PROVE TypeInv'
  <2>1. Unready(n) \subseteq SUBSET Invocations
    BY <1>0 DEF Unready
  <2>2. blocked' \subseteq Waiting
    BY <1>7, <2>1 DEF FollowBlocked, BlockedWithout, Waiting, TypeOK
  <2> QED BY <1>7, <2>2, FollowedType DEF FollowBlocked, Following, TypeOK, Executed
<1>8. ASSUME NEW x \in Executions, NEW f \in Invocations, NEW verdict \in BOOLEAN,
             FollowCondition(x, f, verdict)
      PROVE  TypeInv'
  <2>1. Followed(x, f) \in Seq(SUBSET Invocations)
    BY <1>8, FollowedType DEF FollowCondition, Following
  <2>2. Successors(f) \cap Winners(f, verdict) \in SUBSET Invocations
    BY DEF Successors
  <2>3. <<Successors(f) \cap Winners(f, verdict)>> \o Followed(x, f) \in Seq(SUBSET Invocations)
    BY <2>1, <2>2, PushType
  <2>4. stack' \in [Executions -> Seq(SUBSET Invocations)]
    BY <1>8, <2>1, <2>3 DEF FollowCondition, TypeOK
  <2> QED BY <1>8, <2>4 DEF FollowCondition, TypeOK, Executed
<1>9. ASSUME NEW x \in Executions, BranchEnd(x) PROVE TypeInv'
  <2>1. stack[x] \in Seq(SUBSET Invocations) /\ stack[x] # <<>>
    BY <1>9 DEF BranchEnd, TypeOK
  <2>2. Tail(stack[x]) \in Seq(SUBSET Invocations)
    BY <2>1, PopType
  <2> QED BY <1>9, <2>2 DEF BranchEnd, TypeOK, Executed
<1>10. ASSUME NEW x \in Executions, ReleaseBlocked(x) PROVE TypeInv'
  <2>1. Resumable \subseteq Invocations
    BY DEF Resumable, BlockedInvocations, TypeOK, Waiting
  <2> QED BY <1>10, <2>1, ReducedType DEF ReleaseBlocked, TypeOK, Executed
<1>11. ASSUME NEW x \in Executions, NEW i \in Invocations, Resume(x, i) PROVE TypeInv'
  <2>1. pc' \in [Executions -> {"idle", "entry", "running", "invoking", "done"}]
        /\ current' \in [Executions -> Invocations]
        /\ resume' \in [Executions -> SUBSET Invocations]
    <3>1. CASE Unready(i) = {}
      <4>1. Invoke(x, i) /\ resume' = resume
        BY <1>11, <3>1, Zenon DEF Resume
      <4> QED BY <4>1 DEF Invoke, TypeOK
    <3>2. CASE Unready(i) # {}
      <4>1. resume' = [resume EXCEPT ![x] = @ \ {i}] /\ pc' = pc /\ current' = current
        BY <1>11, <3>2 DEF Resume
      <4> QED BY <4>1 DEF TypeOK
    <3> QED BY <3>1, <3>2
  <2> QED BY <1>11, <2>1 DEF Resume, TypeOK, Executed
<1>12. ASSUME NEW x \in Executions,
              \/ RejectRecord(x) \/ Fail(x) \/ GiveUp(x) \/ Return(x)
              \/ \E n \in Invocations : BlockedByItself(x, n)
       PROVE  TypeInv'
  <2>1. \E o \in Outcomes : Leave(x, o)
    BY <1>12 DEF RejectRecord, Fail, GiveUp, Return, BlockedByItself, Outcomes
  <2>2. blocked' = blocked \/ blocked' = Reduced
    BY <1>12 DEF RejectRecord, Fail, GiveUp, Return, BlockedByItself
  <2>3. blocked' \subseteq Waiting
    BY <2>2, ReducedType DEF TypeOK
  <2>4. UNCHANGED <<process, results, starts, stack, resume, current, ran, waited>>
    BY <1>12 DEF RejectRecord, Fail, GiveUp, Return, BlockedByItself
  <2> QED BY <2>1, <2>3, <2>4, <1>3
<1>13. ASSUME UNCHANGED vars PROVE TypeInv'
  BY <1>13 DEF vars, TypeOK, Executed
<1> QED BY <1>1, <1>2, <1>4, <1>5, <1>6, <1>7, <1>8, <1>9, <1>10, <1>11, <1>12, <1>13
        DEF Next, Step

(* Every state has the types of the executor's fields and of the locals of *)
(* each execution, also when executions are nested or run on several       *)
(* threads (BusinessProcessExecutor's fields).                             *)
THEOREM TypeCorrect == Spec => []TypeOK
<1>1. TypeInv => TypeOK
  BY DEF TypeInv
<1> QED BY <1>1, TypeInit, TypeStep, PTL DEF Spec

-----------------------------------------------------------------------------
(* Executions that come one after the other: one thread, and no action of  *)
(* the process saves a record that triggers it.                            *)

Sequential ==
    /\ \E t : Threads = {t}
    /\ \A p \in Processes : p.saves = {}

ActivePcs == {"entry", "running", "invoking"}

\* At most one execution is active.
AloneInv ==
    \A x \in Executions : pc[x] \in ActivePcs => \A t \in Threads : calls[t] = <<x>>

\* What an execution knows at each point of its own; waiting invocations are
\* in blockedInvocations until they have run.
OwnAt(x) ==
    /\ pc[x] = "idle" => waited[x] = {}
    /\ pc[x] = "entry" => Executed = {} /\ waited[x] = {}
    /\ pc[x] \in {"running", "invoking"} =>
        /\ process.entry \in Executed
        /\ \A i \in Executed : results[i] = x
        /\ {i \in ran[x] : process.kind[i] = "action"} \subseteq Executed
        /\ waited[x] \subseteq ran[x] \cup BlockedInvocations
    /\ pc[x] = "invoking" => Unready(current[x]) = {}
    /\ outcome[x] = "returned" => pc[x] = "done" /\ waited[x] \subseteq ran[x]

OwnInv == \A x \in Executions : OwnAt(x)

\* Only starting points are started; their inputs come from elsewhere.
StartsInv == \A x \in Executions : starts[x] \subseteq StartingPoints

IInv == TypeInv /\ StartsInv /\ AloneInv /\ OwnInv

\* No other execution is active beside one that is.
LEMMA Alone ==
    ASSUME Sequential, AloneInv,
           NEW x \in Executions, NEW y \in Executions,
           pc[x] \in ActivePcs, pc[y] \in ActivePcs
    PROVE  x = y
<1>1. PICK t : Threads = {t}
  BY DEF Sequential
<1>2. calls[t] = <<x>> /\ calls[t] = <<y>>
  BY <1>1 DEF AloneInv
<1> QED BY <1>2

\* A step that leaves the list of calls alone and keeps x active.
LEMMA AloneKept ==
    ASSUME TypeInv, AloneInv, NEW x \in Executions, pc[x] \in ActivePcs,
           NEW p, pc' = [pc EXCEPT ![x] = p], calls' = calls
    PROVE  AloneInv'
BY DEF AloneInv, TypeInv, TypeOK

LEMMA AloneLeft ==
    ASSUME Sequential, TypeInv, AloneInv, NEW x \in Executions, pc[x] \in ActivePcs,
           NEW o, Leave(x, o)
    PROVE  AloneInv'
<1>1. \A y \in Executions : pc'[y] \notin ActivePcs
  BY Alone DEF Leave, ActivePcs, TypeInv, TypeOK
<1> QED BY <1>1 DEF AloneInv

LEMMA IInit == Init => IInv
<1> SUFFICES ASSUME Init PROVE IInv
  OBVIOUS
<1>1. AloneInv
  BY DEF Init, AloneInv, ActivePcs
<1>2. OwnInv
  BY DEF Init, OwnInv, OwnAt
<1>3. StartsInv
  BY DEF Init, StartsInv
<1> QED BY <1>1, <1>2, <1>3, TypeInit DEF IInv

LEMMA ReducedInvocations ==
    ASSUME TypeInv PROVE {b.inv : b \in Reduced} = BlockedInvocations
<1> DEFINE F(b) == IF StillMissing(b) = {} THEN b
                   ELSE [b EXCEPT !.missing = StillMissing(b)]
<1>1. \A b \in blocked : F(b).inv = b.inv
  BY DEF TypeInv, TypeOK, Waiting
<1> QED BY <1>1 DEF Reduced, BlockedInvocations

\* What the others know does not depend on the execution that makes a step.
LEMMA OthersKept ==
    ASSUME Sequential, IInv, NEW x \in Executions, pc[x] \in ActivePcs, OwnAt(x)',
           \A y \in Executions \ {x} :
               pc'[y] = pc[y] /\ outcome'[y] = outcome[y]
               /\ waited'[y] = waited[y] /\ ran'[y] = ran[y]
    PROVE  OwnInv'
<1> SUFFICES ASSUME NEW y \in Executions, y # x PROVE OwnAt(y)'
  BY DEF OwnInv
<1>1. pc[y] \notin ActivePcs
  BY Alone DEF IInv
<1> QED BY <1>1 DEF IInv, OwnInv, OwnAt, ActivePcs

\* A step of x within a branch, or between branches.
LEMMA MoveKept ==
    ASSUME Sequential, IInv, NEW x \in Executions, pc[x] = "running",
           UNCHANGED <<process, results, blocked, calls, outcome, waited>>,
           \/ pc' = pc
           \/ pc' = [pc EXCEPT ![x] = "invoking"] /\ Unready(current'[x]) = {},
           \A y \in Executions \ {x} : ran'[y] = ran[y],
           ran[x] \subseteq ran'[x],
           \A i \in ran'[x] \ ran[x] : process.kind[i] # "action"
    PROVE  AloneInv' /\ OwnInv'
<1>1. Executed' = Executed /\ BlockedInvocations' = BlockedInvocations
      /\ \A i : Unready(i)' = Unready(i)
  BY DEF Executed, BlockedInvocations, Unready
<1>2. OwnAt(x) /\ TypeOK /\ TypeInv /\ AloneInv
  BY DEF IInv, OwnInv, TypeInv
<1>3. AloneInv'
  <2>1. CASE pc' = pc
    BY <1>2, <2>1 DEF AloneInv
  <2>2. CASE pc' = [pc EXCEPT ![x] = "invoking"]
    BY <1>2, <2>2, AloneKept DEF ActivePcs
  <2> QED BY <2>1, <2>2
<1>4. OwnAt(x)'
  <2>1. CASE pc' = pc
    BY <1>1, <1>2, <2>1 DEF OwnAt
  <2>2. CASE pc' = [pc EXCEPT ![x] = "invoking"] /\ Unready(current'[x]) = {}
    <3>1. pc'[x] = "invoking"
      BY <2>2, <1>2 DEF TypeOK
    <3>2. Unready(current[x])' = {}
      BY <2>2, <1>1 DEF Unready, Executed
    <3> QED BY <1>1, <1>2, <3>1, <3>2 DEF OwnAt
  <2> QED BY <2>1, <2>2
<1>5. \A y \in Executions \ {x} : pc'[y] = pc[y]
  BY <1>2 DEF TypeOK
<1> QED BY <1>3, <1>4, <1>5, OthersKept DEF ActivePcs

\* An execution that ends without outputs.
LEMMA LeaveKept ==
    ASSUME Sequential, IInv, NEW x \in Executions, pc[x] \in ActivePcs,
           NEW o \in Outcomes \ {"returned"}, Leave(x, o),
           UNCHANGED <<ran, waited>>
    PROVE  AloneInv' /\ OwnInv'
<1>0. TypeInv /\ TypeOK /\ AloneInv
  BY DEF IInv, TypeInv
<1>1. pc'[x] = "done" /\ outcome'[x] # "returned"
  BY <1>0 DEF Leave, TypeOK
<1>2. OwnAt(x)'
  BY <1>1 DEF OwnAt
<1>3. \A y \in Executions \ {x} : pc'[y] = pc[y] /\ outcome'[y] = outcome[y]
  BY <1>0 DEF Leave, TypeOK
<1> QED BY <1>0, <1>2, <1>3, AloneLeft, OthersKept

LEMMA OwnExecute ==
    ASSUME Sequential, IInv, NEW x \in Executions, NEW t \in Threads, Execute(t, x)
    PROVE  AloneInv' /\ OwnInv'
<1>0. TypeOK /\ AloneInv /\ OwnInv /\ process \in Processes
  BY DEF IInv, TypeInv
<1>1. Threads = {t} /\ process.saves = {}
  BY <1>0 DEF Sequential
<1>2. calls[t] = <<>>
  BY <1>1 DEF Execute, MayCall
<1>3. \A y \in Executions : pc[y] \notin ActivePcs
  <2> SUFFICES ASSUME NEW y \in Executions, pc[y] \in ActivePcs PROVE FALSE
    OBVIOUS
  <2>1. calls[t] = <<y>>
    BY <1>0 DEF AloneInv
  <2> QED BY <1>2, <2>1
<1>4. calls' = [calls EXCEPT ![t] = <<x>>]
  BY <1>2 DEF Execute
<1>5. AloneInv'
  <2>1. \A y \in Executions : pc'[y] \in ActivePcs => y = x
    BY <1>0, <1>3 DEF Execute, TypeOK
  <2>2. \A s \in Threads : calls'[s] = <<x>>
    BY <1>0, <1>1, <1>4 DEF TypeOK
  <2> QED BY <2>1, <2>2 DEF AloneInv
<1>6. Executed' = {}
  BY DEF Execute, CleanedResults, NoResults, Executed
<1>7. OwnInv'
  <2> SUFFICES ASSUME NEW y \in Executions PROVE OwnAt(y)'
    BY DEF OwnInv
  <2>1. pc[y] \notin ActivePcs /\ OwnAt(y)
    BY <1>0, <1>3 DEF OwnInv
  <2>2. CASE y = x
    BY <1>0, <1>6, <2>1, <2>2 DEF Execute, TypeOK, OwnAt
  <2>3. CASE y # x
    BY <1>0, <2>1, <2>3 DEF Execute, TypeOK, OwnAt, ActivePcs
  <2> QED BY <2>2, <2>3
<1> QED BY <1>5, <1>7

LEMMA OwnEnter ==
    ASSUME Sequential, IInv, NEW x \in Executions, EnterProcess(x)
    PROVE  AloneInv' /\ OwnInv'
<1>0. TypeInv /\ TypeOK /\ AloneInv /\ OwnAt(x) /\ process.entry \in Invocations
  BY ProcessFacts DEF IInv, TypeInv, OwnInv
<1>1. pc[x] = "entry" /\ Executed = {} /\ waited[x] = {}
  BY <1>0 DEF EnterProcess, At, OwnAt
<1>2. AloneInv'
  BY <1>0, <1>1, AloneKept DEF EnterProcess, ActivePcs
<1>3. Executed' = {process.entry} /\ results'[process.entry] = x
  BY <1>0, <1>1, RecordType DEF EnterProcess
<1>4. pc'[x] = "running" /\ ran'[x] = {process.entry} /\ waited'[x] = {}
      /\ outcome'[x] = outcome[x] /\ process' = process
  BY <1>0, <1>1 DEF EnterProcess, TypeOK
<1>5. OwnAt(x)'
  <2>1. outcome[x] # "returned"
    BY <1>0, <1>1 DEF OwnAt
  <2> QED BY <1>3, <1>4, <2>1 DEF OwnAt
<1>6. OwnInv'
  BY <1>0, <1>1, <1>5, OthersKept DEF EnterProcess, ActivePcs, TypeOK
<1> QED BY <1>2, <1>6

LEMMA OwnComplete ==
    ASSUME Sequential, IInv, NEW x \in Executions, CompleteInvocation(x)
    PROVE  AloneInv' /\ OwnInv'
<1> DEFINE i == current[x]
<1>0. TypeInv /\ TypeOK /\ AloneInv /\ OwnAt(x) /\ i \in Invocations
  BY DEF IInv, TypeInv, OwnInv, TypeOK
<1>1. pc[x] = "invoking"
  BY DEF CompleteInvocation, At
<1>2. AloneInv'
  BY <1>0, <1>1, AloneKept DEF CompleteInvocation, ActivePcs
<1>3. /\ process.entry \in Executed'
      /\ \A j \in Executed' : results'[j] = x
      /\ Executed \subseteq Executed'
      /\ process.kind[i] = "action" => i \in Executed'
  <2>1. CASE process.kind[i] = "action"
    <3>1. results' = Record(x, i)
      BY <2>1 DEF CompleteInvocation
    <3> QED BY <1>0, <1>1, <3>1, RecordType DEF OwnAt
  <2>2. CASE process.kind[i] # "action"
    <3>1. results' = results
      BY <2>2 DEF CompleteInvocation
    <3>2. Executed' = Executed
      BY <3>1 DEF Executed
    <3> QED BY <1>0, <1>1, <2>2, <3>1, <3>2 DEF OwnAt
  <2> QED BY <2>1, <2>2
<1>4. pc'[x] = "running" /\ ran'[x] = ran[x] \cup {i} /\ waited' = waited
      /\ outcome' = outcome /\ process' = process
  BY <1>0 DEF CompleteInvocation, TypeOK
<1>5. BlockedInvocations \subseteq BlockedInvocations' \cup {i}
  BY DEF CompleteInvocation, BlockedWithout, BlockedInvocations
<1>6. OwnAt(x)'
  BY <1>0, <1>1, <1>3, <1>4, <1>5 DEF OwnAt
<1>7. OwnInv'
  BY <1>0, <1>1, <1>6, OthersKept DEF CompleteInvocation, ActivePcs, TypeOK
<1> QED BY <1>2, <1>7

LEMMA OwnBlocked ==
    ASSUME Sequential, IInv, NEW x \in Executions, NEW n \in Invocations, FollowBlocked(x, n)
    PROVE  AloneInv' /\ OwnInv'
<1>0. TypeInv /\ TypeOK /\ AloneInv /\ OwnAt(x)
  BY DEF IInv, TypeInv, OwnInv
<1>1. pc[x] = "running"
  BY DEF FollowBlocked, Following, At
<1>2. AloneInv'
  BY <1>0, <1>1 DEF FollowBlocked, AloneInv
<1>3. BlockedInvocations \cup {n} \subseteq BlockedInvocations'
  <2>1. PICK sources \in Unready(n) : TRUE
    BY DEF FollowBlocked
  <2>2. [inv |-> n, missing |-> sources] \in blocked'
    BY <2>1 DEF FollowBlocked
  <2>3. BlockedWithout(n) \subseteq blocked'
    BY DEF FollowBlocked
  <2> QED BY <2>2, <2>3 DEF BlockedInvocations, BlockedWithout
<1>4. /\ UNCHANGED <<process, results, pc, outcome, ran>>
      /\ waited'[x] = waited[x] \cup {n}
  BY <1>0 DEF FollowBlocked, TypeOK
<1>5. OwnAt(x)'
  BY <1>0, <1>1, <1>3, <1>4 DEF OwnAt, Executed
<1>6. OwnInv'
  BY <1>0, <1>1, <1>5, OthersKept DEF FollowBlocked, ActivePcs, TypeOK
<1> QED BY <1>2, <1>6

LEMMA OwnRelease ==
    ASSUME Sequential, IInv, NEW x \in Executions, ReleaseBlocked(x)
    PROVE  AloneInv' /\ OwnInv'
<1>0. TypeInv /\ TypeOK /\ AloneInv /\ OwnAt(x)
  BY DEF IInv, TypeInv, OwnInv
<1>1. pc[x] = "running"
  BY DEF ReleaseBlocked, AtLoop, At
<1>2. AloneInv'
  BY <1>0, <1>1 DEF ReleaseBlocked, AloneInv
<1>3. BlockedInvocations' = BlockedInvocations /\ Resumable \subseteq BlockedInvocations
  BY <1>0, ReducedInvocations DEF ReleaseBlocked, BlockedInvocations, Resumable
<1>4. /\ UNCHANGED <<process, results, pc, outcome, ran>>
      /\ waited'[x] = waited[x] \cup Resumable
  BY <1>0 DEF ReleaseBlocked, TypeOK
<1>5. OwnAt(x)'
  BY <1>0, <1>1, <1>3, <1>4 DEF OwnAt, Executed
<1>6. OwnInv'
  BY <1>0, <1>1, <1>5, OthersKept DEF ReleaseBlocked, ActivePcs, TypeOK
<1> QED BY <1>2, <1>6

LEMMA OwnReturn ==
    ASSUME Sequential, IInv, NEW x \in Executions, Return(x)
    PROVE  AloneInv' /\ OwnInv'
<1>0. TypeInv /\ TypeOK /\ AloneInv /\ OwnAt(x)
  BY DEF IInv, TypeInv, OwnInv
<1>1. pc[x] = "running"
  BY DEF Return, AtLoop, At
<1>2. PICK o : Leave(x, o)
  BY DEF Return
<1>3. AloneInv'
  BY <1>0, <1>1, <1>2, AloneLeft DEF ActivePcs
<1>4. waited[x] \subseteq ran[x]
  <2>1. BlockedInvocations = {}
    BY DEF Return, BlockedInvocations
  <2> QED BY <1>0, <1>1, <2>1 DEF OwnAt
<1>5. pc'[x] = "done" /\ waited' = waited /\ ran' = ran
  BY <1>0, <1>2 DEF Leave, Return, TypeOK
<1>6. OwnAt(x)'
  BY <1>4, <1>5 DEF OwnAt
<1>7. OwnInv'
  BY <1>0, <1>1, <1>2, <1>5, <1>6, OthersKept DEF Leave, ActivePcs, TypeOK
<1> QED BY <1>3, <1>7

LEMMA StartsReady ==
    ASSUME TypeInv, StartsInv, NEW x \in Executions, NEW s \in starts[x]
    PROVE  Unready(s) = {}
BY ProcessAssumption DEF TypeInv, StartsInv, StartingPoints, Unready

LEMMA StartsStep == TypeInv /\ StartsInv /\ [Next]_vars => StartsInv'
<1> SUFFICES ASSUME TypeInv, StartsInv, [Next]_vars PROVE StartsInv'
  OBVIOUS
<1> USE DEF locals, fields
<1>1. ASSUME process' = process,
             \A x \in Executions :
                 starts'[x] \subseteq starts[x] \/ starts'[x] = StartingPoints
      PROVE  StartsInv'
  <2>1. StartingPoints' = StartingPoints
    BY <1>1 DEF StartingPoints, Predecessors
  <2> QED BY <1>1, <2>1 DEF StartsInv
<1>2. ASSUME NEW x \in Executions, EnterProcess(x) PROVE StartsInv'
  BY <1>1, <1>2 DEF EnterProcess, TypeInv, TypeOK
<1>3. ASSUME NEW x \in Executions, NEW s \in Invocations, StartAt(x, s) PROVE StartsInv'
  BY <1>1, <1>3 DEF StartAt, TypeInv, TypeOK
<1>4. ASSUME UNCHANGED <<process, starts>> PROVE StartsInv'
  BY <1>1, <1>4
<1>5. ASSUME NEW x \in Executions, NEW t \in Threads, Execute(t, x) PROVE StartsInv'
  BY <1>4, <1>5 DEF Execute
<1>6. ASSUME NEW x \in Executions, NEW i \in Invocations,
             \/ FollowReady(x, i) \/ FollowBlocked(x, i)
             \/ \E verdict \in BOOLEAN : FollowCondition(x, i, verdict)
             \/ Resume(x, i) \/ BlockedByItself(x, i)
      PROVE  StartsInv'
  <2>1. UNCHANGED <<process, starts>>
    BY <1>6 DEF FollowReady, FollowBlocked, FollowCondition, Resume, BlockedByItself
  <2> QED BY <1>4, <2>1
<1>7. ASSUME NEW x \in Executions,
             \/ RejectRecord(x) \/ CompleteInvocation(x) \/ Fail(x) \/ BranchEnd(x)
             \/ ReleaseBlocked(x) \/ GiveUp(x) \/ Return(x)
      PROVE  StartsInv'
  <2>1. UNCHANGED <<process, starts>>
    BY <1>7 DEF RejectRecord, CompleteInvocation, Fail, BranchEnd, ReleaseBlocked, GiveUp,
                Return
  <2> QED BY <1>4, <2>1
<1>8. ASSUME UNCHANGED vars PROVE StartsInv'
  BY <1>4, <1>8 DEF vars
<1> QED BY <1>2, <1>3, <1>5, <1>6, <1>7, <1>8 DEF Next, Step

\* The inductive step, one step per action.
LEMMA IStep == Sequential /\ IInv /\ [Next]_vars => IInv'
<1> SUFFICES ASSUME Sequential, IInv, [Next]_vars PROVE IInv'
  OBVIOUS
<1> USE DEF locals, fields
<1>0. TypeInv' /\ TypeInv /\ TypeOK
  BY TypeStep DEF IInv, TypeInv
<1>1. ASSUME NEW x \in Executions, NEW s \in Invocations, StartAt(x, s)
      PROVE  AloneInv' /\ OwnInv'
  <2>1. pc[x] = "running"
    BY <1>1 DEF StartAt, At
  <2>2. UNCHANGED <<process, results, blocked, calls, outcome, ran, waited>>
    BY <1>1 DEF StartAt
  <2>3. \/ pc' = pc
        \/ pc' = [pc EXCEPT ![x] = "invoking"] /\ Unready(current'[x]) = {}
    <3>1. CASE s = process.entry
      BY <1>1, <3>1 DEF StartAt
    <3>2. CASE s # process.entry
      <4>1. Invoke(x, s) /\ s \in starts[x]
        BY <1>1, <3>2 DEF StartAt
      <4>2. Unready(s) = {}
        BY <1>0, <1>1, <4>1, StartsReady DEF IInv
      <4> QED BY <1>0, <4>1, <4>2 DEF Invoke, TypeOK
    <3> QED BY <3>1, <3>2
  <2> QED BY <2>1, <2>2, <2>3, MoveKept
<1>2. ASSUME NEW x \in Executions, NEW n \in Invocations, FollowReady(x, n)
      PROVE  AloneInv' /\ OwnInv'
  <2>1. pc[x] = "running" /\ current'[x] = n
    BY <1>0, <1>2 DEF FollowReady, Following, At, Invoke, TypeOK
  <2> QED BY <1>2, <2>1, MoveKept DEF FollowReady, Invoke
<1>3. ASSUME NEW x \in Executions, NEW f \in Invocations, NEW verdict \in BOOLEAN,
             FollowCondition(x, f, verdict)
      PROVE  AloneInv' /\ OwnInv'
  <2>1. pc[x] = "running" /\ process.kind[f] = "if"
    BY <1>3 DEF FollowCondition, Following, At
  <2>2. /\ \A y \in Executions \ {x} : ran'[y] = ran[y]
        /\ ran'[x] = ran[x] \cup {f}
    BY <1>0, <1>3 DEF FollowCondition, TypeOK
  <2> QED BY <1>3, <2>1, <2>2, MoveKept DEF FollowCondition
<1>4. ASSUME NEW x \in Executions, BranchEnd(x) PROVE AloneInv' /\ OwnInv'
  <2>1. pc[x] = "running"
    BY <1>4 DEF BranchEnd, At
  <2> QED BY <1>4, <2>1, MoveKept DEF BranchEnd
<1>5. ASSUME NEW x \in Executions, NEW i \in Invocations, Resume(x, i)
      PROVE  AloneInv' /\ OwnInv'
  <2>1. pc[x] = "running"
    BY <1>5 DEF Resume, At
  <2>2. UNCHANGED <<process, results, blocked, calls, outcome, ran, waited>>
    BY <1>5 DEF Resume
  <2>3. \/ pc' = pc
        \/ pc' = [pc EXCEPT ![x] = "invoking"] /\ Unready(current'[x]) = {}
    <3>1. CASE Unready(i) = {}
      <4>1. Invoke(x, i)
        BY <1>5, <3>1, Zenon DEF Resume
      <4> QED BY <1>0, <3>1, <4>1 DEF Invoke, TypeOK
    <3>2. CASE Unready(i) # {}
      BY <1>5, <3>2 DEF Resume
    <3> QED BY <3>1, <3>2
  <2> QED BY <2>1, <2>2, <2>3, MoveKept
<1>6. ASSUME NEW x \in Executions,
             \/ RejectRecord(x) \/ Fail(x) \/ GiveUp(x)
             \/ \E n \in Invocations : BlockedByItself(x, n)
      PROVE  AloneInv' /\ OwnInv'
  <2>1. \E o \in Outcomes \ {"returned"} : Leave(x, o)
    BY <1>6 DEF RejectRecord, Fail, GiveUp, BlockedByItself, Outcomes
  <2>2. pc[x] \in ActivePcs
    BY <1>6 DEF RejectRecord, Fail, GiveUp, BlockedByItself, AtLoop, Following, At, ActivePcs
  <2>3. UNCHANGED <<ran, waited>>
    BY <1>6 DEF RejectRecord, Fail, GiveUp, BlockedByItself
  <2> QED BY <2>1, <2>2, <2>3, LeaveKept
<1>7. ASSUME UNCHANGED vars PROVE AloneInv' /\ OwnInv'
  BY <1>7 DEF IInv, AloneInv, OwnInv, OwnAt, vars, Executed, BlockedInvocations, Unready
<1>8. AloneInv' /\ OwnInv'
  BY <1>1, <1>2, <1>3, <1>4, <1>5, <1>6, <1>7, OwnExecute, OwnEnter, OwnComplete,
     OwnBlocked, OwnRelease, OwnReturn
  DEF Next, Step
<1> QED BY <1>0, <1>8, StartsStep DEF IInv

LEMMA Inductive == ASSUME Sequential PROVE Spec => []IInv
<1>1. IInv /\ [Next]_vars => IInv'
  BY IStep
<1> QED BY <1>1, IInit, PTL DEF Spec

(* On an executor that is used by one execution after the other, an        *)
(* execution that goes on works with its own results, whatever the process *)
(* and however the executions before it ended (cleanExecutionData).        *)
THEOREM OwnResultsOfSequentialExecutions == ASSUME Sequential PROVE Spec => []OwnResults
<1>1. IInv => OwnResults
  BY DEF IInv, OwnInv, OwnAt, OwnResults
<1> QED BY <1>1, Inductive, PTL

(* A process that returns its outputs has run whatever had to wait for an  *)
(* input, also what an earlier execution had left in blockedInvocations.   *)
THEOREM NothingWaitingIsForgotten == ASSUME Sequential PROVE Spec => []WaitingInvocationsRun
<1>1. IInv => WaitingInvocationsRun
  BY DEF IInv, OwnInv, OwnAt, WaitingInvocationsRun
<1> QED BY <1>1, Inductive, PTL

-----------------------------------------------------------------------------
(* Refinement.                                                             *)

\* A step of x that is no step of the abstract run.
LEMMA Stutters ==
    ASSUME NEW x \in Executions, pc[x] \in ActivePcs, pc'[x] \in ActivePcs,
           process' = process, Executed' = Executed
    PROVE  UNCHANGED Run!run
BY DEF Run!run, Active, ActivePcs

LEMMA RunEnds ==
    ASSUME Sequential, IInv, NEW x \in Executions, pc[x] \in ActivePcs, NEW o, Leave(x, o),
           process' = process, results' = results
    PROVE  Run!Next
<1>1. \A y \in Executions : pc'[y] \notin ActivePcs
  BY Alone DEF Leave, ActivePcs, IInv, TypeInv, TypeOK
<1>2. x \in Active /\ Active' = {}
  BY <1>1 DEF Active, ActivePcs
<1> QED BY <1>2 DEF Run!Next, Run!End, Executed

LEMMA RunStep == Sequential /\ IInv /\ [Next]_vars => [Run!Next]_(Run!run)
<1> SUFFICES ASSUME Sequential, IInv, [Next]_vars PROVE Run!Next \/ UNCHANGED Run!run
  OBVIOUS
<1> USE DEF locals, fields
<1>0. TypeInv /\ TypeOK /\ AloneInv /\ OwnInv /\ process.entry \in Invocations
      /\ process.kind[process.entry] = "action"
  BY ProcessFacts DEF IInv, TypeInv
<1>1. ASSUME NEW x \in Executions, NEW t \in Threads, Execute(t, x) PROVE Run!Next
  <2>1. Threads = {t} /\ calls[t] = <<>>
    BY <1>0, <1>1 DEF Sequential, Execute, MayCall, TypeInv
  <2>2. \A y \in Executions : pc[y] \notin ActivePcs
    <3> SUFFICES ASSUME NEW y \in Executions, pc[y] \in ActivePcs PROVE FALSE
      OBVIOUS
    <3>1. calls[t] = <<y>>
      BY <1>0 DEF AloneInv
    <3> QED BY <2>1, <3>1
  <2>3. Active = {} /\ x \in Active'
    BY <1>0, <1>1, <2>2 DEF Active, ActivePcs, Execute, TypeOK
  <2>4. Executed' = {} /\ process' = process
    BY <1>1 DEF Execute, CleanedResults, NoResults, Executed
  <2> QED BY <2>3, <2>4 DEF Run!Next, Run!Begin
<1>2. ASSUME NEW x \in Executions, EnterProcess(x) PROVE Run!Next
  <2>1. pc[x] = "entry" /\ Executed = {}
    BY <1>0, <1>2 DEF EnterProcess, At, OwnInv, OwnAt
  <2>2. Executed' = {process.entry} /\ process' = process /\ pc'[x] = "running"
    BY <1>0, <1>2, <2>1, RecordType DEF EnterProcess, TypeOK
  <2>3. Active # {} /\ Active' # {}
    BY <2>1, <2>2 DEF Active
  <2> QED BY <2>1, <2>2, <2>3 DEF Run!Next, Run!Enter
<1>3. ASSUME NEW x \in Executions, CompleteInvocation(x) PROVE Run!Next \/ UNCHANGED Run!run
  <2> DEFINE i == current[x]
  <2>1. pc[x] = "invoking" /\ pc'[x] = "running" /\ process' = process
    BY <1>0, <1>3 DEF CompleteInvocation, At, TypeOK
  <2>2. CASE process.kind[i] = "action"
    <3>1. i \in Invocations /\ results' = Record(x, i)
      BY <1>0, <1>3, <2>2 DEF CompleteInvocation, TypeOK
    <3>2. Executed' = Executed \cup {i}
      BY <1>0, <3>1, RecordType
    <3>3. Executed # {} /\ \A sources \in process.inputs[i] : sources \cap Executed # {}
      BY <1>0, <2>1 DEF OwnInv, OwnAt, Unready
    <3>4. Active # {} /\ Active' # {}
      BY <2>1 DEF Active
    <3> QED BY <2>1, <3>1, <3>2, <3>3, <3>4 DEF Run!Next, Run!Perform
  <2>3. CASE process.kind[i] # "action"
    <3>1. Executed' = Executed
      BY <1>3, <2>3 DEF CompleteInvocation, Executed
    <3> QED BY <2>1, <3>1, Stutters DEF ActivePcs
  <2> QED BY <2>2, <2>3
<1>4. ASSUME NEW x \in Executions,
             \/ RejectRecord(x) \/ Fail(x) \/ GiveUp(x) \/ Return(x)
             \/ \E n \in Invocations : BlockedByItself(x, n)
      PROVE  Run!Next
  <2>1. \E o \in Outcomes : Leave(x, o)
    BY <1>4 DEF RejectRecord, Fail, GiveUp, Return, BlockedByItself, Outcomes
  <2>2. pc[x] \in ActivePcs
    BY <1>4 DEF RejectRecord, Fail, GiveUp, Return, BlockedByItself, AtLoop, Following, At,
                ActivePcs
  <2>3. UNCHANGED <<process, results>>
    BY <1>4 DEF RejectRecord, Fail, GiveUp, Return, BlockedByItself
  <2> QED BY <2>1, <2>2, <2>3, RunEnds
<1>5. ASSUME NEW x \in Executions,
             \/ \E i \in Invocations :
                   \/ StartAt(x, i) \/ FollowReady(x, i) \/ FollowBlocked(x, i)
                   \/ \E verdict \in BOOLEAN : FollowCondition(x, i, verdict)
                   \/ Resume(x, i)
             \/ BranchEnd(x) \/ ReleaseBlocked(x)
      PROVE  UNCHANGED Run!run
  <2>1. pc[x] = "running"
    BY <1>5 DEF StartAt, FollowReady, FollowBlocked, FollowCondition, Resume, BranchEnd,
                ReleaseBlocked, AtLoop, Following, At
  <2>2. UNCHANGED <<process, results>>
    BY <1>5 DEF StartAt, FollowReady, FollowBlocked, FollowCondition, Resume, BranchEnd,
                ReleaseBlocked
  <2>3. pc' = pc \/ pc' = [pc EXCEPT ![x] = "invoking"]
    BY <1>5 DEF StartAt, FollowReady, FollowBlocked, FollowCondition, Resume, BranchEnd,
                ReleaseBlocked, Invoke
  <2>4. pc'[x] \in ActivePcs
    BY <1>0, <2>1, <2>3 DEF ActivePcs, TypeOK
  <2> QED BY <2>1, <2>2, <2>4, Stutters DEF ActivePcs, Executed
<1>6. ASSUME UNCHANGED vars PROVE UNCHANGED Run!run
  BY <1>6 DEF vars, Run!run, Active, Executed
<1> QED BY <1>1, <1>2, <1>3, <1>4, <1>5, <1>6 DEF Next, Step

(* One execution after the other, the executor implements ProcessRun: no   *)
(* invocation records outputs before its inputs have values, and no value  *)
(* passes from one execution to the next.                                  *)
THEOREM ImplementsProcessRun == ASSUME Sequential PROVE Spec => ExecutesProcessRun
<1>1. Init => Run!Init
  BY DEF Init, Run!Init, Active, Executed, NoResults
<1>2. IInv /\ [Next]_vars => [Run!Next]_(Run!run)
  BY RunStep
<1> QED BY <1>1, <1>2, Inductive, PTL DEF Spec, Run!Spec, ExecutesProcessRun

=============================================================================
