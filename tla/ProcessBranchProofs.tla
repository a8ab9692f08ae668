------------------------- MODULE ProcessBranchProofs -------------------------
(***************************************************************************)
(* Branches of ProcessExecutor run to their end, for every process graph,  *)
(* any number of threads and any nesting of executions: the traversal only *)
(* uses what belongs to one execution, so that here, other than for the    *)
(* results, executions that share an executor do no harm to each other.    *)
(***************************************************************************)
EXTENDS ProcessExecutorProofs

\* The transitions of i lead to invocations of the set done only.
FollowedInto(i, done) ==
    IF process.kind[i] = "if"
    THEN \E verdict \in BOOLEAN : Successors(i) \cap Winners(i, verdict) \subseteq done
    ELSE Successors(i) \subseteq done

\* What executeUntilBlocked still has to do: the transitions left in its frames
\* and the invocation whose action is being called.
Frames(s) == UNION {s[k] : k \in DOMAIN s}
InHand(x) == Frames(stack[x]) \cup {i \in {current[x]} : pc[x] = "invoking"}

OnTheWay == {"running", "invoking"}

\* As long as nothing had to wait, what follows an invocation that has run has
\* run as well or is in hand; the branch of the entry point starts later.
BranchAt(x) ==
    /\ pc[x] \in {"idle", "entry"} =>
           ran[x] = {} /\ waited[x] = {} /\ stack[x] = <<>> /\ resume[x] = {}
    /\ pc[x] # "done" => outcome[x] = "none"
    /\ pc[x] \in OnTheWay /\ waited[x] = {} =>
           /\ resume[x] = {}
           /\ \A i \in ran[x] :
                  \/ i = process.entry /\ i \in starts[x]
                  \/ FollowedInto(i, ran[x] \cup InHand(x))
    /\ outcome[x] = "returned" /\ waited[x] = {} => FollowedToTheEnd(x)

BranchInv == \A x \in Executions : BranchAt(x)

-----------------------------------------------------------------------------
(* Frames.                                                                 *)

LEMMA PushedFrame ==
    ASSUME NEW A \in SUBSET Invocations, NEW s \in Seq(SUBSET Invocations)
    PROVE  Frames(<<A>> \o s) = A \cup Frames(s)
<1> DEFINE t == <<A>> \o s
<1>1. /\ Len(t) = Len(s) + 1 /\ t[1] = A /\ DOMAIN t = 1..Len(t) /\ DOMAIN s = 1..Len(s)
      /\ \A k \in 1..Len(s) : t[k + 1] = s[k]
      /\ Len(s) \in Nat
  OBVIOUS
<1> HIDE DEF t
<1>2. \A k \in DOMAIN t : k = 1 \/ (k - 1 \in DOMAIN s /\ t[k] = s[k - 1])
  BY <1>1
<1>3. Frames(t) \subseteq A \cup Frames(s)
  BY <1>1, <1>2 DEF Frames
<1>4. 1 \in DOMAIN t /\ \A k \in DOMAIN s : k + 1 \in DOMAIN t /\ t[k + 1] = s[k]
  BY <1>1
<1>5. A \cup Frames(s) \subseteq Frames(t)
  BY <1>1, <1>4 DEF Frames
<1>6. Frames(t) = A \cup Frames(s)
  BY <1>3, <1>5
<1> QED BY <1>6 DEF t

LEMMA TopFrame ==
    ASSUME NEW s \in Seq(SUBSET Invocations), s # <<>>
    PROVE  /\ Head(s) \in SUBSET Invocations /\ Tail(s) \in Seq(SUBSET Invocations)
           /\ Frames(s) = Head(s) \cup Frames(Tail(s))
<1> DEFINE t == Tail(s)
<1>1. /\ Head(s) \in SUBSET Invocations /\ t \in Seq(SUBSET Invocations)
      /\ Len(t) = Len(s) - 1
      /\ \A k \in 1..Len(t) : t[k] = s[k + 1]
  BY HeadTailProperties
<1>2. /\ Head(s) = s[1] /\ Len(s) \in Nat \ {0}
      /\ DOMAIN s = 1..Len(s) /\ DOMAIN t = 1..Len(t)
  BY <1>1
<1> HIDE DEF t
<1>3. \A k \in DOMAIN t : k + 1 \in DOMAIN s /\ s[k + 1] = t[k]
  BY <1>1, <1>2
<1>4. 1 \in DOMAIN s /\ \A k \in DOMAIN s : k = 1 \/ (k - 1 \in DOMAIN t /\ s[k] = t[k - 1])
  BY <1>1, <1>2
<1>5. Frames(s) \subseteq s[1] \cup Frames(t)
  BY <1>4 DEF Frames
<1>6. s[1] \cup Frames(t) \subseteq Frames(s)
  BY <1>3, <1>4 DEF Frames
<1>7. Frames(s) = Head(s) \cup Frames(t)
  BY <1>2, <1>5, <1>6
<1> QED BY <1>1, <1>7 DEF t

LEMMA NoFrame == Frames(<<>>) = {}
BY DEF Frames

\* A transition that is taken leaves the frames.
LEMMA FollowedFrames ==
    ASSUME TypeInv, NEW x \in Executions, stack[x] # <<>>, NEW n \in Head(stack[x])
    PROVE  Frames(stack[x]) \subseteq Frames(Followed(x, n)) \cup {n}
<1>1. stack[x] \in Seq(SUBSET Invocations)
  BY DEF TypeInv, TypeOK
<1>2. /\ Head(stack[x]) \in SUBSET Invocations /\ Tail(stack[x]) \in Seq(SUBSET Invocations)
      /\ Frames(stack[x]) = Head(stack[x]) \cup Frames(Tail(stack[x]))
  BY <1>1, TopFrame
<1>p. Head(stack[x]) \ {n} \in SUBSET Invocations
  BY <1>2
<1>3. Frames(Followed(x, n)) = (Head(stack[x]) \ {n}) \cup Frames(Tail(stack[x]))
  BY <1>2, <1>p, PushedFrame DEF Followed
<1> QED BY <1>2, <1>3

LEMMA FollowedFurther ==
    ASSUME NEW i, NEW done, NEW more, FollowedInto(i, done), done \subseteq more
    PROVE  FollowedInto(i, more)
<1>1. CASE process.kind[i] = "if"
  <2>1. PICK verdict \in BOOLEAN : Successors(i) \cap Winners(i, verdict) \subseteq done
    BY <1>1 DEF FollowedInto
  <2>2. Successors(i) \cap Winners(i, verdict) \subseteq more
    BY <2>1
  <2> QED BY <1>1, <2>2 DEF FollowedInto
<1>2. CASE process.kind[i] # "if"
  BY <1>2 DEF FollowedInto
<1> QED BY <1>1, <1>2

-----------------------------------------------------------------------------
(* What a step of x does to x. The locals of the others are their own.     *)

LEMMA OthersBranch ==
    ASSUME TypeInv, BranchInv, NEW x \in Executions, process' = process, BranchAt(x)',
           \A y \in Executions \ {x} :
               /\ pc'[y] = pc[y] /\ outcome'[y] = outcome[y] /\ starts'[y] = starts[y]
               /\ stack'[y] = stack[y] /\ resume'[y] = resume[y] /\ current'[y] = current[y]
               /\ ran'[y] = ran[y] /\ waited'[y] = waited[y]
    PROVE  BranchInv'
<1> SUFFICES ASSUME NEW y \in Executions, y # x PROVE BranchAt(y)'
  BY DEF BranchInv
<1>1. BranchAt(y)
  BY DEF BranchInv
<1> QED
  BY <1>1 DEF BranchAt, FollowedInto, FollowedToTheEnd, Successors, Winners, InHand, Frames

\* A step along the branches: nothing in hand is dropped, and what has run now
\* has its transitions in hand.
LEMMA StepBranch ==
    ASSUME TypeInv, BranchInv, NEW x \in Executions, pc[x] \in OnTheWay,
           pc'[x] \in OnTheWay, process' = process,
           UNCHANGED <<outcome, waited>>,
           resume'[x] \subseteq resume[x],
           process.entry \in starts[x] =>
               \/ process.entry \in starts'[x]
               \/ FollowedInto(process.entry, ran'[x] \cup InHand(x)'),
           ran[x] \cup InHand(x) \subseteq ran'[x] \cup InHand(x)',
           \A i \in ran'[x] \ ran[x] : waited[x] = {} => FollowedInto(i, ran'[x] \cup InHand(x)')
    PROVE  BranchAt(x)'
<1>1. BranchAt(x)
  BY DEF BranchInv
<1>2. outcome'[x] = "none" /\ pc'[x] # "done" /\ pc'[x] \notin {"idle", "entry"}
  BY <1>1 DEF BranchAt, OnTheWay
<1>3. ASSUME waited[x] = {}, NEW i \in ran'[x]
      PROVE  \/ i = process.entry /\ i \in starts'[x]
             \/ FollowedInto(i, ran'[x] \cup InHand(x)')
  <2>1. CASE i \in ran[x]
    <3>1. \/ i = process.entry /\ i \in starts[x]
          \/ FollowedInto(i, ran[x] \cup InHand(x))
      BY <1>1, <1>3, <2>1 DEF BranchAt
    <3> QED BY <3>1, FollowedFurther
  <2>2. CASE i \notin ran[x]
    BY <1>3, <2>2
  <2> QED BY <2>1, <2>2
<1>4. \A i : FollowedInto(i, ran'[x] \cup InHand(x)') => FollowedInto(i, ran[x] \cup InHand(x))'
  BY DEF FollowedInto, Successors, Winners
<1>5. waited'[x] = {} =>
          /\ resume'[x] = {}
          /\ \A i \in ran'[x] : \/ i = process'.entry /\ i \in starts'[x]
                                \/ FollowedInto(i, ran[x] \cup InHand(x))'
  BY <1>1, <1>3, <1>4 DEF BranchAt
<1> QED BY <1>2, <1>5 DEF BranchAt

\* Once something had to wait the property asks for nothing more.
LEMMA WaitedBranch ==
    ASSUME BranchInv, NEW x \in Executions, pc[x] \in OnTheWay, pc'[x] \in OnTheWay,
           UNCHANGED outcome, waited'[x] # {}
    PROVE  BranchAt(x)'
BY DEF BranchInv, BranchAt, OnTheWay

\* An execution that ends without outputs.
LEMMA LeaveBranch ==
    ASSUME TypeInv, NEW x \in Executions, NEW o \in Outcomes \ {"returned"}, Leave(x, o)
    PROVE  BranchAt(x)'
<1>1. pc'[x] = "done" /\ outcome'[x] # "returned"
  BY DEF Leave, TypeInv, TypeOK
<1> QED BY <1>1 DEF BranchAt, OnTheWay

LEMMA BranchInit == Init => BranchInv
BY DEF Init, BranchInv, BranchAt, OnTheWay

-----------------------------------------------------------------------------
(* One lemma per step that moves along the branches.                       *)

LEMMA BranchEnter ==
    ASSUME TypeInv, BranchInv, NEW x \in Executions, EnterProcess(x) PROVE BranchAt(x)'
<1>1. process \in Processes /\ process.entry \in Invocations
  BY ProcessFacts DEF TypeInv
<1>2. process.entry \in StartingPoints
  BY <1>1, ProcessAssumption DEF StartingPoints
<1>3. /\ pc[x] = "entry" /\ pc'[x] = "running" /\ ran'[x] = {process.entry}
      /\ starts'[x] = StartingPoints
      /\ UNCHANGED <<process, outcome, resume, waited>>
  BY DEF EnterProcess, At, TypeInv, TypeOK
<1>4. outcome[x] = "none" /\ waited[x] = {} /\ resume[x] = {}
  BY <1>3 DEF BranchInv, BranchAt
<1> QED BY <1>2, <1>3, <1>4 DEF BranchAt, OnTheWay

LEMMA BranchComplete ==
    ASSUME TypeInv, BranchInv, NEW x \in Executions, CompleteInvocation(x) PROVE BranchAt(x)'
<1> DEFINE i == current[x]
<1>1. /\ pc[x] = "invoking" /\ pc'[x] = "running" /\ ran'[x] = ran[x] \cup {i}
      /\ UNCHANGED <<process, outcome, starts, waited>>
      /\ resume'[x] \subseteq resume[x]
      /\ i \notin resume[x] => stack'[x] = <<Successors(i)>> \o stack[x]
      /\ i \in resume[x] => stack'[x] = stack[x]
  BY DEF CompleteInvocation, At, TypeInv, TypeOK
<1>2. stack[x] \in Seq(SUBSET Invocations) /\ Successors(i) \in SUBSET Invocations
  BY DEF TypeInv, TypeOK, Successors
<1>3. /\ i \notin resume[x] => Frames(stack'[x]) = Successors(i) \cup Frames(stack[x])
      /\ i \in resume[x] => Frames(stack'[x]) = Frames(stack[x])
  <2>1. Frames(<<Successors(i)>> \o stack[x]) = Successors(i) \cup Frames(stack[x])
    BY <1>2, PushedFrame
  <2> HIDE DEF i
  <2> QED BY <1>1, <2>1
<1>4. InHand(x) = Frames(stack[x]) \cup {i} /\ InHand(x)' = Frames(stack'[x])
  BY <1>1 DEF InHand, Frames
<1>5. ran[x] \cup InHand(x) \subseteq ran'[x] \cup InHand(x)'
  BY <1>1, <1>3, <1>4
<1>6. waited[x] = {} => FollowedInto(i, ran'[x] \cup InHand(x)')
  <2> SUFFICES ASSUME waited[x] = {} PROVE FollowedInto(i, ran'[x] \cup InHand(x)')
    OBVIOUS
  <2>1. resume[x] = {}
    BY <1>1 DEF BranchInv, BranchAt, OnTheWay
  <2>2. Successors(i) \subseteq ran'[x] \cup InHand(x)'
    BY <1>3, <1>4, <2>1
  <2> QED BY <2>2 DEF FollowedInto
<1>7. pc[x] \in OnTheWay /\ pc'[x] \in OnTheWay
  BY <1>1 DEF OnTheWay
<1> HIDE DEF i
<1> QED BY <1>1, <1>5, <1>6, <1>7, StepBranch

LEMMA BranchStart ==
    ASSUME TypeInv, BranchInv, NEW x \in Executions, NEW s \in Invocations, StartAt(x, s)
    PROVE  BranchAt(x)'
<1>1. /\ pc[x] = "running" /\ stack[x] = <<>> /\ starts'[x] = starts[x] \ {s}
      /\ UNCHANGED <<process, outcome, resume, ran, waited>>
  BY DEF StartAt, At, TypeInv, TypeOK, fields
<1>2. InHand(x) = {}
  BY <1>1, NoFrame DEF InHand
<1>3. CASE s = process.entry
  <2>1. stack'[x] = <<Successors(s)>> /\ pc'[x] = "running"
    BY <1>1, <1>3 DEF StartAt, TypeInv, TypeOK
  <2>2. Frames(<<Successors(s)>>) = Successors(s)
    BY DEF Frames
  <2>3. Successors(s) \subseteq InHand(x)'
    BY <2>1, <2>2 DEF InHand, Frames
  <2>4. FollowedInto(process.entry, ran'[x] \cup InHand(x)')
    BY <1>3, <2>3 DEF FollowedInto
  <2>5. pc[x] \in OnTheWay /\ pc'[x] \in OnTheWay
    BY <1>1, <2>1 DEF OnTheWay
  <2> QED BY <1>1, <1>2, <2>4, <2>5, StepBranch
<1>4. CASE s # process.entry
  <2>1. pc'[x] = "invoking"
    BY <1>4 DEF StartAt, Invoke, TypeInv, TypeOK
  <2>2. pc[x] \in OnTheWay /\ pc'[x] \in OnTheWay
    BY <1>1, <2>1 DEF OnTheWay
  <2> QED BY <1>1, <1>2, <1>4, <2>2, StepBranch
<1> QED BY <1>3, <1>4

LEMMA BranchReady ==
    ASSUME TypeInv, BranchInv, NEW x \in Executions, NEW n \in Invocations, FollowReady(x, n)
    PROVE  BranchAt(x)'
<1>1. /\ pc[x] = "running" /\ pc'[x] = "invoking" /\ current'[x] = n
      /\ stack[x] # <<>> /\ n \in Head(stack[x]) /\ stack'[x] = Followed(x, n)
      /\ UNCHANGED <<process, outcome, starts, resume, ran, waited>>
  BY DEF FollowReady, Following, Invoke, At, TypeInv, TypeOK, fields
<1>2. Frames(stack[x]) \subseteq Frames(stack'[x]) \cup {n}
  BY <1>1, FollowedFrames
<1>3. InHand(x) = Frames(stack[x]) /\ InHand(x)' = Frames(stack'[x]) \cup {n}
  BY <1>1 DEF InHand, Frames
<1>4. pc[x] \in OnTheWay /\ pc'[x] \in OnTheWay
  BY <1>1 DEF OnTheWay
<1> QED BY <1>1, <1>2, <1>3, <1>4, StepBranch

LEMMA BranchCondition ==
    ASSUME TypeInv, BranchInv, NEW x \in Executions, NEW f \in Invocations,
           NEW verdict \in BOOLEAN, FollowCondition(x, f, verdict)
    PROVE  BranchAt(x)'
<1> DEFINE won == Winners(f, verdict)
<1>1. /\ pc[x] = "running" /\ pc'[x] = "running" /\ ran'[x] = ran[x] \cup {f}
      /\ stack[x] # <<>> /\ f \in Head(stack[x]) /\ process.kind[f] = "if"
      /\ stack'[x] = IF won = {} THEN Followed(x, f)
                     ELSE <<Successors(f) \cap won>> \o Followed(x, f)
      /\ UNCHANGED <<process, outcome, starts, resume, waited>>
  BY DEF FollowCondition, Following, At, TypeInv, TypeOK, fields
<1> HIDE DEF won
<1>2. Frames(stack[x]) \subseteq Frames(Followed(x, f)) \cup {f}
  BY <1>1, FollowedFrames
<1>3. Followed(x, f) \in Seq(SUBSET Invocations) /\ Successors(f) \cap won \in SUBSET Invocations
  BY <1>1, FollowedType DEF Successors
<1>4. Frames(stack'[x]) = (Successors(f) \cap won) \cup Frames(Followed(x, f))
  <2>1. CASE won = {}
    BY <1>1, <2>1
  <2>2. CASE won # {}
    BY <1>1, <1>3, <2>2, PushedFrame
  <2> QED BY <2>1, <2>2
<1>5. InHand(x) = Frames(stack[x]) /\ InHand(x)' = Frames(stack'[x])
  BY <1>1 DEF InHand, Frames
<1>6. FollowedInto(f, ran'[x] \cup InHand(x)')
  <2>1. Successors(f) \cap won \subseteq ran'[x] \cup InHand(x)'
    BY <1>4, <1>5
  <2> QED BY <1>1, <2>1 DEF FollowedInto, won
<1>7. ran[x] \cup InHand(x) \subseteq ran'[x] \cup InHand(x)'
  BY <1>1, <1>2, <1>4, <1>5
<1>8. pc[x] \in OnTheWay /\ pc'[x] \in OnTheWay
  BY <1>1 DEF OnTheWay
<1> QED BY <1>1, <1>6, <1>7, <1>8, StepBranch

LEMMA BranchEnds ==
    ASSUME TypeInv, BranchInv, NEW x \in Executions, BranchEnd(x) PROVE BranchAt(x)'
<1>1. /\ pc[x] = "running" /\ stack[x] # <<>> /\ Head(stack[x]) = {}
      /\ stack'[x] = Tail(stack[x])
      /\ UNCHANGED <<process, pc, outcome, starts, resume, ran, waited>>
  BY DEF BranchEnd, At, TypeInv, TypeOK, fields
<1>2. stack[x] \in Seq(SUBSET Invocations)
  BY DEF TypeInv, TypeOK
<1>3. Frames(stack[x]) = Frames(stack'[x])
  BY <1>1, <1>2, TopFrame
<1>4. InHand(x) = Frames(stack[x]) /\ InHand(x)' = Frames(stack'[x])
  BY <1>1 DEF InHand, Frames
<1>5. pc[x] \in OnTheWay /\ pc'[x] \in OnTheWay
  BY <1>1 DEF OnTheWay
<1> QED BY <1>1, <1>3, <1>4, <1>5, StepBranch

\* At the loop nothing is in hand, so what follows has run.
LEMMA BranchReturn ==
    ASSUME TypeInv, BranchInv, NEW x \in Executions, Return(x) PROVE BranchAt(x)'
<1>1. /\ pc[x] = "running" /\ stack[x] = <<>> /\ starts[x] = {} /\ pc'[x] = "done"
      /\ UNCHANGED <<process, ran, waited>>
  BY DEF Return, AtLoop, At, Leave, TypeInv, TypeOK, fields
<1>2. InHand(x) = {}
  BY <1>1, NoFrame DEF InHand
<1>3. ASSUME waited[x] = {}, NEW i \in ran[x] PROVE FollowedInto(i, ran[x])
  BY <1>1, <1>2, <1>3 DEF BranchInv, BranchAt, OnTheWay
<1>4. waited[x] = {} => FollowedToTheEnd(x)
  BY <1>3 DEF FollowedInto, FollowedToTheEnd
<1>5. FollowedToTheEnd(x) => FollowedToTheEnd(x)'
  BY <1>1 DEF FollowedToTheEnd, Successors, Winners
<1> QED BY <1>1, <1>4, <1>5 DEF BranchAt, OnTheWay

LEMMA BranchStep == TypeInv /\ BranchInv /\ [Next]_vars => BranchInv'
<1> SUFFICES ASSUME TypeInv, BranchInv, [Next]_vars PROVE BranchInv'
  OBVIOUS
<1> USE DEF locals, fields
<1>1. ASSUME NEW x \in Executions, BranchAt(x)', process' = process,
             \A y \in Executions \ {x} :
                 /\ pc'[y] = pc[y] /\ outcome'[y] = outcome[y] /\ starts'[y] = starts[y]
                 /\ stack'[y] = stack[y] /\ resume'[y] = resume[y] /\ current'[y] = current[y]
                 /\ ran'[y] = ran[y] /\ waited'[y] = waited[y]
      PROVE  BranchInv'
  BY <1>1, OthersBranch
<1>2. ASSUME NEW x \in Executions, NEW t \in Threads, Execute(t, x) PROVE BranchInv'
  <2>1. /\ pc[x] = "idle" /\ pc' = [pc EXCEPT ![x] = "entry"]
        /\ UNCHANGED <<process, outcome, starts, stack, resume, current, ran, waited>>
    BY <1>2 DEF Execute
  <2>2. pc'[x] = "entry"
    BY <2>1 DEF TypeInv, TypeOK
  <2>3. BranchAt(x)'
    BY <2>1, <2>2 DEF BranchInv, BranchAt, OnTheWay
  <2>4. \A y \in Executions \ {x} : pc'[y] = pc[y]
    BY <2>1 DEF TypeInv, TypeOK
  <2> QED BY <1>1, <2>1, <2>3, <2>4
<1>3. ASSUME NEW x \in Executions, EnterProcess(x) PROVE BranchInv'
  <2>1. BranchAt(x)'
    BY <1>3, BranchEnter
  <2> QED BY <1>1, <1>3, <2>1 DEF EnterProcess, TypeInv, TypeOK
<1>4. ASSUME NEW x \in Executions, NEW o, Leave(x, o), BranchAt(x)',
             UNCHANGED <<process, starts, stack, resume, current, ran, waited>>
      PROVE  BranchInv'
  <2>1. \A y \in Executions \ {x} : pc'[y] = pc[y] /\ outcome'[y] = outcome[y]
    BY <1>4 DEF Leave, TypeInv, TypeOK
  <2> QED BY <1>1, <1>4, <2>1
<1>5. ASSUME NEW x \in Executions, RejectRecord(x) \/ Fail(x) \/ GiveUp(x) PROVE BranchInv'
  <2>1. PICK o \in Outcomes \ {"returned"} : Leave(x, o)
    BY <1>5 DEF RejectRecord, Fail, GiveUp, Outcomes
  <2>2. BranchAt(x)'
    BY <2>1, LeaveBranch
  <2>3. UNCHANGED <<process, starts, stack, resume, current, ran, waited>>
    BY <1>5 DEF RejectRecord, Fail, GiveUp
  <2> QED BY <1>4, <2>1, <2>2, <2>3
<1>6. ASSUME NEW x \in Executions, NEW n \in Invocations, BlockedByItself(x, n) PROVE BranchInv'
  <2>1. BranchAt(x)'
    BY <1>6, LeaveBranch DEF BlockedByItself, Outcomes
  <2> QED BY <1>4, <1>6, <2>1 DEF BlockedByItself
<1>7. ASSUME NEW x \in Executions, Return(x) PROVE BranchInv'
  <2>1. BranchAt(x)'
    BY <1>7, BranchReturn
  <2>2. (\E o : Leave(x, o)) /\ UNCHANGED <<process, starts, stack, resume, current, ran, waited>>
    BY <1>7 DEF Return
  <2> QED BY <1>4, <2>1, <2>2
<1>8. ASSUME NEW x \in Executions, CompleteInvocation(x) PROVE BranchInv'
  <2>1. BranchAt(x)'
    BY <1>8, BranchComplete
  <2> QED BY <1>1, <1>8, <2>1 DEF CompleteInvocation, TypeInv, TypeOK
<1>9. ASSUME NEW x \in Executions, NEW n \in Invocations,
             \/ StartAt(x, n) \/ FollowReady(x, n)
             \/ \E verdict \in BOOLEAN : FollowCondition(x, n, verdict)
      PROVE  BranchInv'
  <2>1. BranchAt(x)'
    BY <1>9, BranchStart, BranchReady, BranchCondition
  <2> QED
    BY <1>1, <1>9, <2>1 DEF StartAt, FollowReady, FollowCondition, Invoke, TypeInv, TypeOK
<1>10. ASSUME NEW x \in Executions, NEW n \in Invocations, FollowBlocked(x, n) PROVE BranchInv'
  <2>1. /\ pc[x] = "running" /\ pc' = pc /\ n \in waited'[x] /\ UNCHANGED outcome
    BY <1>10 DEF FollowBlocked, Following, At, TypeInv, TypeOK
  <2>2. BranchAt(x)'
    BY <2>1, WaitedBranch DEF OnTheWay
  <2> QED BY <1>1, <1>10, <2>1, <2>2 DEF FollowBlocked, TypeInv, TypeOK
<1>11. ASSUME NEW x \in Executions, NEW i \in Invocations, Resume(x, i) PROVE BranchInv'
  <2>1. /\ pc[x] = "running" /\ i \in resume[x] /\ UNCHANGED <<outcome, waited>>
        /\ pc'[x] \in {"running", "invoking"}
    BY <1>11 DEF Resume, Invoke, At, TypeInv, TypeOK
  <2>2. waited'[x] # {}
    BY <2>1 DEF BranchInv, BranchAt, OnTheWay
  <2>3. BranchAt(x)'
    BY <2>1, <2>2, WaitedBranch DEF OnTheWay
  <2> QED BY <1>1, <1>11, <2>3 DEF Resume, Invoke, TypeInv, TypeOK
<1>12. ASSUME NEW x \in Executions, BranchEnd(x) PROVE BranchInv'
  <2>1. BranchAt(x)'
    BY <1>12, BranchEnds
  <2> QED BY <1>1, <1>12, <2>1 DEF BranchEnd, TypeInv, TypeOK
<1>13. ASSUME NEW x \in Executions, ReleaseBlocked(x) PROVE BranchInv'
  <2>1. /\ pc[x] = "running" /\ pc' = pc /\ UNCHANGED outcome
        /\ waited'[x] = waited[x] \cup Resumable /\ Resumable # {}
    BY <1>13 DEF ReleaseBlocked, AtLoop, At, TypeInv, TypeOK
  <2>2. BranchAt(x)'
    BY <2>1, WaitedBranch DEF OnTheWay
  <2> QED BY <1>1, <1>13, <2>1, <2>2 DEF ReleaseBlocked, TypeInv, TypeOK
<1>14. CASE UNCHANGED vars
  BY <1>14
  DEF vars, BranchInv, BranchAt, FollowedInto, FollowedToTheEnd, Successors, Winners, InHand, Frames
<1> QED
  BY <1>2, <1>3, <1>5, <1>6, <1>7, <1>8, <1>9, <1>10, <1>11, <1>12, <1>13, <1>14
  DEF Next, Step

\* For every process, any number of threads and any nesting of executions: a
\* process whose invocations never had to wait returns with every branch run to
\* its end, conditions followed on one side.
THEOREM BranchesAreFollowed == Spec => []BranchesRunToTheEnd
<1>1. Spec => [](TypeInv /\ BranchInv)
  BY TypeInit, TypeStep, BranchInit, BranchStep, PTL DEF Spec
<1>2. BranchInv => BranchesRunToTheEnd
  BY DEF BranchInv, BranchAt, BranchesRunToTheEnd
<1> QED BY <1>1, <1>2, PTL

=============================================================================
