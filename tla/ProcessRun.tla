----------------------------- MODULE ProcessRun -----------------------------
(***************************************************************************)
(* What the executor of business processes promises, whatever the graph of *)
(* the process: executions come one after the other and share no results;  *)
(* each begins at the entry point, and an invocation is performed only     *)
(* when every input that other invocations provide has a value.            *)
(***************************************************************************)
CONSTANT Invocations

VARIABLES
    process,    \* its entry, and its inputs: per invocation a set of inputs,
                \* each given as the set of the invocations that may provide it
    open,       \* an execution is going on
    performed   \* the invocations whose outputs are known to it

run == <<process, open, performed>>

Init == ~open /\ performed = {}

Begin ==
    /\ ~open
    /\ open' = TRUE
    /\ performed' = {}

Enter ==
    /\ open /\ performed = {}
    /\ performed' = {process.entry}
    /\ UNCHANGED open

Perform(i) ==
    /\ open /\ performed # {}
    /\ \A sources \in process.inputs[i] : sources \cap performed # {}
    /\ performed' = performed \cup {i}
    /\ UNCHANGED open

\* With its outputs, with an exception, or because the record is not accepted.
End ==
    /\ open
    /\ open' = FALSE
    /\ UNCHANGED performed

Next ==
    /\ UNCHANGED process
    /\ \/ Begin \/ Enter \/ End
       \/ \E i \in Invocations : Perform(i)

Spec == Init /\ [][Next]_run

=============================================================================
