-------------------------- MODULE MCProcessExecutor --------------------------
(* Small processes for TLC: an entry point e and the invocations a, b, c.   *)
EXTENDS ProcessExecutor

CONSTANTS e, a, b, c, x1, x2, t1

NoInputs == [i \in Invocations |-> {}]

Plain(edges) ==
    [transitions |-> edges, kind |-> [i \in Invocations |-> "action"],
     inputs |-> NoInputs, onTrue |-> NoInputs, onFalse |-> NoInputs,
     entry |-> e, outputs |-> {}, saves |-> {}]

\* e leads to a; b follows e or a; c follows e, b, or both a and b.
Graphs ==
    {{<<e, a>>, <<h, b>>} \cup edges :
        h \in {e, a}, edges \in {{<<e, c>>}, {<<b, c>>}, {<<a, c>>, <<b, c>>}}}

\* What a may wait for, and what c needs: a provides an input, a or b does,
\* or both are needed.
Inputs ==
    {[NoInputs EXCEPT ![a] = ia, ![c] = ic] :
        ia \in {{}, {{b}}, {{c}}}, ic \in {{}, {{a}}, {{a, b}}, {{a}, {b}}}}

\* All actions; b a FieldUpdate; b a condition on a that may pass control to c.
ActionProcesses ==
    {[Plain(edges) EXCEPT !.inputs = inputs, !.outputs = {a}] :
        edges \in Graphs, inputs \in Inputs}

\* What is left when b has no outputs.
WithoutOutputsOfB == {p \in ActionProcesses : \A i \in {a, c} : b \notin UNION p.inputs[i]}

UpdateProcesses == {[p EXCEPT !.kind[b] = "update"] : p \in WithoutOutputsOfB}

ConditionProcesses ==
    {[p EXCEPT !.kind[b] = "if", !.inputs[b] = {{a}}, !.onTrue[b] = {c},
               !.outputs = {c}] :
        p \in WithoutOutputsOfB}

\* a waits for itself; b and c are starting points.
SelfProcess == [Plain({<<e, a>>}) EXCEPT !.inputs[a] = {{a}}]

AllProcesses == ActionProcesses \cup UpdateProcesses \cup ConditionProcesses \cup {SelfProcess}

\* e leads to a and c; a waits for c and leads to b.
WaitingProcess ==
    {[Plain({<<e, a>>, <<e, c>>, <<a, b>>}) EXCEPT !.inputs[a] = {{c}}]}

\* A chain whose second action saves a record that triggers the process.
SavingProcess ==
    {[Plain({<<e, a>>, <<a, b>>, <<b, c>>}) EXCEPT !.inputs[c] = {{a}}, !.saves = {b}]}

=============================================================================
