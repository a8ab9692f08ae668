SPECIFICATION FairSpec
CONSTANTS
    e = e
    a = a
    b = b
    c = c
    x1 = x1
    x2 = x2
    t1 = t1
    Invocations = {e, a, b, c}
    Executions = {x1, x2}
    Threads = {t1}
    Processes <- AllProcesses
INVARIANTS
    TypeOK
    OwnResults
    WaitingInvocationsRun
    BranchesRunToTheEnd
PROPERTIES
    ExecutesProcessRun
    ExecutionsEnd
