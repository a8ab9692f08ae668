CONSTANTS
    u1 = u1  u2 = u2  g1 = g1  g2 = g2  g3 = g3  r1 = r1  w1 = w1  w2 = w2  v1 = v1
    Users = {u1}
    Groups = {g1, g2}
    Records = {r1}
    Nesting <- OneLevel
    GroupKinds = {TRUE}
    EditFlags = {TRUE}
    Appliers = {w1}
    Removers = {}
    Calls = {"grant", "deleteGroup", "controller"}
    BatchLimit = 1
    MaxUga = 2
    MaxGrs = 2
    MaxFaults = 1
SPECIFICATION FairSpec
PROPERTY PendingIsApplied
