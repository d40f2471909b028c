SPECIFICATION FairSpec
CONSTANTS
    s = s
    t = t
    p = p
    NoProject = NoProject
    Instances = {s, t}
    ProjectsOf <- OneAndNone
    Stale = 1
    MaxDeaths = 1
INVARIANTS AuditInv NoForgottenRun AuditAgrees
PROPERTIES SuccessIsWhole EventuallyClosed
