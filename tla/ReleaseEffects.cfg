SPECIFICATION Spec
CONSTANTS
    w1 = w1
    w2 = w2
    r1 = r1
    agent = agent
    model = model
    v1 = v1
    v2 = v2
    nil = nil
    Absent = absent
    b1 = b1
    g1 = g1
    g2 = g2
    Worker = {w1, w2}
    Release = {r1}
    Production = {}
    Component = {agent, model}
    Items <- MCItems
    Version = {v1, v2}
    NoVersion = nil
    Seeded <- MCSeeded
    Rollback = {b1}
    Gate = {g1}
    ReleasePolicy <- MCReleasePolicy
    RollbackPolicy <- MCOpenRollbackPolicy
    KillSwitchGated = {FALSE}
    Jobs <- MCEffects
    Health = {"failed"}
    Faulty = TRUE
INVARIANTS
    PromotedIsWhatRuns
    RollbackRestores
