SPECIFICATION Spec
CONSTANTS
    w1 = w1
    w2 = w2
    r1 = r1
    agent = agent
    model = model
    v1 = v1
    v2 = v2
    nil = nil
    Absent = absent
    b1 = b1
    g1 = g1
    g2 = g2
    Worker = {w1, w2}
    Release = {r1}
    Production = {r1}
    Component = {agent}
    Items <- MCSmallItems
    Version = {v1, v2}
    NoVersion = nil
    Seeded <- MCSmallSeeded
    Rollback = {b1}
    Gate = {g1, g2}
    ReleasePolicy <- MCReleasePolicy
    RollbackPolicy <- MCRollbackPolicy
    KillSwitchGated = {FALSE}
    Jobs <- MCHealth
    Health = {"healthy", "degraded", "failed"}
    Faulty = FALSE
SYMMETRY MCSymmetry
PROPERTIES
    HealthKeepsKill
