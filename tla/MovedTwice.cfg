SPECIFICATION Spec
CONSTANTS
    Schools <- TwoSchools
    Texts <- Spellings
    Normal <- Normalised
    People = {"x", "y", "z", "w"}
    Classes = {"old"}
    Fees = {"old", "older", "new"}
    Renamers = {r1, r2}
    Enrollers = {e1}
    Hirers = {h1}
    Movers = {m1, m2}
    Classers = {k1}
    FeeMakers = {f1}
    Refreshers = {u1, u2}
    Deleters = {d1}
    Asks <- MovedTwice
    FirstName <- Named
    Home <- Placed
    None = None
    A = A
    B = B
    r1 = r1
    r2 = r2
    e1 = e1
    h1 = h1
    m1 = m1
    m2 = m2
    k1 = k1
    f1 = f1
    u1 = u1
    u2 = u2
    d1 = d1
INVARIANT LoginFollowsLearner
CHECK_DEADLOCK FALSE
