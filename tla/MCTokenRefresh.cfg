SPECIFICATION Spec
CONSTANTS
    Callers = {c1, c2}
    Policies = {"same", "rotates", "omits"}
    MaxIssued = 3
    MaxSignIns = 1
    MaxSignOuts = 1
INVARIANTS
    UsedTokensWereStored
    SignInLasts
CHECK_DEADLOCK FALSE
