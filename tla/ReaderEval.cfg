SPECIFICATION Spec
CONSTANTS
    None = None
    Bad = Bad
    Modes = {"accuracy", "toolbar", "observe", "all", "coldstart"}
    Limits = {1, 2}
    Expects = {{"plain"}, {"plain", "private"}}
    Repetitions = 2
    ReadAttempts = 2
    HostHitsMin = 1
INVARIANTS EvalInv AcceptedIsEarned
PROPERTIES EvalEnds
