CONSTANTS
    Addresses = {d, a}
    Unparsable = {}
    Default = d
    NoAddress = NoAddress
    MaxChanges = 1
SPECIFICATION EnvSpec
INVARIANTS EffectiveValueApplies
CHECK_DEADLOCK FALSE
