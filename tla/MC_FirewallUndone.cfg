SPECIFICATION SafeSpec
CONSTANTS
    Changes = {policy}
    HighRisk = {policy}
    Cutting = {}
    Defaults = {policy}
    NoChange = NoChange
    Tools = {"ufw"}
    Silent = {}
    MaxApplies = 1
PROPERTIES
    UndoneUnlessCommitted
CHECK_DEADLOCK FALSE
