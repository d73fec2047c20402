SPECIFICATION Spec
CONSTANTS
    Fn = "f"
    Param = "p"
    Result = "x"
    Vars = {"f", "p", "x"}
    Locals = {"x"}
    NoName = "none"
    Families <- MCFamilies
    MaxFrames = 9
    MaxTries = 2
INVARIANTS
    ScopesBalanced
    ContractIsFatal
PROPERTIES
    DefersRunInReverse
