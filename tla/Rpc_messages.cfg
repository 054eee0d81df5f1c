CONSTANTS
    None = None
    Server = Server
    Port = 7
    Names = {1, 2}
    Signatures <- Overloads
    Strlen <- StringLength
    MaxFunctions = 2
SPECIFICATION Spec
INVARIANTS MessagesSurvive RightOverload CallByValueResult
