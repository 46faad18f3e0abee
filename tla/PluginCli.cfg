SPECIFICATION Spec
CONSTANTS
    Agents = {a1, a2}
    User = User
    NoFile = NoFile
    Hosts <- MCHosts
    Start <- MCStart
    Others = {"theme"}
    MaxEdits = 1
INVARIANTS
    HandlersHaveRuntime
    ReinstallChangesNothing
    InstallTakes
PROPERTY ForeignKept
CHECK_DEADLOCK FALSE
