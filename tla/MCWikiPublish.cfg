SPECIFICATION Spec
CONSTANTS
    Page = {"Home", "P", "Q"}
    Home = "Home"
    Required = {"Home"}
    Sha = {"a", "b", "c", "d", "e", "f"}
    Tree <- MCTree
    Abi <- MCAbi
    None = None
    Version = {1, 2}
    FirstCommit <- MCFirst
    Flow = {"python", "typescript"}
    PythonFlow = "python"
    PollAttempts = 2
    MaxDisturb = 1
INVARIANTS AbiDriftFound
PROPERTIES NoOrphans PublishedWasGated NeverDowngraded PeoplesTextKept ReleaseReachesWiki
CHECK_DEADLOCK FALSE
