CONSTANTS
    Width = 2
    Hops = {h1, h2}
    Calls <- AllCalls
    Queries <- AllAddresses
SPECIFICATION Spec
INVARIANTS
    CrashOnlyIfEmpty
    MatchIsLongest
