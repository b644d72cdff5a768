CONSTANTS
    Width = 3
    Hops = {h1}
    Calls <- AllCalls
    Queries <- AllAddresses
SPECIFICATION Spec
INVARIANT
    LongestPrefixMatch
