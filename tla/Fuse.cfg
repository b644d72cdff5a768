CONSTANTS
    TextLen = 2
    MaxRead = 3
SPECIFICATION Spec
INVARIANT
    ListedIsThere
