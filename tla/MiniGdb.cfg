CONSTANTS
    Last = 5
    Succ <- MCSucc
    Line <- MCLine
    MaxSignals = 1
SPECIFICATION FairSpec
INVARIANTS
    Armed
    TextIntact
PROPERTIES
    CommandsMove
    RefinesProgram
    CommandsReturn
