\* Every tree of at most three retained topics of depth <= 2 over a, $s and
\* the blank level; every valid filter of up to three levels.
CONSTANTS
    Level <- MCLevel
    MetaLevels <- MCMeta
    Blank = ""
    Val = {1, 2}
    None = None
    MaxDepth = 2
    MaxStored = 3
SPECIFICATION Spec
INVARIANT TypeOK
INVARIANT NoEmptyBranch
INVARIANT MatchesCorrect
PROPERTY TreeImplementsStore
