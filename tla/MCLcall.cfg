CONSTANT
    Programs <- MCPrograms
SPECIFICATION FairSpec
INVARIANTS LcallNeverKills SemHeldByOne OldactTruthful
PROPERTIES TrapStays FaultEnds
