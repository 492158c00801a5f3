CONSTANTS
    t1 = t1
    t2 = t2
    nobody = nobody
    Term <- MCTerm
    Nobody = nobody
    Tag <- MCTag
    Selections <- MCSelections
    Words <- MCWords
    Flag <- MCFlag
    Given <- MCHomes
SPECIFICATION Spec
CHECK_DEADLOCK FALSE
SYMMETRY Symmetric
INVARIANT TypeOK
INVARIANT ModelCompleteUnlessOverlap
INVARIANT ServerWholeUnlessCut
INVARIANT ConfiguredFilesExist
INVARIANT EveryChangeKept
INVARIANT InstallTakesEffect
PROPERTY UsersOwnKept
PROPERTY ReinstallChangesNothing
