SPECIFICATION FairSpec
CONSTANT Uses <- LibraryAndUser
INVARIANTS NoByteLost CompletionTruth CleanEndSendsAll
PROPERTIES EndsOnce NoUseAfterFree InactiveReclaimed MessageEventuallyCompletes
