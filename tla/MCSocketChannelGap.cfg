SPECIFICATION Spec
CONSTANT Uses <- GapUse
INVARIANT StreamIntact
