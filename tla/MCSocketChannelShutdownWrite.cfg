SPECIFICATION Spec
CONSTANT Uses <- ShutdownWriteUse
PROPERTY WriteEventHasData
