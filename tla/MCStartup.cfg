SPECIFICATION BootSpec
CONSTANT MaxGenerations = 3
INVARIANT BootTypeOK KeyBelongsToCert ServesValid TrustedCA
PROPERTY ExportKept
CHECK_DEADLOCK FALSE
