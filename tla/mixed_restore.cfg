CONSTANTS
 Restores = {"i1", "i2"}
 Restore <- McpRestore
 Readers = {"k1"}
 ReadOf <- MCReadOf
 Size = 2
 Overlap = TRUE
 MaxBreaks = 0
 MaxCrashes = 0
SPECIFICATION RestoreSpec
CHECK_DEADLOCK FALSE
INVARIANT NoBrokenRepository
