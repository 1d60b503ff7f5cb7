\* Either kind of LED: two callers of its functions, from any file and with I/O errors.
\* One is scheduled; the other may stop or die anywhere.
CONSTANTS
  Values = {std, other}
  Default = std
  Other = other
  Junk = Junk
  Absent = Absent
  Empty = Empty
  Nobody = Nobody
  Procs = {p1, p2}
  Leds <- BothLeds
  Calls <- EveryCall
  Start <- AnyFile
  StartLook <- Factory
  Crashers = {p2}
  Live = {p1}
  IoMayFail = TRUE
SPECIFICATION FairSpec
INVARIANTS TypeOK LockIsHeld NothingStale
PROPERTIES StoreSpec DisabledIsFrozen CallsReturn
