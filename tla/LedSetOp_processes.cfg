\* Two processes that may die anywhere, on any file; one of them may also stop.
CONSTANTS
  Values = {std, blue, amber, blinking, dark}
  Default = std
  Blue = blue
  Amber = amber
  Blinking = blinking
  OffAction = dark
  Off = Off
  NoRequest = NoRequest
  Junk = Junk
  Absent = Absent
  Empty = Empty
  Nobody = Nobody
  Leds <- FrontPanel
  Calls <- AnyCall
  Procs = {t1, t2}
  ProcessOf <- OneEach
  Requests <- Light
  Start <- AnyFile
  StartLook <- Factory
  Crashers = {t1, t2}
  Live = {t1}
  IoMayFail = FALSE
SPECIFICATION FairSetOpSpec
INVARIANTS SoloTakesEffect
PROPERTIES NeverBusyForEver
