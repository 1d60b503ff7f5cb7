\* Three threads of one process.
CONSTANTS
  Values = {std, blue, amber, blinking, dark}
  Default = std
  Blue = blue
  Amber = amber
  Blinking = blinking
  OffAction = dark
  Off = Off
  NoRequest = NoRequest
  Junk = Junk
  Absent = Absent
  Empty = Empty
  Nobody = Nobody
  Leds <- FrontPanel
  Calls <- AnyCall
  Procs = {t1, t2, t3}
  ProcessOf <- OneProcess
  Requests <- AllReqs
  Start <- AtBoot
  StartLook <- AnyLook
  Crashers = {}
  Live = {}
  IoMayFail = FALSE
SPECIFICATION SetOpSpec
INVARIANTS SetOpTypeOK NeverContended
PROPERTIES PanelSpec
