\* One caller resets the LED while another sets its colour.
CONSTANTS
  Values = {std, other}
  Default = std
  Other = other
  Junk = Junk
  Absent = Absent
  Empty = Empty
  Nobody = Nobody
  Procs = {p1, p2}
  Leds <- FrontPanel
  Calls <- ResetCalls
  Start <- Made
  StartLook <- Factory
  Crashers = {}
  Live = {}
  IoMayFail = FALSE
SPECIFICATION Spec
INVARIANTS ReadSuccessMeansRead
