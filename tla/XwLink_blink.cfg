\* The times of g_ledOpVal, against what the XW blinks with.
CONSTANTS
  Entries = {amber}
  Ops <- AllOps
  Blank = Blank
  MaxInbox = 6
SPECIFICATION Spec
INVARIANTS TimesAsAsked
