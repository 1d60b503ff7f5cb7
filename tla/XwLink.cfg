\* Every operation, one after the other, with an XW that comes and goes.
CONSTANTS
  Entries = {amber, blue}
  Ops <- AllOps
  Blank = Blank
  MaxInbox = 6
SPECIFICATION Spec
INVARIANTS TypeOK ShowsLastRequest
