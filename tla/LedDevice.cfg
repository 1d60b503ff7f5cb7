\* Both chips, two processes that may die anywhere; the commands of one may fail.
\* Background jobs are fair.
CONSTANTS
  lit = lit
  off = off
  blink = blink
  Asked <- LedAsked
  Procs = {p1, p2}
  Unlucky = {p1}
  N = 2
  Steady = {lit, off}
  Blinking = {blink}
  NoLook = NoLook
  MaxLate = 2
SPECIFICATION FairSpec
INVARIANTS TypeOK SoloRunsItsPrograms SoloHasTheLastWord
PROPERTY SoloIsShown
