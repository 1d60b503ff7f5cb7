\* One engine, given one action after another at any moment, times that wrap among them.
CONSTANTS
  Word <- SmallWord
  Lights = {0, 200}
  Asked <- Actions
SPECIFICATION FairSpec
INVARIANTS TypeOK ProgramFits StopsWhenSteady
PROPERTIES WaveSpec RoundsEnd
