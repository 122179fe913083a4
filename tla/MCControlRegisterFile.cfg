SPECIFICATION FairSpec
CONSTANTS
  Registers <- MCRegisters
  Writes = 3
  Reads = 2
  Outstanding = 1
INVARIANTS
  TypeOK
  WritesLand
  OneResponsePerWrite
  ClearPulsesOnce
  ReadsAreFresh
  EveryReadAnswered
PROPERTIES
  ResponsesHeld
  EveryWriteAnswered
