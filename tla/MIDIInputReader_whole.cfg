SPECIFICATION Spec
CONSTANTS
  SlotCount = 2
  SequenceModulus = 3
  PayloadBytes = 2
  Script <- NoteAndProgramChange
INVARIANT OnlySentMessages
CHECK_DEADLOCK FALSE
