SPECIFICATION Spec
CONSTANTS
  Setups <- Situations
INVARIANTS ModesAgree FramebuffersHeld TypeOK BuffersApart SessionsExact HdrFollows
PROPERTIES RecordedInOrder StillScreenFlattened
CHECK_DEADLOCK FALSE
