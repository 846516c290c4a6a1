CONSTANTS
  Job <- MCJob
  Past <- MCPast
  Run <- MCRun
  Previous <- MCPrevious
  SegmentsOf <- MCSegmentsOf
  Width = 6
  Earlier <- MCEarlier
  PrefixOf <- MCPrefixOf
  Garbage = Garbage
  NoFile = NoFile
SPECIFICATION Spec
INVARIANTS TypeOK WholeToolchain RestoredIsDeclared ReadersAgree PublishedIsWhole
PROPERTIES SoundIsRestored
CHECK_DEADLOCK FALSE
