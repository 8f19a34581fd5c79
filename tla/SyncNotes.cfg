SPECIFICATION FairSpec
CONSTANTS
  NoteIds = {n1, n2}
  Folders = {}
  Tags = {}
  Resources = {}
  Bodies <- MCBodies
  NoBody = NoBody
  Embeds <- MCEmbeds
  NoteLinks <- MCNoteLinks
  Unfinished <- MCUnfinished
  PageLimit = 2
  BatchLimit = 1
  Backfill = TRUE
  Restorable = FALSE
  CursorExpires = TRUE
  MaxNotes = 2
  MaxEvents = 3
INVARIANTS
  DerivedNeverStale
  FlagDownMeansWhole
  
  ViewsMirror
PROPERTIES
  SweepOnlyOrphans
  
