SPECIFICATION Spec
CONSTANTS
  NoteIds = {n1, n2}
  Folders = {}
  Tags = {}
  Resources = {}
  Bodies <- MCBodies
  NoBody = NoBody
  Embeds <- MCEmbeds
  NoteLinks <- MCNoteLinks
  Unfinished <- MCUnfinished
  PageLimit = 1
  BatchLimit = 1
  Backfill = TRUE
  Restorable = FALSE
  CursorExpires = FALSE
  MaxNotes = 2
  MaxEvents = 3
PROPERTY
  SweepOnlyOrphans
