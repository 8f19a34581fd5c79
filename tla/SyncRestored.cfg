SPECIFICATION Spec
CONSTANTS
  NoteIds = {n1, n2}
  Folders = {}
  Tags = {}
  Resources = {}
  Bodies <- MCBodies
  NoBody = NoBody
  Embeds <- MCEmbeds
  NoteLinks <- MCNoteLinks
  Unfinished <- MCUnfinished
  PageLimit = 2
  BatchLimit = 1
  Backfill = TRUE
  Restorable = TRUE
  CursorExpires = FALSE
  MaxNotes = 2
  MaxEvents = 3
INVARIANT
  FlagDownMeansWhole
