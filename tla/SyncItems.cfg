SPECIFICATION Spec
CONSTANTS
  NoteIds = {n1}
  Folders = {f1}
  Tags = {t1}
  Resources = {r1}
  Bodies <- MCBodies
  NoBody = NoBody
  Embeds <- MCEmbeds
  NoteLinks <- MCNoteLinks
  Unfinished <- MCUnfinished
  PageLimit = 2
  BatchLimit = 2
  Backfill = TRUE
  Restorable = FALSE
  CursorExpires = FALSE
  MaxNotes = 1
  MaxEvents = 3
INVARIANTS
  TypeOK
  NoteResourcesSound
  
  ViewsMirror
  ViewsReadVisibleLines
  UntaggedForAReason
