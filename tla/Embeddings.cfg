SPECIFICATION Spec
CONSTANTS
  Notes <- MCNotes
  Titles <- MCTitles
  Bodies <- MCBodies
  Cut <- MCCut
  First <- MCFirst
  FirstSaved <- MCFirstSaved
  TagsOf <- MCTagsOf
  Similarity <- MCSimilarity
  r1 = r1
  r2 = r2
  n1 = n1
  n2 = n2
  n3 = n3
  m1 = m1
  m2 = m2
  t1 = t1
  t2 = t2
  Models = {m1, m2}
  Runs = {r1, r2}
  Tags = {t1, t2}
  BatchSize = 2
  Limits = {1}
  NoLimit = NoLimit
  NoNote = NoNote
  NoVector = NoVector
  K = 3
  TagLimit = 1
  MaxEdits = 1
  MaxStarts = 3
SYMMETRY Interchangeable
INVARIANTS
  TypeOK
  RowsSpeakTrue
  
  SimilarBeatsCommon
PROPERTIES
  ReportIsTrue
CHECK_DEADLOCK FALSE
