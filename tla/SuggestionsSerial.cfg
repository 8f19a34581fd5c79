SPECIFICATION Spec
CONSTANTS
  Notes = {n1}
  Bodies = {prose, bookmark}
  Titles = {first, second}
  prose = prose
  bookmark = bookmark
  first = first
  second = second
  Fine <- MCFine
  Sluggable <- MCSluggable
  Generatable <- MCGeneratable
  Models = {m1, m2}
  Slug = Slug
  Payloads = {p1}
  Runs = {r1}
  None = None
  MaxGenerations = 2
  MaxEdits = 4
INVARIANTS
  OneStanding
  StillSuggested
  RetiredByAnotherText
  CountedIsSuggested
