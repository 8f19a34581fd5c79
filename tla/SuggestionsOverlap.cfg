SPECIFICATION Spec
CONSTANTS
  Notes = {n1}
  Bodies = {prose, bookmark}
  Titles = {first}
  prose = prose
  bookmark = bookmark
  first = first
  second = second
  Fine <- MCFine
  Sluggable <- MCSluggable
  Generatable <- MCGeneratable
  Models = {m1}
  Slug = Slug
  Payloads = {p1}
  Runs = {r1, r2}
  None = None
  MaxGenerations = 2
  MaxEdits = 2
INVARIANT
  OneTextOffered
PROPERTIES
  DecisionsStand
  OptOutHolds
