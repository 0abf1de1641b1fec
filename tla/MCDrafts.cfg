SPECIFICATION Spec
CONSTANTS
  p1 = p1
  p2 = p2
  s1 = s1
  a = a
  b = b
  NotLoaded = NotLoaded
  Profiles = {p1, p2}
  Skills = {s1}
  Tabs = {a, b}
  Blueprint <- MCBlueprint
  StartSkills <- MCStart
  Views = {"profile", "away"}
  Answers = {"ok"}
  Bound = 3
CHECK_DEADLOCK FALSE
INVARIANTS
  OneChangePerSkill
PROPERTIES
  ChangesAreKept
  ApplyEnds
