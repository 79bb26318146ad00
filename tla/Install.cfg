SPECIFICATION Spec
CONSTANTS
  None = None
  Installers = {"normal", "passive", "dry", "skill", "again"}
  Scenarios = {{"normal", "passive"}, {"dry", "skill", "again"}}
  Layers = {"home", "project"}
  Skill = "SKILL.md"
  TargetOf <- MCTargetOf
  ModeOf <- MCModeOf
  DryRuns = {"dry"}
  Contents <- MCContents
  Skills <- MCSkills
  MaxEdits = 1
  MayDie = {"normal", "skill"}
  MayFail = TRUE
INVARIANTS
  TypeOK
PROPERTIES
  PriorBytesKeptUnlessRaced
  OtherHooksKept
