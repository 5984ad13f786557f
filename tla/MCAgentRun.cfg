SPECIFICATION Spec
CONSTANTS
  c1 = c1
  c2 = c2
  Calls <- TwoCalls
  None = None
  Md = Md
  Pdf = Pdf
  Torn = Torn
  MaxSent = 2
  ToolSets <- Drawn
SYMMETRY Interchangeable
INVARIANTS FailuresAreTold SessionsDeleted OnlyApprovedEffects TaskSeesUploads TornIsTold
PROPERTIES ArtifactsKept
CHECK_DEADLOCK FALSE
