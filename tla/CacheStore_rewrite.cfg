\* Killed while storing over an entry whose inputs were edited.
CONSTANTS
  Proc = {p1}
  File = {f1, f2}
  Version = {v1, v2}
  MaxBuilds = 3
  MaxEdits = 1
  EditDuringBuild = FALSE
  CrashBetween = TRUE
  CrashWithin = FALSE
  ClearAllowed = FALSE
  Absent = Absent
  Torn = Torn
  Nothing = Nothing
SPECIFICATION Spec
INVARIANT HitMatchesManifest
CHECK_DEADLOCK FALSE
