\* One build after another: edited in between, or killed between two file writes
\* or removals.
CONSTANTS
  Proc = {p1}
  File = {f1, f2}
  Version = {v1, v2}
  MaxBuilds = 5
  MaxEdits = 3
  EditDuringBuild = FALSE
  CrashBetween = TRUE
  CrashWithin = FALSE
  ClearAllowed = TRUE
  Absent = Absent
  Torn = Torn
  Nothing = Nothing
SPECIFICATION StoreSpec
INVARIANTS
  TypeOK
  EntryIsOfOneBuild
  HitMatchesManifest
  BinHasCompanions
  HitIsOfOneBuild
  NoMissingSidecar
PROPERTIES
  ImplementsUncachedBuilds
CHECK_DEADLOCK FALSE
