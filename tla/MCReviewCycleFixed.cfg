SPECIFICATION Spec
CONSTANTS
  Procs = {p1}
  Diffs = {"none", "first"}
  NoDiff = "none"
  Shas = {"EMPTY", "first"}
  Sha <- MCSha
  Files <- MCFiles
  FilesOf <- MCFilesOf
  Path <- MCPath
  Checked = {"manifest"}
  Watched = {"manifest"}
  Handbook = "handbook"
  Findings = {"bug"}
  Pipelines = {"code-review"}
  Skipped = {}
  MaxRounds = 1
  Offered = {"fixed", "intentional"}
  Claims <- MCClaims
INVARIANTS
  FixedIsModified
