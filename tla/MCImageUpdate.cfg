SPECIFICATION Spec
CONSTANTS
  Projects = {"pn"}
  Roles = {"web", "api", "job", "site"}
  Lines <- MCLines
  Plain <- MCPlain
  Containers <- MCContainers
  ProjectOf <- MCProjectOf
  FileOf <- MCFileOf
  RepoOf <- MCRepoOf
  Score <- MCScore
  Digests = {"sound", "unlabelled", "one arch"}
  Pinned <- MCPinned
  Image <- MCImage
  Options <- MCOptions
  MaxRoles = 2
INVARIANTS
  TableTellsPins
  RefusedMidway
PROPERTIES
  PinnedIsDeployable
  LandsInStep
CHECK_DEADLOCK FALSE
