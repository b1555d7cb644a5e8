SPECIFICATION Spec
CONSTANTS
  Projects = {"pn"}
  Roles = {"web", "worker"}
  Lines <- MistakenContainers
  Plain <- MistakenPlain
  Containers <- MistakenContainers
  ProjectOf <- MCProjectOf
  FileOf <- MCFileOf
  RepoOf <- MCRepoOf
  Score <- MCScore
  Digests = {"sound", "unlabelled", "one arch"}
  Pinned <- MistakenPinned
  Image <- MCImage
  Options <- MCOptions
  MaxRoles = 1
PROPERTIES
  MovesItsContainer
CHECK_DEADLOCK FALSE
