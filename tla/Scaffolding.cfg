SPECIFICATION ScaffoldingSpec
CONSTANTS
  run1 = run1
  run2 = run2
  command1 = command1
  command2 = command2
  Found <- MCFound
  Private = {"Shop"}
  Dependencies <- MCDependencies
  Runs = {run1, run2}
  Versions = {"1.0.0"}
  NoVersion = NoVersion
  Commands = {command1, command2}
  MicroserviceNames = {"Portal", "Portal-", "Shop"}
  Portal = "Portal"
  Directories = {"Portal", "Shop"}
  Directory <- MCDirectory
  AppPackage = "create-dolittle-app"
  MicroservicePackage = "create-dolittle-microservice"
  Nothing = Nothing
SYMMETRY MCSymmetry
INVARIANTS
  OneRunPerVersion
  FinishedIsComplete
  FilesAreListed
  ListedIsWhole
  PortalIsAnnounced
CHECK_DEADLOCK FALSE
