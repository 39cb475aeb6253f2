SPECIFICATION Spec
CONSTANTS
  Packages <- MCPackages
  Files <- MCFiles
  VERSION_FILE = "version"
  Manifest <- MCManifest
  VersionLines <- MCVersionLines
  BuiltIn = "built in"
  Numbers <- MCNumbers
  NotNumber = NotNumber
  None = "none"
  Partial = "partial"
  Faults = {"verify", "dir", "remove", "copy", "mount", "remount", "unmount", "stop", "boot"}
  MaxFaults = 4
  MaxStops = 4
CHECK_DEADLOCK FALSE
INVARIANTS
  MountedWhole
  NeverOlder
  WritableOnlyIfStuck
PROPERTIES
  RetryRepairs
