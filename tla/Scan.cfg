SPECIFICATION FairSpec
CONSTANTS
  Files = {"f", "g", "h"}
  Dirs = {"upper", "lower"}
  Devices = {"device"}
  In <- UpperLower
  DeviceOf <- OneDevice
  SystemDevice = "device"
  Top <- DirectoryAndFile
  Given <- SecondGiven
  Under <- FirstWalked
  Kinds <- FirstOfAnyKind
  MaxFaults = 1
INVARIANTS TypeOK StatsComplete TimesKept
PROPERTIES NeverFromOutput EverythingCleanedUp
