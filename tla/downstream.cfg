SPECIFICATION FairSpec
CONSTANTS
  p = p
  q = q
  PR = {p}
  MaxHeads = 2
  HasTests <- AllVersions
  Renames <- FirstVersion
  NoChange <- NoVersions
  Reverts <- NoVersions
  Results = {"success", "failures", "builds", "invalid", "notests"}
  Faults = {"apply", "component", "affected", "bug", "closed", "decision", "metadata"}
  MaxBase = 1
  MaxMeta = 2
  MaxTries = 3
  MaxEvents = 3
  NoSync = NoSync
INVARIANTS
  TypeOK
  NotRetested
PROPERTIES
  LandedWasTested
  MetadataKept
  MergedIsSettled
CHECK_DEADLOCK FALSE
