SPECIFICATION Spec
CONSTANTS
  p = p
  q = q
  PR = {p, q}
  MaxHeads = 2
  HasTests <- AllVersions
  Renames <- FirstVersion
  NoChange <- NoVersions
  Reverts <- RevertPr
  Results = {"success", "failures", "builds"}
  Faults = {"apply", "component", "bug", "closed", "metadata"}
  MaxBase = 1
  MaxMeta = 2
  MaxTries = 2
  MaxEvents = 1
  NoSync = NoSync
PROPERTIES
  LandedWasTested
CHECK_DEADLOCK FALSE
