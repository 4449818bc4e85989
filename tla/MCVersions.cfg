SPECIFICATION Spec
CONSTANTS
  AllVersions <- MCVersionSet
  Constraints <- MCConstraints
  Number <- MCNumber
  TextOrder <- MCTextOrder
  Digits = {"1", "2"}
  Unprefixed <- MCUnprefixed
  Latest = Latest
  NoVersion = NoVersion
  MaxVersions = 3
INVARIANTS
  BestRelease
  Sortable
PROPERTIES
  NeverOlder
CHECK_DEADLOCK FALSE
