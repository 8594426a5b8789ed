\* Imports of all three ecosystems, with every overlay a source may meet.
SPECIFICATION Spec
CONSTANTS
  PublicHosts = {"site", "search", "api", "play"}
  LocalHosts = {"lan"}
  NoHost = "nohost"
  NoRule = NoRule
  NoOverlay = NoOverlay
  OldDigest = OldDigest
  Inputs <- MCInputs
  Patches <- MCPatches
INVARIANTS
  AllOrNothing
  UnsafeStaysOff
  OverlaysBind
  LinksStayInside
  ConversionFits
CHECK_DEADLOCK FALSE
