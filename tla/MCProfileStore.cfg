CONSTANTS
  ProfileFiles <- MCProfileFiles
  OverlayFiles <- MCOverlayFiles
  Contents <- MCContents
  Bundled <- MCBundled
  MaxEntries = 2
  MaxFiles = 2
  MaxBytes = 3
  MaxFileBytes = 3
  ProfileBudget <- MCProfileBudget
  StoreBudget <- MCStoreBudget
  MaxEdits = 1
  None = None
  Names <- MCNames
  Bytes = {"a", "b", "-"}
  WordBytes = {"a", "b"}
  Boundary = "|"
  Samples <- MCSamples
  Forced <- MCForced
  Generic <- G
  NameOrder <- MCNameOrder
  Priority <- MCPriority
  UserPriority = 5
  Anchors = {"x", "y"}
  Lengths = {1}
  TagLengths = {0, 1}
  Overhead = 1
  MaxNesting = 2
  MaxCopied = 4
  MaxTags = 1
  MaxEvents = 5
  NoAnchor = "none"
  Open = Open
SPECIFICATION MCSpec
INVARIANTS
  StoreInv
  ResolverInv
  SelectionIsResolved
  HintsAreFound
  BoundsTheDocument
CHECK_DEADLOCK FALSE
