CONSTANTS
  lin = lin
  cis = cis
  bad = bad
  h1 = h1
  h2 = h2
  None = None
  Profiles = {lin, cis, bad}
  LocalProfiles = {lin}
  Targets = {h1, h2}
  Priority <- Pri
  Confidence <- Trust
  Commands <- MCCommands
  Reads <- MCReads
  Stores <- MCStores
  InitialSets = {{lin}}
  StackLimit = 2
  LineGrace = 0
  CacheLimit = 2
  MaxReloads = 1
SPECIFICATION MCSpec
INVARIANTS SessionInv NoStaleHighlighter LinesAreRead
PROPERTIES GoingBackIsNeverRejected FramesFollowConnections
