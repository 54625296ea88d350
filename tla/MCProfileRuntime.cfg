CONSTANTS
  lin = lin
  cis = cis
  frt = frt
  h1 = h1
  h2 = h2
  None = None
  Profiles = {lin, cis, frt}
  LocalProfiles = {lin}
  Targets = {h1, h2}
  Priority <- Pri
  Confidence <- Trust
  Commands <- MCCommands
  Reads <- MCReads
  InitialSets = {{}, {lin}}
  StackLimit = 3
  LineGrace = 1
VIEW WithoutOldCounts
SPECIFICATION RuntimeSpec
INVARIANTS RuntimeInv FramesAndLinesSettled
PROPERTIES ProfilesFollowConnections AttemptHasItsGrace
