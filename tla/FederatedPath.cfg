SPECIFICATION Spec
CONSTANTS
  Alphabet <- MCAlphabet
  MaxVisited = 4096
  MaxOwner = 128
  Clusters = {"east", "west", "south"}
  Versions <- MCVersions
  Backwards <- MCBackwards
  Passages <- MCPassages
  Flaws = {"none", "rotated", "unstable", "oversized"}
  Failures = {"agent-unavailable", "probe-protocol-unsupported"}
  Probe = "probe"
  MaxChanges = 2
  MaxFailed = 1
INVARIANTS
  TypeOK
  UnauthorisedIsReported
  LinksNeverGuess
  NoGuessBeyondAGap
  ConfidenceIsEarned
  LinksStayInContext
  FinalIsTrue
  ReanalysisIsStable
  PathReadsInOrder
PROPERTY
  RelistingIsHarmless
