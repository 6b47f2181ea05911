SPECIFICATION Spec
CONSTANTS
  Finding = {f1, f2}
  Blocking = {f1}
  Nits = {f2}
  Publisher = {p1, p2}
  Bounds <- MCBounds
  Path <- MCPath
  Version <- MCVersion
  Doc <- MCDoc
  MaxDeltaFiles = 2
  MaxChangedLines = 1
  RereviewBounds <- MCRereviewBounds
  Mask = {old, new}
  Secretive = {0, 2}
  RunCap = 5
  TranscriptBounds <- MCTranscriptBounds
  Diffs <- MCDiffs
  Reported <- MCReported
  MaxReported = 2
  Options <- MCOptions
  RuleGiven = {"r"}
  AnswerBounds <- MCAnswerBounds
INVARIANT ApprovalFindsNothing
CHECK_DEADLOCK FALSE
