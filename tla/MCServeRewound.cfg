SPECIFICATION Spec
CONSTANTS
  Lookback = 3
  MaxAutoReviews = 1
  IntakeBounds <- MCIntakeBounds
  question = question
  command = command
  stray = stray
  Question = {question}
  Command = {command}
  Stray = {stray}
  FollowUpsPerHour = 1
  MentionAttempts = 2
  MentionBounds <- MCMentionBounds
  ListenBufferSize = 2
  ClientBuffer = 1
  LoadsAtOnce = 2
  LiveBounds <- MCLiveBounds
  Replica = {1, 2}
  Files = 2
  LeaderBounds <- MCLeaderBounds
  Runs = {run}
  Deadline = 2
  JobTTL = 1
  JobTimeout = 3
  LaunchWithin = 1
  Settle = 1
  Abandoned = 3
  MaxUnread = 2
  StartGrace = 2
  KubeBounds <- MCKubeBounds
PROPERTIES HeadNeverRewinds
CHECK_DEADLOCK FALSE
