SPECIFICATION Spec
CONSTANTS
  Server = {s1, s2}
  Browser = {b1, b2}
  Tab = {t1, t2}
  ann = ann
  acme = acme
  globex = globex
  issuer = issuer
  forge = forge
  Person = {ann}
  Admin = root
  Account = {acme, globex}
  Origin = {issuer, forge}
  AuthFiles <- MCAuthFiles
  Mapped <- MCMapped
  Belongs <- MCBelongs
  MaxLoginStates = 1
  SignInBounds <- MCSignInBounds
  Repos = {1, 2, 3}
  Pulls = {1, 2, 3}
  Problems = {1, 2, 3}
  Filters <- MCFilters
  PageSize = 1
  ListingBounds <- MCListingBounds
  Owner = {acme, globex}
  Vendor = {openrouter, own}
  App = {main, side}
  Blank = Blank
  ConfigBounds <- MCConfigBounds
  Pod = {p1, p2}
  Replicas = 1
  RouteLag = 1
  Linger = 2
  StepDrain = 2
  StepMost = 2
  QueueDrain = 3
  Headroom = 2
  Grace = 5
  RolloutBounds <- MCRolloutBounds
  AdminSettings <- MCAdminSettings
  Documents <- MCDocuments
  Trees <- MCTrees
  Changes <- MCChanges
  Deep = {"lib/y"}
  Room <- MCRoom
  NoFile = NoFile
  BriefingBounds <- MCBriefingBounds
INVARIANTS TypeOK GrantsFollowTheFile SignInsAreSingle PagesLeaveNothingOut SettingsHold NothingLeftOutUnsaid 
CHECK_DEADLOCK FALSE
