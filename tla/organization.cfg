SPECIFICATION Spec
CONSTANTS
  ann = ann  bob = bob  eve = eve
  i1 = i1  i2 = i2
  free = free  team2 = team2
  Users = {ann, bob, eve}
  PlatformOwners = {bob}
  Invites = {i1, i2}
  To <- MCTo
  As <- MCAs
  Plans = {free, team2}
  Seeded <- MCSeeded
  Limits <- MCLimits
  NoPlan = noplan
  Members <- MCMembers
  Titles = {t1, t2}
  Requests = {r1, r2}
  Handlers <- Teams
  Platform = {"code", "ai"}
  PlatformLimit <- MCPlatformLimit
  Cost <- MCCost
  Unset = unset
  Overrides = {unset, 0}
  LastPeriod = 1
  MaxCalls = 3
  Calls = {k1, k2}
  Exercises = {sum}
  Sessions = {s1, s2}
  Nothing = nothing
  intro = intro  course = course  nohref = nohref
  NoHref = nohref
  Outlines <- MCOutlines
  MaxItems = 3
  ScormOnPlatform = TRUE
  Packages = {pkg}
  Manifests <- MCManifests
  Batches <- MCBatches
  Learners = {ann}
  Players = {q1, q2}
  MaxAttempts = 2
  MaxSends = 3
  SimulationsOnPlatform = TRUE
  Slugs = {pendulum}
  Artifacts <- MCArtifacts
  Thresholds <- MCThresholds
  MaxParameters = 1
  Guests = {ann}
  Visits = {v1, v2}
  MaxInteractions = 2
  r1 = r1  r2 = r2  k1 = k1  k2 = k2  q1 = q1  q2 = q2  v1 = v1  v2 = v2  h1 = h1  h2 = h2
  none = none  NoBody = none
  PodcastsOnPlatform = TRUE
  Shows = {weekly, daily}
  Episodes = {e1, e2}
  Playlists = {best}
  Listeners = {ann}
  Hands = {h1, h2}
  LastTick = 2
  Threads = {hall}
  Posts = {p1, p2}
  Reports = {f1}
  Jobs = {j1}
  Tries = 2
  Chosen = {"broadcasts"}
  Chatters = {ann, bob}
  Nobody = nobody
  Videos = {film1, film2}
  Files = {sheet}
  Libraries = {lib1, lib2}
  NoLibrary = nolibrary
  Uploads = {h1, h2}
  MaxReports = 2
  Addresses = {home}
  RequestLimit = 3
  loginBackoffThreshold = 2
  LongestLock = 2
  Accounts = {eve}
  Attempts = {t1, t2}
  MaxFailures = 4
SYMMETRY Symmetric
INVARIANTS ReadyToPlay LockoutsEnd CountersMatchLedger LaunchesSound CompleteByThreshold NothingDangles DeliveredToAll
PROPERTIES ModerationHolds MailRespectsChoice JoinedByInvitation LastOwnerStepsDown NothingBeyondReport LimitHeldAlone CommitsFold
CHECK_DEADLOCK FALSE
