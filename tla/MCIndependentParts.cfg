CONSTANTS
  Panels = {p1, p2}
  Lease = 2
  Waits = {0, 2}
  Occurrences = {2}
  Never = Never
  MaxChanges = 2
  Dispatchers = {d1, d2}
  Retries = 2
  MaxMishaps = 1
  Senders = {s1, s2}
  PushHandles = {h1, h2}
  NoHandle = NoHandle
  NoOne = NoOne
  PushTries = 2
  MaxNotices = 1
  MaxRegistrations = 2
  Newest = 3
  StartsAllowed = 3
  Renewals = {r1, r2}
  MaxSecrets = 4
  Levels <- MCLevels
  MaxAge = 4
  Grace = 3
  Grouping = 1
  Requested = 4
  Horizon = 5
  MaxEvents = 2
  Labels = {l1}
  ZonePlaces = {z1, z2}
  Wishes <- MCWishes
  Unclaimed = Unclaimed
  MaxTurns = 2
SPECIFICATION Spec
INVARIANTS
  TypeOK
  OncePerPanel OneExecution ToldOnce
  OnePostPerAttempt Queued
  RevokedIsSilent HandleKept PushesBounded
  InService WayBack
  SecretsAgree GrantedOnce
  FirstOfSlotKept KeptAsPromised
  ZoneAsListed
PROPERTIES
  DueScheduleRuns
  ClosedForGood DeliveryFinishes
  RefusedForGood TrialFinishes
CHECK_DEADLOCK FALSE
