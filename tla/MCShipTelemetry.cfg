SPECIFICATION FairSpec
CONSTANTS
  fix = fix
  echo = echo
  hail = hail
  boat = boat
  self = self
  none = none
  ours = ours
  vessels = vessels
  fleet = fleet
  Blobs <- MCBlobs
  From <- MCFrom
  Claims <- MCClaims
  Proof <- MCProof
  Channel <- MCChannel
  Carries <- MCCarries
  Self = self
  NoMmsi = none
  Mmsis = {ours}
  Channels = {vessels, fleet}
  Settings <- MCSettings
  Budgets <- MCBudgets
INVARIANTS
  OthersOnly
  NoStaleBacklog
  SubscriptionFollowsTap
PROPERTY EveryBlobHandled
