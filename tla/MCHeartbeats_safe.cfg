SPECIFICATION Spec
CONSTANTS
  p1 = p1
  p2 = p2
  watch = watch
  manual = manual
  Profiles = {p1}
  NoProfile = NoProfile
  Policies = {stale}
  Beats = {watch, manual}
  Scheduler = watch
  NoLease = NoLease
  Expired = Expired
  MaxProfiles = 1
  Desks = {d1}
  Items = {i1, i2}
  OnTime = TRUE
INVARIANTS
  OneHeartbeatAtATime
  GatesStopHeartbeats
  OneGatePerQuestion
PROPERTIES
  LeaseIsItsHolders
SYMMETRY Alike
