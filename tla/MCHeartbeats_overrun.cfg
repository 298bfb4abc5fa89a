SPECIFICATION Spec
CONSTANTS
  p1 = p1
  p2 = p2
  watch = watch
  manual = manual
  Profiles = {p1}
  NoProfile = NoProfile
  Policies = {}
  Beats = {watch, manual}
  Scheduler = watch
  NoLease = NoLease
  Expired = Expired
  MaxProfiles = 1
  Desks = {}
  Items = {}
  OnTime = FALSE
PROPERTIES
  LeaseIsItsHolders
