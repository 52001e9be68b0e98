SPECIFICATION Spec
CONSTANTS
  Accounts = {alice, bob}
  Rival = rival
  Nobody = Nobody
  Slugs = {s1}
  NoSlug = NoSlug
  MaxChanges = 3
  MaxEdits = 2
  MaxClicks = 4
SYMMETRY Interchangeable
INVARIANTS SessionIsOfConnected AvailabilityIsOfSlug PaysItsOwner
CHECK_DEADLOCK FALSE
