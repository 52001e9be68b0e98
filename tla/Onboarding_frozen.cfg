SPECIFICATION Spec
CONSTANTS
  Accounts = {alice}
  Rival = rival
  Nobody = Nobody
  Slugs = {s1, s2}
  NoSlug = NoSlug
  MaxChanges = 2
  MaxEdits = 2
  MaxClicks = 2
INVARIANT SlugIsFrozen
CHECK_DEADLOCK FALSE
