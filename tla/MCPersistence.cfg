CONSTANTS
  Accounts <- MCAccounts
  AccountContent <- MCAccountContent
  HostKeys = {rsa, ed25519}
  KeyContent <- MCKeyContent
  Factory = "factory"
  MaxCommands = 2
  Absent = Absent
  Partial = Partial
SPECIFICATION MCSpec
INVARIANTS TypeOK
PROPERTIES AllOrNothing SavedIsRestored ImplementsSavedGroups
SYMMETRY HostKeysAlike
