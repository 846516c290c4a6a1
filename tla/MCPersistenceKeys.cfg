CONSTANTS
  Accounts <- MCAccounts
  AccountContent <- MCAccountContent
  HostKeys = {rsa, ed25519}
  KeyContent <- MCKeyContent
  Factory = "factory"
  MaxCommands = 2
  Absent = Absent
  Partial = Partial
SPECIFICATION MCFairSpec
PROPERTIES AuthorizedIsRestored
