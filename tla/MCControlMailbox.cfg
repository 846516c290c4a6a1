CONSTANTS
  Field <- MCField
  Value <- MCValue
  Reset0 = 0
SPECIFICATION FairSpec
INVARIANTS TypeOK NewestKept OneTransfer
PROPERTIES ImplementsLatestWord MailboxFrozen Settles
