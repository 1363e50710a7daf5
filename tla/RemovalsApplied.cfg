SPECIFICATION Spec
CONSTANTS
  Mails <- SmallMails
  Mods <- SomeMods
  Scans <- SomeScans
  MaxMods = 2
  Recipient = "rcpt"
  Text <- AllText
  None = None
CHECK_DEADLOCK FALSE
PROPERTIES
  RemovalsApplied
