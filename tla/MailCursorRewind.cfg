SPECIFICATION Spec
CONSTANTS
  a1 = a1
  a2 = a2
  h1 = h1
  r1 = r1
  r2 = r2
  Accounts <- MCOne
  Registered <- MCOne
  Hooks <- MCHooks
  Renewers <- MCRenewer
  NoAccount = NoAccount
  Unset = Unset
  Torn = Torn
  MaxEmails = 1
  MaxMail = 2
  MaxFaults = 0
  MaxCrashes = 0
  MaxRenewals = 1
PROPERTY CursorNeverRewinds
