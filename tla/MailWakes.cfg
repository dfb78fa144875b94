SPECIFICATION FairSpec
CONSTANTS
  a1 = a1
  a2 = a2
  h1 = h1
  r1 = r1
  r2 = r2
  Accounts <- MCBoth
  Registered <- MCBoth
  Hooks <- MCHooks
  Renewers <- MCRenewer
  NoAccount = NoAccount
  Unset = Unset
  Torn = Torn
  MaxEmails = 1
  MaxMail = 1
  MaxFaults = 1
  MaxCrashes = 1
  MaxRenewals = 0
PROPERTY WakeServed
