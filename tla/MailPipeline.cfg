SPECIFICATION Spec
CONSTANTS
  a1 = a1
  a2 = a2
  h1 = h1
  r1 = r1
  r2 = r2
  Accounts <- MCOne
  Registered <- MCNone
  Hooks <- MCNone
  Renewers <- MCRenewers
  NoAccount = NoAccount
  Unset = Unset
  Torn = Torn
  MaxEmails = 2
  MaxMail = 3
  MaxFaults = 2
  MaxCrashes = 1
  MaxRenewals = 2
SYMMETRY MCSymmetry
INVARIANTS
  TypeOK
  NoMailSkipped
  RepeatsExplained
