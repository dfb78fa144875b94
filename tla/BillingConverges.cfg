SPECIFICATION FairSpec
CONSTANTS
  a1 = a1
  a2 = a2
  owner = owner
  c1 = c1
  s1 = s1
  s2 = s2
  t1 = t1
  t2 = t2
  Nobody = Nobody
  Accounts <- MCAccounts
  Customers <- MCCustomers
  Subscriptions <- MCSubscriptions
  StampOf <- MCStampOf
  CustomerOf <- MCCustomerOf
  EmailOf <- MCEmailOf
  Returns <- MCOneReturn
  MaxAttempts = 2
  MaxChanges = 2
  MaxFaults = 2
  MaxCrashes = 1
  MaxConfirms = 1
PROPERTY PlanConverges
CHECK_DEADLOCK FALSE
