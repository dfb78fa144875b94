SPECIFICATION FairSpec
CONSTANTS
  a1 = a1
  a2 = a2
  owner = owner
  c1 = c1
  s1 = s1
  s2 = s2
  t1 = t1
  t2 = t2
  Nobody = Nobody
  Accounts <- MCOneAccount
  Customers <- MCCustomers
  Subscriptions <- MCOneSubscription
  StampOf <- MCOneStampOf
  CustomerOf <- MCOneCustomerOf
  EmailOf <- MCUnknownEmailOf
  Returns <- MCOneReturn
  MaxAttempts = 2
  MaxChanges = 2
  MaxFaults = 0
  MaxCrashes = 1
  MaxConfirms = 0
PROPERTY SelfHeals
CHECK_DEADLOCK FALSE
