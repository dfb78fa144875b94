SPECIFICATION Spec
CONSTANTS
  a1 = a1
  a2 = a2
  mail = mail
  web = web
  egress = egress
  None = None
  SCHEDULE <- MCSchedule
  Accounts = {a1, a2}
  MinutesPerHour = 2
  HoursPerDay = 2
  DaysPerWeek = 2
  LastMinute = 6
  MaxFaults = 1
  Roles = {mail, web, egress}
  MAIL = mail
  REPORTING = {mail, web}
  MaxIntrusions = 2
INVARIANTS
  TypesOK
  RunsExplained
PROPERTIES
  CaughtUp
  EveryIntrusionHeard
CHECK_DEADLOCK FALSE
