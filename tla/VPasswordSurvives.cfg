CONSTANTS
  IPs = {ip}
  Requests = {r1, r2}
  SessionIDs = {s1, s2}
  Passwords = {old, new}
  ConfigPassword = old
  Settings <- MCSettings
  DefaultSettings <- MCDefault
  MaxMinutes = 2
  MaxAttempts = 2
  Renewal = 2
  None = None
  Torn = Torn
  MaxTime = 2
  MaxSalts = 3
  MaxCrashes = 1
  MaxArrivals = 4
SPECIFICATION Spec
SYMMETRY MCSymmetry
INVARIANT PasswordSurvivesRestart
CHECK_DEADLOCK FALSE
