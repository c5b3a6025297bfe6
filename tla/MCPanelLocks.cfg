CONSTANTS
  IPs = {ip}
  Requests = {r1, r2}
  SessionIDs = {s1}
  Passwords = {old, new}
  ConfigPassword = old
  Settings <- MCSettings
  DefaultSettings <- MCDefault
  MaxMinutes = 2
  MaxAttempts = 2
  Renewal = 2
  None = None
  Torn = Torn
  MaxTime = 3
  MaxSalts = 1
  MaxCrashes = 0
  MaxArrivals = 6
SPECIFICATION Spec
SYMMETRY MCSymmetry
PROPERTY LocksServed
CHECK_DEADLOCK FALSE
