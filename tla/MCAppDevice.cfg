SPECIFICATION AppDeviceSpec
CONSTANTS
  Renewals = {r1, r2}
  MaxSecrets = 4
INVARIANT ReplayIsTheft
CHECK_DEADLOCK FALSE
