\* Wi-Fi, onboarding and boot with one fault and two failures of the station.
CONSTANTS
  MaximumRetry = 1
  MaxDrops = 2
  Keys = {k1, k2, k3, k4}
  Claim = claim
  Flashed = flashed
  None = none
  MaxFaults = 1
  MaxJobs = 1
SPECIFICATION BootSpec
\* A device that is up and not disturbed has nothing left to do here.
CHECK_DEADLOCK FALSE
INVARIANTS
  BootTypeOK
  StrandedOnlyWhenExhausted
  OnboardedIsUsable
PROPERTIES
  EventuallyUp
