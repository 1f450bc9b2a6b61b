SPECIFICATION ScSpec
CONSTANTS
  MaxFaults = 2
  MaxReboots = 1
  MaxRetries = 1
  UseMedia = TRUE
INVARIANT EndpointsSound
 
 
CHECK_DEADLOCK FALSE
