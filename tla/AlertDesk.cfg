SPECIFICATION Spec
CONSTANTS
  Analysts = {ann, bob}
  Resolutions = {fraud, benign}
  Rules = {r1}
  PageSize = 1
  MaxAlerts = 2
  MaxRequests = 3
INVARIANTS
  TypeOK
  VerdictOfOneRequest
  TogglesCount
  ListingComplete
CHECK_DEADLOCK FALSE
