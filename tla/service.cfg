SPECIFICATION ServiceSpec
CONSTANTS
  Requests = {"r1", "r2"}
  Limits <- MCLimits
INVARIANT TypeOK Inv ServesComplete PublishingIsNeverOpen NoHandlerIsCut ServiceTypeOK DownloadsAreCounted
PROPERTY BusyIsNotDead SignalIsHeeded ImplementsLimiter
