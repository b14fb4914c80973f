CONSTANTS
  UIDs <- MCFewUIDs
  Arrivals <- MCFewArrivals
  PreCapSets <- MCPreCapSets
  PostCapSets <- MCPostCapSets
  DeleteOpts = {TRUE, FALSE}
  Statuses = {"OK"}
  ConnResults = {"ok"}
  CloseErrors = {"eof", "short_read"}
  ShutdownResults = {"ok", "short_read", "bad_record_mac"}
  MayDrop = FALSE
  MayExpunge = TRUE
  MaxRuns = 1

SPECIFICATION Spec

INVARIANT NoLossOnDelete
INVARIANT ExpungeSparesOthers
PROPERTY SessionTerminates
