CONSTANTS
  UIDs <- MCFewUIDs
  Arrivals <- MCFewArrivals
  PreCapSets <- MCPreCapSets
  PostCapSets <- MCPostCapSets
  DeleteOpts = {TRUE, FALSE}
  Statuses = {"OK", "NO"}
  ConnResults = {"ok", "error"}
  CloseErrors = {"eof", "short_read"}
  ShutdownResults = {"ok", "short_read", "bad_record_mac", "reset"}
  MayDrop = TRUE
  MayExpunge = FALSE
  MaxRuns = 2

SPECIFICATION Spec

INVARIANT NoLossOnDelete
 
PROPERTY TransfersMail
