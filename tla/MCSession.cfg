CONSTANTS
  UIDs <- MCUIDs
  Arrivals <- MCArrivals
  PreCapSets <- MCPreCapSets
  PostCapSets <- MCPostCapSets
  DeleteOpts = {TRUE, FALSE}
  Statuses = {"OK"}
  ConnResults = {"ok"}
  CloseErrors = {"eof", "short_read"}
  ShutdownResults = {"ok", "short_read", "bad_record_mac"}
  MayDrop = FALSE
  MayExpunge = FALSE
  MaxRuns = 1

SPECIFICATION Spec

INVARIANT TypeOK
INVARIANT RegistryTracksOutstanding
INVARIANT NoLossOnDelete
INVARIANT CompleteDownload
INVARIANT NoSpuriousFailure
PROPERTY SessionTerminates
PROPERTY TransfersMail
