CONSTANTS
  server = server
  ca = ca
  UIDs <- MCUIDs
  Arrivals = {}
  PreCapSets <- MCCapSets
  PostCapSets <- MCCapSets
  DeleteOpts = {FALSE}
  Statuses = {"OK"}
  ConnResults = {"ok", "error"}
  CloseErrors = {"eof"}
  ShutdownResults = {"ok"}
  MayDrop = FALSE
  MayExpunge = FALSE
  MaxRuns = 1
  Certs <- MCCerts
  MaxChain = 2
  NoPin = NoPin

SPECIFICATION SecureSpec

INVARIANT PasswordOnlyToPinnedServer
