SPECIFICATION FairSpec
CONSTANTS
  Ancestors <- MCAncestors
  MaxPending = 3
  Listed <- MCListed
  Typed <- MCTyped
  ProxyURLs <- MCProxyURLs
  MaxRequests = 3
  MaxExpiries = 1
INVARIANTS SettledShowsSelection FullscreenRestored ViewsAgree
PROPERTIES VerdictIsBest CheckingEnds
CHECK_DEADLOCK FALSE
