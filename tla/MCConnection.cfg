\* The whole life of an epoch: a SASL policy with two exchange rounds, three
\* calls, three slots, two correlation ids and three identities, so that the
\* allocator wraps, skips ids in use and runs out.
SPECIFICATION FairSpec
CONSTANTS
  Calls = {c1, c2, c3}
  Effects = {e1, e2, e3}
  Timers = {t1, t2, t3}
  NoId = NoId
  HasPolicy = TRUE
  MaxCapabilities = 1
  MaxExchangeRounds = 2
  MaxInFlight = 3
  MaxCorrelation = 1
  MaxMoment = 1
  AuthFailures = {"Timeout", "TooManyRounds", "Protocol"}
  NegotiationFailures = {"Timeout", "Capacity"}
  TransportFailures = {"TimedOut"}
INVARIANTS
  CallAccounting
  FifoCompletion
  TruthfulDelivery
  UniqueIdentities
  HonestBlame
  TimersExact
  SessionMirrors
PROPERTIES
  StagesEnd
CHECK_DEADLOCK FALSE
