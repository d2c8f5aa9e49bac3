\* A fetch from relays that answer, fail or hang.  It returns, and what it left
\* behind may end: a state without a successor is expected.
CONSTANTS
  Relays <- MCRelays
  Configured <- MCConfigured
  RelayLists <- MCRelayLists
  Negentropy <- MCNegentropy
  Held <- MCHeld
  Concurrency = 2
  PageSize = 1
SPECIFICATION FairSpec
CHECK_DEADLOCK FALSE
INVARIANTS
  TypeOK
  AnsweredIsReturned
  AsksWhereTold
  OverrunsAreLate
PROPERTIES
  FetchReturns
  ImplementsPromise
