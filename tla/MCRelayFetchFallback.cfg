\* A relay without NIP-77 beside one with it yields nothing.  A fetch ends, so a
\* state without a successor is expected.
CONSTANTS
  Relays <- MCRelays
  Configured <- MCConfigured
  RelayLists <- MCRelayLists
  Negentropy <- MCNegentropy
  Held <- MCHeld
  Concurrency = 2
  PageSize = 1
SPECIFICATION Spec
CHECK_DEADLOCK FALSE
INVARIANT NegentropyIsOptional
