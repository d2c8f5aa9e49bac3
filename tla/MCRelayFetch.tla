---------------------------- MODULE MCRelayFetch ----------------------------
(***************************************************************************)
(* Two configured relays, one of which does not speak NIP-77, and one that *)
(* a publisher's latest list names; two slots for the three.  The lists    *)
(* hold an outdated relay, one for writing only, and a URL of no relay.    *)
(***************************************************************************)
EXTENDS RelayFetch

MCRelays == {"a", "b", "c", "d"}

MCConfigured == {"a", "b"}

Tag(url, marker) == [url |-> url, marker |-> marker]

MCRelayLists ==
  { [author |-> 1, createdAt |-> 1, tags |-> {Tag("d", "")}],
    [author |-> 1, createdAt |-> 2,
     tags |-> {Tag("c", "read"), Tag("d", "write"), Tag("http", "")}] }

MCNegentropy == {"a", "c", "d"}

MCHeld == [r \in MCRelays |-> CASE r = "a" -> {1, 2} [] r = "b" -> {3, 4}
                                [] r = "c" -> {2} [] OTHER -> {}]
=============================================================================
