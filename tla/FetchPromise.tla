---------------------------- MODULE FetchPromise ----------------------------
(***************************************************************************)
(* What a caller of the relay client may rely on: a fetch returns once,    *)
(* with events some relay holds, and what it has returned does not change  *)
(* afterwards.  Which of them it returns is left open, as it is where      *)
(* CatalogSync and Lifecycle fetch.                                        *)
(***************************************************************************)
CONSTANT Stored   \* the events the relays hold

VARIABLES
  done,     \* the fetch has returned
  answer    \* what it returned

Init == done = FALSE /\ answer = {}

Return ==
  /\ ~done
  /\ done' = TRUE
  /\ answer' \in SUBSET Stored

Spec == Init /\ [][Return]_<<done, answer>>
=============================================================================
