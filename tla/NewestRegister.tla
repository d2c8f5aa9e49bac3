--------------------------- MODULE NewestRegister ---------------------------
(***************************************************************************)
(* What a projection of replaceable events promises, whatever the order    *)
(* the events come in: at every moment its view holds, for each key, a     *)
(* newest acceptable event among those offered so far, and a step never    *)
(* replaces a held event by one that is not strictly newer.  Which of two  *)
(* equally new events is held is left open.  CatalogStore implements this  *)
(* twice, with its declarations and with its attestations.                 *)
(***************************************************************************)
EXTENDS Integers

CONSTANTS
  Event,     \* everything that may be offered
  Accepted,  \* the events the projection takes, a subset of Event
  KeyOf,     \* KeyOf[e]: the key event e is kept under
  At         \* At[e]: the date of event e, an integer

VARIABLES
  offered,   \* the events offered so far
  view       \* the event held under each key that has one

vars == <<offered, view>>

\* v holds a newest acceptable event of S under every key that has any.
NewestOf(S, v) ==
  /\ DOMAIN v = {KeyOf[e] : e \in S \cap Accepted}
  /\ \A k \in DOMAIN v :
       /\ v[k] \in S \cap Accepted
       /\ KeyOf[v[k]] = k
       /\ \A e \in S \cap Accepted : KeyOf[e] = k => At[e] <= At[v[k]]

\* w keeps every event of v or holds a strictly newer one in its place.
NeverOlder(v, w) ==
  \A k \in DOMAIN v :
    /\ k \in DOMAIN w
    /\ w[k] = v[k] \/ At[w[k]] > At[v[k]]

Init == offered = {} /\ view = [k \in {} |-> k]

Offer(e) ==
  /\ offered' = offered \cup {e}
  /\ NewestOf(offered', view')
  /\ NeverOlder(view, view')

Next == \E e \in Event : Offer(e)

Spec == Init /\ [][Next]_vars
=============================================================================
