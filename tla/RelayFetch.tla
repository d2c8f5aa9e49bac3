----------------------------- MODULE RelayFetch -----------------------------
(***************************************************************************)
(* One fetch of one kind of declaration: the relays it asks (discovery by  *)
(* NIP-65 lists), fetchAll with its bounded workers, the deadline of each  *)
(* reconciliation, the memory store all reconciliations publish into, and  *)
(* the plain query fetchAll falls back to.                                 *)
(*                                                                         *)
(* A worker hands its reconciliation to a goroutine of its own and waits   *)
(* for it or for the deadline.  The SDK's reconciliation may ignore its    *)
(* context: one that is abandoned goes on publishing, even after fetchAll  *)
(* has returned.  A reconciliation that succeeds has published what the    *)
(* relay holds; one that fails may have published some of it.              *)
(***************************************************************************)
EXTENDS Integers, FiniteSets

CONSTANTS
  Relays,       \* the relay URLs there are
  Configured,   \* Client.urls
  RelayLists,   \* the kind-10002 events of the publishers
  Negentropy,   \* the relays that speak NIP-77
  Held,         \* Held[r]: the events relay r holds
  Concurrency,  \* fetchAllConcurrency
  PageSize      \* how many events a relay returns to a plain query

ASSUME RelaysAssumption == IsFiniteSet(Relays) /\ Configured \subseteq Relays

ASSUME HeldAssumption == \A r \in Relays : IsFiniteSet(Held[r])

ASSUME BoundsAssumption == Concurrency \in Nat \ {0} /\ PageSize \in Nat

VARIABLES
  phase,     \* where the fetch is
  lists,     \* the relay lists discovery was given
  urls,      \* the relays this fetch asks
  worker,    \* worker[r]: the goroutine that holds a slot for r, and its end
  sync,      \* sync[r]: the reconciliation with r
  store,     \* memoryStore.events
  lastErr,   \* lastErr # nil
  result     \* the events gathered so far, and at last returned

vars == <<phase, lists, urls, worker, sync, store, lastErr, result>>

Stored == UNION {Held[r] : r \in Relays}

\* A worker ends with what it learnt: the relay was reconciled, it failed, it
\* did not answer in time, its page was read, or its query was not completed.
WorkerStates ==
  {"unstarted", "working", "reconciled", "failed", "late", "paged", "unreachable"}

TypeOK ==
  /\ phase \in {"discovering", "reconciling", "collecting", "querying", "returned"}
  /\ lists \subseteq RelayLists
  /\ urls \subseteq Relays
  /\ worker \in [Relays -> WorkerStates]
  /\ sync \in [Relays -> {"idle", "running", "succeeded", "failed"}]
  /\ store \subseteq Stored /\ result \subseteq Stored
  /\ lastErr \in BOOLEAN

Init ==
  /\ phase = "discovering"
  /\ lists = {} /\ urls = {}
  /\ worker = [r \in Relays |-> "unstarted"]
  /\ sync = [r \in Relays |-> "idle"]
  /\ store = {} /\ result = {}
  /\ lastErr = FALSE

-----------------------------------------------------------------------------
(* Discovery. *)

\* The selections relayURLsFromNIP65 may make of the lists in S: a newest one
\* of each author, whichever of equally new ones comes first.
LatestLists(S) ==
  {L \in SUBSET S :
     /\ \A l \in S : \E m \in L : m.author = l.author /\ m.createdAt >= l.createdAt
     /\ \A l, m \in L : l.author = m.author => l = m}

ReadRelaysBug(L) == Relays \cap UNION {{t.url : t \in l.tags} : l \in L}

\* The relays a list does not name for writing only, if they are relay URLs.
ReadRelays(L) ==
  Relays \cap UNION {{t.url : t \in {u \in l.tags : u.marker # "write"}} : l \in L}

DiscoverBug ==
  /\ phase = "discovering"
  /\ \E answered \in SUBSET RelayLists :
       /\ lists' = answered
       /\ \E L \in LatestLists(answered) :
            urls' = Configured \cup UNION {{t.url : t \in l.tags} : l \in L}
  /\ phase' = "reconciling"
  /\ UNCHANGED <<worker, sync, store, lastErr, result>>

\* The configured relays return some of the publishers' lists.
Discover ==
  /\ phase = "discovering"
  /\ \E answered \in SUBSET RelayLists :
       /\ lists' = answered
       /\ \E L \in LatestLists(answered) : urls' = Configured \cup ReadRelays(L)
  /\ phase' = "reconciling"
  /\ UNCHANGED <<worker, sync, store, lastErr, result>>

-----------------------------------------------------------------------------
(* Reconciliation. *)

Working == {r \in urls : worker[r] = "working"}

AllEnded == \A r \in urls : worker[r] \notin {"unstarted", "working"}

SpawnBug(r) ==
  /\ phase = "reconciling"
  /\ r \in urls /\ worker[r] = "unstarted"
  /\ worker' = [worker EXCEPT ![r] = "working"]
  /\ sync' = [sync EXCEPT ![r] = "running"]
  /\ UNCHANGED <<phase, lists, urls, store, lastErr, result>>

\* The loop waits for a slot, then starts the worker and its reconciliation.
Spawn(r) ==
  /\ phase = "reconciling"
  /\ r \in urls /\ worker[r] = "unstarted"
  /\ Cardinality(Working) < Concurrency
  /\ worker' = [worker EXCEPT ![r] = "working"]
  /\ sync' = [sync EXCEPT ![r] = "running"]
  /\ UNCHANGED <<phase, lists, urls, store, lastErr, result>>

PublishBug(r, e) ==
  /\ sync[r] = "running" /\ r \in Negentropy
  /\ e \in Held[r] \ store
  /\ store' = store \cup {e}
  /\ result' = IF phase = "returned" THEN store' ELSE result
  /\ UNCHANGED <<phase, lists, urls, worker, sync, lastErr>>

\* memoryStore.Publish, whether or not anyone still waits for r.
Publish(r, e) ==
  /\ sync[r] = "running" /\ r \in Negentropy
  /\ e \in Held[r] \ store
  /\ store' = store \cup {e}
  /\ UNCHANGED <<phase, lists, urls, worker, sync, lastErr, result>>

SyncSucceeds(r) ==
  /\ sync[r] = "running" /\ r \in Negentropy
  /\ Held[r] \subseteq store
  /\ sync' = [sync EXCEPT ![r] = "succeeded"]
  /\ UNCHANGED <<phase, lists, urls, worker, store, lastErr, result>>

\* The relay cannot be reached, does not speak NIP-77, or breaks off.
SyncFails(r) ==
  /\ sync[r] = "running"
  /\ sync' = [sync EXCEPT ![r] = "failed"]
  /\ UNCHANGED <<phase, lists, urls, worker, store, lastErr, result>>

\* runWithDeadline returns what the reconciliation returned.
Finish(r) ==
  /\ worker[r] = "working" /\ sync[r] \in {"succeeded", "failed"}
  /\ phase # "querying"
  /\ worker' = [worker EXCEPT
                  ![r] = IF sync[r] = "succeeded" THEN "reconciled" ELSE "failed"]
  /\ lastErr' = (lastErr \/ sync[r] = "failed")
  /\ UNCHANGED <<phase, lists, urls, sync, store, result>>

DeadlineBug(r) ==
  /\ worker[r] = "working" /\ phase # "querying"
  /\ sync[r] # "running"
  /\ worker' = [worker EXCEPT ![r] = "late"]
  /\ lastErr' = TRUE
  /\ UNCHANGED <<phase, lists, urls, sync, store, result>>

\* The deadline passes first, or the select prefers it: the reconciliation is
\* left to itself and its slot is free.
Deadline(r) ==
  /\ worker[r] = "working" /\ phase # "querying"
  /\ worker' = [worker EXCEPT ![r] = "late"]
  /\ lastErr' = TRUE
  /\ UNCHANGED <<phase, lists, urls, sync, store, result>>

DecideBug ==
  /\ phase = "reconciling" /\ \A r \in urls : worker[r] # "unstarted"
  /\ phase' = "collecting"
  /\ UNCHANGED <<lists, urls, worker, sync, store, lastErr, result>>

\* Every worker has ended: fall back when nothing came and something failed.
Decide ==
  /\ phase = "reconciling" /\ AllEnded
  /\ IF store = {} /\ lastErr
       THEN /\ phase' = "querying"
            /\ worker' = [r \in Relays |-> "unstarted"]
       ELSE phase' = "collecting" /\ UNCHANGED worker
  /\ UNCHANGED <<lists, urls, sync, store, lastErr, result>>

\* The snapshot that is returned is taken later than the one decided upon.
Collect ==
  /\ phase = "collecting"
  /\ result' = store
  /\ phase' = "returned"
  /\ UNCHANGED <<lists, urls, worker, sync, store, lastErr>>

-----------------------------------------------------------------------------
(* The fallback. *)

Ask(r) ==
  /\ phase = "querying"
  /\ r \in urls /\ worker[r] = "unstarted"
  /\ Cardinality(Working) < Concurrency
  /\ worker' = [worker EXCEPT ![r] = "working"]
  /\ UNCHANGED <<phase, lists, urls, sync, store, lastErr, result>>

\* A relay answers a plain query with what it holds, a page at most.
Pages(r) ==
  {P \in SUBSET Held[r] : Cardinality(P) = PageSize}
    \cup (IF Cardinality(Held[r]) <= PageSize THEN {Held[r]} ELSE {})

QueryAnswers(r) ==
  /\ phase = "querying" /\ worker[r] = "working"
  /\ \E page \in Pages(r) : result' = result \cup page
  /\ worker' = [worker EXCEPT ![r] = "paged"]
  /\ UNCHANGED <<phase, lists, urls, sync, store, lastErr>>

\* No connection, an error, or the end of the ten seconds: QuerySync returns
\* what had come until then, which may be nothing.
QueryFails(r) ==
  /\ phase = "querying" /\ worker[r] = "working"
  /\ \E part \in SUBSET Held[r] :
       /\ Cardinality(part) <= PageSize
       /\ result' = result \cup part
  /\ worker' = [worker EXCEPT ![r] = "unreachable"]
  /\ UNCHANGED <<phase, lists, urls, sync, store, lastErr>>

EndQuery ==
  /\ phase = "querying" /\ AllEnded
  /\ phase' = "returned"
  /\ UNCHANGED <<lists, urls, worker, sync, store, lastErr, result>>

-----------------------------------------------------------------------------

Client ==
  \/ Discover \/ Decide \/ Collect \/ EndQuery
  \/ \E r \in Relays : Spawn(r) \/ Finish(r) \/ Deadline(r) \/ Ask(r) \/ QueryFails(r)

Next ==
  \/ Client
  \/ \E r \in Relays : \E e \in Held[r] : Publish(r, e)
  \/ \E r \in Relays : SyncSucceeds(r) \/ SyncFails(r) \/ QueryAnswers(r)

Spec == Init /\ [][Next]_vars

\* The client's steps are plain code and timers.  No relay owes an answer.
FairSpec == Spec /\ WF_vars(Client)

-----------------------------------------------------------------------------
(* Properties. *)

\* No answer is lost between the relays, the shared store and the caller: what
\* a relay held whose reconciliation or query ended in time is returned, as
\* far as a page goes, whatever the other relays did (fetchAll).
AnsweredIsReturned ==
  phase = "returned" =>
    \A r \in urls :
      /\ worker[r] = "reconciled" => Held[r] \subseteq result
      /\ worker[r] = "paged" =>
           \/ Held[r] \subseteq result
           \/ Cardinality(Held[r] \cap result) >= PageSize

\* Discovery adds a relay only on the word of a publisher's latest list among
\* those it was given, and never drops a configured one (discoverRelayURLs).
AsksWhereTold ==
  phase # "discovering" =>
    /\ Configured \subseteq urls
    /\ \A r \in urls \ Configured :
         \E l \in lists :
           /\ \E t \in l.tags : t.url = r /\ t.marker # "write"
           /\ \A m \in lists : m.author = l.author => m.createdAt <= l.createdAt

\* Only reconciliations abandoned at their deadline run without a slot: the
\* number of connections exceeds the bound by no more than them.
OverrunsAreLate ==
  phase = "reconciling" =>
    Cardinality({r \in Relays : sync[r] = "running"})
      <= Concurrency + Cardinality({r \in Relays : worker[r] = "late"})

\* A fetch returns although no relay ever answers or heeds its context
\* (runWithDeadline, TestFetchAllSurvivesAStuckRelay).
FetchReturns == <>(phase = "returned")

\* A relay that fails to reconcile, as one without NIP-77 does, still yields
\* some of its events rather than nothing (the comment on FetchAll).
NegentropyIsOptional ==
  phase = "returned" =>
    \A r \in urls :
      (worker[r] = "failed" /\ Held[r] # {}) => Held[r] \cap result # {}

Promise ==
  INSTANCE FetchPromise WITH
    done <- phase = "returned",
    answer <- IF phase = "returned" THEN result ELSE {}

\* A fetch keeps its promise: late reconciliations do not change what it
\* returned, nor does it return what no relay holds.
ImplementsPromise == Promise!Spec
=============================================================================
