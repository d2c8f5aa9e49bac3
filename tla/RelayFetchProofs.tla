-------------------------- MODULE RelayFetchProofs --------------------------
(***************************************************************************)
(* Proofs about RelayFetch, for any relays and what they hold, any relay   *)
(* lists, page size and bound on the workers.                              *)
(***************************************************************************)
EXTENDS RelayFetch, FiniteSetTheorems, TLAPS

-----------------------------------------------------------------------------
(* Type correctness. *)

\* Whatever the relays answer, the fetch stays within its states, asks relays
\* only, and gathers nothing that no relay holds.
THEOREM TypeCorrect == Spec => []TypeOK
<1>1. Init => TypeOK
  BY DEF Init, TypeOK, WorkerStates
<1>2. TypeOK /\ [Next]_vars => TypeOK'
  <2> SUFFICES ASSUME TypeOK, [Next]_vars PROVE TypeOK'
    OBVIOUS
  <2> USE DEF TypeOK, WorkerStates
  <2>1. CASE Discover
    BY <2>1, RelaysAssumption DEF Discover, ReadRelays
  <2>2. CASE Decide
    <3>1. CASE store = {} /\ lastErr
      BY <2>2, <3>1 DEF Decide
    <3>2. CASE ~(store = {} /\ lastErr)
      BY <2>2, <3>2 DEF Decide
    <3>3. QED BY <3>1, <3>2
  <2>3. CASE Collect
    BY <2>3 DEF Collect
  <2>4. CASE EndQuery
    BY <2>4 DEF EndQuery
  <2>5. ASSUME NEW r \in Relays, Spawn(r) \/ Finish(r) \/ Deadline(r) \/ Ask(r)
        PROVE  TypeOK'
    <3>1. lastErr' \in BOOLEAN
      BY <2>5 DEF Spawn, Finish, Deadline, Ask
    <3>2. worker' \in [Relays -> WorkerStates]
      BY <2>5 DEF Spawn, Finish, Deadline, Ask
    <3>3. sync' \in [Relays -> {"idle", "running", "succeeded", "failed"}]
      BY <2>5 DEF Spawn, Finish, Deadline, Ask
    <3>4. QED BY <2>5, <3>1, <3>2, <3>3 DEF Spawn, Finish, Deadline, Ask
  <2>6. ASSUME NEW r \in Relays, NEW e \in Held[r], Publish(r, e) PROVE TypeOK'
    <3>1. e \in Stored
      BY DEF Stored
    <3>2. QED BY <2>6, <3>1 DEF Publish
  <2>7. ASSUME NEW r \in Relays, SyncSucceeds(r) \/ SyncFails(r) PROVE TypeOK'
    BY <2>7 DEF SyncSucceeds, SyncFails
  <2>8. ASSUME NEW r \in Relays, QueryAnswers(r) \/ QueryFails(r) PROVE TypeOK'
    <3>1. PICK page \in SUBSET Held[r] : result' = result \cup page
      BY <2>8 DEF QueryAnswers, QueryFails, Pages
    <3>2. page \subseteq Stored
      BY <3>1 DEF Stored
    <3>3. QED BY <2>8, <3>1, <3>2 DEF QueryAnswers, QueryFails
  <2>9. CASE UNCHANGED vars
    BY <2>9 DEF vars
  <2>10. QED
    BY <2>1, <2>2, <2>3, <2>4, <2>5, <2>6, <2>7, <2>8, <2>9 DEF Next, Client
<1>3. QED BY <1>1, <1>2, PTL DEF Spec

-----------------------------------------------------------------------------
(* Discovery. *)

\* The relays asked are fixed by discovery, which goes by latest lists.
THEOREM AlwaysAsksWhereTold == Spec => []AsksWhereTold
<1>1. Init => AsksWhereTold
  BY DEF Init, AsksWhereTold
<1>2. AsksWhereTold /\ [Next]_vars => AsksWhereTold'
  <2> SUFFICES ASSUME AsksWhereTold, [Next]_vars PROVE AsksWhereTold'
    OBVIOUS
  <2>1. CASE Discover
    <3>1. PICK L \in LatestLists(lists') : urls' = Configured \cup ReadRelays(L)
      BY <2>1 DEF Discover
    <3>2. ASSUME NEW r \in urls', r \notin Configured
          PROVE  \E l \in lists' :
                   /\ \E t \in l.tags : t.url = r /\ t.marker # "write"
                   /\ \A m \in lists' : m.author = l.author => m.createdAt <= l.createdAt
      <4>1. r \in ReadRelays(L)
        BY <3>1, <3>2
      <4>2. PICK l \in L : \E t \in l.tags : t.url = r /\ t.marker # "write"
        BY <4>1 DEF ReadRelays
      <4>3. ASSUME NEW m \in lists', m.author = l.author PROVE m.createdAt <= l.createdAt
        <5>1. PICK n \in L : n.author = m.author /\ n.createdAt >= m.createdAt
          BY DEF LatestLists
        <5>2. n = l
          BY <5>1, <4>3 DEF LatestLists
        <5>3. QED BY <5>1, <5>2
      <4>4. l \in lists'
        BY DEF LatestLists
      <4>5. QED BY <4>2, <4>3, <4>4
    <3>3. QED BY <3>1, <3>2 DEF AsksWhereTold
  <2>2. CASE ~Discover
    <3>1. phase' # "discovering" => phase # "discovering"
      BY <2>2 DEF Next, Client, Decide, Collect, EndQuery, Spawn, Finish, Deadline, Ask,
         QueryFails, Publish, SyncSucceeds, SyncFails, QueryAnswers, vars
    <3>2. UNCHANGED <<lists, urls>>
      BY <2>2 DEF Next, Client, Decide, Collect, EndQuery, Spawn, Finish, Deadline, Ask,
         QueryFails, Publish, SyncSucceeds, SyncFails, QueryAnswers, vars
    <3>3. QED BY <3>1, <3>2 DEF AsksWhereTold
  <2>3. QED BY <2>1, <2>2
<1>3. QED BY <1>1, <1>2, PTL DEF Spec

-----------------------------------------------------------------------------
(* What was answered in time is returned. *)

\* A reconciliation that succeeded left all of its relay's events in the
\* store; no worker is at work once the fetch collects or has returned; a page
\* stays in the result.
Returned ==
  /\ \A r \in Relays :
       /\ worker[r] = "working" => r \in urls /\ phase \in {"reconciling", "querying"}
       /\ worker[r] \in {"reconciled", "failed", "late"} => phase # "querying"
       /\ (sync[r] = "succeeded" \/ worker[r] = "reconciled") => Held[r] \subseteq store
       /\ (worker[r] = "reconciled" /\ phase = "returned") => Held[r] \subseteq result
       /\ worker[r] = "paged" =>
            /\ phase \in {"querying", "returned"}
            /\ \/ Held[r] \subseteq result
               \/ Cardinality(Held[r] \cap result) >= PageSize
  /\ phase = "discovering" => \A r \in Relays : worker[r] = "unstarted"

\* A larger result holds no less of a relay's page.
LEMMA PagesGrow ==
  ASSUME NEW r \in Relays, NEW small, NEW large, small \subseteq large
  PROVE  /\ Cardinality(Held[r] \cap small) \in Nat
         /\ Cardinality(Held[r] \cap large) \in Nat
         /\ Cardinality(Held[r] \cap small) <= Cardinality(Held[r] \cap large)
<1>1. IsFiniteSet(Held[r])
  BY HeldAssumption
<1>2. IsFiniteSet(Held[r] \cap large)
  BY <1>1, FS_Subset
<1>3. Held[r] \cap small \subseteq Held[r] \cap large
  OBVIOUS
<1>4. IsFiniteSet(Held[r] \cap small)
  BY <1>2, <1>3, FS_Subset
<1>5. QED BY <1>2, <1>3, <1>4, FS_Subset, FS_CardinalityType

\* Nor does it hold less than a page where the smaller one held a page.
LEMMA PageStays ==
  ASSUME NEW r \in Relays, NEW small, NEW large, small \subseteq large,
         Held[r] \subseteq small \/ Cardinality(Held[r] \cap small) >= PageSize
  PROVE  Held[r] \subseteq large \/ Cardinality(Held[r] \cap large) >= PageSize
<1>1. CASE Held[r] \subseteq small
  BY <1>1
<1>2. CASE Cardinality(Held[r] \cap small) >= PageSize
  <2>1. /\ Cardinality(Held[r] \cap small) \in Nat
        /\ Cardinality(Held[r] \cap large) \in Nat
        /\ Cardinality(Held[r] \cap small) <= Cardinality(Held[r] \cap large)
    BY PagesGrow
  <2>2. QED BY <1>2, <2>1, BoundsAssumption
<1>3. QED BY <1>1, <1>2

LEMMA StepReturned == TypeOK /\ Returned /\ [Next]_vars => Returned'
<1> SUFFICES ASSUME TypeOK, Returned, [Next]_vars PROVE Returned'
  OBVIOUS
<1> USE DEF TypeOK, WorkerStates, Returned
<1>1. CASE Discover
  BY <1>1 DEF Discover
<1>2. CASE Decide
  <2>1. CASE store = {} /\ lastErr
    BY <1>2, <2>1 DEF Decide
  <2>2. CASE ~(store = {} /\ lastErr)
    BY <1>2, <2>2 DEF Decide, AllEnded
  <2>3. QED BY <2>1, <2>2
<1>3. CASE Collect
  BY <1>3 DEF Collect
<1>4. CASE EndQuery
  BY <1>4 DEF EndQuery, AllEnded
<1>5. ASSUME NEW r \in Relays, Spawn(r) PROVE Returned'
  BY <1>5 DEF Spawn
<1>6. ASSUME NEW r \in Relays, Finish(r) PROVE Returned'
  BY <1>6 DEF Finish
<1>7. ASSUME NEW r \in Relays, Deadline(r) PROVE Returned'
  BY <1>7 DEF Deadline
<1>8. ASSUME NEW r \in Relays, Ask(r) PROVE Returned'
  BY <1>8 DEF Ask
<1>9. ASSUME NEW r \in Relays, QueryFails(r) PROVE Returned'
  <2>1. /\ phase = "querying" /\ result \subseteq result'
        /\ worker' = [worker EXCEPT ![r] = "unreachable"]
        /\ UNCHANGED <<phase, urls, sync, store>>
    BY <1>9 DEF QueryFails
  <2>2. ASSUME NEW q \in Relays, worker'[q] = "paged"
        PROVE  Held[q] \subseteq result' \/ Cardinality(Held[q] \cap result') >= PageSize
    BY <2>1, <2>2, PageStays
  <2>3. QED BY <2>1, <2>2
<1>10. ASSUME NEW r \in Relays, NEW e \in Held[r], Publish(r, e) PROVE Returned'
  BY <1>10 DEF Publish
<1>11. ASSUME NEW r \in Relays, SyncSucceeds(r) PROVE Returned'
  BY <1>11 DEF SyncSucceeds
<1>12. ASSUME NEW r \in Relays, SyncFails(r) PROVE Returned'
  BY <1>12 DEF SyncFails
<1>13. ASSUME NEW r \in Relays, QueryAnswers(r) PROVE Returned'
  <2>1. PICK page \in Pages(r) : result' = result \cup page
    BY <1>13 DEF QueryAnswers
  <2>2. Held[r] \subseteq result' \/ Cardinality(Held[r] \cap result') >= PageSize
    <3>1. CASE page = Held[r]
      BY <2>1, <3>1
    <3>2. CASE page # Held[r]
      <4>1. page \subseteq Held[r] /\ Cardinality(page) = PageSize
        BY <3>2 DEF Pages
      <4>2. Held[r] \cap page = page
        BY <4>1
      <4>3. page \subseteq result'
        BY <2>1
      <4>4. QED BY <4>1, <4>2, <4>3, PagesGrow, BoundsAssumption
    <3>3. QED BY <3>1, <3>2
  <2>3. ASSUME NEW q \in Relays, worker[q] = "paged"
        PROVE  Held[q] \subseteq result' \/ Cardinality(Held[q] \cap result') >= PageSize
    BY <2>1, <2>3, PageStays
  <2>4. /\ phase = "querying" /\ worker' = [worker EXCEPT ![r] = "paged"]
        /\ UNCHANGED <<phase, urls, sync, store>>
    BY <1>13 DEF QueryAnswers
  <2>5. ASSUME NEW q \in Relays
        PROVE  /\ worker'[q] = "working" => q \in urls /\ phase \in {"reconciling", "querying"}
               /\ worker'[q] \notin {"reconciled", "failed", "late"}
               /\ sync[q] = "succeeded" => Held[q] \subseteq store
    BY <2>4
  <2>6. ASSUME NEW q \in Relays, worker'[q] = "paged"
        PROVE  Held[q] \subseteq result' \/ Cardinality(Held[q] \cap result') >= PageSize
    <3>1. CASE q = r
      BY <2>2, <3>1
    <3>2. CASE q # r
      BY <2>3, <2>4, <2>6, <3>2
    <3>3. QED BY <3>1, <3>2
  <2>7. QED BY <2>4, <2>5, <2>6
<1>14. CASE UNCHANGED vars
  BY <1>14 DEF vars
<1>15. QED
  BY <1>1, <1>2, <1>3, <1>4, <1>5, <1>6, <1>7, <1>8, <1>9, <1>10, <1>11, <1>12,
     <1>13, <1>14 DEF Next, Client

\* Nothing a relay answered in time is missing from what the fetch returns,
\* whatever deadlines, late reconciliations and failures there were.
THEOREM WhatIsAnsweredIsReturned == Spec => []AnsweredIsReturned
<1>1. Init => Returned
  BY DEF Init, Returned
<1>2. TypeOK /\ Returned => AnsweredIsReturned
  BY DEF TypeOK, Returned, AnsweredIsReturned
<1>3. QED BY <1>1, <1>2, StepReturned, TypeCorrect, PTL DEF Spec

-----------------------------------------------------------------------------
(* The bound on the connections. *)

\* While workers reconcile, a reconciliation runs under a worker that holds a
\* slot, or is late; and no more workers than there are slots are at work.
Bounded ==
  phase \in {"discovering", "reconciling"} =>
    /\ Cardinality({r \in Relays : worker[r] = "working"}) <= Concurrency
    /\ \A r \in Relays : sync[r] = "running" => worker[r] \in {"working", "late"}

LEMMA StepBounded == TypeOK /\ Returned /\ Bounded /\ [Next]_vars => Bounded'
<1> SUFFICES ASSUME TypeOK, Returned, Bounded, [Next]_vars PROVE Bounded'
  OBVIOUS
<1> DEFINE W == {r \in Relays : worker[r] = "working"}
           X == {r \in Relays : worker'[r] = "working"}
<1> USE DEF TypeOK, WorkerStates
<1>1. IsFiniteSet(W) /\ Cardinality(W) \in Nat
  BY RelaysAssumption, FS_Subset, FS_CardinalityType
<1>2. ASSUME X \subseteq W, phase \in {"discovering", "reconciling"}
      PROVE  Cardinality(X) <= Concurrency
  <2>1. Cardinality(X) <= Cardinality(W) /\ Cardinality(X) \in Nat
    <3> HIDE DEF W, X
    <3>1. QED BY <1>1, <1>2, FS_Subset, FS_CardinalityType
  <2>2. QED BY <2>1, <1>1, <1>2, BoundsAssumption DEF Bounded
<1>3. CASE Discover
  <2>1. X \subseteq W
    BY <1>3 DEF Discover
  <2>2. QED BY <2>1, <1>2, <1>3 DEF Discover, Bounded
<1>4. CASE Decide \/ Collect \/ EndQuery
  BY <1>4 DEF Decide, Collect, EndQuery, Bounded
<1>5. ASSUME NEW r \in Relays, Spawn(r) PROVE Bounded'
  <2>1. W = Working /\ Cardinality(W) < Concurrency
    BY <1>5 DEF Working, Spawn, Returned
  <2>2. X = W \cup {r} /\ r \notin W
    BY <1>5 DEF Spawn
  <2>3. Cardinality(X) = Cardinality(W) + 1
    <3> HIDE DEF W, X
    <3>1. QED BY <1>1, <2>2, FS_AddElement
  <2>4. Cardinality(X) <= Concurrency
    <3> HIDE DEF W, X
    <3>1. QED BY <1>1, <2>1, <2>3, BoundsAssumption
  <2>5. QED BY <2>4, <1>5 DEF Spawn, Bounded
<1>6. ASSUME NEW r \in Relays, Finish(r) \/ Deadline(r) PROVE Bounded'
  <2>1. X \subseteq W
    BY <1>6 DEF Finish, Deadline
  <2>2. phase' = phase /\ sync' = sync
    BY <1>6 DEF Finish, Deadline
  <2>3. \A q \in Relays :
          (sync[q] = "running" /\ worker[q] \in {"working", "late"})
            => worker'[q] \in {"working", "late"}
    BY <1>6 DEF Finish, Deadline
  <2>4. QED BY <2>1, <2>2, <2>3, <1>2 DEF Bounded
<1>7. ASSUME NEW r \in Relays, Ask(r) \/ QueryFails(r) \/ QueryAnswers(r) PROVE Bounded'
  BY <1>7 DEF Ask, QueryFails, QueryAnswers, Bounded
<1>8. ASSUME NEW r \in Relays, SyncSucceeds(r) \/ SyncFails(r) PROVE Bounded'
  BY <1>8 DEF SyncSucceeds, SyncFails, Bounded
<1>9. ASSUME NEW r \in Relays, NEW e \in Held[r], Publish(r, e) PROVE Bounded'
  BY <1>9 DEF Publish, Bounded
<1>10. CASE UNCHANGED vars
  BY <1>10 DEF vars, Bounded
<1>11. QED
  BY <1>3, <1>4, <1>5, <1>6, <1>7, <1>8, <1>9, <1>10 DEF Next, Client

\* The connections of a fetch outnumber its slots only by reconciliations
\* that were abandoned at their deadline.
THEOREM OverrunsAreAlwaysLate == Spec => []OverrunsAreLate
<1> DEFINE W == {r \in Relays : worker[r] = "working"}
           L == {r \in Relays : worker[r] = "late"}
           S == {r \in Relays : sync[r] = "running"}
<1>1. Init => Returned /\ Bounded
  <2> SUFFICES ASSUME Init PROVE Returned /\ Bounded
    OBVIOUS
  <2>1. W = {}
    BY DEF Init
  <2>2. Cardinality(W) = 0
    <3> HIDE DEF W
    <3>1. QED BY <2>1, FS_EmptySet
  <2>3. QED BY <2>2, BoundsAssumption DEF Init, Returned, Bounded
<1>2. TypeOK /\ Bounded => OverrunsAreLate
  <2> SUFFICES ASSUME TypeOK, Bounded, phase = "reconciling"
               PROVE  Cardinality(S) <= Concurrency + Cardinality(L)
    BY DEF OverrunsAreLate
  <2>1. IsFiniteSet(W) /\ IsFiniteSet(L) /\ S \subseteq W \cup L
    BY RelaysAssumption, FS_Subset DEF Bounded
  <2>2. Cardinality(W) <= Concurrency
    BY DEF Bounded
  <2> HIDE DEF W, L, S
  <2>3. /\ IsFiniteSet(W \cup L)
        /\ Cardinality(W \cup L) <= Cardinality(W) + Cardinality(L)
    <3>1. /\ IsFiniteSet(W \cup L)
          /\ Cardinality(W \cup L)
               = Cardinality(W) + Cardinality(L) - Cardinality(W \cap L)
      BY <2>1, FS_Union
    <3>2. IsFiniteSet(W \cap L)
      BY <2>1, FS_Intersection
    <3>3. /\ Cardinality(W) \in Nat /\ Cardinality(L) \in Nat
          /\ Cardinality(W \cap L) \in Nat
      BY <2>1, <3>2, FS_CardinalityType
    <3>4. QED BY <3>1, <3>3
  <2>4. Cardinality(S) <= Cardinality(W \cup L)
    BY <2>1, <2>3, FS_Subset
  <2>5. /\ Cardinality(S) \in Nat /\ Cardinality(W \cup L) \in Nat
        /\ Cardinality(W) \in Nat /\ Cardinality(L) \in Nat
    BY <2>1, <2>3, FS_Subset, FS_CardinalityType
  <2>6. QED BY <2>2, <2>3, <2>4, <2>5, BoundsAssumption
<1>3. QED BY <1>1, <1>2, StepReturned, StepBounded, TypeCorrect, PTL DEF Spec

-----------------------------------------------------------------------------
(* Refinement. *)

\* A fetch returns once, with events that relays hold, and what goes on in the
\* background afterwards does not reach its caller.
THEOREM KeepsItsPromise == Spec => ImplementsPromise
<1>1. Init => Promise!Init
  BY DEF Init, Promise!Init
<1>2. TypeOK /\ [Next]_vars
        => [Promise!Return]_<<phase = "returned", IF phase = "returned" THEN result ELSE {}>>
  <2> SUFFICES ASSUME TypeOK, [Next]_vars
               PROVE  \/ Promise!Return
                      \/ UNCHANGED <<phase = "returned",
                                     IF phase = "returned" THEN result ELSE {}>>
    OBVIOUS
  <2>1. CASE Collect
    BY <2>1 DEF Collect, Promise!Return, TypeOK
  <2>2. CASE EndQuery
    BY <2>2 DEF EndQuery, Promise!Return, TypeOK
  <2>3. CASE ~Collect /\ ~EndQuery
    <3>1. \/ phase # "returned" /\ phase' # "returned"
          \/ phase' = phase /\ result' = result
      BY <2>3 DEF Next, Client, Discover, Decide, Spawn, Finish, Deadline, Ask, QueryFails,
         Publish, SyncSucceeds, SyncFails, QueryAnswers, vars
    <3>2. QED BY <3>1
  <2>4. QED BY <2>1, <2>2, <2>3
<1>3. QED BY <1>1, <1>2, TypeCorrect, PTL DEF Spec, ImplementsPromise, Promise!Spec
=============================================================================
