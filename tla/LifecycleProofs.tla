-------------------------- MODULE LifecycleProofs --------------------------
(***************************************************************************)
(* Proofs about Lifecycle, for any processes, allow-lists and events.      *)
(***************************************************************************)
EXTENDS Lifecycle, TLAPS

-----------------------------------------------------------------------------
(* What applying an event does to a copy of the projection. *)

LEMMA Dates ==
  /\ \A e \in Declarations : e.createdAt \in Int
  /\ \A a \in Attestations : a.createdAt \in Int
BY DeclarationsAssumption, AttestationsAssumption
   DEF DeclarationEvent, AttestationEvent

PublishersOf(s) == {k[1] : k \in DOMAIN s.entries}

\* new is old with events of the publishers keys, or of verifiers, applied.
Grows(new, old, keys) ==
  /\ IsProjection(new)
  /\ PublishersOf(new) \subseteq PublishersOf(old) \cup keys
  /\ Covers(new, old)

LEMMA CoversItself == ASSUME NEW s PROVE Covers(s, s)
BY DEF Covers

LEMMA CoversIsTransitive ==
  ASSUME NEW a, NEW b, NEW c, IsProjection(a), IsProjection(b), IsProjection(c),
         Covers(a, b), Covers(b, c)
  PROVE  Covers(a, c)
<1>1. ASSUME NEW k \in DOMAIN c.entries
      PROVE  /\ k \in DOMAIN a.entries
             /\ \/ a.entries[k].event = c.entries[k].event
                \/ a.entries[k].event.createdAt > c.entries[k].event.createdAt
  <2>1. k \in DOMAIN b.entries /\ k \in DOMAIN a.entries
    BY DEF Covers
  <2>2. /\ a.entries[k].event.createdAt \in Int
        /\ b.entries[k].event.createdAt \in Int
        /\ c.entries[k].event.createdAt \in Int
    BY <2>1, Dates DEF IsProjection
  <2>3. /\ \/ a.entries[k].event = b.entries[k].event
           \/ a.entries[k].event.createdAt > b.entries[k].event.createdAt
        /\ \/ b.entries[k].event = c.entries[k].event
           \/ b.entries[k].event.createdAt > c.entries[k].event.createdAt
    BY <2>1 DEF Covers
  <2>4. QED BY <2>1, <2>2, <2>3
<1>2. ASSUME NEW k \in DOMAIN c.attestations
      PROVE  /\ k \in DOMAIN a.attestations
             /\ \/ a.attestations[k] = c.attestations[k]
                \/ a.attestations[k].createdAt > c.attestations[k].createdAt
  <2>1. k \in DOMAIN b.attestations /\ k \in DOMAIN a.attestations
    BY DEF Covers
  <2>2. /\ a.attestations[k].createdAt \in Int
        /\ b.attestations[k].createdAt \in Int
        /\ c.attestations[k].createdAt \in Int
    BY <2>1, Dates DEF IsProjection
  <2>3. /\ \/ a.attestations[k] = b.attestations[k]
           \/ a.attestations[k].createdAt > b.attestations[k].createdAt
        /\ \/ b.attestations[k] = c.attestations[k]
           \/ b.attestations[k].createdAt > c.attestations[k].createdAt
    BY <2>1 DEF Covers
  <2>4. QED BY <2>1, <2>2, <2>3
<1>3. QED BY <1>1, <1>2 DEF Covers

\* Apply under an allow-list: a new key is of a publisher on the list, and a
\* replaced event is older than the one that replaces it.
LEMMA ApplyForGrows ==
  ASSUME NEW s, IsProjection(s), NEW keys, NEW e \in Declarations
  PROVE  Grows([s EXCEPT !.entries = ApplyFor(keys, @, e)], s, keys)
<1> DEFINE n == ApplyFor(keys, s.entries, e)
           t == [s EXCEPT !.entries = n]
           key == EntryKey(e)
<1>1. /\ DOMAIN t = {"entries", "attestations"}
      /\ t.entries = n /\ t.attestations = s.attestations
  BY DEF IsProjection
<1>2. CASE n = s.entries
  <2>1. IsProjection(t) /\ PublishersOf(t) = PublishersOf(s) /\ Covers(t, s)
    <3> HIDE DEF n, t
    <3>1. QED BY <1>1, <1>2 DEF IsProjection, PublishersOf, Covers
  <2>2. QED BY <2>1 DEF Grows
<1>3. CASE n # s.entries
  <2>1. /\ e.pubkey \in keys /\ Accepts(s.entries, e)
        /\ n = Put(s.entries, key, NewEntry(e))
    BY <1>3 DEF ApplyFor, Apply
  <2>2. NewEntry(e).event = e /\ key[1] = e.pubkey
    BY DEF NewEntry, EntryKey
  <2>3. /\ DOMAIN n = DOMAIN s.entries \cup {key}
        /\ n[key].event = e
        /\ \A k \in DOMAIN s.entries : k # key => n[k] = s.entries[k]
    <3> HIDE DEF key, n
    <3>1. QED BY <2>1, <2>2 DEF Put
  <2>4. IsProjection(t)
    <3>1. \A k \in DOMAIN n : n[k].event \in Declarations /\ EntryKey(n[k].event) = k
      <4> HIDE DEF n
      <4>1. QED BY <2>3 DEF IsProjection
    <3> HIDE DEF n, t
    <3>2. QED BY <1>1, <3>1 DEF IsProjection
  <2>5. PublishersOf(t) \subseteq PublishersOf(s) \cup keys
    <3> HIDE DEF n, t, key
    <3>1. QED BY <1>1, <2>1, <2>2, <2>3 DEF PublishersOf
  <2>6. Covers(t, s)
    <3>1. ASSUME NEW k \in DOMAIN s.entries
          PROVE  /\ k \in DOMAIN n
                 /\ \/ n[k].event = s.entries[k].event
                    \/ n[k].event.createdAt > s.entries[k].event.createdAt
      <4>1. CASE k = key
        BY <2>1, <2>3, <4>1 DEF Accepts
      <4>2. CASE k # key
        <5> HIDE DEF n, key
        <5>1. QED BY <2>3, <4>2
      <4>3. QED BY <4>1, <4>2
    <3> HIDE DEF n, t
    <3>2. QED BY <1>1, <3>1 DEF Covers
  <2>7. QED BY <2>4, <2>5, <2>6 DEF Grows
<1>4. QED BY <1>2, <1>3

LEMMA ApplyAttestationGrows ==
  ASSUME NEW s, IsProjection(s), NEW keys, NEW a \in Attestations
  PROVE  Grows([s EXCEPT !.attestations = ApplyAttestation(@, a)], s, keys)
<1> DEFINE n == ApplyAttestation(s.attestations, a)
           t == [s EXCEPT !.attestations = n]
           key == AttestationKey(a)
<1>1. /\ DOMAIN t = {"entries", "attestations"}
      /\ t.attestations = n /\ t.entries = s.entries
  BY DEF IsProjection
<1>2. CASE n = s.attestations
  <2>1. IsProjection(t) /\ PublishersOf(t) = PublishersOf(s) /\ Covers(t, s)
    <3> HIDE DEF n, t
    <3>1. QED BY <1>1, <1>2 DEF IsProjection, PublishersOf, Covers
  <2>2. QED BY <2>1 DEF Grows
<1>3. CASE n # s.attestations
  <2>1. AcceptsAttestation(s.attestations, a) /\ n = Put(s.attestations, key, a)
    BY <1>3 DEF ApplyAttestation
  <2>2. /\ DOMAIN n = DOMAIN s.attestations \cup {key}
        /\ n[key] = a
        /\ \A k \in DOMAIN s.attestations : k # key => n[k] = s.attestations[k]
    <3> HIDE DEF key, n
    <3>1. QED BY <2>1 DEF Put
  <2>3. \A k \in DOMAIN n : n[k] \in Attestations /\ AttestationKey(n[k]) = k
    <3> HIDE DEF n
    <3>1. QED BY <2>2 DEF IsProjection
  <2>4. ASSUME NEW k \in DOMAIN s.attestations
        PROVE  /\ k \in DOMAIN n
               /\ n[k] = s.attestations[k] \/ n[k].createdAt > s.attestations[k].createdAt
    <3>1. CASE k = key
      BY <2>1, <2>2, <3>1 DEF AcceptsAttestation
    <3>2. CASE k # key
      <4> HIDE DEF n, key
      <4>1. QED BY <2>2, <3>2
    <3>3. QED BY <3>1, <3>2
  <2>5. IsProjection(t) /\ PublishersOf(t) = PublishersOf(s) /\ Covers(t, s)
    <3> HIDE DEF n, t
    <3>1. QED BY <1>1, <2>3, <2>4 DEF IsProjection, PublishersOf, Covers
  <2>6. QED BY <2>5 DEF Grows
<1>4. QED BY <1>2, <1>3

\* A step in which p applies one event to its copy.
Learns(p) ==
  /\ DOMAIN memory' = Processes
  /\ \A q \in Processes : q # p => memory'[q] = memory[q]
  /\ Grows(memory'[p], memory[p], list[p])

LEMMA StepsLearn ==
  ASSUME TypeOK, NEW p \in Processes,
         Fetch(p) \/ Receive(p) \/ \E e \in Declarations : Ingest(p, e)
  PROVE  Learns(p)
<1>1. IsProjection(memory[p]) /\ DOMAIN memory = Processes
  BY DEF TypeOK
<1>2. ASSUME NEW e \in Declarations, memory' = Applied(p, e) PROVE Learns(p)
  <2>1. memory' = [memory EXCEPT ![p] = [memory[p] EXCEPT !.entries = ApplyFor(list[p], @, e)]]
    BY <1>2 DEF Applied
  <2>2. Grows([memory[p] EXCEPT !.entries = ApplyFor(list[p], @, e)], memory[p], list[p])
    BY <1>1, ApplyForGrows
  <2>3. QED BY <1>1, <2>1, <2>2 DEF Learns
<1>3. ASSUME NEW a \in Attestations, memory' = AppliedAttestation(p, a) PROVE Learns(p)
  <2>1. memory' = [memory EXCEPT
                     ![p] = [memory[p] EXCEPT !.attestations = ApplyAttestation(@, a)]]
    BY <1>3 DEF AppliedAttestation
  <2>2. Grows([memory[p] EXCEPT !.attestations = ApplyAttestation(@, a)], memory[p], list[p])
    BY <1>1, ApplyAttestationGrows
  <2>3. QED BY <1>1, <2>1, <2>2 DEF Learns
<1>4. QED BY <1>2, <1>3 DEF Fetch, Receive, Ingest

-----------------------------------------------------------------------------
(* Type correctness. *)

LEMMA EmptyIsProjection == IsProjection(Empty)
BY DEF IsProjection, Empty, EmptyMap

\* Whatever the processes do, the file and every copy of it hold declarations
\* and attestations under the keys that name them.
THEOREM TypeCorrect == Spec => []TypeOK
<1>1. Init => TypeOK
  BY EmptyIsProjection DEF Init, TypeOK, Steps
<1>2. TypeOK /\ [Next]_vars => TypeOK'
  <2> SUFFICES ASSUME TypeOK, [Next]_vars PROVE TypeOK'
    OBVIOUS
  <2> USE EmptyIsProjection DEF TypeOK, Steps, Commands
  <2>1. ASSUME NEW p \in Processes, NEW c \in Commands, Refuse(p, c) PROVE TypeOK'
    BY <2>1 DEF Refuse
  <2>2. ASSUME NEW p \in Processes, NEW c \in Commands, Open(p, c) PROVE TypeOK'
    <3>1. /\ DOMAIN memory' = Processes
          /\ \A q \in Processes : memory'[q] \in {memory[q], disk, Empty}
      BY <2>2 DEF Open
    <3>2. step' \in [Processes -> Steps]
      BY <2>2 DEF Open
    <3>3. QED BY <2>2, <3>1, <3>2 DEF Open
  <2>3. ASSUME NEW p \in Processes, Reopen(p) PROVE TypeOK'
    <3>1. CASE Loads(list[p], disk)
      BY <2>3, <3>1 DEF Reopen
    <3>2. CASE ~Loads(list[p], disk)
      BY <2>3, <3>2 DEF Reopen
    <3>3. QED BY <3>1, <3>2
  <2>4. ASSUME NEW p \in Processes,
               Fetch(p) \/ Receive(p) \/ \E e \in Declarations : Ingest(p, e)
        PROVE  TypeOK'
    <3>1. DOMAIN memory' = Processes /\ \A q \in Processes : IsProjection(memory'[q])
      BY <2>4, StepsLearn DEF Learns, Grows
    <3>2. /\ step' \in [Processes -> Steps]
          /\ UNCHANGED <<disk, allowed, command, list, stale, removed>>
      BY <2>4 DEF Fetch, Receive, Ingest
    <3>3. QED BY <3>1, <3>2
  <2>5. ASSUME NEW p \in Processes, EndFetch(p) \/ SaveAgain(p) PROVE TypeOK'
    <3>1. step' \in [Processes -> Steps]
      BY <2>5 DEF EndFetch, SaveAgain
    <3>2. QED BY <2>5, <3>1 DEF EndFetch, SaveAgain
  <2>6. ASSUME NEW p \in Processes, Save(p) PROVE TypeOK'
    <3>1. IsProjection(disk') /\ stale' \in [Processes -> BOOLEAN]
      BY <2>6 DEF Save, Inactive
    <3>2. CASE command[p] = "sync"
      BY <2>6, <3>1, <3>2 DEF Save
    <3>3. CASE command[p] # "sync"
      BY <2>6, <3>1, <3>3 DEF Save, Ends
    <3>4. QED BY <3>2, <3>3
  <2>7. ASSUME NEW p \in Processes, Compare(p) PROVE TypeOK'
    <3>1. CASE Loads(list[p], disk)
      BY <2>7, <3>1 DEF Compare, Ends
    <3>2. CASE ~Loads(list[p], disk)
      BY <2>7, <3>2 DEF Compare
    <3>3. QED BY <3>1, <3>2
  <2>8. ASSUME NEW p \in Processes, Exit(p) PROVE TypeOK'
    BY <2>8 DEF Exit, Ends
  <2>9. ASSUME NEW keys \in Lists, ChangeAllowed(keys) PROVE TypeOK'
    BY <2>9, ListsAssumption DEF ChangeAllowed, process
  <2>10. CASE UNCHANGED vars
    BY <2>10 DEF vars, process
  <2>11. QED
    BY <2>1, <2>2, <2>3, <2>4, <2>5, <2>6, <2>7, <2>8, <2>9, <2>10 DEF Next
<1>3. QED BY <1>1, <1>2, PTL DEF Spec

-----------------------------------------------------------------------------
(* Allow-lists. *)

Known == allowed \cup removed

\* Every key in a copy is on its process's list, and every key in the file or
\* on a list is on the operator's list or has been.  A process that does not
\* run has no copy.
Contained ==
  /\ PublishersOf(disk) \subseteq Known
  /\ \A p \in Processes :
       /\ list[p] \subseteq Known
       /\ PublishersOf(memory[p]) \subseteq list[p]
       /\ Inactive(p) => memory[p] = Empty

LEMMA EmptyHasNoPublishers == PublishersOf(Empty) = {}
BY DEF PublishersOf, Empty, EmptyMap

LEMMA LoadsContains ==
  ASSUME NEW keys, NEW s PROVE Loads(keys, s) <=> PublishersOf(s) \subseteq keys
BY DEF Loads, PublishersOf

LEMMA StepContained == TypeOK /\ Contained /\ [Next]_vars => Contained'
<1> SUFFICES ASSUME TypeOK, Contained, [Next]_vars PROVE Contained'
  OBVIOUS
<1> USE EmptyHasNoPublishers DEF TypeOK, Contained, Known, Inactive
<1>1. ASSUME NEW p \in Processes, NEW c \in Commands, Refuse(p, c) PROVE Contained'
  <2>1. list'[p] = allowed /\ memory' = memory /\ memory[p] = Empty
    BY <1>1 DEF Refuse
  <2>2. QED BY <1>1, <2>1 DEF Refuse
<1>2. ASSUME NEW p \in Processes, NEW c \in Commands, Open(p, c) PROVE Contained'
  <2>1. PublishersOf(disk) \subseteq allowed
    BY <1>2, LoadsContains DEF Open
  <2>2. /\ list'[p] = allowed /\ memory'[p] \in {disk, Empty}
        /\ step'[p] \notin {"idle", "refused"}
        /\ \A q \in Processes : q # p =>
             list'[q] = list[q] /\ memory'[q] = memory[q] /\ step'[q] = step[q]
        /\ UNCHANGED <<disk, allowed, removed>>
    BY <1>2 DEF Open
  <2>3. QED BY <2>1, <2>2
<1>3. ASSUME NEW p \in Processes, Reopen(p) PROVE Contained'
  <2>1. CASE Loads(list[p], disk)
    <3>1. PublishersOf(disk) \subseteq list[p]
      BY <2>1, LoadsContains
    <3>2. QED BY <1>3, <2>1, <3>1 DEF Reopen
  <2>2. CASE ~Loads(list[p], disk)
    BY <1>3, <2>2 DEF Reopen
  <2>3. QED BY <2>1, <2>2
<1>4. ASSUME NEW p \in Processes,
             Fetch(p) \/ Receive(p) \/ \E e \in Declarations : Ingest(p, e)
      PROVE  Contained'
  <2>1. /\ \A q \in Processes : q # p => memory'[q] = memory[q]
        /\ PublishersOf(memory'[p]) \subseteq PublishersOf(memory[p]) \cup list[p]
    BY <1>4, StepsLearn DEF Learns, Grows
  <2>2. /\ UNCHANGED <<disk, allowed, list, removed>>
        /\ \A q \in Processes : q # p => step'[q] = step[q]
        /\ step'[p] \notin {"idle", "refused"}
    BY <1>4 DEF Fetch, Receive, Ingest
  <2>3. QED BY <2>1, <2>2
<1>5. ASSUME NEW p \in Processes, EndFetch(p) \/ SaveAgain(p) PROVE Contained'
  BY <1>5 DEF EndFetch, SaveAgain
<1>6. ASSUME NEW p \in Processes, Save(p) PROVE Contained'
  <2>1. PublishersOf(disk') \subseteq Known
    BY <1>6 DEF Save
  <2>2. CASE command[p] = "sync"
    BY <1>6, <2>1, <2>2 DEF Save
  <2>3. CASE command[p] # "sync"
    BY <1>6, <2>1, <2>3 DEF Save, Ends
  <2>4. QED BY <2>2, <2>3
<1>7. ASSUME NEW p \in Processes, Compare(p) PROVE Contained'
  <2>1. CASE Loads(list[p], disk)
    BY <1>7, <2>1 DEF Compare, Ends
  <2>2. CASE ~Loads(list[p], disk)
    BY <1>7, <2>2 DEF Compare
  <2>3. QED BY <2>1, <2>2
<1>8. ASSUME NEW p \in Processes, Exit(p) PROVE Contained'
  BY <1>8 DEF Exit, Ends
<1>9. ASSUME NEW keys \in Lists, ChangeAllowed(keys) PROVE Contained'
  BY <1>9 DEF ChangeAllowed, process
<1>10. CASE UNCHANGED vars
  BY <1>10 DEF vars, process
<1>11. QED
  BY <1>1, <1>2, <1>3, <1>4, <1>5, <1>6, <1>7, <1>8, <1>9, <1>10 DEF Next

LEMMA InitContained == Init => Contained
BY EmptyHasNoPublishers DEF Init, Contained, Known

\* A publisher who is off the operator's list comes into the file only by way
\* of a process that was started with the publisher on its list.
THEOREM NothingIsResurrected == Spec => NoResurrection
<1>1. TypeOK /\ Contained /\ [Next]_vars
        => [\A k \in DOMAIN disk'.entries \ DOMAIN disk.entries :
              k[1] \notin allowed =>
                \E p \in Processes :
                  step[p] = "saving" /\ disk' = memory[p] /\ k[1] \in list[p]]_vars
  <2> SUFFICES ASSUME TypeOK, Contained, [Next]_vars, disk' # disk,
                      NEW k \in DOMAIN disk'.entries
               PROVE  \E p \in Processes :
                        step[p] = "saving" /\ disk' = memory[p] /\ k[1] \in list[p]
    OBVIOUS
  <2>1. PICK p \in Processes : Save(p)
    BY DEF Next, Refuse, Open, Reopen, Fetch, EndFetch, Ingest, Receive, SaveAgain,
       Compare, Exit, ChangeAllowed, vars
  <2>2. step[p] = "saving" /\ disk' = memory[p]
    BY <2>1 DEF Save
  <2>3. k[1] \in list[p]
    BY <2>2 DEF Contained, PublishersOf
  <2>4. QED BY <2>2, <2>3
<1>2. QED BY <1>1, TypeCorrect, InitContained, StepContained, PTL DEF Spec, NoResurrection

\* While no key has been taken off the list, a process finds no file it cannot
\* load, however the processes overlap; except that a daemon or a verify that
\* opens the file a second time may meet a key its own list does not have yet.
THEOREM RefusedOnlyWhenListsChange == Spec => []RefusedOnlyAfterChange
<1>1. Init => RefusedOnlyAfterChange
  BY DEF Init, RefusedOnlyAfterChange
<1>2. TypeOK /\ Contained /\ RefusedOnlyAfterChange /\ [Next]_vars
        => RefusedOnlyAfterChange'
  <2> SUFFICES ASSUME TypeOK, Contained, RefusedOnlyAfterChange, [Next]_vars,
                      NEW q \in Processes, step'[q] = "refused", removed' = {}
               PROVE  list'[q] # allowed' /\ list'[q] \subseteq allowed'
    BY DEF RefusedOnlyAfterChange
  <2> USE DEF TypeOK
  <2>1. removed = {}
    BY DEF Next, Refuse, Open, Reopen, Fetch, EndFetch, Ingest, Receive, SaveAgain,
       Save, Compare, Exit, ChangeAllowed, vars
  <2>2. /\ PublishersOf(disk) \subseteq allowed
        /\ \A p \in Processes : list[p] \subseteq allowed
    BY <2>1 DEF Contained, Known
  <2>3. \A p \in Processes : ~Loads(list[p], disk) => list[p] # allowed
    BY <2>2, LoadsContains
  <2>4. ASSUME NEW c \in Commands, Refuse(q, c) PROVE FALSE
    BY <2>4, <2>2, LoadsContains DEF Refuse
  <2>5. CASE Reopen(q) \/ Compare(q)
    <3>1. ~Loads(list[q], disk)
      <4>1. CASE Reopen(q)
        BY <4>1 DEF Reopen
      <4>2. CASE Compare(q)
        BY <4>2 DEF Compare, Ends
      <4>3. QED BY <2>5, <4>1, <4>2
    <3>2. list'[q] = list[q] /\ allowed' = allowed
      BY <2>5, <3>1 DEF Reopen, Compare
    <3>3. QED BY <3>1, <3>2, <2>2, <2>3
  <2>6. ASSUME NEW keys \in Lists, ChangeAllowed(keys)
        PROVE  list'[q] # allowed' /\ list'[q] \subseteq allowed'
    <3>1. /\ allowed \subseteq keys /\ allowed' = keys /\ list' = list
          /\ step[q] = "refused"
      BY <2>6 DEF ChangeAllowed, process
    <3>2. QED BY <3>1, <2>1 DEF RefusedOnlyAfterChange
  <2>7. CASE step[q] = "refused" /\ list'[q] = list[q] /\ allowed' = allowed
    BY <2>7, <2>1 DEF RefusedOnlyAfterChange
  <2>8. QED
    <3> DEFINE Same == step[q] = "refused" /\ list'[q] = list[q] /\ allowed' = allowed
    <3>1. ASSUME NEW p \in Processes, NEW c \in Commands, Refuse(p, c)
          PROVE  Refuse(q, c) \/ Same
      BY <3>1 DEF Refuse
    <3>2. ASSUME NEW p \in Processes, NEW c \in Commands, Open(p, c) PROVE Same
      BY <3>2 DEF Open
    <3>3. ASSUME NEW p \in Processes, Reopen(p) \/ Compare(p)
          PROVE  Reopen(q) \/ Compare(q) \/ Same
      BY <3>3 DEF Reopen, Compare, Ends
    <3>4. ASSUME NEW p \in Processes,
                 Fetch(p) \/ Receive(p) \/ EndFetch(p) \/ SaveAgain(p)
                   \/ \E e \in Declarations : Ingest(p, e)
          PROVE  Same
      BY <3>4 DEF Fetch, Receive, EndFetch, SaveAgain, Ingest
    <3>5. ASSUME NEW p \in Processes, Save(p) PROVE Same
      <4>1. CASE command[p] = "sync"
        BY <3>5, <4>1 DEF Save
      <4>2. CASE command[p] # "sync"
        BY <3>5, <4>2 DEF Save, Ends
      <4>3. QED BY <4>1, <4>2
    <3>6. ASSUME NEW p \in Processes, Exit(p) PROVE Same
      BY <3>6 DEF Exit, Ends
    <3>7. ASSUME UNCHANGED vars PROVE Same
      BY <3>7 DEF vars, process
    <3>8. QED
      BY <2>4, <2>5, <2>6, <2>7, <3>1, <3>2, <3>3, <3>4, <3>5, <3>6, <3>7 DEF Next
<1>3. QED BY <1>1, <1>2, TypeCorrect, InitContained, StepContained, PTL DEF Spec

-----------------------------------------------------------------------------
(* What overlapping processes lose. *)

\* A copy that is to be saved covers the file, unless a rebuild makes it or
\* another process has saved since.
Ahead ==
  \A p \in Processes :
    /\ step[p] = "refetching" => command[p] \in {"rebuild", "verify"}
    /\ (/\ step[p] \in {"ingesting", "bootstrapping", "saving", "running"}
        /\ command[p] # "rebuild"
        /\ ~stale[p])
         => Covers(memory[p], disk)

LEMMA StepAhead == TypeOK /\ Ahead /\ [Next]_vars => Ahead'
<1> SUFFICES ASSUME TypeOK, Ahead, [Next]_vars PROVE Ahead'
  OBVIOUS
<1> USE DEF TypeOK, Ahead
<1>1. ASSUME NEW p \in Processes, NEW c \in Commands, Refuse(p, c) PROVE Ahead'
  BY <1>1 DEF Refuse
<1>2. ASSUME NEW p \in Processes, NEW c \in Commands, Open(p, c) PROVE Ahead'
  <2>1. CASE c = "ingest"
    <3>1. memory'[p] = disk /\ step'[p] = "ingesting"
      BY <1>2, <2>1 DEF Open
    <3>2. QED BY <1>2, <3>1, CoversItself DEF Open
  <2>2. CASE c # "ingest"
    <3>1. \/ step'[p] = "reopening"
          \/ step'[p] = "refetching" /\ command'[p] \in {"rebuild", "verify"}
      BY <1>2, <2>2 DEF Open, Commands
    <3>2. QED BY <1>2, <3>1 DEF Open
  <2>3. QED BY <2>1, <2>2
<1>3. ASSUME NEW p \in Processes, Reopen(p) PROVE Ahead'
  <2>1. CASE Loads(list[p], disk)
    <3>1. memory'[p] = disk /\ step'[p] = "bootstrapping"
      BY <1>3, <2>1 DEF Reopen
    <3>2. QED BY <1>3, <2>1, <3>1, CoversItself DEF Reopen
  <2>2. CASE ~Loads(list[p], disk)
    BY <1>3, <2>2 DEF Reopen
  <2>3. QED BY <2>1, <2>2
<1>4. ASSUME NEW p \in Processes,
             Fetch(p) \/ Receive(p) \/ \E e \in Declarations : Ingest(p, e)
      PROVE  Ahead'
  <2>1. /\ \A q \in Processes : q # p => memory'[q] = memory[q]
        /\ IsProjection(memory'[p]) /\ Covers(memory'[p], memory[p])
    BY <1>4, StepsLearn DEF Learns, Grows
  <2>2. Covers(memory[p], disk) => Covers(memory'[p], disk)
    BY <2>1, CoversIsTransitive
  <2>3. /\ UNCHANGED <<disk, command, stale>>
        /\ \A q \in Processes : q # p => step'[q] = step[q]
        /\ step'[p] \in {step[p], "saving"}
        /\ step[p] \in {"refetching", "bootstrapping", "ingesting", "running"}
        /\ step[p] = "refetching" => step'[p] = "refetching"
    BY <1>4 DEF Fetch, Receive, Ingest
  <2>4. QED BY <2>1, <2>2, <2>3
<1>5. ASSUME NEW p \in Processes, EndFetch(p) PROVE Ahead'
  BY <1>5 DEF EndFetch
<1>6. ASSUME NEW p \in Processes, SaveAgain(p) PROVE Ahead'
  BY <1>6 DEF SaveAgain
<1>7. ASSUME NEW p \in Processes, Save(p) PROVE Ahead'
  <2>1. CASE command[p] = "sync"
    <3>1. disk' = memory[p] /\ memory'[p] = memory[p]
      BY <1>7, <2>1 DEF Save
    <3>2. QED BY <1>7, <2>1, <3>1, CoversItself DEF Save, Inactive
  <2>2. CASE command[p] # "sync"
    BY <1>7, <2>2 DEF Save, Ends, Inactive
  <2>3. QED BY <2>1, <2>2
<1>8. ASSUME NEW p \in Processes, Compare(p) PROVE Ahead'
  <2>1. CASE Loads(list[p], disk)
    BY <1>8, <2>1 DEF Compare, Ends
  <2>2. CASE ~Loads(list[p], disk)
    BY <1>8, <2>2 DEF Compare
  <2>3. QED BY <2>1, <2>2
<1>9. ASSUME NEW p \in Processes, Exit(p) PROVE Ahead'
  BY <1>9 DEF Exit, Ends
<1>10. ASSUME NEW keys \in Lists, ChangeAllowed(keys) PROVE Ahead'
  BY <1>10 DEF ChangeAllowed, process
<1>11. CASE UNCHANGED vars
  BY <1>11 DEF vars, process
<1>12. QED
  BY <1>1, <1>2, <1>3, <1>4, <1>5, <1>6, <1>7, <1>8, <1>9, <1>10, <1>11 DEF Next

\* The file goes back only by a rebuild, or by a process that another one has
\* overtaken: without overlaps and rebuilds no command and no daemon loses
\* anything of it.
THEOREM OnlyOverlapsEverLose == Spec => OnlyOverlapsLose
<1>1. Init => Ahead
  BY DEF Init, Ahead
<1>2. TypeOK /\ Ahead /\ [Next]_vars
        => [Covers(disk', disk)
            \/ \E p \in Processes :
                 /\ step[p] = "saving" /\ disk' = memory[p]
                 /\ command[p] = "rebuild" \/ stale[p]]_vars
  <2> SUFFICES ASSUME TypeOK, Ahead, [Next]_vars
               PROVE  Covers(disk', disk)
                      \/ \E p \in Processes :
                           /\ step[p] = "saving" /\ disk' = memory[p]
                           /\ command[p] = "rebuild" \/ stale[p]
    OBVIOUS
  <2>1. CASE disk' = disk
    BY <2>1, CoversItself
  <2>2. ASSUME NEW p \in Processes, Save(p), ~(command[p] = "rebuild" \/ stale[p])
        PROVE  Covers(disk', disk)
    BY <2>2 DEF Save, Ahead, TypeOK
  <2>3. disk' = disk \/ \E p \in Processes : Save(p)
    BY DEF Next, Refuse, Open, Reopen, Fetch, EndFetch, Ingest, Receive, SaveAgain,
       Compare, Exit, ChangeAllowed, vars
  <2>4. QED BY <2>1, <2>2, <2>3 DEF Save
<1>3. QED BY <1>1, <1>2, StepAhead, TypeCorrect, PTL DEF Spec, OnlyOverlapsLose
=============================================================================
