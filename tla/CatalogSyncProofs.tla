------------------------- MODULE CatalogSyncProofs -------------------------
(***************************************************************************)
(* Proofs about CatalogSync, for any events, allow-list, initial file and  *)
(* number of crashes, restarts and failed calls.                           *)
(***************************************************************************)
EXTENDS CatalogSync, TLAPS

\* What Save relies on: the file about to be renamed holds the projection,
\* and nothing touches the projection between the rename and the next event.
Saved ==
  /\ pc = "renaming" => temporary = Payload
  /\ pc \in {"selecting", "closed", "waiting"} => disk = Payload
  /\ disk.state # "torn"
  /\ afterSave \in {"selecting", "closed", "stopped"}

LEMMA InitSaved == Init => Saved
BY FilesAssumption DEF Init, Saved

LEMMA StepSaved == Saved /\ [Next]_vars => Saved'
<1> SUFFICES ASSUME Saved, [Next]_vars PROVE Saved'
  OBVIOUS
<1> USE DEF Saved, Save, Payload, memory, files, relays
<1>1. CASE Start
  BY <1>1 DEF Start
<1>2. CASE FetchDeclarations
  BY <1>2 DEF FetchDeclarations
<1>3. CASE ApplyFetched
  BY <1>3 DEF ApplyFetched
<1>4. CASE FetchAttestations
  BY <1>4 DEF FetchAttestations
<1>5. CASE ApplyFetchedAttestation
  BY <1>5 DEF ApplyFetchedAttestation
<1>6. CASE FinishBootstrap
  BY <1>6 DEF FinishBootstrap
<1>7. CASE CreateTemporary
  BY <1>7 DEF CreateTemporary
<1>8. CASE WriteTemporary
  BY <1>8 DEF WriteTemporary
<1>9. CASE InstallTemporary
  <2>1. disk' = Payload /\ pc' = afterSave /\ afterSave' = afterSave
    BY <1>9 DEF InstallTemporary
  <2>2. disk'.state # "torn"
    BY <2>1
  <2>3. CASE afterSave = "stopped"
    BY <2>1, <2>2, <2>3
  <2>4. CASE afterSave # "stopped"
    BY <2>1, <2>2, <2>4, <1>9 DEF InstallTemporary
  <2>5. QED BY <2>3, <2>4
<1>10. CASE SaveFails \/ Crash
  BY <1>10 DEF SaveFails, Crash, Exit
<1>11. ASSUME NEW e \in Declarations, Receive(e) PROVE Saved'
  <2>1. CASE Accepts(entries, e)
    BY <1>11, <2>1 DEF Receive
  <2>2. CASE ~Accepts(entries, e)
    BY <1>11, <2>2 DEF Receive, Apply
  <2>3. QED BY <2>1, <2>2
<1>12. ASSUME NEW a \in Attestations, ReceiveAttestation(a) PROVE Saved'
  <2>1. CASE AcceptsAttestation(attestations, a)
    BY <1>12, <2>1 DEF ReceiveAttestation
  <2>2. CASE ~AcceptsAttestation(attestations, a)
    BY <1>12, <2>2 DEF ReceiveAttestation, ApplyAttestation
  <2>3. QED BY <2>1, <2>2
<1>13. CASE SubscriptionCloses
  BY <1>13 DEF SubscriptionCloses
<1>14. CASE ContextDone
  BY <1>14 DEF ContextDone
<1>15. CASE LookAtContext \/ WaitToResubscribe
  BY <1>15 DEF LookAtContext, WaitToResubscribe, Exit
<1>16. ASSUME NEW e \in Declarations, Publish(e) PROVE Saved'
  BY <1>16 DEF Publish
<1>17. ASSUME NEW a \in Attestations, PublishAttestation(a) PROVE Saved'
  BY <1>17 DEF PublishAttestation
<1>18. CASE Cancel
  BY <1>18 DEF Cancel, Stopped, Restarting
<1>19. CASE StartUnit
  BY <1>19 DEF StartUnit, Stopped
<1>20. CASE UNCHANGED vars
  BY <1>20 DEF vars
<1>21. QED
  BY <1>1, <1>2, <1>3, <1>4, <1>5, <1>6, <1>7, <1>8, <1>9, <1>10, <1>11, <1>12,
     <1>13, <1>14, <1>15, <1>16, <1>17, <1>18, <1>19, <1>20
     DEF Next, Daemon

\* Whenever the daemon waits, the state file holds its projection: a crash
\* then loses nothing, after any history of crashes and failures.
THEOREM AcceptedIsAlwaysSaved == Spec => []AcceptedIsSaved
<1>1. Saved => AcceptedIsSaved
  BY DEF Saved, AcceptedIsSaved
<1>2. QED BY <1>1, InitSaved, StepSaved, PTL DEF Spec

\* No crash and no failed call leaves a state file that cannot be decoded.
THEOREM FileIsNeverTorn == Spec => []NeverTorn
<1>1. Saved => NeverTorn
  BY DEF Saved, NeverTorn
<1>2. QED BY <1>1, InitSaved, StepSaved, PTL DEF Spec

-----------------------------------------------------------------------------
(* Type correctness. *)

\* Entries and attestations under the keys their events name.
Keyed(m) ==
  \A k \in DOMAIN m :
    m[k].event \in Declarations /\ EntryKey(m[k].event) = k

KeyedVerdicts(m) == \A k \in DOMAIN m : AttestationKey(m[k]) = k

TrustedOnly(m) == \A k \in DOMAIN m : k[1] \in Trusted

LEMMA EmptyIsKeyed ==
  Keyed(EmptyMap) /\ KeyedVerdicts(EmptyMap) /\ TrustedOnly(EmptyMap)
BY DEF Keyed, KeyedVerdicts, TrustedOnly, EmptyMap

LEMMA ApplyKeepsKeys ==
  ASSUME NEW m, NEW e \in Declarations, Keyed(m), TrustedOnly(m)
  PROVE  Keyed(Apply(m, e)) /\ TrustedOnly(Apply(m, e))
<1>1. CASE ~Accepts(m, e)
  BY <1>1 DEF Apply
<1>2. CASE Accepts(m, e)
  <2> DEFINE key == EntryKey(e)
             r == Apply(m, e)
  <2>1. r = Put(m, key, NewEntry(e)) /\ NewEntry(e).event = e
    BY <1>2 DEF Apply, NewEntry
  <2>2. key[1] \in Trusted
    BY <1>2 DEF Accepts, Validates, EntryKey
  <2>3. /\ DOMAIN r = DOMAIN m \cup {key}
        /\ r[key].event = e
        /\ \A k \in DOMAIN m : k # key => r[k] = m[k]
    <3> HIDE DEF key
    <3>1. QED BY <2>1 DEF Put
  <2> HIDE DEF r
  <2>4. Keyed(r)
    BY <2>3 DEF Keyed
  <2>5. TrustedOnly(r)
    <3> HIDE DEF key
    <3>1. QED BY <2>2, <2>3 DEF TrustedOnly
  <2>6. QED BY <2>4, <2>5 DEF r
<1>3. QED BY <1>1, <1>2

LEMMA ApplyAttestationKeepsKeys ==
  ASSUME NEW m, NEW a \in Attestations, KeyedVerdicts(m)
  PROVE  KeyedVerdicts(ApplyAttestation(m, a))
BY DEF KeyedVerdicts, ApplyAttestation, Put

LEMMA KeyedIsTyped ==
  ASSUME NEW m, Keyed(m), TrustedOnly(m)
  PROVE  /\ DOMAIN m \subseteq {EntryKey(e) : e \in Declarations}
         /\ \A k \in DOMAIN m : k[1] \in Trusted /\ EntryKey(m[k].event) = k
BY DEF Keyed, TrustedOnly

\* TypeOK without the maps.
Shape ==
  /\ pc \in {"stopped", "restarting", "fetching", "applying", "fetchingAtt",
             "applyingAtt", "creating", "writing", "renaming", "selecting",
             "closed", "waiting"}
  /\ afterSave \in {"selecting", "closed", "stopped"}
  /\ pending \subseteq relay /\ attPending \subseteq attRelay
  /\ relay \subseteq Declarations /\ attRelay \subseteq Attestations
  /\ cancelled \in BOOLEAN

\* The maps, and those the next start would load.
KeyedState ==
  /\ Keyed(entries) /\ TrustedOnly(entries) /\ KeyedVerdicts(attestations)
  /\ Keyed(disk.entries) /\ KeyedVerdicts(disk.attestations)

LEMMA InitTyped == Init => Shape /\ KeyedState
<1> SUFFICES ASSUME Init PROVE Shape /\ KeyedState
  OBVIOUS
<1>1. Keyed(disk.entries) /\ KeyedVerdicts(disk.attestations)
  BY FilesAssumption DEF Init, Keyed, KeyedVerdicts
<1>2. KeyedState
  BY <1>1, EmptyIsKeyed DEF Init, KeyedState
<1>3. QED BY <1>2 DEF Init, Shape

LEMMA StepTyped == Saved /\ Shape /\ KeyedState /\ [Next]_vars
                     => Shape' /\ KeyedState'
<1> SUFFICES ASSUME Saved, Shape, KeyedState, [Next]_vars
             PROVE  Shape' /\ KeyedState'
  OBVIOUS
<1> USE DEF Shape, KeyedState, Save, memory, files, relays
<1>1. CASE Start
  <2>1. TrustedOnly(disk.entries)
    BY <1>1 DEF Start, Loads, TrustedOnly
  <2>2. QED BY <1>1, <2>1 DEF Start
<1>2. CASE FetchDeclarations
  <2>1. pending' \subseteq relay
    BY <1>2 DEF FetchDeclarations, LatestPerAddress
  <2>2. QED BY <1>2, <2>1 DEF FetchDeclarations
<1>3. CASE ApplyFetched
  <2>1. PICK e \in pending : /\ entries' = Apply(entries, e)
                             /\ pending' = pending \ {e}
    BY <1>3 DEF ApplyFetched
  <2>2. Keyed(entries') /\ TrustedOnly(entries')
    BY <2>1, ApplyKeepsKeys
  <2>3. QED BY <1>3, <2>1, <2>2 DEF ApplyFetched
<1>4. CASE FetchAttestations
  BY <1>4 DEF FetchAttestations
<1>5. CASE ApplyFetchedAttestation
  <2>1. PICK a \in attPending :
          /\ attestations' = ApplyAttestation(attestations, a)
          /\ attPending' = attPending \ {a}
    BY <1>5 DEF ApplyFetchedAttestation
  <2>2. KeyedVerdicts(attestations')
    BY <2>1, ApplyAttestationKeepsKeys
  <2>3. QED BY <1>5, <2>1, <2>2 DEF ApplyFetchedAttestation
<1>6. CASE FinishBootstrap
  BY <1>6 DEF FinishBootstrap
<1>7. CASE CreateTemporary \/ WriteTemporary
  BY <1>7 DEF CreateTemporary, WriteTemporary
<1>8. CASE InstallTemporary
  <2>1. disk'.entries = entries /\ disk'.attestations = attestations
    BY <1>8 DEF InstallTemporary, Saved, Payload
  <2>2. Shape'
    BY <1>8 DEF InstallTemporary
  <2>3. /\ Keyed(entries') /\ TrustedOnly(entries')
        /\ KeyedVerdicts(attestations')
    BY <1>8, EmptyIsKeyed DEF InstallTemporary
  <2>4. QED BY <2>1, <2>2, <2>3
<1>9. CASE SaveFails \/ Crash
  BY <1>9, EmptyIsKeyed DEF SaveFails, Crash, Exit
<1>10. ASSUME NEW e \in Declarations, Receive(e) PROVE Shape' /\ KeyedState'
  <2>1. Keyed(entries') /\ TrustedOnly(entries')
    BY <1>10, ApplyKeepsKeys DEF Receive
  <2>2. QED BY <1>10, <2>1 DEF Receive
<1>11. ASSUME NEW a \in Attestations, ReceiveAttestation(a)
       PROVE  Shape' /\ KeyedState'
  <2>1. KeyedVerdicts(attestations')
    BY <1>11, ApplyAttestationKeepsKeys DEF ReceiveAttestation
  <2>2. QED BY <1>11, <2>1 DEF ReceiveAttestation
<1>12. CASE \/ SubscriptionCloses \/ ContextDone
            \/ LookAtContext \/ WaitToResubscribe
  BY <1>12, EmptyIsKeyed
     DEF SubscriptionCloses, ContextDone, LookAtContext, WaitToResubscribe, Exit
<1>13. ASSUME NEW e \in Declarations, Publish(e) PROVE Shape' /\ KeyedState'
  BY <1>13 DEF Publish
<1>14. ASSUME NEW a \in Attestations, PublishAttestation(a)
       PROVE  Shape' /\ KeyedState'
  BY <1>14 DEF PublishAttestation
<1>15. CASE Cancel \/ StartUnit
  BY <1>15 DEF Cancel, StartUnit
<1>16. CASE UNCHANGED vars
  BY <1>16 DEF vars
<1>17. QED
  BY <1>1, <1>2, <1>3, <1>4, <1>5, <1>6, <1>7, <1>8, <1>9, <1>10, <1>11, <1>12,
     <1>13, <1>14, <1>15, <1>16
     DEF Next, Daemon

\* Memory holds trusted publishers' events under the keys they name, whatever
\* the file holds: a start refuses one with an event of anybody else.
THEOREM TypeCorrect == Spec => []TypeOK
<1>1. Shape /\ KeyedState => TypeOK
  <2> SUFFICES ASSUME Shape, KeyedState PROVE TypeOK
    OBVIOUS
  <2>1. /\ DOMAIN entries \subseteq {EntryKey(e) : e \in Declarations}
        /\ \A k \in DOMAIN entries :
             k[1] \in Trusted /\ EntryKey(entries[k].event) = k
    BY KeyedIsTyped DEF KeyedState
  <2>2. QED BY <2>1 DEF Shape, KeyedState, KeyedVerdicts, TypeOK
<1>2. QED BY <1>1, InitSaved, StepSaved, InitTyped, StepTyped, PTL DEF Spec

-----------------------------------------------------------------------------
(* The file never regresses. *)

LEMMA Dates ==
  /\ \A e \in Declarations : e.createdAt \in Int
  /\ \A a \in Attestations : a.createdAt \in Int
BY DeclarationsAssumption, AttestationsAssumption
   DEF DeclarationEvent, AttestationEvent

Dated(m) == \A k \in DOMAIN m : m[k].event \in Declarations

DatedVerdicts(m) == \A k \in DOMAIN m : m[k] \in Attestations

\* n has all that m has, as new or newer.
Covers(n, m) ==
  \A k \in DOMAIN m :
    /\ k \in DOMAIN n
    /\ n[k].event = m[k].event \/ n[k].event.createdAt > m[k].event.createdAt

CoversVerdicts(n, m) ==
  \A k \in DOMAIN m :
    k \in DOMAIN n /\ (n[k] = m[k] \/ n[k].createdAt > m[k].createdAt)

LEMMA ApplyCovers ==
  ASSUME NEW m, NEW n, NEW e \in Declarations, Dated(m), Dated(n), Covers(n, m)
  PROVE  Dated(Apply(n, e)) /\ Covers(Apply(n, e), m)
<1>1. CASE ~Accepts(n, e)
  BY <1>1 DEF Apply
<1>2. CASE Accepts(n, e)
  <2> DEFINE key == EntryKey(e)
             r == Apply(n, e)
  <2>1. r = Put(n, key, NewEntry(e))
    BY <1>2 DEF Apply
  <2>2. NewEntry(e).event = e
    BY DEF NewEntry
  <2>3. /\ DOMAIN r = DOMAIN n \cup {key}
        /\ r[key].event = e
        /\ \A k \in DOMAIN n : k # key => r[k] = n[k]
    <3> HIDE DEF key
    <3>1. QED BY <2>1, <2>2 DEF Put
  <2> HIDE DEF r
  <2>4. Dated(r)
    BY <2>3 DEF Dated
  <2>5. ASSUME NEW k \in DOMAIN m
        PROVE  /\ k \in DOMAIN r
               /\ r[k].event = m[k].event
                    \/ r[k].event.createdAt > m[k].event.createdAt
    <3>1. CASE k = key
      <4>1. e.createdAt > n[k].event.createdAt
        BY <1>2, <3>1 DEF Accepts, Covers
      <4>2. /\ n[k].event \in Declarations /\ m[k].event \in Declarations
            /\ \/ n[k].event = m[k].event
               \/ n[k].event.createdAt > m[k].event.createdAt
        BY DEF Covers, Dated
      <4>3. e.createdAt > m[k].event.createdAt
        BY <4>1, <4>2, Dates
      <4>4. QED BY <2>3, <3>1, <4>3
    <3>2. CASE k # key
      BY <2>3, <3>2 DEF Covers
    <3>3. QED BY <3>1, <3>2
  <2>6. QED BY <2>4, <2>5 DEF Covers, r
<1>3. QED BY <1>1, <1>2

LEMMA ApplyAttestationCovers ==
  ASSUME NEW m, NEW n, NEW a \in Attestations,
         DatedVerdicts(m), DatedVerdicts(n), CoversVerdicts(n, m)
  PROVE  /\ DatedVerdicts(ApplyAttestation(n, a))
         /\ CoversVerdicts(ApplyAttestation(n, a), m)
<1>1. CASE ~AcceptsAttestation(n, a)
  BY <1>1 DEF ApplyAttestation
<1>2. CASE AcceptsAttestation(n, a)
  <2> DEFINE key == AttestationKey(a)
             r == ApplyAttestation(n, a)
  <2>1. r = Put(n, key, a)
    BY <1>2 DEF ApplyAttestation
  <2>2. /\ DOMAIN r = DOMAIN n \cup {key}
        /\ r[key] = a
        /\ \A k \in DOMAIN n : k # key => r[k] = n[k]
    <3> HIDE DEF key
    <3>1. QED BY <2>1 DEF Put
  <2> HIDE DEF r
  <2>3. DatedVerdicts(r)
    BY <2>2 DEF DatedVerdicts
  <2>4. ASSUME NEW k \in DOMAIN m
        PROVE  /\ k \in DOMAIN r
               /\ r[k] = m[k] \/ r[k].createdAt > m[k].createdAt
    <3>1. CASE k = key
      <4>1. a.createdAt > n[k].createdAt
        BY <1>2, <3>1 DEF AcceptsAttestation, CoversVerdicts
      <4>2. /\ n[k] \in Attestations /\ m[k] \in Attestations
            /\ n[k] = m[k] \/ n[k].createdAt > m[k].createdAt
        BY DEF CoversVerdicts, DatedVerdicts
      <4>3. a.createdAt > m[k].createdAt
        BY <4>1, <4>2, Dates
      <4>4. QED BY <2>2, <3>1, <4>3
    <3>2. CASE k # key
      BY <2>2, <3>2 DEF CoversVerdicts
    <3>3. QED BY <3>1, <3>2
  <2>5. QED BY <2>3, <2>4 DEF CoversVerdicts, r
<1>3. QED BY <1>1, <1>2

\* While the process runs, its projection covers the file.
Ahead ==
  /\ Dated(entries) /\ Dated(disk.entries)
  /\ DatedVerdicts(attestations) /\ DatedVerdicts(disk.attestations)
  /\ Running => /\ Covers(entries, disk.entries)
                /\ CoversVerdicts(attestations, disk.attestations)
  /\ pending \subseteq Declarations /\ attPending \subseteq Attestations
  /\ relay \subseteq Declarations /\ attRelay \subseteq Attestations

LEMMA InitAhead == Init => Ahead
<1> SUFFICES ASSUME Init PROVE Ahead
  OBVIOUS
<1>1. /\ Dated(disk.entries) /\ DatedVerdicts(disk.attestations)
  BY FilesAssumption DEF Init, Dated, DatedVerdicts
<1>2. Dated(EmptyMap) /\ DatedVerdicts(EmptyMap)
  BY DEF Dated, DatedVerdicts, EmptyMap
<1>3. QED BY <1>1, <1>2 DEF Init, Ahead, Running, Restarting

LEMMA EmptyIsDated == Dated(EmptyMap) /\ DatedVerdicts(EmptyMap)
BY DEF Dated, DatedVerdicts, EmptyMap

LEMMA StepAhead == Saved /\ Ahead /\ [Next]_vars => Ahead'
<1> SUFFICES ASSUME Saved, Ahead, [Next]_vars PROVE Ahead'
  OBVIOUS
<1> USE DEF Save, memory, files, relays, Running, Restarting, Stopped
<1>1. CASE Start
  <2>1. Covers(disk.entries, disk.entries)
    BY DEF Covers
  <2>2. CoversVerdicts(disk.attestations, disk.attestations)
    BY DEF CoversVerdicts
  <2>3. QED BY <1>1, <2>1, <2>2 DEF Start, Ahead
<1>2. CASE FetchDeclarations
  <2>1. pending' \subseteq relay
    BY <1>2 DEF FetchDeclarations, LatestPerAddress
  <2>2. QED BY <1>2, <2>1 DEF FetchDeclarations, Ahead
<1>3. CASE ApplyFetched
  <2>1. PICK e \in pending : /\ entries' = Apply(entries, e)
                             /\ pending' = pending \ {e}
    BY <1>3 DEF ApplyFetched
  <2>2. /\ pc = "applying" /\ pc' = pc
        /\ UNCHANGED <<attPending, attestations, disk, relay, attRelay>>
    BY <1>3 DEF ApplyFetched
  <2>3. e \in Declarations /\ Covers(entries, disk.entries)
    BY <2>2 DEF Ahead
  <2>4. Dated(entries') /\ Covers(entries', disk.entries)
    BY <2>1, <2>3, ApplyCovers DEF Ahead
  <2>5. QED BY <2>1, <2>2, <2>4 DEF Ahead
<1>4. CASE FetchAttestations
  BY <1>4 DEF FetchAttestations, Ahead
<1>5. CASE ApplyFetchedAttestation
  <2>1. PICK a \in attPending :
          /\ attestations' = ApplyAttestation(attestations, a)
          /\ attPending' = attPending \ {a}
    BY <1>5 DEF ApplyFetchedAttestation
  <2>2. /\ pc = "applyingAtt" /\ pc' = pc
        /\ UNCHANGED <<pending, entries, disk, relay, attRelay>>
    BY <1>5 DEF ApplyFetchedAttestation
  <2>3. a \in Attestations /\ CoversVerdicts(attestations, disk.attestations)
    BY <2>2 DEF Ahead
  <2>4. /\ DatedVerdicts(attestations')
        /\ CoversVerdicts(attestations', disk.attestations)
    BY <2>1, <2>3, ApplyAttestationCovers DEF Ahead
  <2>5. QED BY <2>1, <2>2, <2>4 DEF Ahead
<1>6. CASE FinishBootstrap
  BY <1>6 DEF FinishBootstrap, Ahead
<1>7. CASE CreateTemporary \/ WriteTemporary
  BY <1>7 DEF CreateTemporary, WriteTemporary, Ahead
<1>8. CASE InstallTemporary
  <2>1. disk' = Payload
    BY <1>8 DEF InstallTemporary, Saved
  <2>2. disk'.entries = entries /\ disk'.attestations = attestations
    BY <2>1 DEF Payload
  <2>3. /\ Covers(entries, entries)
        /\ CoversVerdicts(attestations, attestations)
    BY DEF Covers, CoversVerdicts
  <2>4. CASE afterSave = "stopped"
    BY <1>8, <2>2, <2>4, EmptyIsDated DEF InstallTemporary, Ahead
  <2>5. CASE afterSave # "stopped"
    BY <1>8, <2>2, <2>3, <2>5 DEF InstallTemporary, Ahead
  <2>6. QED BY <2>4, <2>5
<1>9. CASE SaveFails \/ Crash
  BY <1>9, EmptyIsDated DEF SaveFails, Crash, Exit, Ahead
<1>10. ASSUME NEW e \in Declarations, Receive(e) PROVE Ahead'
  <2>1. /\ pc = "selecting" /\ pc' \in {"selecting", "creating"}
        /\ entries' = Apply(entries, e)
        /\ UNCHANGED <<pending, attPending, attestations, disk, relay, attRelay>>
    BY <1>10 DEF Receive
  <2>2. Dated(entries') /\ Covers(entries', disk.entries)
    BY <2>1, ApplyCovers DEF Ahead
  <2>3. QED BY <2>1, <2>2 DEF Ahead
<1>11. ASSUME NEW a \in Attestations, ReceiveAttestation(a) PROVE Ahead'
  <2>1. /\ pc = "selecting" /\ pc' \in {"selecting", "creating"}
        /\ attestations' = ApplyAttestation(attestations, a)
        /\ UNCHANGED <<pending, attPending, entries, disk, relay, attRelay>>
    BY <1>11 DEF ReceiveAttestation
  <2>2. /\ DatedVerdicts(attestations')
        /\ CoversVerdicts(attestations', disk.attestations)
    BY <2>1, ApplyAttestationCovers DEF Ahead
  <2>3. QED BY <2>1, <2>2 DEF Ahead
<1>12. CASE \/ SubscriptionCloses \/ ContextDone
            \/ LookAtContext \/ WaitToResubscribe
  <2>1. CASE LookAtContext
    BY <2>1, EmptyIsDated DEF LookAtContext, Exit, Ahead
  <2>2. CASE SubscriptionCloses \/ ContextDone \/ WaitToResubscribe
    BY <2>2 DEF SubscriptionCloses, ContextDone, WaitToResubscribe, Ahead
  <2>3. QED BY <1>12, <2>1, <2>2
<1>13. ASSUME NEW e \in Declarations, Publish(e) PROVE Ahead'
  BY <1>13 DEF Publish, Ahead
<1>14. ASSUME NEW a \in Attestations, PublishAttestation(a) PROVE Ahead'
  BY <1>14 DEF PublishAttestation, Ahead
<1>15. CASE Cancel \/ StartUnit
  BY <1>15 DEF Cancel, StartUnit, Ahead
<1>16. CASE UNCHANGED vars
  BY <1>16 DEF vars, Ahead
<1>17. QED
  BY <1>1, <1>2, <1>3, <1>4, <1>5, <1>6, <1>7, <1>8, <1>9, <1>10, <1>11, <1>12,
     <1>13, <1>14, <1>15, <1>16
     DEF Next, Daemon

\* Across any crashes, restarts, failed saves and empty answers of the relays
\* the state file keeps what it has shown or replaces it by something newer.
THEOREM FileNeverRegresses == Spec => NeverRegresses
<1> DEFINE Step ==
      /\ \A k \in DOMAIN disk.entries :
           /\ k \in DOMAIN disk'.entries
           /\ \/ disk'.entries[k].event = disk.entries[k].event
              \/ disk'.entries[k].event.createdAt
                   > disk.entries[k].event.createdAt
      /\ \A k \in DOMAIN disk.attestations :
           /\ k \in DOMAIN disk'.attestations
           /\ \/ disk'.attestations[k] = disk.attestations[k]
              \/ disk'.attestations[k].createdAt
                   > disk.attestations[k].createdAt
<1>1. Saved /\ Ahead /\ [Next]_vars => [Step]_vars
  <2> SUFFICES ASSUME Saved, Ahead, [Next]_vars PROVE Step
    OBVIOUS
  <2>1. CASE InstallTemporary
    <3>1. /\ disk'.entries = entries /\ disk'.attestations = attestations
          /\ pc = "renaming"
      BY <2>1 DEF InstallTemporary, Saved, Payload
    <3>2. /\ Covers(entries, disk.entries)
          /\ CoversVerdicts(attestations, disk.attestations)
      BY <3>1 DEF Ahead, Running, Stopped, Restarting
    <3>3. QED BY <3>1, <3>2 DEF Covers, CoversVerdicts
  <2>2. CASE disk' = disk
    BY <2>2
  <2>3. InstallTemporary \/ disk' = disk
    BY DEF Next, Daemon, Start, FetchDeclarations, ApplyFetched,
           FetchAttestations, ApplyFetchedAttestation, FinishBootstrap,
           CreateTemporary, WriteTemporary, SaveFails, Receive,
           ReceiveAttestation, SubscriptionCloses, ContextDone,
           LookAtContext, WaitToResubscribe, Publish, PublishAttestation, Cancel, Crash,
           StartUnit, vars, files
  <2>4. QED BY <2>1, <2>2, <2>3
<1>2. Spec => [][Step]_vars
  BY <1>1, InitSaved, StepSaved, InitAhead, StepAhead, PTL DEF Spec
<1>3. QED BY <1>2 DEF NeverRegresses
=============================================================================
