------------------------- MODULE CatalogStoreProofs -------------------------
(***************************************************************************)
(* Proofs about CatalogStore, for any set of events, publishers and logo   *)
(* hashes.                                                                 *)
(***************************************************************************)
EXTENDS CatalogStore, FiniteSetTheorems, TLAPS

-----------------------------------------------------------------------------
(* Facts about the data and the updates of the maps. *)

\* Events carry integer dates.
LEMMA Dates ==
  /\ \A e \in Declarations : e.createdAt \in Int
  /\ \A a \in Attestations : a.createdAt \in Int
BY DeclarationsAssumption, AttestationsAssumption
   DEF DeclarationEvent, AttestationEvent

\* SetLogoResult leaves the events of the projection alone.
LEMMA LogoFacts ==
  ASSUME NEW m, \A k \in DOMAIN m : m[k] \in Entry,
         NEW publisher, NEW appID, NEW hash \in LogoResults
  PROVE  /\ DOMAIN SetLogoResult(m, publisher, appID, hash) = DOMAIN m
         /\ \A k \in DOMAIN m :
              /\ SetLogoResult(m, publisher, appID, hash)[k] \in Entry
              /\ SetLogoResult(m, publisher, appID, hash)[k].event = m[k].event
              /\ m[k].logoChecked
                   => SetLogoResult(m, publisher, appID, hash)[k].logoChecked
<1> DEFINE key == <<publisher, appID>>
           r == SetLogoResult(m, publisher, appID, hash)
<1>1. CASE key \notin DOMAIN m
  BY <1>1 DEF SetLogoResult
<1>2. CASE key \in DOMAIN m
  <2>1. r = [m EXCEPT ![key] = [m[key] EXCEPT !.logoHash = hash,
                                              !.logoChecked = TRUE]]
    BY <1>2 DEF SetLogoResult
  <2>2. DOMAIN r = DOMAIN m
    BY <2>1
  <2>4. ASSUME NEW k \in DOMAIN m
        PROVE  /\ r[k] \in Entry
               /\ r[k].event = m[k].event
               /\ m[k].logoChecked => r[k].logoChecked
    <3>1. CASE k = key
      <4>1. r[k] = [m[k] EXCEPT !.logoHash = hash, !.logoChecked = TRUE]
        BY <2>1, <3>1
      <4>2. m[k] \in Entry
        OBVIOUS
      <4>3. r[k] \in Entry /\ r[k].event = m[k].event /\ r[k].logoChecked
        BY <4>1, <4>2, Zenon DEF Entry
      <4>4. QED BY <4>3
    <3>2. CASE k # key
      BY <2>1, <3>2
    <3>3. QED BY <3>1, <3>2
  <2>5. QED BY <2>2, <2>4
<1>3. QED BY <1>1, <1>2

-----------------------------------------------------------------------------
(* Type correctness. *)

\* Whatever the relays deliver, the projection holds only declarations that
\* trusted publishers signed, each under its own publisher and app, and
\* attestations under their own verifier, app and commit.
THEOREM TypeCorrect == Spec => []TypeOK
<1>1. Init => TypeOK
  BY DEF Init, TypeOK, EmptyMap
<1>2. TypeOK /\ [Next]_vars => TypeOK'
  <2> SUFFICES ASSUME TypeOK, [Next]_vars PROVE TypeOK'
    OBVIOUS
  <2>1. ASSUME NEW e \in Declarations, ApplyDeclaration(e) PROVE TypeOK'
    <3>1. CASE Accepts(entries, e)
      <4>1. entries' = Put(entries, EntryKey(e), NewEntry(e))
        BY <2>1, <3>1 DEF ApplyDeclaration, Apply
      <4>2. EntryKey(e) \in Trusted \X AppIDs
        BY <3>1 DEF Accepts, Validates, EntryKey, AppIDs
      <4>3. NewEntry(e) \in Entry /\ NewEntry(e).event = e
        BY Zenon DEF NewEntry, Entry, LogoResults
      <4>4. DOMAIN entries' \subseteq Trusted \X AppIDs
        BY <4>1, <4>2 DEF Put, TypeOK
      <4>5. ASSUME NEW k \in DOMAIN entries'
            PROVE  entries'[k] \in Entry /\ EntryKey(entries'[k].event) = k
        <5>1. CASE k = EntryKey(e)
          BY <5>1, <4>1, <4>3 DEF Put
        <5>2. CASE k # EntryKey(e)
          BY <5>2, <4>1 DEF Put, TypeOK
        <5>3. QED BY <5>1, <5>2
      <4>6. QED BY <4>4, <4>5, <2>1 DEF ApplyDeclaration, TypeOK
    <3>2. CASE ~Accepts(entries, e)
      BY <2>1, <3>2 DEF ApplyDeclaration, Apply, TypeOK
    <3>3. QED BY <3>1, <3>2
  <2>2. ASSUME NEW a \in Attestations, ApplyOneAttestation(a) PROVE TypeOK'
    <3>1. CASE AcceptsAttestation(attestations, a)
      <4>1. attestations' = Put(attestations, AttestationKey(a), a)
        BY <2>2, <3>1 DEF ApplyOneAttestation, ApplyAttestation
      <4>2. \A k \in DOMAIN attestations' :
              /\ attestations'[k] \in Attestations
              /\ AttestationKey(attestations'[k]) = k
        BY <4>1 DEF Put, TypeOK
      <4>3. QED BY <4>2, <2>2 DEF ApplyOneAttestation, TypeOK
    <3>2. CASE ~AcceptsAttestation(attestations, a)
      BY <2>2, <3>2 DEF ApplyOneAttestation, ApplyAttestation, TypeOK
    <3>3. QED BY <3>1, <3>2
  <2>3. ASSUME NEW publisher \in Trusted, NEW appID \in AppIDs,
               NEW hash \in LogoResults, RecordLogo(publisher, appID, hash)
        PROVE  TypeOK'
    BY <2>3, LogoFacts DEF RecordLogo, TypeOK
  <2>4. CASE UNCHANGED vars
    BY <2>4 DEF vars, TypeOK
  <2>5. QED BY <2>1, <2>2, <2>3, <2>4 DEF Next
<1>3. QED BY <1>1, <1>2, PTL DEF Spec

-----------------------------------------------------------------------------
(* The newest valid event wins. *)

\* Whatever declarations were applied, in whatever order and however often,
\* each publisher's app shows a newest valid one of them and nothing else is
\* shown.  With TypeOK the invariant is inductive as it stands.
THEOREM NewestAlwaysWins == Spec => []NewestWins
<1>1. Init => NewestWins
  BY DEF Init, NewestWins, ValidReceived, EmptyMap
<1>2. TypeOK /\ NewestWins /\ [Next]_vars => NewestWins'
  <2> SUFFICES ASSUME TypeOK, NewestWins, [Next]_vars PROVE NewestWins'
    OBVIOUS
  <2>1. ASSUME NEW e \in Declarations, ApplyDeclaration(e) PROVE NewestWins'
    <3>1. received' = received \cup {e}
      BY <2>1 DEF ApplyDeclaration
    <3>2. CASE Accepts(entries, e)
      <4> DEFINE key == EntryKey(e)
      <4>1. entries' = Put(entries, key, NewEntry(e))
        BY <2>1, <3>2 DEF ApplyDeclaration, Apply
      <4>2. Validates(e)
        BY <3>2 DEF Accepts
      <4>3. ValidReceived' = ValidReceived \cup {e}
        BY <3>1, <4>2 DEF ValidReceived
      <4>4. /\ DOMAIN entries' = DOMAIN entries \cup {key}
            /\ entries'[key].event = e
            /\ \A k \in DOMAIN entries : k # key => entries'[k] = entries[k]
        BY <4>1 DEF Put, NewEntry
      <4>5. \A f \in ValidReceived :
              EntryKey(f) = key => f.createdAt <= e.createdAt
        <5> SUFFICES ASSUME NEW f \in ValidReceived, EntryKey(f) = key
                     PROVE  f.createdAt <= e.createdAt
          OBVIOUS
        <5>1. key \in DOMAIN entries
          BY DEF NewestWins
        <5>2. /\ f.createdAt <= entries[key].event.createdAt
              /\ entries[key].event \in Declarations
              /\ f \in Declarations
          BY <5>1 DEF NewestWins, ValidReceived, TypeOK
        <5>3. e.createdAt > entries[key].event.createdAt
          BY <5>1, <3>2 DEF Accepts
        <5>4. QED BY <5>2, <5>3, Dates
      <4>6. DOMAIN entries' = {EntryKey(f) : f \in ValidReceived'}
        BY <4>3, <4>4 DEF NewestWins
      <4>7. ASSUME NEW k \in DOMAIN entries'
            PROVE  /\ entries'[k].event \in ValidReceived'
                   /\ EntryKey(entries'[k].event) = k
                   /\ \A f \in ValidReceived' :
                        EntryKey(f) = k
                          => f.createdAt <= entries'[k].event.createdAt
        <5>1. CASE k = key
          BY <5>1, <4>3, <4>4, <4>5, Dates
        <5>2. CASE k # key
          BY <5>2, <4>3, <4>4 DEF NewestWins
        <5>3. QED BY <5>1, <5>2
      <4>8. QED BY <4>6, <4>7 DEF NewestWins
    <3>3. CASE ~Accepts(entries, e)
      <4>1. entries' = entries
        BY <2>1, <3>3 DEF ApplyDeclaration, Apply
      <4>2. CASE ~Validates(e)
        <5>1. ValidReceived' = ValidReceived
          BY <3>1, <4>2 DEF ValidReceived
        <5>2. QED BY <4>1, <5>1 DEF NewestWins
      <4>3. CASE Validates(e)
        <5>1. ValidReceived' = ValidReceived \cup {e}
          BY <3>1, <4>3 DEF ValidReceived
        <5>2. /\ EntryKey(e) \in DOMAIN entries
              /\ ~(e.createdAt > entries[EntryKey(e)].event.createdAt)
          BY <3>3, <4>3 DEF Accepts
        <5>3. entries[EntryKey(e)].event \in Declarations
          BY <5>2 DEF NewestWins, ValidReceived, TypeOK
        <5>4. e.createdAt <= entries[EntryKey(e)].event.createdAt
          BY <5>2, <5>3, Dates
        <5>5. QED BY <4>1, <5>1, <5>2, <5>4 DEF NewestWins
      <4>4. QED BY <4>2, <4>3
    <3>4. QED BY <3>2, <3>3
  <2>2. ASSUME NEW a \in Attestations, ApplyOneAttestation(a)
        PROVE  NewestWins'
    BY <2>2 DEF ApplyOneAttestation, NewestWins, ValidReceived
  <2>3. ASSUME NEW publisher \in Trusted, NEW appID \in AppIDs,
               NEW hash \in LogoResults, RecordLogo(publisher, appID, hash)
        PROVE  NewestWins'
    <3>1. ValidReceived' = ValidReceived
      BY <2>3 DEF RecordLogo, ValidReceived
    <3>2. /\ DOMAIN entries' = DOMAIN entries
          /\ \A k \in DOMAIN entries : entries'[k].event = entries[k].event
      BY <2>3, LogoFacts DEF RecordLogo, TypeOK
    <3>3. QED BY <3>1, <3>2 DEF NewestWins
  <2>4. CASE UNCHANGED vars
    BY <2>4 DEF vars, NewestWins, ValidReceived
  <2>5. QED BY <2>1, <2>2, <2>3, <2>4 DEF Next
<1>3. QED BY <1>1, <1>2, TypeCorrect, PTL DEF Spec

\* The same of the attestations: the verdict kept is a latest one.
THEOREM NewestVerdictAlwaysWins == Spec => []NewestVerdictWins
<1>1. Init => NewestVerdictWins
  BY DEF Init, NewestVerdictWins, ParsedReceived, EmptyMap
<1>2. TypeOK /\ NewestVerdictWins /\ [Next]_vars => NewestVerdictWins'
  <2> SUFFICES ASSUME TypeOK, NewestVerdictWins, [Next]_vars
               PROVE  NewestVerdictWins'
    OBVIOUS
  <2>1. ASSUME NEW e \in Declarations, ApplyDeclaration(e)
        PROVE  NewestVerdictWins'
    BY <2>1 DEF ApplyDeclaration, NewestVerdictWins, ParsedReceived
  <2>2. ASSUME NEW a \in Attestations, ApplyOneAttestation(a)
        PROVE  NewestVerdictWins'
    <3> DEFINE key == AttestationKey(a)
    <3>1. attReceived' = attReceived \cup {a}
      BY <2>2 DEF ApplyOneAttestation
    <3>2. CASE AcceptsAttestation(attestations, a)
      <4>1. attestations' = Put(attestations, key, a)
        BY <2>2, <3>2 DEF ApplyOneAttestation, ApplyAttestation
      <4>2. ParsedReceived' = ParsedReceived \cup {a}
        BY <3>1, <3>2 DEF AcceptsAttestation, ParsedReceived
      <4>3. /\ DOMAIN attestations' = DOMAIN attestations \cup {key}
            /\ attestations'[key] = a
            /\ \A k \in DOMAIN attestations :
                 k # key => attestations'[k] = attestations[k]
        BY <4>1 DEF Put
      <4>4. \A b \in ParsedReceived :
              AttestationKey(b) = key => b.createdAt <= a.createdAt
        <5> SUFFICES ASSUME NEW b \in ParsedReceived, AttestationKey(b) = key
                     PROVE  b.createdAt <= a.createdAt
          OBVIOUS
        <5>1. key \in DOMAIN attestations
          BY DEF NewestVerdictWins
        <5>2. /\ b.createdAt <= attestations[key].createdAt
              /\ attestations[key] \in Attestations
              /\ b \in Attestations
          BY <5>1 DEF NewestVerdictWins, ParsedReceived, TypeOK
        <5>3. a.createdAt > attestations[key].createdAt
          BY <5>1, <3>2 DEF AcceptsAttestation
        <5>4. QED BY <5>2, <5>3, Dates
      <4>5. DOMAIN attestations' = {AttestationKey(b) : b \in ParsedReceived'}
        BY <4>2, <4>3 DEF NewestVerdictWins
      <4>6. ASSUME NEW k \in DOMAIN attestations'
            PROVE  /\ attestations'[k] \in ParsedReceived'
                   /\ AttestationKey(attestations'[k]) = k
                   /\ \A b \in ParsedReceived' :
                        AttestationKey(b) = k
                          => b.createdAt <= attestations'[k].createdAt
        <5>1. CASE k = key
          BY <5>1, <4>2, <4>3, <4>4, Dates
        <5>2. CASE k # key
          BY <5>2, <4>2, <4>3 DEF NewestVerdictWins
        <5>3. QED BY <5>1, <5>2
      <4>7. QED BY <4>5, <4>6 DEF NewestVerdictWins
    <3>3. CASE ~AcceptsAttestation(attestations, a)
      <4>1. attestations' = attestations
        BY <2>2, <3>3 DEF ApplyOneAttestation, ApplyAttestation
      <4>2. CASE ~ParsesAttestation(a)
        <5>1. ParsedReceived' = ParsedReceived
          BY <3>1, <4>2 DEF ParsedReceived
        <5>2. QED BY <4>1, <5>1 DEF NewestVerdictWins
      <4>3. CASE ParsesAttestation(a)
        <5>1. ParsedReceived' = ParsedReceived \cup {a}
          BY <3>1, <4>3 DEF ParsedReceived
        <5>2. /\ key \in DOMAIN attestations
              /\ ~(a.createdAt > attestations[key].createdAt)
          BY <3>3, <4>3 DEF AcceptsAttestation
        <5>3. attestations[key] \in Attestations
          BY <5>2 DEF TypeOK
        <5>4. a.createdAt <= attestations[key].createdAt
          BY <5>2, <5>3, Dates
        <5>5. QED BY <4>1, <5>1, <5>2, <5>4 DEF NewestVerdictWins
      <4>4. QED BY <4>2, <4>3
    <3>4. QED BY <3>2, <3>3
  <2>3. ASSUME NEW publisher \in Trusted, NEW appID \in AppIDs,
               NEW hash \in LogoResults, RecordLogo(publisher, appID, hash)
        PROVE  NewestVerdictWins'
    BY <2>3 DEF RecordLogo, NewestVerdictWins, ParsedReceived
  <2>4. CASE UNCHANGED vars
    BY <2>4 DEF vars, NewestVerdictWins, ParsedReceived
  <2>5. QED BY <2>1, <2>2, <2>3, <2>4 DEF Next
<1>3. QED BY <1>1, <1>2, TypeCorrect, PTL DEF Spec

-----------------------------------------------------------------------------
(* Resolution. *)

\* Candidate c of an app precedes all others.
Leads(c, appID) ==
  /\ c \in Candidates(entries, appID)
  /\ \A other \in Candidates(entries, appID) \ {c} :
       Precedes(entries[c], entries[other])

\* An app that is shown has a candidate that leads.  No finiteness is needed:
\* a step replaces or adds one candidate, so the leader is the old one or it.
Led ==
  \A appID \in AppIDs :
    Candidates(entries, appID) # {}
      => \E c \in DOMAIN entries : Leads(c, appID)

\* What the comparison needs to know of the entries.
LEMMA CandidateFacts ==
  ASSUME TypeOK, NEW appID, NEW c \in Candidates(entries, appID)
  PROVE  /\ c \in DOMAIN entries
         /\ entries[c].event \in Declarations
         /\ EntryKey(entries[c].event) = c
         /\ c = <<entries[c].event.pubkey, appID>>
         /\ DeclarationOf(entries[c].event).appID = appID
         /\ entries[c].event.pubkey \in Nat
         /\ entries[c].event.createdAt \in Int
<1>1. c \in DOMAIN entries /\ c[2] = appID
  BY DEF Candidates
<1>2. entries[c].event \in Declarations /\ EntryKey(entries[c].event) = c
  BY <1>1, Zenon DEF TypeOK, Entry
<1>3. entries[c].event.pubkey \in Nat /\ entries[c].event.createdAt \in Int
  BY <1>2, DeclarationsAssumption DEF DeclarationEvent
<1>4. QED BY <1>1, <1>2, <1>3 DEF EntryKey

LEMMA ApplyKeepsLeader ==
  ASSUME TypeOK, TypeOK', Led, NEW e \in Declarations, ApplyDeclaration(e),
         Accepts(entries, e), NEW appID \in AppIDs,
         Candidates(entries, appID)' # {}
  PROVE  \E c \in DOMAIN entries' : Leads(c, appID)'
<1> DEFINE key == EntryKey(e)
           old == Candidates(entries, appID)
           new == Candidates(entries', appID)
<1>1. /\ DOMAIN entries' = DOMAIN entries \cup {key}
      /\ entries'[key].event = e
      /\ \A k \in DOMAIN entries : k # key => entries'[k] = entries[k]
  <2>1. entries' = Put(entries, key, NewEntry(e))
    BY DEF ApplyDeclaration, Apply
  <2>2. NewEntry(e).event = e
    BY DEF NewEntry
  <2> HIDE DEF key
  <2>3. QED BY <2>1, <2>2 DEF Put
<1>2. ASSUME NEW c \in new
      PROVE  /\ entries'[c].event.pubkey \in Nat
             /\ entries'[c].event.createdAt \in Int
             /\ c = <<entries'[c].event.pubkey, appID>>
  <2>1. c \in DOMAIN entries' /\ c[2] = appID
    BY DEF Candidates
  <2>2. entries'[c].event \in Declarations /\ EntryKey(entries'[c].event) = c
    BY <2>1, Zenon DEF TypeOK, Entry
  <2>3. /\ entries'[c].event.pubkey \in Nat
        /\ entries'[c].event.createdAt \in Int
    BY <2>2, DeclarationsAssumption DEF DeclarationEvent
  <2>4. QED BY <2>1, <2>2, <2>3 DEF EntryKey
<1>3. new \subseteq old \cup {key} /\ old \subseteq new
  BY <1>1 DEF Candidates
<1>4. e.pubkey \in Nat /\ e.createdAt \in Int
  BY DeclarationsAssumption DEF DeclarationEvent
<1>5. CASE key \notin new
  <2>1. new = old /\ \A c \in old : entries'[c] = entries[c]
    <3> HIDE DEF key
    <3>1. QED BY <1>1, <1>3, <1>5 DEF Candidates
  <2>2. QED BY <2>1, <1>1 DEF Led, Leads
<1>6. CASE key \in new /\ old \subseteq {key}
  <2>1. new \ {key} = {}
    BY <1>3, <1>6
  <2>2. Leads(key, appID)'
    BY <2>1, <1>6 DEF Leads
  <2>3. QED BY <2>2, <1>1
<1>7. CASE key \in new /\ ~(old \subseteq {key})
  <2>1. PICK c \in DOMAIN entries : Leads(c, appID)
    BY <1>7 DEF Led
  <2>2. /\ c \in old /\ c \in new
        /\ \A other \in old \ {c} : Precedes(entries[c], entries[other])
    BY <2>1, <1>3 DEF Leads
  <2>3. CASE c = key
    <3>1. /\ entries[c].event.createdAt < e.createdAt
          /\ entries[c].event.createdAt \in Int
      BY <2>2, <2>3, <1>4, CandidateFacts DEF Accepts
    <3>2. ASSUME NEW other \in new \ {key}
          PROVE  Precedes(entries'[key], entries'[other])
      <4>1. other \in old \ {c} /\ entries'[other] = entries[other]
        BY <1>1, <1>3, <2>3 DEF Candidates
      <4>2. /\ Precedes(entries[c], entries[other])
            /\ entries[other].event.createdAt \in Int
        BY <4>1, <2>2, CandidateFacts
      <4>3. e.createdAt > entries[other].event.createdAt
        BY <4>2, <3>1, <1>4 DEF Precedes
      <4>4. QED BY <4>1, <4>3, <1>1 DEF Precedes
    <3>3. Leads(key, appID)'
      BY <3>2, <1>7 DEF Leads
    <3>4. QED BY <3>3, <1>1
  <2>4. CASE c # key /\ Precedes(entries[c], entries'[key])
    <3>1. entries'[c] = entries[c]
      BY <1>1, <2>4
    <3>2. ASSUME NEW other \in new \ {c}
          PROVE  Precedes(entries'[c], entries'[other])
      <4>1. CASE other = key
        BY <4>1, <3>1, <2>4
      <4>2. CASE other # key
        <5>1. other \in old \ {c} /\ entries'[other] = entries[other]
          BY <4>2, <1>1, <1>3 DEF Candidates
        <5>2. QED BY <5>1, <3>1, <2>2
      <4>3. QED BY <4>1, <4>2
    <3>3. Leads(c, appID)'
      BY <3>2, <2>2 DEF Leads
    <3>4. QED BY <3>3, <1>1
  <2>5. CASE c # key /\ ~Precedes(entries[c], entries'[key])
    <3>1. /\ entries[c].event.pubkey \in Nat
          /\ entries[c].event.createdAt \in Int
          /\ c = <<entries[c].event.pubkey, appID>>
      BY <2>2, CandidateFacts
    <3>2. key = <<e.pubkey, appID>>
      BY <1>1, <1>2, <1>7
    <3>3. entries[c].event.pubkey # e.pubkey
      BY <3>1, <3>2, <2>5
    <3>4. \/ e.createdAt > entries[c].event.createdAt
          \/ /\ e.createdAt = entries[c].event.createdAt
             /\ e.pubkey < entries[c].event.pubkey
      BY <3>1, <3>3, <2>5, <1>1, <1>4 DEF Precedes
    <3>5. ASSUME NEW other \in new \ {key}
          PROVE  Precedes(entries'[key], entries'[other])
      <4>1. other \in old /\ entries'[other] = entries[other]
        BY <1>1, <1>3 DEF Candidates
      <4>2. CASE other = c
        BY <4>1, <4>2, <3>4, <1>1 DEF Precedes
      <4>3. CASE other # c
        <5>1. /\ Precedes(entries[c], entries[other])
              /\ entries[other].event.pubkey \in Nat
              /\ entries[other].event.createdAt \in Int
          BY <4>1, <4>3, <2>2, CandidateFacts
        <5>2. \/ e.createdAt > entries[other].event.createdAt
              \/ /\ e.createdAt = entries[other].event.createdAt
                 /\ e.pubkey < entries[other].event.pubkey
          BY <5>1, <3>1, <3>4, <1>4 DEF Precedes
        <5>3. QED BY <5>2, <4>1, <1>1 DEF Precedes
      <4>4. QED BY <4>2, <4>3
    <3>6. Leads(key, appID)'
      BY <3>5, <1>7 DEF Leads
    <3>7. QED BY <3>6, <1>1
  <2>6. QED BY <2>3, <2>4, <2>5
<1>8. QED BY <1>5, <1>6, <1>7

LEMMA StepLed == TypeOK /\ TypeOK' /\ Led /\ [Next]_vars => Led'
<1> SUFFICES ASSUME TypeOK, TypeOK', Led, [Next]_vars PROVE Led'
  OBVIOUS
<1>1. ASSUME NEW e \in Declarations, ApplyDeclaration(e) PROVE Led'
  <2>1. CASE Accepts(entries, e)
    BY <1>1, <2>1, ApplyKeepsLeader DEF Led, AppIDs
  <2>2. CASE ~Accepts(entries, e)
    BY <1>1, <2>2 DEF ApplyDeclaration, Apply, Led, Leads, AppIDs
  <2>3. QED BY <2>1, <2>2
<1>2. ASSUME NEW a \in Attestations, ApplyOneAttestation(a) PROVE Led'
  BY <1>2 DEF ApplyOneAttestation, Led, Leads, AppIDs
<1>3. ASSUME NEW publisher \in Trusted, NEW logo \in AppIDs,
             NEW hash \in LogoResults, RecordLogo(publisher, logo, hash)
      PROVE  Led'
  <2>1. /\ DOMAIN entries' = DOMAIN entries
        /\ \A k \in DOMAIN entries : entries'[k].event = entries[k].event
    BY <1>3, LogoFacts DEF RecordLogo, TypeOK
  <2>2. ASSUME NEW appID PROVE Candidates(entries', appID) = Candidates(entries, appID)
    BY <2>1 DEF Candidates
  <2>3. ASSUME NEW i \in DOMAIN entries, NEW j \in DOMAIN entries
        PROVE  Precedes(entries'[i], entries'[j]) = Precedes(entries[i], entries[j])
    BY <2>1 DEF Precedes
  <2>4. ASSUME NEW appID, NEW c, Leads(c, appID) PROVE Leads(c, appID)'
    BY <2>2, <2>3, <2>4 DEF Leads, Candidates
  <2>5. QED BY <2>1, <2>2, <2>4 DEF Led, AppIDs
<1>4. CASE UNCHANGED vars
  BY <1>4 DEF vars, Led, Leads, AppIDs
<1>5. QED BY <1>1, <1>2, <1>3, <1>4 DEF Next

\* Two candidates cannot both precede the other.
LEMMA OneLeader ==
  ASSUME TypeOK, NEW appID, NEW c, NEW b, Leads(c, appID), Leads(b, appID)
  PROVE  b = c
<1> SUFFICES ASSUME b # c PROVE FALSE
  OBVIOUS
<1>1. /\ c \in Candidates(entries, appID) /\ b \in Candidates(entries, appID)
      /\ Precedes(entries[c], entries[b]) /\ Precedes(entries[b], entries[c])
  BY DEF Leads
<1>2. QED BY <1>1, CandidateFacts DEF Precedes

\* Whatever was received, in whatever order, an app a trusted publisher has
\* declared resolves to one declaration, a newest one of any publisher and, of
\* several as new, the one of the smallest key.
THEOREM AlwaysResolvesToTheNewest == Spec => []ResolvesToTheNewest
<1>1. Init => Led
  BY DEF Init, Led, Candidates, EmptyMap
<1>2. TypeOK /\ NewestWins /\ Led => ResolvesToTheNewest
  <2> SUFFICES ASSUME TypeOK, NewestWins, Led, NEW appID \in AppIDs
               PROVE
                 LET valid == {e \in ValidReceived : DeclarationOf(e).appID = appID}
                 IN  /\ valid # {} => Cardinality(Resolve(entries, appID)) = 1
                     /\ \A declaration \in Resolve(entries, appID) :
                          \E e \in valid :
                            /\ DeclarationOf(e) = declaration
                            /\ \A f \in valid :
                                 \/ f.createdAt < e.createdAt
                                 \/ /\ f.createdAt = e.createdAt
                                    /\ e.pubkey <= f.pubkey
    BY DEF ResolvesToTheNewest
  <2> DEFINE valid == {e \in ValidReceived : DeclarationOf(e).appID = appID}
  <2>1. Resolve(entries, appID)
          = {DeclarationOf(entries[k].event) :
               k \in {c \in Candidates(entries, appID) : Leads(c, appID)}}
    BY DEF Resolve, Leads
  <2>2. ASSUME NEW f \in valid
        PROVE  /\ EntryKey(f) \in Candidates(entries, appID)
               /\ f.createdAt <= entries[EntryKey(f)].event.createdAt
               /\ EntryKey(f) = <<f.pubkey, appID>>
    BY DEF NewestWins, Candidates, EntryKey
  <2>3. ASSUME valid # {} PROVE Cardinality(Resolve(entries, appID)) = 1
    <3>1. PICK c \in DOMAIN entries : Leads(c, appID)
      BY <2>2, <2>3 DEF Led
    <3>2. {k \in Candidates(entries, appID) : Leads(k, appID)} = {c}
      BY <3>1, OneLeader DEF Leads
    <3>3. Resolve(entries, appID) = {DeclarationOf(entries[c].event)}
      BY <2>1, <3>2
    <3>4. QED BY <3>3, FS_Singleton
  <2>4. ASSUME NEW declaration \in Resolve(entries, appID)
        PROVE  \E e \in valid :
                 /\ DeclarationOf(e) = declaration
                 /\ \A f \in valid :
                      \/ f.createdAt < e.createdAt
                      \/ f.createdAt = e.createdAt /\ e.pubkey <= f.pubkey
    <3>1. PICK c \in Candidates(entries, appID) :
            Leads(c, appID) /\ declaration = DeclarationOf(entries[c].event)
      BY <2>1
    <3>2. entries[c].event \in valid
      BY CandidateFacts DEF NewestWins
    <3>3. ASSUME NEW f \in valid
          PROVE  \/ f.createdAt < entries[c].event.createdAt
                 \/ /\ f.createdAt = entries[c].event.createdAt
                    /\ entries[c].event.pubkey <= f.pubkey
      <4> DEFINE k == EntryKey(f)
      <4>1. /\ k \in Candidates(entries, appID)
            /\ f.createdAt <= entries[k].event.createdAt
            /\ k = <<f.pubkey, appID>>
        BY <2>2
      <4>2. f.createdAt \in Int /\ f.pubkey \in Nat
        BY DeclarationsAssumption DEF ValidReceived, TypeOK, DeclarationEvent
      <4> HIDE DEF k
      <4>3. entries[k].event.pubkey = f.pubkey /\ entries[k].event.createdAt \in Int
        BY <4>1, CandidateFacts
      <4>4. CASE k = c
        BY <4>1, <4>2, <4>3, <4>4
      <4>5. CASE k # c
        <5>1. Precedes(entries[c], entries[k])
          BY <4>1, <4>5, <3>1 DEF Leads
        <5>2. /\ entries[c].event.createdAt \in Int
              /\ entries[c].event.pubkey \in Nat
          BY CandidateFacts
        <5>3. QED BY <4>1, <4>2, <4>3, <5>1, <5>2 DEF Precedes
      <4>6. QED BY <4>4, <4>5
    <3>4. QED BY <3>1, <3>2, <3>3
  <2>5. QED BY <2>3, <2>4
<1>3. QED BY <1>1, <1>2, StepLed, TypeCorrect, NewestAlwaysWins, PTL DEF Spec

-----------------------------------------------------------------------------
(* Logos. *)

\* A replaced declaration takes its logo with it, and nothing else forgets an
\* inspection: what is accepted is strictly newer, so it is another event.
THEOREM LogosFollowDeclarations == Spec => LogoFollowsDeclaration
<1> DEFINE Step ==
      \A k \in DOMAIN entries :
        IF entries'[k].event = entries[k].event
          THEN entries[k].logoChecked => entries'[k].logoChecked
          ELSE ~entries'[k].logoChecked /\ entries'[k].logoHash = ""
<1>1. TypeOK /\ [Next]_vars => [Step]_vars
  <2> SUFFICES ASSUME TypeOK, [Next]_vars PROVE Step
    OBVIOUS
  <2>1. ASSUME NEW e \in Declarations, ApplyDeclaration(e) PROVE Step
    <3>1. CASE Accepts(entries, e)
      <4> DEFINE key == EntryKey(e)
      <4>1. entries' = Put(entries, key, NewEntry(e))
        BY <2>1, <3>1 DEF ApplyDeclaration, Apply
      <4>2. /\ NewEntry(e).event = e /\ ~NewEntry(e).logoChecked
            /\ NewEntry(e).logoHash = ""
        BY DEF NewEntry
      <4>3. key \in DOMAIN entries => entries[key].event # e
        <5> SUFFICES ASSUME key \in DOMAIN entries, entries[key].event = e
                     PROVE  FALSE
          OBVIOUS
        <5>1. e.createdAt > e.createdAt
          BY <3>1 DEF Accepts
        <5>2. QED BY <5>1, Dates
      <4> HIDE DEF key
      <4>4. QED BY <4>1, <4>2, <4>3 DEF Put
    <3>2. CASE ~Accepts(entries, e)
      BY <2>1, <3>2 DEF ApplyDeclaration, Apply
    <3>3. QED BY <3>1, <3>2
  <2>2. ASSUME NEW a \in Attestations, ApplyOneAttestation(a) PROVE Step
    BY <2>2 DEF ApplyOneAttestation
  <2>3. ASSUME NEW publisher \in Trusted, NEW appID \in AppIDs,
               NEW hash \in LogoResults, RecordLogo(publisher, appID, hash)
        PROVE  Step
    <3>1. \A k \in DOMAIN entries : entries[k] \in Entry
      BY DEF TypeOK
    <3> DEFINE r == SetLogoResult(entries, publisher, appID, hash)
    <3>2. \A k \in DOMAIN entries :
            /\ r[k] \in Entry
            /\ r[k].event = entries[k].event
            /\ entries[k].logoChecked => r[k].logoChecked
      BY <3>1, LogoFacts
    <3>3. entries' = r
      BY <2>3 DEF RecordLogo
    <3> HIDE DEF r
    <3>4. QED BY <3>2, <3>3, Zenon
  <2>4. CASE UNCHANGED vars
    BY <2>4 DEF vars
  <2>5. QED BY <2>1, <2>2, <2>3, <2>4 DEF Next
<1>2. Spec => [][Step]_vars
  BY <1>1, TypeCorrect, PTL DEF Spec
<1>3. QED BY <1>2 DEF LogoFollowsDeclaration

-----------------------------------------------------------------------------
(* Attestation policy. *)

\* Two attestations in one slice of AttestationsFor are by two verifiers: the
\* declaration fixes the app and the commit of the key they are kept under.
LEMMA OneVerdictPerVerifier ==
  ASSUME TypeOK, NEW declaration,
         NEW i \in DOMAIN AttestationsFor(attestations, declaration),
         NEW j \in DOMAIN AttestationsFor(attestations, declaration),
         attestations[i].pubkey = attestations[j].pubkey
  PROVE  i = j
<1>1. /\ i \in DOMAIN attestations /\ Matches(attestations[i], declaration)
      /\ j \in DOMAIN attestations /\ Matches(attestations[j], declaration)
  BY DEF AttestationsFor
<1>2. /\ attestations[i].appID = attestations[j].appID
      /\ attestations[i].commit = attestations[j].commit
  BY <1>1 DEF Matches
<1>3. AttestationKey(attestations[i]) = AttestationKey(attestations[j])
  BY <1>2 DEF AttestationKey
<1>4. QED BY <1>1, <1>3 DEF TypeOK

\* Evaluate may count slice elements for verifiers.
THEOREM VerifiersAreIndependent == Spec => []IndependentVerifiers
<1>1. TypeOK => IndependentVerifiers
  <2> SUFFICES ASSUME TypeOK, NEW k \in DOMAIN entries,
                      NEW i \in DOMAIN AttestationsFor(attestations,
                                        DeclarationOf(entries[k].event)),
                      NEW j \in DOMAIN AttestationsFor(attestations,
                                        DeclarationOf(entries[k].event)),
                      AttestationsFor(attestations,
                        DeclarationOf(entries[k].event))[i].pubkey
                      = AttestationsFor(attestations,
                          DeclarationOf(entries[k].event))[j].pubkey
               PROVE  i = j
    BY DEF IndependentVerifiers
  <2>1. attestations[i].pubkey = attestations[j].pubkey
    BY DEF AttestationsFor
  <2>2. QED BY <2>1, OneVerdictPerVerifier
<1>2. QED BY <1>1, TypeCorrect, PTL

\* Under "require", what ResolveInstallable returns has the word of enough
\* distinct trusted verifiers, however many verdicts were received, in
\* whatever order, on whatever revisions.
THEOREM NothingUnvouchedIsInstallable == Spec => []InstallableIsVouchedFor
<1>1. TypeOK /\ NewestVerdictWins => InstallableIsVouchedFor
  <2> SUFFICES ASSUME TypeOK, NewestVerdictWins,
                      NEW p \in Policies, NEW appID \in AppIDs,
                      p.mode = "require",
                      NEW declaration \in
                        ResolveInstallable(entries, attestations, appID, p)
               PROVE  LET vouching == {v \in p.trustedVerifiers :
                                         Vouches(v, declaration, p)}
                      IN  vouching # {} /\ Cardinality(vouching) >= p.minimum
    BY DEF InstallableIsVouchedFor
  <2> DEFINE vouching == {v \in p.trustedVerifiers : Vouches(v, declaration, p)}
             slice == AttestationsFor(attestations, declaration)
             counted == {k \in DOMAIN slice :
                           /\ TrustedVerifier(p, slice[k].pubkey)
                           /\ Acceptable(p, slice[k])}
             verifierOf == [k \in counted |-> attestations[k].pubkey]
  <2>1. /\ p \in AttestationPolicy
        /\ IsFiniteSet(p.trustedVerifiers)
        /\ p.minimum >= 0
        /\ p.trustedVerifiers # {}
    BY PolicyInputsAssumption DEF Policies, NewAttestationPolicy
  <2>2. p.minimum \in Int
    BY <2>1 DEF AttestationPolicy
  <2>3. Cardinality(counted) >= EffectiveMinimum(p)
    BY DEF ResolveInstallable, Evaluate
  <2>4. ASSUME NEW k \in counted
        PROVE  attestations[k].pubkey \in vouching
    <3>1. /\ k \in DOMAIN attestations
          /\ Matches(attestations[k], declaration)
          /\ slice[k] = attestations[k]
      BY DEF AttestationsFor
    <3>2. attestations[k].pubkey \in p.trustedVerifiers
      BY <2>1, <3>1 DEF TrustedVerifier
    <3>3. /\ attestations[k] \in ParsedReceived
          /\ AttestationKey(attestations[k]) = k
          /\ \A b \in ParsedReceived :
               AttestationKey(b) = k => b.createdAt <= attestations[k].createdAt
      BY <3>1 DEF NewestVerdictWins
    <3>4. \A b \in ParsedReceived :
            (/\ b.pubkey = attestations[k].pubkey
             /\ b.appID = attestations[k].appID
             /\ b.commit = attestations[k].commit)
              => b.createdAt <= attestations[k].createdAt
      BY <3>3 DEF AttestationKey
    <3>5. IF p.requiredChecks = {} THEN attestations[k].result = "pass"
          ELSE p.requiredChecks \subseteq attestations[k].passed
      BY <3>1 DEF Acceptable
    <3>6. Vouches(attestations[k].pubkey, declaration, p)
      BY <3>1, <3>3, <3>4, <3>5 DEF Vouches, Matches
    <3>7. QED BY <3>2, <3>6
  <2>5. verifierOf \in Injection(counted, vouching)
    <3>1. verifierOf \in [counted -> vouching]
      BY <2>4
    <3>2. ASSUME NEW i \in counted, NEW j \in counted,
                 verifierOf[i] = verifierOf[j]
          PROVE  i = j
      BY <3>2, OneVerdictPerVerifier
    <3>3. QED BY <3>1, <3>2 DEF Injection, IsInjective
  <2>6. IsFiniteSet(vouching)
    BY <2>1, FS_Subset
  <2>7. /\ IsFiniteSet(counted)
        /\ Cardinality(counted) <= Cardinality(vouching)
    BY <2>5, <2>6, FS_Injection
  <2>8. Cardinality(counted) \in Int /\ Cardinality(vouching) \in Int
    BY <2>6, <2>7, FS_CardinalityType
  <2>9. Cardinality(vouching) >= 1 /\ Cardinality(vouching) >= p.minimum
    BY <2>2, <2>3, <2>7, <2>8 DEF EffectiveMinimum
  <2>10. vouching # {}
    BY <2>9, FS_EmptySet
  <2>11. QED BY <2>9, <2>10
<1>2. QED BY <1>1, TypeCorrect, NewestVerdictAlwaysWins, PTL

-----------------------------------------------------------------------------
(* Refinement. *)

\* Store.entries implements the newest-wins register.
THEOREM DeclarationsImplementRegister == Spec => ImplementsDeclarationRegister
<1> DEFINE accepted == {e \in Declarations : Validates(e)}
           keyOf == [e \in Declarations |-> EntryKey(e)]
           at == [e \in Declarations |-> e.createdAt]
           view == [k \in DOMAIN entries |-> entries[k].event]
<1>1. Init => DeclarationRegister!Init
  BY DEF Init, DeclarationRegister!Init, EmptyMap
<1>2. TypeOK /\ NewestWins =>
        /\ DOMAIN view = {keyOf[e] : e \in received \cap accepted}
        /\ \A k \in DOMAIN view :
             /\ view[k] \in received \cap accepted
             /\ keyOf[view[k]] = k
             /\ \A e \in received \cap accepted :
                  keyOf[e] = k => at[e] <= at[view[k]]
  <2> SUFFICES ASSUME TypeOK, NewestWins
               PROVE  /\ DOMAIN view = {keyOf[e] : e \in received \cap accepted}
                      /\ \A k \in DOMAIN view :
                           /\ view[k] \in received \cap accepted
                           /\ keyOf[view[k]] = k
                           /\ \A e \in received \cap accepted :
                                keyOf[e] = k => at[e] <= at[view[k]]
    OBVIOUS
  <2>1. received \cap accepted = ValidReceived /\ received \subseteq Declarations
    BY DEF ValidReceived, TypeOK
  <2>2. QED BY <2>1 DEF NewestWins
<1>3. TypeOK /\ NewestWins => DeclarationRegister!NewestOf(received, view)
  BY <1>2 DEF DeclarationRegister!NewestOf
<1>4. TypeOK /\ TypeOK' /\ NewestWins /\ NewestWins' /\ [Next]_vars
        => [DeclarationRegister!Next]_(DeclarationRegister!vars)
  <2> SUFFICES ASSUME TypeOK, TypeOK', NewestWins, NewestWins', [Next]_vars
               PROVE  [DeclarationRegister!Next]_(DeclarationRegister!vars)
    OBVIOUS
  <2>1. ASSUME NEW e \in Declarations, ApplyDeclaration(e)
        PROVE  DeclarationRegister!Offer(e)
    <3>1. received' = received \cup {e}
      BY <2>1 DEF ApplyDeclaration
    <3>2. DeclarationRegister!NewestOf(received, view)'
      BY <1>3, PTL
    <3>3. ASSUME NEW k \in DOMAIN view
          PROVE  /\ k \in DOMAIN view'
                 /\ view'[k] = view[k] \/ at[view'[k]] > at[view[k]]
      <4>1. CASE Accepts(entries, e) /\ k = EntryKey(e)
        <5>1. entries' = Put(entries, k, NewEntry(e))
          BY <2>1, <4>1 DEF ApplyDeclaration, Apply
        <5>2. k \in DOMAIN view' /\ view'[k] = e
          BY <5>1 DEF Put, NewEntry
        <5>3. view[k] \in Declarations
          BY DEF NewestWins, ValidReceived, TypeOK
        <5>4. e.createdAt > view[k].createdAt
          BY <4>1 DEF Accepts
        <5>5. QED BY <5>2, <5>3, <5>4
      <4>2. CASE Accepts(entries, e) /\ k # EntryKey(e)
        BY <2>1, <4>2 DEF ApplyDeclaration, Apply, Put
      <4>3. CASE ~Accepts(entries, e)
        BY <2>1, <4>3 DEF ApplyDeclaration, Apply
      <4>4. QED BY <4>1, <4>2, <4>3
    <3>4. QED BY <3>1, <3>2, <3>3
             DEF DeclarationRegister!Offer, DeclarationRegister!NeverOlder
  <2>2. ASSUME NEW a \in Attestations, ApplyOneAttestation(a)
        PROVE  UNCHANGED DeclarationRegister!vars
    BY <2>2 DEF ApplyOneAttestation, DeclarationRegister!vars
  <2>3. ASSUME NEW publisher \in Trusted, NEW appID \in AppIDs,
               NEW hash \in LogoResults, RecordLogo(publisher, appID, hash)
        PROVE  UNCHANGED DeclarationRegister!vars
    <3>1. /\ DOMAIN entries' = DOMAIN entries
          /\ \A k \in DOMAIN entries : entries'[k].event = entries[k].event
          /\ received' = received
      BY <2>3, LogoFacts DEF RecordLogo, TypeOK
    <3>2. view' = view
      BY <3>1
    <3>3. QED BY <3>1, <3>2 DEF DeclarationRegister!vars
  <2>4. CASE UNCHANGED vars
    BY <2>4 DEF vars, DeclarationRegister!vars
  <2>5. QED BY <2>1, <2>2, <2>3, <2>4 DEF Next, DeclarationRegister!Next
<1>5. QED
  BY <1>1, <1>4, TypeCorrect, NewestAlwaysWins, PTL
     DEF Spec, ImplementsDeclarationRegister, DeclarationRegister!Spec

\* Store.attestations implements the newest-wins register.
THEOREM AttestationsImplementRegister == Spec => ImplementsAttestationRegister
<1> DEFINE accepted == {a \in Attestations : ParsesAttestation(a)}
           keyOf == [a \in Attestations |-> AttestationKey(a)]
           at == [a \in Attestations |-> a.createdAt]
<1>1. Init => AttestationRegister!Init
  BY DEF Init, AttestationRegister!Init, EmptyMap
<1>2. TypeOK /\ NewestVerdictWins
        => AttestationRegister!NewestOf(attReceived, attestations)
  <2> SUFFICES ASSUME TypeOK, NewestVerdictWins
               PROVE  AttestationRegister!NewestOf(attReceived, attestations)
    OBVIOUS
  <2>1. /\ attReceived \cap accepted = ParsedReceived
        /\ attReceived \subseteq Attestations
    BY DEF ParsedReceived, TypeOK
  <2>2. /\ DOMAIN attestations = {keyOf[a] : a \in attReceived \cap accepted}
        /\ \A k \in DOMAIN attestations :
             /\ attestations[k] \in attReceived \cap accepted
             /\ keyOf[attestations[k]] = k
             /\ \A a \in attReceived \cap accepted :
                  keyOf[a] = k => at[a] <= at[attestations[k]]
    BY <2>1 DEF NewestVerdictWins
  <2>3. QED BY <2>2 DEF AttestationRegister!NewestOf
<1>3. TypeOK /\ NewestVerdictWins /\ NewestVerdictWins' /\ TypeOK' /\ [Next]_vars
        => [AttestationRegister!Next]_(AttestationRegister!vars)
  <2> SUFFICES ASSUME TypeOK, TypeOK', NewestVerdictWins, NewestVerdictWins',
                      [Next]_vars
               PROVE  [AttestationRegister!Next]_(AttestationRegister!vars)
    OBVIOUS
  <2>1. ASSUME NEW a \in Attestations, ApplyOneAttestation(a)
        PROVE  AttestationRegister!Offer(a)
    <3>1. attReceived' = attReceived \cup {a}
      BY <2>1 DEF ApplyOneAttestation
    <3>2. AttestationRegister!NewestOf(attReceived, attestations)'
      BY <1>2, PTL
    <3>3. ASSUME NEW k \in DOMAIN attestations
          PROVE  /\ k \in DOMAIN attestations'
                 /\ \/ attestations'[k] = attestations[k]
                    \/ at[attestations'[k]] > at[attestations[k]]
      <4>1. CASE AcceptsAttestation(attestations, a) /\ k = AttestationKey(a)
        <5>1. attestations' = Put(attestations, k, a)
          BY <2>1, <4>1 DEF ApplyOneAttestation, ApplyAttestation
        <5>2. k \in DOMAIN attestations' /\ attestations'[k] = a
          BY <5>1 DEF Put
        <5>3. attestations[k] \in Attestations
          BY DEF TypeOK
        <5>4. a.createdAt > attestations[k].createdAt
          BY <4>1 DEF AcceptsAttestation
        <5>5. QED BY <5>2, <5>3, <5>4
      <4>2. CASE AcceptsAttestation(attestations, a) /\ k # AttestationKey(a)
        BY <2>1, <4>2 DEF ApplyOneAttestation, ApplyAttestation, Put
      <4>3. CASE ~AcceptsAttestation(attestations, a)
        BY <2>1, <4>3 DEF ApplyOneAttestation, ApplyAttestation
      <4>4. QED BY <4>1, <4>2, <4>3
    <3>4. QED BY <3>1, <3>2, <3>3
             DEF AttestationRegister!Offer, AttestationRegister!NeverOlder
  <2>2. ASSUME NEW e \in Declarations, ApplyDeclaration(e)
        PROVE  UNCHANGED AttestationRegister!vars
    BY <2>2 DEF ApplyDeclaration, AttestationRegister!vars
  <2>3. ASSUME NEW publisher \in Trusted, NEW appID \in AppIDs,
               NEW hash \in LogoResults, RecordLogo(publisher, appID, hash)
        PROVE  UNCHANGED AttestationRegister!vars
    BY <2>3 DEF RecordLogo, AttestationRegister!vars
  <2>4. CASE UNCHANGED vars
    BY <2>4 DEF vars, AttestationRegister!vars
  <2>5. QED BY <2>1, <2>2, <2>3, <2>4 DEF Next, AttestationRegister!Next
<1>4. QED
  BY <1>1, <1>3, TypeCorrect, NewestVerdictAlwaysWins, PTL
     DEF Spec, ImplementsAttestationRegister, AttestationRegister!Spec
=============================================================================
