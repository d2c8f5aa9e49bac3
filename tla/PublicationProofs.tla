------------------------- MODULE PublicationProofs -------------------------
(***************************************************************************)
(* Proofs about Publication.  Its properties compare what was meant by an  *)
(* event with what a node makes of it; the invariant says how each event   *)
(* was built, and that the node keeps the newest of those it reads.        *)
(***************************************************************************)
EXTENDS Publication, ProtocolProofs

-----------------------------------------------------------------------------
(* The node's maps. *)

\* The map r is m with v under k.
Stored(m, r, k, v) ==
  /\ DOMAIN r = DOMAIN m \cup {k} /\ r[k] = v
  /\ \A j \in DOMAIN m : j # k => r[j] = m[j]

LEMMA PutStores ==
  ASSUME NEW m, NEW k, NEW v, NEW r, r = Store!Put(m, k, v)
  PROVE  Stored(m, r, k, v)
BY DEF Store!Put, Stored

\* An entry is stored exactly if it is accepted.
LEMMA ApplyStores ==
  ASSUME NEW m, NEW e, NEW r, r = Store!Apply(m, e)
  PROVE  \/ Store!Accepts(m, e) /\ Stored(m, r, Store!EntryKey(e), Store!NewEntry(e))
         \/ ~Store!Accepts(m, e) /\ r = m
<1>1. CASE Store!Accepts(m, e)
  <2>1. r = Store!Put(m, Store!EntryKey(e), Store!NewEntry(e))
    BY <1>1, Zenon DEF Store!Apply
  <2>2. QED BY <1>1, <2>1, PutStores, Zenon
<1>2. CASE ~Store!Accepts(m, e)
  BY <1>2, Zenon DEF Store!Apply
<1>3. QED BY <1>1, <1>2, Zenon

LEMMA ApplyAttestationStores ==
  ASSUME NEW m, NEW a, NEW r, r = Store!ApplyAttestation(m, a)
  PROVE  \/ Store!AcceptsAttestation(m, a) /\ Stored(m, r, Store!AttestationKey(a), a)
         \/ ~Store!AcceptsAttestation(m, a) /\ r = m
<1>1. CASE Store!AcceptsAttestation(m, a)
  <2>1. r = Store!Put(m, Store!AttestationKey(a), a)
    BY <1>1, Zenon DEF Store!ApplyAttestation
  <2>2. QED BY <1>1, <2>1, PutStores, Zenon
<1>2. CASE ~Store!AcceptsAttestation(m, a)
  BY <1>2, Zenon DEF Store!ApplyAttestation
<1>3. QED BY <1>1, <1>2, Zenon

LEMMA StoredIsFinite ==
  ASSUME NEW m, NEW r, NEW k, NEW v, Stored(m, r, k, v), IsFiniteSet(DOMAIN m)
  PROVE  IsFiniteSet(DOMAIN r)
BY FS_AddElement DEF Stored

\* The entries are what is read of the events in P, and as new as each that is
\* valid.
Projection(m, P) ==
  /\ \A k \in DOMAIN m :
       Store!EntryKey(m[k].event) = k /\ \E x \in P : m[k].event = x.read
  /\ \A x \in P : Store!Validates(x.read) =>
       /\ Store!EntryKey(x.read) \in DOMAIN m
       /\ m[Store!EntryKey(x.read)].event.createdAt >= x.read.createdAt

LEMMA ApplyProjects ==
  ASSUME NEW m, NEW P, NEW x, NEW r, r = Store!Apply(m, x.read),
         Projection(m, P), \A y \in P \cup {x} : y.read.createdAt \in Int
  PROVE  Projection(r, P \cup {x})
<1> DEFINE Key(e) == Store!EntryKey(e)
           new == x.read
           v == Store!NewEntry(new)
<1>1. v.event = new
  BY Zenon DEF Store!NewEntry
<1>2. \/ Store!Accepts(m, new) /\ Stored(m, r, Key(new), v)
      \/ ~Store!Accepts(m, new) /\ r = m
  BY ApplyStores, Zenon
<1>3. \A k \in DOMAIN m :
        Key(m[k].event) = k /\ \E y \in P : m[k].event = y.read
  BY DEF Projection
<1>4. \A y \in P : Store!Validates(y.read) =>
        Key(y.read) \in DOMAIN m /\ m[Key(y.read)].event.createdAt >= y.read.createdAt
  BY Zenon DEF Projection
<1>5. \A k \in DOMAIN m : m[k].event.createdAt \in Int
  BY <1>3
<1>6. Store!Accepts(m, new) <=>
        /\ Store!Validates(new)
        /\ Key(new) \in DOMAIN m => new.createdAt > m[Key(new)].event.createdAt
  BY Zenon DEF Store!Accepts
<1> HIDE DEF v, Key
<1>7. CASE Store!Accepts(m, new)
  <2>1. Stored(m, r, Key(new), v)
    BY <1>2, <1>7
  <2>2. \A k \in DOMAIN r : Key(r[k].event) = k /\ \E y \in P \cup {x} : r[k].event = y.read
    BY <2>1, <1>1, <1>3 DEF Stored
  <2>3. ASSUME NEW y \in P \cup {x}, Store!Validates(y.read)
        PROVE  Key(y.read) \in DOMAIN r /\ r[Key(y.read)].event.createdAt >= y.read.createdAt
    <3>1. CASE y = x
      BY <3>1, <2>1, <1>1 DEF Stored
    <3>2. CASE y \in P /\ Key(y.read) # Key(new)
      BY <3>2, <2>1, <2>3, <1>4 DEF Stored
    <3>3. CASE y \in P /\ Key(y.read) = Key(new)
      <4>1. m[Key(new)].event.createdAt >= y.read.createdAt /\ Key(new) \in DOMAIN m
        BY <3>3, <2>3, <1>4
      <4>2. new.createdAt > m[Key(new)].event.createdAt
        BY <4>1, <1>6, <1>7
      <4>3. m[Key(new)].event.createdAt \in Int
        BY <4>1, <1>5
      <4>4. r[Key(y.read)].event = new /\ Key(y.read) \in DOMAIN r
        BY <3>3, <2>1, <1>1 DEF Stored
      <4>5. QED BY <4>1, <4>2, <4>3, <4>4
    <3>4. QED BY <3>1, <3>2, <3>3
  <2>4. QED BY <2>2, <2>3 DEF Projection, Key
<1>8. CASE ~Store!Accepts(m, new)
  <2>1. r = m
    BY <1>2, <1>8
  <2>2. ASSUME Store!Validates(new)
        PROVE  Key(new) \in DOMAIN m /\ m[Key(new)].event.createdAt >= new.createdAt
    <3>1. Key(new) \in DOMAIN m /\ ~(new.createdAt > m[Key(new)].event.createdAt)
      BY <1>6, <1>8, <2>2
    <3>2. QED BY <3>1, <1>5
  <2>3. \A k \in DOMAIN r : Key(r[k].event) = k /\ \E y \in P \cup {x} : r[k].event = y.read
    BY <2>1, <1>3
  <2>4. \A y \in P \cup {x} : Store!Validates(y.read) =>
          Key(y.read) \in DOMAIN r /\ r[Key(y.read)].event.createdAt >= y.read.createdAt
    BY <2>1, <2>2, <1>4
  <2>5. QED BY <2>3, <2>4 DEF Projection, Key
<1>9. QED BY <1>7, <1>8

\* The attestations kept are of P, and as new as each of P under its key.
VerdictsKept(m, P) ==
  /\ \A k \in DOMAIN m :
       Store!AttestationKey(m[k]) = k /\ \E x \in P : m[k] = x.read
  /\ \A x \in P :
       /\ Store!AttestationKey(x.read) \in DOMAIN m
       /\ m[Store!AttestationKey(x.read)].createdAt >= x.read.createdAt

LEMMA ApplyKeepsVerdicts ==
  ASSUME NEW m, NEW P, NEW x, NEW r, r = Store!ApplyAttestation(m, x.read),
         Store!ParsesAttestation(x.read),
         VerdictsKept(m, P), \A y \in P \cup {x} : y.read.createdAt \in Int
  PROVE  VerdictsKept(r, P \cup {x})
<1> DEFINE Key(a) == Store!AttestationKey(a)
           new == x.read
<1>1. \/ Store!AcceptsAttestation(m, new) /\ Stored(m, r, Key(new), new)
      \/ ~Store!AcceptsAttestation(m, new) /\ r = m
  BY ApplyAttestationStores, Zenon
<1>2. \A k \in DOMAIN m : Key(m[k]) = k /\ \E y \in P : m[k] = y.read
  BY DEF VerdictsKept
<1>3. \A y \in P :
        Key(y.read) \in DOMAIN m /\ m[Key(y.read)].createdAt >= y.read.createdAt
  BY Zenon DEF VerdictsKept
<1>4. \A k \in DOMAIN m : m[k].createdAt \in Int
  BY <1>2
<1>5. Store!AcceptsAttestation(m, new) <=>
        (Key(new) \in DOMAIN m => new.createdAt > m[Key(new)].createdAt)
  BY Zenon DEF Store!AcceptsAttestation
<1> HIDE DEF Key
<1>6. CASE Store!AcceptsAttestation(m, new)
  <2>1. Stored(m, r, Key(new), new)
    BY <1>1, <1>6
  <2>2. \A k \in DOMAIN r : Key(r[k]) = k /\ \E y \in P \cup {x} : r[k] = y.read
    BY <2>1, <1>2 DEF Stored
  <2>3. ASSUME NEW y \in P \cup {x}
        PROVE  Key(y.read) \in DOMAIN r /\ r[Key(y.read)].createdAt >= y.read.createdAt
    <3>1. CASE y = x
      BY <3>1, <2>1 DEF Stored
    <3>2. CASE y \in P /\ Key(y.read) # Key(new)
      BY <3>2, <2>1, <1>3 DEF Stored
    <3>3. CASE y \in P /\ Key(y.read) = Key(new)
      <4>1. m[Key(new)].createdAt >= y.read.createdAt /\ Key(new) \in DOMAIN m
        BY <3>3, <1>3
      <4>2. new.createdAt > m[Key(new)].createdAt
        BY <4>1, <1>5, <1>6
      <4>3. m[Key(new)].createdAt \in Int
        BY <4>1, <1>4
      <4>4. r[Key(y.read)] = new /\ Key(y.read) \in DOMAIN r
        BY <3>3, <2>1 DEF Stored
      <4>5. QED BY <4>1, <4>2, <4>3, <4>4
    <3>4. QED BY <3>1, <3>2, <3>3
  <2>4. QED BY <2>2, <2>3 DEF VerdictsKept, Key
<1>7. CASE ~Store!AcceptsAttestation(m, new)
  <2>1. r = m
    BY <1>1, <1>7
  <2>2. Key(new) \in DOMAIN m /\ m[Key(new)].createdAt >= new.createdAt
    <3>1. Key(new) \in DOMAIN m /\ ~(new.createdAt > m[Key(new)].createdAt)
      BY <1>5, <1>7
    <3>2. QED BY <3>1, <1>4
  <2>3. \A k \in DOMAIN r : Key(r[k]) = k /\ \E y \in P \cup {x} : r[k] = y.read
    BY <2>1, <1>2
  <2>4. \A y \in P \cup {x} :
          Key(y.read) \in DOMAIN r /\ r[Key(y.read)].createdAt >= y.read.createdAt
    BY <2>1, <2>2, <1>3
  <2>5. QED BY <2>3, <2>4 DEF VerdictsKept, Key
<1>8. QED BY <1>6, <1>7

-----------------------------------------------------------------------------
(* The invariant. *)

\* What is read of an event is what Read makes of it; its date is its own.
Dated ==
  \A x \in Published :
    /\ x.read = Read(x.event) /\ x.event.createdAt = x.event.id
    /\ x.event.id \in 1..now /\ x.event.pubkey \in Nat /\ x.event.signed = TRUE

\* How each event was built from what was meant.
BuiltDeclarations ==
  \A x \in declared :
    /\ x.input \in Metadata /\ ValidMetadata(x.input)
    /\ x.event = BuildDeclaration(x.input, x.event.pubkey, x.event.id)

Address(r) == r.appID \o ":" \o r.commit

BuiltAttestations ==
  /\ \A x \in attested :
       /\ ValidAttestation(x.input) /\ Address(x.input) # Blank
       /\ x.event = BuildAttestation(x.input, x.event.pubkey, x.event.id)
       /\ x.read = ReadAttestation(x.event) /\ x.event.id \in 1..now
  /\ \A x, y \in attested : x.event.id = y.event.id => x = y

BuiltEndorsements ==
  \A e \in endorsed :
    /\ \E c \in Endorsing : e.pubkey = c.key /\ e.claim = c.claim
    /\ e = BuildEndorsement(e.target[2], e.target[3], e.claim, e.pubkey)
    /\ ParsesEndorsement(e)

Finite ==
  /\ IsFiniteSet(Published) /\ IsFiniteSet(attested) /\ IsFiniteSet(endorsed)
  /\ IsFiniteSet(DOMAIN entries) /\ IsFiniteSet(DOMAIN attestations)

ForeignInputs == \A x \in foreign : x.input \in Foreign

Clock == now \in 0..MaxEvents /\ now = Cardinality(Published) + Cardinality(attested)

Inv ==
  /\ Clock /\ Finite /\ Dated /\ ForeignInputs
  /\ BuiltDeclarations /\ BuiltAttestations /\ BuiltEndorsements
  /\ Projection(entries, Published) /\ VerdictsKept(attestations, attested)

LEMMA InitInv == Init => Inv
<1> SUFFICES ASSUME Init PROVE Inv
  OBVIOUS
<1>1. /\ now = 0 /\ declared = {} /\ foreign = {} /\ attested = {} /\ endorsed = {}
      /\ DOMAIN entries = {} /\ DOMAIN attestations = {}
  BY DEF Init, Store!EmptyMap
<1>2. Published = {}
  BY <1>1 DEF Published
<1>3. Clock /\ Finite
  BY <1>1, <1>2, FS_EmptySet, BoundAssumption DEF Clock, Finite
<1>4. /\ Dated /\ ForeignInputs /\ BuiltDeclarations /\ BuiltAttestations
      /\ BuiltEndorsements
  BY <1>1, <1>2
     DEF Dated, ForeignInputs, BuiltDeclarations, BuiltAttestations, BuiltEndorsements
<1>5. Projection(entries, Published) /\ VerdictsKept(attestations, attested)
  BY <1>1, <1>2 DEF Projection, VerdictsKept
<1>6. QED BY <1>3, <1>4, <1>5 DEF Inv

\* What the parsers see of an event that they copy.
LEMMA ReadFacts ==
  ASSUME NEW e, NEW x, x = Read(e)
  PROVE  /\ x.id = e.id /\ x.kind = e.kind /\ x.pubkey = e.pubkey
         /\ x.createdAt = e.createdAt
BY Zenon DEF Read

\* An event x is published, dated by the tick.
Publishes(x) ==
  /\ now < MaxEvents /\ now' = now + 1
  /\ Published' = Published \cup {x}
  /\ x.event.id = now + 1 /\ x.event.createdAt = now + 1 /\ x.event.pubkey \in Nat
  /\ x.event.signed = TRUE
  /\ x.read = Read(x.event)
  /\ entries' = Store!Apply(entries, x.read)
  /\ UNCHANGED <<attested, endorsed, attestations>>

\* A new event is not among those published before.
LEMMA PublishingKeeps ==
  ASSUME Inv, NEW x, Publishes(x)
  PROVE  /\ Clock' /\ Finite' /\ Dated' /\ BuiltAttestations' /\ BuiltEndorsements'
         /\ Projection(entries', Published') /\ VerdictsKept(attestations', attested')
<1>1. now \in Nat /\ now' \in 0..MaxEvents /\ now' = now + 1
  BY BoundAssumption DEF Inv, Clock, Publishes
<1>2. x \notin Published
  BY <1>1 DEF Inv, Dated, Publishes
<1>3. /\ IsFiniteSet(Published)
      /\ IsFiniteSet(Published \cup {x})
      /\ Cardinality(Published \cup {x}) = Cardinality(Published) + 1
  BY <1>2, FS_AddElement DEF Inv, Finite
<1>4. Clock'
  <2>1. Cardinality(Published) \in Nat /\ Cardinality(attested) \in Nat
    BY FS_CardinalityType DEF Inv, Finite
  <2>2. now = Cardinality(Published) + Cardinality(attested)
    BY DEF Inv, Clock
  <2>3. Published' = Published \cup {x} /\ attested' = attested
    BY DEF Publishes
  <2>4. QED BY <1>1, <1>3, <2>1, <2>2, <2>3 DEF Clock
<1>5. Finite'
  <2>1. IsFiniteSet(DOMAIN entries')
    <3>1. entries' = Store!Apply(entries, x.read) /\ IsFiniteSet(DOMAIN entries)
      BY DEF Publishes, Inv, Finite
    <3>2. \/ entries' = entries
          \/ Stored(entries, entries', Store!EntryKey(x.read), Store!NewEntry(x.read))
      BY <3>1, ApplyStores, Zenon
    <3>3. QED BY <3>1, <3>2, StoredIsFinite
  <2>2. QED BY <1>3, <2>1 DEF Inv, Finite, Publishes
<1>6. Dated'
  BY <1>1 DEF Inv, Dated, Publishes
<1>7. BuiltAttestations' /\ BuiltEndorsements'
  BY <1>1 DEF Inv, BuiltAttestations, BuiltEndorsements, Publishes
<1>8. Projection(entries', Published')
  <2>1. entries' = Store!Apply(entries, x.read) /\ Projection(entries, Published)
    BY DEF Inv, Publishes
  <2>2. \A y \in Published \cup {x} : y.read.createdAt \in Int
    <3>1. \A y \in Published \cup {x} :
            y.read = Read(y.event) /\ y.event.createdAt \in Int
      BY <1>1 DEF Inv, Dated, Publishes
    <3>2. \A y \in Published \cup {x} : y.read.createdAt = y.event.createdAt
      BY <3>1, ReadFacts
    <3>3. QED BY <3>1, <3>2
  <2>3. Projection(entries', Published \cup {x})
    BY <2>1, <2>2, ApplyProjects
  <2>4. QED BY <2>3 DEF Publishes
<1>9. VerdictsKept(attestations', attested')
  BY DEF Inv, Publishes
<1>10. QED BY <1>4, <1>5, <1>6, <1>7, <1>8, <1>9

LEMMA DeclareKeeps ==
  ASSUME Inv, NEW d \in Declaring, Declare(d.key, d.metadata)
  PROVE  Inv'
<1> DEFINE m == d.metadata
           e == BuildDeclaration(m, d.key, now + 1)
           x == [event |-> e, input |-> m, read |-> Read(e)]
<1>1. /\ now < MaxEvents /\ now' = now + 1 /\ ValidMetadata(m)
      /\ declared' = declared \cup {x} /\ entries' = Store!Apply(entries, Read(e))
      /\ UNCHANGED <<foreign, attested, endorsed, attestations>>
  BY Zenon DEF Declare, Tick
<1>2. d.key \in Nat /\ m \in Metadata
  BY DeclaringAssumption
<1>3. e.id = now + 1 /\ e.createdAt = now + 1 /\ e.pubkey = d.key /\ e.signed = TRUE
  BY Zenon DEF BuildDeclaration
<1>4. e = BuildDeclaration(m, e.pubkey, e.id)
  BY <1>3, Zenon
<1> HIDE DEF e, m
<1>5. x.event = e /\ x.input = m /\ x.read = Read(e)
  OBVIOUS
<1> HIDE DEF x
<1>6. Published' = Published \cup {x}
  BY <1>1 DEF Published
<1>7. Publishes(x)
  BY <1>1, <1>2, <1>3, <1>5, <1>6 DEF Publishes
<1>8. /\ Clock' /\ Finite' /\ Dated' /\ BuiltAttestations' /\ BuiltEndorsements'
      /\ Projection(entries', Published') /\ VerdictsKept(attestations', attested')
  BY <1>7, PublishingKeeps
<1>9. BuiltDeclarations'
  BY <1>1, <1>2, <1>4, <1>5 DEF Inv, BuiltDeclarations
<1>10. ForeignInputs'
  BY <1>1 DEF Inv, ForeignInputs
<1>11. QED BY <1>8, <1>9, <1>10 DEF Inv

LEMMA PublishForeignKeeps ==
  ASSUME Inv, NEW template \in Foreign, PublishForeign(template)
  PROVE  Inv'
<1> DEFINE e == [id |-> now + 1, kind |-> template.kind, pubkey |-> template.pubkey,
                 createdAt |-> now + 1, tags |-> template.tags,
                 content |-> template.content, signed |-> TRUE]
           x == [event |-> e, input |-> template, read |-> Read(e)]
<1>1. /\ now < MaxEvents /\ now' = now + 1
      /\ foreign' = foreign \cup {x} /\ entries' = Store!Apply(entries, Read(e))
      /\ UNCHANGED <<declared, attested, endorsed, attestations>>
  BY Zenon DEF PublishForeign, Tick
<1>2. template.pubkey \in Nat
  BY ForeignAssumption
<1>3. /\ e.id = now + 1 /\ e.createdAt = now + 1 /\ e.pubkey = template.pubkey
      /\ e.signed = TRUE
  BY Zenon
<1> HIDE DEF e
<1>4. x.event = e /\ x.input = template /\ x.read = Read(e)
  OBVIOUS
<1> HIDE DEF x
<1>5. Published' = Published \cup {x}
  BY <1>1 DEF Published
<1>6. Publishes(x)
  BY <1>1, <1>2, <1>3, <1>4, <1>5 DEF Publishes
<1>7. /\ Clock' /\ Finite' /\ Dated' /\ BuiltAttestations' /\ BuiltEndorsements'
      /\ Projection(entries', Published') /\ VerdictsKept(attestations', attested')
  BY <1>6, PublishingKeeps
<1>8. BuiltDeclarations'
  BY <1>1 DEF Inv, BuiltDeclarations
<1>9. ForeignInputs'
  BY <1>1, <1>4 DEF Inv, ForeignInputs
<1>10. QED BY <1>7, <1>8, <1>9 DEF Inv

\* What Parse reads of an attestation that Build wrote.
LEMMA AttestedFacts ==
  ASSUME NEW x, x.event = BuildAttestation(x.input, x.event.pubkey, x.event.id),
         x.read = ReadAttestation(x.event)
  PROVE  /\ ReadsVerdict(x.read, x.input, x.event.pubkey, x.event.id)
         /\ x.event.createdAt = x.event.id
         /\ x.read.createdAt = x.event.id
         /\ Store!AttestationKey(x.read)
              = <<x.event.pubkey, x.input.appID, x.input.commit>>
<1> DEFINE r == x.input
           key == x.event.pubkey
           n == x.event.id
           a == x.event
<1>1. a = BuildAttestation(r, key, n)
  OBVIOUS
<1> HIDE DEF r, key, n
<1>2. ReadsVerdict(x.read, r, key, n)
  BY <1>1, AttestationReadBack, Zenon
<1>3. x.event.createdAt = n
  <2>1. BuildAttestation(r, key, n).createdAt = n
    BY Zenon DEF BuildAttestation
  <2>2. QED BY <1>1, <2>1, Zenon
<1>4. QED BY <1>2, <1>3 DEF ReadsVerdict, Store!AttestationKey, r, key, n

LEMMA AttestKeeps ==
  ASSUME Inv, NEW t \in Testing, Attest(t.key, t.result, t.file)
  PROVE  Inv'
<1> DEFINE r == t.result
           a == BuildAttestation(r, t.key, now + 1)
           x == [event |-> a, input |-> r, read |-> ReadAttestation(a)]
<1>1. /\ now < MaxEvents /\ now' = now + 1 /\ ValidAttestation(r)
      /\ attested' = attested \cup {x}
      /\ attestations' = Store!ApplyAttestation(attestations, ReadAttestation(a))
      /\ UNCHANGED <<declared, foreign, endorsed, entries>>
  BY Zenon DEF Attest, Tick
<1>2. Address(r) # Blank
  BY TestingAssumption, Zenon DEF Address
<1>3. a.id = now + 1 /\ a.pubkey = t.key
  BY Zenon DEF BuildAttestation
<1>4. a = BuildAttestation(r, a.pubkey, a.id)
  BY <1>3, Zenon
<1>5. now \in Nat /\ now + 1 \in Nat \ {0}
  BY DEF Inv, Clock
<1>6. Store!ParsesAttestation(ReadAttestation(a))
  <2> DEFINE date == now + 1
  <2>1. a = BuildAttestation(r, t.key, date) /\ date \in Nat \ {0}
    BY <1>5
  <2>2. r.appID \o ":" \o r.commit # Blank
    BY <1>2, Zenon DEF Address
  <2> HIDE DEF date, a, r
  <2>3. QED BY <1>1, <2>1, <2>2, AttestationParses, Zenon
<1> HIDE DEF a, r
<1>7. x.event = a /\ x.input = r /\ x.read = ReadAttestation(a)
  OBVIOUS
<1> HIDE DEF x
<1>8. /\ IsFiniteSet(Published) /\ IsFiniteSet(attested) /\ IsFiniteSet(endorsed)
      /\ IsFiniteSet(DOMAIN entries) /\ IsFiniteSet(DOMAIN attestations)
  BY DEF Inv, Finite
<1>9. x \notin attested
  BY <1>3, <1>5, <1>7 DEF Inv, BuiltAttestations
<1>10. Published' = Published
  BY <1>1 DEF Published
<1>11. Clock'
  <2>1. Cardinality(Published) \in Nat /\ Cardinality(attested) \in Nat
    BY <1>8, FS_CardinalityType
  <2>2. Cardinality(attested \cup {x}) = Cardinality(attested) + 1
    BY <1>8, <1>9, FS_AddElement
  <2>3. QED BY <1>1, <1>5, <1>10, <2>1, <2>2, BoundAssumption DEF Inv, Clock
<1>12. Finite'
  <2>1. IsFiniteSet(attested \cup {x})
    BY <1>8, FS_AddElement
  <2>2. IsFiniteSet(DOMAIN attestations')
    <3>1. \/ attestations' = attestations
          \/ Stored(attestations, attestations',
                    Store!AttestationKey(ReadAttestation(a)), ReadAttestation(a))
      BY <1>1, ApplyAttestationStores, Zenon
    <3>2. QED BY <1>8, <3>1, StoredIsFinite
  <2>3. QED BY <1>1, <1>8, <1>10, <2>1, <2>2 DEF Finite
<1>13. Dated' /\ ForeignInputs' /\ BuiltDeclarations' /\ BuiltEndorsements'
  BY <1>1, <1>5, <1>10
     DEF Inv, Dated, ForeignInputs, BuiltDeclarations, BuiltEndorsements
<1>14. BuiltAttestations'
  <2>1. \A y \in attested : y.event.id \in 1..now
    BY DEF Inv, BuiltAttestations
  <2>2. ASSUME NEW y \in attested'
        PROVE  /\ ValidAttestation(y.input) /\ Address(y.input) # Blank
               /\ y.event = BuildAttestation(y.input, y.event.pubkey, y.event.id)
               /\ y.read = ReadAttestation(y.event) /\ y.event.id \in 1..now'
    <3>1. CASE y = x
      BY <3>1, <1>1, <1>2, <1>3, <1>4, <1>5, <1>7
    <3>2. CASE y \in attested
      BY <3>2, <1>1, <1>5 DEF Inv, BuiltAttestations
    <3>3. QED BY <1>1, <3>1, <3>2
  <2>3. \A y, z \in attested' : y.event.id = z.event.id => y = z
    BY <1>1, <1>3, <1>5, <1>7, <2>1 DEF Inv, BuiltAttestations
  <2>4. QED BY <2>2, <2>3 DEF BuiltAttestations
<1>15. Projection(entries', Published')
  BY <1>1, <1>10 DEF Inv
<1>16. VerdictsKept(attestations', attested')
  <2>1. \A y \in attested \cup {x} :
          /\ y.event = BuildAttestation(y.input, y.event.pubkey, y.event.id)
          /\ y.read = ReadAttestation(y.event) /\ y.event.id \in Int
    BY <1>1, <1>5, <1>14 DEF BuiltAttestations
  <2>2. \A y \in attested \cup {x} : y.read.createdAt \in Int
    BY <2>1, AttestedFacts
  <2>3. /\ attestations' = Store!ApplyAttestation(attestations, x.read)
        /\ Store!ParsesAttestation(x.read) /\ VerdictsKept(attestations, attested)
    BY <1>1, <1>6, <1>7 DEF Inv
  <2>4. VerdictsKept(attestations', attested \cup {x})
    BY <2>2, <2>3, ApplyKeepsVerdicts
  <2>5. QED BY <1>1, <2>4
<1>17. QED BY <1>11, <1>12, <1>13, <1>14, <1>15, <1>16 DEF Inv

LEMMA EndorseKeeps ==
  ASSUME Inv, NEW c \in Endorsing, NEW k \in DOMAIN entries, Endorse(c.key, k, c.claim)
  PROVE  Inv'
<1> DEFINE e == BuildEndorsement(k[1], k[2], c.claim, c.key)
<1>1. /\ CanEndorse(k[2], c.claim) /\ endorsed' = endorsed \cup {e}
      /\ UNCHANGED <<now, declared, foreign, attested, entries, attestations>>
  BY Zenon DEF Endorse, node
<1>2. /\ e.pubkey = c.key /\ e.claim = c.claim /\ e.target = <<TargetKind, k[1], k[2]>>
      /\ e.kind = EndorsementKind
  BY DEF BuildEndorsement
<1>3. e.target[1] = TargetKind /\ e.target[2] = k[1] /\ e.target[3] = k[2]
  <2> HIDE DEF e
  <2>1. QED BY <1>2
<1>4. e = BuildEndorsement(e.target[2], e.target[3], e.claim, e.pubkey)
  BY <1>2, <1>3, Zenon
<1>5. ParsesEndorsement(e)
  <2>1. e.signed
    BY Zenon DEF BuildEndorsement
  <2>2. k[2] # ""
    BY <1>1, Zenon DEF CanEndorse
  <2>3. QED BY <1>2, <1>3, <2>1, <2>2, Zenon DEF ParsesEndorsement
<1> HIDE DEF e
<1>6. BuiltEndorsements'
  BY <1>1, <1>2, <1>4, <1>5 DEF Inv, BuiltEndorsements
<1>7. Published' = Published
  BY <1>1 DEF Published
<1>8. Finite'
  <2>1. IsFiniteSet(endorsed \cup {e})
    BY FS_AddElement DEF Inv, Finite
  <2>2. QED BY <1>1, <1>7, <2>1 DEF Inv, Finite
<1>9. /\ Clock' /\ Dated' /\ ForeignInputs' /\ BuiltDeclarations' /\ BuiltAttestations'
      /\ Projection(entries', Published') /\ VerdictsKept(attestations', attested')
  BY <1>1, <1>7
     DEF Inv, Clock, Dated, ForeignInputs, BuiltDeclarations, BuiltAttestations
<1>10. QED BY <1>6, <1>8, <1>9 DEF Inv

LEMMA StepInv == Inv /\ [Next]_vars => Inv'
<1> SUFFICES ASSUME Inv, [Next]_vars PROVE Inv'
  OBVIOUS
<1>1. CASE \E d \in Declaring : Declare(d.key, d.metadata)
  BY <1>1, DeclareKeeps
<1>2. CASE \E template \in Foreign : PublishForeign(template)
  BY <1>2, PublishForeignKeeps
<1>3. CASE \E t \in Testing : Attest(t.key, t.result, t.file)
  BY <1>3, AttestKeeps, Zenon
<1>4. CASE \E c \in Endorsing, k \in DOMAIN entries : Endorse(c.key, k, c.claim)
  BY <1>4, EndorseKeeps
<1>5. CASE UNCHANGED vars
  <2>1. Published' = Published
    BY <1>5 DEF vars, node, Published
  <2>2. QED BY <1>5, <2>1
    DEF vars, node, Inv, Clock, Finite, Dated, ForeignInputs, BuiltDeclarations,
        BuiltAttestations, BuiltEndorsements
<1>6. QED BY <1>1, <1>2, <1>3, <1>4, <1>5 DEF Next

THEOREM AlwaysInv == Spec => []Inv
BY InitInv, StepInv, PTL DEF Spec

\* The variables describe events that were built and published, and a node that
\* keeps what is read of them (Publication.TypeOK).
THEOREM TypeCorrect == Spec => []TypeOK
<1>1. Inv => TypeOK
  <2> SUFFICES ASSUME Inv PROVE TypeOK
    OBVIOUS
  <2>1. declared \subseteq Published /\ foreign \subseteq Published
    BY DEF Published
  <2>2. now \in 0..MaxEvents /\ now = Cardinality(Published) + Cardinality(attested)
    BY DEF Inv, Clock
  <2>3. /\ \A x \in declared : ValidMetadata(x.input) /\ x.event.id \in 1..now
        /\ \A x \in foreign : x.input \in Foreign /\ x.event.id \in 1..now
    BY <2>1 DEF Inv, BuiltDeclarations, Dated, ForeignInputs
  <2>4. /\ \A x \in attested : ValidAttestation(x.input) /\ x.event.id \in 1..now
        /\ \A e \in endorsed : \E c \in Endorsing : e.pubkey = c.key /\ e.claim = c.claim
    BY DEF Inv, BuiltAttestations, BuiltEndorsements
  <2>5. /\ \A k \in DOMAIN entries :
             Store!EntryKey(entries[k].event) = k
             /\ \E x \in Published : entries[k].event = x.read
        /\ \A k \in DOMAIN attestations :
             Store!AttestationKey(attestations[k]) = k
             /\ \E x \in attested : attestations[k] = x.read
    BY DEF Inv, Projection, VerdictsKept
  <2>6. QED BY <2>2, <2>3, <2>4, <2>5 DEF TypeOK
<1>2. QED BY <1>1, AlwaysInv, PTL

-----------------------------------------------------------------------------
(* Declarations. *)

\* What is read of an event that is no release.
LEMMA DeclarationParsed ==
  ASSUME NEW e, e.kind # Store!NpackReleaseKind, NEW record, record = ParseEvent(e)
  PROVE  /\ record.publisher = e.pubkey /\ record.appID = FirstTag(e.tags, "d")
         /\ record.version = FirstTag(e.tags, "version")
         /\ record.commit = FirstTag(e.tags, "commit")
         /\ record.manifestHash = FirstTag(e.tags, "manifest")
<1>1. ParseEvent(e) = ParseDeclaration(e)
  BY Zenon DEF ParseEvent
<1> DEFINE parsed == ParseDeclaration(e)
<1>2. /\ parsed.publisher = e.pubkey /\ parsed.appID = FirstTag(e.tags, "d")
      /\ parsed.version = FirstTag(e.tags, "version")
      /\ parsed.commit = FirstTag(e.tags, "commit")
      /\ parsed.manifestHash = FirstTag(e.tags, "manifest")
  BY Zenon DEF ParseDeclaration
<1>3. record = parsed
  BY <1>1
<1> HIDE DEF parsed
<1>4. QED BY <1>2, <1>3

\* A node accepts every declaration of a trusted publisher that it can read.
LEMMA ReadableIsValid ==
  ASSUME NEW e, e.kind = Store!AppDeclarationKind, e.pubkey \in Trusted,
         e.signed = TRUE, ParsesEvent(e), NEW x, x = Read(e)
  PROVE  /\ Store!Validates(x) /\ x.createdAt = e.createdAt
         /\ Store!EntryKey(x) = <<e.pubkey, FirstTag(e.tags, "d")>>
<1> DEFINE tags == e.tags
<1>1. e.kind # Store!NpackReleaseKind
  BY DEF Store!AppDeclarationKind, Store!NpackReleaseKind
<1>2. ParsesDeclaration(e)
  BY <1>1, Zenon DEF ParsesEvent
<1>3. /\ e.createdAt > 0
      /\ FirstTag(tags, "d") \in AppIDs /\ FirstTag(tags, "manifest") \in Hashes
  BY <1>2 DEF ParsesDeclaration
<1>4. FirstTag(tags, "d") # Blank /\ FirstTag(tags, "manifest") # Blank
  BY <1>3, PatternsAssumption
<1>5. ParseEvent(e).manifestHash = FirstTag(tags, "manifest")
  BY <1>1, DeclarationParsed
<1>6. /\ x.kind = e.kind /\ x.pubkey = e.pubkey /\ x.createdAt = e.createdAt
      /\ x.d = FirstTag(tags, "d") /\ x.manifest = ParseEvent(e).manifestHash
  BY Zenon DEF Read
<1>7. x.signed /\ x.wellFormed
  BY Zenon DEF Read
<1>8. Store!DeclarationOf(x).appID = x.d
  <2>1. x.kind # Store!NpackReleaseKind
    BY <1>1, <1>6
  <2>2. Store!DeclarationOf(x) = Store!ParseAppDeclaration(x)
    BY <2>1, Zenon DEF Store!DeclarationOf
  <2>3. Store!ParseAppDeclaration(x).appID = x.d
    BY Zenon DEF Store!ParseAppDeclaration
  <2>4. QED BY <2>2, <2>3
<1>9. Store!Parses(x)
  <2>1. x.kind \in {Store!AppDeclarationKind, Store!LegacyAppDeclarationKind,
                    Store!NpackReleaseKind}
    BY <1>6
  <2>2. x.createdAt > 0
    BY <1>3, <1>6
  <2>3. Store!DeclarationOf(x).appID # Blank /\ x.manifest # Blank
    BY <1>4, <1>5, <1>6, <1>8, Zenon
  <2>4. Store!DeclarationOf(x).appID # "" /\ x.manifest # ""
    BY <2>3, Zenon DEF Blank
  <2>5. QED BY <1>7, <2>1, <2>2, <2>4, Zenon DEF Store!Parses
<1>10. x.pubkey \in Trusted
  BY <1>6
<1>11. Store!Validates(x)
  BY <1>7, <1>9, <1>10, Zenon DEF Store!Validates
<1>12. Store!EntryKey(x) = <<e.pubkey, FirstTag(tags, "d")>>
  BY <1>6, <1>8 DEF Store!EntryKey
<1>13. QED BY <1>6, <1>11, <1>12

\* What the builder writes of metadata the patterns match, a node accepts.
LEMMA ProperIsValid ==
  ASSUME NEW m, NEW key \in Trusted, NEW n \in Nat \ {0}, ValidMetadata(m), Readable(m),
         NEW e, e = BuildDeclaration(m, key, n), NEW x, x = Read(e)
  PROVE  /\ Store!Validates(x) /\ Store!EntryKey(x) = <<key, m.appID>>
         /\ x.createdAt = n
<1>1. ParsesEvent(e)
  BY ProperDeclarationParses
<1>2. e.kind = Store!AppDeclarationKind /\ e.pubkey = key /\ e.createdAt = n
  BY DeclarationForm DEF Store!AppDeclarationKind
<1>3. e.signed = TRUE
  BY Zenon DEF BuildDeclaration
<1> DEFINE tags == e.tags
<1>4. FirstTag(tags, "d") = m.appID
  <2>1. tags = BuildDeclaration(m, key, n).tags
    OBVIOUS
  <2> HIDE DEF tags
  <2>2. ReadsMetadata(tags, m)
    BY <2>1, BuiltTags, Zenon
  <2>3. QED BY <2>2, Zenon DEF ReadsMetadata
<1> HIDE DEF tags
<1>5. /\ Store!Validates(x) /\ x.createdAt = e.createdAt
      /\ Store!EntryKey(x) = <<e.pubkey, FirstTag(tags, "d")>>
  BY <1>1, <1>2, <1>3, ReadableIsValid, Zenon DEF tags
<1>6. QED BY <1>2, <1>4, <1>5

\* Whoever declares whatever, what is read is what was meant, and what can be
\* read is projected (Publication.DeclaredAsMeant).
THEOREM AlwaysDeclaredAsMeant == Spec => []DeclaredAsMeant
<1>1. Inv => DeclaredAsMeant
  <2> SUFFICES ASSUME Inv, NEW x \in declared
               PROVE  LET k == <<x.event.pubkey, x.input.appID>>
                          read == ParseEvent(x.event)
                      IN
                      /\ ParsesEvent(x.event) =>
                           \A field \in DOMAIN x.input : read[field] = x.input[field]
                      /\ (Proper(x.input) /\ x.event.pubkey \in Trusted) =>
                           /\ k \in DOMAIN entries
                           /\ entries[k].event.createdAt >= x.event.createdAt
    BY Zenon DEF DeclaredAsMeant
  <2> DEFINE m == x.input    e == x.event    key == e.pubkey    n == e.id
             k == <<key, m.appID>>
  <2>1. m \in Metadata /\ ValidMetadata(m) /\ e = BuildDeclaration(m, key, n)
    BY DEF Inv, BuiltDeclarations
  <2>2. /\ x \in Published /\ x.read = Read(e) /\ e.createdAt = n
        /\ n \in 1..now /\ now \in Nat
    <3>1. x \in Published /\ now \in Nat
      BY BoundAssumption DEF Inv, Clock, Published
    <3>2. QED BY <3>1 DEF Inv, Dated
  <2>3. n \in Nat \ {0}
    BY <2>2
  <2> HIDE DEF m, n, key
  <2>4. \A field \in DOMAIN m : ParseEvent(e)[field] = m[field]
    <3> HIDE DEF e
    <3>1. QED BY <2>1, DeclarationReadBack
  <2>5. ASSUME Proper(m), key \in Trusted
        PROVE  k \in DOMAIN entries /\ entries[k].event.createdAt >= e.createdAt
    <3>1. Readable(m)
      BY <2>5 DEF Proper, Readable
    <3> DEFINE r == x.read
    <3>2. Store!Validates(r) /\ Store!EntryKey(r) = k /\ r.createdAt = n
      <4>1. r = Read(e)
        BY <2>2
      <4> HIDE DEF e, r
      <4>2. QED BY <2>1, <2>3, <2>5, <3>1, <4>1, ProperIsValid
    <3>3. Projection(entries, Published)
      BY DEF Inv
    <3>4. Store!EntryKey(r) \in DOMAIN entries
          /\ entries[Store!EntryKey(r)].event.createdAt >= r.createdAt
      BY <2>2, <3>2, <3>3, Zenon DEF Projection
    <3> HIDE DEF e, r, k
    <3>5. QED BY <2>2, <3>2, <3>4
  <2>6. QED BY <2>4, <2>5, Zenon DEF m, key, n
<1>2. QED BY <1>1, AlwaysInv, PTL

-----------------------------------------------------------------------------
(* Announcements. *)

\* The event e can be announced as what m says.
Announces(e, m, key, date) ==
  LET note == BuildAnnouncement(e, key, date) IN
  /\ CanAnnounce(e, key)
  /\ note.address = <<Store!AppDeclarationKind, key, m.appID>>
  /\ note.version = m.version /\ note.commit = m.commit
  /\ BuildAnnouncementForDeclaration(ParseEvent(e), key, date) = note

\* What is declared can be announced as it was meant.
LEMMA DeclaredIsAnnounced ==
  ASSUME NEW m, ValidMetadata(m), NEW key, NEW n, NEW date,
         NEW e, e = BuildDeclaration(m, key, n)
  PROVE  Announces(e, m, key, date)
<1> DEFINE note == BuildAnnouncement(e, key, date)
<1> DEFINE tags == e.tags
           record == ParseEvent(e)
<1>1. ReadsMetadata(tags, m)
  <2>1. tags = BuildDeclaration(m, key, n).tags
    OBVIOUS
  <2> HIDE DEF tags
  <2>2. QED BY <2>1, BuiltTags, Zenon
<1>2. e.kind = Store!AppDeclarationKind /\ e.pubkey = key
  BY DeclarationForm DEF Store!AppDeclarationKind
<1> HIDE DEF tags
<1>3. /\ FirstTag(tags, "d") = m.appID /\ FirstTag(tags, "version") = m.version
      /\ FirstTag(tags, "commit") = m.commit
  BY <1>1, Zenon DEF ReadsMetadata
<1>4. /\ Beginning(tags, "version") # {} /\ Beginning(tags, "commit") # {}
      /\ ValueAt(tags, Beginning(tags, "version")) = FirstTag(tags, "version")
      /\ ValueAt(tags, Beginning(tags, "commit")) = FirstTag(tags, "commit")
  <2>1. ASSUME NEW prefix \in {"version", "commit"}
        PROVE  /\ Beginning(tags, prefix) = Places(tags, prefix)
               /\ Beginning(tags, prefix) # {}
    BY <1>1, BeginningIsName
  <2>2. QED BY <2>1 DEF FirstTag
<1>5. CanAnnounce(e, key)
  <2>1. m.appID # Blank
    BY DEF ValidMetadata
  <2>2. QED BY <1>2, <1>3, <1>4, <2>1, Zenon DEF CanAnnounce, tags
<1>6. /\ note.address = <<Store!AppDeclarationKind, key, FirstTag(tags, "d")>>
      /\ note.version = ValueAt(tags, Beginning(tags, "version"))
      /\ note.commit = ValueAt(tags, Beginning(tags, "commit"))
  BY Zenon DEF BuildAnnouncement, tags
<1>7. note = [id |-> date, kind |-> NoteKind, pubkey |-> key, createdAt |-> date,
              address |-> <<Store!AppDeclarationKind, key, FirstTag(tags, "d")>>,
              version |-> ValueAt(tags, Beginning(tags, "version")),
              commit |-> ValueAt(tags, Beginning(tags, "commit"))]
  BY Zenon DEF BuildAnnouncement, tags
<1>8. /\ record.appID = FirstTag(tags, "d")
      /\ record.version = FirstTag(tags, "version")
      /\ record.commit = FirstTag(tags, "commit")
  <2>1. e.kind # Store!NpackReleaseKind
    BY <1>2 DEF Store!AppDeclarationKind, Store!NpackReleaseKind
  <2>2. QED BY <2>1, DeclarationParsed DEF tags
<1>9. BuildAnnouncementForDeclaration(record, key, date) = note
  <2> HIDE DEF record
  <2>1. QED BY <1>4, <1>7, <1>8, Zenon DEF BuildAnnouncementForDeclaration
<1>10. QED BY <1>3, <1>4, <1>5, <1>6, <1>9 DEF Announces

\* The node keeps the newest declaration it can read of those at an address, so
\* that a note on its record leads there.
LEMMA KeptIsLedTo ==
  ASSUME Inv, NEW x \in Published, NEW key \in Trusted,
         x.event.pubkey = key, x.event.kind = Store!AppDeclarationKind,
         NEW k \in DOMAIN entries, entries[k].event = x.read,
         NEW note, note = BuildAnnouncementForDeclaration(ParseEvent(x.event), key, now)
  PROVE  LeadsTo(note)
<1> DEFINE e == x.event
           record == ParseEvent(e)
           D(f) == FirstTag(f.tags, "d")
<1>1. e.kind # Store!NpackReleaseKind
  BY DEF Store!AppDeclarationKind, Store!NpackReleaseKind
<1>2. /\ record.appID = D(e) /\ record.version = FirstTag(e.tags, "version")
      /\ record.commit = FirstTag(e.tags, "commit")
  BY <1>1, DeclarationParsed
<1>3. /\ note.address = <<Store!AppDeclarationKind, key, D(e)>>
      /\ note.version = FirstTag(e.tags, "version")
      /\ note.commit = FirstTag(e.tags, "commit")
  BY <1>2, Zenon DEF BuildAnnouncementForDeclaration
<1>4. AddressOf(e) = note.address
  BY <1>3, Zenon DEF AddressOf
<1>5. \A y \in Published :
        /\ y.read = Read(y.event) /\ y.event.createdAt \in Int /\ y.event.signed = TRUE
  <2>1. now \in Int
    BY DEF Inv, Clock
  <2>2. QED BY <2>1 DEF Inv, Dated
<1>6. x.read.createdAt = e.createdAt
  BY <1>5, ReadFacts
<1>7. k = <<key, D(e)>>
  <2>1. Store!EntryKey(x.read) = k
    BY DEF Inv, Projection
  <2>2. Store!EntryKey(x.read) = <<x.read.pubkey, Store!DeclarationOf(x.read).appID>>
    BY Zenon DEF Store!EntryKey
  <2>3. Store!DeclarationOf(x.read).appID = x.read.d
    <3>1. x.read.kind # Store!NpackReleaseKind
      BY <1>1, <1>5, ReadFacts
    <3>2. Store!DeclarationOf(x.read) = Store!ParseAppDeclaration(x.read)
      BY <3>1, Zenon DEF Store!DeclarationOf
    <3>3. Store!ParseAppDeclaration(x.read).appID = x.read.d
      BY Zenon DEF Store!ParseAppDeclaration
    <3>4. QED BY <3>2, <3>3
  <2>4. x.read.d = D(e) /\ x.read.pubkey = key
    <3>1. Read(e).d = D(e) /\ Read(e).pubkey = e.pubkey
      BY Zenon DEF Read
    <3>2. QED BY <1>5, <3>1
  <2> HIDE DEF D
  <2>5. QED BY <2>1, <2>2, <2>3, <2>4
<1>8. ASSUME NEW y \in Published, AddressOf(y.event) = note.address, ParsesEvent(y.event)
      PROVE  y.event.createdAt <= e.createdAt
  <2> DEFINE f == y.event
             r == y.read
  <2>1. f.kind = Store!AppDeclarationKind /\ f.pubkey = key /\ D(f) = D(e)
    <3>1. <<f.kind, f.pubkey, D(f)>> = <<Store!AppDeclarationKind, key, D(e)>>
      BY <1>3, <1>8, Zenon DEF AddressOf
    <3> HIDE DEF D, e, f
    <3>2. QED BY <3>1
  <2>2. r = Read(f) /\ f.signed = TRUE /\ f.createdAt \in Int
    BY <1>5
  <2>3. /\ Store!Validates(r) /\ r.createdAt = f.createdAt
        /\ Store!EntryKey(r) = <<f.pubkey, D(f)>>
    <3>1. ParsesEvent(f) /\ f.pubkey \in Trusted
      BY <1>8, <2>1
    <3> HIDE DEF f, r
    <3>2. QED BY <2>1, <2>2, <3>1, ReadableIsValid, Zenon
  <2>4. Store!EntryKey(r) = k
    <3> HIDE DEF D, e, f, r
    <3>1. QED BY <1>7, <2>1, <2>3
  <2>5. entries[k].event.createdAt >= r.createdAt
    <3>1. Projection(entries, Published)
      BY DEF Inv
    <3>2. entries[Store!EntryKey(r)].event.createdAt >= r.createdAt
      BY <2>3, <3>1, Zenon DEF Projection
    <3> HIDE DEF r
    <3>3. QED BY <2>4, <3>2
  <2>6. e.createdAt \in Int
    BY <1>5
  <2> HIDE DEF e, f, r
  <2>7. QED BY <1>6, <2>2, <2>3, <2>5, <2>6 DEF f
<1> HIDE DEF D, record
<1>9. QED BY <1>3, <1>4, <1>8, Zenon DEF LeadsTo

\* No note on a declaration, or on a record the node keeps of one, drifts from
\* what was declared (Publication.NotesDoNotDrift).
THEOREM NotesNeverDrift == Spec => []NotesDoNotDrift
<1>1. Inv => NotesDoNotDrift
  <2> SUFFICES ASSUME Inv PROVE NotesDoNotDrift
    OBVIOUS
  <2>1. ASSUME NEW x \in declared
        PROVE  LET key == x.event.pubkey
                   note == BuildAnnouncement(x.event, key, now)
               IN  /\ CanAnnounce(x.event, key)
                   /\ note.address = <<Store!AppDeclarationKind, key, x.input.appID>>
                   /\ note.version = x.input.version /\ note.commit = x.input.commit
                   /\ BuildAnnouncementForDeclaration(ParseEvent(x.event), key, now) = note
    <3> DEFINE m == x.input    e == x.event    key == e.pubkey    n == e.id
    <3>1. ValidMetadata(m) /\ e = BuildDeclaration(m, key, n)
      BY DEF Inv, BuiltDeclarations
    <3> HIDE DEF m, n, e, key
    <3>2. Announces(e, m, key, now)
      BY <3>1, DeclaredIsAnnounced, Zenon
    <3>3. QED BY <3>2, Zenon DEF Announces, m, e, key
  <2>2. ASSUME NEW x \in Published, NEW key \in Trusted,
               CanAnnounceRecord(ParseEvent(x.event), key),
               x.event.kind = Store!AppDeclarationKind,
               NEW k \in DOMAIN entries, entries[k].event = x.read
        PROVE  LeadsTo(BuildAnnouncementForDeclaration(ParseEvent(x.event), key, now))
    <3>1. x.event.kind # Store!NpackReleaseKind
      BY <2>2 DEF Store!AppDeclarationKind, Store!NpackReleaseKind
    <3>2. ParseEvent(x.event).publisher = x.event.pubkey
      BY <3>1, DeclarationParsed
    <3>3. x.event.pubkey = key
      BY <2>2, <3>2, Zenon DEF CanAnnounceRecord
    <3>4. QED BY <2>2, <3>3, KeptIsLedTo, Zenon
  <2>3. QED BY <2>1, <2>2, Zenon DEF NotesDoNotDrift
<1>2. QED BY <1>1, AlwaysInv, PTL

-----------------------------------------------------------------------------
(* Curation. *)

LEMMA FiniteImage ==
  ASSUME NEW S, IsFiniteSet(S), NEW f, DOMAIN f = S, NEW T, T = {f[x] : x \in S}
  PROVE  IsFiniteSet(T)
<1> DEFINE g == [x \in S |-> f[x]]
<1>1. g \in Surjection(S, T)
  BY DEF Surjection
<1>2. QED BY <1>1, FS_Surjection

\* An order of a finite set is a sequence of all its elements, each once.
LEMMA OrderIsComplete ==
  ASSUME NEW S, IsFiniteSet(S), NEW order \in Orders(S)
  PROVE  /\ Len(order) = Cardinality(S) /\ Cardinality(S) \in Nat
         /\ \A i \in 1..Cardinality(S) : order[i] \in S
         /\ \A i, j \in 1..Cardinality(S) : order[i] = order[j] => i = j
         /\ \A c \in S : \E i \in 1..Cardinality(S) : order[i] = c
<1> DEFINE N == Cardinality(S)
<1>1. N \in Nat
  BY FS_CardinalityType
<1>2. order \in [1..N -> S] /\ \A i, j \in 1..N : order[i] = order[j] => i = j
  BY DEF Orders
<1> HIDE DEF N
<1>3. Len(order) = N
  BY <1>1, <1>2
<1>4. order \in Injection(1..N, S)
  BY <1>2 DEF Injection, IsInjective
<1>5. Cardinality(1..N) = N
  BY <1>1, FS_Interval
<1>6. order \in Surjection(1..N, S)
  BY <1>4, <1>5, FS_Injection DEF N
<1>7. \A c \in S : \E i \in 1..N : order[i] = c
  BY <1>6 DEF Surjection
<1>8. QED BY <1>1, <1>2, <1>3, <1>7 DEF N

\* What the node's owner accepts of the endorsements, and who votes in them.
AcceptedBy(p) == {Endorsement(e) : e \in {f \in endorsed : Accept(p, f)}}

Voters(p, publisher, appID) ==
  {curator \in p.trustedCurators :
     \E claim \in {"recommend", "tested"} :
       BuildEndorsement(publisher, appID, claim, curator) \in endorsed}

\* The code counts exactly the trusted curators with a vote.
LEMMA CountIsVotes ==
  ASSUME Inv, NEW p, NEW c, NEW publisher, publisher = c.publisher,
         NEW appID, appID = c.appID
  PROVE  /\ Count(AcceptedBy(p), c) = Cardinality(Voters(p, publisher, appID))
         /\ Count(AcceptedBy(p), c) \in Nat
<1> DEFINE A == AcceptedBy(p)
           X == {x.curator : x \in {y \in A : /\ y.publisher = publisher /\ y.appID = appID
                                            /\ y.claim \in {"recommend", "tested"}}}
           V == Voters(p, publisher, appID)
<1>1. ASSUME NEW e
      PROVE  /\ Endorsement(e).curator = e.pubkey /\ Endorsement(e).publisher = e.target[2]
             /\ Endorsement(e).appID = e.target[3] /\ Endorsement(e).claim = e.claim
  BY Zenon DEF Endorsement
<1>2. \A e \in endorsed :
        /\ e = BuildEndorsement(e.target[2], e.target[3], e.claim, e.pubkey)
        /\ ParsesEndorsement(e)
  BY DEF Inv, BuiltEndorsements
<1>3. ASSUME NEW v \in X PROVE v \in V
  <2>1. PICK x \in A : /\ x.publisher = publisher /\ x.appID = appID
                       /\ x.claim \in {"recommend", "tested"} /\ v = x.curator
    BY <1>3
  <2>2. PICK e \in endorsed : Accept(p, e) /\ x = Endorsement(e)
    BY DEF AcceptedBy
  <2>3. /\ v = e.pubkey /\ e.target[2] = publisher /\ e.target[3] = appID
        /\ e.claim \in {"recommend", "tested"}
    BY <2>1, <2>2, <1>1
  <2>4. BuildEndorsement(publisher, appID, e.claim, v) \in endorsed
    BY <1>2, <2>3, Zenon
  <2>5. v \in p.trustedCurators
    BY <2>2, <2>3, Zenon DEF Accept
  <2>6. QED BY <2>3, <2>4, <2>5, Zenon DEF Voters
<1>4. ASSUME NEW v \in V PROVE v \in X
  <2>1. PICK claim \in {"recommend", "tested"} :
          BuildEndorsement(publisher, appID, claim, v) \in endorsed
    BY <1>4, Zenon DEF Voters
  <2>2. v \in p.trustedCurators
    BY <1>4, Zenon DEF Voters
  <2> DEFINE e == BuildEndorsement(publisher, appID, claim, v)
  <2>3. /\ e.pubkey = v /\ e.target = <<TargetKind, publisher, appID>>
        /\ e.claim = claim
    BY Zenon DEF BuildEndorsement
  <2> HIDE DEF e
  <2>4. e \in endorsed
    BY <2>1 DEF e
  <2>5. e.target[2] = publisher /\ e.target[3] = appID
    BY <2>3
  <2>6. ParsesEndorsement(e)
    BY <1>2, <2>4
  <2>7. Accept(p, e)
    BY <2>2, <2>3, <2>6, Zenon DEF Accept
  <2>8. Endorsement(e) \in A
    BY <2>4, <2>7, Zenon DEF AcceptedBy
  <2>9. /\ Endorsement(e).curator = v /\ Endorsement(e).publisher = publisher
        /\ Endorsement(e).appID = appID /\ Endorsement(e).claim = claim
    BY <1>1, <2>3, <2>5
  <2> HIDE DEF A
  <2>10. QED BY <2>8, <2>9
<1>5. X = V
  BY <1>3, <1>4, Zenon
<1>6. IsFiniteSet(V)
  <2> DEFINE f == [e \in endorsed |-> e.pubkey]
             T == {f[e] : e \in endorsed}
  <2>1. IsFiniteSet(T)
    <3>1. IsFiniteSet(endorsed) /\ DOMAIN f = endorsed
      BY DEF Inv, Finite
    <3> HIDE DEF f
    <3>2. QED BY <3>1, FiniteImage
  <2>2. ASSUME NEW v \in V PROVE v \in T
    <3>1. PICK claim : BuildEndorsement(publisher, appID, claim, v) \in endorsed
      BY <2>2, Zenon DEF Voters
    <3> DEFINE e == BuildEndorsement(publisher, appID, claim, v)
    <3>2. e.pubkey = v
      BY Zenon DEF BuildEndorsement
    <3> HIDE DEF e
    <3>3. e \in endorsed
      BY <3>1 DEF e
    <3>4. QED BY <3>2, <3>3
  <2> HIDE DEF T, V
  <2>3. V \in SUBSET T
    BY <2>2
  <2>4. QED BY <2>1, <2>3, FS_Subset
<1>7. Count(A, c) = Cardinality(X)
  BY Zenon DEF Count, EndorsementCount
<1>8. QED BY <1>5, <1>6, <1>7, FS_CardinalityType

\* The declarations of an app, one of each publisher.
CandidatesOf(appID) ==
  {Store!DeclarationOf(entries[k].event) : k \in Store!Candidates(entries, appID)}

LEMMA CandidatesAreFinite ==
  ASSUME Inv, NEW appID
  PROVE  /\ IsFiniteSet(CandidatesOf(appID))
         /\ \A c \in CandidatesOf(appID) : c.appID = appID
<1> DEFINE K == Store!Candidates(entries, appID)
           f == [k \in K |-> Store!DeclarationOf(entries[k].event)]
<1>1. K \in SUBSET DOMAIN entries /\ \A k \in K : k[2] = appID
  BY DEF Store!Candidates
<1>2. IsFiniteSet(K)
  <2>1. IsFiniteSet(DOMAIN entries)
    BY DEF Inv, Finite
  <2> HIDE DEF K
  <2>2. QED BY <1>1, <2>1, FS_Subset
<1>3. CandidatesOf(appID) = {f[k] : k \in K} /\ DOMAIN f = K
  BY DEF CandidatesOf
<1>4. IsFiniteSet(CandidatesOf(appID))
  <2> HIDE DEF f, K
  <2>1. QED BY <1>2, <1>3, FiniteImage
<1>5. ASSUME NEW k \in K PROVE Store!DeclarationOf(entries[k].event).appID = appID
  <2>1. Store!EntryKey(entries[k].event) = k
    BY <1>1 DEF Inv, Projection
  <2>2. k[2] = Store!DeclarationOf(entries[k].event).appID
    BY <2>1 DEF Store!EntryKey
  <2>3. QED BY <1>1, <2>2
<1>6. QED BY <1>4, <1>5 DEF CandidatesOf

\* Whatever order the candidates come in, the one selected is the one with the
\* most votes, if it has enough (Publication.SelectsTheUniqueBest).
THEOREM AlwaysSelectsTheUniqueBest == Spec => []SelectsTheUniqueBest
<1>1. Inv => SelectsTheUniqueBest
  <2> SUFFICES ASSUME Inv, NEW p \in CurationPolicies, NewPolicy(p), NEW appID,
                      NEW order \in Orders(CandidatesOf(appID))
               PROVE  SelectCanonical(p, order, AcceptedBy(p)) =
                        {c \in CandidatesOf(appID) :
                          /\ Cardinality(Voters(p, c.publisher, appID))
                               >= p.minimumEndorsements
                          /\ \A d \in CandidatesOf(appID) \ {c} :
                               Cardinality(Voters(p, d.publisher, appID))
                                 < Cardinality(Voters(p, c.publisher, appID))}
    BY Zenon DEF SelectsTheUniqueBest, CandidatesOf, AcceptedBy, Voters
  <2> DEFINE C == CandidatesOf(appID)
             N == Cardinality(C)
             Votes(c) == Cardinality(Voters(p, c.publisher, appID))
             A == AcceptedBy(p)
             min == p.minimumEndorsements
  <2>1. IsFiniteSet(C) /\ \A c \in C : c.appID = appID
    BY CandidatesAreFinite
  <2>2. \A c \in C : Count(A, c) = Votes(c) /\ Count(A, c) \in Nat
    <3> HIDE DEF A
    <3>1. ASSUME NEW c \in C PROVE Count(A, c) = Votes(c) /\ Count(A, c) \in Nat
      BY <2>1, CountIsVotes, Zenon DEF A
    <3>2. QED BY <3>1, Zenon
  <2>3. min \in Int
    BY CurationPoliciesAssumption
  <2>4. /\ Len(order) = N /\ N \in Nat
        /\ \A i \in 1..N : order[i] \in C
        /\ \A i, j \in 1..N : order[i] = order[j] => i = j
        /\ \A c \in C : \E i \in 1..N : order[i] = c
    <3> HIDE DEF C
    <3>1. order \in Orders(C)
      BY DEF C
    <3>2. QED BY <2>1, <3>1, OrderIsComplete
  <2> DEFINE first == {j \in 1..N : /\ Count(A, order[j]) >= min
                                   /\ \A k \in (1..N) \ {j} :
                                        Count(A, order[k]) < Count(A, order[j])}
             best == {c \in C : Votes(c) >= min /\ \A d \in C \ {c} : Votes(d) < Votes(c)}
  <2>5. SelectCanonical(p, order, A) = {order[i] : i \in first}
    <3> DEFINE n == Len(order)
    <3>1. n \in Nat /\ \A i \in 1..n : Count(A, order[i]) \in Nat
      BY <2>2, <2>4
    <3> HIDE DEF A, n
    <3>2. SelectCanonical(p, order, A) =
            {order[i] : i \in {j \in 1..n :
               /\ Count(A, order[j]) >= min
               /\ \A k \in (1..n) \ {j} : Count(A, order[k]) < Count(A, order[j])}}
      BY <2>3, <3>1, LoopSelectsTheUniqueBest DEF n
    <3>3. n = N
      BY <2>4 DEF n
    <3>4. QED BY <3>2, <3>3
  <2> HIDE DEF A, C, N, Votes, min
  <2>6. ASSUME NEW i \in first PROVE order[i] \in best
    <3>1. i \in 1..N /\ order[i] \in C /\ Votes(order[i]) >= min
      BY <2>2, <2>4
    <3>2. ASSUME NEW d \in C \ {order[i]} PROVE Votes(d) < Votes(order[i])
      <4>1. PICK k \in 1..N : order[k] = d
        BY <2>4
      <4>2. k # i
        BY <4>1
      <4>3. Count(A, order[k]) < Count(A, order[i])
        BY <4>2
      <4>4. QED BY <4>1, <4>3, <3>1, <2>2
    <3>3. QED BY <3>1, <3>2
  <2>7. ASSUME NEW c \in best PROVE \E i \in first : order[i] = c
    <3>1. PICK i \in 1..N : order[i] = c
      BY <2>4
    <3>2. Count(A, order[i]) >= min
      BY <3>1, <2>2
    <3>3. ASSUME NEW k \in (1..N) \ {i} PROVE Count(A, order[k]) < Count(A, order[i])
      <4>1. order[k] \in C /\ order[k] # c
        BY <2>4, <3>1
      <4>2. Votes(order[k]) < Votes(c)
        BY <4>1
      <4>3. QED BY <4>1, <4>2, <3>1, <2>2
    <3>4. QED BY <3>1, <3>2, <3>3
  <2>8. {order[i] : i \in first} = best
    <3> HIDE DEF first, best
    <3>1. QED BY <2>6, <2>7
  <2>9. QED BY <2>5, <2>8 DEF A, C, N, Votes, min
<1>2. QED BY <1>1, AlwaysInv, PTL

-----------------------------------------------------------------------------
(* Attestations. *)

\* A run on exactly the revision of a declaration, that ended as p asks.
GoodRun(p, r, declaration) ==
  /\ r.appID = declaration.appID /\ r.commit = declaration.commit
  /\ r.repository = declaration.repository /\ r.content = declaration.contentHash
  /\ declaration.manifestHash \in {Blank, r.manifest}
  /\ IF p.requiredChecks = {}
       THEN r.result = "pass"
       ELSE \A name \in p.requiredChecks :
              name \in DOMAIN r.checks /\ r.checks[name] = "pass"

\* The store takes a run for what it was.
LEMMA RunIsMatched ==
  ASSUME NEW p, NEW r, NEW key, NEW n, NEW a, ReadsVerdict(a, r, key, n), NEW declaration
  PROVE  (Store!Matches(a, declaration) /\ Store!Acceptable(p, a))
           <=> GoodRun(p, r, declaration)
<1>1. /\ a.appID = r.appID /\ a.repo = r.repository /\ a.commit = r.commit
      /\ a.manifest = r.manifest /\ a.content = r.content
      /\ a.passed = {name \in DOMAIN r.checks : r.checks[name] = "pass"}
      /\ a.result = r.result
  BY DEF ReadsVerdict
<1>2. Store!Matches(a, declaration) <=>
        /\ a.appID = declaration.appID /\ a.repo = declaration.repository
        /\ a.commit = declaration.commit
        /\ declaration.manifestHash # Blank => a.manifest = declaration.manifestHash
        /\ a.content = declaration.contentHash
  BY Zenon DEF Store!Matches, Blank
<1>3. Store!Acceptable(p, a) <=>
        IF p.requiredChecks = {}
          THEN r.result = "pass"
          ELSE \A name \in p.requiredChecks :
                 name \in DOMAIN r.checks /\ r.checks[name] = "pass"
  BY <1>1 DEF Store!Acceptable
<1>4. QED BY <1>1, <1>2, <1>3 DEF GoodRun

\* No later run in P of x's verifier was on the same app and commit.
LastRun(x, P) ==
  \A y \in P :
    (y.event.pubkey = x.event.pubkey /\ y.input.appID = x.input.appID
      /\ y.input.commit = x.input.commit) => y.event.createdAt <= x.event.createdAt

LEMMA TestersFacts ==
  ASSUME NEW p, NEW declaration, NEW P
  PROVE  Testers(p, declaration, P) =
           {v \in p.trustedVerifiers : \E x \in P :
              x.event.pubkey = v /\ GoodRun(p, x.input, declaration) /\ LastRun(x, P)}
<1> DEFINE T == Testers(p, declaration, P)
           R == {v \in p.trustedVerifiers : \E x \in P :
                   x.event.pubkey = v /\ GoodRun(p, x.input, declaration) /\ LastRun(x, P)}
<1>1. \A v : v \in T <=> v \in R
  BY DEF Testers, GoodRun, LastRun
<1>2. QED BY <1>1

\* The keys of the attestations that Evaluate counts.
Counted(p, declaration, m) ==
  {k \in DOMAIN m :
     /\ Store!Matches(m[k], declaration)
     /\ Store!TrustedVerifier(p, m[k].pubkey)
     /\ Store!Acceptable(p, m[k])}

\* The instance counts as FiniteSets does.
LEMMA StoreCardinality == ASSUME NEW S PROVE Store!Cardinality(S) = Cardinality(S)
BY DEF Store!Cardinality, Cardinality

LEMMA EvaluateCounts ==
  ASSUME NEW p, p.mode = "require", NEW declaration, NEW m
  PROVE  Store!Evaluate(p, Store!AttestationsFor(m, declaration)).accepted
           <=> Cardinality(Counted(p, declaration, m)) >= Store!EffectiveMinimum(p)
<1> DEFINE slice == Store!AttestationsFor(m, declaration)
           counted == {k \in DOMAIN slice :
                         /\ Store!TrustedVerifier(p, slice[k].pubkey)
                         /\ Store!Acceptable(p, slice[k])}
<1>1. /\ DOMAIN slice = {k \in DOMAIN m :
                           Store!Matches(m[k], declaration)}
      /\ \A k \in DOMAIN slice : slice[k] = m[k]
  BY DEF Store!AttestationsFor
<1> HIDE DEF slice
<1>2. counted = Counted(p, declaration, m)
  BY <1>1 DEF Counted
<1>3. ASSUME Store!Evaluate(p, slice).accepted
      PROVE  Store!Cardinality(counted) >= Store!EffectiveMinimum(p)
  BY <1>3 DEF Store!Evaluate
<1>4. ASSUME Store!Cardinality(counted) >= Store!EffectiveMinimum(p)
      PROVE  Store!Evaluate(p, slice).accepted
  BY <1>4 DEF Store!Evaluate
<1>5. Store!Cardinality(counted) = Cardinality(Counted(p, declaration, m))
  BY <1>2, StoreCardinality
<1>6. QED BY <1>3, <1>4, <1>5, Zenon DEF slice

\* What the invariant says of each run.
RunFacts(x) ==
  /\ x.event.id \in Int /\ x.event.createdAt = x.event.id
  /\ x.read.createdAt = x.event.id /\ x.read.pubkey = x.event.pubkey
  /\ ReadsVerdict(x.read, x.input, x.event.pubkey, x.event.id)
  /\ Store!ParsesAttestation(x.read)
  /\ Store!AttestationKey(x.read) = <<x.event.pubkey, x.input.appID, x.input.commit>>

LEMMA AttestedRuns ==
  ASSUME Inv
  PROVE  /\ \A x \in attested : RunFacts(x)
         /\ \A x, y \in attested : x.event.id = y.event.id => x = y
<1>1. now \in Int
  BY BoundAssumption DEF Inv, Clock
<1>2. \A x \in attested :
        /\ x.event = BuildAttestation(x.input, x.event.pubkey, x.event.id)
        /\ x.read = ReadAttestation(x.event) /\ x.event.id \in Nat \ {0}
        /\ ValidAttestation(x.input) /\ Address(x.input) # Blank
  BY <1>1 DEF Inv, BuiltAttestations
<1>3. \A x \in attested :
        /\ x.event.createdAt = x.event.id
        /\ x.read.createdAt = x.event.id
        /\ ReadsVerdict(x.read, x.input, x.event.pubkey, x.event.id)
        /\ Store!AttestationKey(x.read)
             = <<x.event.pubkey, x.input.appID, x.input.commit>>
  BY <1>2, AttestedFacts
<1>4. \A x \in attested : x.read.pubkey = x.event.pubkey
  BY <1>3 DEF ReadsVerdict
<1>5. ASSUME NEW x \in attested PROVE Store!ParsesAttestation(x.read)
  <2> DEFINE r == x.input    key == x.event.pubkey    n == x.event.id    a == x.event
  <2>1. /\ a = BuildAttestation(r, key, n) /\ n \in Nat \ {0} /\ ValidAttestation(r)
        /\ x.read = ReadAttestation(a)
    BY <1>2
  <2>2. r.appID \o ":" \o r.commit # Blank
    BY <1>2, Zenon DEF Address
  <2> HIDE DEF r, key, n, a
  <2>3. Store!ParsesAttestation(ReadAttestation(a))
    BY <2>1, <2>2, AttestationParses, Zenon
  <2>4. QED BY <2>1, <2>3, Zenon
<1>6. \A x \in attested : RunFacts(x)
  BY <1>2, <1>3, <1>4, <1>5 DEF RunFacts
<1>7. QED BY <1>6 DEF Inv, BuiltAttestations

\* A key that is counted is that of a verifier whose last run was good, and the
\* other way round.
LEMMA CountedAreTesters ==
  ASSUME Inv, NEW P \in SUBSET attested, NEW m, VerdictsKept(m, P),
         NEW p, p.trustedVerifiers # {}, NEW declaration
  PROVE  /\ \A k \in Counted(p, declaration, m) :
              /\ k = <<k[1], declaration.appID, declaration.commit>>
              /\ k[1] \in Testers(p, declaration, P)
         /\ \A v \in Testers(p, declaration, P) :
              <<v, declaration.appID, declaration.commit>> \in Counted(p, declaration, m)
<1> DEFINE Key(x) == <<x.event.pubkey, x.input.appID, x.input.commit>>
<1>1. \A x \in P :
        /\ x.event.id \in Int /\ x.event.createdAt = x.event.id
        /\ x.read.createdAt = x.event.id /\ x.read.pubkey = x.event.pubkey
        /\ ReadsVerdict(x.read, x.input, x.event.pubkey, x.event.id)
        /\ Store!AttestationKey(x.read) = Key(x)
  BY AttestedRuns DEF RunFacts
<1>2. \A x, y \in P : x.event.id = y.event.id => x = y
  BY AttestedRuns
<1>3. /\ \A k \in DOMAIN m :
           \E x \in P : m[k] = x.read /\ Key(x) = k
      /\ \A x \in P : /\ Key(x) \in DOMAIN m
                             /\ m[Key(x)].createdAt >= x.event.createdAt
  <2> HIDE DEF Key
  <2>1. QED BY <1>1 DEF VerdictsKept
<1>4. \A x \in P :
        (Store!Matches(x.read, declaration) /\ Store!Acceptable(p, x.read))
          <=> GoodRun(p, x.input, declaration)
  BY <1>1, RunIsMatched, Zenon
<1>5. \A v : Store!TrustedVerifier(p, v) <=> v \in p.trustedVerifiers
  BY DEF Store!TrustedVerifier
<1>6. ASSUME NEW k \in Counted(p, declaration, m)
      PROVE  /\ k = <<k[1], declaration.appID, declaration.commit>>
             /\ k[1] \in Testers(p, declaration, P)
  <2>1. /\ k \in DOMAIN m
        /\ Store!Matches(m[k], declaration)
        /\ Store!TrustedVerifier(p, m[k].pubkey)
        /\ Store!Acceptable(p, m[k])
    BY DEF Counted
  <2>2. PICK x \in P : m[k] = x.read /\ Key(x) = k
    BY <1>3, <2>1
  <2>3. GoodRun(p, x.input, declaration)
    BY <1>4, <2>1, <2>2
  <2>4. x.event.pubkey \in p.trustedVerifiers
    BY <1>1, <1>5, <2>1, <2>2
  <2>5. x.input.appID = declaration.appID /\ x.input.commit = declaration.commit
    BY <2>3 DEF GoodRun
  <2>6. k = <<k[1], declaration.appID, declaration.commit>> /\ k[1] = x.event.pubkey
    BY <2>2, <2>5
  <2>7. LastRun(x, P)
    <3>1. ASSUME NEW y \in P, Key(y) = Key(x)
          PROVE  y.event.createdAt <= x.event.createdAt
      <4>1. m[k].createdAt >= y.event.createdAt
        BY <1>3, <2>2, <3>1
      <4>2. m[k].createdAt = x.event.createdAt
        BY <1>1, <2>2
      <4>3. x.event.createdAt \in Int /\ y.event.createdAt \in Int
        BY <1>1
      <4>4. QED BY <4>1, <4>2, <4>3
    <3>2. QED BY <3>1 DEF LastRun
  <2>8. QED BY <2>3, <2>4, <2>6, <2>7, TestersFacts
<1>7. ASSUME NEW v \in Testers(p, declaration, P)
      PROVE  <<v, declaration.appID, declaration.commit>> \in Counted(p, declaration, m)
  <2>1. v \in p.trustedVerifiers
    BY TestersFacts
  <2>2. PICK x \in P : /\ x.event.pubkey = v
                              /\ GoodRun(p, x.input, declaration) /\ LastRun(x, P)
    BY TestersFacts
  <2> DEFINE k == <<v, declaration.appID, declaration.commit>>
  <2>3. Key(x) = k
    BY <2>2 DEF GoodRun
  <2>4. k \in DOMAIN m /\ m[k].createdAt >= x.event.createdAt
    BY <1>3, <2>3
  <2>5. PICK y \in P : m[k] = y.read /\ Key(y) = k
    BY <1>3, <2>4
  <2>6. y.event.createdAt <= x.event.createdAt
    BY <2>2, <2>3, <2>5 DEF LastRun
  <2>7. y = x
    <3>1. /\ y.event.createdAt = y.event.id /\ x.event.createdAt = x.event.id
          /\ y.event.id \in Int /\ x.event.id \in Int
          /\ m[k].createdAt = y.event.id
      BY <1>1, <2>5
    <3>2. y.event.id = x.event.id
      BY <2>4, <2>6, <3>1
    <3>3. QED BY <1>2, <3>2
  <2>8. m[k] = x.read
    BY <2>5, <2>7
  <2>9. Store!Matches(x.read, declaration) /\ Store!Acceptable(p, x.read)
    BY <1>4, <2>2
  <2>10. Store!TrustedVerifier(p, x.read.pubkey)
    BY <1>1, <1>5, <2>1, <2>2
  <2> HIDE DEF k
  <2>11. k \in Counted(p, declaration, m)
    BY <2>4, <2>8, <2>9, <2>10 DEF Counted
  <2>12. QED BY <2>11 DEF k
<1>8. QED BY <1>6, <1>7

\* So the verdict of a store that keeps the latest of some runs is that of the
\* verifiers who made them.
LEMMA VerdictAgrees ==
  ASSUME Inv, NEW P \in SUBSET attested, NEW m, VerdictsKept(m, P),
         IsFiniteSet(DOMAIN m), NEW p, Store!NewAttestationPolicy(p), p.mode = "require", NEW declaration
  PROVE  Store!Evaluate(p, Store!AttestationsFor(m, declaration)).accepted
           <=> Cardinality(Testers(p, declaration, P)) >= Store!EffectiveMinimum(p)
<1> DEFINE K == Counted(p, declaration, m)
           T == Testers(p, declaration, P)
           f == [k \in K |-> k[1]]
           Cell(v) == <<v, declaration.appID, declaration.commit>>
<1>1. p.trustedVerifiers # {}
  BY DEF Store!NewAttestationPolicy
<1>2. /\ \A k \in K : k = Cell(k[1]) /\ k[1] \in T
      /\ \A v \in T : Cell(v) \in K
  BY <1>1, CountedAreTesters
<1>3. \A v : Cell(v)[1] = v
  OBVIOUS
<1>4. IsFiniteSet(K)
  <2>1. K \in SUBSET DOMAIN m
    BY DEF Counted
  <2> HIDE DEF K
  <2>2. QED BY <2>1, FS_Subset
<1> HIDE DEF K, T, Cell
<1>5. f \in Bijection(K, T)
  <2>1. f \in Injection(K, T)
    BY <1>2 DEF Injection, IsInjective
  <2>2. f \in Surjection(K, T)
    BY <1>2, <1>3 DEF Surjection
  <2>3. QED BY <2>1, <2>2 DEF Bijection
<1>6. Cardinality(T) = Cardinality(K)
  <2>1. ExistsBijection(K, T)
    BY <1>5 DEF ExistsBijection
  <2>2. QED BY <1>4, <2>1, FS_Bijection
<1>7. QED BY <1>6, EvaluateCounts, Zenon DEF K, T

-----------------------------------------------------------------------------
(* What attest-release collects. *)

\* The attestations after each of the first m runs of an answer.
IsCollection(after, m, answer) ==
  after = [n \in 0..m |->
             IF n = 0 THEN Store!EmptyMap
                      ELSE Store!ApplyAttestation(after[n - 1], answer[n].read)]

\* They can be collected to the end.
LEMMA CollectionExists ==
  ASSUME NEW answer, NEW m \in Nat
  PROVE  \E after : IsCollection(after, m, answer)
<1> DEFINE Runs(n) == \E after : IsCollection(after, n, answer)
           T == {n \in Nat : ~ Runs(n)}
<1> SUFFICES ASSUME T # {} PROVE FALSE
  OBVIOUS
<1>1. PICK x \in T : \A y \in T : x <= y
  <2> HIDE DEF T
  <2>1. T \subseteq Nat
    BY DEF T
  <2>2. QED BY <2>1, NatMin
<1>2. CASE x = 0
  <2> DEFINE f == [n \in 0..0 |-> Store!EmptyMap]
  <2>1. IsCollection(f, 0, answer)
    BY DEF IsCollection
  <2>2. QED BY <2>1, <1>2
<1>3. CASE x # 0
  <2>1. x - 1 \in Nat /\ x - 1 \notin T
    BY <1>1, <1>3
  <2>2. PICK f : IsCollection(f, x - 1, answer)
    BY <2>1
  <2> DEFINE Step(s, n) == Store!ApplyAttestation(s, answer[n].read)
             g == [n \in 0..x |-> IF n = x THEN Step(f[x - 1], x) ELSE f[n]]
  <2> HIDE DEF Step
  <2>3. ASSUME NEW n \in 0..x
        PROVE  g[n] = IF n = 0 THEN Store!EmptyMap ELSE Step(g[n - 1], n)
    <3>1. CASE n = x
      <4>1. n - 1 \in 0..x /\ n - 1 # x
        BY <3>1, <1>3
      <4>2. g[n - 1] = f[n - 1]
        BY <4>1
      <4>3. QED BY <4>2, <3>1, <1>3
    <3>2. CASE n # x
      <4>1. n \in 0..(x - 1) /\ g[n] = f[n]
        BY <3>2
      <4>2. f[n] = IF n = 0 THEN Store!EmptyMap ELSE Step(f[n - 1], n)
        BY <4>1, <2>2 DEF IsCollection, Step
      <4>3. CASE n = 0
        BY <4>1, <4>2, <4>3
      <4>4. CASE n # 0
        <5>1. n - 1 \in 0..x /\ n - 1 # x
          BY <3>2, <4>4
        <5>2. g[n - 1] = f[n - 1]
          BY <5>1
        <5>3. QED BY <4>1, <4>2, <4>4, <5>2
      <4>5. QED BY <4>3, <4>4
    <3>3. QED BY <3>1, <3>2
  <2>4. IsCollection(g, x, answer)
    <3>1. g = [n \in 0..x |-> g[n]]
      OBVIOUS
    <3>2. QED
      <4> HIDE DEF g
      <4>1. QED BY <2>3, <3>1 DEF IsCollection, Step
  <2>5. QED BY <2>4
<1>4. QED BY <1>2, <1>3

\* Run by run, from an empty store.
LEMMA RunByRun ==
  ASSUME NEW answer, Len(answer) \in Nat
  PROVE  LET t == Collected(answer) IN
         /\ t[0] = Store!EmptyMap
         /\ \A n \in 1..Len(answer) :
              t[n] = Store!ApplyAttestation(t[n - 1], answer[n].read)
<1> DEFINE t == Collected(answer)
<1>1. \E after : IsCollection(after, Len(answer), answer)
  BY CollectionExists
<1>2. IsCollection(t, Len(answer), answer)
  BY <1>1 DEF Collected, IsCollection
<1>3. t[0] = Store!EmptyMap
  BY <1>2 DEF IsCollection
<1>4. ASSUME NEW n \in 1..Len(answer)
      PROVE  t[n] = Store!ApplyAttestation(t[n - 1], answer[n].read)
  BY <1>2 DEF IsCollection
<1>5. QED BY <1>3, <1>4

\* What has been collected is the latest of what has been told.
LEMMA CollectedIsKept ==
  ASSUME Inv, NEW told \in SUBSET attested, NEW answer \in Orders(told),
         NEW m, m = Collected(answer)[Len(answer)]
  PROVE  VerdictsKept(m, told) /\ IsFiniteSet(DOMAIN m)
<1> DEFINE N == Len(answer)
           t == Collected(answer)
           First(n) == {answer[i] : i \in 1..n}
           Kept(n) == VerdictsKept(t[n], First(n)) /\ IsFiniteSet(DOMAIN t[n])
           T == {n \in 0..N : ~ Kept(n)}
<1>1. IsFiniteSet(told)
  <2>1. IsFiniteSet(attested)
    BY DEF Inv, Finite
  <2>2. QED BY <2>1, FS_Subset
<1>2. /\ N \in Nat /\ \A i \in 1..N : answer[i] \in told
      /\ \A c \in told : \E i \in 1..N : answer[i] = c
  BY <1>1, OrderIsComplete
<1>3. /\ t[0] = Store!EmptyMap
      /\ \A n \in 1..N : t[n] = Store!ApplyAttestation(t[n - 1], answer[n].read)
  BY <1>2, RunByRun
<1>4. First(N) = told
  BY <1>2
<1>5. \A x \in told : Store!ParsesAttestation(x.read) /\ x.read.createdAt \in Int
  BY AttestedRuns DEF RunFacts
<1> HIDE DEF t, N
<1>6. Kept(0)
  <2>1. DOMAIN t[0] = {} /\ First(0) = {}
    BY <1>3 DEF Store!EmptyMap
  <2>2. QED BY <2>1, FS_EmptySet DEF VerdictsKept
<1>7. ASSUME NEW n \in 1..N, Kept(n - 1) PROVE Kept(n)
  <2> DEFINE x == answer[n]
             s == t[n - 1]
             r == t[n]
             P == First(n - 1)
  <2>1. First(n) = P \cup {x} /\ P \cup {x} \subseteq told
    <3>1. \A i \in 1..n : i \in 1..(n - 1) \/ i = n
      BY <1>2
    <3>2. n \in 1..n /\ \A i \in 1..(n - 1) : i \in 1..n
      BY <1>2
    <3>3. \A i \in 1..n : i \in 1..N
      BY <1>2
    <3>4. QED BY <1>2, <3>1, <3>2, <3>3
  <2>2. /\ r = Store!ApplyAttestation(s, x.read) /\ Store!ParsesAttestation(x.read)
        /\ VerdictsKept(s, P) /\ IsFiniteSet(DOMAIN s)
        /\ \A y \in P \cup {x} : y.read.createdAt \in Int
    BY <1>2, <1>3, <1>5, <1>7, <2>1
  <2> HIDE DEF First, P, r, s, x
  <2>3. VerdictsKept(r, P \cup {x})
    BY <2>2, ApplyKeepsVerdicts
  <2>4. IsFiniteSet(DOMAIN r)
    <3>1. r = s \/ Stored(s, r, Store!AttestationKey(x.read), x.read)
      BY <2>2, ApplyAttestationStores, Zenon
    <3>2. QED BY <2>2, <3>1, StoredIsFinite
  <2>5. QED BY <2>1, <2>3, <2>4 DEF r
<1> HIDE DEF Kept
<1>8. T = {}
  <2> SUFFICES ASSUME T # {} PROVE FALSE
    OBVIOUS
  <2>1. PICK n \in T : \A k \in T : n <= k
    <3>1. T \subseteq Nat
      BY <1>2
    <3> HIDE DEF T
    <3>2. QED BY <3>1, NatMin
  <2>2. n \in 1..N /\ n - 1 \in 0..N /\ n - 1 \notin T
    BY <1>2, <1>6, <2>1
  <2>3. QED BY <1>7, <2>1, <2>2
<1>9. Kept(N)
  BY <1>2, <1>8
<1>10. QED BY <1>4, <1>9 DEF Kept, N, t

-----------------------------------------------------------------------------
(* The verdicts. *)

\* No two candidates precede each other.
LEMMA OneResolved ==
  ASSUME Inv, NEW appID, NEW d1 \in Store!Resolve(entries, appID),
         NEW d2 \in Store!Resolve(entries, appID)
  PROVE  d1 = d2
<1> DEFINE K == Store!Candidates(entries, appID)
<1>1. PICK k1 \in K : /\ \A other \in K \ {k1} : Store!Precedes(entries[k1], entries[other])
                     /\ d1 = Store!DeclarationOf(entries[k1].event)
  BY DEF Store!Resolve
<1>2. PICK k2 \in K : /\ \A other \in K \ {k2} : Store!Precedes(entries[k2], entries[other])
                     /\ d2 = Store!DeclarationOf(entries[k2].event)
  BY DEF Store!Resolve
<1>3. ASSUME NEW k \in K
      PROVE  entries[k].event.createdAt \in Int /\ entries[k].event.pubkey \in Int
  <2>1. PICK x \in Published : entries[k].event = x.read
    BY DEF Inv, Projection, Store!Candidates
  <2>2. /\ x.read = Read(x.event) /\ x.event.createdAt \in Int
        /\ x.event.pubkey \in Int
    BY BoundAssumption DEF Inv, Dated, Clock
  <2>3. x.read.createdAt = x.event.createdAt /\ x.read.pubkey = x.event.pubkey
    BY <2>2, ReadFacts
  <2>4. QED BY <2>1, <2>2, <2>3
<1>4. k1 = k2
  <2> SUFFICES ASSUME k1 # k2 PROVE FALSE
    OBVIOUS
  <2>1. /\ Store!Precedes(entries[k1], entries[k2])
        /\ Store!Precedes(entries[k2], entries[k1])
    BY <1>1, <1>2
  <2> HIDE DEF K
  <2>2. QED BY <2>1, <1>3 DEF Store!Precedes
<1>5. QED BY <1>1, <1>2, <1>4, Zenon

\* However many runs and attestations there have been, an app is installable,
\* and a release attested on what the relays tell, exactly if enough trusted
\* verifiers have last found its revision good (Publication.TestedIsAccepted).
THEOREM AlwaysTestedIsAccepted == Spec => []TestedIsAccepted
<1>1. Inv => TestedIsAccepted
  <2> SUFFICES ASSUME Inv, NEW p \in InstallPolicies,
                      Store!NewAttestationPolicy(p), p.mode = "require"
               PROVE  LET Enough(declaration, runs) ==
                            Cardinality(Testers(p, declaration, runs))
                              >= Store!EffectiveMinimum(p)
                      IN
                      /\ \A appID \in Identifiers :
                           \A declaration \in Store!Resolve(entries, appID) :
                             Store!ResolveInstallable(entries, attestations, appID, p) # {}
                               <=> Enough(declaration, attested)
                      /\ \A x \in Published, told \in SUBSET attested :
                           \A answers \in SUBSET Releases(x.read.pubkey, x.read.d),
                              answer \in Orders(told) :
                             \A report \in AttestRelease(p, x.read.name, answers, answer) :
                               report.decision.accepted <=> Enough(report.declaration, told)
    BY Zenon DEF TestedIsAccepted
  <2> DEFINE Enough(declaration, runs) ==
               Cardinality(Testers(p, declaration, runs)) >= Store!EffectiveMinimum(p)
             Judged(declaration, m) ==
               Store!Evaluate(p, Store!AttestationsFor(m, declaration))
  <2>1. ASSUME NEW declaration, NEW P \in SUBSET attested, NEW m, VerdictsKept(m, P),
               IsFiniteSet(DOMAIN m)
        PROVE  Judged(declaration, m).accepted <=> Enough(declaration, P)
    BY <2>1, VerdictAgrees, Zenon
  <2>2. ASSUME NEW appID, NEW declaration \in Store!Resolve(entries, appID)
        PROVE  Store!ResolveInstallable(entries, attestations, appID, p) # {}
                 <=> Enough(declaration, attested)
    <3>1. Store!ResolveInstallable(entries, attestations, appID, p) =
            {d \in Store!Resolve(entries, appID) : Judged(d, attestations).accepted}
      BY DEF Store!ResolveInstallable
    <3>2. \A d \in Store!Resolve(entries, appID) : d = declaration
      BY OneResolved
    <3>3. /\ VerdictsKept(attestations, attested) /\ IsFiniteSet(DOMAIN attestations)
          /\ attested \in SUBSET attested
      BY DEF Inv, Finite
    <3> HIDE DEF Enough, Judged
    <3>4. Judged(declaration, attestations).accepted <=> Enough(declaration, attested)
      BY <2>1, <3>3
    <3>5. QED BY <3>1, <3>2, <3>4, Zenon
  <2>3. ASSUME NEW x, NEW told \in SUBSET attested, NEW answers,
               NEW answer \in Orders(told),
               NEW report \in AttestRelease(p, x.read.name, answers, answer)
        PROVE  report.decision.accepted <=> Enough(report.declaration, told)
    <3> DEFINE m == Collected(answer)[Len(answer)]
    <3>1. PICK declaration :
            report = [declaration |-> declaration, decision |-> Judged(declaration, m)]
      BY Zenon DEF AttestRelease
    <3>2. m = Collected(answer)[Len(answer)]
      OBVIOUS
    <3> HIDE DEF Enough, Judged, m
    <3>3. VerdictsKept(m, told) /\ IsFiniteSet(DOMAIN m)
      BY <3>2, CollectedIsKept
    <3>4. report.declaration = declaration /\ report.decision = Judged(declaration, m)
      BY <3>1
    <3>5. Judged(declaration, m).accepted <=> Enough(declaration, told)
      BY <2>1, <3>3
    <3>6. QED BY <3>4, <3>5, Zenon
  <2>4. QED BY <2>2, <2>3, Zenon
<1>2. QED BY <1>1, AlwaysInv, PTL
=============================================================================
