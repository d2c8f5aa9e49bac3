------------------------ MODULE CatalogReplayProofs ------------------------
(***************************************************************************)
(* Proof that stores built from one clean history agree, for any set of    *)
(* events and any allow-list.  The inductive invariant says what each      *)
(* store holds part of the way: under every key a newest valid event of    *)
(* those applied so far.  Once nothing is pending, a clean history leaves  *)
(* one such event only, and no reduction drops it.                         *)
(***************************************************************************)
EXTENDS CatalogReplay, TLAPS

AppliedTo(s) == {e \in given[s] \ pending[s] : Validates(e)}

AttAppliedTo(s) ==
  {a \in attHistory \ attPending[s] : ParsesAttestation(a)}

EntriesAreNewest(s) ==
  /\ DOMAIN entries[s] = {EntryKey(e) : e \in AppliedTo(s)}
  /\ \A k \in DOMAIN entries[s] :
       /\ entries[s][k].event \in AppliedTo(s)
       /\ EntryKey(entries[s][k].event) = k
       /\ \A e \in AppliedTo(s) :
            EntryKey(e) = k => e.createdAt <= entries[s][k].event.createdAt

AttestationsAreNewest(s) ==
  /\ DOMAIN attestations[s] = {AttestationKey(a) : a \in AttAppliedTo(s)}
  /\ \A k \in DOMAIN attestations[s] :
       /\ attestations[s][k] \in AttAppliedTo(s)
       /\ AttestationKey(attestations[s][k]) = k
       /\ \A a \in AttAppliedTo(s) :
            AttestationKey(a) = k => a.createdAt <= attestations[s][k].createdAt

Sources ==
  /\ history \subseteq Declarations /\ attHistory \subseteq Attestations
  /\ given["live"] = history
  /\ \A s \in Stores \ {"live"} : given[s] \in LatestPerAddress(history)

IsMap(m) == m = [k \in DOMAIN m |-> m[k]]

Shape ==
  /\ DOMAIN entries = Stores /\ DOMAIN attestations = Stores
  /\ pending \in [Stores -> SUBSET history]
  /\ attPending \in [Stores -> SUBSET attHistory]
  /\ given \in [Stores -> SUBSET history]
  /\ \A s \in Stores : pending[s] \subseteq given[s]
  /\ \A s \in Stores : IsMap(attestations[s])

IInv ==
  /\ Sources /\ Shape
  /\ \A s \in Stores : EntriesAreNewest(s) /\ AttestationsAreNewest(s)

LEMMA Dates ==
  /\ \A e \in Declarations : e.createdAt \in Int
  /\ \A a \in Attestations : a.createdAt \in Int
BY DeclarationsAssumption, AttestationsAssumption
   DEF DeclarationEvent, AttestationEvent

LEMMA Reductions ==
  ASSUME NEW S, NEW L \in LatestPerAddress(S)
  PROVE  /\ L \subseteq S
         /\ \A e \in S : \E f \in L : /\ Address(f) = Address(e)
                                      /\ Supersedes(f, e)
BY DEF LatestPerAddress

LEMMA InitEstablishes == Init => IInv
<1> SUFFICES ASSUME Init PROVE IInv
  OBVIOUS
<1>1. PICK L \in LatestPerAddress(history), M \in LatestPerAddress(history) :
        given = [s \in Stores |-> CASE s = "live" -> history
                                    [] s = "rebuilt" -> L
                                    [] s = "rebuiltAgain" -> M]
  BY DEF Init
<1>2. /\ given["live"] = history
      /\ given["rebuilt"] = L /\ given["rebuiltAgain"] = M
      /\ DOMAIN given = Stores
  BY <1>1 DEF Stores
<1>3. L \subseteq history /\ M \subseteq history
  BY Reductions
<1>4. given \in [Stores -> SUBSET history]
  BY <1>1, <1>2, <1>3 DEF Stores
<1>5. Sources
  BY <1>2 DEF Sources, Init, Stores
<1>6. Shape
  BY <1>4 DEF Shape, Init, IsMap, EmptyMap
<1>7. ASSUME NEW s \in Stores
      PROVE  EntriesAreNewest(s) /\ AttestationsAreNewest(s)
  <2>1. entries[s] = EmptyMap /\ attestations[s] = EmptyMap
    BY DEF Init
  <2>2. AppliedTo(s) = {} /\ AttAppliedTo(s) = {}
    BY DEF Init, AppliedTo, AttAppliedTo
  <2>3. QED
    BY <2>1, <2>2 DEF EntriesAreNewest, AttestationsAreNewest, EmptyMap
<1>8. QED BY <1>5, <1>6, <1>7 DEF IInv

LEMMA ApplyPreserves ==
  ASSUME IInv, NEW s \in Stores, NEW e \in pending[s], ApplyOne(s, e)
  PROVE  IInv'
<1> DEFINE key == EntryKey(e)
<1>1. /\ entries' = [entries EXCEPT ![s] = Apply(entries[s], e)]
      /\ pending' = [pending EXCEPT ![s] = pending[s] \ {e}]
      /\ UNCHANGED <<history, attHistory, given, attPending, attestations>>
  BY DEF ApplyOne, histories
<1>2. Sources'
  BY <1>1 DEF IInv, Sources
<1>3. Shape'
  BY <1>1 DEF IInv, Shape
<1>4. e \in given[s] /\ e \in Declarations
  BY DEF IInv, Shape, Sources
<1>5. EntriesAreNewest(s)'
  <2>1. entries'[s] = Apply(entries[s], e)
    BY <1>1 DEF IInv, Shape
  <2>2. AppliedTo(s)' = IF Validates(e) THEN AppliedTo(s) \cup {e}
                                        ELSE AppliedTo(s)
    BY <1>1, <1>4 DEF IInv, Shape, AppliedTo
  <2>3. EntriesAreNewest(s)
    BY DEF IInv
  <2>4. AppliedTo(s) \subseteq Declarations
    BY DEF IInv, Shape, Sources, AppliedTo
  <2>5. CASE Accepts(entries[s], e)
    <3>1. entries'[s] = Put(entries[s], key, NewEntry(e))
      BY <2>1, <2>5 DEF Apply
    <3>2. AppliedTo(s)' = AppliedTo(s) \cup {e}
      BY <2>2, <2>5 DEF Accepts
    <3>3. /\ DOMAIN entries'[s] = DOMAIN entries[s] \cup {key}
          /\ entries'[s][key].event = e
          /\ \A k \in DOMAIN entries[s] :
               k # key => entries'[s][k] = entries[s][k]
      <4> HIDE DEF key
      <4>1. /\ DOMAIN entries'[s] = DOMAIN entries[s] \cup {key}
            /\ entries'[s][key] = NewEntry(e)
            /\ \A k \in DOMAIN entries[s] :
                 k # key => entries'[s][k] = entries[s][k]
        BY <3>1 DEF Put
      <4>2. NewEntry(e).event = e
        BY DEF NewEntry
      <4>3. QED BY <4>1, <4>2
    <3>4. \A f \in AppliedTo(s) :
            EntryKey(f) = key => f.createdAt <= e.createdAt
      <4> SUFFICES ASSUME NEW f \in AppliedTo(s), EntryKey(f) = key
                   PROVE  f.createdAt <= e.createdAt
        OBVIOUS
      <4>1. key \in DOMAIN entries[s]
        BY <2>3 DEF EntriesAreNewest
      <4>2. /\ f.createdAt <= entries[s][key].event.createdAt
            /\ entries[s][key].event \in Declarations
            /\ f \in Declarations
        BY <4>1, <2>3, <2>4 DEF EntriesAreNewest
      <4>3. e.createdAt > entries[s][key].event.createdAt
        BY <4>1, <2>5 DEF Accepts
      <4>4. QED BY <1>4, <4>2, <4>3, Dates
    <3>5. DOMAIN entries'[s] = {EntryKey(f) : f \in AppliedTo(s)'}
      BY <2>3, <3>2, <3>3 DEF EntriesAreNewest
    <3>6. ASSUME NEW k \in DOMAIN entries'[s]
          PROVE  /\ entries'[s][k].event \in AppliedTo(s)'
                 /\ EntryKey(entries'[s][k].event) = k
                 /\ \A f \in AppliedTo(s)' :
                      EntryKey(f) = k
                        => f.createdAt <= entries'[s][k].event.createdAt
      <4>1. CASE k = key
        BY <4>1, <1>4, <3>2, <3>3, <3>4, Dates
      <4>2. CASE k # key
        BY <4>2, <2>3, <3>2, <3>3 DEF EntriesAreNewest
      <4>3. QED BY <4>1, <4>2
    <3>7. QED BY <3>5, <3>6 DEF EntriesAreNewest
  <2>6. CASE ~Accepts(entries[s], e)
    <3>1. entries'[s] = entries[s]
      BY <2>1, <2>6 DEF Apply
    <3>2. CASE ~Validates(e)
      BY <3>1, <3>2, <2>2, <2>3 DEF EntriesAreNewest
    <3>3. CASE Validates(e)
      <4>1. /\ key \in DOMAIN entries[s]
            /\ ~(e.createdAt > entries[s][key].event.createdAt)
        BY <2>6, <3>3 DEF Accepts
      <4>2. entries[s][key].event \in Declarations
        BY <4>1, <2>3, <2>4 DEF EntriesAreNewest
      <4>3. e.createdAt <= entries[s][key].event.createdAt
        BY <1>4, <4>1, <4>2, Dates
      <4>4. AppliedTo(s)' = AppliedTo(s) \cup {e}
        BY <2>2, <3>3
      <4>5. QED BY <2>3, <3>1, <4>1, <4>3, <4>4 DEF EntriesAreNewest
    <3>4. QED BY <3>2, <3>3
  <2>7. QED BY <2>5, <2>6
<1>6. ASSUME NEW t \in Stores, t # s PROVE EntriesAreNewest(t)'
  <2>1. entries'[t] = entries[t] /\ AppliedTo(t)' = AppliedTo(t)
    BY <1>1, <1>6 DEF IInv, Shape, AppliedTo
  <2>2. QED BY <2>1 DEF IInv, EntriesAreNewest
<1>7. ASSUME NEW t \in Stores PROVE AttestationsAreNewest(t)'
  BY <1>1 DEF IInv, AttestationsAreNewest, AttAppliedTo
<1>8. QED BY <1>2, <1>3, <1>5, <1>6, <1>7 DEF IInv

LEMMA ApplyAttestationPreserves ==
  ASSUME IInv, NEW s \in Stores, NEW a \in attPending[s],
         ApplyOneAttestation(s, a)
  PROVE  IInv'
<1> DEFINE key == AttestationKey(a)
<1>1. /\ attestations' = [attestations EXCEPT
                            ![s] = ApplyAttestation(attestations[s], a)]
      /\ attPending' = [attPending EXCEPT ![s] = attPending[s] \ {a}]
      /\ UNCHANGED <<history, attHistory, given, pending, entries>>
  BY DEF ApplyOneAttestation, histories
<1>2. Sources'
  BY <1>1 DEF IInv, Sources
<1>3. Shape'
  <2>1. IsMap(ApplyAttestation(attestations[s], a))
    <3>1. IsMap(Put(attestations[s], key, a))
      BY DEF Put, IsMap
    <3>2. QED BY <3>1 DEF ApplyAttestation, IInv, Shape
  <2>2. \A t \in Stores : IsMap(attestations'[t])
    BY <1>1, <2>1 DEF IInv, Shape
  <2>3. QED BY <1>1, <2>2 DEF IInv, Shape
<1>4. a \in attHistory /\ a \in Attestations
  BY DEF IInv, Shape, Sources
<1>5. AttestationsAreNewest(s)'
  <2>1. attestations'[s] = ApplyAttestation(attestations[s], a)
    BY <1>1 DEF IInv, Shape
  <2>2. AttAppliedTo(s)' = IF ParsesAttestation(a) THEN AttAppliedTo(s) \cup {a}
                                                   ELSE AttAppliedTo(s)
    BY <1>1, <1>4 DEF IInv, Shape, AttAppliedTo
  <2>3. AttestationsAreNewest(s)
    BY DEF IInv
  <2>4. AttAppliedTo(s) \subseteq Attestations
    BY DEF IInv, Shape, Sources, AttAppliedTo
  <2>5. CASE AcceptsAttestation(attestations[s], a)
    <3>1. attestations'[s] = Put(attestations[s], key, a)
      BY <2>1, <2>5 DEF ApplyAttestation
    <3>2. AttAppliedTo(s)' = AttAppliedTo(s) \cup {a}
      BY <2>2, <2>5 DEF AcceptsAttestation
    <3>3. /\ DOMAIN attestations'[s] = DOMAIN attestations[s] \cup {key}
          /\ attestations'[s][key] = a
          /\ \A k \in DOMAIN attestations[s] :
               k # key => attestations'[s][k] = attestations[s][k]
      BY <3>1 DEF Put
    <3>4. \A b \in AttAppliedTo(s) :
            AttestationKey(b) = key => b.createdAt <= a.createdAt
      <4> SUFFICES ASSUME NEW b \in AttAppliedTo(s), AttestationKey(b) = key
                   PROVE  b.createdAt <= a.createdAt
        OBVIOUS
      <4>1. key \in DOMAIN attestations[s]
        BY <2>3 DEF AttestationsAreNewest
      <4>2. /\ b.createdAt <= attestations[s][key].createdAt
            /\ attestations[s][key] \in Attestations
            /\ b \in Attestations
        BY <4>1, <2>3, <2>4 DEF AttestationsAreNewest
      <4>3. a.createdAt > attestations[s][key].createdAt
        BY <4>1, <2>5 DEF AcceptsAttestation
      <4>4. QED BY <1>4, <4>2, <4>3, Dates
    <3>5. DOMAIN attestations'[s] = {AttestationKey(b) : b \in AttAppliedTo(s)'}
      BY <2>3, <3>2, <3>3 DEF AttestationsAreNewest
    <3>6. ASSUME NEW k \in DOMAIN attestations'[s]
          PROVE  /\ attestations'[s][k] \in AttAppliedTo(s)'
                 /\ AttestationKey(attestations'[s][k]) = k
                 /\ \A b \in AttAppliedTo(s)' :
                      AttestationKey(b) = k
                        => b.createdAt <= attestations'[s][k].createdAt
      <4>1. CASE k = key
        BY <4>1, <1>4, <3>2, <3>3, <3>4, Dates
      <4>2. CASE k # key
        BY <4>2, <2>3, <3>2, <3>3 DEF AttestationsAreNewest
      <4>3. QED BY <4>1, <4>2
    <3>7. QED BY <3>5, <3>6 DEF AttestationsAreNewest
  <2>6. CASE ~AcceptsAttestation(attestations[s], a)
    <3>1. attestations'[s] = attestations[s]
      BY <2>1, <2>6 DEF ApplyAttestation
    <3>2. CASE ~ParsesAttestation(a)
      BY <3>1, <3>2, <2>2, <2>3 DEF AttestationsAreNewest
    <3>3. CASE ParsesAttestation(a)
      <4>1. /\ key \in DOMAIN attestations[s]
            /\ ~(a.createdAt > attestations[s][key].createdAt)
        BY <2>6, <3>3 DEF AcceptsAttestation
      <4>2. attestations[s][key] \in Attestations
        BY <4>1, <2>3, <2>4 DEF AttestationsAreNewest
      <4>3. a.createdAt <= attestations[s][key].createdAt
        BY <1>4, <4>1, <4>2, Dates
      <4>4. AttAppliedTo(s)' = AttAppliedTo(s) \cup {a}
        BY <2>2, <3>3
      <4>5. QED BY <2>3, <3>1, <4>1, <4>3, <4>4 DEF AttestationsAreNewest
    <3>4. QED BY <3>2, <3>3
  <2>7. QED BY <2>5, <2>6
<1>6. ASSUME NEW t \in Stores, t # s PROVE AttestationsAreNewest(t)'
  <2>1. attestations'[t] = attestations[t] /\ AttAppliedTo(t)' = AttAppliedTo(t)
    BY <1>1, <1>6 DEF IInv, Shape, AttAppliedTo
  <2>2. QED BY <2>1 DEF IInv, AttestationsAreNewest
<1>7. ASSUME NEW t \in Stores PROVE EntriesAreNewest(t)'
  BY <1>1 DEF IInv, EntriesAreNewest, AppliedTo
<1>8. QED BY <1>2, <1>3, <1>5, <1>6, <1>7 DEF IInv

\* Part of the way through, every store holds newest valid events of what it
\* has been handed so far.
THEOREM PartialReplaysAreNewest == Spec => []IInv
<1>1. IInv /\ [Next]_vars => IInv'
  <2>1. IInv /\ Next => IInv'
    BY ApplyPreserves, ApplyAttestationPreserves DEF Next
  <2>2. IInv /\ UNCHANGED vars => IInv'
    BY DEF vars, histories, IInv, Sources, Shape, EntriesAreNewest,
           AttestationsAreNewest, AppliedTo, AttAppliedTo
  <2>3. QED BY <2>1, <2>2
<1>2. QED BY <1>1, InitEstablishes, PTL DEF Spec

\* No store shows an event that it has not been handed and has not applied.
THEOREM TypeCorrect == Spec => []TypeOK
<1>1. IInv => TypeOK
  BY DEF IInv, Sources, Shape, EntriesAreNewest, AttestationsAreNewest,
         AppliedTo, AttAppliedTo, TypeOK
<1>2. QED BY <1>1, PartialReplaysAreNewest, PTL

-----------------------------------------------------------------------------
(* A clean history determines the projection. *)

\* In a clean history a reduction keeps every valid event that is newest for
\* its place in the projection.
LEMMA NewestSurvives ==
  ASSUME IInv, NoTies, NoneHidden, NEW s \in Stores, NEW e \in history,
         Validates(e),
         \A f \in history :
           Validates(f) /\ EntryKey(f) = EntryKey(e) => f.createdAt <= e.createdAt
  PROVE  e \in given[s]
<1>1. CASE s = "live"
  BY <1>1 DEF IInv, Sources
<1>2. CASE s # "live"
  <2>1. given[s] \in LatestPerAddress(history)
    BY <1>2 DEF IInv, Sources
  <2>2. PICK f \in given[s] : Address(f) = Address(e) /\ Supersedes(f, e)
    BY <2>1, Reductions
  <2>3. f \in history /\ f \in Declarations /\ e \in Declarations
    BY <2>1, Reductions DEF IInv, Sources
  <2>4. f.createdAt >= e.createdAt
    BY <2>2, <2>3, Dates DEF Supersedes
  <2>5. ASSUME f # e PROVE FALSE
    <3>1. f.createdAt < e.createdAt \/ (Validates(f) /\ EntryKey(f) = EntryKey(e))
      BY <2>2, <2>3, <2>5 DEF NoneHidden
    <3>2. Validates(f) /\ EntryKey(f) = EntryKey(e)
      BY <2>3, <2>4, <3>1, Dates
    <3>3. f.createdAt = e.createdAt
      BY <2>3, <2>4, <3>2, Dates
    <3>4. QED BY <2>3, <2>5, <3>2, <3>3 DEF NoTies
  <2>6. QED BY <2>2, <2>5
<1>3. QED BY <1>1, <1>2

LEMMA EntriesAgree ==
  ASSUME IInv, NoTies, NoneHidden, Built("live"), NEW s \in Stores, Built(s)
  PROVE  /\ DOMAIN entries[s] = DOMAIN entries["live"]
         /\ \A k \in DOMAIN entries[s] :
              entries[s][k].event = entries["live"][k].event
<1>1. "live" \in Stores
  BY DEF Stores
<1>2. /\ AppliedTo(s) = {e \in given[s] : Validates(e)}
      /\ AppliedTo("live") = {e \in history : Validates(e)}
      /\ given[s] \subseteq history
      /\ history \subseteq Declarations
  BY <1>1 DEF AppliedTo, Built, IInv, Sources, Shape
<1>3. EntriesAreNewest(s) /\ EntriesAreNewest("live")
  BY <1>1 DEF IInv
<1>4. DOMAIN entries[s] \subseteq DOMAIN entries["live"]
  BY <1>2, <1>3 DEF EntriesAreNewest
<1>5. ASSUME NEW k \in DOMAIN entries["live"]
      PROVE  k \in DOMAIN entries[s] /\ entries[s][k].event = entries["live"][k].event
  <2> DEFINE e == entries["live"][k].event
  <2>1. /\ e \in history /\ Validates(e) /\ EntryKey(e) = k
        /\ \A f \in history :
             Validates(f) /\ EntryKey(f) = k => f.createdAt <= e.createdAt
    BY <1>2, <1>3 DEF EntriesAreNewest
  <2>2. e \in given[s]
    BY <2>1, NewestSurvives
  <2>3. k \in DOMAIN entries[s]
    BY <1>2, <1>3, <2>1, <2>2 DEF EntriesAreNewest
  <2> DEFINE g == entries[s][k].event
  <2>4. /\ g \in history /\ Validates(g) /\ EntryKey(g) = k
        /\ e.createdAt <= g.createdAt
    BY <1>2, <1>3, <2>1, <2>2, <2>3 DEF EntriesAreNewest
  <2>5. g.createdAt <= e.createdAt
    BY <2>1, <2>4
  <2>6. g.createdAt = e.createdAt
    <3> HIDE DEF e, g
    <3>1. e \in Declarations /\ g \in Declarations
      BY <1>2, <2>1, <2>4
    <3>2. QED BY <2>4, <2>5, <3>1, Dates
  <2>7. g = e
    <3> HIDE DEF e, g
    <3>1. QED BY <2>1, <2>4, <2>6 DEF NoTies
  <2>8. QED BY <2>3, <2>7
<1>6. QED BY <1>4, <1>5

LEMMA VerdictsAgree ==
  ASSUME IInv, NoTies, Built("live"), NEW s \in Stores, Built(s)
  PROVE  /\ DOMAIN attestations[s] = DOMAIN attestations["live"]
         /\ \A k \in DOMAIN attestations[s] :
              attestations[s][k] = attestations["live"][k]
<1>1. "live" \in Stores
  BY DEF Stores
<1>2. /\ AttAppliedTo(s) = {a \in attHistory : ParsesAttestation(a)}
      /\ AttAppliedTo("live") = {a \in attHistory : ParsesAttestation(a)}
      /\ attHistory \subseteq Attestations
  BY DEF AttAppliedTo, Built, IInv, Sources
<1>3. AttestationsAreNewest(s) /\ AttestationsAreNewest("live")
  BY <1>1 DEF IInv
<1>4. DOMAIN attestations[s] = DOMAIN attestations["live"]
  BY <1>2, <1>3 DEF AttestationsAreNewest
<1>5. ASSUME NEW k \in DOMAIN attestations[s]
      PROVE  attestations[s][k] = attestations["live"][k]
  <2> DEFINE a == attestations["live"][k]
             b == attestations[s][k]
  <2>1. /\ a \in attHistory /\ ParsesAttestation(a) /\ AttestationKey(a) = k
        /\ b \in attHistory /\ ParsesAttestation(b) /\ AttestationKey(b) = k
        /\ a.createdAt <= b.createdAt /\ b.createdAt <= a.createdAt
    BY <1>2, <1>3, <1>4 DEF AttestationsAreNewest
  <2> HIDE DEF a, b
  <2>2. a.createdAt = b.createdAt
    BY <1>2, <2>1, Dates
  <2>3. a = b
    BY <2>1, <2>2 DEF NoTies
  <2>4. QED BY <2>3 DEF a, b
<1>6. QED BY <1>4, <1>5

\* Where no revisions are confused, sorting the attestations leaves no choice.
LEMMA SortedInOneWay ==
  ASSUME IInv, NoneConfused, NEW s \in Stores
  PROVE  Sorted({attestations[s][k] : k \in DOMAIN attestations[s]}) = {{}}
<1> DEFINE shown == {attestations[s][k] : k \in DOMAIN attestations[s]}
<1>1. ASSUME NEW a \in shown, NEW b \in shown, SortKey(a) = SortKey(b)
      PROVE  a = b
  <2>1. /\ a \in attHistory /\ ParsesAttestation(a)
        /\ b \in attHistory /\ ParsesAttestation(b)
    BY DEF IInv, AttestationsAreNewest, AttAppliedTo
  <2>2. a.pubkey = b.pubkey /\ a.appID \o a.commit = b.appID \o b.commit
    BY <1>1, Zenon DEF SortKey
  <2>3. a.appID = b.appID /\ a.commit = b.commit
    BY <2>1, <2>2, Zenon DEF NoneConfused
  <2>4. AttestationKey(a) = AttestationKey(b)
    BY <2>2, <2>3, Zenon DEF AttestationKey
  <2>5. QED BY <2>4 DEF IInv, AttestationsAreNewest
<1> HIDE DEF shown
<1>2. Tied(shown) = {}
  <2>1. \A p \in shown \X shown : p[1] \in shown /\ p[2] \in shown
    OBVIOUS
  <2>2. \A p \in shown \X shown : SortKey(p[1]) = SortKey(p[2]) => p[1] = p[2]
    BY <1>1, <2>1, Zenon
  <2>3. QED BY <2>2, Zenon DEF Tied
<1>3. Sorted(shown) = {{}}
  BY <1>2 DEF Sorted
<1>4. QED BY <1>3 DEF shown

\* The digest of a clean history is one digest: a rebuild from what the
\* relays return agrees with a store that was handed every event, whatever
\* the events, their number and the orders they were applied and sorted in.
THEOREM CleanHistoriesAlwaysAgree == Spec => []CleanHistoriesAgree
<1>1. IInv => CleanHistoriesAgree
  <2> SUFFICES ASSUME IInv, NoTies, NoneHidden, NoneConfused, Built("live")
               PROVE  \E digest \in Canonical("live") :
                        \A s \in Stores : Built(s) => Canonical(s) = {digest}
    BY DEF CleanHistoriesAgree
  <2> DEFINE shown(t) == [k \in DOMAIN entries[t] |-> entries[t][k].event]
             digest == [entries |-> shown("live"),
                        attestations |-> attestations["live"],
                        sorted |-> {}]
  <2>1. ASSUME NEW s \in Stores, Built(s) PROVE Canonical(s) = {digest}
    <3>1. shown(s) = shown("live")
      BY <2>1, EntriesAgree
    <3>2. attestations[s] = attestations["live"]
      <4>1. IsMap(attestations[s]) /\ IsMap(attestations["live"])
        BY DEF IInv, Shape, Stores
      <4>2. QED BY <2>1, <4>1, VerdictsAgree DEF IsMap
    <3>3. Canonical(s) = {[entries |-> shown(s),
                           attestations |-> attestations[s],
                           sorted |-> order] : order \in {{}}}
      BY SortedInOneWay DEF Canonical
    <3>4. QED BY <3>1, <3>2, <3>3
  <2>2. digest \in Canonical("live")
    BY <2>1 DEF Stores
  <2>3. QED BY <2>1, <2>2
<1>2. QED BY <1>1, PartialReplaysAreNewest, PTL
=============================================================================
