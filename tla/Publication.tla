---------------------------- MODULE Publication ----------------------------
(***************************************************************************)
(* From what people mean to what a node shows: publishers build and sign   *)
(* declarations, which they may announce, verifiers sign what a CI run     *)
(* found, curators endorse, other tools publish releases and legacy        *)
(* declarations, and a node that is given each event once reads it and     *)
(* projects it.                                                            *)
(* Beside each event the variables keep what was meant by it and what is   *)
(* read of it, so that the properties can compare the two.                 *)
(*                                                                         *)
(* Events are dated apart: equal dates, and late or repeated events, are   *)
(* CatalogStore's matter.                                                  *)
(***************************************************************************)
EXTENDS Protocol, Curation

CONSTANTS
  Declaring,          \* the publishers' keys, each with a Metadata it declares
  Foreign,            \* the events other tools sign, without ID and date
  Testing,            \* the verifiers' keys, each with what a CI run found, and
                      \* whether it is read from a result file
  Endorsing,          \* the curators' keys, each with what it may claim of an app
  CurationPolicies,   \* the inputs of curation.NewPolicy
  InstallPolicies,    \* the inputs of trust.NewAttestationPolicy
  MaxEvents           \* bound on the declarations, attestations and foreign events

ASSUME BoundAssumption == MaxEvents \in Nat

ASSUME DeclaringAssumption == Declaring \subseteq [key : Nat, metadata : Metadata]

ASSUME ForeignAssumption == \A template \in Foreign : template.pubkey \in Nat

\* Strings are opaque to a proof: one with a colon in it is not empty.
ASSUME TestingAssumption ==
  \A t \in Testing : t.result.appID \o ":" \o t.result.commit # Blank

ASSUME CurationPoliciesAssumption ==
  CurationPolicies \subseteq [trustedCurators : SUBSET Nat, minimumEndorsements : Int]

VARIABLES
  now,            \* nostr.Now
  declared,       \* the declarations built, from which Metadata
  foreign,        \* the foreign events published
  attested,       \* the attestations built, from which CI results
  endorsed,       \* the endorsement events
  entries,        \* the node's Store.entries
  attestations    \* the node's Store.attestations

node == <<entries, attestations>>
vars == <<now, declared, foreign, attested, endorsed, node>>

Published == declared \cup foreign

Identifiers == {k[2] : k \in DOMAIN entries}

TypeOK ==
  /\ now \in 0..MaxEvents
  /\ now = Cardinality(Published) + Cardinality(attested)
  /\ \A x \in declared : ValidMetadata(x.input) /\ x.event.id \in 1..now
  /\ \A x \in attested : ValidAttestation(x.input) /\ x.event.id \in 1..now
  /\ \A e \in endorsed : \E c \in Endorsing : e.pubkey = c.key /\ e.claim = c.claim
  /\ \A x \in foreign : x.input \in Foreign /\ x.event.id \in 1..now
  /\ \A k \in DOMAIN entries :
       Store!EntryKey(entries[k].event) = k
       /\ \E x \in Published : entries[k].event = x.read
  /\ \A k \in DOMAIN attestations :
       Store!AttestationKey(attestations[k]) = k
       /\ \E x \in attested : attestations[k] = x.read

Init ==
  /\ now = 0
  /\ declared = {} /\ foreign = {} /\ attested = {} /\ endorsed = {}
  /\ entries = Store!EmptyMap /\ attestations = Store!EmptyMap

Tick == now < MaxEvents /\ now' = now + 1

Declare(key, m) ==
  /\ Tick
  /\ ValidMetadata(m)
  /\ LET e == BuildDeclaration(m, key, now + 1) IN
       /\ declared' = declared \cup {[event |-> e, input |-> m, read |-> Read(e)]}
       /\ entries' = Store!Apply(entries, Read(e))
  /\ UNCHANGED <<foreign, attested, endorsed, attestations>>

PublishForeign(template) ==
  /\ Tick
  /\ LET e == [id |-> now + 1, kind |-> template.kind, pubkey |-> template.pubkey,
               createdAt |-> now + 1, tags |-> template.tags,
               content |-> template.content, signed |-> TRUE] IN
       /\ foreign' = foreign \cup {[event |-> e, input |-> template, read |-> Read(e)]}
       /\ entries' = Store!Apply(entries, Read(e))
  /\ UNCHANGED <<declared, attested, endorsed, attestations>>

AttestBug(verifier, r, file) ==
  /\ Tick
  /\ file => ValidResult(r)
  /\ ValidAttestation(r)
  /\ LET a == BuildAttestation(r, verifier, now + 1) IN
       /\ attested' = attested \cup {[event |-> a, input |-> r, read |-> ReadAttestation(a)]}
       /\ attestations' = Store!Put(attestations, <<verifier, r.appID, r.commit>>,
                                    [ReadAttestation(a) EXCEPT !.createdAt = now])
  /\ UNCHANGED <<declared, foreign, endorsed, entries>>

\* A tool that signs results reads their file with ciresult.Parse; another one
\* may hand its own arguments to verification.Build.
Attest(verifier, r, file) ==
  /\ Tick
  /\ file => ValidResult(r)
  /\ ValidAttestation(r)
  /\ LET a == BuildAttestation(r, verifier, now + 1) IN
       /\ attested' = attested \cup {[event |-> a, input |-> r, read |-> ReadAttestation(a)]}
       /\ attestations' = Store!ApplyAttestation(attestations, ReadAttestation(a))
  /\ UNCHANGED <<declared, foreign, endorsed, entries>>

\* Of an app the curator sees in the catalogue.
Endorse(curator, k, claim) ==
  /\ CanEndorse(k[2], claim)
  /\ BuildEndorsement(k[1], k[2], claim, curator) \notin endorsed
  /\ endorsed' = endorsed \cup {BuildEndorsement(k[1], k[2], claim, curator)}
  /\ UNCHANGED <<now, declared, foreign, attested, node>>

Next ==
  \/ \E d \in Declaring : Declare(d.key, d.metadata)
  \/ \E template \in Foreign : PublishForeign(template)
  \/ \E t \in Testing : Attest(t.key, t.result, t.file)
  \/ \E c \in Endorsing, k \in DOMAIN entries : Endorse(c.key, k, c.claim)

Spec == Init /\ [][Next]_vars

-----------------------------------------------------------------------------
(* Properties. *)

\* What a parser accepts beyond what the builder has checked.
Proper(m) ==
  /\ m.appID \in AppIDs /\ m.commit \in Commits
  /\ m.packagePath \in PackagePaths \cup {Blank}

\* A declaration that is read at all is read as its publisher meant it, field
\* by field; one with proper metadata is read and projected, unless a later
\* one of the same app has been (BuildDeclaration, ParseAppDeclaration, Apply).
DeclaredAsMeant ==
  \A x \in declared :
    LET k == <<x.event.pubkey, x.input.appID>>
        read == ParseEvent(x.event)
    IN
    /\ ParsesEvent(x.event) => \A field \in DOMAIN x.input : read[field] = x.input[field]
    /\ (Proper(x.input) /\ x.event.pubkey \in Trusted) =>
         k \in DOMAIN entries /\ entries[k].event.createdAt >= x.event.createdAt

\* The verifiers p trusts whose last CI run among some, on the app and commit
\* of a declaration, was about exactly its revision, and ended as p asks.
Testers(p, declaration, runs) ==
  {v \in p.trustedVerifiers :
     \E x \in runs :
       LET r == x.input IN
       /\ x.event.pubkey = v
       /\ r.appID = declaration.appID /\ r.commit = declaration.commit
       /\ r.repository = declaration.repository /\ r.content = declaration.contentHash
       /\ declaration.manifestHash \in {Blank, r.manifest}
       /\ IF p.requiredChecks = {}
            THEN r.result = "pass"
            ELSE \A name \in p.requiredChecks :
                   name \in DOMAIN r.checks /\ r.checks[name] = "pass"
       /\ \A y \in runs :
            (y.event.pubkey = v /\ y.input.appID = r.appID /\ y.input.commit = r.commit)
              => y.event.createdAt <= x.event.createdAt}

\* FetchReplaceable's choice among what the relays answer.
FetchReplaceable(answers) == {e \in answers : \A f \in answers : f.createdAt <= e.createdAt}

\* The releases the relays may answer with when attest-release asks for one.
Releases(publisher, identifier) ==
  {e \in {x.read : x \in Published} :
     e.kind = Store!NpackReleaseKind /\ e.pubkey = publisher /\ e.d = identifier}

\* The orders of a finite set: sequences of its elements, each once.
Orders(S) == {f \in [1..Cardinality(S) -> S] : \A i, j \in DOMAIN f : f[i] = f[j] => i = j}

\* The attestations of a fresh store after each of the runs in an answer.
Collected(answer) ==
  LET after[n \in 0..Len(answer)] ==
        IF n = 0 THEN Store!EmptyMap
                 ELSE Store!ApplyAttestation(after[n - 1], answer[n].read)
  IN  after

\* attest-release: the newest release of an answer goes into a fresh store, and
\* so do the attestations that the relays return.  There is a decision unless
\* the release is refused, or read as one of another name.
AttestRelease(p, name, answers, answer) ==
  LET Resolved(release) == Store!Resolve(Store!Apply(Store!EmptyMap, release), name)
      collected == Collected(answer)[Len(answer)]
  IN
  {[declaration |-> declaration,
    decision |-> Store!Evaluate(p, Store!AttestationsFor(collected, declaration))] :
     declaration \in UNION {Resolved(release) : release \in FetchReplaceable(answers)}}

\* The chain from CI to installation, both ways: under "require" the app that
\* is resolved is installable exactly if enough trusted verifiers have last
\* found its revision good, and attest-release says the same of any release and
\* of the runs it is told of, which may be some only and come in any order
\* (ciresult, verification.Build and Parse, ResolveInstallable, attest-release).
TestedIsAccepted ==
  \A p \in {q \in InstallPolicies : Store!NewAttestationPolicy(q) /\ q.mode = "require"} :
    LET Enough(declaration, runs) ==
          Cardinality(Testers(p, declaration, runs)) >= Store!EffectiveMinimum(p)
    IN  /\ \A appID \in Identifiers :
             \A declaration \in Store!Resolve(entries, appID) :
               Store!ResolveInstallable(entries, attestations, appID, p) # {}
                 <=> Enough(declaration, attested)
        /\ \A x \in Published, told \in SUBSET attested :
             \A answers \in SUBSET Releases(x.read.pubkey, x.read.d), answer \in Orders(told) :
               \A report \in AttestRelease(p, x.read.name, answers, answer) :
                 report.decision.accepted <=> Enough(report.declaration, told)

\* A declaration is canonical only if trusted curators who recommend or have
\* tested it are more than those of every other candidate, and as many as the
\* policy asks for; whatever the order of the candidates (SelectCanonical).
SelectsTheUniqueBest ==
  \A p \in {q \in CurationPolicies : NewPolicy(q)}, appID \in Identifiers :
    LET candidates == {Store!DeclarationOf(entries[k].event) :
                         k \in Store!Candidates(entries, appID)}
        accepted == {Endorsement(e) : e \in {f \in endorsed : Accept(p, f)}}
        Votes(c) == Cardinality({curator \in p.trustedCurators :
                      \E claim \in {"recommend", "tested"} :
                        BuildEndorsement(c.publisher, appID, claim, curator) \in endorsed})
        best == {c \in candidates :
                   /\ Votes(c) >= p.minimumEndorsements
                   /\ \A d \in candidates \ {c} : Votes(d) < Votes(c)}
    IN  \A order \in Orders(candidates) :
          SelectCanonical(p, order, accepted) = best

AddressOf(e) == <<e.kind, e.pubkey, FirstTag(e.tags, "d")>>

\* Of the events at the address of a note that can be read, the newest says
\* what the note says.
LeadsTo(note) ==
  \E x \in Published :
    /\ AddressOf(x.event) = note.address
    /\ FirstTag(x.event.tags, "version") = note.version
    /\ FirstTag(x.event.tags, "commit") = note.commit
    /\ \A y \in Published :
         (AddressOf(y.event) = note.address /\ ParsesEvent(y.event))
           => y.event.createdAt <= x.event.createdAt

\* What a publisher has declared can be announced, and the note names what it
\* meant, whether built from the event or from what is read of it
\* (BuildAnnouncement, "the note can never drift from what was actually
\* declared").  A note on a record that the node keeps of a kind-32267 event,
\* whoever wrote its tags, leads to the revision of the record; on a record of
\* a release or of a legacy declaration it leads nowhere, or to another one
\* (BuildAnnouncementForDeclaration, "The never-drift property still holds").
NotesDoNotDrift ==
  /\ \A x \in declared :
       LET key == x.event.pubkey
           note == BuildAnnouncement(x.event, key, now)
       IN  /\ CanAnnounce(x.event, key)
           /\ note.address = <<Store!AppDeclarationKind, key, x.input.appID>>
           /\ note.version = x.input.version /\ note.commit = x.input.commit
           /\ BuildAnnouncementForDeclaration(ParseEvent(x.event), key, now) = note
  /\ \A x \in Published, key \in Trusted :
       LET record == ParseEvent(x.event) IN
       (/\ CanAnnounceRecord(record, key)
        /\ x.event.kind = Store!AppDeclarationKind
        /\ \E k \in DOMAIN entries : entries[k].event = x.read)
         => LeadsTo(BuildAnnouncementForDeclaration(record, key, now))
=============================================================================
