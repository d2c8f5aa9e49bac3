------------------------------ MODULE Catalog ------------------------------
(***************************************************************************)
(* The catalogue projection of internal/catalog as pure operators: what an *)
(* event must satisfy to be accepted, the two maps of catalog.Store with   *)
(* the updates Apply, ApplyAttestation and SetLogoResult make to them, and *)
(* the queries AttestationsFor, Resolve and ResolveInstallable, with the   *)
(* trust policies of internal/trust.  CatalogStore turns them into a state *)
(* machine; CatalogSync runs them inside the daemon.                       *)
(*                                                                         *)
(* A signed event is immutable and named by its ID, so the events that     *)
(* exist are constants.  An event keeps the tags the code reads; signed    *)
(* stands for VerifyID and VerifySignature, and wellFormed for every check *)
(* of its parser that looks at nothing but syntax.  Public keys and IDs    *)
(* are naturals because the code compares them as strings; "" is a tag     *)
(* that is absent, and a hash that is not signed.                          *)
(*                                                                         *)
(* An operator whose name ends in Bug is the operator it precedes with a   *)
(* plausible mistake in it.  No specification uses it: it shows that the   *)
(* property it is paired with can tell the two apart.                      *)
(***************************************************************************)
EXTENDS Integers, FiniteSets

CONSTANTS
  Declarations,   \* the declaration events anyone has signed
  Attestations,   \* the attestation events anyone has signed
  Trusted         \* trust.ExplicitPublishers: the allowed publisher keys

AppDeclarationKind == 32267
LegacyAppDeclarationKind == 30078
NpackReleaseKind == 9900

DeclarationEvent ==
  [id : Nat, kind : Int, pubkey : Nat, createdAt : Int, d : STRING,
   name : STRING, repo : STRING, commit : STRING, manifest : STRING,
   content : STRING, signed : BOOLEAN, wellFormed : BOOLEAN]

AttestationEvent ==
  [id : Nat, pubkey : Nat, createdAt : Int, appID : STRING, repo : STRING,
   commit : STRING, manifest : STRING, content : STRING,
   passed : SUBSET STRING, result : {"pass", "fail", "error"},
   signed : BOOLEAN, wellFormed : BOOLEAN]

AttestationPolicy ==
  [mode : {"off", "prefer", "require"}, minimum : Int,
   requiredChecks : SUBSET STRING, trustedVerifiers : SUBSET Nat]

ASSUME DeclarationsAssumption ==
  /\ Declarations \subseteq DeclarationEvent
  /\ \A e, f \in Declarations : e.id = f.id => e = f

ASSUME AttestationsAssumption ==
  /\ Attestations \subseteq AttestationEvent
  /\ \A a, b \in Attestations : a.id = b.id => a = b

ASSUME TrustedAssumption == Trusted \subseteq Nat

-----------------------------------------------------------------------------
(* Go maps. *)

EmptyMap == [k \in {} |-> k]

\* m[k] = v on a Go map.
Put(m, k, v) == [x \in DOMAIN m \cup {k} |-> IF x = k THEN v ELSE m[x]]

-----------------------------------------------------------------------------
(* Declarations: parsing, trust and the map of entries. *)

\* The AppDeclaration each parser extracts.  An npack release names its app
\* in the name tag and signs no manifest hash.
ParseAppDeclaration(e) ==
  [appID |-> e.d, publisher |-> e.pubkey, repository |-> e.repo,
   commit |-> e.commit, manifestHash |-> e.manifest, contentHash |-> e.content]

ParseFromNpackRelease(e) ==
  [appID |-> e.name, publisher |-> e.pubkey, repository |-> e.repo,
   commit |-> e.commit, manifestHash |-> "", contentHash |-> e.content]

DeclarationOf(e) ==
  IF e.kind = NpackReleaseKind THEN ParseFromNpackRelease(e)
                               ELSE ParseAppDeclaration(e)

\* What a parser demands: a kind it reads, a positive date, the app's
\* identifier and, for a declaration, its manifest hash.
Parses(e) ==
  /\ e.kind \in {AppDeclarationKind, LegacyAppDeclarationKind, NpackReleaseKind}
  /\ e.createdAt > 0
  /\ DeclarationOf(e).appID # ""
  /\ e.kind # NpackReleaseKind => e.manifest # ""
  /\ e.wellFormed

ValidatesBug(e) == e.signed /\ Parses(e)

\* ExplicitPublishers.Validate: trusted key, genuine event, parseable.
Validates(e) == e.pubkey \in Trusted /\ e.signed /\ Parses(e)

EntryKey(e) == <<e.pubkey, DeclarationOf(e).appID>>

\* A new map entry.  It keeps the event whose declaration, ID and date it
\* records, and the outcome of the logo extraction: none yet.
NewEntry(e) == [event |-> e, logoHash |-> "", logoChecked |-> FALSE]

AcceptsBug(entries, e) == Validates(e)

AcceptsFirstBug(entries, e) ==
  Validates(e) /\ EntryKey(e) \notin DOMAIN entries

AcceptsTieBug(entries, e) ==
  /\ Validates(e)
  /\ EntryKey(e) \in DOMAIN entries
       => e.createdAt >= entries[EntryKey(e)].event.createdAt

\* Apply changes the map exactly when the event validates and is strictly
\* newer than the entry under its key.
Accepts(entries, e) ==
  /\ Validates(e)
  /\ EntryKey(e) \in DOMAIN entries
       => e.createdAt > entries[EntryKey(e)].event.createdAt

ApplyBug(entries, e) ==
  LET k == EntryKey(e) IN
  IF ~Accepts(entries, e) THEN entries
  ELSE IF k \in DOMAIN entries
         THEN [entries EXCEPT ![k].event = e]
         ELSE Put(entries, k, NewEntry(e))

Apply(entries, e) ==
  IF Accepts(entries, e) THEN Put(entries, EntryKey(e), NewEntry(e))
                         ELSE entries

SetLogoResult(entries, publisher, appID, hash) ==
  IF <<publisher, appID>> \notin DOMAIN entries THEN entries
  ELSE [entries EXCEPT ![<<publisher, appID>>].logoHash = hash,
                       ![<<publisher, appID>>].logoChecked = TRUE]

-----------------------------------------------------------------------------
(* Attestations: parsing and the map of attestations. *)

\* verification.Parse.
ParsesAttestation(a) ==
  /\ a.createdAt > 0
  /\ a.signed
  /\ a.manifest # "" /\ a.content # ""
  /\ a.wellFormed

AttestationKeyBug(a) == <<a.pubkey, a.appID, a.commit, a.createdAt>>

AttestationKey(a) == <<a.pubkey, a.appID, a.commit>>

AcceptsAttestationBug(attestations, a) ==
  /\ ParsesAttestation(a)
  /\ AttestationKey(a) \notin DOMAIN attestations

AcceptsAttestationTieBug(attestations, a) ==
  /\ ParsesAttestation(a)
  /\ AttestationKey(a) \in DOMAIN attestations
       => a.createdAt >= attestations[AttestationKey(a)].createdAt

AcceptsAttestation(attestations, a) ==
  /\ ParsesAttestation(a)
  /\ AttestationKey(a) \in DOMAIN attestations
       => a.createdAt > attestations[AttestationKey(a)].createdAt

ApplyAttestation(attestations, a) ==
  IF AcceptsAttestation(attestations, a)
    THEN Put(attestations, AttestationKey(a), a)
    ELSE attestations

-----------------------------------------------------------------------------
(* Queries. *)

MatchesBug(a, declaration) ==
  /\ a.appID = declaration.appID
  /\ a.commit = declaration.commit

\* An attestation is about a declaration when it names the whole revision:
\* an absent manifest hash is not compared.
Matches(a, declaration) ==
  /\ a.appID = declaration.appID
  /\ a.repo = declaration.repository
  /\ a.commit = declaration.commit
  /\ declaration.manifestHash # "" => a.manifest = declaration.manifestHash
  /\ a.content = declaration.contentHash

\* The slice AttestationsFor returns, indexed by the map keys it ranges over.
AttestationsFor(attestations, declaration) ==
  [k \in {j \in DOMAIN attestations : Matches(attestations[j], declaration)}
     |-> attestations[k]]

Candidates(entries, appID) == {k \in DOMAIN entries : k[2] = appID}

PrecedesBug(entry, other) ==
  \/ entry.event.createdAt > other.event.createdAt
  \/ /\ entry.event.createdAt = other.event.createdAt
     /\ entry.event.pubkey > other.event.pubkey

\* The comparison in Resolve's loop: newer, and among equals the smaller
\* publisher key.
Precedes(entry, other) ==
  \/ entry.event.createdAt > other.event.createdAt
  \/ /\ entry.event.createdAt = other.event.createdAt
     /\ entry.event.pubkey < other.event.pubkey

\* Resolve selects the candidate that precedes all others: a set of at most
\* one declaration, empty when the app is not found.
Resolve(entries, appID) ==
  {DeclarationOf(entries[k].event) :
     k \in {c \in Candidates(entries, appID) :
              \A other \in Candidates(entries, appID) \ {c} :
                Precedes(entries[c], entries[other])}}

\* The configurations NewAttestationPolicy builds a policy from: a mode with
\* an effect on the catalogue needs a trusted verifier.
NewAttestationPolicy(p) ==
  /\ p.minimum >= 0
  /\ p.mode # "off" => p.trustedVerifiers # {}

EffectiveMinimum(p) == IF p.minimum <= 0 THEN 1 ELSE p.minimum

TrustedVerifier(p, verifier) ==
  p.trustedVerifiers = {} \/ verifier \in p.trustedVerifiers

Acceptable(p, a) ==
  IF p.requiredChecks = {} THEN a.result = "pass"
                           ELSE p.requiredChecks \subseteq a.passed

\* Evaluate counts the elements of the slice, whoever signed them.
Evaluate(p, slice) ==
  LET counted == {k \in DOMAIN slice :
                    /\ TrustedVerifier(p, slice[k].pubkey)
                    /\ Acceptable(p, slice[k])}
      verified == Cardinality(counted) >= EffectiveMinimum(p)
  IN  [verified |-> verified, accepted |-> (p.mode = "require" => verified)]

\* The declarations ResolveInstallable returns for an app: at most one.
ResolveInstallable(entries, attestations, appID, p) ==
  {declaration \in Resolve(entries, appID) :
     Evaluate(p, AttestationsFor(attestations, declaration)).accepted}
=============================================================================
