---------------------------- MODULE CatalogStore ----------------------------
(***************************************************************************)
(* catalog.Store as a state machine.  Events reach Apply and               *)
(* ApplyAttestation in any order, any number of times, from relays that    *)
(* are not trusted; a logo extraction outside this repository reports      *)
(* through SetLogoResult.  received and attReceived remember what was      *)
(* handed to the store: no code keeps them, the properties compare the     *)
(* maps with them.                                                         *)
(***************************************************************************)
EXTENDS Catalog

CONSTANTS
  LogoHashes,     \* the hashes of the logos repositories ship
  PolicyInputs    \* the attestation-policy configurations an operator may write

\* A configuration names finitely many verifiers.
ASSUME PolicyInputsAssumption ==
  /\ PolicyInputs \subseteq AttestationPolicy
  /\ \A p \in PolicyInputs : IsFiniteSet(p.trustedVerifiers)

VARIABLES
  entries,       \* Store.entries
  attestations,  \* Store.attestations
  received,      \* the declaration events handed to Apply
  attReceived    \* the attestation events handed to ApplyAttestation

vars == <<entries, attestations, received, attReceived>>

\* What an extraction reports; "" is no usable logo.
LogoResults == LogoHashes \cup {""}

Entry == [event : Declarations, logoHash : LogoResults, logoChecked : BOOLEAN]

AppIDs == {DeclarationOf(e).appID : e \in Declarations}

\* The maps hold what their keys say: an entry's key is its event's trusted
\* publisher and app, an attestation's its verifier, app and commit.
TypeOK ==
  /\ received \subseteq Declarations
  /\ attReceived \subseteq Attestations
  /\ DOMAIN entries \subseteq Trusted \X AppIDs
  /\ \A k \in DOMAIN entries :
       entries[k] \in Entry /\ EntryKey(entries[k].event) = k
  /\ \A k \in DOMAIN attestations :
       attestations[k] \in Attestations /\ AttestationKey(attestations[k]) = k

Init ==
  /\ entries = EmptyMap
  /\ attestations = EmptyMap
  /\ received = {}
  /\ attReceived = {}

ApplyDeclaration(e) ==
  /\ entries' = Apply(entries, e)
  /\ received' = received \cup {e}
  /\ UNCHANGED <<attestations, attReceived>>

ApplyOneAttestation(a) ==
  /\ attestations' = ApplyAttestation(attestations, a)
  /\ attReceived' = attReceived \cup {a}
  /\ UNCHANGED <<entries, received>>

\* The extractor reports on an app of the projection, or on one that has left
\* it, which SetLogoResult ignores.
RecordLogo(publisher, appID, hash) ==
  /\ entries' = SetLogoResult(entries, publisher, appID, hash)
  /\ UNCHANGED <<attestations, received, attReceived>>

Next ==
  \/ \E e \in Declarations : ApplyDeclaration(e)
  \/ \E a \in Attestations : ApplyOneAttestation(a)
  \/ \E publisher \in Trusted, appID \in AppIDs, hash \in LogoResults :
       RecordLogo(publisher, appID, hash)

Spec == Init /\ [][Next]_vars

-----------------------------------------------------------------------------
(* Properties. *)

\* The policies the constructor accepts.
Policies == {p \in PolicyInputs : NewAttestationPolicy(p)}

ValidReceived == {e \in received : Validates(e)}

ParsedReceived == {a \in attReceived : ParsesAttestation(a)}

\* Replay order does not matter to what is projected: whatever has been
\* applied, in whatever order and however often, each publisher's app shows a
\* newest valid event of that publisher, and nothing else is shown
\* (Store.Apply, "older or equal events are harmless replay noise").
NewestWins ==
  /\ DOMAIN entries = {EntryKey(e) : e \in ValidReceived}
  /\ \A k \in DOMAIN entries :
       /\ entries[k].event \in ValidReceived
       /\ EntryKey(entries[k].event) = k
       /\ \A e \in ValidReceived :
            EntryKey(e) = k => e.createdAt <= entries[k].event.createdAt

\* The same of the attestations: the verdict kept for a verifier, app and
\* commit is one that verifier dated latest (Store.ApplyAttestation).
NewestVerdictWins ==
  /\ DOMAIN attestations = {AttestationKey(a) : a \in ParsedReceived}
  /\ \A k \in DOMAIN attestations :
       /\ attestations[k] \in ParsedReceived
       /\ AttestationKey(attestations[k]) = k
       /\ \A a \in ParsedReceived :
            AttestationKey(a) = k => a.createdAt <= attestations[k].createdAt

\* Evaluate counts slice elements where the policy asks for independent
\* verifiers: it may, because for any declaration a trusted publisher has had
\* projected AttestationsFor holds one attestation per verifier at most.
IndependentVerifiers ==
  \A k \in DOMAIN entries :
    LET slice == AttestationsFor(attestations, DeclarationOf(entries[k].event))
    IN  \A i, j \in DOMAIN slice :
          slice[i].pubkey = slice[j].pubkey => i = j

\* v's latest word on the declaration's app and commit is about exactly its
\* revision, and meets policy p.
Vouches(v, declaration, p) ==
  \E a \in ParsedReceived :
    /\ a.pubkey = v
    /\ a.appID = declaration.appID /\ a.commit = declaration.commit
    /\ \A b \in ParsedReceived :
         (b.pubkey = v /\ b.appID = a.appID /\ b.commit = a.commit)
           => b.createdAt <= a.createdAt
    /\ a.repo = declaration.repository
    /\ a.content = declaration.contentHash
    /\ a.manifest = declaration.manifestHash \/ declaration.manifestHash = ""
    /\ IF p.requiredChecks = {} THEN a.result = "pass"
                                ELSE p.requiredChecks \subseteq a.passed

\* Under "require" nothing is installable on the word of too few: as many
\* distinct trusted verifiers as the policy asks for, and at least one, have
\* as their latest word an acceptable verdict on the very revision that would
\* be installed (ResolveInstallable, NewAttestationPolicy's fail-closed rule).
InstallableIsVouchedFor ==
  \A p \in Policies, appID \in AppIDs :
    p.mode = "require" =>
      \A declaration \in ResolveInstallable(entries, attestations, appID, p) :
        LET vouching == {v \in p.trustedVerifiers : Vouches(v, declaration, p)}
        IN  /\ vouching # {}
            /\ Cardinality(vouching) >= p.minimum

\* Every node that has received the same events resolves an app to one
\* declaration: found whenever a valid event for it was received, unique, not
\* older than any valid declaration of it by any trusted publisher, and of the
\* smallest key among the publishers of equally new ones (Store.Resolve, "ties
\* are resolved by publisher key so all nodes expose the same deterministic
\* result").
ResolvesToTheNewest ==
  \A appID \in AppIDs :
    LET valid == {e \in ValidReceived : DeclarationOf(e).appID = appID}
    IN  /\ valid # {} => Cardinality(Resolve(entries, appID)) = 1
        /\ \A declaration \in Resolve(entries, appID) :
             \E e \in valid :
               /\ DeclarationOf(e) = declaration
               /\ \A f \in valid :
                    \/ f.createdAt < e.createdAt
                    \/ f.createdAt = e.createdAt /\ e.pubkey <= f.pubkey

\* A declaration that replaces another starts without its predecessor's logo,
\* and an inspection of the repository is never forgotten otherwise
\* (TestStoreResetLogoWhenDeclarationChanges, Entry.LogoChecked).
LogoFollowsDeclaration ==
  [][\A k \in DOMAIN entries :
       IF entries'[k].event = entries[k].event
         THEN entries[k].logoChecked => entries'[k].logoChecked
         ELSE ~entries'[k].logoChecked /\ entries'[k].logoHash = ""]_vars

\* The declarations and the attestations are each a newest-wins register.
DeclarationRegister ==
  INSTANCE NewestRegister WITH
    Event <- Declarations,
    Accepted <- {e \in Declarations : Validates(e)},
    KeyOf <- [e \in Declarations |-> EntryKey(e)],
    At <- [e \in Declarations |-> e.createdAt],
    offered <- received,
    view <- [k \in DOMAIN entries |-> entries[k].event]

AttestationRegister ==
  INSTANCE NewestRegister WITH
    Event <- Attestations,
    Accepted <- {a \in Attestations : ParsesAttestation(a)},
    KeyOf <- [a \in Attestations |-> AttestationKey(a)],
    At <- [a \in Attestations |-> a.createdAt],
    offered <- attReceived,
    view <- attestations

\* Store.entries implements the newest-wins register: entries never move to
\* an event that is not strictly newer, and never disappear.
ImplementsDeclarationRegister == DeclarationRegister!Spec

\* Store.attestations implements the newest-wins register.
ImplementsAttestationRegister == AttestationRegister!Spec
=============================================================================
