--------------------------- MODULE CatalogReplay ---------------------------
(***************************************************************************)
(* Stores built from one relay history.  The "live" store has been handed  *)
(* every event of the history, in some order, as a daemon that never       *)
(* missed one has; each rebuilt store is handed what FetchAppDeclarations  *)
(* and FetchAttestations return for the history (Rebuild), in an order of  *)
(* its own: the declarations leave the client in the order of a Go map.    *)
(* Canonical digests tell `verify' whether two of them agree.              *)
(***************************************************************************)
EXTENDS RelayClient, Sequences

Stores == {"live", "rebuilt", "rebuiltAgain"}

VARIABLES
  history,          \* the declaration events the relays hold
  attHistory,       \* the attestation events the relays hold
  given,            \* given[s]: the declarations handed to store s
  pending,          \* pending[s]: declarations still to be applied to store s
  attPending,       \* attPending[s]: attestations still to be applied
  entries,          \* entries[s]: Store.entries of store s
  attestations      \* attestations[s]: Store.attestations of store s

histories == <<history, attHistory, given>>
vars == <<histories, pending, attPending, entries, attestations>>

TypeOK ==
  /\ history \subseteq Declarations
  /\ attHistory \subseteq Attestations
  /\ \A s \in Stores :
       /\ given[s] \subseteq history /\ pending[s] \subseteq given[s]
       /\ attPending[s] \subseteq attHistory
       /\ \A k \in DOMAIN entries[s] :
            entries[s][k].event \in given[s] \ pending[s]
       /\ \A k \in DOMAIN attestations[s] :
            attestations[s][k] \in attHistory \ attPending[s]

\* Each rebuild makes its own reduction of the declarations.
Init ==
  /\ history \in SUBSET Declarations
  /\ attHistory \in SUBSET Attestations
  /\ \E L, M \in LatestPerAddress(history) :
       given = [s \in Stores |-> CASE s = "live" -> history
                                   [] s = "rebuilt" -> L
                                   [] s = "rebuiltAgain" -> M]
  /\ pending = given
  /\ attPending = [s \in Stores |-> attHistory]
  /\ entries = [s \in Stores |-> EmptyMap]
  /\ attestations = [s \in Stores |-> EmptyMap]

\* A fresh store that shares the map of another.
ApplyOneBug(s, e) ==
  /\ entries' = [t \in Stores |-> Apply(entries[t], e)]
  /\ pending' = [pending EXCEPT ![s] = @ \ {e}]
  /\ UNCHANGED <<histories, attPending, attestations>>

ApplyOne(s, e) ==
  /\ entries' = [entries EXCEPT ![s] = Apply(@, e)]
  /\ pending' = [pending EXCEPT ![s] = @ \ {e}]
  /\ UNCHANGED <<histories, attPending, attestations>>

\* A rebuild runs BootstrapAttestations when Bootstrap has returned; a daemon
\* reads attestations between declarations.
ApplyOneAttestation(s, a) ==
  /\ s # "live" => pending[s] = {}
  /\ attestations' = [attestations EXCEPT ![s] = ApplyAttestation(@, a)]
  /\ attPending' = [attPending EXCEPT ![s] = @ \ {a}]
  /\ UNCHANGED <<histories, pending, entries>>

Next ==
  \E s \in Stores :
    \/ \E e \in pending[s] : ApplyOne(s, e)
    \/ \E a \in attPending[s] : ApplyOneAttestation(s, a)

Spec == Init /\ [][Next]_vars

-----------------------------------------------------------------------------

\* What attestationSnapshot compares: the parts of the map key joined without
\* separators.  A verifier's key has a fixed length, an app's identifier and a
\* commit have not.
SortKey(a) == <<a.pubkey, a.appID \o a.commit>>

Tied(S) == {p \in S \X S : p[1] # p[2] /\ SortKey(p[1]) = SortKey(p[2])}

\* The orders in which a sort by SortKey may leave S: those who tie come in
\* any order, as the map handed them over.  An order is told by the pairs
\* <<a, b>> of them of which a comes first.
Sorted(S) ==
  {first \in SUBSET Tied(S) :
     /\ \A p \in Tied(S) : p \in first <=> <<p[2], p[1]>> \notin first
     /\ \A p, q \in first :
          (p[2] = q[1] /\ p[1] # q[2]) => <<p[1], q[2]>> \in first}

\* What Canonical may digest: every entry without its logo fields, in the
\* order of their keys, and the attestations as they were sorted.
Canonical(s) ==
  {[entries |-> [k \in DOMAIN entries[s] |-> entries[s][k].event],
    attestations |-> attestations[s],
    sorted |-> order] :
     order \in Sorted({attestations[s][k] : k \in DOMAIN attestations[s]})}

Built(s) == pending[s] = {} /\ attPending[s] = {}

\* No two valid events compete for one place in the projection with one date.
NoTies ==
  /\ \A e, f \in history :
       (Validates(e) /\ Validates(f) /\ EntryKey(e) = EntryKey(f) /\ e # f)
         => e.createdAt # f.createdAt
  /\ \A a, b \in attHistory :
       /\ ParsesAttestation(a) /\ ParsesAttestation(b)
       /\ AttestationKey(a) = AttestationKey(b) /\ a # b
       => a.createdAt # b.createdAt

\* No valid event shares its address with one that is as new: in particular no
\* release without a d tag, and no event that will not validate, hides it.
NoneHidden ==
  \A e, f \in history :
    (Validates(e) /\ e # f /\ Address(e) = Address(f))
      => f.createdAt < e.createdAt \/ (Validates(f) /\ EntryKey(f) = EntryKey(e))

\* No verifier has attested two revisions whose identifiers and commits read
\* the same once they are joined: app with commit 1ab..., app1 with ab....
NoneConfused ==
  \A a, b \in attHistory :
    /\ ParsesAttestation(a) /\ ParsesAttestation(b)
    /\ a.pubkey = b.pubkey /\ a.appID \o a.commit = b.appID \o b.commit
    => a.appID = b.appID /\ a.commit = b.commit

\* Stores built from the same relay history have one digest, and the same,
\* whatever orders their events came in and although the live one saw events
\* the others were never given, provided no two of the events tie, none is
\* hidden and no two revisions are confused: then `verify' reports no drift
\* of a daemon that missed nothing.
CleanHistoriesAgree ==
  (NoTies /\ NoneHidden /\ NoneConfused /\ Built("live")) =>
    \E digest \in Canonical("live") :
      \A s \in Stores : Built(s) => Canonical(s) = {digest}

\* The claim of Canonical's comment as it stands, of two rebuilds: whatever
\* each of them digests, it is the same.
RebuildsAgree ==
  (Built("rebuilt") /\ Built("rebuiltAgain")) =>
    \A c \in Canonical("rebuilt"), d \in Canonical("rebuiltAgain") : c = d
=============================================================================
