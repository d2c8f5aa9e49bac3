---------------------------- MODULE RelayClient ----------------------------
(***************************************************************************)
(* What internal/relay makes of the events a set of relays returns, as     *)
(* pure operators over such a set.                                         *)
(***************************************************************************)
EXTENDS Catalog

\* nostr.ReplaceableKey as FetchAppDeclarations fills it in: no kind, and the
\* d tag even of an npack release, which need not have one.
Address(e) == <<e.pubkey, e.d>>

\* Position in the list of kinds FetchAppDeclarations fetches one by one.
FetchOrder(e) ==
  CASE e.kind = AppDeclarationKind -> 1
    [] e.kind = LegacyAppDeclarationKind -> 2
    [] OTHER -> 3

SupersedesBug(f, e) == f.createdAt <= e.createdAt

\* f keeps its place in the latest map although e has come: e is older, or as
\* old and fetched no earlier.
Supersedes(f, e) ==
  \/ f.createdAt > e.createdAt
  \/ f.createdAt = e.createdAt /\ FetchOrder(f) <= FetchOrder(e)

\* The reductions FetchAppDeclarations may make of the fetched events S: one
\* event per address, chosen before any of them is validated.  Two events of
\* one kind, address and date come in either order: fetchAll sorts what it
\* reconciled, and its fallback returns what the relays sent as it came.
LatestPerAddress(S) ==
  {L \in SUBSET S :
     /\ \A e \in S : \E f \in L : Address(f) = Address(e)
     /\ \A f \in L, e \in S : Address(f) = Address(e) => Supersedes(f, e)
     /\ \A e, f \in L : Address(f) = Address(e) => f = e}
=============================================================================
