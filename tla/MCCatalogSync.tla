--------------------------- MODULE MCCatalogSync ---------------------------
(***************************************************************************)
(* A small world for CatalogSync: a trusted publisher's declaration, its   *)
(* successor and a release dated like the successor, a later event of a    *)
(* stranger, a verdict and its correction, and a state file left by a      *)
(* daemon that knew the first declaration or that trusted the stranger.    *)
(***************************************************************************)
EXTENDS CatalogSync

Declare(id, pubkey, createdAt) ==
  [id |-> id, kind |-> AppDeclarationKind, pubkey |-> pubkey,
   createdAt |-> createdAt, d |-> "app", name |-> "", repo |-> "r1",
   commit |-> "c1", manifest |-> "m1", content |-> "h1", signed |-> TRUE,
   wellFormed |-> TRUE]

Release(id, pubkey, createdAt) ==
  [Declare(id, pubkey, createdAt) EXCEPT
     !.kind = NpackReleaseKind, !.d = "", !.name = "app", !.manifest = ""]

MCDeclarations ==
  {Declare(1, 1, 1), Declare(2, 1, 2), Declare(3, 2, 3), Release(4, 1, 2)}

Attest(id, createdAt, result) ==
  [id |-> id, pubkey |-> 8, createdAt |-> createdAt, appID |-> "app",
   repo |-> "r1", commit |-> "c1", manifest |-> "m1", content |-> "h1",
   passed |-> {"lint"}, result |-> result, signed |-> TRUE, wellFormed |-> TRUE]

MCAttestations == {Attest(11, 1, "pass"), Attest(12, 2, "fail")}

MCTrusted == {1}

FileWith(e) ==
  [state |-> "whole", entries |-> Put(EmptyMap, EntryKey(e), NewEntry(e)),
   attestations |-> EmptyMap]

MCInitialFiles == {NoFile, FileWith(Declare(1, 1, 1)), FileWith(Declare(3, 2, 3))}
=============================================================================
