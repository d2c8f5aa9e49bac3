--------------------------- MODULE MCCatalogStore ---------------------------
(***************************************************************************)
(* A small world for CatalogStore: two trusted publishers and a stranger,  *)
(* one app, three verifiers of which one policy trusts two.  The events    *)
(* were chosen for the cases that matter: equally dated declarations of    *)
(* one publisher and of two, a release without a manifest hash and an      *)
(* event the stranger signed (MCCatalogReplay has one that does not        *)
(* parse); verdicts that change their mind, with equal dates too, name     *)
(* another repository or another content hash, or are forged.              *)
(***************************************************************************)
EXTENDS CatalogStore

Declare(id, kind, pubkey, createdAt, repo) ==
  [id |-> id, kind |-> kind, pubkey |-> pubkey, createdAt |-> createdAt,
   d |-> IF kind = NpackReleaseKind THEN "" ELSE "app",
   name |-> IF kind = NpackReleaseKind THEN "app" ELSE "",
   repo |-> repo, commit |-> "c1",
   manifest |-> IF kind = NpackReleaseKind THEN "" ELSE "m1",
   content |-> "h1", signed |-> TRUE, wellFormed |-> TRUE]

MCDeclarations ==
  { Declare(1, AppDeclarationKind, 1, 1, "r1"),
    Declare(2, NpackReleaseKind, 1, 2, "r1"),
    Declare(3, LegacyAppDeclarationKind, 1, 2, "r2"),
    Declare(4, AppDeclarationKind, 2, 2, "r1"),
    Declare(5, AppDeclarationKind, 3, 3, "r1") }

Attest(id, pubkey, createdAt, repo, result) ==
  [id |-> id, pubkey |-> pubkey, createdAt |-> createdAt, appID |-> "app",
   repo |-> repo, commit |-> "c1", manifest |-> "m1", content |-> "h1",
   passed |-> IF result = "pass" THEN {"lint", "package_check"}
                                 ELSE {"package_check"},
   result |-> result, signed |-> TRUE, wellFormed |-> TRUE]

MCAttestations ==
  { Attest(11, 8, 1, "r1", "pass"),
    Attest(12, 8, 2, "r1", "fail"),
    Attest(13, 8, 2, "r2", "pass"),
    Attest(14, 9, 1, "r1", "pass"),
    [Attest(15, 9, 2, "r1", "pass") EXCEPT !.content = "h2"],
    Attest(16, 7, 1, "r1", "pass"),
    [Attest(17, 9, 4, "r1", "fail") EXCEPT !.signed = FALSE] }

MCTrusted == {1, 2}

MCPolicyInputs ==
  [mode : {"off", "prefer", "require"}, minimum : {0, 1, 2},
   requiredChecks : {{}, {"package_check"}}, trustedVerifiers : {{}, {8, 9}}]

MCLogoHashes == {"logo"}
=============================================================================
