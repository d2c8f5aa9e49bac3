-------------------------- MODULE MCCatalogReplay --------------------------
(***************************************************************************)
(* Histories for CatalogReplay: every subset of a publisher's declaration, *)
(* its successor, a release of the same app dated like the successor, a    *)
(* release of another app that shares the empty address with it, and a     *)
(* later event at the declarations' address that does not parse; with two  *)
(* verdicts of one verifier, and its verdict on a revision that reads the  *)
(* same as theirs once identifier and commit are joined.                   *)
(***************************************************************************)
EXTENDS CatalogReplay

Declare(id, createdAt) ==
  [id |-> id, kind |-> AppDeclarationKind, pubkey |-> 1, createdAt |-> createdAt,
   d |-> "app", name |-> "", repo |-> "r1", commit |-> "c1", manifest |-> "m1",
   content |-> "h1", signed |-> TRUE, wellFormed |-> TRUE]

Release(id, createdAt, app) ==
  [Declare(id, createdAt) EXCEPT !.kind = NpackReleaseKind, !.d = "",
                                 !.name = app, !.manifest = ""]

MCDeclarations ==
  { Declare(1, 1), Declare(2, 2), Release(3, 2, "app"), Release(4, 3, "other"),
    [Declare(5, 3) EXCEPT !.wellFormed = FALSE] }

Attest(id, createdAt, result) ==
  [id |-> id, pubkey |-> 8, createdAt |-> createdAt, appID |-> "app",
   repo |-> "r1", commit |-> "c1", manifest |-> "m1", content |-> "h1",
   passed |-> {"lint"}, result |-> result, signed |-> TRUE, wellFormed |-> TRUE]

MCVerdicts == {Attest(11, 1, "pass"), Attest(12, 2, "fail")}

MCAttestations ==
  MCVerdicts \cup
    {[Attest(13, 1, "pass") EXCEPT !.appID = "appc", !.commit = "1"]}

MCTrusted == {1}
=============================================================================
