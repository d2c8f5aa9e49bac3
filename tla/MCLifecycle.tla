----------------------------- MODULE MCLifecycle -----------------------------
(***************************************************************************)
(* Two processes and an operator who trusts one publisher or two.  The     *)
(* first publisher has replaced a declaration, the second has one; a       *)
(* verifier has one verdict.                                               *)
(***************************************************************************)
EXTENDS Lifecycle, TLC

Declare(id, pubkey, createdAt) ==
  [id |-> id, kind |-> AppDeclarationKind, pubkey |-> pubkey,
   createdAt |-> createdAt, d |-> "app", name |-> "", repo |-> "r1",
   commit |-> "c1", manifest |-> "m1", content |-> "h1", signed |-> TRUE,
   wellFormed |-> TRUE]

MCDeclarations == {Declare(1, 1, 1), Declare(2, 1, 2), Declare(3, 2, 1)}

MCAttestations ==
  {[id |-> 11, pubkey |-> 8, createdAt |-> 1, appID |-> "app", repo |-> "r1",
    commit |-> "c1", manifest |-> "m1", content |-> "h1", passed |-> {"lint"},
    result |-> "pass", signed |-> TRUE, wellFormed |-> TRUE]}

MCTrusted == {1, 2}

MCLists == {{1}, {1, 2}}

Symmetry == Permutations(Processes)
=============================================================================
