------------------------------ MODULE Curation ------------------------------
(***************************************************************************)
(* internal/curation as operators: endorsement events, the policy that     *)
(* accepts them, the tally of distinct curators, and SelectCanonical's     *)
(* loop over the candidates.  An endorsement's target is the address the   *)
(* code writes as "kind:publisher:app".                                    *)
(***************************************************************************)
EXTENDS Integers, FiniteSets, Sequences

EndorsementKind == 30079
TargetKind == 32267

CanEndorse(appID, claim) == appID # "" /\ claim # ""

BuildEndorsement(publisher, appID, claim, curator) ==
  [kind |-> EndorsementKind, pubkey |-> curator,
   target |-> <<TargetKind, publisher, appID>>, claim |-> claim, signed |-> TRUE]

ParsesEndorsement(e) ==
  /\ e.kind = EndorsementKind /\ e.signed
  /\ e.target[1] = TargetKind /\ e.target[3] # ""

NewPolicy(p) == p.minimumEndorsements >= 1

\* Policy.Accept, and what it returns.
Accept(p, e) == ParsesEndorsement(e) /\ e.pubkey \in p.trustedCurators

Endorsement(e) ==
  [curator |-> e.pubkey, publisher |-> e.target[2], appID |-> e.target[3],
   claim |-> e.claim]

\* trustedEndorsementCounts: one vote per curator, for claims with weight.
EndorsementCount(endorsements, publisher, appID) ==
  Cardinality({x.curator : x \in {y \in endorsements :
                                    /\ y.publisher = publisher /\ y.appID = appID
                                    /\ y.claim \in {"recommend", "tested"}}})

ConsiderBug(p, endorsements, s, candidate) ==
  LET count == EndorsementCount(endorsements, candidate.publisher, candidate.appID) IN
  IF count < p.minimumEndorsements \/ count < s.best THEN s
  ELSE IF count = s.best THEN [s EXCEPT !.tied = TRUE]
  ELSE [s EXCEPT !.selected = {candidate}, !.best = count]

\* One turn of SelectCanonical's loop.
Consider(p, endorsements, s, candidate) ==
  LET count == EndorsementCount(endorsements, candidate.publisher, candidate.appID) IN
  IF count < p.minimumEndorsements \/ count < s.best THEN s
  ELSE IF count = s.best THEN [s EXCEPT !.tied = TRUE]
  ELSE [selected |-> {candidate}, best |-> count, tied |-> FALSE]

NothingSelected == [selected |-> {}, best |-> 0, tied |-> FALSE]

\* SelectCanonical's variables after each turn of its loop.
Turns(p, candidates, endorsements) ==
  LET after[n \in 0..Len(candidates)] ==
        IF n = 0 THEN NothingSelected
                 ELSE Consider(p, endorsements, after[n - 1], candidates[n])
  IN  after

\* A set of at most one candidate; empty when no selection is safe.
SelectCanonical(p, candidates, endorsements) ==
  LET s == Turns(p, candidates, endorsements)[Len(candidates)]
  IN  IF s.tied THEN {} ELSE s.selected
=============================================================================
