--------------------------- MODULE CurationProofs ---------------------------
(***************************************************************************)
(* What SelectCanonical's loop computes, for any list of candidates.       *)
(*                                                                         *)
(* An induction over the turns of the loop is made by looking at the first *)
(* turn for which a statement fails: every set of naturals that is not     *)
(* empty has a least element.                                              *)
(***************************************************************************)
EXTENDS Curation, FiniteSetTheorems, TLAPS

\* A set of naturals has a least element, unless it is empty.
LEMMA NatMin ==
  ASSUME NEW T, T \subseteq Nat, T # {}
  PROVE  \E x \in T : \A y \in T : x <= y
<1> DEFINE R == StrictSubsetOrdering(Nat)
           segments == {1..n : n \in T}
<1>1. IsWellFoundedOn(R, FiniteSubsetsOf(Nat))
  BY FS_StrictSubsetOrderingWellFounded
<1>2. segments \subseteq FiniteSubsetsOf(Nat) /\ segments # {}
  <2>1. ASSUME NEW n \in T PROVE 1..n \subseteq Nat /\ IsFiniteSet(1..n)
    BY FS_Interval
  <2>2. QED BY <2>1 DEF FiniteSubsetsOf
<1>3. PICK s \in segments : \A r \in segments : <<r, s>> \notin R
  <2> HIDE DEF R, segments
  <2>1. QED BY <1>1, <1>2, WFMin
<1>4. PICK x \in T : s = 1..x
  OBVIOUS
<1>5. ASSUME NEW y \in T, y < x PROVE FALSE
  <2>1. 1..y \subseteq 1..x /\ 1..y # 1..x
    <3>1. x \in 1..x /\ x \notin 1..y
      BY <1>5
    <3>2. QED BY <1>5, <3>1
  <2>2. <<1..y, s>> \in R
    BY <2>1, <1>4 DEF StrictSubsetOrdering
  <2>3. QED BY <2>2, <1>3
<1>6. QED BY <1>5

\* The variables of the loop after each of the first m turns.
IsLoop(after, m, p, candidates, endorsements) ==
  after = [n \in 0..m |->
             IF n = 0 THEN NothingSelected
                      ELSE Consider(p, endorsements, after[n - 1], candidates[n])]

\* The loop can be run to any turn.
LEMMA LoopExists ==
  ASSUME NEW p, NEW candidates, NEW endorsements, NEW m \in Nat
  PROVE  \E after : IsLoop(after, m, p, candidates, endorsements)
<1> DEFINE Runs(n) == \E after : IsLoop(after, n, p, candidates, endorsements)
           T == {n \in Nat : ~ Runs(n)}
<1> SUFFICES ASSUME T # {} PROVE FALSE
  OBVIOUS
<1>1. PICK x \in T : \A y \in T : x <= y
  <2> HIDE DEF T
  <2>1. T \subseteq Nat
    BY DEF T
  <2>2. QED BY <2>1, NatMin
<1>2. CASE x = 0
  <2> DEFINE f == [n \in 0..0 |-> NothingSelected]
  <2>1. IsLoop(f, 0, p, candidates, endorsements)
    BY DEF IsLoop
  <2>2. QED BY <2>1, <1>2
<1>3. CASE x # 0
  <2>1. x - 1 \in Nat /\ x - 1 \notin T
    BY <1>1, <1>3
  <2>2. PICK f : IsLoop(f, x - 1, p, candidates, endorsements)
    BY <2>1
  <2> DEFINE g == [n \in 0..x |->
                     IF n = x THEN Consider(p, endorsements, f[x - 1], candidates[x])
                              ELSE f[n]]
  <2>3. ASSUME NEW n \in 0..x
        PROVE  g[n] = IF n = 0 THEN NothingSelected
                      ELSE Consider(p, endorsements, g[n - 1], candidates[n])
    <3>1. CASE n = x
      <4>1. n - 1 \in 0..x /\ n - 1 # x
        BY <3>1, <1>3
      <4>2. g[n - 1] = f[n - 1]
        BY <4>1
      <4>3. QED BY <4>2, <3>1, <1>3
    <3>2. CASE n # x
      <4>1. n \in 0..(x - 1) /\ g[n] = f[n]
        BY <3>2
      <4>2. f[n] = IF n = 0 THEN NothingSelected
                   ELSE Consider(p, endorsements, f[n - 1], candidates[n])
        BY <4>1, <2>2 DEF IsLoop
      <4>3. CASE n = 0
        BY <4>1, <4>2, <4>3
      <4>4. CASE n # 0
        <5>1. n - 1 \in 0..x /\ n - 1 # x
          BY <3>2, <4>4
        <5>2. g[n - 1] = f[n - 1]
          BY <5>1
        <5>3. QED BY <4>1, <4>2, <4>4, <5>2
      <4>5. QED BY <4>3, <4>4
    <3>3. QED BY <3>1, <3>2
  <2>4. IsLoop(g, x, p, candidates, endorsements)
    <3>1. g = [n \in 0..x |-> g[n]]
      OBVIOUS
    <3>2. QED
      <4> HIDE DEF g
      <4>1. QED BY <2>3, <3>1 DEF IsLoop
  <2>5. QED BY <2>4
<1>4. QED BY <1>2, <1>3

\* Turns obeys its equations: no selection at first, then one turn after the
\* other.
LEMMA TurnByTurn ==
  ASSUME NEW p, NEW candidates, NEW endorsements, Len(candidates) \in Nat
  PROVE  LET t == Turns(p, candidates, endorsements) IN
         /\ t[0] = NothingSelected
         /\ \A n \in 1..Len(candidates) :
              t[n] = Consider(p, endorsements, t[n - 1], candidates[n])
<1> DEFINE t == Turns(p, candidates, endorsements)
<1>1. \E after : IsLoop(after, Len(candidates), p, candidates, endorsements)
  BY LoopExists
<1>2. IsLoop(t, Len(candidates), p, candidates, endorsements)
  BY <1>1 DEF Turns, IsLoop
<1>3. t[0] = NothingSelected
  BY <1>2 DEF IsLoop
<1>4. ASSUME NEW n \in 1..Len(candidates)
      PROVE  t[n] = Consider(p, endorsements, t[n - 1], candidates[n])
  BY <1>2 DEF IsLoop
<1>5. QED BY <1>3, <1>4

-----------------------------------------------------------------------------
(* What the loop has found after n turns. *)

Count(endorsements, c) == EndorsementCount(endorsements, c.publisher, c.appID)

\* The best count so far is that of a selected candidate, if there is one, and
\* the selection is tied when another candidate has as many.
Found(s, n, p, candidates, endorsements) ==
  /\ s.best \in Nat
  /\ \A i \in 1..n : Count(endorsements, candidates[i]) >= p.minimumEndorsements
                       => Count(endorsements, candidates[i]) <= s.best
  /\ \/ s = NothingSelected
     \/ \E i \in 1..n, tied \in BOOLEAN :
          /\ s = [selected |-> {candidates[i]}, best |-> s.best, tied |-> tied]
          /\ s.best = Count(endorsements, candidates[i])
          /\ s.best >= p.minimumEndorsements
          /\ tied = \E j \in (1..n) \ {i} : Count(endorsements, candidates[j]) = s.best

\* One turn keeps what Found says.
LEMMA TurnKeepsFound ==
  ASSUME NEW p, NEW candidates, NEW endorsements, NEW s, NEW n \in Nat,
         p.minimumEndorsements \in Int, p.minimumEndorsements >= 1,
         \A i \in 1..(n + 1) : Count(endorsements, candidates[i]) \in Nat,
         Found(s, n, p, candidates, endorsements)
  PROVE  Found(Consider(p, endorsements, s, candidates[n + 1]), n + 1,
               p, candidates, endorsements)
<1> DEFINE Q(i) == Count(endorsements, candidates[i])
           c == n + 1
           t == Consider(p, endorsements, s, candidates[c])
           Tie(b, m, i, tied) ==
             tied = \E j \in (1..m) \ {i} : Q(j) = b
<1>0. /\ c \in 1..c /\ Q(c) \in Nat /\ s.best \in Nat
      /\ \A i \in 1..c : i = c \/ i \in 1..n
      /\ \A i \in 1..n : i \in 1..c /\ i # c /\ Q(i) \in Nat
      /\ \A i \in 1..n : Q(i) >= p.minimumEndorsements => Q(i) <= s.best
  BY DEF Found
<1>1. CASE Q(c) < p.minimumEndorsements \/ Q(c) < s.best
  <2>1. t = s
    BY <1>1 DEF Consider, Count
  <2>2. \A i \in 1..c : Q(i) >= p.minimumEndorsements => Q(i) <= s.best
    BY <1>0, <1>1
  <2>3. CASE s = NothingSelected
    BY <2>1, <2>2, <2>3, <1>0 DEF Found
  <2>4. ASSUME NEW i \in 1..n, NEW tied \in BOOLEAN,
               s = [selected |-> {candidates[i]}, best |-> s.best, tied |-> tied],
               s.best = Q(i), s.best >= p.minimumEndorsements, Tie(s.best, n, i, tied)
        PROVE  Found(s, c, p, candidates, endorsements)
    <3>1. Q(c) # s.best
      BY <1>0, <1>1, <2>4
    <3>2. (\E j \in (1..c) \ {i} : Q(j) = s.best) <=> (\E j \in (1..n) \ {i} : Q(j) = s.best)
      BY <3>1, <1>0
    <3>3. Tie(s.best, c, i, tied)
      BY <3>2, <2>4
    <3>4. i \in 1..c
      BY <1>0
    <3>5. QED BY <3>3, <3>4, <2>2, <2>4, <1>0 DEF Found
  <2>5. QED BY <2>1, <2>3, <2>4 DEF Found
<1>2. CASE Q(c) >= p.minimumEndorsements /\ Q(c) = s.best
  <2>1. t = [s EXCEPT !.tied = TRUE]
    BY <1>0, <1>2 DEF Consider, Count
  <2>2. s # NothingSelected
    BY <1>2, <1>0 DEF NothingSelected
  <2>3. PICK i \in 1..n, tied \in BOOLEAN :
          /\ s = [selected |-> {candidates[i]}, best |-> s.best, tied |-> tied]
          /\ s.best = Q(i)
    BY <2>2 DEF Found
  <2>4. t = [selected |-> {candidates[i]}, best |-> s.best, tied |-> TRUE]
    <3> DEFINE b == s.best
    <3>1. s = [selected |-> {candidates[i]}, best |-> b, tied |-> tied]
      BY <2>3
    <3> HIDE DEF b
    <3>2. t = [selected |-> {candidates[i]}, best |-> b, tied |-> TRUE]
      BY <2>1, <3>1
    <3>3. QED BY <3>2 DEF b
  <2>5. t.best = s.best
    BY <2>4
  <2>6. \A j \in 1..c : Q(j) >= p.minimumEndorsements => Q(j) <= t.best
    BY <1>0, <1>2, <2>5
  <2>7. Tie(s.best, c, i, TRUE)
    <3>1. c \in (1..c) \ {i} /\ Q(c) = s.best
      BY <1>0, <1>2
    <3>2. QED BY <3>1
  <2>8. i \in 1..c
    BY <1>0
  <2>9. QED BY <2>3, <2>4, <2>5, <2>6, <2>7, <2>8, <1>0, <1>2 DEF Found
<1>3. CASE Q(c) >= p.minimumEndorsements /\ Q(c) > s.best
  <2>1. t = [selected |-> {candidates[c]}, best |-> Q(c), tied |-> FALSE]
    BY <1>0, <1>3 DEF Consider, Count
  <2>2. t.best = Q(c)
    BY <2>1
  <2>3. \A j \in 1..n : Q(j) < t.best
    BY <1>0, <1>3, <2>2
  <2>4. \A j \in 1..c : Q(j) >= p.minimumEndorsements => Q(j) <= t.best
    BY <1>0, <2>2, <2>3
  <2>5. Tie(t.best, c, c, FALSE)
    BY <2>2, <2>3, <1>0
  <2>6. QED BY <2>1, <2>2, <2>4, <2>5, <1>0, <1>3 DEF Found
<1>4. QED BY <1>0, <1>1, <1>2, <1>3

\* So each turn of the loop leaves what Found says.
LEMMA FoundAfterEachTurn ==
  ASSUME NEW p, NEW candidates, NEW endorsements, Len(candidates) \in Nat,
         p.minimumEndorsements \in Int, p.minimumEndorsements >= 1,
         \A i \in 1..Len(candidates) : Count(endorsements, candidates[i]) \in Nat
  PROVE  \A n \in 0..Len(candidates) :
           Found(Turns(p, candidates, endorsements)[n], n, p, candidates, endorsements)
<1> DEFINE t == Turns(p, candidates, endorsements)
           Good(n) == Found(t[n], n, p, candidates, endorsements)
           T == {n \in 0..Len(candidates) : ~ Good(n)}
<1> SUFFICES ASSUME T # {} PROVE FALSE
  OBVIOUS
<1>1. /\ t[0] = NothingSelected
      /\ \A n \in 1..Len(candidates) :
           t[n] = Consider(p, endorsements, t[n - 1], candidates[n])
  BY TurnByTurn
<1>2. PICK x \in T : \A y \in T : x <= y
  <2>1. T \subseteq Nat
    OBVIOUS
  <2> HIDE DEF T
  <2>2. QED BY <2>1, NatMin
<1>3. x # 0
  <2>1. Good(0)
    BY <1>1 DEF Found, NothingSelected
  <2>2. QED BY <2>1
<1> DEFINE n == x - 1
<1>4. n \in Nat /\ n \in 0..Len(candidates) /\ n \notin T /\ x = n + 1
      /\ x \in 1..Len(candidates)
  BY <1>2, <1>3
<1>5. Good(n)
  BY <1>4
<1>6. t[x] = Consider(p, endorsements, t[n], candidates[n + 1])
  BY <1>1, <1>4
<1>7. \A i \in 1..(n + 1) : Count(endorsements, candidates[i]) \in Nat
  BY <1>4
<1>8. Good(x)
  <2> HIDE DEF t, n
  <2>1. QED BY <1>4, <1>5, <1>6, <1>7, TurnKeepsFound
<1>9. QED BY <1>8

\* For any candidates, endorsements and policy, in any order: SelectCanonical
\* returns the candidate with more trusted endorsements than each of the
\* others and at least as many as the policy asks for, or none.
THEOREM LoopSelectsTheUniqueBest ==
  ASSUME NEW p, NEW candidates, NEW endorsements, Len(candidates) \in Nat,
         p.minimumEndorsements \in Int, NewPolicy(p),
         \A i \in 1..Len(candidates) : Count(endorsements, candidates[i]) \in Nat
  PROVE  SelectCanonical(p, candidates, endorsements) =
           {candidates[i] : i \in {j \in 1..Len(candidates) :
              /\ Count(endorsements, candidates[j]) >= p.minimumEndorsements
              /\ \A k \in (1..Len(candidates)) \ {j} :
                   Count(endorsements, candidates[k]) < Count(endorsements, candidates[j])}}
<1> DEFINE N == Len(candidates)
           Q(i) == Count(endorsements, candidates[i])
           s == Turns(p, candidates, endorsements)[N]
           best == {j \in 1..N : /\ Q(j) >= p.minimumEndorsements
                                 /\ \A k \in (1..N) \ {j} : Q(k) < Q(j)}
           result == IF s.tied THEN {} ELSE s.selected
<1>1. p.minimumEndorsements >= 1
  BY DEF NewPolicy
<1>2. Found(s, N, p, candidates, endorsements)
  BY <1>1, FoundAfterEachTurn
<1>3. SelectCanonical(p, candidates, endorsements) = result
  BY DEF SelectCanonical
<1> HIDE DEF s
<1>4. s.best \in Nat /\ \A i \in 1..N : Q(i) >= p.minimumEndorsements => Q(i) <= s.best
  BY <1>2 DEF Found
<1>5. CASE s = NothingSelected
  <2>1. result = {} /\ s.best = 0
    BY <1>5 DEF NothingSelected
  <2>2. best = {}
    BY <2>1, <1>1, <1>4
  <2>3. QED BY <2>1, <2>2, <1>3
<1>6. ASSUME NEW i \in 1..N, NEW tied \in BOOLEAN,
             s = [selected |-> {candidates[i]}, best |-> s.best, tied |-> tied],
             s.best = Q(i), s.best >= p.minimumEndorsements,
             tied = \E j \in (1..N) \ {i} : Q(j) = s.best
      PROVE  result = {candidates[j] : j \in best}
  <2>1. s.tied = tied /\ s.selected = {candidates[i]}
    <3> DEFINE b == s.best
    <3>1. s = [selected |-> {candidates[i]}, best |-> b, tied |-> tied]
      BY <1>6
    <3> HIDE DEF b
    <3>2. QED BY <3>1, Zenon
  <2>2. CASE tied = TRUE
    <3>1. PICK j \in (1..N) \ {i} : Q(j) = s.best
      BY <1>6, <2>2, Zenon
    <3>2. \A k \in 1..N : k \notin best
      BY <1>4, <1>6, <3>1
    <3>3. result = {}
      BY <2>1, <2>2, Zenon
    <3>4. QED BY <3>2, <3>3
  <2>3. CASE tied = FALSE
    <3>1. \A j \in (1..N) \ {i} : Q(j) # s.best
      BY <1>6, <2>3, Zenon
    <3>2. \A j \in (1..N) \ {i} : Q(j) < Q(i)
      BY <1>4, <1>6, <3>1
    <3>3. best = {i}
      BY <1>4, <1>6, <3>2
    <3>4. result = {candidates[i]}
      BY <2>1, <2>3, Zenon
    <3>5. QED BY <3>3, <3>4
  <2>4. QED BY <2>2, <2>3
<1>7. QED BY <1>2, <1>3, <1>5, <1>6 DEF Found
=============================================================================
