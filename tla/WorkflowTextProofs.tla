------------------------- MODULE WorkflowTextProofs --------------------------
(***************************************************************************)
(* Proofs about WorkflowText, for strings of any length over any tokens:   *)
(* expand gives a string its one documented meaning, path.Clean keeps the  *)
(* segments of a path and brings no traversal into it.                     *)
(*                                                                         *)
(* The operators are recursive functions over positions.  Induction and    *)
(* recursion over positions are proved here from the least member of a set *)
(* of naturals (WFMin), with sets in the place of formulas.                *)
(***************************************************************************)
EXTENDS WorkflowText, FiniteSetTheorems, SequenceTheorems, WellFoundedInduction, TLAPS

-----------------------------------------------------------------------------
(* Induction and recursion over positions                                  *)

Less == OpToRel(<, Nat)

\* A set of naturals has a least member.
LEMMA LeastMember ==
    ASSUME NEW T \in SUBSET Nat, T # {}
    PROVE  \E n \in T : \A m \in T : n <= m
<1>1. IsWellFoundedOn(Less, Nat)
  BY NatLessThanWellFounded DEF Less
<1>2. PICK x \in T : \A y \in T : ~(<<y, x>> \in Less)
  BY <1>1, WFMin
<1>3. \A i, j \in Nat : <<i, j>> \in Less <=> i < j
  BY DEF Less, OpToRel
<1>4. ASSUME NEW m \in T PROVE x <= m
  <2>1. x \in Nat /\ m \in Nat /\ ~(m < x)
    BY <1>2, <1>3
  <2> QED
    BY <2>1
<1> QED
  BY <1>4

\* Induction over a set of positions, which is data and not a formula.
LEMMA Induction ==
    ASSUME NEW n \in Nat, NEW T, 0 \in T, \A i \in 1 .. n : i - 1 \in T => i \in T
    PROVE  0 .. n \subseteq T
<1> SUFFICES ASSUME (0 .. n) \ T # {} PROVE FALSE
  OBVIOUS
<1>1. PICK k \in (0 .. n) \ T : \A m \in (0 .. n) \ T : k <= m
  <2> DEFINE R == (0 .. n) \ T
  <2>1. R \in SUBSET Nat /\ R # {}
    OBVIOUS
  <2> HIDE DEF R
  <2>2. \E k \in R : \A m \in R : k <= m
    BY <2>1, LeastMember
  <2> QED
    BY <2>2 DEF R
<1>2. k \in 1 .. n /\ k - 1 \in 0 .. n /\ ~(k <= k - 1)
  BY <1>1
<1> QED
  BY <1>1, <1>2

\* F[i] makes what comes after position i of what came before it.
StepsStay(F, n, X) == \A i \in 1 .. n : \A x \in X : F[i][x] \in X
Follows(g, base, F, n) == g[0] = base /\ \A i \in 1 .. n : g[i] = F[i][g[i - 1]]

\* A recursion from left to right, one position at a time, defines something.
LEMMA Recursion ==
    ASSUME NEW X, NEW base \in X, NEW n \in Nat, NEW F, StepsStay(F, n, X)
    PROVE  \E g \in [0 .. n -> X] : Follows(g, base, F, n)
<1> USE DEF StepsStay, Follows
<1> DEFINE Upto(k) == \E g \in [0 .. k -> X] : g[0] = base /\ \A i \in 1 .. k : g[i] = F[i][g[i - 1]]
           T == {k \in 0 .. n : Upto(k)}
<1>1. 0 \in T
  <2> SUFFICES Upto(0)
    OBVIOUS
  <2>1. [i \in 0 .. 0 |-> base] \in [0 .. 0 -> X] /\ [i \in 0 .. 0 |-> base][0] = base /\ 1 .. 0 = {}
    OBVIOUS
  <2> QED
    BY <2>1
<1>2. ASSUME NEW k \in 1 .. n, k - 1 \in T PROVE k \in T
  <2>1. PICK g \in [0 .. k - 1 -> X] : g[0] = base /\ \A i \in 1 .. k - 1 : g[i] = F[i][g[i - 1]]
    BY <1>2
  <2> DEFINE h == [i \in 0 .. k |-> IF i = k THEN F[k][g[k - 1]] ELSE g[i]]
  <2>2. h \in [0 .. k -> X]
    BY <2>1
  <2>3. h[0] = base
    BY <2>1
  <2>4. ASSUME NEW i \in 1 .. k PROVE h[i] = F[i][h[i - 1]]
    <3>1. CASE i = k
      BY <3>1
    <3>2. CASE i # k
      <4>1. i \in 1 .. k - 1 /\ i - 1 \in 0 .. k /\ i - 1 # k
        BY <3>2
      <4> QED
        BY <2>1, <3>2, <4>1
    <3> QED
      BY <3>1, <3>2
  <2> HIDE DEF h
  <2> QED
    BY <2>2, <2>3, <2>4
<1> HIDE DEF T
<1>3. 0 .. n \subseteq T
  BY <1>1, <1>2, Induction
<1> QED
  BY <1>3 DEF T

\* Two functions that make the same steps are the same.
SameStep(g, h, n) == g[0] = h[0] /\ \A i \in 1 .. n : g[i - 1] = h[i - 1] => g[i] = h[i]

\* Two functions that begin alike and step alike are alike.
LEMMA SameSteps ==
    ASSUME NEW n \in Nat, NEW g, NEW h, SameStep(g, h, n)
    PROVE  g[n] = h[n]
<1> DEFINE T == {i \in 0 .. n : g[i] = h[i]}
<1>1. 0 \in T /\ \A i \in 1 .. n : i - 1 \in T => i \in T
  BY DEF SameStep
<1> HIDE DEF T
<1>2. 0 .. n \subseteq T
  BY <1>1, Induction
<1> QED
  BY <1>2 DEF T

-----------------------------------------------------------------------------
(* Segments                                                                *)

Parts(S) == Seq(Seq(S)) \ {<<>>}

\* What one more token makes of the segments so far.
Extend(parts, token, separators) ==
    IF token \in separators THEN Append(parts, <<>>)
    ELSE [parts EXCEPT ![Len(parts)] = Append(@, token)]

\* One more token leaves a nonempty list of parts.
LEMMA ExtendTyped ==
    ASSUME NEW S, NEW parts \in Parts(S), NEW token \in S, NEW separators
    PROVE  Extend(parts, token, separators) \in Parts(S)
<1>1. parts \in Seq(Seq(S)) /\ Len(parts) \in 1 .. Len(parts) /\ parts[Len(parts)] \in Seq(S)
  BY DEF Parts
<1>2. Append(parts[Len(parts)], token) \in Seq(S) /\ <<>> \in Seq(S)
  BY <1>1
<1>3. Append(parts, <<>>) \in Parts(S)
  BY <1>1, <1>2, AppendProperties DEF Parts
<1>4. [parts EXCEPT ![Len(parts)] = Append(parts[Len(parts)], token)] \in Seq(Seq(S))
      /\ Len([parts EXCEPT ![Len(parts)] = Append(parts[Len(parts)], token)]) = Len(parts)
  BY <1>1, <1>2, ExceptSeq
<1>5. [parts EXCEPT ![Len(parts)] = Append(parts[Len(parts)], token)] \in Parts(S)
  BY <1>1, <1>4 DEF Parts
<1> QED
  BY <1>3, <1>5 DEF Extend

\* g gives the segments of every prefix of s.
Splits(g, s, separators) ==
    /\ g[0] = <<<<>>>>
    /\ \A i \in 1 .. Len(s) : g[i] = Extend(g[i - 1], s[i], separators)

\* Segments (strings.Split) is computed part by part, and has parts.
LEMMA SegmentsSplit ==
    ASSUME NEW S, NEW s \in Seq(S), NEW separators
    PROVE  \E g \in [0 .. Len(s) -> Parts(S)] :
              Splits(g, s, separators) /\ Segments(s, separators) = g[Len(s)]
<1> DEFINE n == Len(s)
           F == [i \in 1 .. n |-> [x \in Parts(S) |-> Extend(x, s[i], separators)]]
           Next(f, i) == IF i = 0 THEN <<<<>>>>
                         ELSE IF s[i] \in separators THEN Append(f[i - 1], <<>>)
                         ELSE [f[i - 1] EXCEPT ![Len(f[i - 1])] = Append(@, s[i])]
           split == CHOOSE split : split = [i \in 0 .. n |-> Next(split, i)]
<1>1. n \in Nat /\ (\A i \in 1 .. n : s[i] \in S /\ i - 1 \in 0 .. n) /\ 0 \in 0 .. n
  OBVIOUS
<1>2. <<<<>>>> \in Parts(S)
  BY DEF Parts
<1>3. \A i \in 1 .. n : \A x \in Parts(S) : F[i][x] = Extend(x, s[i], separators) /\ F[i][x] \in Parts(S)
  BY <1>1, ExtendTyped
<1>e. ASSUME NEW f PROVE Next(f, 0) = <<<<>>>> /\ \A i \in 1 .. n : Next(f, i) = Extend(f[i - 1], s[i], separators)
  BY DEF Extend
<1>8. Segments(s, separators) = split[n]
  BY DEF Segments
<1>c. (\E f : f = [i \in 0 .. n |-> Next(f, i)]) => split = [i \in 0 .. n |-> Next(split, i)]
  OBVIOUS
<1> HIDE DEF F, n, Next, split
<1>4. \E g \in [0 .. n -> Parts(S)] : Follows(g, <<<<>>>>, F, n)
  <2>1. StepsStay(F, n, Parts(S))
    BY <1>3 DEF StepsStay
  <2> QED
    BY <1>1, <1>2, <2>1, Recursion
<1>5. PICK g \in [0 .. n -> Parts(S)] :
         g[0] = <<<<>>>> /\ \A i \in 1 .. n : g[i] = Extend(g[i - 1], s[i], separators)
  BY <1>1, <1>3, <1>4, SMTT(60) DEF Follows
<1>6. \A i \in 0 .. n : g[i] = Next(g, i)
  <2>1. \A i \in 0 .. n : i = 0 \/ i \in 1 .. n
    BY <1>1
  <2> QED
    BY <1>5, <1>e, <2>1
<1>7. split = [i \in 0 .. n |-> Next(split, i)]
  BY <1>6, <1>c
<1>9. split[0] = <<<<>>>> /\ \A i \in 1 .. n : split[i] = Extend(split[i - 1], s[i], separators)
  BY <1>1, <1>7, <1>e
<1>10. g[n] = split[n]
  <2>1. SameStep(g, split, n)
    BY <1>5, <1>9 DEF SameStep
  <2> QED
    BY <1>1, <2>1, SameSteps
<1> QED
  BY <1>1, <1>5, <1>8, <1>10 DEF Splits, n

\* Segments of the empty string, and of a string with one more token.
LEMMA SegmentsByToken ==
    ASSUME NEW S, NEW separators
    PROVE  /\ Segments(<<>>, separators) = <<<<>>>>
           /\ \A s \in Seq(S) : Segments(s, separators) \in Parts(S)
           /\ \A s \in Seq(S), t \in S :
                 Segments(Append(s, t), separators) = Extend(Segments(s, separators), t, separators)
<1>1. Segments(<<>>, separators) = <<<<>>>>
  <2>1. <<>> \in Seq(S) /\ Len(<<>>) = 0
    BY EmptySeq
  <2>2. PICK g \in [0 .. Len(<<>>) -> Parts(S)] :
           Splits(g, <<>>, separators) /\ Segments(<<>>, separators) = g[Len(<<>>)]
    BY <2>1, SegmentsSplit, ZenonT(60)
  <2> QED
    BY <2>1, <2>2 DEF Splits
<1>2. ASSUME NEW s \in Seq(S) PROVE Segments(s, separators) \in Parts(S)
  BY SegmentsSplit
<1>3. ASSUME NEW s \in Seq(S), NEW t \in S
      PROVE  Segments(Append(s, t), separators) = Extend(Segments(s, separators), t, separators)
  <2> DEFINE r == Append(s, t)
             n == Len(s)
  <2>1. /\ n \in Nat /\ r \in Seq(S) /\ Len(r) = n + 1 /\ r[n + 1] = t
        /\ \A i \in 1 .. n : r[i] = s[i] /\ i \in 1 .. n + 1 /\ i - 1 \in 0 .. n
        /\ n + 1 \in 1 .. n + 1 /\ n \in 0 .. n /\ n + 1 - 1 = n
    OBVIOUS
  <2> HIDE DEF r, n
  <2>2. PICK g \in [0 .. n -> Parts(S)] : Splits(g, s, separators) /\ Segments(s, separators) = g[n]
    BY SegmentsSplit DEF n
  <2>3. PICK h \in [0 .. n + 1 -> Parts(S)] : Splits(h, r, separators) /\ Segments(r, separators) = h[n + 1]
    <3>1. \E f \in [0 .. Len(r) -> Parts(S)] : Splits(f, r, separators) /\ Segments(r, separators) = f[Len(r)]
      BY <2>1, SegmentsSplit, ZenonT(60)
    <3> QED
      BY <2>1, <3>1
  <2>4. SameStep(g, h, n)
    BY <2>1, <2>2, <2>3 DEF Splits, SameStep, n
  <2>5. g[n] = h[n]
    <3>1. n \in Nat
      BY <2>1
    <3> QED
      BY <2>4, <3>1, SameSteps
  <2>6. h[n + 1] = Extend(h[n], t, separators)
    BY <2>1, <2>3 DEF Splits
  <2> QED
    BY <2>2, <2>3, <2>5, <2>6 DEF r
<1> QED
  BY <1>1, <1>2, <1>3

\* Induction over the sequences of a set.
LEMMA SeqInduction ==
    ASSUME NEW S, NEW T, <<>> \in T, \A s \in Seq(S), t \in S : s \in T => Append(s, t) \in T
    PROVE  Seq(S) \subseteq T
<1> SUFFICES ASSUME NEW s \in Seq(S) PROVE s \in T
  OBVIOUS
<1> DEFINE n == Len(s)
           U == {k \in 0 .. n : SubSeq(s, 1, k) \in T}
<1>1. n \in Nat /\ 0 \in 0 .. n /\ \A i \in 1 .. n : s[i] \in S /\ i \in 0 .. n
  OBVIOUS
<1>2. SubSeq(s, 1, 0) = <<>>
  BY SubSeqEmpty
<1>3. ASSUME NEW k \in 1 .. n, SubSeq(s, 1, k - 1) \in T PROVE SubSeq(s, 1, k) \in T
  <2> DEFINE front == SubSeq(s, 1, k - 1)
  <2>1. 1 \in 1 .. Len(s) /\ k \in 1 .. Len(s) /\ k \in Int /\ k - 1 \in Int
    BY <1>1
  <2>2. SubSeq(s, 1, k) = front \o <<s[k]>>
    BY <2>1, SubSeqRecursiveSecond
  <2>3. front \in Seq(S)
    <3>1. \A i \in 1 .. k - 1 : s[i] \in S
      BY <1>1, <2>1
    <3> QED
      BY <2>1, <3>1, SubSeqProperties
  <2> HIDE DEF front
  <2>4. Append(front, s[k]) = front \o <<s[k]>>
    BY <1>1, <2>3, AppendIsConcat
  <2>5. front \in T
    BY <1>3 DEF front
  <2> QED
    BY <1>1, <2>2, <2>3, <2>4, <2>5
<1>4. n \in U
  <2>1. 0 \in U /\ \A i \in 1 .. n : i - 1 \in U => i \in U
    BY <1>1, <1>2, <1>3
  <2> HIDE DEF U, n
  <2>2. 0 .. n \subseteq U
    BY <1>1, <2>1, Induction
  <2> QED
    BY <1>1, <2>2
<1> QED
  BY <1>4, SubSeqFull, ZenonT(60)

\* A change of the last element is a change of the last part.
LEMMA ExceptConcat ==
    ASSUME NEW X, NEW P \in Seq(X), NEW R \in Seq(X), R # <<>>, NEW e \in X
    PROVE  [P \o R EXCEPT ![Len(P \o R)] = e] = P \o [R EXCEPT ![Len(R)] = e]
<1> DEFINE PR == P \o R
           left == [PR EXCEPT ![Len(PR)] = e]
           last == [R EXCEPT ![Len(R)] = e]
           right == P \o last
<1>1. Len(P) \in Nat /\ Len(R) \in Nat /\ Len(R) \in 1 .. Len(R)
  BY EmptySeq
<1>2. /\ last \in Seq(X) /\ Len(last) = Len(R)
      /\ \A j \in 1 .. Len(R) : last[j] = IF j = Len(R) THEN e ELSE R[j]
  BY <1>1, ExceptSeq
<1>3. /\ PR \in Seq(X) /\ Len(PR) = Len(P) + Len(R)
      /\ \A j \in 1 .. Len(P) + Len(R) : PR[j] = IF j <= Len(P) THEN P[j] ELSE R[j - Len(P)]
  BY ConcatProperties
<1> HIDE DEF PR, last
<1>4. /\ left \in Seq(X) /\ Len(left) = Len(PR)
      /\ \A j \in 1 .. Len(PR) : left[j] = IF j = Len(PR) THEN e ELSE PR[j]
  <2>1. Len(PR) \in 1 .. Len(PR)
    BY <1>1, <1>3
  <2> QED
    BY <1>3, <2>1, ExceptSeq
<1>5. /\ right \in Seq(X) /\ Len(right) = Len(P) + Len(last)
      /\ \A j \in 1 .. Len(P) + Len(last) : right[j] = IF j <= Len(P) THEN P[j] ELSE last[j - Len(P)]
  BY <1>2, ConcatProperties
<1> HIDE DEF left, right
<1>6. ASSUME NEW j \in 1 .. Len(PR) PROVE left[j] = right[j]
  <2>1. /\ j \in 1 .. Len(P) + Len(last)
        /\ left[j] = IF j = Len(PR) THEN e ELSE PR[j]
        /\ right[j] = IF j <= Len(P) THEN P[j] ELSE last[j - Len(P)]
        /\ PR[j] = IF j <= Len(P) THEN P[j] ELSE R[j - Len(P)]
    BY <1>2, <1>3, <1>4, <1>5
  <2>2. CASE j <= Len(P)
    BY <1>1, <1>3, <2>1, <2>2
  <2>3. CASE ~(j <= Len(P))
    <3>1. j - Len(P) \in 1 .. Len(R) /\ (j - Len(P) = Len(R) <=> j = Len(PR))
      BY <1>1, <1>3, <2>3
    <3>2. last[j - Len(P)] = IF j - Len(P) = Len(R) THEN e ELSE R[j - Len(P)]
      BY <1>2, <3>1
    <3> QED
      BY <2>1, <2>3, <3>1, <3>2
  <2> QED
    BY <2>2, <2>3
<1>7. Len(left) = Len(right)
  BY <1>2, <1>3, <1>4, <1>5
<1>8. left = right
  BY <1>4, <1>5, <1>6, <1>7, SeqEqual
<1> QED
  BY <1>8 DEF left, right, PR, last

\* One more token changes the last of two lists of parts only.
LEMMA ExtendConcat ==
    ASSUME NEW S, NEW P \in Seq(Seq(S)), NEW R \in Parts(S), NEW t \in S, NEW separators
    PROVE  Extend(P \o R, t, separators) = P \o Extend(R, t, separators)
<1> DEFINE X == Seq(S)
           none == <<>>
<1>1. P \in Seq(X) /\ R \in Seq(X) /\ R # <<>> /\ none \in X
  BY DEF Parts
<1>2. Len(P) \in Nat /\ Len(R) \in Nat /\ Len(R) \in 1 .. Len(R) /\ R[Len(R)] \in X
  <2> HIDE DEF X
  <2>1. Len(R) \in 1 .. Len(R)
    BY <1>1, EmptySeq
  <2> QED
    BY <1>1, <2>1, ElementOfSeq, LenProperties
<1>3. Append(R[Len(R)], t) \in X
  BY <1>2
<1> HIDE DEF X, none
<1>4. (P \o R)[Len(P \o R)] = R[Len(R)]
  BY <1>1, <1>2
<1>5. Append(P \o R, none) = P \o Append(R, none)
  <2>1. P \o R \in Seq(X) /\ <<none>> \in Seq(X)
    BY <1>1, ConcatProperties
  <2>2. Append(P \o R, none) = (P \o R) \o <<none>>
    BY <1>1, <2>1, AppendIsConcat
  <2>3. Append(R, none) = R \o <<none>>
    BY <1>1, AppendIsConcat
  <2>4. (P \o R) \o <<none>> = P \o (R \o <<none>>)
    BY <1>1, <2>1, ConcatAssociative
  <2> QED
    BY <2>2, <2>3, <2>4
<1>6. [P \o R EXCEPT ![Len(P \o R)] = Append(R[Len(R)], t)]
        = P \o [R EXCEPT ![Len(R)] = Append(R[Len(R)], t)]
  BY <1>1, <1>3, ExceptConcat
<1> QED
  BY <1>4, <1>5, <1>6 DEF Extend, none

\* The pieces of a string around a separator are cut by themselves.
CutsAt(a, mark, b, separators) ==
    Segments(a \o <<mark>> \o b, separators) = Segments(a, separators) \o Segments(b, separators)

\* A separator between two strings puts their segments one after the other.
LEMMA SegmentsConcat ==
    ASSUME NEW S, NEW separators, NEW mark \in S \cap separators, NEW a \in Seq(S), NEW b \in Seq(S)
    PROVE  CutsAt(a, mark, b, separators)
<1> DEFINE left == Append(a, mark)
           P == Segments(a, separators)
           T == {s \in Seq(S) : Segments(left \o s, separators) = P \o Segments(s, separators)}
<1>1. left \in Seq(S) /\ left = a \o <<mark>>
  BY AppendIsConcat
<1>2. P \in Seq(Seq(S)) /\ \A s \in Seq(S) : Segments(s, separators) \in Parts(S)
  BY SegmentsByToken DEF Parts
<1>3. Segments(left \o <<>>, separators) = P \o Segments(<<>>, separators)
  <2>1. left \o <<>> = left /\ Segments(<<>>, separators) = <<<<>>>>
    BY <1>1, SegmentsByToken
  <2>2. Segments(left, separators) = Append(P, <<>>)
    BY SegmentsByToken DEF Extend
  <2>3. <<>> \in Seq(S) /\ Append(P, <<>>) = P \o <<<<>>>>
    BY <1>2, AppendIsConcat
  <2> QED
    BY <2>1, <2>2, <2>3
<1> HIDE DEF left, P
<1>4. ASSUME NEW s \in Seq(S), NEW t \in S, Segments(left \o s, separators) = P \o Segments(s, separators)
      PROVE  Segments(left \o Append(s, t), separators) = P \o Segments(Append(s, t), separators)
  <2> DEFINE R == Segments(s, separators)
             ls == left \o s
  <2>1. left \o Append(s, t) = Append(ls, t) /\ ls \in Seq(S)
    BY <1>1
  <2>2. Segments(Append(s, t), separators) = Extend(R, t, separators)
    BY SegmentsByToken
  <2> HIDE DEF ls
  <2>3. Segments(Append(ls, t), separators) = Extend(Segments(ls, separators), t, separators)
    BY <2>1, SegmentsByToken
  <2>4. Extend(P \o R, t, separators) = P \o Extend(R, t, separators)
    BY <1>2, ExtendConcat
  <2> QED
    BY <1>4, <2>1, <2>2, <2>3, <2>4 DEF ls
<1>5. <<>> \in T /\ \A s \in Seq(S), t \in S : s \in T => Append(s, t) \in T
  <2>1. <<>> \in Seq(S) /\ \A s \in Seq(S), t \in S : Append(s, t) \in Seq(S)
    OBVIOUS
  <2> QED
    BY <1>3, <1>4, <2>1
<1> HIDE DEF T
<1>6. b \in T
  BY <1>5, SeqInduction
<1> QED
  BY <1>1, <1>6 DEF T, P, CutsAt

-----------------------------------------------------------------------------
(* The parts that count                                                    *)

Keep(kept, part) == IF part \in {<<>>, <<".">>} THEN kept ELSE Append(kept, part)

\* g gives the parts that count of every prefix of parts.
Keeps(g, parts) ==
    /\ g[0] = <<>>
    /\ \A i \in 1 .. Len(parts) : g[i] = Keep(g[i - 1], parts[i])

\* Counted is computed part by part.
LEMMA CountedKeeps ==
    ASSUME NEW X, NEW parts \in Seq(X)
    PROVE  \E g \in [0 .. Len(parts) -> Seq(X)] : Keeps(g, parts) /\ Counted(parts) = g[Len(parts)]
<1> DEFINE n == Len(parts)
           F == [i \in 1 .. n |-> [x \in Seq(X) |-> Keep(x, parts[i])]]
           Next(f, i) == IF i = 0 THEN <<>>
                         ELSE IF parts[i] \in {<<>>, <<".">>} THEN f[i - 1] ELSE Append(f[i - 1], parts[i])
           keep == CHOOSE keep : keep = [i \in 0 .. n |-> Next(keep, i)]
<1>1. n \in Nat /\ (\A i \in 1 .. n : parts[i] \in X /\ i - 1 \in 0 .. n) /\ 0 \in 0 .. n
      /\ \A i \in 0 .. n : i = 0 \/ i \in 1 .. n
  OBVIOUS
<1>2. StepsStay(F, n, Seq(X)) /\ \A i \in 1 .. n : \A x \in Seq(X) : F[i][x] = Keep(x, parts[i])
  BY <1>1 DEF StepsStay, Keep
<1>3. ASSUME NEW f PROVE Next(f, 0) = <<>> /\ \A i \in 1 .. n : Next(f, i) = Keep(f[i - 1], parts[i])
  BY DEF Keep
<1>4. Counted(parts) = keep[n]
  BY DEF Counted
<1>5. (\E f : f = [i \in 0 .. n |-> Next(f, i)]) => keep = [i \in 0 .. n |-> Next(keep, i)]
  OBVIOUS
<1>6. <<>> \in Seq(X)
  OBVIOUS
<1> HIDE DEF F, n, Next, keep
<1>7. PICK g \in [0 .. n -> Seq(X)] : Follows(g, <<>>, F, n)
  BY <1>1, <1>2, <1>6, Recursion
<1>8. g[0] = <<>> /\ \A i \in 1 .. n : g[i] = Keep(g[i - 1], parts[i])
  BY <1>1, <1>2, <1>7 DEF Follows
<1>9. g = [i \in 0 .. n |-> Next(g, i)]
  BY <1>1, <1>3, <1>8
<1>10. keep[0] = <<>> /\ \A i \in 1 .. n : keep[i] = Keep(keep[i - 1], parts[i])
  BY <1>1, <1>3, <1>5, <1>9
<1>11. SameStep(g, keep, n)
  BY <1>8, <1>10 DEF SameStep
<1>12. g[n] = keep[n]
  BY <1>1, <1>11, SameSteps
<1> QED
  BY <1>1, <1>4, <1>8, <1>12 DEF Keeps, n

\* Counted of no parts, and of one part more.
LEMMA CountedByPart ==
    ASSUME NEW X
    PROVE  /\ Counted(<<>>) = <<>>
           /\ \A p \in Seq(X) : Counted(p) \in Seq(X)
           /\ \A p \in Seq(X), w \in X : Counted(Append(p, w)) = Keep(Counted(p), w)
<1>1. Counted(<<>>) = <<>>
  <2>1. <<>> \in Seq(X) /\ Len(<<>>) = 0
    BY EmptySeq
  <2>2. PICK g \in [0 .. Len(<<>>) -> Seq(X)] : Keeps(g, <<>>) /\ Counted(<<>>) = g[Len(<<>>)]
    BY <2>1, CountedKeeps
  <2> QED
    BY <2>1, <2>2 DEF Keeps
<1>2. ASSUME NEW p \in Seq(X) PROVE Counted(p) \in Seq(X)
  BY CountedKeeps
<1>3. ASSUME NEW p \in Seq(X), NEW w \in X PROVE Counted(Append(p, w)) = Keep(Counted(p), w)
  <2> DEFINE r == Append(p, w)
             n == Len(p)
  <2>1. /\ n \in Nat /\ r \in Seq(X) /\ Len(r) = n + 1 /\ r[n + 1] = w
        /\ \A i \in 1 .. n : r[i] = p[i] /\ i \in 1 .. n + 1 /\ i - 1 \in 0 .. n
        /\ n + 1 \in 1 .. n + 1 /\ n \in 0 .. n /\ n + 1 - 1 = n
    OBVIOUS
  <2> HIDE DEF r, n
  <2>2. PICK g \in [0 .. n -> Seq(X)] : Keeps(g, p) /\ Counted(p) = g[n]
    BY CountedKeeps DEF n
  <2>3. PICK h \in [0 .. n + 1 -> Seq(X)] : Keeps(h, r) /\ Counted(r) = h[n + 1]
    <3>1. \E h \in [0 .. Len(r) -> Seq(X)] : Keeps(h, r) /\ Counted(r) = h[Len(r)]
      BY <2>1, CountedKeeps
    <3> QED
      BY <2>1, <3>1
  <2>4. SameStep(g, h, n)
    BY <2>1, <2>2, <2>3 DEF Keeps, SameStep, n
  <2>5. g[n] = h[n]
    <3>1. n \in Nat
      BY <2>1
    <3> QED
      BY <2>4, <3>1, SameSteps
  <2>6. h[n + 1] = Keep(h[n], w)
    BY <2>1, <2>3 DEF Keeps
  <2> QED
    BY <2>2, <2>3, <2>5, <2>6 DEF r
<1> QED
  BY <1>1, <1>2, <1>3

-----------------------------------------------------------------------------
(* Joining parts                                                           *)

\* The string that ends before parts[i], and parts[i].
Add1(joined, parts, i, mark) == IF i = 1 THEN parts[1] ELSE joined \o <<mark>> \o parts[i]

\* g gives what every prefix of parts is joined to.
Joins(g, parts, mark) ==
    /\ g[0] = <<>>
    /\ \A i \in 1 .. Len(parts) : g[i] = Add1(g[i - 1], parts, i, mark)

\* Join (strings.Join) is computed part by part.
LEMMA JoinJoins ==
    ASSUME NEW S, NEW mark \in S, NEW parts \in Seq(Seq(S))
    PROVE  \E g \in [0 .. Len(parts) -> Seq(S)] : Joins(g, parts, mark) /\ Join(parts, mark) = g[Len(parts)]
<1> DEFINE n == Len(parts)
           F == [i \in 1 .. n |-> [x \in Seq(S) |-> Add1(x, parts, i, mark)]]
           Next(f, i) == IF i = 0 THEN <<>>
                         ELSE IF i = 1 THEN parts[1] ELSE f[i - 1] \o <<mark>> \o parts[i]
           join == CHOOSE join : join = [i \in 0 .. n |-> Next(join, i)]
<1>1. n \in Nat /\ (\A i \in 1 .. n : parts[i] \in Seq(S) /\ i - 1 \in 0 .. n) /\ 0 \in 0 .. n
      /\ \A i \in 0 .. n : i = 0 \/ i \in 1 .. n
  OBVIOUS
<1>2. StepsStay(F, n, Seq(S)) /\ \A i \in 1 .. n : \A x \in Seq(S) : F[i][x] = Add1(x, parts, i, mark)
  <2>1. ASSUME NEW i \in 1 .. n, NEW x \in Seq(S) PROVE Add1(x, parts, i, mark) \in Seq(S)
    <3>1. x \o <<mark>> \o parts[i] \in Seq(S) /\ parts[i] \in Seq(S)
      BY <1>1
    <3> QED
      BY <3>1 DEF Add1
  <2> QED
    BY <1>1, <2>1 DEF StepsStay
<1>3. ASSUME NEW f PROVE Next(f, 0) = <<>> /\ \A i \in 1 .. n : Next(f, i) = Add1(f[i - 1], parts, i, mark)
  BY DEF Add1
<1>4. Join(parts, mark) = join[n]
  BY DEF Join
<1>5. (\E f : f = [i \in 0 .. n |-> Next(f, i)]) => join = [i \in 0 .. n |-> Next(join, i)]
  OBVIOUS
<1>6. <<>> \in Seq(S)
  OBVIOUS
<1> HIDE DEF F, n, Next, join
<1>7. PICK g \in [0 .. n -> Seq(S)] : Follows(g, <<>>, F, n)
  BY <1>1, <1>2, <1>6, Recursion
<1>8. g[0] = <<>> /\ \A i \in 1 .. n : g[i] = Add1(g[i - 1], parts, i, mark)
  BY <1>1, <1>2, <1>7 DEF Follows
<1>9. g = [i \in 0 .. n |-> Next(g, i)]
  BY <1>1, <1>3, <1>8
<1>10. join[0] = <<>> /\ \A i \in 1 .. n : join[i] = Add1(join[i - 1], parts, i, mark)
  BY <1>1, <1>3, <1>5, <1>9
<1>11. SameStep(g, join, n)
  BY <1>8, <1>10 DEF SameStep
<1>12. g[n] = join[n]
  BY <1>1, <1>11, SameSteps
<1> QED
  BY <1>1, <1>4, <1>8, <1>12 DEF Joins, n

\* Join of no parts, and of one part more.
LEMMA JoinByPart ==
    ASSUME NEW S, NEW mark \in S
    PROVE  /\ Join(<<>>, mark) = <<>>
           /\ \A p \in Seq(Seq(S)) : Join(p, mark) \in Seq(S)
           /\ \A p \in Seq(Seq(S)), w \in Seq(S) :
                 Join(Append(p, w), mark) = IF p = <<>> THEN w ELSE Join(p, mark) \o <<mark>> \o w
<1>1. Join(<<>>, mark) = <<>>
  <2>1. <<>> \in Seq(Seq(S)) /\ Len(<<>>) = 0
    BY EmptySeq
  <2>2. PICK g \in [0 .. Len(<<>>) -> Seq(S)] : Joins(g, <<>>, mark) /\ Join(<<>>, mark) = g[Len(<<>>)]
    BY <2>1, JoinJoins
  <2> QED
    BY <2>1, <2>2 DEF Joins
<1>2. ASSUME NEW p \in Seq(Seq(S)) PROVE Join(p, mark) \in Seq(S)
  BY JoinJoins
<1>3. ASSUME NEW p \in Seq(Seq(S)), NEW w \in Seq(S)
      PROVE  Join(Append(p, w), mark) = IF p = <<>> THEN w ELSE Join(p, mark) \o <<mark>> \o w
  <2> DEFINE r == Append(p, w)
             n == Len(p)
  <2>1. /\ n \in Nat /\ r \in Seq(Seq(S)) /\ Len(r) = n + 1 /\ r[n + 1] = w
        /\ \A i \in 1 .. n : r[i] = p[i] /\ i \in 1 .. n + 1 /\ i - 1 \in 0 .. n
        /\ n + 1 \in 1 .. n + 1 /\ n \in 0 .. n /\ n + 1 - 1 = n
        /\ (n = 0 <=> p = <<>>) /\ (n + 1 = 1 <=> n = 0) /\ (n # 0 => 1 \in 1 .. n)
    OBVIOUS
  <2> HIDE DEF r, n
  <2>2. PICK g \in [0 .. n -> Seq(S)] : Joins(g, p, mark) /\ Join(p, mark) = g[n]
    BY JoinJoins DEF n
  <2>3. PICK h \in [0 .. n + 1 -> Seq(S)] : Joins(h, r, mark) /\ Join(r, mark) = h[n + 1]
    <3>1. \E h \in [0 .. Len(r) -> Seq(S)] : Joins(h, r, mark) /\ Join(r, mark) = h[Len(r)]
      BY <2>1, JoinJoins
    <3> QED
      BY <2>1, <3>1
  <2>4. SameStep(g, h, n)
    <3>1. ASSUME NEW i \in 1 .. n, g[i - 1] = h[i - 1] PROVE g[i] = h[i]
      <4>1. g[i] = Add1(g[i - 1], p, i, mark)
        BY <2>2 DEF Joins, n
      <4>2. h[i] = Add1(h[i - 1], r, i, mark)
        BY <2>1, <2>3 DEF Joins
      <4>3. r[i] = p[i] /\ (i = 1 => r[1] = p[1])
        BY <2>1
      <4> QED
        BY <3>1, <4>1, <4>2, <4>3 DEF Add1
    <3>2. g[0] = h[0]
      BY <2>2, <2>3 DEF Joins
    <3> QED
      BY <3>1, <3>2 DEF SameStep
  <2>5. g[n] = h[n]
    <3>1. n \in Nat
      BY <2>1
    <3> QED
      BY <2>4, <3>1, SameSteps
  <2>6. h[n + 1] = Add1(h[n], r, n + 1, mark)
    BY <2>1, <2>3 DEF Joins
  <2>7. Add1(h[n], r, n + 1, mark) = IF p = <<>> THEN w ELSE h[n] \o <<mark>> \o w
    BY <2>1 DEF Add1
  <2> QED
    BY <2>2, <2>3, <2>5, <2>6, <2>7 DEF r
<1> QED
  BY <1>1, <1>2, <1>3

-----------------------------------------------------------------------------
(* Paths                                                                   *)

JoinsLast(p, w, mark) == Join(Append(p, w), mark) = IF p = <<>> THEN w ELSE Join(p, mark) \o <<mark>> \o w

\* The same, under a name.
LEMMA JoinsOneMore ==
    ASSUME NEW S, NEW mark \in S, NEW p \in Seq(Seq(S)), NEW w \in Seq(S)
    PROVE  JoinsLast(p, w, mark)
  BY JoinByPart, ZenonT(60) DEF JoinsLast

\* A token is in a concatenation if it is in one of the two.
LEMMA OccursConcat ==
    ASSUME NEW X, NEW p \in Seq(X), NEW q \in Seq(X), NEW w
    PROVE  Occurs(w, p \o q) <=> Occurs(w, p) \/ Occurs(w, q)
<1>1. /\ Len(p) \in Nat /\ Len(q) \in Nat /\ DOMAIN p = 1 .. Len(p) /\ DOMAIN q = 1 .. Len(q)
      /\ DOMAIN (p \o q) = 1 .. Len(p) + Len(q)
      /\ \A i \in 1 .. Len(p) + Len(q) : (p \o q)[i] = IF i <= Len(p) THEN p[i] ELSE q[i - Len(p)]
  BY ConcatProperties
<1>2. ASSUME Occurs(w, p \o q) PROVE Occurs(w, p) \/ Occurs(w, q)
  <2>1. PICK i \in 1 .. Len(p) + Len(q) : (p \o q)[i] = w
    BY <1>1, <1>2 DEF Occurs
  <2>2. CASE i <= Len(p)
    BY <1>1, <2>1, <2>2 DEF Occurs
  <2>3. CASE ~(i <= Len(p))
    <3>1. i - Len(p) \in 1 .. Len(q) /\ q[i - Len(p)] = w
      BY <1>1, <2>1, <2>3
    <3> QED
      BY <1>1, <3>1 DEF Occurs
  <2> QED
    BY <2>2, <2>3
<1>3. ASSUME Occurs(w, p) PROVE Occurs(w, p \o q)
  <2>1. PICK i \in 1 .. Len(p) : p[i] = w
    BY <1>1, <1>3 DEF Occurs
  <2>2. i \in 1 .. Len(p) + Len(q) /\ (p \o q)[i] = w
    BY <1>1, <2>1
  <2> QED
    BY <1>1, <2>2 DEF Occurs
<1>4. ASSUME Occurs(w, q) PROVE Occurs(w, p \o q)
  <2>1. PICK i \in 1 .. Len(q) : q[i] = w
    BY <1>1, <1>4 DEF Occurs
  <2>2. i + Len(p) \in 1 .. Len(p) + Len(q) /\ ~(i + Len(p) <= Len(p)) /\ i + Len(p) - Len(p) = i
    BY <1>1, <2>1
  <2>3. (p \o q)[i + Len(p)] = w
    BY <1>1, <2>1, <2>2
  <2> QED
    BY <1>1, <2>2, <2>3 DEF Occurs
<1> QED
  BY <1>2, <1>3, <1>4

\* The same for one element more.
LEMMA OccursAppend ==
    ASSUME NEW X, NEW p \in Seq(X), NEW e \in X, NEW w
    PROVE  Occurs(w, Append(p, e)) <=> Occurs(w, p) \/ w = e
<1>1. /\ Len(p) \in Nat /\ DOMAIN p = 1 .. Len(p) /\ DOMAIN Append(p, e) = 1 .. Len(p) + 1
      /\ \A i \in 1 .. Len(p) : Append(p, e)[i] = p[i] /\ i \in 1 .. Len(p) + 1
      /\ Append(p, e)[Len(p) + 1] = e /\ Len(p) + 1 \in 1 .. Len(p) + 1
      /\ \A i \in 1 .. Len(p) + 1 : i = Len(p) + 1 \/ i \in 1 .. Len(p)
  OBVIOUS
<1>2. Occurs(w, Append(p, e)) <=> \E i \in 1 .. Len(p) + 1 : Append(p, e)[i] = w
  BY <1>1 DEF Occurs
<1>3. Occurs(w, p) <=> \E i \in 1 .. Len(p) : p[i] = w
  BY <1>1 DEF Occurs
<1> QED
  BY <1>1, <1>2, <1>3

KeepsConcat(p, q, w) == Keep(p \o q, w) = p \o Keep(q, w)

\* Whether a part is kept does not depend on those before it.
LEMMA KeepConcat ==
    ASSUME NEW X, NEW p \in Seq(X), NEW q \in Seq(X), NEW w \in X
    PROVE  KeepsConcat(p, q, w)
<1>1. p \o q \in Seq(X) /\ <<w>> \in Seq(X)
  BY ConcatProperties
<1>2. Append(p \o q, w) = (p \o q) \o <<w>>
  BY <1>1, AppendIsConcat
<1>3. Append(q, w) = q \o <<w>>
  BY AppendIsConcat
<1>4. (p \o q) \o <<w>> = p \o (q \o <<w>>)
  BY <1>1, ConcatAssociative
<1> QED
  BY <1>2, <1>3, <1>4 DEF Keep, KeepsConcat

\* The parts that count of two lists are those of each.
LEMMA CountedConcat ==
    ASSUME NEW X, NEW p \in Seq(X), NEW q \in Seq(X)
    PROVE  Counted(p \o q) = Counted(p) \o Counted(q)
<1> DEFINE T == {r \in Seq(X) : Counted(p \o r) = Counted(p) \o Counted(r)}
<1>1. <<>> \in T
  <2>1. p \o <<>> = p /\ Counted(p) \o <<>> = Counted(p) /\ Counted(<<>>) = <<>> /\ <<>> \in Seq(X)
    BY CountedByPart, ConcatEmptySeq
  <2> QED
    BY <2>1
<1>2. ASSUME NEW r \in Seq(X), NEW w \in X, Counted(p \o r) = Counted(p) \o Counted(r)
      PROVE  Counted(p \o Append(r, w)) = Counted(p) \o Counted(Append(r, w))
  <2> DEFINE pr == p \o r
             cp == Counted(p)
             cr == Counted(r)
  <2>1. cp \in Seq(X) /\ cr \in Seq(X) /\ pr \in Seq(X) /\ p \o Append(r, w) = Append(pr, w)
    BY CountedByPart, SMTT(60)
  <2> HIDE DEF pr
  <2>2. Counted(Append(pr, w)) = Keep(Counted(pr), w) /\ Counted(Append(r, w)) = Keep(cr, w)
    BY <2>1, CountedByPart
  <2>3. Counted(pr) = cp \o cr
    BY <1>2 DEF pr
  <2> HIDE DEF cp, cr
  <2>4. Keep(cp \o cr, w) = cp \o Keep(cr, w)
    <3>1. cp \in Seq(X) /\ cr \in Seq(X)
      BY <2>1
    <3>2. KeepsConcat(cp, cr, w)
      BY <3>1, KeepConcat
    <3> QED
      BY <3>2 DEF KeepsConcat
  <2> QED
    BY <2>1, <2>2, <2>3, <2>4 DEF cp
<1>3. <<>> \in T /\ \A r \in Seq(X), w \in X : r \in T => Append(r, w) \in T
  <2>1. \A r \in Seq(X), w \in X : Append(r, w) \in Seq(X)
    OBVIOUS
  <2> QED
    BY <1>1, <1>2, <2>1
<1> HIDE DEF T
<1>4. q \in T
  BY <1>3, SeqInduction
<1> QED
  BY <1>4 DEF T

\* The parts that count are some of the parts, and count.
LEMMA CountedMembers ==
    ASSUME NEW X, NEW p \in Seq(X)
    PROVE  Counted(p) \in Seq(X \ {<<>>, <<".">>}) /\ \A w : Occurs(w, Counted(p)) => Occurs(w, p)
<1> DEFINE Y == X \ {<<>>, <<".">>}
           Holds(r) == Counted(r) \in Seq(Y) /\ \A w : Occurs(w, Counted(r)) => Occurs(w, r)
           T == {r \in Seq(X) : Holds(r)}
<1>1. Holds(<<>>)
  <2>1. <<>> \in Seq(X) /\ <<>> \in Seq(Y)
    OBVIOUS
  <2> HIDE DEF Y
  <2> QED
    BY <2>1, CountedByPart
<1>2. ASSUME NEW r \in Seq(X), NEW w \in X, Holds(r) PROVE Holds(Append(r, w))
  <2>1. Counted(Append(r, w)) = Keep(Counted(r), w)
    BY CountedByPart
  <2>2. \A v : Occurs(v, Append(r, w)) <=> Occurs(v, r) \/ v = w
    BY OccursAppend
  <2>3. CASE w \in {<<>>, <<".">>}
    BY <1>2, <2>1, <2>2, <2>3 DEF Keep
  <2>4. CASE w \notin {<<>>, <<".">>}
    <3> DEFINE c == Counted(r)
    <3>1. c \in Seq(Y) /\ w \in Y
      BY <1>2, <2>4
    <3> HIDE DEF Y, c
    <3>2. Append(c, w) \in Seq(Y) /\ \A v : Occurs(v, Append(c, w)) <=> Occurs(v, c) \/ v = w
      BY <3>1, OccursAppend, AppendProperties
    <3>3. Counted(Append(r, w)) = Append(c, w)
      BY <2>1, <2>4 DEF Keep, c
    <3> QED
      BY <1>2, <2>2, <3>2, <3>3 DEF c
  <2> QED
    BY <2>3, <2>4
<1>3. <<>> \in T /\ \A r \in Seq(X), w \in X : r \in T => Append(r, w) \in T
  <2>1. <<>> \in Seq(X) /\ \A r \in Seq(X), w \in X : Append(r, w) \in Seq(X)
    OBVIOUS
  <2> HIDE DEF Holds
  <2> QED
    BY <1>1, <1>2, <2>1
<1> HIDE DEF T
<1>4. p \in T
  BY <1>3, SeqInduction
<1> QED
  BY <1>4 DEF T

\* A segment has no separator in it, and a string without one is a segment.
LEMMA SegmentsMembers ==
    ASSUME NEW S, NEW separators, NEW s \in Seq(S)
    PROVE  Segments(s, separators) \in Parts(S \ separators)
<1> DEFINE T == {r \in Seq(S) : Segments(r, separators) \in Parts(S \ separators)}
<1>1. Segments(<<>>, separators) \in Parts(S \ separators)
  <2>1. <<<<>>>> \in Parts(S \ separators)
    BY DEF Parts
  <2> QED
    BY <2>1, SegmentsByToken
<1>2. ASSUME NEW r \in Seq(S), NEW t \in S, Segments(r, separators) \in Parts(S \ separators)
      PROVE  Segments(Append(r, t), separators) \in Parts(S \ separators)
  <2> DEFINE P == Segments(r, separators)
  <2>1. Segments(Append(r, t), separators) = Extend(P, t, separators)
    BY SegmentsByToken
  <2>2. P \in Parts(S \ separators)
    BY <1>2
  <2> HIDE DEF P
  <2>3. CASE t \in separators
    <3>1. Append(P, <<>>) \in Parts(S \ separators)
      <4>1. P \in Seq(Seq(S \ separators)) /\ <<>> \in Seq(S \ separators)
        BY <2>2 DEF Parts
      <4> DEFINE X == Seq(S \ separators)
                 none == <<>>
      <4>2. P \in Seq(X) /\ none \in X
        BY <4>1
      <4> HIDE DEF X, none
      <4>3. Append(P, none) \in Seq(X) /\ Append(P, none) # <<>>
        BY <4>2, AppendProperties
      <4> QED
        BY <4>3 DEF Parts, X, none
    <3> QED
      BY <2>1, <2>3, <3>1 DEF Extend
  <2>4. CASE t \notin separators
    <3>1. t \in S \ separators
      BY <2>4
    <3> QED
      BY <2>1, <2>2, <3>1, ExtendTyped
  <2> QED
    BY <2>3, <2>4
<1>3. <<>> \in T /\ \A r \in Seq(S), w \in S : r \in T => Append(r, w) \in T
  <2>1. <<>> \in Seq(S) /\ \A r \in Seq(S), w \in S : Append(r, w) \in Seq(S)
    OBVIOUS
  <2> QED
    BY <1>1, <1>2, <2>1
<1> HIDE DEF T
<1>4. s \in T
  BY <1>3, SeqInduction
<1> QED
  BY <1>4 DEF T

\* A string without a separator is its only segment.
LEMMA SegmentsOfWord ==
    ASSUME NEW S, NEW separators, NEW w \in Seq(S \ separators)
    PROVE  Segments(w, separators) = <<w>>
<1> DEFINE R == S \ separators
           T == {r \in Seq(R) : Segments(r, separators) = <<r>>}
<1>1. Segments(<<>>, separators) = <<<<>>>>
  BY SegmentsByToken
<1>2. ASSUME NEW r \in Seq(R), NEW t \in R, Segments(r, separators) = <<r>>
      PROVE  Segments(Append(r, t), separators) = <<Append(r, t)>>
  <2>1. Segments(Append(r, t), separators) = Extend(<<r>>, t, separators)
    BY <1>2, SegmentsByToken
  <2> DEFINE e == Append(r, t)
  <2>2. Extend(<<r>>, t, separators) = [<<r>> EXCEPT ![1] = e]
    BY DEF Extend
  <2> HIDE DEF e
  <2>3. [<<r>> EXCEPT ![1] = e] = <<e>>
    OBVIOUS
  <2> QED
    BY <2>1, <2>2, <2>3 DEF e
<1>3. <<>> \in T /\ \A r \in Seq(R), t \in R : r \in T => Append(r, t) \in T
  <2>1. <<>> \in Seq(R) /\ \A r \in Seq(R), t \in R : Append(r, t) \in Seq(R)
    OBVIOUS
  <2> HIDE DEF R
  <2> QED
    BY <1>1, <1>2, <2>1
<1> HIDE DEF T
<1>4. w \in T
  BY <1>3, SeqInduction
<1> QED
  BY <1>4 DEF T

Slash == {"/"}
\* The segments that count.
Word(S) == Seq(S \ Slash) \ {<<>>, <<".">>}

\* A slash between two paths puts their segments one after the other.
PathsAdd(a, b) == PathSegments(a \o <<"/">> \o b) = PathSegments(a) \o PathSegments(b)

LEMMA PathConcat ==
    ASSUME NEW S, "/" \in S, NEW a \in Seq(S), NEW b \in Seq(S)
    PROVE  PathsAdd(a, b)
<1>1. Segments(a \o <<"/">> \o b, Slash) = Segments(a, Slash) \o Segments(b, Slash)
  <2>1. "/" \in S \cap Slash
    BY DEF Slash
  <2>2. CutsAt(a, "/", b, Slash)
    BY <2>1, SegmentsConcat
  <2> QED
    BY <2>2 DEF CutsAt
<1>2. Segments(a, Slash) \in Seq(Seq(S)) /\ Segments(b, Slash) \in Seq(Seq(S))
  BY SegmentsByToken DEF Parts
<1> QED
  BY <1>1, <1>2, CountedConcat DEF PathSegments, Slash, PathsAdd

\* A name is its own path; the empty string and "." have none.
LEMMA PathOfWord ==
    ASSUME NEW S, NEW w \in Seq(S \ Slash)
    PROVE  PathSegments(w) = IF w \in {<<>>, <<".">>} THEN <<>> ELSE <<w>>
<1>1. Segments(w, Slash) = <<w>>
  BY SegmentsOfWord
<1>2. Counted(<<w>>) = Keep(<<>>, w)
  <2> DEFINE X == Seq(S \ Slash)
             none == <<>>
  <2>1. none \in Seq(X) /\ <<w>> = Append(none, w)
    OBVIOUS
  <2> HIDE DEF X, none
  <2>2. Counted(Append(none, w)) = Keep(Counted(none), w)
    BY <2>1, CountedByPart DEF X
  <2> QED
    BY <2>1, <2>2, CountedByPart DEF none
<1>3. Append(<<>>, w) = <<w>>
  OBVIOUS
<1> QED
  BY <1>1, <1>2, <1>3 DEF PathSegments, Slash, Keep

\* The segments that count hold no slash, and are neither empty nor ".".
LEMMA PathWords ==
    ASSUME NEW S, NEW s \in Seq(S)
    PROVE  PathSegments(s) \in Seq(Word(S))
<1>1. Segments(s, Slash) \in Seq(Seq(S \ Slash))
  BY SegmentsMembers DEF Parts
<1> QED
  BY <1>1, CountedMembers DEF PathSegments, Slash, Word

\* They are strings of the same tokens.
LEMMA WordsTyped ==
    ASSUME NEW S
    PROVE  Seq(Word(S)) \subseteq Seq(Seq(S))
<1>1. Word(S) \subseteq Seq(S)
  BY DEF Word
<1> QED
  BY <1>1, SeqMonotonic

\* Joining segments and splitting the result gives them back, and the result
\* does not begin with a slash.
LEMMA PathOfJoin ==
    ASSUME NEW S, "/" \in S, NEW p \in Seq(Word(S))
    PROVE  PathSegments(Join(p, "/")) = p /\ ~IsAbsolute(Join(p, "/"))
<1> DEFINE W == Word(S)
           Holds(r) == PathSegments(Join(r, "/")) = r /\ ~IsAbsolute(Join(r, "/")) /\ (r # <<>> => Join(r, "/") # <<>>)
           T == {r \in Seq(W) : Holds(r)}
<1>1. Holds(<<>>)
  <2>1. Join(<<>>, "/") = <<>>
    BY JoinByPart
  <2>2. <<>> \in Seq(S \ Slash)
    OBVIOUS
  <2>3. PathSegments(<<>>) = <<>>
    BY <2>2, PathOfWord
  <2> QED
    BY <2>1, <2>3 DEF IsAbsolute
<1>2. ASSUME NEW r \in Seq(W), NEW w \in W, Holds(r) PROVE Holds(Append(r, w))
  <2> DEFINE j == Join(r, "/")
             k == Join(Append(r, w), "/")
  <2>1. r \in Seq(Seq(S)) /\ w \in Seq(S) /\ w \in Seq(S \ Slash) /\ w # <<>> /\ w # <<".">>
    BY WordsTyped DEF Word
  <2>2. j \in Seq(S) /\ k = IF r = <<>> THEN w ELSE j \o <<"/">> \o w
    <3> HIDE DEF W, j, k
    <3>1. j \in Seq(S) /\ JoinsLast(r, w, "/")
      <4>1. JoinsLast(r, w, "/")
        BY <2>1, JoinsOneMore
      <4> QED
        BY <2>1, <4>1, JoinByPart DEF j
    <3> QED
      BY <3>1 DEF JoinsLast, j, k
  <2>3. PathSegments(w) = <<w>>
    BY <2>1, PathOfWord
  <2>4. w[1] \in S \ Slash /\ ~IsAbsolute(w)
    <3>1. w[1] \in S \ Slash
      BY <2>1
    <3> QED
      BY <3>1 DEF IsAbsolute, Slash
  <2>5. PathSegments(j) = r /\ ~IsAbsolute(j) /\ (r # <<>> => j # <<>>)
    BY <1>2
  <2> HIDE DEF j, k, W
  <2>6. CASE r = <<>>
    <3>1. k = w /\ Append(r, w) = <<w>>
      BY <2>2, <2>6
    <3> QED
      BY <2>1, <2>3, <2>4, <3>1 DEF k
  <2>7. CASE r # <<>>
    <3>1. PathsAdd(j, w)
      BY <2>1, <2>2, PathConcat
    <3>2. k = j \o <<"/">> \o w
      BY <2>2, <2>7
    <3>3. PathSegments(k) = r \o <<w>>
      BY <2>3, <2>5, <3>1, <3>2 DEF PathsAdd
    <3>4. r \o <<w>> = Append(r, w)
      BY AppendIsConcat
    <3>5. k # <<>> /\ k[1] = j[1] /\ j # <<>>
      <4>1. j # <<>>
        BY <2>5, <2>7
      <4>2. j \in Seq(S) /\ <<"/">> \o w \in Seq(S) /\ k = j \o (<<"/">> \o w)
        BY <2>1, <2>2, <3>2
      <4> QED
        BY <4>1, <4>2
    <3> QED
      BY <2>5, <3>3, <3>4, <3>5 DEF k, IsAbsolute
  <2> QED
    BY <2>6, <2>7
<1>3. <<>> \in T /\ \A r \in Seq(W), w \in W : r \in T => Append(r, w) \in T
  <2>1. <<>> \in Seq(W) /\ \A r \in Seq(W), w \in W : Append(r, w) \in Seq(W)
    OBVIOUS
  <2> HIDE DEF Holds, W
  <2> QED
    BY <1>1, <1>2, <2>1
<1> HIDE DEF T
<1>4. p \in T
  BY <1>3, SeqInduction
<1> QED
  BY <1>4 DEF T

\* path.Clean, with which Resolve rewrites the paths of outputs, keeps the
\* segments that count and the leading slash: what was checked before it holds
\* after it.
THEOREM CleanKeeps ==
    ASSUME NEW S, "/" \in S, "." \in S, NEW s \in Seq(S)
    PROVE  /\ Clean(s) \in Seq(S)
           /\ PathSegments(Clean(s)) = PathSegments(s)
           /\ IsAbsolute(Clean(s)) <=> IsAbsolute(s)
<1> DEFINE names == PathSegments(s)
           j == Join(names, "/")
<1>1. names \in Seq(Word(S)) /\ names \in Seq(Seq(S))
  BY PathWords, WordsTyped
<1>2. j \in Seq(S) /\ PathSegments(j) = names /\ ~IsAbsolute(j)
  BY <1>1, PathOfJoin, JoinByPart
<1>3. Clean(s) = IF IsAbsolute(s) THEN <<"/">> \o j ELSE IF names = <<>> THEN <<".">> ELSE j
  BY DEF Clean
<1> HIDE DEF names, j
<1>4. CASE IsAbsolute(s)
  <2>1. <<"/">> \o j = <<>> \o <<"/">> \o j /\ <<"/">> \o j \in Seq(S) /\ IsAbsolute(<<"/">> \o j)
    BY <1>2 DEF IsAbsolute
  <2>2. <<>> \in Seq(S) /\ <<>> \in Seq(S \ Slash)
    OBVIOUS
  <2>3. PathsAdd(<<>>, j) /\ PathSegments(<<>>) = <<>>
    BY <1>2, <2>2, PathConcat, PathOfWord
  <2>4. PathSegments(<<"/">> \o j) = <<>> \o names
    BY <1>2, <2>1, <2>3 DEF PathsAdd
  <2>5. <<>> \o names = names
    BY <1>1
  <2> QED
    BY <1>3, <1>4, <2>1, <2>4, <2>5 DEF names
<1>5. CASE ~IsAbsolute(s) /\ names = <<>>
  <2>1. <<".">> \in Seq(S \ Slash) /\ <<".">> \in Seq(S) /\ ~IsAbsolute(<<".">>)
    BY DEF Slash, IsAbsolute
  <2>2. PathSegments(<<".">>) = <<>>
    BY <2>1, PathOfWord
  <2> QED
    BY <1>3, <1>5, <2>1, <2>2 DEF names
<1>6. CASE ~IsAbsolute(s) /\ names # <<>>
  BY <1>2, <1>3, <1>6 DEF names
<1> QED
  BY <1>4, <1>5, <1>6

-----------------------------------------------------------------------------
(* Recursion from the end, with jumps                                      *)

\* next[i] is the position that follows i, n + 1 is the end.
Leads(next, n) == \A i \in 1 .. n : next[i] \in i + 1 .. n + 1
Scans(g, base, F, next, n) == g[n + 1] = base /\ \A i \in 1 .. n : g[i] = F[i][g[next[i]]]

\* Induction from the last position down.
LEMMA DownInduction ==
    ASSUME NEW n \in Nat, NEW T, n + 1 \in T,
           \A i \in 1 .. n : (\A j \in i + 1 .. n + 1 : j \in T) => i \in T
    PROVE  1 .. n + 1 \subseteq T
<1> DEFINE U == {k \in 0 .. n : \A j \in n + 1 - k .. n + 1 : j \in T}
<1>1. 0 \in U
  OBVIOUS
<1>2. ASSUME NEW k \in 1 .. n, k - 1 \in U PROVE k \in U
  <2>1. n + 1 - k \in 1 .. n /\ n + 1 - (k - 1) = (n + 1 - k) + 1
    OBVIOUS
  <2>2. \A j \in (n + 1 - k) + 1 .. n + 1 : j \in T
    BY <1>2, <2>1
  <2>3. n + 1 - k \in T
    BY <2>1, <2>2
  <2>4. \A j \in n + 1 - k .. n + 1 : j = n + 1 - k \/ j \in (n + 1 - k) + 1 .. n + 1
    OBVIOUS
  <2> QED
    BY <2>2, <2>3, <2>4
<1> HIDE DEF U
<1>3. 0 .. n \subseteq U
  BY <1>1, <1>2, Induction
<1>4. n \in U
  BY <1>3
<1> QED
  BY <1>4 DEF U

\* A function that is given at its end, and elsewhere by a later position,
\* exists.
LEMMA DownRecursion ==
    ASSUME NEW X, NEW base \in X, NEW n \in Nat, NEW F, NEW next, Leads(next, n), StepsStay(F, n, X)
    PROVE  \E g \in [1 .. n + 1 -> X] : Scans(g, base, F, next, n)
<1> DEFINE Upto(k) == \E g \in [1 .. n + 1 -> X] :
                          g[n + 1] = base /\ \A i \in n + 1 - k .. n : i \in 1 .. n => g[i] = F[i][g[next[i]]]
           T == {k \in 0 .. n : Upto(k)}
<1>1. 0 \in T
  <2>1. [i \in 1 .. n + 1 |-> base] \in [1 .. n + 1 -> X] /\ [i \in 1 .. n + 1 |-> base][n + 1] = base
        /\ n + 1 - 0 .. n = {}
    OBVIOUS
  <2> QED
    BY <2>1
<1>2. ASSUME NEW k \in 1 .. n, k - 1 \in T PROVE k \in T
  <2> DEFINE m == n + 1 - k
  <2>1. PICK g \in [1 .. n + 1 -> X] :
           g[n + 1] = base /\ \A i \in n + 1 - (k - 1) .. n : i \in 1 .. n => g[i] = F[i][g[next[i]]]
    BY <1>2
  <2>2. m \in 1 .. n /\ m # n + 1 /\ \A i \in 1 .. n + 1 : i > m /\ i <= n => i \in n + 1 - (k - 1) .. n
    OBVIOUS
  <2> HIDE DEF m
  <2>3. next[m] \in 1 .. n + 1 /\ next[m] # m /\ F[m][g[next[m]]] \in X
    BY <2>1, <2>2 DEF Leads, StepsStay
  <2> DEFINE h == [i \in 1 .. n + 1 |-> IF i = m THEN F[m][g[next[m]]] ELSE g[i]]
  <2>4. h \in [1 .. n + 1 -> X] /\ h[n + 1] = base
    BY <2>1, <2>2, <2>3
  <2>5. ASSUME NEW i \in 1 .. n, i >= m PROVE h[i] = F[i][h[next[i]]]
    <3>1. next[i] \in 1 .. n + 1 /\ next[i] # m /\ i \in 1 .. n + 1
      BY <2>2, <2>5 DEF Leads
    <3>2. CASE i = m
      BY <3>1, <3>2
    <3>3. CASE i # m
      <4>1. g[i] = F[i][g[next[i]]]
        BY <2>1, <2>2, <2>5, <3>3
      <4> QED
        BY <3>1, <3>3, <4>1
    <3> QED
      BY <3>2, <3>3
  <2> HIDE DEF h
  <2>6. \A i \in n + 1 - k .. n : i \in 1 .. n => h[i] = F[i][h[next[i]]]
    BY <2>2, <2>5 DEF m
  <2> QED
    BY <2>4, <2>6
<1> HIDE DEF T
<1>3. 0 .. n \subseteq T
  BY <1>1, <1>2, Induction
<1>4. n \in T
  BY <1>3
<1>5. \A i \in 1 .. n : i \in n + 1 - n .. n
  OBVIOUS
<1> QED
  BY <1>4, <1>5 DEF T, Scans

-----------------------------------------------------------------------------
(* The pieces that expand takes                                            *)

\* The tokens of a piece are those of the string.
LEMMA SubSeqFacts ==
    ASSUME NEW S, NEW s \in Seq(S), NEW i \in 1 .. Len(s), NEW k \in i .. Len(s)
    PROVE  /\ SubSeq(s, i, k) \in Seq(S) /\ Len(SubSeq(s, i, k)) = k - i + 1
           /\ \A j \in 1 .. k - i + 1 : SubSeq(s, i, k)[j] = s[i + j - 1]
  OBVIOUS

\* Where a piece is a pair of dollar signs.
LEMMA PairAt ==
    ASSUME NEW S, NEW s \in Seq(S), NEW i \in 1 .. Len(s), NEW k \in i .. Len(s)
    PROVE  SubSeq(s, i, k) = <<"$", "$">> <=> k = i + 1 /\ s[i] = "$" /\ s[i + 1] = "$"
<1> DEFINE p == SubSeq(s, i, k)
<1>1. p \in Seq(S) /\ Len(p) = k - i + 1 /\ \A j \in 1 .. k - i + 1 : p[j] = s[i + j - 1]
  BY SubSeqFacts
<1>0. i \in Int /\ k \in Int /\ (k - i + 1 = 2 => k = i + 1)
  OBVIOUS
<1> HIDE DEF p
<1>2. ASSUME p = <<"$", "$">> PROVE k = i + 1 /\ s[i] = "$" /\ s[i + 1] = "$"
  <2>1. Len(p) = 2 /\ p[1] = "$" /\ p[2] = "$"
    BY <1>2
  <2>2. k = i + 1
    BY <1>0, <1>1, <2>1
  <2>3. p[1] = s[i + 1 - 1] /\ p[2] = s[i + 2 - 1] /\ i + 1 - 1 = i /\ i + 2 - 1 = i + 1
    BY <1>1, <2>2
  <2> QED
    BY <2>1, <2>2, <2>3
<1>3. ASSUME k = i + 1, s[i] = "$", s[i + 1] = "$" PROVE p = <<"$", "$">>
  <2>1. Len(p) = 2
    BY <1>1, <1>3
  <2>2. p[1] = s[i + 1 - 1] /\ p[2] = s[i + 2 - 1] /\ i + 1 - 1 = i /\ i + 2 - 1 = i + 1
    BY <1>1, <1>3
  <2> QED
    BY <1>1, <1>3, <2>1, <2>2
<1> QED
  BY <1>2, <1>3 DEF p

\* The braces by name: the SMT backend does not take them in strings.
Opening == "{"
Closing == "}"

\* s[i..k] is a reference.
Refers(s, i, k) ==
    /\ k >= i + 2 /\ s[i] = "$" /\ s[i + 1] = Opening /\ s[k] = Closing
    /\ \A j \in i + 2 .. k - 1 : s[j] # Closing

\* Where a piece is a reference ${name}.
LEMMA ReferenceAt ==
    ASSUME NEW S, NEW s \in Seq(S), NEW i \in 1 .. Len(s), NEW k \in i .. Len(s)
    PROVE  IsReference(SubSeq(s, i, k)) <=> Refers(s, i, k)
<1> DEFINE p == SubSeq(s, i, k)
<1>1. p \in Seq(S) /\ Len(p) = k - i + 1 /\ \A j \in 1 .. k - i + 1 : p[j] = s[i + j - 1]
  BY SubSeqFacts
<1> HIDE DEF p
<1>2. k >= i + 2 => p[1] = s[i] /\ p[2] = s[i + 1] /\ p[Len(p)] = s[k]
  <2> SUFFICES ASSUME k >= i + 2 PROVE p[1] = s[i] /\ p[2] = s[i + 1] /\ p[Len(p)] = s[k]
    OBVIOUS
  <2>1. /\ 1 \in 1 .. k - i + 1 /\ 2 \in 1 .. k - i + 1 /\ Len(p) \in 1 .. k - i + 1
        /\ i + 1 - 1 = i /\ i + 2 - 1 = i + 1 /\ i + Len(p) - 1 = k
    BY <1>1
  <2>2. p[1] = s[i + 1 - 1] /\ p[2] = s[i + 2 - 1] /\ p[Len(p)] = s[i + Len(p) - 1]
    BY <1>1, <2>1
  <2> QED
    BY <2>1, <2>2
<1>3. (\A j \in 3 .. Len(p) - 1 : p[j] # Closing) <=> \A j \in i + 2 .. k - 1 : s[j] # Closing
  <2>1. ASSUME \A j \in 3 .. Len(p) - 1 : p[j] # Closing, NEW j \in i + 2 .. k - 1 PROVE s[j] # Closing
    <3>1. j - i + 1 \in 3 .. Len(p) - 1 /\ j - i + 1 \in 1 .. k - i + 1 /\ i + (j - i + 1) - 1 = j
      BY <1>1
    <3> QED
      BY <1>1, <2>1, <3>1
  <2>2. ASSUME \A j \in i + 2 .. k - 1 : s[j] # Closing, NEW j \in 3 .. Len(p) - 1 PROVE p[j] # Closing
    <3>1. i + j - 1 \in i + 2 .. k - 1 /\ j \in 1 .. k - i + 1
      BY <1>1
    <3> QED
      BY <1>1, <2>2, <3>1
  <2> QED
    BY <2>1, <2>2
<1>4. Len(p) >= 3 <=> k >= i + 2
  BY <1>1
<1> QED
  BY <1>2, <1>3, <1>4 DEF IsReference, Refers, p, Opening, Closing

\* The piece that a reading of s has between i and k.
Legal(s, i, k) ==
    \/ SubSeq(s, i, k) = <<"$", "$">>
    \/ IsReference(SubSeq(s, i, k))
    \/ /\ i = k
       /\ s[i] = "$" => ~(\E j \in i .. Len(s) : IsReference(SubSeq(s, i, j)))
                        /\ (i = Len(s) \/ s[i + 1] # "$")

\* The closing brace that expand looks for is the end of the only reference
\* that begins there.
LEMMA BraceAt ==
    ASSUME NEW S, NEW s \in Seq(S), NEW i \in 1 .. Len(s)
    PROVE  /\ ClosingBrace(s, i) = 0 \/ (ClosingBrace(s, i) \in i + 2 .. Len(s) /\ Refers(s, i, ClosingBrace(s, i)))
           /\ \A k \in i .. Len(s) : Refers(s, i, k) => k = ClosingBrace(s, i)
<1> DEFINE n == Len(s)
           braces == {j \in i + 2 .. n : s[j] = Closing}
           first == CHOOSE j \in braces : \A k \in braces : j <= k
           open == i < n /\ s[i] = "$" /\ s[i + 1] = Opening /\ braces # {}
<1>0. n \in Nat /\ i \in 1 .. n
  OBVIOUS
<1>2. ClosingBrace(s, i) = IF open THEN first ELSE 0
  BY DEF ClosingBrace, Opening, Closing
<1> HIDE DEF n
<1>1. braces # {} => first \in braces /\ \A k \in braces : first <= k
  <2>1. braces \in SUBSET Nat
    BY <1>0
  <2> HIDE DEF braces
  <2> QED
    BY <2>1, LeastMember
<1>a. \A j : j \in braces <=> j \in i + 2 .. n /\ s[j] = Closing
  OBVIOUS
<1>b. open <=> i < n /\ s[i] = "$" /\ s[i + 1] = Opening /\ braces # {}
  OBVIOUS
<1> HIDE DEF open, first, braces
<1>3. ASSUME NEW k \in i .. n, Refers(s, i, k) PROVE open /\ k = first
  <2>1. k \in braces /\ i < n /\ s[i] = "$" /\ s[i + 1] = Opening
    BY <1>0, <1>3, <1>a DEF Refers
  <2>2. first \in i + 2 .. n /\ s[first] = Closing /\ first <= k
    BY <1>1, <1>a, <2>1
  <2>3. ~(first \in i + 2 .. k - 1)
    BY <1>3, <2>2 DEF Refers
  <2>4. k = first
    BY <1>0, <2>2, <2>3
  <2> QED
    BY <1>b, <2>1, <2>4
<1>4. ASSUME open PROVE first \in i + 2 .. n /\ Refers(s, i, first)
  <2>1. first \in i + 2 .. n /\ s[first] = Closing /\ \A k \in braces : first <= k
    BY <1>1, <1>4, <1>a, <1>b
  <2>2. \A j \in i + 2 .. first - 1 : s[j] # Closing
    <3> SUFFICES ASSUME NEW j \in i + 2 .. first - 1, s[j] = Closing PROVE FALSE
      OBVIOUS
    <3>1. j \in i + 2 .. n /\ ~(first <= j)
      BY <1>0, <2>1
    <3> QED
      BY <1>a, <2>1, <3>1
  <2>3. first >= i + 2
    BY <1>0, <2>1
  <2> QED
    BY <1>4, <1>b, <2>1, <2>2, <2>3 DEF Refers
<1> QED
  BY <1>2, <1>3, <1>4 DEF n

\* What one piece of a reading means, and the variable it misses.
Meant(p, env) == IF IsReference(p) THEN Value(env, NameOf(p)) ELSE p
Missed(p, env) == IF IsReference(p) /\ Value(env, NameOf(p)) = <<>> THEN {NameOf(p)} ELSE {}

\* The name in a reference, as expand cuts it out.
LEMMA NameAt ==
    ASSUME NEW S, NEW s \in Seq(S), NEW i \in 1 .. Len(s), NEW k \in i + 2 .. Len(s)
    PROVE  NameOf(SubSeq(s, i, k)) = SubSeq(s, i + 2, k - 1)
<1> DEFINE p == SubSeq(s, i, k)
           q == SubSeq(p, 3, Len(p) - 1)
           r == SubSeq(s, i + 2, k - 1)
<1>0. i \in Int /\ k \in Int /\ Len(s) \in Nat /\ k >= i + 2 /\ 1 <= i /\ k <= Len(s) /\ k \in i .. Len(s)
  OBVIOUS
<1>1. p \in Seq(S) /\ Len(p) = k - i + 1 /\ \A j \in 1 .. k - i + 1 : p[j] = s[i + j - 1]
  BY <1>0, SubSeqFacts
<1>2. q \in Seq(S) /\ Len(q) = k - i - 2 /\ \A j \in 1 .. k - i - 2 : q[j] = p[j + 2]
  <2> HIDE DEF p
  <2>1. \A j \in 3 .. Len(p) - 1 : p[j] \in S
    BY <1>0, <1>1
  <2> QED
    BY <1>0, <1>1, <2>1
<1>3. r \in Seq(S) /\ Len(r) = k - i - 2 /\ \A j \in 1 .. k - i - 2 : r[j] = s[i + j + 1]
  <2>1. \A j \in i + 2 .. k - 1 : s[j] \in S
    BY <1>0
  <2> QED
    BY <1>0, <2>1
<1> HIDE DEF p, q, r
<1>4. ASSUME NEW j \in 1 .. k - i - 2 PROVE q[j] = r[j]
  <2>1. j + 2 \in 1 .. k - i + 1 /\ i + (j + 2) - 1 = i + j + 1
    BY <1>0
  <2> QED
    BY <1>1, <1>2, <1>3, <2>1
<1>5. q = r
  BY <1>2, <1>3, <1>4, SeqEqual
<1> QED
  BY <1>5 DEF NameOf, p, q, r

PieceEnd(s, i, env) == i + PieceAt(s, i, env).width - 1

\* What expand takes at a position is one piece of the documented reading,
\* and no other piece may begin there; it writes what the piece means and
\* misses what it misses.
LEMMA PieceMeans ==
    ASSUME NEW S, NEW s \in Seq(S), NEW i \in 1 .. Len(s), NEW env
    PROVE  LET k == PieceEnd(s, i, env)
               p == SubSeq(s, i, k)
           IN  /\ k \in i .. Len(s)
               /\ \A j \in i .. Len(s) : Legal(s, i, j) <=> j = k
               /\ PieceAt(s, i, env).out = Meant(p, env)
               /\ PieceAt(s, i, env).missing = Missed(p, env)
<1> DEFINE n == Len(s)
           brace == ClosingBrace(s, i)
           pair == s[i] = "$" /\ i < n /\ s[i + 1] = "$"
           k == PieceEnd(s, i, env)
           p == SubSeq(s, i, k)
           piece == PieceAt(s, i, env)
           Goal == /\ k \in i .. n
                   /\ \A j \in i .. n : Legal(s, i, j) <=> j = k
                   /\ piece.out = Meant(p, env)
                   /\ piece.missing = Missed(p, env)
<1>0. n \in Nat /\ i \in 1 .. n /\ i \in i .. n /\ i \in Int
  OBVIOUS
<1>1. \A j \in i .. n : /\ IsReference(SubSeq(s, i, j)) <=> Refers(s, i, j)
                        /\ SubSeq(s, i, j) = <<"$", "$">> <=> j = i + 1 /\ s[i] = "$" /\ s[i + 1] = "$"
  BY ReferenceAt, PairAt
<1>2. /\ brace = 0 \/ (brace \in i + 2 .. n /\ Refers(s, i, brace))
      /\ \A j \in i .. n : Refers(s, i, j) => j = brace
  BY BraceAt
<1>3. \A j \in i .. n : Refers(s, i, j) => s[i] = "$" /\ s[i + 1] = Opening /\ j >= i + 2
  BY DEF Refers
<1>4. Opening # "$"
  BY DEF Opening
<1>5. SubSeq(s, i, i) = <<s[i]>>
  <2>1. /\ i \in i .. Len(s) /\ i - i + 1 = 1 /\ i + 1 - 1 = i
        /\ SubSeq(s, i, i) \in Seq(S) /\ Len(SubSeq(s, i, i)) = i - i + 1
        /\ \A j \in 1 .. i - i + 1 : SubSeq(s, i, i)[j] = s[i + j - 1]
    BY <1>0, SubSeqFacts
  <2>2. 1 \in 1 .. i - i + 1
    BY <2>1
  <2>3. Len(SubSeq(s, i, i)) = 1 /\ SubSeq(s, i, i)[1] = s[i]
    BY <2>1, <2>2
  <2> DEFINE q == SubSeq(s, i, i)
  <2>4. q \in Seq(S) /\ Len(q) = 1 /\ q[1] = s[i]
    BY <2>1, <2>3
  <2> HIDE DEF q
  <2>5. q = <<s[i]>>
    BY <2>4
  <2> QED
    BY <2>5 DEF q
<1> HIDE DEF n
<1>6. ASSUME pair PROVE Goal
  <2>0. brace = 0
    BY <1>2, <1>4, <1>6 DEF Refers
  <2>1. piece = Piece(2, <<"$", "$">>, {})
    BY <1>6, <2>0 DEF PieceAt, n
  <2>2. k = i + 1 /\ k \in i .. n /\ k \in Int
    BY <1>0, <1>6, <2>1 DEF PieceEnd, Piece
  <2>3. \A j \in i .. n : ~Refers(s, i, j)
    BY <1>3, <1>4, <1>6
  <2>4. p = <<"$", "$">> /\ ~IsReference(p)
    BY <1>1, <1>6, <2>2, <2>3
  <2>5. \A j \in i .. n : Legal(s, i, j) <=> j = k
    <3> SUFFICES ASSUME NEW j \in i .. n PROVE Legal(s, i, j) <=> j = k
      OBVIOUS
    <3>1. ~IsReference(SubSeq(s, i, j)) /\ (SubSeq(s, i, j) = <<"$", "$">> <=> j = k)
      BY <1>1, <1>6, <2>2, <2>3
    <3>2. ~(i = n \/ s[i + 1] # "$")
      BY <1>0, <1>6
    <3> QED
      BY <1>6, <3>1, <3>2 DEF Legal, n
  <2>6. piece.out = Meant(p, env) /\ piece.missing = Missed(p, env)
    BY <2>1, <2>4 DEF Meant, Missed, Piece
  <2> QED
    BY <2>2, <2>5, <2>6
<1>7. ASSUME ~pair, brace # 0 PROVE Goal
  <2>1. piece = Piece(brace - i + 1, Value(env, SubSeq(s, i + 2, brace - 1)),
                      IF Value(env, SubSeq(s, i + 2, brace - 1)) = <<>> THEN {SubSeq(s, i + 2, brace - 1)} ELSE {})
    BY <1>7 DEF PieceAt, n
  <2>2. brace \in i + 2 .. n /\ brace \in i .. n /\ brace \in Int /\ Refers(s, i, brace)
    BY <1>0, <1>2, <1>7
  <2>3. k = brace
    BY <1>0, <2>1, <2>2 DEF PieceEnd, Piece
  <2>4. IsReference(p) /\ NameOf(p) = SubSeq(s, i + 2, brace - 1)
    <3>1. NameOf(SubSeq(s, i, brace)) = SubSeq(s, i + 2, brace - 1)
      BY <2>2, NameAt DEF n
    <3> QED
      BY <1>1, <2>2, <2>3, <3>1
  <2>5. \A j \in i .. n : Legal(s, i, j) <=> j = k
    <3> SUFFICES ASSUME NEW j \in i .. n PROVE Legal(s, i, j) <=> j = k
      OBVIOUS
    <3>1. IsReference(SubSeq(s, i, j)) <=> j = k
      BY <1>1, <1>2, <2>2, <2>3
    <3>2. SubSeq(s, i, j) # <<"$", "$">>
      BY <1>1, <1>3, <1>4, <2>2
    <3>3. s[i] = "$" /\ \E x \in i .. Len(s) : IsReference(SubSeq(s, i, x))
      BY <1>1, <1>3, <2>2 DEF n
    <3> QED
      BY <3>1, <3>2, <3>3 DEF Legal
  <2>6. piece.out = Meant(p, env) /\ piece.missing = Missed(p, env)
    BY <2>1, <2>4 DEF Meant, Missed, Piece
  <2> QED
    BY <2>2, <2>3, <2>5, <2>6
<1>8. ASSUME ~pair, brace = 0 PROVE Goal
  <2>1. piece = Piece(1, <<s[i]>>, {})
    BY <1>8 DEF PieceAt, n
  <2>2. k = i /\ p = <<s[i]>>
    BY <1>0, <1>5, <2>1 DEF PieceEnd, Piece
  <2>3. \A j \in i .. n : ~Refers(s, i, j)
    <3> SUFFICES ASSUME NEW j \in i .. n, Refers(s, i, j) PROVE FALSE
      OBVIOUS
    <3>1. j = 0
      BY <1>2, <1>8
    <3> QED
      BY <1>0, <3>1
  <2>4. ~IsReference(p)
    BY <1>0, <1>1, <2>2, <2>3
  <2>5. \A j \in i .. n : Legal(s, i, j) <=> j = k
    <3> SUFFICES ASSUME NEW j \in i .. n PROVE Legal(s, i, j) <=> j = k
      OBVIOUS
    <3>1. ~IsReference(SubSeq(s, i, j)) /\ ~\E x \in i .. Len(s) : IsReference(SubSeq(s, i, x))
      BY <1>1, <2>3 DEF n
    <3>2. s[i] = "$" => i = n \/ s[i + 1] # "$"
      BY <1>0, <1>8
    <3>3. SubSeq(s, i, j) # <<"$", "$">>
      <4> SUFFICES ASSUME j = i + 1, s[i] = "$", s[i + 1] = "$" PROVE FALSE
        BY <1>1
      <4>1. i < n
        BY <1>0
      <4> QED
        BY <1>8, <4>1
    <3> QED
      BY <2>2, <3>1, <3>2, <3>3 DEF Legal, n
  <2>6. piece.out = Meant(p, env) /\ piece.missing = Missed(p, env)
    BY <2>1, <2>2, <2>4 DEF Meant, Missed, Piece
  <2> QED
    BY <1>0, <2>2, <2>5, <2>6
<1> QED
  BY <1>6, <1>7, <1>8 DEF n

\* Two functions that scan alike are the same.
SameScan(g, h, next, n) == g[n + 1] = h[n + 1] /\ \A i \in 1 .. n : g[next[i]] = h[next[i]] => g[i] = h[i]

\* Two functions that end alike and jump alike are alike.
LEMMA SameScans ==
    ASSUME NEW n \in Nat, NEW next, Leads(next, n), NEW g, NEW h, SameScan(g, h, next, n)
    PROVE  \A i \in 1 .. n + 1 : g[i] = h[i]
<1> DEFINE T == {i \in 1 .. n + 1 : g[i] = h[i]}
<1> USE DEF SameScan
<1>1. n + 1 \in T
  OBVIOUS
<1>2. \A i \in 1 .. n : (\A j \in i + 1 .. n + 1 : j \in T) => i \in T
  <2> SUFFICES ASSUME NEW i \in 1 .. n, \A j \in i + 1 .. n + 1 : j \in T PROVE i \in T
    OBVIOUS
  <2>1. next[i] \in T /\ i \in 1 .. n + 1
    BY DEF Leads
  <2> QED
    BY <2>1
<1> HIDE DEF T
<1>3. 1 .. n + 1 \subseteq T
  BY <1>1, <1>2, DownInduction
<1> QED
  BY <1>3 DEF T

\* env gives strings over S.
EnvOver(env, S) == \A name \in DOMAIN env : env[name] \in Seq(S)

Scanned(S) == [out : Seq(S), missing : SUBSET Seq(S)]

\* What is scanned from i on, of what is scanned after its piece.
ScanStep(s, i, env, rest) ==
    [out |-> PieceAt(s, i, env).out \o rest.out, missing |-> PieceAt(s, i, env).missing \cup rest.missing]

ScansText(g, s, env) ==
    /\ g[Len(s) + 1] = [out |-> <<>>, missing |-> {}]
    /\ \A i \in 1 .. Len(s) : g[i] = ScanStep(s, i, env, g[PieceEnd(s, i, env) + 1])

\* A variable has a string as its value, the empty one when it is not set.
LEMMA ValueTyped ==
    ASSUME NEW S, NEW env, EnvOver(env, S), NEW name
    PROVE  Value(env, name) \in Seq(S)
<1>1. <<>> \in Seq(S)
  OBVIOUS
<1> QED
  BY <1>1 DEF Value, EnvOver

\* Every piece is at least one token long and ends within the string.
LEMMA PieceTyped ==
    ASSUME NEW S, NEW s \in Seq(S), NEW env, EnvOver(env, S), NEW i \in 1 .. Len(s)
    PROVE  /\ PieceAt(s, i, env).out \in Seq(S) /\ PieceAt(s, i, env).missing \in SUBSET Seq(S)
           /\ PieceEnd(s, i, env) + 1 \in i + 1 .. Len(s) + 1
           /\ i + PieceAt(s, i, env).width = PieceEnd(s, i, env) + 1
<1> DEFINE k == PieceEnd(s, i, env)
           p == SubSeq(s, i, k)
<1>0. Len(s) \in Nat /\ i \in Int
  OBVIOUS
<1>1. k \in i .. Len(s) /\ PieceAt(s, i, env).out = Meant(p, env) /\ PieceAt(s, i, env).missing = Missed(p, env)
  BY PieceMeans
<1>2. p \in Seq(S) /\ Len(p) \in Nat
  BY <1>1, SubSeqFacts
<1>3. IsReference(p) => NameOf(p) \in Seq(S)
  <2> HIDE DEF p
  <2> SUFFICES ASSUME IsReference(p) PROVE NameOf(p) \in Seq(S)
    OBVIOUS
  <2>1. \A j \in 3 .. Len(p) - 1 : p[j] \in S
    BY <1>2
  <2>2. SubSeq(p, 3, Len(p) - 1) \in Seq(S)
    BY <1>2, <2>1
  <2> QED
    BY <2>2 DEF NameOf
<1>4. Meant(p, env) \in Seq(S) /\ Missed(p, env) \in SUBSET Seq(S)
  <2> HIDE DEF p
  <2> QED
    BY <1>2, <1>3, ValueTyped DEF Meant, Missed
<1>5. i + PieceAt(s, i, env).width = k + 1
  <2> DEFINE w == PieceAt(s, i, env).width
  <2>1. k = i + w - 1 /\ k \in Int
    BY <1>0, <1>1 DEF PieceEnd
  <2>2. w \in Int
    <3>1. w \in {1, 2, ClosingBrace(s, i) - i + 1}
      BY DEF PieceAt, Piece
    <3>2. ClosingBrace(s, i) \in Int
      <4>1. ClosingBrace(s, i) = 0 \/ ClosingBrace(s, i) \in i + 2 .. Len(s)
        BY BraceAt
      <4> QED
        BY <1>0, <4>1
    <3> HIDE DEF w
    <3> QED
      BY <1>0, <3>1, <3>2
  <2> HIDE DEF w, k
  <2>3. i + w = k + 1
    BY <1>0, <2>1, <2>2
  <2> QED
    BY <2>3 DEF w
<1> QED
  BY <1>0, <1>1, <1>4, <1>5

\* Expand is computed piece by piece, from the end of the string.
LEMMA ExpandScans ==
    ASSUME NEW S, NEW s \in Seq(S), NEW env, EnvOver(env, S)
    PROVE  \E g \in [1 .. Len(s) + 1 -> Scanned(S)] : ScansText(g, s, env) /\ Expand(s, env) = g[1]
<1> DEFINE n == Len(s)
           X == Scanned(S)
           base == [out |-> <<>>, missing |-> {}]
           next == [i \in 1 .. n |-> PieceEnd(s, i, env) + 1]
           F == [i \in 1 .. n |-> [x \in X |-> ScanStep(s, i, env, x)]]
           Next(f, i) == IF i > n THEN base
                         ELSE LET piece == PieceAt(s, i, env)
                                  rest == f[i + piece.width]
                              IN  [out |-> piece.out \o rest.out, missing |-> piece.missing \cup rest.missing]
           scan == CHOOSE scan : scan = [i \in 1 .. n + 1 |-> Next(scan, i)]
<1>1. n \in Nat /\ 1 \in 1 .. n + 1 /\ (\A i \in 1 .. n : ~(i > n) /\ i \in 1 .. n + 1) /\ n + 1 > n
      /\ n + 1 \in 1 .. n + 1 /\ \A i \in 1 .. n + 1 : i = n + 1 \/ i \in 1 .. n
  OBVIOUS
<1>2. \A i \in 1 .. n : /\ PieceAt(s, i, env).out \in Seq(S) /\ PieceAt(s, i, env).missing \in SUBSET Seq(S)
                        /\ PieceEnd(s, i, env) + 1 \in i + 1 .. n + 1
                        /\ i + PieceAt(s, i, env).width = PieceEnd(s, i, env) + 1
  BY PieceTyped
<1>3. base \in X
  <2>1. <<>> \in Seq(S)
    OBVIOUS
  <2> QED
    BY <2>1 DEF Scanned
<1>4. Leads(next, n)
  BY <1>2 DEF Leads
<1>5. StepsStay(F, n, X) /\ \A i \in 1 .. n : \A x \in X : F[i][x] = ScanStep(s, i, env, x)
  <2>1. ASSUME NEW i \in 1 .. n, NEW x \in X PROVE ScanStep(s, i, env, x) \in X
    <3>1. x.out \in Seq(S) /\ x.missing \in SUBSET Seq(S)
      BY DEF Scanned
    <3>2. PieceAt(s, i, env).out \o x.out \in Seq(S) /\ PieceAt(s, i, env).missing \cup x.missing \in SUBSET Seq(S)
      BY <1>2, <3>1
    <3> QED
      BY <3>2 DEF Scanned, ScanStep
  <2> QED
    BY <2>1 DEF StepsStay
<1>6. ASSUME NEW f PROVE Next(f, n + 1) = base /\ \A i \in 1 .. n : Next(f, i) = ScanStep(s, i, env, f[next[i]])
  BY <1>1, <1>2 DEF ScanStep
<1>7. Expand(s, env) = scan[1]
  BY DEF Expand
<1>8. (\E f : f = [i \in 1 .. n + 1 |-> Next(f, i)]) => scan = [i \in 1 .. n + 1 |-> Next(scan, i)]
  OBVIOUS
<1>9. \A i \in 1 .. n : next[i] = PieceEnd(s, i, env) + 1
  OBVIOUS
<1> HIDE DEF n, X, base, next, F, Next, scan
<1>10. PICK g \in [1 .. n + 1 -> X] : Scans(g, base, F, next, n)
  BY <1>1, <1>3, <1>4, <1>5, DownRecursion
<1>11. \A i \in 1 .. n : next[i] \in 1 .. n + 1
  BY <1>1, <1>4 DEF Leads
<1>12. g[n + 1] = base /\ \A i \in 1 .. n : g[i] = ScanStep(s, i, env, g[next[i]])
  BY <1>5, <1>10, <1>11 DEF Scans
<1>13. g = [i \in 1 .. n + 1 |-> Next(g, i)]
  BY <1>1, <1>6, <1>12
<1>14. scan[n + 1] = base /\ \A i \in 1 .. n : scan[i] = ScanStep(s, i, env, scan[next[i]])
  BY <1>1, <1>6, <1>8, <1>13
<1>15. g[1] = scan[1]
  <2>1. SameScan(g, scan, next, n)
    BY <1>12, <1>14 DEF SameScan
  <2>2. \A i \in 1 .. n + 1 : g[i] = scan[i]
    BY <1>1, <1>4, <2>1, SameScans
  <2> QED
    BY <1>1, <2>2
<1>16. ScansText(g, s, env)
  BY <1>9, <1>12 DEF ScansText, base, n
<1> QED
  BY <1>7, <1>15, <1>16 DEF n, X

\* Expand gives a string, and names of variables.
LEMMA ExpandTyped ==
    ASSUME NEW S, NEW s \in Seq(S), NEW env, EnvOver(env, S)
    PROVE  Expand(s, env) \in Scanned(S)
<1>1. PICK g \in [1 .. Len(s) + 1 -> Scanned(S)] : Expand(s, env) = g[1]
  BY ExpandScans
<1>2. 1 \in 1 .. Len(s) + 1
  OBVIOUS
<1> QED
  BY <1>1, <1>2

\* Without a dollar sign nothing is expanded: no token of the environment gets
\* into the string.
LEMMA LiteralExpands ==
    ASSUME NEW S, NEW R, NEW s \in Seq(S), s \in Seq(R), ~Occurs("$", s), NEW env, EnvOver(env, S)
    PROVE  Expand(s, env).out \in Seq(R)
<1> DEFINE n == Len(s)
<1>1. PICK g \in [1 .. n + 1 -> Scanned(S)] : ScansText(g, s, env) /\ Expand(s, env) = g[1]
  BY ExpandScans
<1> DEFINE T == {i \in 1 .. n + 1 : g[i].out \in Seq(R)}
<1>2. n \in Nat /\ DOMAIN s = 1 .. n /\ \A i \in 1 .. n : s[i] \in R
  OBVIOUS
<1>3. g[n + 1].out = <<>> /\ <<>> \in Seq(R)
  BY <1>1 DEF ScansText
<1>4. \A i \in 1 .. n : g[i] = ScanStep(s, i, env, g[PieceEnd(s, i, env) + 1])
  BY <1>1 DEF ScansText
<1> HIDE DEF n
<1>5. ASSUME NEW i \in 1 .. n, i + 1 \in T PROVE i \in T
  <2>1. s[i] # "$"
    BY <1>2 DEF Occurs
  <2>2. ClosingBrace(s, i) = 0
    BY <2>1 DEF ClosingBrace
  <2>3. PieceAt(s, i, env) = Piece(1, <<s[i]>>, {})
    BY <2>1, <2>2 DEF PieceAt
  <2>4. PieceEnd(s, i, env) + 1 = i + 1 /\ PieceAt(s, i, env).out = <<s[i]>>
    BY <2>3, <1>2 DEF PieceEnd, Piece
  <2>5. g[i] = ScanStep(s, i, env, g[i + 1])
    BY <1>4, <2>4
  <2>6. g[i].out = <<s[i]>> \o g[i + 1].out
    BY <2>4, <2>5 DEF ScanStep
  <2>7. <<s[i]>> \in Seq(R) /\ g[i + 1].out \in Seq(R) /\ i \in 1 .. n + 1
    BY <1>2, <1>5
  <2>8. g[i].out \in Seq(R)
    <3>1. ASSUME NEW a \in Seq(R), NEW b \in Seq(R) PROVE a \o b \in Seq(R)
      OBVIOUS
    <3> QED
      BY <2>6, <2>7, <3>1
  <2> QED
    BY <2>7, <2>8
<1>6. n + 1 \in T
  <2>1. n + 1 \in 1 .. n + 1
    BY <1>2
  <2> QED
    BY <1>3, <2>1
<1>7. \A i \in 1 .. n : (\A j \in i + 1 .. n + 1 : j \in T) => i \in T
  <2> SUFFICES ASSUME NEW i \in 1 .. n, \A j \in i + 1 .. n + 1 : j \in T PROVE i \in T
    OBVIOUS
  <2>1. i + 1 \in i + 1 .. n + 1
    BY <1>2
  <2> QED
    BY <1>5, <2>1
<1> HIDE DEF T
<1>8. 1 \in T
  <2>1. 1 .. n + 1 \subseteq T
    BY <1>2, <1>6, <1>7, DownInduction
  <2> QED
    BY <1>2, <2>1
<1> QED
  BY <1>1, <1>8 DEF T

-----------------------------------------------------------------------------
(* The meaning of a reading                                                *)

\* A piece means a string.
LEMMA MeantTyped ==
    ASSUME NEW S, NEW env, EnvOver(env, S), NEW p \in Seq(S)
    PROVE  Meant(p, env) \in Seq(S)
  BY ValueTyped DEF Meant

\* What the pieces so far and one more mean.
AddMeant(x, p, env) == x \o Meant(p, env)

\* g gives what every prefix of the pieces means.
Means(g, pieces, env) ==
    /\ g[0] = <<>>
    /\ \A i \in 1 .. Len(pieces) : g[i] = AddMeant(g[i - 1], pieces[i], env)

MeansWhole(pieces, env, S) ==
    \E g \in [0 .. Len(pieces) -> Seq(S)] : Means(g, pieces, env) /\ MeaningOf(pieces, env) = g[Len(pieces)]

\* MeaningOf is computed piece by piece.
LEMMA MeaningMeans ==
    ASSUME NEW S, NEW env, EnvOver(env, S)
    PROVE  \A pieces \in Seq(Seq(S)) : MeansWhole(pieces, env, S)
<1> SUFFICES ASSUME NEW pieces \in Seq(Seq(S)) PROVE MeansWhole(pieces, env, S)
  OBVIOUS
<1> DEFINE n == Len(pieces)
           F == [i \in 1 .. n |-> [x \in Seq(S) |-> AddMeant(x, pieces[i], env)]]
           Next(f, i) == IF i = 0 THEN <<>> ELSE AddMeant(f[i - 1], pieces[i], env)
           meaning == CHOOSE meaning : meaning = [i \in 0 .. n |-> Next(meaning, i)]
<1>1. n \in Nat /\ (\A i \in 1 .. n : pieces[i] \in Seq(S) /\ i - 1 \in 0 .. n) /\ 0 \in 0 .. n
      /\ \A i \in 0 .. n : i = 0 \/ i \in 1 .. n
  OBVIOUS
<1>2. StepsStay(F, n, Seq(S)) /\ \A i \in 1 .. n : \A x \in Seq(S) : F[i][x] = AddMeant(x, pieces[i], env)
  <2>1. ASSUME NEW i \in 1 .. n, NEW x \in Seq(S) PROVE AddMeant(x, pieces[i], env) \in Seq(S)
    <3>1. Meant(pieces[i], env) \in Seq(S)
      BY <1>1, MeantTyped
    <3> QED
      BY <3>1 DEF AddMeant
  <2> QED
    BY <1>1, <2>1 DEF StepsStay
<1>3. ASSUME NEW f PROVE Next(f, 0) = <<>> /\ \A i \in 1 .. n : Next(f, i) = AddMeant(f[i - 1], pieces[i], env)
  OBVIOUS
<1>4. MeaningOf(pieces, env) = meaning[n]
  BY DEF MeaningOf, Meant, AddMeant
<1>5. (\E f : f = [i \in 0 .. n |-> Next(f, i)]) => meaning = [i \in 0 .. n |-> Next(meaning, i)]
  OBVIOUS
<1>6. <<>> \in Seq(S)
  OBVIOUS
<1> HIDE DEF F, n, Next, meaning
<1>7. PICK g \in [0 .. n -> Seq(S)] : Follows(g, <<>>, F, n)
  BY <1>1, <1>2, <1>6, Recursion
<1>8. g[0] = <<>> /\ \A i \in 1 .. n : g[i] = AddMeant(g[i - 1], pieces[i], env)
  BY <1>1, <1>2, <1>7 DEF Follows
<1>9. g = [i \in 0 .. n |-> Next(g, i)]
  BY <1>1, <1>3, <1>8
<1>10. meaning[0] = <<>> /\ \A i \in 1 .. n : meaning[i] = AddMeant(meaning[i - 1], pieces[i], env)
  BY <1>1, <1>3, <1>5, <1>9
<1>11. SameStep(g, meaning, n)
  BY <1>8, <1>10 DEF SameStep
<1>12. g[n] = meaning[n]
  BY <1>1, <1>11, SameSteps
<1> QED
  BY <1>1, <1>4, <1>8, <1>12 DEF Means, MeansWhole, n

\* One more piece at the end.
MeansLast(p, x, env) == MeaningOf(Append(p, x), env) = AddMeant(MeaningOf(p, env), x, env)

\* The meaning of no pieces, and of one piece more.
LEMMA MeaningByPiece ==
    ASSUME NEW S, NEW env, EnvOver(env, S)
    PROVE  /\ MeaningOf(<<>>, env) = <<>>
           /\ \A p \in Seq(Seq(S)) : MeaningOf(p, env) \in Seq(S)
           /\ \A p \in Seq(Seq(S)), x \in Seq(S) : MeansLast(p, x, env)
<1>0. \A p \in Seq(Seq(S)) : MeansWhole(p, env, S)
  BY MeaningMeans
<1>1. MeaningOf(<<>>, env) = <<>>
  <2>1. <<>> \in Seq(Seq(S)) /\ Len(<<>>) = 0
    BY EmptySeq
  <2>2. MeansWhole(<<>>, env, S)
    BY <1>0, <2>1
  <2> QED
    BY <2>1, <2>2 DEF Means, MeansWhole
<1>2. ASSUME NEW p \in Seq(Seq(S)) PROVE MeaningOf(p, env) \in Seq(S)
  BY <1>0 DEF MeansWhole
<1>3. ASSUME NEW p \in Seq(Seq(S)), NEW x \in Seq(S) PROVE MeansLast(p, x, env)
  <2> DEFINE r == Append(p, x)
             n == Len(p)
  <2>1. /\ n \in Nat /\ r \in Seq(Seq(S)) /\ Len(r) = n + 1 /\ r[n + 1] = x
        /\ \A i \in 1 .. n : r[i] = p[i] /\ i \in 1 .. n + 1 /\ i - 1 \in 0 .. n
        /\ n + 1 \in 1 .. n + 1 /\ n \in 0 .. n /\ n + 1 - 1 = n
    OBVIOUS
  <2> HIDE DEF r, n
  <2>2. PICK g \in [0 .. n -> Seq(S)] : Means(g, p, env) /\ MeaningOf(p, env) = g[n]
    <3>1. MeansWhole(p, env, S)
      BY <1>0
    <3> QED
      BY <3>1 DEF MeansWhole, n
  <2>3. PICK h \in [0 .. n + 1 -> Seq(S)] : Means(h, r, env) /\ MeaningOf(r, env) = h[n + 1]
    <3>1. MeansWhole(r, env, S)
      BY <1>0, <2>1
    <3> QED
      BY <2>1, <3>1 DEF MeansWhole
  <2>4. SameStep(g, h, n)
    <3>1. ASSUME NEW i \in 1 .. n, g[i - 1] = h[i - 1] PROVE g[i] = h[i]
      <4>1. g[i] = AddMeant(g[i - 1], p[i], env)
        BY <2>2 DEF Means, n
      <4>2. h[i] = AddMeant(h[i - 1], r[i], env)
        BY <2>1, <2>3 DEF Means
      <4>3. r[i] = p[i]
        BY <2>1
      <4> QED
        BY <3>1, <4>1, <4>2, <4>3
    <3>2. g[0] = h[0]
      BY <2>2, <2>3 DEF Means
    <3> QED
      BY <3>1, <3>2 DEF SameStep
  <2>5. g[n] = h[n]
    <3>1. n \in Nat
      BY <2>1
    <3> QED
      BY <2>4, <3>1, SameSteps
  <2>6. h[n + 1] = AddMeant(h[n], x, env)
    BY <2>1, <2>3 DEF Means
  <2> QED
    BY <2>2, <2>3, <2>5, <2>6 DEF r, MeansLast
<1> QED
  BY <1>1, <1>2, <1>3

\* One more piece in front.
MeansFirst(x, p, env) == MeaningOf(<<x>> \o p, env) = Meant(x, env) \o MeaningOf(p, env)

\* The meaning of a reading begins with that of its first piece.
LEMMA MeaningOfFirst ==
    ASSUME NEW S, NEW env, EnvOver(env, S), NEW x \in Seq(S), NEW p \in Seq(Seq(S))
    PROVE  MeansFirst(x, p, env)
<1> DEFINE R == Seq(S)
           m == Meant(x, env)
           T == {q \in Seq(R) : MeansFirst(x, q, env)}
<1>0. m \in Seq(S)
  BY MeantTyped
<1>1. MeansFirst(x, <<>>, env)
  <2>1. <<>> \in Seq(Seq(S)) /\ Append(<<>>, x) = <<x>> /\ <<x>> \o <<>> = <<x>>
    OBVIOUS
  <2>2. MeansLast(<<>>, x, env) /\ MeaningOf(<<>>, env) = <<>>
    BY <2>1, MeaningByPiece
  <2>3. <<>> \o m = m /\ m \o <<>> = m
    BY <1>0
  <2> QED
    BY <2>1, <2>2, <2>3 DEF MeansFirst, MeansLast, AddMeant
<1>2. ASSUME NEW q \in Seq(R), NEW y \in R, MeansFirst(x, q, env) PROVE MeansFirst(x, Append(q, y), env)
  <2>1. <<x>> \o Append(q, y) = Append(<<x>> \o q, y) /\ <<x>> \o q \in Seq(Seq(S))
    <3>1. <<x>> \in Seq(R) /\ <<y>> \in Seq(R) /\ q \in Seq(R)
      OBVIOUS
    <3> DEFINE a == <<x>>
               b == <<y>>
    <3>2. Append(q, y) = q \o b
      BY AppendIsConcat
    <3>3. a \o q \in Seq(R)
      BY <3>1, ConcatProperties
    <3>4. Append(a \o q, y) = (a \o q) \o b
      BY <3>3, AppendIsConcat
    <3>5. (a \o q) \o b = a \o (q \o b)
      BY <3>1, ConcatAssociative
    <3> QED
      BY <3>2, <3>3, <3>4, <3>5
  <2>2. MeansLast(<<x>> \o q, y, env) /\ MeansLast(q, y, env)
    BY <2>1, MeaningByPiece
  <2>3. MeaningOf(q, env) \in Seq(S) /\ Meant(y, env) \in Seq(S)
    BY MeaningByPiece, MeantTyped
  <2>4. (m \o MeaningOf(q, env)) \o Meant(y, env) = m \o (MeaningOf(q, env) \o Meant(y, env))
    BY <1>0, <2>3, ConcatAssociative, SMTT(60)
  <2>5. MeaningOf(Append(<<x>> \o q, y), env) = (m \o MeaningOf(q, env)) \o Meant(y, env)
    BY <1>2, <2>2 DEF MeansFirst, MeansLast, AddMeant
  <2>6. MeaningOf(Append(q, y), env) = MeaningOf(q, env) \o Meant(y, env)
    BY <2>2 DEF MeansLast, AddMeant
  <2> QED
    BY <2>1, <2>4, <2>5, <2>6 DEF MeansFirst
<1>3. <<>> \in T /\ \A q \in Seq(R), y \in R : q \in T => Append(q, y) \in T
  <2>1. <<>> \in Seq(R) /\ \A q \in Seq(R), y \in R : Append(q, y) \in Seq(R)
    OBVIOUS
  <2> HIDE DEF R
  <2> QED
    BY <1>1, <1>2, <2>1
<1> HIDE DEF T
<1>4. p \in T
  BY <1>3, SeqInduction
<1> QED
  BY <1>4 DEF T

MissesFirst(x, p, env) == MissingIn(<<x>> \o p, env) = Missed(x, env) \cup MissingIn(p, env)

\* A reading misses what its first piece and the rest of it miss.
LEMMA MissingInFirst ==
    ASSUME NEW S, NEW env, NEW x \in Seq(S), NEW p \in Seq(Seq(S))
    PROVE  MissesFirst(x, p, env)
<1> DEFINE R == Seq(S)
           xp == <<x>> \o p
           Parts1(q) == {q[n] : n \in DOMAIN q}
           Misses(q) == IsReference(q) /\ Value(env, NameOf(q)) = <<>>
<1>1. Parts1(xp) = {x} \cup Parts1(p)
  <2>1. <<x>> \in Seq(R) /\ Len(<<x>>) = 1 /\ <<x>>[1] = x /\ Len(p) \in Nat
    OBVIOUS
  <2>2. /\ xp \in Seq(R) /\ Len(xp) = 1 + Len(p)
        /\ \A j \in 1 .. 1 + Len(p) : xp[j] = IF j <= 1 THEN <<x>>[j] ELSE p[j - 1]
    <3> HIDE DEF R
    <3> QED
      BY <2>1, ConcatProperties DEF R
  <2> HIDE DEF xp
  <2>3. DOMAIN xp = 1 .. 1 + Len(p) /\ DOMAIN p = 1 .. Len(p)
    BY <2>2
  <2>4. xp[1] = x /\ 1 \in DOMAIN xp
    BY <2>1, <2>2, <2>3
  <2>5. \A j \in DOMAIN p : j + 1 \in DOMAIN xp /\ xp[j + 1] = p[j]
    <3> SUFFICES ASSUME NEW j \in 1 .. Len(p) PROVE j + 1 \in DOMAIN xp /\ xp[j + 1] = p[j]
      BY <2>3
    <3>1. j + 1 \in 1 .. 1 + Len(p) /\ ~(j + 1 <= 1) /\ j + 1 - 1 = j
      BY <2>1
    <3>2. xp[j + 1] = p[j + 1 - 1]
      BY <2>2, <3>1
    <3> QED
      BY <2>3, <3>1, <3>2
  <2>6. \A j \in DOMAIN xp : j = 1 \/ (j - 1 \in DOMAIN p /\ xp[j] = p[j - 1])
    BY <2>1, <2>2, <2>3, SMTT(60)
  <2> QED
    BY <2>4, <2>5, <2>6
<1>2. \A q : MissingIn(q, env) = {NameOf(r) : r \in {y \in Parts1(q) : Misses(y)}}
  BY DEF MissingIn
<1>3. Missed(x, env) = IF Misses(x) THEN {NameOf(x)} ELSE {}
  BY DEF Missed
<1> HIDE DEF Misses, Parts1, xp
<1>4. MissingIn(xp, env) = Missed(x, env) \cup MissingIn(p, env)
  BY <1>1, <1>2, <1>3
<1> QED
  BY <1>4 DEF xp, MissesFirst

\* No pieces miss nothing.
LEMMA MissingInNone ==
    ASSUME NEW env
    PROVE  MissingIn(<<>>, env) = {}
  BY DEF MissingIn

-----------------------------------------------------------------------------
(* The one reading                                                         *)

ReadStep(s, i, env, rest) == <<SubSeq(s, i, PieceEnd(s, i, env))>> \o rest

\* r[i] is the reading of s from i on that takes the pieces of expand.
Reads(r, s, env) ==
    /\ r[Len(s) + 1] = <<>>
    /\ \A i \in 1 .. Len(s) : r[i] = ReadStep(s, i, env, r[PieceEnd(s, i, env) + 1])

\* The piece that is taken at a position lies in the string.
LEMMA PieceEndIn ==
    ASSUME NEW S, NEW s \in Seq(S), NEW env, NEW i \in 1 .. Len(s)
    PROVE  /\ PieceEnd(s, i, env) \in i .. Len(s) /\ PieceEnd(s, i, env) + 1 \in i + 1 .. Len(s) + 1
           /\ SubSeq(s, i, PieceEnd(s, i, env)) \in Seq(S)
           /\ \A j \in i .. Len(s) : Legal(s, i, j) <=> j = PieceEnd(s, i, env)
<1>1. /\ PieceEnd(s, i, env) \in i .. Len(s)
      /\ \A j \in i .. Len(s) : Legal(s, i, j) <=> j = PieceEnd(s, i, env)
  BY PieceMeans
<1>2. SubSeq(s, i, PieceEnd(s, i, env)) \in Seq(S)
  BY <1>1, SubSeqFacts
<1>3. Len(s) \in Nat /\ i \in Int
  OBVIOUS
<1>4. PieceEnd(s, i, env) + 1 \in i + 1 .. Len(s) + 1
  BY <1>1, <1>3
<1> QED
  BY <1>1, <1>2, <1>4

\* The pieces that expand takes, one after the other, are a list.
LEMMA ReadsExist ==
    ASSUME NEW S, NEW s \in Seq(S), NEW env
    PROVE  \E r \in [1 .. Len(s) + 1 -> Seq(Seq(S))] : Reads(r, s, env)
<1> DEFINE n == Len(s)
           R == Seq(S)
           X == Seq(R)
           base == <<>>
           next == [i \in 1 .. n |-> PieceEnd(s, i, env) + 1]
           F == [i \in 1 .. n |-> [x \in X |-> ReadStep(s, i, env, x)]]
<1>1. n \in Nat /\ base \in X
  OBVIOUS
<1>2. \A i \in 1 .. n : /\ PieceEnd(s, i, env) + 1 \in i + 1 .. n + 1
                        /\ SubSeq(s, i, PieceEnd(s, i, env)) \in R
  BY PieceEndIn
<1>3. Leads(next, n)
  BY <1>2 DEF Leads
<1>4. StepsStay(F, n, X) /\ \A i \in 1 .. n : \A x \in X : F[i][x] = ReadStep(s, i, env, x)
  <2> SUFFICES ASSUME NEW i \in 1 .. n, NEW x \in X PROVE ReadStep(s, i, env, x) \in X
    BY DEF StepsStay
  <2>1. SubSeq(s, i, PieceEnd(s, i, env)) \in R
    BY <1>2
  <2> HIDE DEF R
  <2>2. <<SubSeq(s, i, PieceEnd(s, i, env))>> \in Seq(R)
    BY <2>1
  <2> QED
    BY <2>2, ConcatProperties DEF ReadStep
<1>5. \A i \in 1 .. n : next[i] = PieceEnd(s, i, env) + 1
  OBVIOUS
<1> HIDE DEF n, R, X, base, next, F
<1>6. PICK g \in [1 .. n + 1 -> X] : Scans(g, base, F, next, n)
  BY <1>1, <1>3, <1>4, DownRecursion
<1>7. \A i \in 1 .. n : next[i] \in 1 .. n + 1
  BY <1>1, <1>3 DEF Leads
<1>8. g[n + 1] = base /\ \A i \in 1 .. n : g[i] = ReadStep(s, i, env, g[PieceEnd(s, i, env) + 1])
  BY <1>4, <1>5, <1>6, <1>7 DEF Scans
<1> QED
  BY <1>8 DEF Reads, n, X, R, base

\* That list is the only reading of the string.
LEMMA ReadOnce ==
    ASSUME NEW S, NEW s \in Seq(S), NEW env,
           NEW r \in [1 .. Len(s) + 1 -> Seq(Seq(S))], Reads(r, s, env)
    PROVE  Readings(s) = {r[1]}
<1> DEFINE n == Len(s)
           next == [i \in 1 .. n |-> PieceEnd(s, i, env) + 1]
           One(f, i) == {ReadStep(s, i, env, rest) : rest \in f[next[i]]}
           Next(f, i) == IF i > n THEN {<<>>}
                         ELSE UNION {{<<SubSeq(s, i, k)>> \o rest : rest \in f[k + 1]}
                                       : k \in {j \in i .. n : Legal(s, i, j)}}
           from == CHOOSE from : from = [i \in 1 .. n + 1 |-> Next(from, i)]
           g == [i \in 1 .. n + 1 |-> {r[i]}]
<1>1. n \in Nat /\ 1 \in 1 .. n + 1 /\ (\A i \in 1 .. n : ~(i > n) /\ i \in 1 .. n + 1) /\ n + 1 > n
      /\ n + 1 \in 1 .. n + 1 /\ \A i \in 1 .. n + 1 : i = n + 1 \/ i \in 1 .. n
  OBVIOUS
<1>2. \A i \in 1 .. n : /\ PieceEnd(s, i, env) \in i .. n /\ PieceEnd(s, i, env) + 1 \in i + 1 .. n + 1
                        /\ \A j \in i .. n : Legal(s, i, j) <=> j = PieceEnd(s, i, env)
  BY PieceEndIn
<1>3. Leads(next, n) /\ \A i \in 1 .. n : next[i] = PieceEnd(s, i, env) + 1
  BY <1>2 DEF Leads
<1>4. ASSUME NEW f PROVE Next(f, n + 1) = {<<>>} /\ \A i \in 1 .. n : Next(f, i) = One(f, i)
  <2>1. ASSUME NEW i \in 1 .. n PROVE Next(f, i) = One(f, i)
    <3> DEFINE k0 == PieceEnd(s, i, env)
    <3> DEFINE From(k) == {<<SubSeq(s, i, k)>> \o rest : rest \in f[k + 1]}
               K == {j \in i .. n : Legal(s, i, j)}
    <3>1. K = {k0}
      BY <1>2
    <3>2. Next(f, i) = UNION {From(k) : k \in K}
      BY <1>1
    <3> HIDE DEF k0, K, From, Next
    <3>3. Next(f, i) = From(k0)
      BY <3>1, <3>2
    <3>4. One(f, i) = From(k0)
      BY <1>3 DEF ReadStep, k0, From
    <3> QED
      BY <3>3, <3>4
  <2>2. Next(f, n + 1) = {<<>>}
    BY <1>1
  <2> QED
    BY <2>1, <2>2
<1>5. Readings(s) = from[1]
  BY DEF Readings, Legal
<1>6. (\E f : f = [i \in 1 .. n + 1 |-> Next(f, i)]) => from = [i \in 1 .. n + 1 |-> Next(from, i)]
  OBVIOUS
<1>7. \A i \in 1 .. n + 1 : g[i] = {r[i]}
  OBVIOUS
<1>8. r[n + 1] = <<>> /\ \A i \in 1 .. n : r[i] = ReadStep(s, i, env, r[next[i]])
  BY <1>3 DEF Reads
<1>9. \A i \in 1 .. n : next[i] \in 1 .. n + 1
  BY <1>1, <1>3 DEF Leads
<1> HIDE DEF n, next, Next, from
<1>10. g[n + 1] = {<<>>} /\ \A i \in 1 .. n : g[i] = One(g, i)
  <2>1. g[n + 1] = {<<>>}
    BY <1>1, <1>8
  <2>2. ASSUME NEW i \in 1 .. n PROVE g[i] = One(g, i)
    <3>1. g[i] = {r[i]} /\ g[next[i]] = {r[next[i]]} /\ r[i] = ReadStep(s, i, env, r[next[i]])
      BY <1>1, <1>7, <1>8, <1>9
    <3> HIDE DEF g
    <3> QED
      BY <3>1
  <2> QED
    BY <2>1, <2>2
<1>11. g = [i \in 1 .. n + 1 |-> Next(g, i)]
  <2>1. ASSUME NEW i \in 1 .. n + 1 PROVE g[i] = Next(g, i)
    <3>1. CASE i = n + 1
      BY <1>4, <1>10, <3>1
    <3>2. CASE i \in 1 .. n
      <4>1. Next(g, i) = One(g, i)
        BY <1>4, <3>2
      <4>2. g[i] = One(g, i)
        BY <1>10, <3>2
      <4> QED
        BY <4>1, <4>2
    <3> QED
      BY <1>1, <3>1, <3>2
  <2> QED
    BY <2>1
<1>12. from[n + 1] = {<<>>} /\ \A i \in 1 .. n : from[i] = One(from, i)
  <2>1. \A i \in 1 .. n + 1 : from[i] = Next(from, i)
    BY <1>6, <1>11
  <2>2. from[n + 1] = Next(from, n + 1) /\ \A i \in 1 .. n : from[i] = Next(from, i)
    BY <1>1, <2>1
  <2>3. Next(from, n + 1) = {<<>>} /\ \A i \in 1 .. n : Next(from, i) = One(from, i)
    BY <1>4
  <2> QED
    BY <2>2, <2>3
<1>13. SameScan(g, from, next, n)
  <2>1. ASSUME NEW i \in 1 .. n, g[next[i]] = from[next[i]] PROVE g[i] = from[i]
    <3>1. One(g, i) = One(from, i)
      BY <2>1
    <3>2. g[i] = One(g, i) /\ from[i] = One(from, i)
      BY <1>10, <1>12
    <3> QED
      BY <3>1, <3>2
  <2> HIDE DEF g
  <2> QED
    BY <1>10, <1>12, <2>1 DEF SameScan
<1> HIDE DEF g
<1>14. \A i \in 1 .. n + 1 : g[i] = from[i]
  <2>1. n \in Nat /\ Leads(next, n)
    BY <1>1, <1>3
  <2> QED
    BY <2>1, <1>13, SameScans
<1> QED
  BY <1>1, <1>5, <1>7, <1>14

\* expand (env.go 41-73) gives every string, over any tokens and with any
\* environment, the one meaning that the comment above it describes: the string
\* can be read in one way only, the result is what the reading means, and the
\* variables reported as missing are those that the reading misses.
THEOREM ExpandIsMeaning ==
    ASSUME NEW S, NEW s \in Seq(S), NEW env, EnvOver(env, S)
    PROVE  \E reading \in Seq(Seq(S)) :
              /\ Readings(s) = {reading}
              /\ Expand(s, env).out = MeaningOf(reading, env)
              /\ Expand(s, env).missing = MissingIn(reading, env)
<1> DEFINE n == Len(s)
           next == [i \in 1 .. n |-> PieceEnd(s, i, env) + 1]
<1>1. PICK g \in [1 .. n + 1 -> Scanned(S)] : ScansText(g, s, env) /\ Expand(s, env) = g[1]
  BY ExpandScans
<1>2. PICK r \in [1 .. n + 1 -> Seq(Seq(S))] : Reads(r, s, env)
  BY ReadsExist
<1>3. Readings(s) = {r[1]}
  BY <1>2, ReadOnce
<1>4. n \in Nat /\ 1 \in 1 .. n + 1 /\ n + 1 \in 1 .. n + 1 /\ \A i \in 1 .. n : i \in 1 .. n + 1
  OBVIOUS
<1>5. Leads(next, n) /\ \A i \in 1 .. n : next[i] = PieceEnd(s, i, env) + 1
  BY PieceEndIn DEF Leads
<1>6. \A i \in 1 .. n : next[i] \in 1 .. n + 1
  BY <1>4, <1>5 DEF Leads
<1>7. g[n + 1] = [out |-> <<>>, missing |-> {}] /\ \A i \in 1 .. n : g[i] = ScanStep(s, i, env, g[next[i]])
  BY <1>1, <1>5 DEF ScansText
<1>8. r[n + 1] = <<>> /\ \A i \in 1 .. n : r[i] = ReadStep(s, i, env, r[next[i]])
  BY <1>2, <1>5 DEF Reads
<1> DEFINE Told(x) == [out |-> MeaningOf(x, env), missing |-> MissingIn(x, env)]
           h == [i \in 1 .. n + 1 |-> Told(r[i])]
<1>9. \A i \in 1 .. n + 1 : h[i] = Told(r[i]) /\ r[i] \in Seq(Seq(S))
  BY <1>2
<1>10. ASSUME NEW i \in 1 .. n PROVE h[i] = ScanStep(s, i, env, h[next[i]])
  <2> DEFINE x == r[next[i]]
             p == SubSeq(s, i, PieceEnd(s, i, env))
  <2>1. x \in Seq(Seq(S)) /\ p \in Seq(S) /\ h[i] = Told(r[i]) /\ h[next[i]] = Told(x)
    BY <1>4, <1>6, <1>9, PieceEndIn
  <2>2. r[i] = <<p>> \o x
    BY <1>8 DEF ReadStep
  <2>3. PieceAt(s, i, env).out = Meant(p, env) /\ PieceAt(s, i, env).missing = Missed(p, env)
    BY PieceMeans
  <2> HIDE DEF x, p, h
  <2>4. MeansFirst(p, x, env) /\ MissesFirst(p, x, env)
    <3>1. MeansFirst(p, x, env)
      BY <2>1, MeaningOfFirst
    <3>2. MissesFirst(p, x, env)
      BY <2>1, MissingInFirst
    <3> QED
      BY <3>1, <3>2
  <2>5. ScanStep(s, i, env, Told(x)) = [out |-> Meant(p, env) \o MeaningOf(x, env),
                                        missing |-> Missed(p, env) \cup MissingIn(x, env)]
    BY <2>3 DEF ScanStep
  <2>6. Told(<<p>> \o x) = ScanStep(s, i, env, Told(x))
    BY <2>4, <2>5 DEF MeansFirst, MissesFirst
  <2> QED
    BY <2>1, <2>2, <2>6
<1>11. h[n + 1] = g[n + 1]
  <2>1. MeaningOf(<<>>, env) = <<>> /\ MissingIn(<<>>, env) = {}
    BY MeaningByPiece, MissingInNone
  <2>2. h[n + 1] = Told(<<>>)
    BY <1>4, <1>8, <1>9
  <2> QED
    BY <1>7, <2>1, <2>2
<1> HIDE DEF h, n, next, Told
<1>12. SameScan(g, h, next, n)
  BY <1>7, <1>10, <1>11 DEF SameScan
<1>13. g[1] = h[1]
  <2>1. n \in Nat /\ Leads(next, n)
    BY <1>4, <1>5
  <2>2. \A i \in 1 .. n + 1 : g[i] = h[i]
    BY <2>1, <1>12, SameScans
  <2> QED
    BY <1>4, <2>2
<1>14. Expand(s, env) = Told(r[1]) /\ r[1] \in Seq(Seq(S))
  BY <1>1, <1>4, <1>9, <1>13
<1> QED
  BY <1>3, <1>14 DEF Told

-----------------------------------------------------------------------------
(* Segments that are ".."                                                  *)

\* A nonempty sequence has a last element and what is before it.
LEMMA FrontAndLast ==
    ASSUME NEW X, NEW p \in Seq(X), p # <<>>
    PROVE  \E q \in Seq(X), w \in X : p = Append(q, w)
<1> DEFINE n == Len(p)
           front == SubSeq(p, 1, n - 1)
<1>1. n \in Nat /\ n \in 1 .. Len(p) /\ 1 \in 1 .. Len(p) /\ (\A i \in 1 .. n : p[i] \in X) /\ n \in Int /\ n - 1 \in Int
  OBVIOUS
<1>2. SubSeq(p, 1, n) = front \o <<p[n]>>
  BY <1>1, SubSeqRecursiveSecond
<1>3. front \in Seq(X)
  <2>1. \A i \in 1 .. n - 1 : p[i] \in X
    BY <1>1
  <2> QED
    BY <1>1, <2>1, SubSeqProperties
<1>4. SubSeq(p, 1, n) = p
  BY SubSeqFull
<1> HIDE DEF n, front
<1>5. Append(front, p[n]) = front \o <<p[n]>> /\ p[n] \in X
  BY <1>1, <1>3, AppendIsConcat
<1> QED
  BY <1>2, <1>3, <1>4, <1>5

\* Changing the last element of a sequence.
LEMMA ExtendLast ==
    ASSUME NEW X, NEW q \in Seq(X), NEW w \in X, NEW v \in X
    PROVE  Len(Append(q, w)) = Len(q) + 1 /\ Append(q, w)[Len(q) + 1] = w
           /\ [Append(q, w) EXCEPT ![Len(Append(q, w))] = v] = Append(q, v)
<1> DEFINE p == Append(q, w)
           r == Append(q, v)
           e == [p EXCEPT ![Len(p)] = v]
<1>1. /\ p \in Seq(X) /\ Len(p) = Len(q) + 1 /\ p[Len(q) + 1] = w /\ Len(q) \in Nat
      /\ \A i \in 1 .. Len(q) : p[i] = q[i]
  OBVIOUS
<1>2. /\ r \in Seq(X) /\ Len(r) = Len(q) + 1 /\ r[Len(q) + 1] = v
      /\ \A i \in 1 .. Len(q) : r[i] = q[i]
  OBVIOUS
<1> HIDE DEF p, r
<1>3. e \in Seq(X) /\ Len(e) = Len(p) /\ \A j \in 1 .. Len(p) : e[j] = IF j = Len(p) THEN v ELSE p[j]
  <2>1. Len(p) \in 1 .. Len(p)
    BY <1>1
  <2> QED
    BY <1>1, <2>1, ExceptSeq
<1> HIDE DEF e
<1>4. ASSUME NEW j \in 1 .. Len(e) PROVE e[j] = r[j]
  <2>1. CASE j = Len(q) + 1
    BY <1>1, <1>2, <1>3, <2>1
  <2>2. CASE j # Len(q) + 1
    <3>1. j \in 1 .. Len(q)
      BY <1>1, <1>3, <2>2
    <3> QED
      BY <1>1, <1>2, <1>3, <2>2, <3>1
  <2> QED
    BY <2>1, <2>2
<1>5. e = r
  BY <1>1, <1>2, <1>3, <1>4, SeqEqual
<1> QED
  BY <1>1, <1>5 DEF e, p, r

JoinsBack(s) == Join(Segments(s, Slash), "/") = s

\* Joining the segments of a string gives it back.
LEMMA JoinOfSegments ==
    ASSUME NEW S, "/" \in S, NEW s \in Seq(S)
    PROVE  JoinsBack(s)
<1> DEFINE X == Seq(S)
           T == {r \in X : JoinsBack(r)}
<1>1. JoinsBack(<<>>)
  <2>1. <<>> \in Seq(Seq(S)) /\ <<>> \in Seq(S) /\ Append(<<>>, <<>>) = <<<<>>>>
    OBVIOUS
  <2>2. Segments(<<>>, Slash) = <<<<>>>>
    BY SegmentsByToken
  <2>3. JoinsLast(<<>>, <<>>, "/")
    BY <2>1, JoinsOneMore
  <2> QED
    BY <2>1, <2>2, <2>3 DEF JoinsLast, JoinsBack
<1>2. ASSUME NEW r \in X, NEW t \in S, JoinsBack(r) PROVE JoinsBack(Append(r, t))
  <2> DEFINE P == Segments(r, Slash)
             none == <<>>
  <2>1. P \in Parts(S) /\ Segments(Append(r, t), Slash) = Extend(P, t, Slash) /\ Join(P, "/") = r
    BY <1>2, SegmentsByToken DEF JoinsBack
  <2>2. P \in Seq(X) /\ P # <<>> /\ none \in X /\ Append(r, t) \in X
    BY <2>1 DEF Parts
  <2> HIDE DEF P, none
  <2>3. PICK q \in Seq(X), w \in X : P = Append(q, w)
    <3> HIDE DEF X
    <3> QED
      BY <2>2, FrontAndLast
  <2>4. CASE t \in Slash
    <3>1. Extend(P, t, Slash) = Append(P, none) /\ t = "/"
      BY <2>4 DEF Extend, none, Slash
    <3>2. JoinsLast(P, none, "/")
      BY <2>2, JoinsOneMore
    <3>3. Join(Append(P, none), "/") = r \o <<"/">> \o none
      BY <2>1, <2>2, <3>2 DEF JoinsLast
    <3>4. r \o <<"/">> \o none = Append(r, "/")
      BY DEF none
    <3> QED
      BY <2>1, <3>1, <3>3, <3>4 DEF JoinsBack
  <2>5. CASE t \notin Slash
    <3> DEFINE v == Append(w, t)
    <3>1. v \in X
      OBVIOUS
    <3>2. Extend(P, t, Slash) = Append(q, v)
      <4>1. Len(P) = Len(q) + 1 /\ P[Len(q) + 1] = w
        <5> HIDE DEF X
        <5> QED
          BY <2>3, ExtendLast
      <4>2. Extend(P, t, Slash) = [P EXCEPT ![Len(P)] = v]
        BY <2>5, <4>1 DEF Extend
      <4> HIDE DEF X, v
      <4>3. [P EXCEPT ![Len(P)] = v] = Append(q, v)
        BY <2>3, <3>1, ExtendLast
      <4> QED
        BY <4>2, <4>3
    <3>3. JoinsLast(q, w, "/") /\ JoinsLast(q, v, "/") /\ Join(q, "/") \in X
      <4> HIDE DEF v
      <4>1. JoinsLast(q, w, "/")
        BY JoinsOneMore
      <4>2. JoinsLast(q, v, "/")
        BY <3>1, JoinsOneMore
      <4>3. Join(q, "/") \in X
        BY JoinByPart
      <4> QED
        BY <4>1, <4>2, <4>3
    <3>4. CASE q = <<>>
      <4>1. r = w /\ Join(Append(q, v), "/") = v
        BY <2>1, <2>3, <3>3, <3>4 DEF JoinsLast
      <4> QED
        BY <2>1, <3>2, <4>1 DEF JoinsBack
    <3>5. CASE q # <<>>
      <4> DEFINE j == Join(q, "/")
      <4>1. r = j \o <<"/">> \o w /\ Join(Append(q, v), "/") = j \o <<"/">> \o v
        BY <2>1, <2>3, <3>3, <3>5 DEF JoinsLast
      <4>2. j \in Seq(S)
        BY <3>3
      <4> HIDE DEF j
      <4>3. j \o <<"/">> \o Append(w, t) = Append(j \o <<"/">> \o w, t)
        BY <4>2
      <4> QED
        BY <2>1, <3>2, <4>1, <4>3 DEF JoinsBack
    <3> QED
      BY <3>4, <3>5
  <2> QED
    BY <2>4, <2>5
<1>3. <<>> \in T /\ \A r \in Seq(S), t \in S : r \in T => Append(r, t) \in T
  <2>1. <<>> \in Seq(S) /\ \A r \in Seq(S), t \in S : Append(r, t) \in Seq(S)
    OBVIOUS
  <2> QED
    BY <1>1, <1>2, <2>1
<1> HIDE DEF T
<1>4. s \in T
  BY <1>3, SeqInduction
<1> QED
  BY <1>4 DEF T

SomePart(parts) == \E i \in DOMAIN parts : HasTraversal(parts[i])

\* A slash neither makes nor hides a "..".
LEMMA TraversalConcat ==
    ASSUME NEW S, "/" \in S, NEW a \in Seq(S), NEW b \in Seq(S)
    PROVE  HasTraversal(a \o <<"/">> \o b) <=> HasTraversal(a) \/ HasTraversal(b)
<1> DEFINE both == {"/", "\\"}
           R == Seq(S)
           up == <<"..">>
<1>1. "/" \in S \cap both
  OBVIOUS
<1> HIDE DEF both
<1>2. CutsAt(a, "/", b, both)
  BY <1>1, SegmentsConcat
<1>3. Segments(a, both) \in Seq(R) /\ Segments(b, both) \in Seq(R)
  BY SegmentsByToken DEF Parts
<1> HIDE DEF R, up
<1>4. Occurs(up, Segments(a, both) \o Segments(b, both)) <=> Occurs(up, Segments(a, both)) \/ Occurs(up, Segments(b, both))
  BY <1>3, OccursConcat
<1>5. \A x : HasTraversal(x) <=> Occurs(up, Segments(x, both))
  BY DEF HasTraversal, up, both
<1> QED
  BY <1>2, <1>4, <1>5 DEF CutsAt

\* A string without separators is a traversal only if it is "..".
LEMMA TraversalOfWord ==
    ASSUME NEW S, NEW w \in Seq(S \ {"/", "\\"})
    PROVE  HasTraversal(w) <=> w = <<"..">>
<1> DEFINE up == <<"..">>
<1>1. Segments(w, {"/", "\\"}) = <<w>>
  BY SegmentsOfWord
<1> HIDE DEF up
<1>2. Occurs(up, <<w>>) <=> w = up
  BY DEF Occurs
<1> QED
  BY <1>1, <1>2 DEF HasTraversal, up

\* Joined parts have a traversal only if one of them has.
LEMMA TraversalOfJoin ==
    ASSUME NEW S, "/" \in S, NEW p \in Seq(Seq(S))
    PROVE  HasTraversal(Join(p, "/")) <=> SomePart(p)
<1> DEFINE X == Seq(S)
           Holds(r) == HasTraversal(Join(r, "/")) <=> SomePart(r)
           T == {r \in Seq(X) : Holds(r)}
<1>1. Holds(<<>>)
  <2>1. <<>> \in Seq(S \ {"/", "\\"}) /\ <<>> # <<"..">>
    OBVIOUS
  <2>2. ~HasTraversal(<<>>)
    BY <2>1, TraversalOfWord
  <2>3. Join(<<>>, "/") = <<>>
    BY JoinByPart
  <2> QED
    BY <2>2, <2>3 DEF SomePart
<1>2. ASSUME NEW r \in Seq(X), NEW w \in X, Holds(r) PROVE Holds(Append(r, w))
  <2> DEFINE j == Join(r, "/")
  <2>1. JoinsLast(r, w, "/")
    BY JoinsOneMore
  <2>2. j \in X
    BY JoinByPart
  <2>3. SomePart(Append(r, w)) <=> SomePart(r) \/ HasTraversal(w)
    <3> HIDE DEF X
    <3>1. /\ Len(r) \in Nat /\ DOMAIN r = 1 .. Len(r) /\ DOMAIN Append(r, w) = 1 .. Len(r) + 1
          /\ \A i \in 1 .. Len(r) : Append(r, w)[i] = r[i] /\ i \in 1 .. Len(r) + 1
          /\ Append(r, w)[Len(r) + 1] = w /\ Len(r) + 1 \in 1 .. Len(r) + 1
          /\ \A i \in 1 .. Len(r) + 1 : i = Len(r) + 1 \/ i \in 1 .. Len(r)
      OBVIOUS
    <3> QED
      BY <3>1 DEF SomePart
  <2> HIDE DEF j
  <2>4. HasTraversal(j \o <<"/">> \o w) <=> HasTraversal(j) \/ HasTraversal(w)
    BY <2>2, TraversalConcat
  <2>5. r = <<>> => ~SomePart(r)
    BY DEF SomePart
  <2> QED
    BY <1>2, <2>1, <2>3, <2>4, <2>5 DEF JoinsLast, j
<1>3. <<>> \in T /\ \A r \in Seq(X), w \in X : r \in T => Append(r, w) \in T
  <2>1. <<>> \in Seq(X) /\ \A r \in Seq(X), w \in X : Append(r, w) \in Seq(X)
    OBVIOUS
  <2> HIDE DEF Holds, X
  <2> QED
    BY <1>1, <1>2, <2>1
<1> HIDE DEF T
<1>4. p \in T
  BY <1>3, SeqInduction
<1> QED
  BY <1>4 DEF T

\* So has a path, of its segments.
LEMMA TraversalOfSegments ==
    ASSUME NEW S, "/" \in S, NEW s \in Seq(S)
    PROVE  HasTraversal(s) <=> SomePart(Segments(s, Slash))
<1>1. JoinsBack(s) /\ Segments(s, Slash) \in Seq(Seq(S))
  BY JoinOfSegments, SegmentsByToken DEF Parts
<1>2. HasTraversal(Join(Segments(s, Slash), "/")) <=> SomePart(Segments(s, Slash))
  BY <1>1, TraversalOfJoin
<1> QED
  BY <1>1, <1>2 DEF JoinsBack

\* The segments that count of a path without a traversal have none.
LEMMA NoTraversalInPath ==
    ASSUME NEW S, "/" \in S, NEW s \in Seq(S), ~HasTraversal(s)
    PROVE  ~SomePart(PathSegments(s)) /\ ~Occurs(<<"..">>, PathSegments(s))
<1> DEFINE X == Seq(S)
           all == Segments(s, Slash)
           names == PathSegments(s)
<1>1. ~SomePart(all) /\ all \in Seq(X)
  BY TraversalOfSegments, SegmentsByToken DEF Parts
<1>2. \A w : Occurs(w, names) => Occurs(w, all)
  <2> HIDE DEF X, all
  <2>1. \A w : Occurs(w, Counted(all)) => Occurs(w, all)
    BY <1>1, CountedMembers
  <2> QED
    BY <2>1 DEF PathSegments, all, Slash
<1> HIDE DEF all, names
<1>3. ~SomePart(names)
  BY <1>1, <1>2 DEF SomePart, Occurs
<1>4. HasTraversal(<<"..">>)
  <2>1. <<"..">> \in Seq({".."} \ {"/", "\\"})
    OBVIOUS
  <2> QED
    BY <2>1, TraversalOfWord
<1>5. ~Occurs(<<"..">>, names)
  BY <1>3, <1>4 DEF SomePart, Occurs
<1> QED
  BY <1>3, <1>5 DEF names

\* path.Clean brings no traversal into a path that has none.
LEMMA CleanHasNoTraversal ==
    ASSUME NEW S, "/" \in S, NEW s \in Seq(S), ~HasTraversal(s)
    PROVE  ~HasTraversal(Clean(s))
<1> DEFINE names == PathSegments(s)
           j == Join(names, "/")
<1>1. names \in Seq(Seq(S)) /\ ~SomePart(names)
  BY PathWords, WordsTyped, NoTraversalInPath
<1> HIDE DEF names
<1>2. j \in Seq(S) /\ ~HasTraversal(j)
  BY <1>1, TraversalOfJoin, JoinByPart
<1>3. Clean(s) = IF IsAbsolute(s) THEN <<"/">> \o j ELSE IF names = <<>> THEN <<".">> ELSE j
  BY DEF Clean, names
<1>4. ~HasTraversal(<<>>) /\ ~HasTraversal(<<".">>)
  <2>1. <<>> \in Seq({"."} \ {"/", "\\"}) /\ <<".">> \in Seq({"."} \ {"/", "\\"}) /\ <<>> # <<"..">> /\ <<".">> # <<"..">>
    OBVIOUS
  <2> QED
    BY <2>1, TraversalOfWord
<1> HIDE DEF j
<1>5. ~HasTraversal(<<"/">> \o j)
  <2>1. <<"/">> \o j = <<>> \o <<"/">> \o j /\ <<>> \in Seq(S)
    BY <1>2
  <2>2. HasTraversal(<<>> \o <<"/">> \o j) <=> HasTraversal(<<>>) \/ HasTraversal(j)
    BY <1>2, <2>1, TraversalConcat
  <2> QED
    BY <1>2, <1>4, <2>1, <2>2
<1> QED
  BY <1>2, <1>3, <1>4, <1>5

-----------------------------------------------------------------------------
(* Redaction                                                               *)

\* The marker is written with its own tokens.
LEMMA MarkerTyped ==
    ASSUME NEW S, MarkTokens \subseteq S
    PROVE  Marker \in Seq(S)
BY DEF Marker, MarkTokens

\* The position after what is taken at i, and what is written for it.
Beyond(s, i, old) == IF Matches(s, i, old) THEN i + Len(old) ELSE i + 1
Redacted(s, i, old, rest) == (IF Matches(s, i, old) THEN Marker ELSE <<s[i]>>) \o rest

RedactsText(g, s, old) ==
    /\ g[Len(s) + 1] = <<>>
    /\ \A i \in 1 .. Len(s) : g[i] = Redacted(s, i, old, g[Beyond(s, i, old)])

\* The strings over S that are replaced.
Secrets(S) == Seq(S) \ {<<>>}

\* The same, token by token.
Agrees(s, i, old) == i + Len(old) <= Len(s) + 1 /\ \A j \in 1 .. Len(old) : s[i + j - 1] = old[j]

\* A match is a match of every token.
LEMMA MatchMeans ==
    ASSUME NEW S, NEW s \in Seq(S), NEW old \in Secrets(S), NEW i \in 1 .. Len(s)
    PROVE  Matches(s, i, old) <=> Agrees(s, i, old)
<1> DEFINE k == i + Len(old) - 1
<1>1. Len(s) \in Nat /\ Len(old) \in Nat /\ Len(old) > 0 /\ i \in Nat /\ old \in Seq(S)
  BY EmptySeq DEF Secrets
<1>2. ASSUME i + Len(old) <= Len(s) + 1
      PROVE  SubSeq(s, i, k) = old <=> \A j \in 1 .. Len(old) : s[i + j - 1] = old[j]
  <2>1. k \in i .. Len(s) /\ k - i + 1 = Len(old)
    BY <1>1, <1>2
  <2> HIDE DEF k
  <2>2. /\ SubSeq(s, i, k) \in Seq(S) /\ Len(SubSeq(s, i, k)) = Len(old)
        /\ \A j \in 1 .. Len(old) : SubSeq(s, i, k)[j] = s[i + j - 1]
    BY <2>1, SubSeqFacts
  <2> DEFINE sub == SubSeq(s, i, k)
  <2> HIDE DEF sub
  <2>3. (\A j \in 1 .. Len(old) : s[i + j - 1] = old[j]) => sub = old
    <3>1. /\ sub \in Seq(S) /\ Len(sub) = Len(old)
          /\ \A j \in 1 .. Len(old) : sub[j] = s[i + j - 1]
      BY <2>2 DEF sub
    <3> SUFFICES ASSUME \A j \in 1 .. Len(old) : s[i + j - 1] = old[j] PROVE sub = old
      OBVIOUS
    <3>2. \A j \in 1 .. Len(sub) : sub[j] = old[j]
      BY <3>1
    <3> QED
      BY <1>1, <3>1, <3>2, SeqEqual
  <2> QED
    BY <2>2, <2>3 DEF sub
<1> QED
  BY <1>2 DEF Matches, Agrees

\* The scan goes on behind what it has taken.
LEMMA BeyondLeads ==
    ASSUME NEW S, NEW s \in Seq(S), NEW R, NEW old \in Secrets(R), NEW i \in 1 .. Len(s)
    PROVE  Beyond(s, i, old) \in i + 1 .. Len(s) + 1
<1>1. Len(s) \in Nat /\ Len(old) \in Nat /\ Len(old) > 0 /\ i \in Nat
  BY EmptySeq DEF Secrets
<1>2. Matches(s, i, old) => i + Len(old) <= Len(s) + 1
  BY DEF Matches
<1> QED
  BY <1>1, <1>2 DEF Beyond

\* Redact (strings.ReplaceAll) is computed from the end of the string.
LEMMA RedactScans ==
    ASSUME NEW S, MarkTokens \subseteq S, NEW s \in Seq(S), NEW R, NEW old \in Secrets(R)
    PROVE  \E g \in [1 .. Len(s) + 1 -> Seq(S)] : RedactsText(g, s, old) /\ Redact(s, old) = g[1]
<1> DEFINE n == Len(s)
           X == Seq(S)
           base == <<>>
           next == [i \in 1 .. n |-> Beyond(s, i, old)]
           F == [i \in 1 .. n |-> [x \in X |-> Redacted(s, i, old, x)]]
           Next(f, i) == IF i > n THEN <<>>
                         ELSE IF Matches(s, i, old) THEN Marker \o f[i + Len(old)]
                         ELSE <<s[i]>> \o f[i + 1]
           scan == CHOOSE scan : scan = [i \in 1 .. n + 1 |-> Next(scan, i)]
<1>1. n \in Nat /\ 1 \in 1 .. n + 1 /\ (\A i \in 1 .. n : ~(i > n) /\ i \in 1 .. n + 1) /\ n + 1 > n
      /\ n + 1 \in 1 .. n + 1 /\ (\A i \in 1 .. n + 1 : i = n + 1 \/ i \in 1 .. n) /\ \A i \in 1 .. n : s[i] \in S
  OBVIOUS
<1>3. base \in X
  OBVIOUS
<1>4. Leads(next, n)
  BY BeyondLeads DEF Leads
<1>5. StepsStay(F, n, X) /\ \A i \in 1 .. n : \A x \in X : F[i][x] = Redacted(s, i, old, x)
  <2>1. ASSUME NEW i \in 1 .. n, NEW x \in X PROVE Redacted(s, i, old, x) \in X
    <3>1. Marker \o x \in X /\ <<s[i]>> \o x \in X
      BY <1>1, MarkerTyped
    <3> QED
      BY <3>1 DEF Redacted
  <2> QED
    BY <2>1 DEF StepsStay
<1>6. ASSUME NEW f PROVE Next(f, n + 1) = base /\ \A i \in 1 .. n : Next(f, i) = Redacted(s, i, old, f[next[i]])
  BY <1>1 DEF Redacted, Beyond
<1>7. Redact(s, old) = scan[1]
  BY DEF Redact
<1>8. (\E f : f = [i \in 1 .. n + 1 |-> Next(f, i)]) => scan = [i \in 1 .. n + 1 |-> Next(scan, i)]
  OBVIOUS
<1>9. \A i \in 1 .. n : next[i] = Beyond(s, i, old)
  OBVIOUS
<1> HIDE DEF n, X, base, next, F, Next, scan
<1>10. PICK g \in [1 .. n + 1 -> X] : Scans(g, base, F, next, n)
  BY <1>1, <1>3, <1>4, <1>5, DownRecursion
<1>11. \A i \in 1 .. n : next[i] \in 1 .. n + 1
  BY <1>1, <1>4 DEF Leads
<1>12. g[n + 1] = base /\ \A i \in 1 .. n : g[i] = Redacted(s, i, old, g[next[i]])
  BY <1>5, <1>10, <1>11 DEF Scans
<1>13. g = [i \in 1 .. n + 1 |-> Next(g, i)]
  BY <1>1, <1>6, <1>12
<1>14. scan[n + 1] = base /\ \A i \in 1 .. n : scan[i] = Redacted(s, i, old, scan[next[i]])
  BY <1>1, <1>6, <1>8, <1>13
<1>15. g[1] = scan[1]
  <2>1. SameScan(g, scan, next, n)
    BY <1>12, <1>14 DEF SameScan
  <2>2. \A i \in 1 .. n + 1 : g[i] = scan[i]
    BY <1>1, <1>4, <2>1, SameScans
  <2> QED
    BY <1>1, <2>2
<1>16. RedactsText(g, s, old)
  BY <1>9, <1>12 DEF RedactsText, base, n
<1> QED
  BY <1>7, <1>15, <1>16 DEF n, X

\* It brings nothing into the string but the marker.
LEMMA RedactTyped ==
    ASSUME NEW S, MarkTokens \subseteq S, NEW s \in Seq(S), NEW R, NEW old \in Secrets(R)
    PROVE  Redact(s, old) \in Seq(S)
<1>1. PICK g \in [1 .. Len(s) + 1 -> Seq(S)] : Redact(s, old) = g[1]
  BY RedactScans
<1>2. 1 \in 1 .. Len(s) + 1
  OBVIOUS
<1> QED
  BY <1>1, <1>2

\* The scans of a string and of anything that steps like it agree.
LEMMA RedactIs ==
    ASSUME NEW S, MarkTokens \subseteq S, NEW s \in Seq(S), NEW old \in Secrets(S),
           NEW h, RedactsText(h, s, old)
    PROVE  Redact(s, old) = h[1]
<1> DEFINE n == Len(s)
           next == [i \in 1 .. n |-> Beyond(s, i, old)]
<1>1. PICK g \in [1 .. n + 1 -> Seq(S)] : RedactsText(g, s, old) /\ Redact(s, old) = g[1]
  BY RedactScans
<1>2. n \in Nat /\ 1 \in 1 .. n + 1
  OBVIOUS
<1>3. Leads(next, n) /\ \A i \in 1 .. n : next[i] = Beyond(s, i, old)
  BY BeyondLeads DEF Leads
<1> HIDE DEF next
<1>4. SameScan(g, h, next, n)
  BY <1>1, <1>3 DEF SameScan, RedactsText
<1> HIDE DEF n
<1>5. \A i \in 1 .. n + 1 : g[i] = h[i]
  BY <1>2, <1>3, <1>4, SameScans
<1> QED
  BY <1>1, <1>2, <1>5

\* Written without old in it.
NowhereIn(s, old) == \A i \in 1 .. Len(s) : ~Matches(s, i, old)

\* What does not occur is not replaced.
LEMMA RedactNothing ==
    ASSUME NEW S, MarkTokens \subseteq S, NEW s \in Seq(S), NEW old \in Secrets(S), NowhereIn(s, old)
    PROVE  Redact(s, old) = s
<1> DEFINE n == Len(s)
           h == [i \in 1 .. n + 1 |-> SubSeq(s, i, n)]
<1>1. n \in Nat /\ 1 \in 1 .. n + 1 /\ n + 1 \in 1 .. n + 1 /\ \A i \in 1 .. n : i \in 1 .. n + 1 /\ i + 1 \in 1 .. n + 1
  OBVIOUS
<1>2. h[n + 1] = <<>> /\ h[1] = s
  <2>1. SubSeq(s, n + 1, n) = <<>>
    BY <1>1, SubSeqEmpty
  <2>2. SubSeq(s, 1, n) = s
    BY SubSeqFull
  <2> QED
    BY <1>1, <2>1, <2>2
<1>3. ASSUME NEW i \in 1 .. n PROVE h[i] = <<s[i]>> \o h[i + 1]
  <2>1. i \in 1 .. Len(s) /\ n \in 1 .. Len(s) /\ i <= n
    BY <1>1
  <2>2. SubSeq(s, i, n) = <<s[i]>> \o SubSeq(s, i + 1, n)
    BY <1>1, <2>1, SubSeqRecursiveFirst
  <2> QED
    BY <1>1, <2>2
<1> HIDE DEF h
<1>4. \A i \in 1 .. n : Beyond(s, i, old) = i + 1 /\ Redacted(s, i, old, h[i + 1]) = <<s[i]>> \o h[i + 1]
  BY DEF NowhereIn, Beyond, Redacted
<1>5. RedactsText(h, s, old)
  BY <1>2, <1>3, <1>4 DEF RedactsText
<1> QED
  BY <1>2, <1>5, RedactIs

\* A string that is longer, or as long and another, does not occur.
LEMMA LongerNowhere ==
    ASSUME NEW S, NEW s \in Seq(S), NEW old \in Secrets(S), Len(old) >= Len(s), old # s
    PROVE  NowhereIn(s, old)
<1> SUFFICES ASSUME NEW i \in 1 .. Len(s), Matches(s, i, old) PROVE FALSE
  BY DEF NowhereIn
<1>1. i + Len(old) <= Len(s) + 1 /\ \A j \in 1 .. Len(old) : s[i + j - 1] = old[j]
  BY MatchMeans DEF Agrees
<1>2. Len(s) \in Nat /\ Len(old) \in Nat /\ i \in Nat /\ old \in Seq(S)
  BY DEF Secrets
<1>3. i = 1 /\ Len(old) = Len(s)
  BY <1>1, <1>2
<1>4. \A j \in 1 .. Len(s) : s[j] = old[j]
  BY <1>1, <1>2, <1>3
<1>5. s = old
  BY <1>2, <1>3, <1>4, SeqEqual
<1> QED
  BY <1>5

\* A string is replaced by itself as a whole.
LEMMA RedactWhole ==
    ASSUME NEW S, MarkTokens \subseteq S, NEW old \in Secrets(S)
    PROVE  Redact(old, old) = Marker
<1> DEFINE n == Len(old)
<1>1. old \in Seq(S) /\ n \in Nat /\ 1 \in 1 .. n
  BY EmptySeq DEF Secrets
<1>2. PICK g \in [1 .. n + 1 -> Seq(S)] : RedactsText(g, old, old) /\ Redact(old, old) = g[1]
  BY <1>1, RedactScans
<1>3. Matches(old, 1, old)
  <2>1. 1 + n <= n + 1 /\ \A j \in 1 .. n : old[1 + j - 1] = old[j]
    BY <1>1
  <2> QED
    BY <1>1, <2>1, MatchMeans DEF Agrees
<1>4. Beyond(old, 1, old) = n + 1
  BY <1>1, <1>3 DEF Beyond
<1>5. g[1] = Marker \o g[n + 1] /\ g[n + 1] = <<>>
  BY <1>1, <1>2, <1>3, <1>4 DEF RedactsText, Redacted
<1> HIDE DEF n
<1>6. Marker \o <<>> = Marker
  BY MarkerTyped, ConcatEmptySeq
<1> QED
  BY <1>2, <1>5, <1>6

\* old never begins in p and ends in q.
Parted(p, q, old) == \A i \in 1 .. Len(p) : Matches(p \o q, i, old) => i + Len(old) <= Len(p) + 1

Matched(p, q, old) ==
    /\ \A i \in 1 .. Len(p) : Matches(p \o q, i, old) <=> Matches(p, i, old)
    /\ \A i \in Len(p) + 1 .. Len(p) + Len(q) : Matches(p \o q, i, old) <=> Matches(q, i - Len(p), old)

\* Then it occurs in the two together where it occurs in one of them.
LEMMA MatchesConcat ==
    ASSUME NEW S, NEW p \in Seq(S), NEW q \in Seq(S), NEW old \in Secrets(S), Parted(p, q, old)
    PROVE  Matched(p, q, old)
<1> DEFINE pq == p \o q
<1>1. /\ pq \in Seq(S) /\ Len(pq) = Len(p) + Len(q) /\ Len(p) \in Nat /\ Len(q) \in Nat /\ Len(old) \in Nat
      /\ \A i \in 1 .. Len(p) + Len(q) : pq[i] = IF i <= Len(p) THEN p[i] ELSE q[i - Len(p)]
  BY ConcatProperties DEF Secrets
<1> HIDE DEF pq
<1>2. ASSUME NEW i \in 1 .. Len(p) PROVE Matches(pq, i, old) <=> Matches(p, i, old)
  <2>0. i \in 1 .. Len(pq) /\ i \in Nat
    BY <1>1
  <2>1. Matches(pq, i, old) <=> Agrees(pq, i, old)
    BY <1>1, <2>0, MatchMeans
  <2>2. Matches(p, i, old) <=> Agrees(p, i, old)
    BY MatchMeans
  <2>3. Matches(pq, i, old) => i + Len(old) <= Len(p) + 1
    BY DEF Parted, pq
  <2>4. ASSUME i + Len(old) <= Len(p) + 1, NEW j \in 1 .. Len(old) PROVE pq[i + j - 1] = p[i + j - 1]
    <3>1. i + j - 1 \in 1 .. Len(p) + Len(q) /\ i + j - 1 <= Len(p)
      BY <1>1, <2>0, <2>4
    <3> QED
      BY <1>1, <3>1
  <2>5. i + Len(old) <= Len(p) + 1 => i + Len(old) <= Len(pq) + 1
    BY <1>1, <2>0
  <2> QED
    BY <2>1, <2>2, <2>3, <2>4, <2>5 DEF Agrees
<1>3. ASSUME NEW i \in Len(p) + 1 .. Len(p) + Len(q) PROVE Matches(pq, i, old) <=> Matches(q, i - Len(p), old)
  <2>0. i \in 1 .. Len(pq) /\ i \in Nat /\ i - Len(p) \in 1 .. Len(q)
    BY <1>1
  <2>1. Matches(pq, i, old) <=> Agrees(pq, i, old)
    BY <1>1, <2>0, MatchMeans
  <2>2. Matches(q, i - Len(p), old) <=> Agrees(q, i - Len(p), old)
    BY <2>0, MatchMeans
  <2>3. i + Len(old) <= Len(pq) + 1 <=> i - Len(p) + Len(old) <= Len(q) + 1
    BY <1>1, <2>0
  <2>4. ASSUME i + Len(old) <= Len(pq) + 1, NEW j \in 1 .. Len(old) PROVE pq[i + j - 1] = q[i - Len(p) + j - 1]
    <3>1. i + j - 1 \in 1 .. Len(p) + Len(q) /\ ~(i + j - 1 <= Len(p)) /\ i + j - 1 - Len(p) = i - Len(p) + j - 1
      BY <1>1, <2>0, <2>4
    <3> QED
      BY <1>1, <3>1, SMTT(60)
  <2> QED
    BY <2>1, <2>2, <2>3, <2>4 DEF Agrees
<1> QED
  BY <1>2, <1>3 DEF Matched, pq

RedactsApart(p, q, old) == Redact(p \o q, old) = Redact(p, old) \o Redact(q, old)

\* And is replaced in each of them.
LEMMA RedactConcat ==
    ASSUME NEW S, MarkTokens \subseteq S, NEW p \in Seq(S), NEW q \in Seq(S), NEW old \in Secrets(S), Parted(p, q, old)
    PROVE  RedactsApart(p, q, old)
<1> DEFINE pq == p \o q
           l == Len(p)
           m == Len(q)
<1>1. /\ pq \in Seq(S) /\ Len(pq) = l + m /\ l \in Nat /\ m \in Nat /\ Len(old) \in Nat
      /\ \A i \in 1 .. l + m : pq[i] = IF i <= l THEN p[i] ELSE q[i - l]
      /\ \A i \in 1 .. l : p[i] \in S
      /\ \A i \in 1 .. m : q[i] \in S
  BY ConcatProperties DEF Secrets
<1>2. PICK g \in [1 .. l + 1 -> Seq(S)] : RedactsText(g, p, old) /\ Redact(p, old) = g[1]
  BY RedactScans
<1>3. PICK k \in [1 .. m + 1 -> Seq(S)] : RedactsText(k, q, old) /\ Redact(q, old) = k[1]
  BY RedactScans
<1>4. Matched(p, q, old)
  BY MatchesConcat
<1> DEFINE h == [i \in 1 .. l + m + 1 |-> IF i <= l THEN g[i] \o k[1] ELSE k[i - l]]
<1>5. \A i \in 1 .. l : Beyond(p, i, old) \in i + 1 .. l + 1
  BY BeyondLeads
<1>6. \A i \in 1 .. m : Beyond(q, i, old) \in i + 1 .. m + 1
  BY BeyondLeads
<1>7. k[1] \in Seq(S) /\ \A i \in 1 .. l + 1 : g[i] \in Seq(S)
  <2>1. 1 \in 1 .. m + 1
    BY <1>1
  <2> QED
    BY <1>2, <1>3, <2>1
<1>8. g[l + 1] = <<>> /\ k[m + 1] = <<>> /\ <<>> \o k[1] = k[1]
  BY <1>2, <1>3, <1>7, ConcatEmptySeq DEF RedactsText
<1>9. \A i \in 1 .. l + 1 : h[i] = g[i] \o k[1]
  <2> SUFFICES ASSUME NEW i \in 1 .. l + 1 PROVE h[i] = g[i] \o k[1]
    OBVIOUS
  <2>1. CASE i <= l
    <3>1. i \in 1 .. l + m + 1
      BY <1>1
    <3> QED
      BY <2>1, <3>1
  <2>2. CASE ~(i <= l)
    <3>1. i = l + 1 /\ i \in 1 .. l + m + 1 /\ i - l = 1
      BY <1>1, <2>2
    <3> QED
      BY <1>8, <2>2, <3>1
  <2> QED
    BY <2>1, <2>2
<1>10. ASSUME NEW i \in 1 .. m + 1 PROVE h[i + l] = k[i]
  <2>1. i + l \in 1 .. l + m + 1 /\ ~(i + l <= l) /\ i + l - l = i
    BY <1>1
  <2> QED
    BY <2>1
<1> HIDE DEF h, pq, l, m
<1>11. ASSUME NEW i \in 1 .. l PROVE h[i] = Redacted(pq, i, old, h[Beyond(pq, i, old)])
  <2>1. Matches(pq, i, old) <=> Matches(p, i, old)
    BY <1>4 DEF Matched, l, pq
  <2>2. Beyond(pq, i, old) = Beyond(p, i, old)
    BY <2>1 DEF Beyond
  <2> DEFINE b == Beyond(p, i, old)
             first == IF Matches(p, i, old) THEN Marker ELSE <<p[i]>>
  <2>3. b \in 1 .. l + 1 /\ i \in 1 .. l + 1 /\ i \in 1 .. l + m /\ i <= l
    BY <1>1, <1>5, SMTT(60)
  <2>4. g[i] = first \o g[b]
    BY <1>2 DEF RedactsText, Redacted, l
  <2>5. Redacted(pq, i, old, h[b]) = first \o h[b]
    BY <1>1, <2>1, <2>3 DEF Redacted
  <2>6. first \in Seq(S) /\ g[b] \in Seq(S) /\ k[1] \in Seq(S)
    <3>1. Marker \in Seq(S) /\ <<p[i]>> \in Seq(S)
      BY <1>1, MarkerTyped
    <3> QED
      BY <1>7, <2>3, <3>1
  <2>7. h[i] = g[i] \o k[1] /\ h[b] = g[b] \o k[1]
    BY <1>9, <2>3
  <2> HIDE DEF b, first
  <2>8. (first \o g[b]) \o k[1] = first \o (g[b] \o k[1])
    <3>1. \A a, c, d \in Seq(S) : (a \o c) \o d = a \o (c \o d)
      BY ConcatAssociative, SMTT(60)
    <3> QED
      BY <2>6, <3>1, ZenonT(60)
  <2> QED
    BY <2>2, <2>4, <2>5, <2>7, <2>8 DEF b
<1>12. ASSUME NEW i \in l + 1 .. l + m PROVE h[i] = Redacted(pq, i, old, h[Beyond(pq, i, old)])
  <2> DEFINE j == i - l
  <2>0. j \in 1 .. m /\ j \in 1 .. m + 1 /\ i = j + l /\ i \in 1 .. l + m /\ ~(i <= l)
    BY <1>1
  <2>1. Matches(pq, i, old) <=> Matches(q, j, old)
    BY <1>4 DEF Matched, l, m, pq
  <2> HIDE DEF j
  <2> DEFINE b == Beyond(q, j, old)
  <2>2. Beyond(pq, i, old) = b + l
    BY <1>1, <2>0, <2>1 DEF Beyond
  <2>3. b \in 1 .. m + 1
    <3>1. b \in j + 1 .. m + 1
      BY <1>6, <2>0
    <3> HIDE DEF b
    <3> QED
      BY <1>1, <2>0, <3>1
  <2> HIDE DEF b
  <2>4. h[i] = k[j] /\ h[b + l] = k[b]
    <3>1. h[j + l] = k[j] /\ h[b + l] = k[b]
      BY <1>10, <2>0, <2>3
    <3> QED
      BY <2>0, <3>1
  <2>5. pq[i] = q[j]
    BY <1>1, <2>0 DEF j
  <2>6. k[j] = Redacted(q, j, old, k[b])
    BY <1>3, <2>0 DEF RedactsText, b, m
  <2>7. Redacted(pq, i, old, k[b]) = Redacted(q, j, old, k[b])
    BY <2>1, <2>5 DEF Redacted
  <2> QED
    BY <2>2, <2>4, <2>6, <2>7
<1>13. h[l + m + 1] = <<>>
  <2>1. m + 1 \in 1 .. m + 1 /\ m + 1 + l = l + m + 1
    BY <1>1
  <2>2. h[m + 1 + l] = k[m + 1]
    BY <1>10, <2>1
  <2> QED
    BY <1>8, <2>1, <2>2
<1>14. RedactsText(h, pq, old)
  <2>1. \A i \in 1 .. l + m : i \in 1 .. l \/ i \in l + 1 .. l + m
    BY <1>1
  <2> QED
    BY <1>1, <1>11, <1>12, <1>13, <2>1 DEF RedactsText
<1>15. Redact(pq, old) = h[1]
  BY <1>1, <1>14, RedactIs
<1>16. h[1] = g[1] \o k[1]
  <2>1. 1 \in 1 .. l + 1
    BY <1>1
  <2> QED
    BY <1>9, <2>1
<1> QED
  BY <1>2, <1>3, <1>15, <1>16 DEF RedactsApart, pq

\* What covers a position has the token that is there.
LEMMA MatchEndsBefore ==
    ASSUME NEW S, NEW s \in Seq(S), NEW old \in Secrets(S), NEW k \in 1 .. Len(s), ~Occurs(s[k], old),
           NEW i \in 1 .. k, Matches(s, i, old)
    PROVE  i + Len(old) <= k
<1>1. Len(s) \in Nat /\ Len(old) \in Nat /\ DOMAIN old = 1 .. Len(old) /\ i \in Nat /\ k \in Nat /\ i \in 1 .. Len(s)
  BY DEF Secrets
<1>2. \A j \in 1 .. Len(old) : s[i + j - 1] = old[j]
  BY <1>1, MatchMeans DEF Agrees
<1> SUFFICES ASSUME ~(i + Len(old) <= k) PROVE FALSE
  OBVIOUS
<1>3. k - i + 1 \in 1 .. Len(old) /\ i + (k - i + 1) - 1 = k
  BY <1>1
<1>4. s[k] = old[k - i + 1]
  BY <1>2, <1>3
<1> QED
  BY <1>1, <1>3, <1>4 DEF Occurs

RedactsAround(p, mark, q, old) == Redact(p \o <<mark>> \o q, old) = Redact(p, old) \o <<mark>> \o Redact(q, old)

\* What stands around a token that is not in old is replaced by itself.
LEMMA RedactAround ==
    ASSUME NEW S, MarkTokens \subseteq S, NEW p \in Seq(S), NEW mark \in S, NEW q \in Seq(S),
           NEW old \in Secrets(S), ~Occurs(mark, old)
    PROVE  RedactsAround(p, mark, q, old)
<1> DEFINE one == <<mark>>
           r == p \o one
           l == Len(p)
<1>1. one \in Seq(S) /\ Len(one) = 1 /\ one[1] = mark /\ l \in Nat /\ Len(q) \in Nat /\ Len(old) \in Nat
  BY DEF Secrets
<1> HIDE DEF one
<1>2. r \in Seq(S) /\ Len(r) = l + 1 /\ r[l + 1] = mark
  <2>1. /\ r \in Seq(S) /\ Len(r) = Len(p) + Len(one)
        /\ \A i \in 1 .. Len(p) + Len(one) : r[i] = IF i <= Len(p) THEN p[i] ELSE one[i - Len(p)]
    BY <1>1, ConcatProperties
  <2>2. l + 1 \in 1 .. l + 1 /\ ~(l + 1 <= l) /\ l + 1 - l = 1
    BY <1>1
  <2> HIDE DEF r
  <2>3. Len(r) = l + 1 /\ r[l + 1] = one[1]
    BY <1>1, <2>1, <2>2
  <2> QED
    BY <1>1, <2>1, <2>3
<1> HIDE DEF r
<1>3. r \o q \in Seq(S) /\ Len(r \o q) = l + 1 + Len(q) /\ (r \o q)[l + 1] = mark
  <2>1. /\ r \o q \in Seq(S) /\ Len(r \o q) = Len(r) + Len(q)
        /\ \A i \in 1 .. Len(r) + Len(q) : (r \o q)[i] = IF i <= Len(r) THEN r[i] ELSE q[i - Len(r)]
    BY <1>2, ConcatProperties
  <2>2. l + 1 \in 1 .. Len(r) + Len(q) /\ l + 1 <= Len(r)
    BY <1>1, <1>2
  <2> QED
    BY <1>2, <2>1, <2>2
<1> HIDE DEF l
<1>4. Parted(p, one, old)
  <2> SUFFICES ASSUME NEW i \in 1 .. l, Matches(r, i, old) PROVE i + Len(old) <= l + 1
    BY DEF Parted, r, l
  <2>1. l + 1 \in 1 .. Len(r) /\ i \in 1 .. l + 1 /\ ~Occurs(r[l + 1], old)
    BY <1>1, <1>2
  <2> QED
    BY <1>2, <2>1, MatchEndsBefore
<1>5. Parted(r, q, old)
  <2> SUFFICES ASSUME NEW i \in 1 .. l + 1, Matches(r \o q, i, old) PROVE i + Len(old) <= l + 2
    BY <1>1, <1>2 DEF Parted
  <2> DEFINE rq == r \o q
  <2>1. rq \in Seq(S) /\ l + 1 \in 1 .. Len(rq) /\ ~Occurs(rq[l + 1], old) /\ Matches(rq, i, old)
    BY <1>1, <1>3
  <2> HIDE DEF rq
  <2>2. i + Len(old) <= l + 1
    BY <2>1, MatchEndsBefore
  <2> QED
    BY <1>1, <2>2
<1>6. NowhereIn(one, old)
  <2> SUFFICES ASSUME NEW i \in 1 .. 1, Matches(one, i, old) PROVE FALSE
    BY <1>1 DEF NowhereIn
  <2>1. i = 1 /\ 1 \in 1 .. Len(one) /\ 1 \in 1 .. 1 /\ ~Occurs(one[1], old)
    BY <1>1
  <2>2. 1 + Len(old) <= 1
    BY <1>1, <2>1, MatchEndsBefore
  <2>3. Len(old) > 0
    BY EmptySeq DEF Secrets
  <2> QED
    BY <1>1, <2>2, <2>3
<1>7. Redact(one, old) = one
  BY <1>1, <1>6, RedactNothing
<1>8. RedactsApart(p, one, old) /\ RedactsApart(r, q, old)
  BY <1>1, <1>2, <1>4, <1>5, RedactConcat
<1> QED
  BY <1>7, <1>8 DEF RedactsApart, RedactsAround, r, one

-----------------------------------------------------------------------------
(* What a replacement leaves                                               *)

\* From position i on, s has the tokens of w but for the first k.
AgreesFrom(s, i, w, k) == i + Len(w) - k <= Len(s) + 1 /\ \A j \in k + 1 .. Len(w) : s[i + j - k - 1] = w[j]

\* A token, or the marker, before a string.
LEMMA Prepended ==
    ASSUME NEW S, NEW x \in Seq(S), NEW r \in Seq(S)
    PROVE  /\ Len(x \o r) = Len(x) + Len(r)
           /\ \A j \in 1 .. Len(x) : (x \o r)[j] = x[j]
           /\ \A j \in 1 .. Len(r) : (x \o r)[Len(x) + j] = r[j]
<1> DEFINE y == x \o r
<1>1. /\ Len(y) = Len(x) + Len(r) /\ Len(x) \in Nat /\ Len(r) \in Nat
      /\ \A i \in 1 .. Len(x) + Len(r) : y[i] = IF i <= Len(x) THEN x[i] ELSE r[i - Len(x)]
  BY ConcatProperties
<1> HIDE DEF y
<1>2. ASSUME NEW j \in 1 .. Len(x) PROVE y[j] = x[j]
  <2>1. j \in 1 .. Len(x) + Len(r) /\ j <= Len(x)
    BY <1>1
  <2> QED
    BY <1>1, <2>1
<1>3. ASSUME NEW j \in 1 .. Len(r) PROVE y[Len(x) + j] = r[j]
  <2>1. Len(x) + j \in 1 .. Len(x) + Len(r) /\ ~(Len(x) + j <= Len(x)) /\ Len(x) + j - Len(x) = j
    BY <1>1
  <2> QED
    BY <1>1, <2>1
<1> QED
  BY <1>1, <1>2, <1>3 DEF y

\* What begins at the start of the written string and has no "<" in it is the
\* string's own.
LEMMA StartIsOwn ==
    ASSUME NEW S, MarkTokens \subseteq S, NEW s \in Seq(S), NEW R, NEW old \in Secrets(R),
           NEW g \in [1 .. Len(s) + 1 -> Seq(S)], RedactsText(g, s, old),
           NEW w \in Seq(S), ~Occurs("<", w)
    PROVE  \A i \in 1 .. Len(s) + 1 : \A k \in Nat :
              k < Len(w) /\ AgreesFrom(g[i], 1, w, k)
                 => i \in 1 .. Len(s) /\ AgreesFrom(s, i, w, k) /\ ~Matches(s, i, old)
<1> DEFINE n == Len(s)
           Own(i, k) == i \in 1 .. n /\ AgreesFrom(s, i, w, k) /\ ~Matches(s, i, old)
           T == {i \in 1 .. n + 1 : \A k \in Nat : k < Len(w) /\ AgreesFrom(g[i], 1, w, k) => Own(i, k)}
<1>1. n \in Nat /\ Len(w) \in Nat /\ DOMAIN w = 1 .. Len(w)
  OBVIOUS
<1>2. n + 1 \in T
  <2>1. g[n + 1] = <<>> /\ n + 1 \in 1 .. n + 1 /\ Len(<<>>) = 0
    BY <1>1 DEF RedactsText
  <2>2. \A k \in Nat : k < Len(w) => ~(1 + Len(w) - k <= 0 + 1)
    BY <1>1
  <2> QED
    BY <2>1, <2>2 DEF AgreesFrom
<1>3. ASSUME NEW i \in 1 .. n, \A j \in i + 1 .. n + 1 : j \in T PROVE i \in T
  <2> SUFFICES ASSUME NEW k \in Nat, k < Len(w), AgreesFrom(g[i], 1, w, k) PROVE Own(i, k)
    BY <1>1
  <2>1. /\ 1 + Len(w) - k <= Len(g[i]) + 1
        /\ \A j \in k + 1 .. Len(w) : g[i][1 + j - k - 1] = w[j]
    BY DEF AgreesFrom
  <2>2. g[i][1] = w[k + 1] /\ w[k + 1] # "<"
    <3>1. k + 1 \in k + 1 .. Len(w) /\ 1 + (k + 1) - k - 1 = 1 /\ k + 1 \in 1 .. Len(w)
      BY <1>1
    <3>2. g[i][1] = w[k + 1]
      BY <2>1, <3>1
    <3> QED
      BY <1>1, <3>1, <3>2 DEF Occurs
  <2>3. g[i] = Redacted(s, i, old, g[Beyond(s, i, old)]) /\ Beyond(s, i, old) \in i + 1 .. n + 1
    BY BeyondLeads DEF RedactsText
  <2>4. g[Beyond(s, i, old)] \in Seq(S)
    <3> DEFINE b == Beyond(s, i, old)
    <3>1. b \in i + 1 .. n + 1
      BY <2>3
    <3> HIDE DEF b
    <3>2. b \in 1 .. n + 1
      BY <1>1, <3>1
    <3> QED
      BY <3>2 DEF b
  <2>5. ~Matches(s, i, old)
    <3> SUFFICES ASSUME Matches(s, i, old) PROVE FALSE
      OBVIOUS
    <3>1. g[i] = Marker \o g[Beyond(s, i, old)]
      BY <2>3 DEF Redacted
    <3>2. Len(Marker) = 3 /\ Marker[1] = "<" /\ 1 \in 1 .. 3
      BY DEF Marker
    <3>3. g[i][1] = "<"
      <4> DEFINE rest == g[Beyond(s, i, old)]
      <4>1. rest \in Seq(S) /\ Marker \in Seq(S) /\ g[i] = Marker \o rest
        BY <2>4, <3>1, MarkerTyped
      <4> HIDE DEF rest
      <4>2. \A j \in 1 .. Len(Marker) : (Marker \o rest)[j] = Marker[j]
        BY <4>1, Prepended
      <4> QED
        BY <3>2, <4>1, <4>2
    <3> QED
      BY <2>2, <3>3
  <2> DEFINE r == g[i + 1]
  <2>6. g[i] = <<s[i]>> \o r /\ r \in Seq(S) /\ s[i] \in S /\ i + 1 \in i + 1 .. n + 1
    <3>1. i + 1 \in 1 .. n + 1 /\ i + 1 \in i + 1 .. n + 1 /\ s[i] \in S
      BY <1>1
    <3>2. Beyond(s, i, old) = i + 1
      BY <2>5 DEF Beyond
    <3> QED
      BY <2>3, <2>5, <3>1, <3>2 DEF Redacted
  <2> DEFINE one == <<s[i]>>
  <2>7. /\ Len(g[i]) = 1 + Len(r) /\ g[i][1] = s[i] /\ Len(r) \in Nat
        /\ \A j \in 1 .. Len(r) : g[i][1 + j] = r[j]
    <3>1. one \in Seq(S) /\ Len(one) = 1 /\ one[1] = s[i] /\ 1 \in 1 .. 1
      BY <2>6
    <3>2. g[i] = one \o r
      BY <2>6
    <3>0. r \in Seq(S)
      BY <2>6
    <3> HIDE DEF one, r
    <3>3. /\ Len(one \o r) = 1 + Len(r) /\ Len(r) \in Nat
          /\ \A j \in 1 .. 1 : (one \o r)[j] = one[j]
          /\ \A j \in 1 .. Len(r) : (one \o r)[1 + j] = r[j]
      <4>1. /\ Len(one \o r) = Len(one) + Len(r)
            /\ \A j \in 1 .. Len(one) : (one \o r)[j] = one[j]
            /\ \A j \in 1 .. Len(r) : (one \o r)[Len(one) + j] = r[j]
        <5>1. one \in Seq(S)
          BY <3>1
        <5> QED
          BY <3>0, <5>1, Prepended
      <4>2. Len(r) \in Nat
        BY <3>0
      <4> QED
        BY <3>1, <4>1, <4>2
    <3> QED
      BY <2>6, <3>1, <3>2, <3>3
  <2> HIDE DEF one, r
  <2>8. CASE k + 1 = Len(w)
    <3>1. \A j \in k + 1 .. Len(w) : j = k + 1 /\ i + j - k - 1 = i
      BY <1>1, <2>8
    <3>2. i + Len(w) - k <= n + 1
      BY <1>1, <2>8
    <3>3. AgreesFrom(s, i, w, k)
      BY <2>2, <2>7, <3>1, <3>2 DEF AgreesFrom
    <3> QED
      BY <2>5, <3>3
  <2>9. CASE k + 1 # Len(w)
    <3>1. k + 1 \in Nat /\ k + 1 < Len(w)
      <4>1. \A m \in Nat : k < m /\ k + 1 # m => k + 1 \in Nat /\ k + 1 < m
        OBVIOUS
      <4> HIDE DEF T, Own
      <4> QED
        BY <1>1, <2>9, <4>1
    <3>2. AgreesFrom(r, 1, w, k + 1)
      <4>1. 1 + Len(w) - (k + 1) <= Len(r) + 1
        BY <1>1, <2>1, <2>7
      <4>2. ASSUME NEW j \in (k + 1) + 1 .. Len(w) PROVE r[1 + j - (k + 1) - 1] = w[j]
        <5>1. j \in k + 1 .. Len(w) /\ j - k - 1 \in 1 .. Len(r) /\ 1 + (j - k - 1) = 1 + j - k - 1
              /\ 1 + j - (k + 1) - 1 = j - k - 1
          BY <1>1, <4>1
        <5>2. g[i][1 + j - k - 1] = w[j]
          BY <2>1, <5>1
        <5>3. g[i][1 + (j - k - 1)] = r[j - k - 1]
          BY <2>7, <5>1
        <5> QED
          BY <5>1, <5>2, <5>3
      <4> QED
        BY <4>1, <4>2 DEF AgreesFrom
    <3>3. i + 1 \in T
      BY <1>3, <2>6
    <3>4. Own(i + 1, k + 1)
      BY <3>1, <3>2, <3>3 DEF r
    <3>5. /\ (i + 1) + Len(w) - (k + 1) <= n + 1
          /\ \A j \in (k + 1) + 1 .. Len(w) : s[(i + 1) + j - (k + 1) - 1] = w[j]
      BY <3>4 DEF AgreesFrom
    <3>6. ASSUME NEW j \in k + 1 .. Len(w) PROVE s[i + j - k - 1] = w[j]
      <4>1. CASE j = k + 1
        <5>1. i + j - k - 1 = i
          BY <4>1
        <5> QED
          BY <2>2, <2>7, <4>1, <5>1
      <4>2. CASE j # k + 1
        <5>1. j \in (k + 1) + 1 .. Len(w) /\ (i + 1) + j - (k + 1) - 1 = i + j - k - 1
          BY <4>2
        <5> QED
          BY <3>5, <5>1
      <4> QED
        BY <4>1, <4>2
    <3>7. i + Len(w) - k <= n + 1
      BY <1>1, <3>5
    <3>8. AgreesFrom(s, i, w, k)
      BY <3>6, <3>7 DEF AgreesFrom
    <3> QED
      BY <2>5, <3>8
  <2> QED
    BY <2>8, <2>9
<1> HIDE DEF T
<1>4. 1 .. n + 1 \subseteq T
  BY <1>1, <1>2, <1>3, DownInduction
<1> QED
  BY <1>4 DEF T

\* A string without the signs of the marker that stands in what is written stood
\* in the string before, where nothing is replaced.
LEMMA StoodBefore ==
    ASSUME NEW S, MarkTokens \subseteq S, NEW s \in Seq(S), NEW R, NEW old \in Secrets(R),
           NEW w \in Secrets(S), Unmarked(w), ~NowhereIn(Redact(s, old), w)
    PROVE  \E i \in 1 .. Len(s) : Matches(s, i, w) /\ ~Matches(s, i, old)
<1> DEFINE n == Len(s)
           Stood(i) == \E m \in 1 .. n : Agrees(s, m, w) /\ ~Matches(s, m, old)
<1>1. PICK g \in [1 .. n + 1 -> Seq(S)] : RedactsText(g, s, old) /\ Redact(s, old) = g[1]
  BY RedactScans
<1> DEFINE T == {i \in 1 .. n + 1 : (\E p \in 1 .. Len(g[i]) : Agrees(g[i], p, w)) => Stood(i)}
<1>2. /\ n \in Nat /\ w \in Seq(S) /\ Len(w) \in Nat /\ Len(w) > 0 /\ DOMAIN w = 1 .. Len(w)
      /\ ~Occurs("<", w) /\ ~Occurs(">", w) /\ w # <<"redacted">>
  BY EmptySeq DEF Secrets, Unmarked
<1>3. n + 1 \in T
  <2>1. g[n + 1] = <<>> /\ n + 1 \in 1 .. n + 1 /\ 1 .. Len(<<>>) = {}
    BY <1>1, <1>2 DEF RedactsText
  <2> QED
    BY <2>1
<1>4. ASSUME NEW i \in 1 .. n, \A j \in i + 1 .. n + 1 : j \in T PROVE i \in T
  <2> SUFFICES ASSUME NEW p \in 1 .. Len(g[i]), Agrees(g[i], p, w) PROVE Stood(i)
    BY <1>2
  <2> DEFINE b == Beyond(s, i, old)
             r == g[b]
  <2>1. b \in i + 1 .. n + 1 /\ g[i] = Redacted(s, i, old, r)
    BY <1>1, BeyondLeads DEF RedactsText
  <2>2. r \in Seq(S) /\ i \in 1 .. n + 1 /\ g[i] \in Seq(S)
    <3> HIDE DEF b
    <3>1. b \in 1 .. n + 1
      BY <1>2, <2>1
    <3> QED
      BY <1>2, <3>1
  <2>3. b \in T
    BY <1>4, <2>1
  <2>4. p + Len(w) <= Len(g[i]) + 1 /\ \A j \in 1 .. Len(w) : g[i][p + j - 1] = w[j]
    BY DEF Agrees
  <2>5. ASSUME NEW x \in Seq(S), g[i] = x \o r, p > Len(x) PROVE Stood(i)
    <3> DEFINE q == p - Len(x)
    <3>1. /\ Len(g[i]) = Len(x) + Len(r) /\ Len(x) \in Nat /\ Len(r) \in Nat
          /\ \A j \in 1 .. Len(r) : g[i][Len(x) + j] = r[j]
      BY <2>2, <2>5, Prepended
    <3> HIDE DEF r
    <3>2. q \in 1 .. Len(r) /\ q + Len(w) <= Len(r) + 1
      BY <1>2, <2>4, <2>5, <3>1
    <3>3. ASSUME NEW j \in 1 .. Len(w) PROVE r[q + j - 1] = w[j]
      <4>1. q + j - 1 \in 1 .. Len(r) /\ Len(x) + (q + j - 1) = p + j - 1
        BY <1>2, <3>1, <3>2
      <4>2. g[i][Len(x) + (q + j - 1)] = r[q + j - 1]
        BY <3>1, <4>1
      <4> QED
        BY <2>4, <4>1, <4>2
    <3>4. Agrees(r, q, w)
      BY <3>2, <3>3 DEF Agrees
    <3> QED
      BY <2>3, <3>2, <3>4 DEF r
  <2>6. CASE Matches(s, i, old)
    <3>1. g[i] = Marker \o r /\ Marker \in Seq(S)
      BY <2>1, <2>6, MarkerTyped DEF Redacted
    <3>2. Len(Marker) = 3 /\ Marker[1] = "<" /\ Marker[2] = "redacted" /\ Marker[3] = ">"
      BY DEF Marker
    <3>3. g[i][1] = "<" /\ g[i][2] = "redacted" /\ g[i][3] = ">"
      <4>1. \A j \in 1 .. Len(Marker) : (Marker \o r)[j] = Marker[j]
        <5> HIDE DEF r
        <5> QED
          BY <2>2, <3>1, Prepended
      <4>2. 1 \in 1 .. 3 /\ 2 \in 1 .. 3 /\ 3 \in 1 .. 3
        OBVIOUS
      <4> QED
        BY <3>1, <3>2, <4>1, <4>2
    <3>4. g[i][p] = w[1] /\ 1 \in 1 .. Len(w)
      <4>1. 1 \in 1 .. Len(w) /\ p + 1 - 1 = p
        BY <1>2
      <4> QED
        BY <2>4, <4>1
    <3>5. w[1] # "<" /\ w[1] # ">"
      BY <1>2, <3>4 DEF Occurs
    <3>6. p # 1 /\ p # 3
      BY <3>3, <3>4, <3>5
    <3>7. p # 2
      <4> SUFFICES ASSUME p = 2 PROVE FALSE
        OBVIOUS
      <4>1. w[1] = "redacted"
        BY <3>3, <3>4
      <4>2. CASE Len(w) = 1
        <5>1. w = <<"redacted">>
          BY <1>2, <4>1, <4>2
        <5> QED
          BY <1>2, <5>1
      <4>3. CASE Len(w) # 1
        <5>1. 2 \in 1 .. Len(w) /\ p + 2 - 1 = 3
          BY <1>2, <4>3
        <5>2. w[2] = ">"
          BY <2>4, <3>3, <5>1
        <5> QED
          BY <1>2, <5>1, <5>2 DEF Occurs
      <4> QED
        BY <4>2, <4>3
    <3>8. p > 3
      BY <2>2, <3>6, <3>7
    <3> QED
      BY <2>5, <3>1, <3>2, <3>8
  <2>7. CASE ~Matches(s, i, old)
    <3> DEFINE one == <<s[i]>>
    <3>1. one \in Seq(S) /\ Len(one) = 1 /\ g[i] = one \o r
      <4>1. s[i] \in S
        BY <1>2
      <4> QED
        BY <2>1, <2>7, <4>1 DEF Redacted
    <3> HIDE DEF one
    <3>2. CASE p > 1
      BY <2>5, <3>1, <3>2
    <3>3. CASE ~(p > 1)
      <4>1. p = 1
        BY <2>2, <3>3
      <4>2. AgreesFrom(g[i], 1, w, 0)
        <5>1. 1 + Len(w) - 0 <= Len(g[i]) + 1
          BY <1>2, <2>4, <4>1
        <5>2. \A j \in 0 + 1 .. Len(w) : j \in 1 .. Len(w) /\ 1 + j - 0 - 1 = p + j - 1
          BY <1>2, <4>1
        <5> QED
          BY <2>4, <5>1, <5>2 DEF AgreesFrom
      <4>3. i \in 1 .. n /\ AgreesFrom(s, i, w, 0)
        BY <1>1, <1>2, <2>2, <4>2, StartIsOwn
      <4>4. Agrees(s, i, w)
        <5>1. i + Len(w) <= n + 1
          BY <1>2, <4>3 DEF AgreesFrom
        <5>2. \A j \in 1 .. Len(w) : j \in 0 + 1 .. Len(w) /\ i + j - 0 - 1 = i + j - 1
          BY <1>2
        <5> QED
          BY <4>3, <5>1, <5>2 DEF AgreesFrom, Agrees
      <4> QED
        BY <2>7, <4>4
    <3> QED
      BY <3>2, <3>3
  <2> QED
    BY <2>6, <2>7
<1> HIDE DEF T
<1>5. 1 \in T
  <2>1. 1 .. n + 1 \subseteq T
    BY <1>2, <1>3, <1>4, DownInduction
  <2>2. 1 \in 1 .. n + 1
    BY <1>2
  <2> QED
    BY <2>1, <2>2
<1>6. \E p \in 1 .. Len(g[1]) : Agrees(g[1], p, w)
  <2>1. g[1] \in Seq(S)
    <3>1. 1 \in 1 .. n + 1
      BY <1>2
    <3> QED
      BY <3>1
  <2>2. PICK p \in 1 .. Len(g[1]) : Matches(g[1], p, w)
    BY <1>1 DEF NowhereIn
  <2> QED
    BY <2>1, <2>2, MatchMeans
<1>7. PICK m \in 1 .. n : Agrees(s, m, w) /\ ~Matches(s, m, old)
  BY <1>5, <1>6 DEF T
<1> QED
  BY <1>7, MatchMeans

\* Redact (strings.ReplaceAll) leaves no occurrence of what it replaces.
LEMMA RedactRemoves ==
    ASSUME NEW S, MarkTokens \subseteq S, NEW s \in Seq(S), NEW w \in Secrets(S), Unmarked(w)
    PROVE  NowhereIn(Redact(s, w), w)
BY StoodBefore

\* And puts none of another string together.
LEMMA RedactAdds ==
    ASSUME NEW S, MarkTokens \subseteq S, NEW s \in Seq(S), NEW R, NEW old \in Secrets(R),
           NEW w \in Secrets(S), Unmarked(w), NowhereIn(s, w)
    PROVE  NowhereIn(Redact(s, old), w)
BY StoodBefore DEF NowhereIn

-----------------------------------------------------------------------------
(* The order of the values                                                 *)

Sorted(order, values) ==
    /\ order \in [1 .. Cardinality(values) -> values] /\ IsOrder(order, values)
    /\ \A i, j \in DOMAIN order : i < j => Len(order[i]) >= Len(order[j])

\* Finitely many strings can be sorted.
LEMMA OrderExists ==
    ASSUME NEW S, NEW V \in SUBSET Seq(S), IsFiniteSet(V)
    PROVE  \E order : Sorted(order, V)
<1> DEFINE n == Cardinality(V)
           T == {k \in 0 .. n : \A W \in SUBSET V : Cardinality(W) = k => \E order : Sorted(order, W)}
<1>1. n \in Nat
  BY FS_CardinalityType
<1>2. \A W \in SUBSET V : IsFiniteSet(W) /\ Cardinality(W) \in Nat
  BY FS_Subset, FS_CardinalityType
<1>3. 0 \in T
  <2> SUFFICES ASSUME NEW W \in SUBSET V, Cardinality(W) = 0 PROVE Sorted(<<>>, W)
    BY <1>1
  <2>1. W = {}
    BY <1>2, FS_EmptySet
  <2>2. <<>> \in [1 .. 0 -> W] /\ DOMAIN <<>> = {}
    OBVIOUS
  <2> QED
    BY <2>1, <2>2 DEF Sorted, IsOrder
<1>4. ASSUME NEW k \in 1 .. n, k - 1 \in T PROVE k \in T
  <2> SUFFICES ASSUME NEW W \in SUBSET V, Cardinality(W) = k PROVE \E order : Sorted(order, W)
    OBVIOUS
  <2>1. W # {} /\ IsFiniteSet(W)
    BY <1>2, FS_EmptySet
  <2>2. PICK w \in W : \A v \in W : Len(w) <= Len(v)
    <3> DEFINE L == {Len(v) : v \in W}
    <3>0. \A v \in W : Len(v) \in Nat
      OBVIOUS
    <3>1. L \in SUBSET Nat /\ L # {}
      BY <2>1, <3>0
    <3>2. \E l \in L : \A m \in L : l <= m
      <4> HIDE DEF L
      <4> QED
        BY <3>1, LeastMember
    <3> QED
      BY <3>2
  <2>3. Cardinality(W \ {w}) = k - 1
    BY <2>1, FS_RemoveElement
  <2>4. PICK order : Sorted(order, W \ {w})
    BY <1>4, <2>3
  <2> DEFINE o == [i \in 1 .. k |-> IF i = k THEN w ELSE order[i]]
  <2>5. order \in [1 .. k - 1 -> W \ {w}] /\ DOMAIN order = 1 .. k - 1
    BY <2>3, <2>4 DEF Sorted
  <2>6. k \in Nat /\ k \in 1 .. k /\ \A i \in 1 .. k : i = k \/ i \in 1 .. k - 1
    OBVIOUS
  <2>7. o \in [1 .. k -> W]
    BY <2>5, <2>6
  <2>8. IsOrder(o, W)
    <3> SUFFICES ASSUME NEW v \in W PROVE \E i \in 1 .. k : o[i] = v
      BY <2>7 DEF IsOrder
    <3>1. CASE v = w
      BY <2>6, <3>1
    <3>2. CASE v # w
      <4>1. PICK i \in 1 .. k - 1 : order[i] = v
        BY <2>4, <2>5, <3>2 DEF Sorted, IsOrder
      <4>2. i \in 1 .. k /\ i # k
        BY <2>6
      <4> QED
        BY <4>1, <4>2
    <3> QED
      BY <3>1, <3>2
  <2>9. ASSUME NEW i \in 1 .. k, NEW j \in 1 .. k, i < j PROVE Len(o[i]) >= Len(o[j])
    <3>1. i \in 1 .. k - 1
      BY <2>9
    <3>2. o[i] = order[i] /\ order[i] \in W /\ i # k
      BY <2>5, <3>1
    <3>3. CASE j = k
      <4>1. Len(w) <= Len(order[i]) /\ o[j] = w
        BY <2>2, <3>2, <3>3
      <4>2. Len(w) \in Nat /\ Len(order[i]) \in Nat
        BY <3>2
      <4> QED
        BY <3>2, <4>1, <4>2
    <3>4. CASE j # k
      <4>1. j \in 1 .. k - 1
        BY <3>4
      <4> QED
        BY <2>4, <2>5, <2>9, <3>1, <3>2, <3>4, <4>1 DEF Sorted
    <3> QED
      BY <3>3, <3>4
  <2> HIDE DEF o
  <2>10. DOMAIN o = 1 .. k
    BY <2>7
  <2>11. Sorted(o, W)
    BY <2>7, <2>8, <2>9, <2>10 DEF Sorted
  <2> QED
    BY <2>11
<1> HIDE DEF T
<1>5. 0 .. n \subseteq T
  BY <1>1, <1>3, <1>4, Induction
<1>6. n \in T
  BY <1>1, <1>5
<1> QED
  BY <1>6 DEF T

\* LongestFirst (interpolatedValues, plan_redaction.go 104-109) sorts them.
LEMMA LongestFirstSorts ==
    ASSUME NEW S, NEW V \in SUBSET Seq(S), IsFiniteSet(V)
    PROVE  Sorted(LongestFirst(V), V)
<1>1. \E sorted : Sorted(sorted, V)
  BY OrderExists
<1>2. \E order \in [1 .. Cardinality(V) -> V] :
         IsOrder(order, V) /\ \A i, j \in DOMAIN order : i < j => Len(order[i]) >= Len(order[j])
  BY <1>1 DEF Sorted
<1> QED
  BY <1>2 DEF LongestFirst, Sorted

-----------------------------------------------------------------------------
(* All values                                                              *)

RedactsAll(g, s, order, n) == g[0] = s /\ \A i \in 1 .. n : g[i] = Redact(g[i - 1], order[i])

\* A finite set of nonempty strings.
Values(V, S) == V \in SUBSET Secrets(S) /\ IsFiniteSet(V)

\* The values in their order.
LEMMA OrderOf ==
    ASSUME NEW S, NEW V, Values(V, S)
    PROVE  LET order == LongestFirst(V)
               n == Len(order)
           IN  /\ n \in Nat /\ DOMAIN order = 1 .. n
               /\ \A i \in 1 .. n : order[i] \in V /\ order[i] \in Secrets(S)
               /\ \A v \in V : \E i \in 1 .. n : order[i] = v
               /\ \A i, j \in 1 .. n : i < j => Len(order[i]) >= Len(order[j])
<1> DEFINE order == LongestFirst(V)
           n == Cardinality(V)
<1>1. V \in SUBSET Seq(S) /\ n \in Nat
  BY FS_CardinalityType DEF Values, Secrets
<1>2. Sorted(order, V)
  BY <1>1, LongestFirstSorts DEF Values
<1> HIDE DEF order
<1>3. order \in [1 .. n -> V] /\ DOMAIN order = 1 .. n
  BY <1>2 DEF Sorted
<1>4. Len(order) = n
  BY <1>1, <1>3
<1>5. \A i \in 1 .. n : order[i] \in V /\ order[i] \in Secrets(S)
  BY <1>3 DEF Values
<1>6. /\ \A v \in V : \E i \in 1 .. n : order[i] = v
      /\ \A i, j \in 1 .. n : i < j => Len(order[i]) >= Len(order[j])
  BY <1>2, <1>3 DEF Sorted, IsOrder
<1> HIDE DEF n
<1> QED
  BY <1>1, <1>3, <1>4, <1>5, <1>6 DEF order

\* RedactAll (redactPlanString) is computed value by value.
LEMMA RedactAllSteps ==
    ASSUME NEW S, MarkTokens \subseteq S, NEW s \in Seq(S), NEW R, NEW V, Values(V, R)
    PROVE  \E g \in [0 .. Len(LongestFirst(V)) -> Seq(S)] :
              /\ RedactsAll(g, s, LongestFirst(V), Len(LongestFirst(V)))
              /\ RedactAll(s, V) = g[Len(LongestFirst(V))]
<1> DEFINE order == LongestFirst(V)
           n == Len(order)
           F == [i \in 1 .. n |-> [x \in Seq(S) |-> Redact(x, order[i])]]
           Next(f, i) == IF i = 0 THEN s ELSE Redact(f[i - 1], order[i])
           redacted == CHOOSE redacted : redacted = [i \in 0 .. n |-> Next(redacted, i)]
<1>1. n \in Nat /\ \A i \in 1 .. n : order[i] \in Secrets(R)
  BY OrderOf
<1>2. RedactAll(s, V) = redacted[n]
  BY DEF RedactAll
<1>3. (\E f : f = [i \in 0 .. n |-> Next(f, i)]) => redacted = [i \in 0 .. n |-> Next(redacted, i)]
  OBVIOUS
<1> HIDE DEF order, n
<1>4. (\A i \in 1 .. n : i - 1 \in 0 .. n /\ i \in 0 .. n) /\ 0 \in 0 .. n /\ \A i \in 0 .. n : i = 0 \/ i \in 1 .. n
  BY <1>1
<1>5. StepsStay(F, n, Seq(S)) /\ \A i \in 1 .. n : \A x \in Seq(S) : F[i][x] = Redact(x, order[i])
  <2>1. ASSUME NEW i \in 1 .. n, NEW x \in Seq(S) PROVE Redact(x, order[i]) \in Seq(S)
    BY <1>1, RedactTyped
  <2> QED
    BY <2>1 DEF StepsStay
<1>6. ASSUME NEW f PROVE Next(f, 0) = s /\ \A i \in 1 .. n : Next(f, i) = Redact(f[i - 1], order[i])
  OBVIOUS
<1> HIDE DEF F, Next, redacted
<1>7. PICK g \in [0 .. n -> Seq(S)] : Follows(g, s, F, n)
  BY <1>1, <1>5, Recursion
<1>8. g[0] = s /\ \A i \in 1 .. n : g[i] = Redact(g[i - 1], order[i])
  BY <1>4, <1>5, <1>7 DEF Follows
<1>9. g = [i \in 0 .. n |-> Next(g, i)]
  BY <1>4, <1>6, <1>8
<1>10. redacted[0] = s /\ \A i \in 1 .. n : redacted[i] = Redact(redacted[i - 1], order[i])
  BY <1>3, <1>4, <1>6, <1>9
<1>11. SameStep(g, redacted, n)
  BY <1>8, <1>10 DEF SameStep
<1>12. g[n] = redacted[n]
  BY <1>1, <1>11, SameSteps
<1>13. RedactsAll(g, s, order, n)
  BY <1>8 DEF RedactsAll
<1> QED
  BY <1>2, <1>12, <1>13 DEF n, order

\* What has been written stays written.
LEMMA RedactAllTyped ==
    ASSUME NEW S, MarkTokens \subseteq S, NEW s \in Seq(S), NEW R, NEW V, Values(V, R)
    PROVE  RedactAll(s, V) \in Seq(S)
<1>1. Len(LongestFirst(V)) \in Nat
  BY OrderOf
<1>2. Len(LongestFirst(V)) \in 0 .. Len(LongestFirst(V))
  BY <1>1
<1> QED
  BY <1>2, RedactAllSteps

\* Nothing is left of a value: the values before it are longer, or as long,
\* and leave it alone, and what replaces it is not changed any more.
THEOREM RedactAllHides ==
    ASSUME NEW S, MarkTokens \subseteq S, NEW V, Values(V, S), NEW v \in V
    PROVE  RedactAll(v, V) \in Seq(MarkTokens)
<1> DEFINE order == LongestFirst(V)
           n == Len(order)
           Gone == Seq(MarkTokens)
<1>1. /\ n \in Nat
      /\ \A i \in 1 .. n : order[i] \in V /\ order[i] \in Secrets(S)
      /\ \A w \in V : \E i \in 1 .. n : order[i] = w
      /\ \A i, j \in 1 .. n : i < j => Len(order[i]) >= Len(order[j])
  BY OrderOf
<1>2. v \in Secrets(S) /\ v \in Seq(S)
  BY DEF Values, Secrets
<1>3. PICK g \in [0 .. n -> Seq(S)] : RedactsAll(g, v, order, n) /\ RedactAll(v, V) = g[n]
  BY <1>2, RedactAllSteps
<1> HIDE DEF n, order
<1>4. g[0] = v /\ \A i \in 1 .. n : g[i] = Redact(g[i - 1], order[i])
  BY <1>3 DEF RedactsAll
<1>5. PICK m \in 1 .. n : order[m] = v
  BY <1>1
<1> DEFINE T == {i \in 0 .. n : (i < m /\ g[i] = v) \/ g[i] \in Gone}
<1>6. 0 \in T
  BY <1>1, <1>4
<1>7. ASSUME NEW i \in 1 .. n, i - 1 \in T PROVE i \in T
  <2>1. g[i] = Redact(g[i - 1], order[i]) /\ order[i] \in Secrets(S) /\ i \in 0 .. n
    BY <1>1, <1>4
  <2>2. CASE g[i - 1] \in Gone
    <3>1. Redact(g[i - 1], order[i]) \in Seq(MarkTokens)
      BY <2>1, <2>2, RedactTyped
    <3> QED
      BY <2>1, <3>1
  <2>3. CASE i - 1 < m /\ g[i - 1] = v
    <3>1. CASE order[i] = v
      <4>1. g[i] = Marker
        BY <1>2, <2>1, <2>3, <3>1, RedactWhole
      <4>2. Marker \in Gone
        BY MarkerTyped
      <4> QED
        BY <2>1, <4>1, <4>2
    <3>2. CASE order[i] # v
      <4>1. i < m /\ m \in 1 .. n
        <5>1. i <= m /\ i # m
          BY <1>1, <1>5, <2>3, <3>2
        <5> QED
          BY <1>1, <5>1
      <4>2. Len(order[i]) >= Len(v)
        BY <1>1, <1>5, <4>1
      <4>3. NowhereIn(v, order[i])
        BY <1>2, <2>1, <3>2, <4>2, LongerNowhere
      <4>4. Redact(v, order[i]) = v
        BY <1>2, <2>1, <4>3, RedactNothing
      <4> QED
        BY <2>1, <2>3, <4>1, <4>4
    <3> QED
      BY <3>1, <3>2
  <2> QED
    BY <1>7, <2>2, <2>3
<1> HIDE DEF T
<1>8. n \in T
  <2>1. 0 .. n \subseteq T
    BY <1>1, <1>6, <1>7, Induction
  <2> QED
    BY <1>1, <2>1
<1>9. ~(n < m)
  BY <1>1
<1> QED
  BY <1>3, <1>8, <1>9 DEF T

\* redactPlanString for all values and every string: none of the values that the
\* marker cannot complete stands anywhere in what is shown, not even put together
\* from what the replacement of others leaves.
THEOREM RedactAllRemoves ==
    ASSUME NEW S, MarkTokens \subseteq S, NEW s \in Seq(S), NEW V, Values(V, S), NEW v \in V, Unmarked(v)
    PROVE  NowhereIn(RedactAll(s, V), v)
<1> DEFINE order == LongestFirst(V)
           n == Len(order)
<1>1. /\ n \in Nat /\ \A i \in 1 .. n : order[i] \in Secrets(S)
      /\ \E i \in 1 .. n : order[i] = v
  BY OrderOf
<1>2. PICK g \in [0 .. n -> Seq(S)] : RedactsAll(g, s, order, n) /\ RedactAll(s, V) = g[n]
  BY RedactAllSteps
<1> HIDE DEF n, order
<1>3. \A i \in 1 .. n : g[i] = Redact(g[i - 1], order[i]) /\ g[i - 1] \in Seq(S)
  <2>1. \A i \in 1 .. n : i - 1 \in 0 .. n
    BY <1>1
  <2> QED
    BY <1>2, <2>1 DEF RedactsAll
<1>4. PICK m \in 1 .. n : order[m] = v
  BY <1>1
<1> DEFINE T == {i \in 0 .. n : i >= m => NowhereIn(g[i], v)}
<1>5. 0 \in T
  BY <1>1
<1>6. ASSUME NEW i \in 1 .. n, i - 1 \in T PROVE i \in T
  <2>0. i \in 0 .. n /\ v \in Secrets(S) /\ order[i] \in Secrets(S)
    BY <1>1 DEF Values
  <2>1. CASE i < m
    BY <1>1, <2>0, <2>1
  <2>2. CASE i = m
    <3>1. NowhereIn(Redact(g[i - 1], v), v)
      BY <1>3, <2>0, RedactRemoves
    <3> QED
      BY <1>3, <1>4, <2>0, <2>2, <3>1
  <2>3. CASE i > m
    <3>1. NowhereIn(g[i - 1], v)
      BY <1>1, <1>6, <2>3
    <3>2. NowhereIn(Redact(g[i - 1], order[i]), v)
      BY <1>3, <2>0, <3>1, RedactAdds
    <3> QED
      BY <1>3, <2>0, <3>2
  <2> QED
    BY <1>1, <2>1, <2>2, <2>3
<1> HIDE DEF T
<1>7. n \in T
  <2>1. 0 .. n \subseteq T
    BY <1>1, <1>5, <1>6, Induction
  <2> QED
    BY <1>1, <2>1
<1>8. n >= m
  BY <1>1
<1> QED
  BY <1>2, <1>7, <1>8 DEF T

AllAround(p, mark, q, V) ==
    RedactAll(p \o <<mark>> \o q, V) = RedactAll(p, V) \o <<mark>> \o RedactAll(q, V)

\* A token that is in no value parts what is redacted.
LEMMA RedactAllAround ==
    ASSUME NEW S, MarkTokens \subseteq S, NEW p \in Seq(S), NEW mark \in S, NEW q \in Seq(S),
           NEW V, Values(V, S), \A v \in V : ~Occurs(mark, v)
    PROVE  AllAround(p, mark, q, V)
<1> DEFINE order == LongestFirst(V)
           n == Len(order)
           w == p \o <<mark>> \o q
<1>1. n \in Nat /\ \A i \in 1 .. n : order[i] \in V /\ order[i] \in Secrets(S)
  BY OrderOf
<1>2. w \in Seq(S)
  OBVIOUS
<1> HIDE DEF w
<1>3. PICK a \in [0 .. n -> Seq(S)] : RedactsAll(a, p, order, n) /\ RedactAll(p, V) = a[n]
  BY RedactAllSteps
<1>4. PICK b \in [0 .. n -> Seq(S)] : RedactsAll(b, q, order, n) /\ RedactAll(q, V) = b[n]
  BY RedactAllSteps
<1>5. PICK g \in [0 .. n -> Seq(S)] : RedactsAll(g, w, order, n) /\ RedactAll(w, V) = g[n]
  BY <1>2, RedactAllSteps
<1> HIDE DEF n, order
<1> DEFINE h == [i \in 0 .. n |-> a[i] \o <<mark>> \o b[i]]
<1>6. \A i \in 0 .. n : h[i] = a[i] \o <<mark>> \o b[i]
  OBVIOUS
<1> HIDE DEF h
<1>7. 0 \in 0 .. n /\ n \in 0 .. n /\ \A i \in 1 .. n : i \in 0 .. n /\ i - 1 \in 0 .. n
  BY <1>1
<1>8. ASSUME NEW i \in 1 .. n, g[i - 1] = h[i - 1] PROVE g[i] = h[i]
  <2>1. a[i - 1] \in Seq(S) /\ b[i - 1] \in Seq(S)
    BY <1>7
  <2>2. RedactsAround(a[i - 1], mark, b[i - 1], order[i])
    BY <1>1, <2>1, RedactAround
  <2>3. /\ a[i] = Redact(a[i - 1], order[i]) /\ b[i] = Redact(b[i - 1], order[i])
        /\ g[i] = Redact(g[i - 1], order[i])
    BY <1>3, <1>4, <1>5 DEF RedactsAll
  <2>4. g[i - 1] = a[i - 1] \o <<mark>> \o b[i - 1] /\ h[i] = a[i] \o <<mark>> \o b[i]
    BY <1>6, <1>7, <1>8
  <2> QED
    BY <2>2, <2>3, <2>4 DEF RedactsAround
<1>9. g[0] = h[0]
  <2>1. a[0] = p /\ b[0] = q /\ g[0] = w
    BY <1>3, <1>4, <1>5 DEF RedactsAll
  <2> QED
    BY <1>6, <1>7, <2>1 DEF w
<1>10. g[n] = h[n]
  <2>1. SameStep(g, h, n)
    BY <1>8, <1>9 DEF SameStep
  <2> QED
    BY <1>1, <2>1, SameSteps
<1>11. g[n] = a[n] \o <<mark>> \o b[n]
  BY <1>6, <1>7, <1>10
<1> QED
  BY <1>3, <1>4, <1>5, <1>11 DEF AllAround, w

\* The strings of which only tokens of C are left.
Hidden(S, V, C) == {s \in Seq(S) : RedactAll(s, V) \in Seq(C)}

\* Strings that are joined by such a token are hidden if each of them is.
LEMMA HiddenAround ==
    ASSUME NEW S, MarkTokens \subseteq S, NEW V, Values(V, S), NEW C \in SUBSET S,
           NEW mark \in C, \A v \in V : ~Occurs(mark, v),
           NEW p \in Hidden(S, V, C), NEW q \in Hidden(S, V, C)
    PROVE  p \o <<mark>> \o q \in Hidden(S, V, C)
<1>1. p \in Seq(S) /\ q \in Seq(S) /\ mark \in S /\ RedactAll(p, V) \in Seq(C) /\ RedactAll(q, V) \in Seq(C)
  BY DEF Hidden
<1>2. AllAround(p, mark, q, V)
  BY <1>1, RedactAllAround
<1>3. p \o <<mark>> \o q \in Seq(S)
  BY <1>1
<1>4. RedactAll(p, V) \o <<mark>> \o RedactAll(q, V) \in Seq(C)
  <2>1. \A x, y \in Seq(C) : x \o <<mark>> \o y \in Seq(C)
    OBVIOUS
  <2> QED
    BY <1>1, <2>1
<1> QED
  BY <1>2, <1>3, <1>4 DEF AllAround, Hidden

\* The empty string is hidden, and all that is written in C.
LEMMA HiddenWritten ==
    ASSUME NEW S, NEW V, Values(V, S), NEW C \in SUBSET S, MarkTokens \subseteq C, NEW s \in Seq(C)
    PROVE  s \in Hidden(S, V, C)
<1>1. Seq(C) \subseteq Seq(S)
  BY SeqMonotonic
<1>2. RedactAll(s, V) \in Seq(C)
  BY RedactAllTyped
<1> QED
  BY <1>1, <1>2 DEF Hidden

\* A value is hidden.
LEMMA HiddenValue ==
    ASSUME NEW S, NEW V, Values(V, S), NEW C \in SUBSET S, MarkTokens \subseteq C, NEW v \in V
    PROVE  v \in Hidden(S, V, C)
<1>1. Seq(MarkTokens) \subseteq Seq(C)
  BY SeqMonotonic
<1>2. RedactAll(v, V) \in Seq(MarkTokens) /\ v \in Seq(S)
  BY RedactAllHides DEF Values, Secrets
<1> QED
  BY <1>1, <1>2 DEF Hidden

\* Joined strings are in a set of strings that the mark does not leave.
LEMMA JoinStays ==
    ASSUME NEW S, NEW H \in SUBSET Seq(S), <<>> \in H, NEW mark \in S,
           \A p, q \in H : p \o <<mark>> \o q \in H, NEW parts \in Seq(H)
    PROVE  Join(parts, mark) \in H
<1> DEFINE T == {r \in Seq(H) : Join(r, mark) \in H}
<1>1. Seq(H) \subseteq Seq(Seq(S))
  BY SeqMonotonic
<1>2. Join(<<>>, mark) \in H
  BY JoinByPart, ZenonT(60)
<1>3. ASSUME NEW r \in Seq(H), NEW w \in H, Join(r, mark) \in H PROVE Join(Append(r, w), mark) \in H
  <2>1. r \in Seq(Seq(S)) /\ w \in Seq(S)
    BY <1>1
  <2>2. JoinsLast(r, w, mark)
    BY <2>1, JoinsOneMore
  <2>3. Join(r, mark) \o <<mark>> \o w \in H
    BY <1>3
  <2> QED
    BY <1>3, <2>2, <2>3 DEF JoinsLast
<1>4. <<>> \in T /\ \A r \in Seq(H), w \in H : r \in T => Append(r, w) \in T
  <2>1. <<>> \in Seq(H) /\ \A r \in Seq(H), w \in H : Append(r, w) \in Seq(H)
    OBVIOUS
  <2> QED
    BY <1>2, <1>3, <2>1
<1> HIDE DEF T
<1>5. parts \in T
  BY <1>4, SeqInduction
<1> QED
  BY <1>5 DEF T
=============================================================================
