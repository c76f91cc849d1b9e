--------------------------- MODULE SequenceElements ---------------------------
(***************************************************************************)
(* Positions and sequences, whatever their elements are: what the proofs   *)
(* about lists of tiles, polygons, features and images rest on.            *)
(***************************************************************************)
EXTENDS SequenceTheorems, WellFoundedInduction, TLAPS

-----------------------------------------------------------------------------
(* Positions: what the proofs use in place of an induction.                *)

\* A set of positions has a first one.
LEMMA HasFirst ==
  ASSUME NEW T, T \subseteq Nat, T # {}
  PROVE  \E i \in T : \A j \in T : i <= j
PROOF
  <1>1. PICK x \in T : \A z \in T : ~(<<z, x>> \in OpToRel(<, Nat))
    BY NatLessThanWellFounded, WFMin
  <1>2. \A j \in T : x <= j
    <2> SUFFICES ASSUME NEW j \in T, ~(x <= j) PROVE FALSE
      OBVIOUS
    <2>1. j \in Nat /\ x \in Nat /\ j < x
      OBVIOUS
    <2>2. <<j, x>> \in OpToRel(<, Nat)
      BY <2>1 DEF OpToRel
    <2> QED BY <1>1, <2>2
  <1> QED BY <1>2

\* What holds at the start and goes on from one position to the next holds at all.
LEMMA OneByOne ==
  ASSUME NEW n \in Nat, NEW T, 0 \in T, \A i \in 1 .. n : i - 1 \in T => i \in T
  PROVE  \A i \in 0 .. n : i \in T
PROOF
  <1> SUFFICES ASSUME NEW k \in 0 .. n, k \notin T PROVE FALSE
    OBVIOUS
  <1> DEFINE F == {i \in 0 .. n : i \notin T}
  <1>1. F \subseteq Nat /\ F # {}
    OBVIOUS
  <1>2. PICK m \in F : \A j \in F : m <= j
    <2> HIDE DEF F
    <2> QED BY <1>1, HasFirst
  <1>3. m \in 1 .. n /\ m - 1 \in 0 .. n
    BY <1>2
  <1>4. m - 1 \notin F
    BY <1>2, <1>3
  <1> QED BY <1>2, <1>3, <1>4

-----------------------------------------------------------------------------
(* Sequences and their elements.                                           *)

Elements(s) == {s[i] : i \in DOMAIN s}
IsSeq(s) == s \in Seq(Elements(s))

\* A member of any Seq(S) is one.
LEMMA SeqIsSeq ==
  ASSUME NEW S, NEW s \in Seq(S)
  PROVE  IsSeq(s) /\ DOMAIN s = 1 .. Len(s) /\ Len(s) \in Nat
PROOF
  <1>1. Len(s) \in Nat /\ DOMAIN s = 1 .. Len(s) /\ s \in [1 .. Len(s) -> S]
    BY LenProperties
  <1>2. s \in [1 .. Len(s) -> Elements(s)]
    BY <1>1 DEF Elements
  <1>3. s \in Seq(Elements(s))
    BY <1>1, <1>2, SeqDef
  <1> QED BY <1>1, <1>3 DEF IsSeq

\* Positions of a sequence.
LEMMA IsSeqDomain ==
  ASSUME NEW s, IsSeq(s)
  PROVE  DOMAIN s = 1 .. Len(s) /\ Len(s) \in Nat
PROOF
  BY SeqIsSeq DEF IsSeq

\* What is counted from one is a sequence.
LEMMA CountedIsSeq ==
  ASSUME NEW s, NEW n \in Nat, NEW S, s \in [1 .. n -> S]
  PROVE  IsSeq(s) /\ Len(s) = n
PROOF
  <1>1. s \in Seq(S)
    BY SeqDef
  <1> QED BY <1>1, SeqIsSeq, LenProperties

\* A concatenation has the elements of both sequences, each at its place.
LEMMA ConcatIsSeq ==
  ASSUME NEW a, NEW b, IsSeq(a), IsSeq(b)
  PROVE  /\ IsSeq(a \o b)
         /\ Elements(a \o b) = Elements(a) \union Elements(b)
PROOF
  <1> DEFINE S == Elements(a) \union Elements(b)
  <1>1. a \in Seq(S) /\ b \in Seq(S)
    BY SeqMonotonic DEF IsSeq
  <1>2. /\ a \o b \in Seq(S)
        /\ Len(a \o b) = Len(a) + Len(b)
        /\ \A i \in 1 .. Len(a) + Len(b) :
             (a \o b)[i] = IF i <= Len(a) THEN a[i] ELSE b[i - Len(a)]
    BY <1>1, ConcatProperties
  <1>3. /\ DOMAIN a = 1 .. Len(a) /\ Len(a) \in Nat
        /\ DOMAIN b = 1 .. Len(b) /\ Len(b) \in Nat
        /\ DOMAIN (a \o b) = 1 .. Len(a) + Len(b)
    BY <1>1, <1>2, SeqIsSeq
  <1>4. \A i \in DOMAIN a : i \in DOMAIN (a \o b) /\ (a \o b)[i] = a[i]
    BY <1>2, <1>3
  <1>5. \A i \in DOMAIN b : Len(a) + i \in DOMAIN (a \o b) /\ (a \o b)[Len(a) + i] = b[i]
    BY <1>2, <1>3
  <1>6. \A i \in DOMAIN (a \o b) : (a \o b)[i] \in S
    BY <1>2, <1>3 DEF Elements
  <1>7. IsSeq(a \o b)
    <2> HIDE DEF S
    <2> QED BY <1>2, SeqIsSeq
  <1>8. Elements(a \o b) \subseteq S
    BY <1>6 DEF Elements
  <1>9. Elements(a) \subseteq Elements(a \o b)
    BY <1>4 DEF Elements
  <1>10. Elements(b) \subseteq Elements(a \o b)
    BY <1>5 DEF Elements
  <1> QED BY <1>7, <1>8, <1>9, <1>10

\* Append adds one element, behind the others.
LEMMA AppendIsSeq ==
  ASSUME NEW s, IsSeq(s), NEW e
  PROVE  /\ IsSeq(Append(s, e))
         /\ Len(Append(s, e)) = Len(s) + 1
         /\ DOMAIN Append(s, e) = DOMAIN s \union {Len(s) + 1}
         /\ \A i \in DOMAIN s : Append(s, e)[i] = s[i]
         /\ Append(s, e)[Len(s) + 1] = e
PROOF
  <1> DEFINE S == Elements(s) \union {e}
  <1>1. s \in Seq(S)
    BY SeqMonotonic DEF IsSeq
  <1>2. DOMAIN s = 1 .. Len(s) /\ Len(s) \in Nat
    BY <1>1, SeqIsSeq
  <1>3. Append(s, e) \in Seq(S) /\ Len(Append(s, e)) = Len(s) + 1
    BY <1>1
  <1>4. \A i \in 1 .. Len(s) : Append(s, e)[i] = s[i]
    BY <1>1, <1>2
  <1>5. Append(s, e)[Len(s) + 1] = e
    BY <1>1
  <1>6. DOMAIN Append(s, e) = 1 .. Len(s) + 1
    BY <1>3, SeqIsSeq
  <1>7. IsSeq(Append(s, e))
    <2> HIDE DEF S
    <2> QED BY <1>3, SeqIsSeq
  <1>8. DOMAIN Append(s, e) = DOMAIN s \union {Len(s) + 1}
    BY <1>2, <1>6
  <1> QED BY <1>2, <1>3, <1>4, <1>5, <1>7, <1>8

\* Without its last element a sequence is one still.
LEMMA FrontIsSeq ==
  ASSUME NEW s, IsSeq(s), Len(s) >= 1
  PROVE  LET front == SubSeq(s, 1, Len(s) - 1)
         IN  /\ IsSeq(front)
             /\ Len(front) = Len(s) - 1
             /\ DOMAIN front = DOMAIN s \ {Len(s)}
             /\ \A i \in DOMAIN front : front[i] = s[i]
PROOF
  <1> DEFINE front == SubSeq(s, 1, Len(s) - 1)
  <1>1. DOMAIN s = 1 .. Len(s) /\ Len(s) \in Nat
    BY IsSeqDomain
  <1>2. Len(s) - 1 \in Int /\ \A i \in 1 .. Len(s) - 1 : s[i] \in Elements(s)
    BY <1>1 DEF Elements
  <1>3. /\ front \in Seq(Elements(s))
        /\ Len(front) = IF 1 <= Len(s) - 1 THEN Len(s) - 1 - 1 + 1 ELSE 0
        /\ \A i \in 1 .. Len(s) - 1 - 1 + 1 : front[i] = s[1 + i - 1]
    BY <1>2, SubSeqProperties
  <1>4. Len(front) = Len(s) - 1
    BY <1>1, <1>3
  <1>5. IsSeq(front) /\ DOMAIN front = 1 .. Len(front)
    <2> HIDE DEF front
    <2> QED BY <1>3, SeqIsSeq
  <1>6. \A i \in DOMAIN front : front[i] = s[i]
    BY <1>1, <1>3, <1>4, <1>5
  <1>7. DOMAIN front = DOMAIN s \ {Len(s)}
    BY <1>1, <1>4, <1>5
  <1> QED BY <1>4, <1>5, <1>6, <1>7

\* Where three sequences are put together does not matter.
LEMMA ConcatOfThree ==
  ASSUME NEW S, NEW a \in Seq(S), NEW b \in Seq(S), NEW c \in Seq(S)
  PROVE  (a \o b) \o c = a \o (b \o c)
PROOF BY ConcatAssociative

\* What is left when the first elements are dropped.
LEMMA RestOfSeq ==
  ASSUME NEW S, NEW q \in Seq(S), NEW n \in Nat, n <= Len(q)
  PROVE  /\ SubSeq(q, n + 1, Len(q)) \in Seq(S)
         /\ Len(SubSeq(q, n + 1, Len(q))) = Len(q) - n
         /\ \A i \in 1 .. Len(q) - n : SubSeq(q, n + 1, Len(q))[i] = q[n + i]
PROOF
  <1> DEFINE l == Len(q)
             e == SubSeq(q, n + 1, l)
  <1>1. l \in Nat /\ n + 1 \in Int /\ l \in Int
    BY LenProperties
  <1>2. \A i \in n + 1 .. l : q[i] \in S
    BY <1>1, ElementOfSeq
  <1>3. /\ e \in Seq(S) /\ Len(e) = IF n + 1 <= l THEN l - (n + 1) + 1 ELSE 0
        /\ \A i \in 1 .. l - (n + 1) + 1 : e[i] = q[n + 1 + i - 1]
    <2> HIDE DEF l
    <2> QED BY <1>1, <1>2, SubSeqProperties
  <1> HIDE DEF l, e
  <1>4. Len(e) = l - n /\ l - (n + 1) + 1 = l - n
    BY <1>1, <1>3 DEF l
  <1>5. \A i \in 1 .. l - n : n + 1 + i - 1 = n + i
    BY <1>1
  <1>6. \A i \in 1 .. l - n : e[i] = q[n + i]
    BY <1>3, <1>4, <1>5
  <1> QED BY <1>3, <1>4, <1>6 DEF e, l

\* The positions of a concatenation.
LEMMA ConcatAt ==
  ASSUME NEW a, NEW b, IsSeq(a), IsSeq(b)
  PROVE  /\ Len(a \o b) = Len(a) + Len(b)
         /\ \A i \in DOMAIN a : i \in DOMAIN (a \o b) /\ (a \o b)[i] = a[i]
         /\ \A i \in DOMAIN b : /\ Len(a) + i \in DOMAIN (a \o b)
                                /\ (a \o b)[Len(a) + i] = b[i]
PROOF
  <1> DEFINE S == Elements(a) \union Elements(b)
  <1>1. a \in Seq(S) /\ b \in Seq(S)
    BY SeqMonotonic DEF IsSeq
  <1>2. /\ Len(a \o b) = Len(a) + Len(b)
        /\ \A i \in 1 .. Len(a) + Len(b) :
             (a \o b)[i] = IF i <= Len(a) THEN a[i] ELSE b[i - Len(a)]
    BY <1>1, ConcatProperties
  <1>3. /\ DOMAIN a = 1 .. Len(a) /\ Len(a) \in Nat
        /\ DOMAIN b = 1 .. Len(b) /\ Len(b) \in Nat
        /\ DOMAIN (a \o b) = 1 .. Len(a) + Len(b)
    <2> HIDE DEF S
    <2>1. IsSeq(a \o b)
      BY ConcatIsSeq
    <2> QED BY <1>2, <2>1, IsSeqDomain
  <1> QED BY <1>2, <1>3

\* Sequences of one length with the same elements are the same.
LEMMA SameSeq ==
  ASSUME NEW a, NEW b, IsSeq(a), IsSeq(b), Len(a) = Len(b), \A i \in DOMAIN a : a[i] = b[i]
  PROVE  a = b
PROOF
  <1> DEFINE S == Elements(a) \union Elements(b)
  <1>1. a \in Seq(S) /\ b \in Seq(S)
    BY SeqMonotonic DEF IsSeq
  <1>2. DOMAIN a = 1 .. Len(a) /\ Len(a) \in Nat
    BY IsSeqDomain
  <1> HIDE DEF S
  <1> QED BY <1>1, <1>2, SeqEqual

\* The empty sequence.
LEMMA EmptyIsSeq ==
  /\ IsSeq(<<>>) /\ Len(<<>>) = 0 /\ DOMAIN <<>> = {}
  /\ \A s : IsSeq(s) => <<>> \o s = s /\ s \o <<>> = s
PROOF
  <1>1. <<>> \in Seq({}) /\ Len(<<>>) = 0
    OBVIOUS
  <1>2. IsSeq(<<>>) /\ DOMAIN <<>> = 1 .. Len(<<>>)
    BY <1>1, SeqIsSeq
  <1>3. DOMAIN <<>> = {}
    BY <1>1, <1>2
  <1>4. ASSUME NEW s, IsSeq(s) PROVE <<>> \o s = s /\ s \o <<>> = s
    BY <1>4, ConcatEmptySeq DEF IsSeq
  <1> QED BY <1>1, <1>2, <1>3, <1>4
=============================================================================
