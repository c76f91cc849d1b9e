-------------------------- MODULE VectorTilesProofs ---------------------------
(***************************************************************************)
(* Proofs about VectorTiles, for every database of tiles.  They are about  *)
(* each step of it, whatever place is asked for, so that they hold for the *)
(* steps it makes as a part of OSMSDF too.                                 *)
(***************************************************************************)
EXTENDS TileEncoding, SequenceElements, TLAPS

-----------------------------------------------------------------------------
(* A sequence of sequences, flattened.                                     *)

AllSeqs(seqs) == IsSeq(seqs) /\ \A i \in DOMAIN seqs : IsSeq(seqs[i])

IsJoin(f, seqs) ==
  f = [i \in 0 .. Len(seqs) |-> IF i = 0 THEN <<>> ELSE f[i - 1] \o seqs[i]]

\* the first sequences put together, however many of them
Joined(seqs) == CHOOSE f : IsJoin(f, seqs)

\* where the last of these ends
Upto(seqs, n) == Len(Joined(seqs)[n])

LEMMA JoinExists ==
  ASSUME NEW seqs, Len(seqs) \in Nat
  PROVE  IsJoin(Joined(seqs), seqs)
PROOF
  <1> DEFINE l == Len(seqs)
             Is(f, n) == f = [i \in 0 .. n |-> IF i = 0 THEN <<>> ELSE f[i - 1] \o seqs[i]]
             T == {n \in 0 .. l : \E f : Is(f, n)}
  <1>1. 0 \in T
    <2>1. Is([i \in 0 .. 0 |-> <<>>], 0)
      OBVIOUS
    <2>2. \E f : Is(f, 0)
      <3> HIDE DEF Is
      <3> QED BY <2>1
    <2>3. 0 \in 0 .. l
      OBVIOUS
    <2> QED BY <2>2, <2>3
  <1>2. ASSUME NEW n \in 1 .. l, n - 1 \in T PROVE n \in T
    <2>1. PICK f : Is(f, n - 1)
      BY <1>2
    <2> DEFINE g == [i \in 0 .. n |-> IF i = n THEN f[n - 1] \o seqs[n] ELSE f[i]]
    <2>2. \A i \in 0 .. n - 1 : i \in 0 .. n /\ i # n
      OBVIOUS
    <2>3. \A i \in 0 .. n - 1 : g[i] = f[i]
      BY <2>2
    <2>4. n \in 0 .. n /\ n - 1 \in 0 .. n - 1 /\ n # 0
      OBVIOUS
    <2>5. g[n] = f[n - 1] \o seqs[n]
      BY <2>4
    <2>6. \A i \in 0 .. n - 1 : f[i] = IF i = 0 THEN <<>> ELSE f[i - 1] \o seqs[i]
      BY <2>1
    <2>7. \A i \in 1 .. n - 1 : i - 1 \in 0 .. n - 1
      OBVIOUS
    <2>8. \A i \in 0 .. n : i = n \/ i \in 0 .. n - 1
      OBVIOUS
    <2>9. \A i \in 0 .. n - 1 : i = 0 \/ i \in 1 .. n - 1
      OBVIOUS
    <2>10. DOMAIN g = 0 .. n /\ g = [i \in 0 .. n |-> g[i]]
      OBVIOUS
    <2> HIDE DEF g
    <2>11. \A i \in 0 .. n : g[i] = IF i = 0 THEN <<>> ELSE g[i - 1] \o seqs[i]
      <3> TAKE i \in 0 .. n
      <3>1. CASE i = n
        BY <2>3, <2>4, <2>5, <3>1
      <3>2. CASE i = 0
        BY <2>3, <2>4, <2>6, <3>2
      <3>3. CASE i \in 1 .. n - 1
        <4>1. i \in 0 .. n - 1 /\ i - 1 \in 0 .. n - 1 /\ i # 0
          BY <3>3
        <4>2. g[i] = f[i] /\ g[i - 1] = f[i - 1] /\ f[i] = f[i - 1] \o seqs[i]
          BY <2>3, <2>6, <4>1, Zenon
        <4> QED BY <4>1, <4>2
      <3> QED BY <2>8, <2>9, <3>1, <3>2, <3>3
    <2>12. Is(g, n)
      BY <2>10, <2>11
    <2> QED BY <2>12
  <1>3. \A n \in 0 .. l : n \in T
    <2> HIDE DEF T
    <2> QED BY <1>1, <1>2, OneByOne
  <1>4. \E f : IsJoin(f, seqs)
    <2>1. l \in 0 .. l
      OBVIOUS
    <2>2. l \in T
      BY <1>3, <2>1
    <2> QED BY <2>2 DEF IsJoin
  <1> QED BY <1>4 DEF Joined

\* The sequences are put together one by one.
LEMMA JoinedSteps ==
  ASSUME NEW seqs, AllSeqs(seqs)
  PROVE  /\ Joined(seqs)[0] = <<>> /\ Upto(seqs, 0) = 0
         /\ \A i \in 1 .. Len(seqs) :
              /\ Joined(seqs)[i] = Joined(seqs)[i - 1] \o seqs[i]
              /\ Upto(seqs, i) = Upto(seqs, i - 1) + Len(seqs[i])
         /\ \A i \in 0 .. Len(seqs) : IsSeq(Joined(seqs)[i]) /\ Upto(seqs, i) \in Nat
PROOF
  <1> DEFINE g == Joined(seqs)
             l == Len(seqs)
             T == {i \in 0 .. l : IsSeq(g[i])}
  <1>1. l \in Nat /\ DOMAIN seqs = 1 .. l /\ \A i \in 1 .. l : IsSeq(seqs[i])
    BY IsSeqDomain DEF AllSeqs
  <1>2. g = [i \in 0 .. l |-> IF i = 0 THEN <<>> ELSE g[i - 1] \o seqs[i]]
    BY <1>1, JoinExists DEF IsJoin
  <1> HIDE DEF g, l
  <1>3. g[0] = <<>>
    BY <1>1, <1>2
  <1>4. \A i \in 1 .. l : g[i] = g[i - 1] \o seqs[i]
    BY <1>1, <1>2
  <1>5. 0 \in T
    BY <1>1, <1>3, EmptyIsSeq
  <1>6. ASSUME NEW i \in 1 .. l, i - 1 \in T PROVE i \in T
    <2>1. IsSeq(g[i - 1]) /\ IsSeq(seqs[i]) /\ i \in 0 .. l
      BY <1>1, <1>6
    <2>2. IsSeq(g[i - 1] \o seqs[i])
      BY <2>1, ConcatIsSeq
    <2> QED BY <1>4, <2>1, <2>2
  <1>7. \A i \in 0 .. l : IsSeq(g[i])
    <2>1. \A i \in 0 .. l : i \in T
      <3> HIDE DEF T
      <3> QED BY <1>1, <1>5, <1>6, OneByOne
    <2> QED BY <2>1
  <1>8. \A i \in 0 .. l : Len(g[i]) \in Nat
    BY <1>7, IsSeqDomain
  <1>9. ASSUME NEW i \in 1 .. l PROVE Len(g[i]) = Len(g[i - 1]) + Len(seqs[i])
    <2>1. i - 1 \in 0 .. l
      BY <1>1
    <2>2. IsSeq(g[i - 1]) /\ IsSeq(seqs[i])
      BY <1>1, <1>7, <2>1
    <2>3. Len(g[i - 1] \o seqs[i]) = Len(g[i - 1]) + Len(seqs[i])
      BY <2>2, ConcatAt
    <2> QED BY <1>4, <2>3
  <1> QED BY <1>3, <1>4, <1>7, <1>8, <1>9, EmptyIsSeq DEF g, l, Upto

LEMMA FlattenIsJoined ==
  ASSUME NEW seqs, AllSeqs(seqs)
  PROVE  FlattenSeq(seqs) = Joined(seqs)[Len(seqs)]
PROOF
  <1> DEFINE g == Joined(seqs)
             l == Len(seqs)
             Is(f) == f = [i \in 1 .. l |-> IF i = 1 THEN seqs[i] ELSE f[i - 1] \o seqs[i]]
  <1>1. l \in Nat /\ IsSeq(seqs) /\ DOMAIN seqs = 1 .. l /\ \A i \in 1 .. l : IsSeq(seqs[i])
    BY IsSeqDomain DEF AllSeqs
  <1>2. g[0] = <<>> /\ \A i \in 1 .. l : g[i] = g[i - 1] \o seqs[i]
    BY JoinedSteps
  <1>3. CASE l = 0
    <2>1. seqs = <<>>
      BY <1>1, <1>3, EmptyIsSeq, SameSeq
    <2> QED BY <1>2, <1>3, <2>1 DEF FlattenSeq
  <1>4. CASE l # 0
    <2>1. FlattenSeq(seqs) = (CHOOSE f : Is(f))[l]
      BY <1>4, Zenon DEF FlattenSeq
    <2> DEFINE h == [i \in 1 .. l |-> g[i]]
               T == {0} \union {i \in 1 .. l : (CHOOSE f : Is(f))[i] = g[i]}
    <2> HIDE DEF g
    <2>2. ASSUME NEW i \in 1 .. l PROVE h[i] = IF i = 1 THEN seqs[i] ELSE h[i - 1] \o seqs[i]
      <3>1. CASE i = 1
        <4>1. g[1] = <<>> \o seqs[1]
          <5>1. 1 \in 1 .. l /\ 1 - 1 = 0
            BY <3>1
          <5> QED BY <1>2, <5>1
        <4>2. <<>> \o seqs[1] = seqs[1]
          BY <1>1, <3>1, EmptyIsSeq
        <4> QED BY <3>1, <4>1, <4>2
      <3>2. CASE i # 1
        <4>1. i - 1 \in 1 .. l
          BY <1>1, <3>2
        <4>2. h[i] = g[i] /\ h[i - 1] = g[i - 1]
          BY <4>1
        <4> QED BY <1>2, <3>2, <4>2
      <3> QED BY <3>1, <3>2
    <2>3. Is(h)
      <3>1. h = [i \in 1 .. l |-> h[i]]
        OBVIOUS
      <3> HIDE DEF h, l
      <3> QED BY <2>2, <3>1
    <2>4. Is(CHOOSE f : Is(f))
      <3> HIDE DEF Is
      <3> QED BY <2>3, Zenon
    <2> DEFINE f == CHOOSE c : Is(c)
    <2>5. \A i \in 1 .. l : f[i] = IF i = 1 THEN seqs[i] ELSE f[i - 1] \o seqs[i]
      BY <2>4
    <2> HIDE DEF f, Is, l
    <2>6. ASSUME NEW i \in 1 .. l, i # 1 => f[i - 1] = g[i - 1] PROVE f[i] = g[i]
      <3>1. CASE i = 1
        <4>1. g[1] = <<>> \o seqs[1]
          <5>1. 1 \in 1 .. l /\ 1 - 1 = 0
            BY <3>1
          <5> QED BY <1>2, <5>1
        <4>2. <<>> \o seqs[1] = seqs[1]
          BY <1>1, <3>1, EmptyIsSeq
        <4> QED BY <2>5, <3>1, <4>1, <4>2
      <3>2. CASE i # 1
        BY <1>2, <2>5, <2>6, <3>2
      <3> QED BY <3>1, <3>2
    <2>7. \A i \in 0 .. l : i \in {0} \union {q \in 1 .. l : f[q] = g[q]}
      <3> DEFINE U == {0} \union {q \in 1 .. l : f[q] = g[q]}
      <3>1. ASSUME NEW i \in 1 .. l, i - 1 \in U PROVE i \in U
        <4>1. i # 1 => i - 1 # 0
          BY <1>1
        <4> QED BY <2>6, <3>1, <4>1
      <3>2. 0 \in U
        OBVIOUS
      <3> HIDE DEF U
      <3>3. \A i \in 0 .. l : i \in U
        BY <1>1, <3>1, <3>2, OneByOne
      <3> QED BY <3>3 DEF U
    <2>8. f[l] = g[l]
      <3>1. l \in 0 .. l /\ l # 0
        BY <1>1, <1>4
      <3> QED BY <2>7, <3>1
    <2>9. FlattenSeq(seqs) = f[l]
      BY <2>1 DEF f
    <2> QED BY <2>8, <2>9 DEF g, l
  <1> QED BY <1>3, <1>4

\* Later ends are not before earlier ones.
LEMMA EndsInOrder ==
  ASSUME NEW seqs, AllSeqs(seqs), NEW i \in 0 .. Len(seqs), NEW m \in 0 .. Len(seqs), i <= m
  PROVE  Upto(seqs, i) <= Upto(seqs, m)
PROOF
  <1> DEFINE l == Len(seqs)
             u(q) == Upto(seqs, q)
             T == {q \in 0 .. l : q >= i => u(i) <= u(q)}
  <1>1. l \in Nat /\ \A q \in 0 .. l : u(q) \in Nat
    BY JoinedSteps, IsSeqDomain DEF AllSeqs
  <1>2. \A q \in 1 .. l : u(q) = u(q - 1) + Len(seqs[q]) /\ Len(seqs[q]) \in Nat
    BY JoinedSteps, IsSeqDomain DEF AllSeqs
  <1> HIDE DEF l, u
  <1>3. 0 \in T
    <2>1. 0 \in 0 .. l /\ (0 >= i => i = 0) /\ u(0) <= u(0)
      BY <1>1 DEF l
    <2> QED BY <2>1
  <1>4. ASSUME NEW q \in 1 .. l, q - 1 \in T PROVE q \in T
    <2>1. q \in 0 .. l /\ q - 1 \in 0 .. l /\ i \in Nat
      BY <1>1
    <2>2. u(q) >= u(q - 1) /\ u(q) \in Nat /\ u(q - 1) \in Nat /\ u(i) \in Nat
      BY <1>1, <1>2, <2>1 DEF l
    <2>3. CASE i = q
      BY <2>1, <2>2, <2>3
    <2>4. CASE i # q
      <3>1. q >= i => q - 1 >= i
        BY <2>1, <2>4
      <3>2. q - 1 >= i => u(i) <= u(q - 1)
        BY <1>4
      <3> QED BY <2>1, <2>2, <3>1, <3>2
    <2> QED BY <2>3, <2>4
  <1>5. m \in T
    <2> HIDE DEF T
    <2>1. \A q \in 0 .. l : q \in T
      BY <1>1, <1>3, <1>4, OneByOne
    <2> QED BY <2>1 DEF l
  <1> QED BY <1>5 DEF u, l

\* Each element of each sequence has its place.
LEMMA FlattenAt ==
  ASSUME NEW seqs, AllSeqs(seqs)
  PROVE  /\ IsSeq(FlattenSeq(seqs)) /\ Len(FlattenSeq(seqs)) = Upto(seqs, Len(seqs))
         /\ \A i \in 1 .. Len(seqs) : \A j \in DOMAIN seqs[i] :
              /\ Upto(seqs, i - 1) + j \in DOMAIN FlattenSeq(seqs)
              /\ FlattenSeq(seqs)[Upto(seqs, i - 1) + j] = seqs[i][j]
PROOF
  <1> DEFINE g == Joined(seqs)
             l == Len(seqs)
  <1>1. /\ l \in Nat /\ \A i \in 1 .. l : IsSeq(seqs[i])
        /\ \A i \in 0 .. l : IsSeq(g[i]) /\ Upto(seqs, i) = Len(g[i])
        /\ \A i \in 1 .. l : g[i] = g[i - 1] \o seqs[i]
    BY JoinedSteps, IsSeqDomain DEF AllSeqs, Upto
  <1>2. FlattenSeq(seqs) = g[l]
    BY FlattenIsJoined
  <1> HIDE DEF g, l
  <1>3. l \in 0 .. l
    BY <1>1
  <1>4. ASSUME NEW i \in 1 .. l, NEW j \in DOMAIN seqs[i]
        PROVE  LET n == Upto(seqs, i - 1) + j IN n \in DOMAIN g[l] /\ g[l][n] = seqs[i][j]
    <2> DEFINE n == Upto(seqs, i - 1) + j
               T == {q \in 0 .. l : q >= i => n \in DOMAIN g[q] /\ g[q][n] = seqs[i][j]}
    <2>1. 0 \in T
      <3>1. 0 \in 0 .. l /\ ~(0 >= i)
        BY <1>1
      <3> QED BY <3>1
    <2>2. ASSUME NEW q \in 1 .. l, q - 1 \in T PROVE q \in T
      <3>0. q \in 0 .. l /\ q - 1 \in 0 .. l /\ q \in Nat /\ i \in Nat
        BY <1>1
      <3>1. /\ IsSeq(g[q - 1]) /\ IsSeq(seqs[q]) /\ IsSeq(g[q])
            /\ g[q] = g[q - 1] \o seqs[q]
        BY <1>1, <3>0, Zenon
      <3>3. /\ Len(g[q]) = Len(g[q - 1]) + Len(seqs[q])
            /\ \A r \in DOMAIN g[q - 1] : r \in DOMAIN g[q] /\ g[q][r] = g[q - 1][r]
            /\ \A r \in DOMAIN seqs[q] : /\ Len(g[q - 1]) + r \in DOMAIN g[q]
                                           /\ g[q][Len(g[q - 1]) + r] = seqs[q][r]
        <4> DEFINE before == g[q - 1]
                   now == seqs[q]
        <4>1. IsSeq(before) /\ IsSeq(now) /\ g[q] = before \o now
          BY <3>1
        <4> HIDE DEF before, now
        <4>2. /\ Len(g[q]) = Len(before) + Len(now)
              /\ \A r \in DOMAIN before : r \in DOMAIN g[q] /\ g[q][r] = before[r]
              /\ \A r \in DOMAIN now : /\ Len(before) + r \in DOMAIN g[q]
                                        /\ g[q][Len(before) + r] = now[r]
          BY <4>1, ConcatAt
        <4> QED BY <4>2 DEF before, now
      <3>4. CASE q = i
        <4>1. n = Len(g[q - 1]) + j /\ j \in DOMAIN seqs[q]
          BY <1>1, <3>1, <3>4
        <4> HIDE DEF n
        <4>2. g[q][n] = seqs[q][j]
          BY <3>3, <4>1
        <4>3. n \in DOMAIN g[q]
          BY <3>3, <4>1
        <4> QED BY <3>0, <4>2, <4>3, <3>4
      <3>5. CASE q > i
        <4>1. q - 1 >= i
          BY <3>5
        <4>2. n \in DOMAIN g[q - 1] /\ g[q - 1][n] = seqs[i][j]
          BY <2>2, <4>1
        <4> HIDE DEF n
        <4>3. g[q][n] = seqs[i][j]
          BY <3>3, <4>2
        <4>4. n \in DOMAIN g[q]
          BY <3>3, <4>2
        <4> QED BY <3>0, <4>3, <4>4
      <3>6. CASE q < i
        <4>1. ~(q >= i)
          BY <3>6, <3>0
        <4> QED BY <3>0, <4>1
      <3> QED BY <3>0, <3>4, <3>5, <3>6
    <2>3. l \in T
      <3> HIDE DEF T
      <3>1. \A q \in 0 .. l : q \in T
        BY <1>1, <2>1, <2>2, OneByOne
      <3> QED BY <1>3, <3>1
    <2>4. l >= i
      OBVIOUS
    <2> QED BY <2>3, <2>4
  <1> QED BY <1>1, <1>2, <1>3, <1>4 DEF l

\* What all the sequences are made of, their elements together are.
LEMMA FlattenTyped ==
  ASSUME NEW seqs, IsSeq(seqs), NEW S, \A i \in DOMAIN seqs : seqs[i] \in Seq(S)
  PROVE  FlattenSeq(seqs) \in Seq(S)
PROOF
  <1> DEFINE g == Joined(seqs)
             l == Len(seqs)
             T == {i \in 0 .. l : g[i] \in Seq(S)}
  <1>1. AllSeqs(seqs) /\ l \in Nat /\ DOMAIN seqs = 1 .. l
    BY SeqIsSeq, IsSeqDomain DEF AllSeqs
  <1>2. g[0] = <<>> /\ \A i \in 1 .. l : g[i] = g[i - 1] \o seqs[i]
    BY <1>1, JoinedSteps
  <1>3. FlattenSeq(seqs) = g[l]
    BY <1>1, FlattenIsJoined
  <1> HIDE DEF g, l
  <1>4. 0 \in T
    <2>1. 0 \in 0 .. l /\ <<>> \in Seq(S)
      BY <1>1
    <2> QED BY <1>2, <2>1
  <1>5. ASSUME NEW i \in 1 .. l, i - 1 \in T PROVE i \in T
    <2>1. g[i - 1] \in Seq(S) /\ seqs[i] \in Seq(S) /\ i \in 0 .. l
      BY <1>1, <1>5
    <2>2. g[i - 1] \o seqs[i] \in Seq(S)
      BY <2>1, ConcatProperties
    <2> QED BY <1>2, <2>1, <2>2
  <1>6. l \in T
    <2> HIDE DEF T
    <2>1. \A q \in 0 .. l : q \in T
      BY <1>1, <1>4, <1>5, OneByOne
    <2> QED BY <1>1, <2>1
  <1> QED BY <1>3, <1>6

\* One more sequence comes behind the others.
LEMMA FlattenAppend ==
  ASSUME NEW seqs, AllSeqs(seqs), NEW s, IsSeq(s)
  PROVE  /\ AllSeqs(Append(seqs, s))
         /\ FlattenSeq(Append(seqs, s)) = FlattenSeq(seqs) \o s
PROOF
  <1> DEFINE more == Append(seqs, s)
             g == Joined(seqs)
             h == Joined(more)
             l == Len(seqs)
             T == {i \in 0 .. l : h[i] = g[i]}
  <1>1. IsSeq(seqs) /\ l \in Nat /\ DOMAIN seqs = 1 .. l /\ \A i \in DOMAIN seqs : IsSeq(seqs[i])
    BY IsSeqDomain DEF AllSeqs
  <1>2. /\ IsSeq(more) /\ Len(more) = l + 1 /\ DOMAIN more = DOMAIN seqs \union {l + 1}
        /\ \A i \in DOMAIN seqs : more[i] = seqs[i]
        /\ more[l + 1] = s
    BY <1>1, AppendIsSeq
  <1> HIDE DEF more, l
  <1>3. AllSeqs(more)
    BY <1>1, <1>2 DEF AllSeqs
  <1>4. /\ g[0] = <<>> /\ \A i \in 1 .. l : g[i] = g[i - 1] \o seqs[i]
        /\ FlattenSeq(seqs) = g[l]
    BY JoinedSteps, FlattenIsJoined DEF l
  <1>5. /\ h[0] = <<>> /\ \A i \in 1 .. l + 1 : h[i] = h[i - 1] \o more[i]
        /\ FlattenSeq(more) = h[l + 1]
    BY <1>2, <1>3, JoinedSteps, FlattenIsJoined
  <1> HIDE DEF g, h
  <1>6. 0 \in T
    BY <1>1, <1>4, <1>5
  <1>7. ASSUME NEW i \in 1 .. l, i - 1 \in T PROVE i \in T
    <2>1. i \in 1 .. l + 1 /\ i \in 0 .. l /\ i \in DOMAIN seqs
      BY <1>1
    <2>2. h[i - 1] = g[i - 1] /\ more[i] = seqs[i]
      BY <1>2, <1>7, <2>1
    <2> QED BY <1>4, <1>5, <2>1, <2>2
  <1>8. h[l] = g[l]
    <2> HIDE DEF T
    <2>1. \A q \in 0 .. l : q \in T
      BY <1>1, <1>6, <1>7, OneByOne
    <2>2. l \in T
      BY <1>1, <2>1
    <2> QED BY <2>2 DEF T
  <1>9. h[l + 1] = h[l] \o s
    <2>1. l + 1 \in 1 .. l + 1 /\ (l + 1) - 1 = l
      BY <1>1
    <2> QED BY <1>2, <1>5, <2>1
  <1> QED BY <1>3, <1>4, <1>5, <1>8, <1>9 DEF more

\* Where there is nothing to flatten.
LEMMA FlattenNothing ==
  FlattenSeq(<<>>) = <<>>
PROOF
  <1>1. AllSeqs(<<>>)
    BY EmptyIsSeq DEF AllSeqs
  <1> QED BY <1>1, JoinedSteps, FlattenIsJoined, EmptyIsSeq

\* Sequences of one element each.
LEMMA FlattenOfOnes ==
  ASSUME NEW s, IsSeq(s)
  PROVE  FlattenSeq([i \in DOMAIN s |-> <<s[i]>>]) = s
PROOF
  <1> DEFINE ones == [i \in DOMAIN s |-> <<s[i]>>]
             l == Len(s)
             T == {i \in 0 .. l : Upto(ones, i) = i}
  <1>1. l \in Nat /\ DOMAIN s = 1 .. l
    BY IsSeqDomain
  <1>2. \A e : IsSeq(<<e>>) /\ Len(<<e>>) = 1 /\ DOMAIN <<e>> = {1} /\ <<e>>[1] = e
    <2> TAKE e
    <2>1. <<e>> \in Seq({e}) /\ Len(<<e>>) = 1 /\ <<e>>[1] = e
      OBVIOUS
    <2>2. IsSeq(<<e>>) /\ DOMAIN <<e>> = 1 .. Len(<<e>>)
      BY <2>1, SeqIsSeq
    <2>3. 1 .. 1 = {1}
      OBVIOUS
    <2> QED BY <2>1, <2>2, <2>3
  <1>3. ones \in [1 .. l -> {ones[i] : i \in 1 .. l}] /\ \A i \in 1 .. l : ones[i] = <<s[i]>>
    BY <1>1
  <1> HIDE DEF ones, l
  <1>4. IsSeq(ones) /\ Len(ones) = l /\ DOMAIN ones = 1 .. l
    BY <1>1, <1>3, CountedIsSeq
  <1>5. AllSeqs(ones)
    BY <1>2, <1>3, <1>4 DEF AllSeqs
  <1>6. Upto(ones, 0) = 0 /\ \A i \in 1 .. l : Upto(ones, i) = Upto(ones, i - 1) + 1
    <2>1. /\ Upto(ones, 0) = 0
          /\ \A i \in 1 .. l : Upto(ones, i) = Upto(ones, i - 1) + Len(ones[i])
      BY <1>4, <1>5, JoinedSteps
    <2>2. \A i \in 1 .. l : Len(ones[i]) = 1
      BY <1>2, <1>3
    <2> QED BY <2>1, <2>2
  <1>7. 0 \in T
    BY <1>1, <1>6
  <1>8. ASSUME NEW i \in 1 .. l, i - 1 \in T PROVE i \in T
    BY <1>1, <1>6, <1>8
  <1>9. \A i \in 0 .. l : Upto(ones, i) = i
    <2> HIDE DEF T
    <2>1. \A q \in 0 .. l : q \in T
      BY <1>1, <1>7, <1>8, OneByOne
    <2> QED BY <2>1 DEF T
  <1>10. IsSeq(FlattenSeq(ones)) /\ Len(FlattenSeq(ones)) = l
    BY <1>1, <1>4, <1>5, <1>9, FlattenAt
  <1>11. ASSUME NEW i \in DOMAIN s PROVE FlattenSeq(ones)[i] = s[i]
    <2>1. i \in 1 .. l /\ i - 1 \in 0 .. l
      BY <1>1
    <2>2. 1 \in DOMAIN ones[i] /\ ones[i][1] = s[i]
      BY <1>2, <1>3, <2>1
    <2>3. FlattenSeq(ones)[Upto(ones, i - 1) + 1] = s[i]
      BY <1>4, <1>5, <2>1, <2>2, FlattenAt
    <2>4. Upto(ones, i - 1) + 1 = i
      BY <1>1, <1>9, <2>1
    <2> QED BY <2>3, <2>4
  <1> QED BY <1>1, <1>10, <1>11, IsSeqDomain, SameSeq DEF l, ones

-----------------------------------------------------------------------------
(* The steps of VectorTiles, whatever place is asked for, and the shared   *)
(* dataset emptyTile.                                                      *)

AnyStep == (\E at \in Nat \X Nat \X Nat : Open(at)) \/ Converting \/ Release \/ Destroy

LEMMA NextIsStep ==
  Next => AnyStep
PROOF
  BY TilesAssumption DEF Next, AnyStep, Places

\* The count in its cases.
LEMMA CountMeans ==
  ReferencesCounted <=>
    /\ pc = "emptyTile" => references = 2
    /\ pc = "destroyed" => references = 0
    /\ pc \notin {"emptyTile", "destroyed"} => references = 1
PROOF
  BY DEF ReferencesCounted

LEMMA CountMeansNext ==
  ReferencesCounted' <=>
    /\ pc' = "emptyTile" => references' = 2
    /\ pc' = "destroyed" => references' = 0
    /\ pc' \notin {"emptyTile", "destroyed"} => references' = 1
PROOF
  BY DEF ReferencesCounted

\* A conversion goes from places where nobody holds emptyTile.
LEMMA ConvertingCounts ==
  ASSUME ReferencesCounted, Converting
  PROVE  ReferencesCounted'
PROOF
  <1>1. pc \in {"open", "unpack", "layer", "read", "convert", "rings"}
    BY DEF Converting, NoTile, EmptyTile, OpenTile, InflateBlock, UnpackFails, ParseTile,
       BeginLayer, Converted, ReadNothing, ReadVertex, ReadBeyond, ReadClose, UnknownCommand,
       ReadTags, ReadTagsBeyond, UnknownType, CreateFeatureFails, ConvertPoints, ConvertLines,
       AddNoLine, BeginRings, NextRing, ConvertPolygons, Reading, ReadAll, Drawing
  <1>2. references = 1
    BY <1>1, CountMeans
  <1>3. CASE EmptyTile
    BY <1>2, <1>3, CountMeansNext DEF EmptyTile
  <1>4. ASSUME ~EmptyTile
        PROVE  references' = references /\ pc' \notin {"emptyTile", "destroyed"}
    BY <1>1, <1>4 DEF Converting, NoTile, OpenTile, InflateBlock, UnpackFails, ParseTile,
       BeginLayer, Converted, ReadNothing, ReadVertex, ReadBeyond, ReadClose, UnknownCommand,
       ReadTags, ReadTagsBeyond, UnknownType, CreateFeatureFails, ConvertPoints, ConvertLines,
       AddNoLine, BeginRings, NextRing, ConvertPolygons, Fail, CreateFeature, database
  <1> QED BY <1>2, <1>3, <1>4, CountMeansNext

\* Every step keeps the count.
LEMMA CountKept ==
  ASSUME ReferencesCounted, [AnyStep]_vars
  PROVE  ReferencesCounted'
PROOF
  <1>1. CASE UNCHANGED vars
    BY <1>1 DEF ReferencesCounted, vars, database
  <1>2. CASE Converting
    BY <1>2, ConvertingCounts
  <1>3. CASE \E at \in Nat \X Nat \X Nat : Open(at)
    BY <1>3, CountMeans, CountMeansNext DEF Open
  <1>4. CASE Release
    BY <1>4, CountMeans, CountMeansNext DEF Release, Returned
  <1>5. CASE Destroy
    BY <1>5, CountMeans, CountMeansNext DEF Destroy
  <1> QED BY <1>1, <1>2, <1>3, <1>4, <1>5 DEF AnyStep

-----------------------------------------------------------------------------
(* The types of the variables.                                             *)

\* What there is of a feature, and of its polygons, before it is read or grouped.
NothingRead ==
  /\ featureIndex = 1 /\ k = 1 /\ cmd = -1 /\ length = 0 /\ cursor = <<0, 0>>
  /\ vtPoly = <<>> /\ vtPolys = <<>>
NothingGrouped == p = 1 /\ polyStart = 1 /\ polygons = <<>>

\* The tile that is converted is one the database holds at its place, and a layer or
\* a feature is begun with variables of its own.
TileInv ==
  /\ TypeOK /\ ReferencesCounted
  /\ tile = <<>> \/ (place \in Places /\ tile \in Tiles[place])
  /\ pc = "unpack" => place \in Places
  /\ pc \in {"idle", "open", "unpack"} => tile = <<>> /\ layerIndex = 1 /\ dataset = <<>>
  /\ pc \in {"idle", "open", "unpack", "layer"} => NothingRead
  /\ pc \in {"idle", "open", "unpack", "layer", "read", "convert"} => NothingGrouped

\* What the assumption says of a tile that is read.
LEMMA TileIsTyped ==
  ASSUME tile = <<>> \/ (place \in Places /\ tile \in Tiles[place])
  PROVE  /\ IsSeq(tile)
         /\ \A l \in DOMAIN tile :
              /\ tile[l].extent \in Nat \ {0}
              /\ IsSeq(tile[l].features)
              /\ \A i \in DOMAIN tile[l].features :
                   /\ tile[l].features[i].type \in GeomType
                   /\ tile[l].features[i].geometry \in Seq(Nat)
                   /\ tile[l].features[i].tags \in Seq(Nat)
PROOF
  <1>1. CASE tile = <<>>
    BY <1>1, EmptyIsSeq
  <1>2. CASE place \in Places /\ tile \in Tiles[place]
    <2>1. /\ tile \in Seq(Range(tile))
          /\ \A l \in DOMAIN tile :
               /\ tile[l].extent \in Nat \ {0}
               /\ tile[l].features \in Seq(Range(tile[l].features))
               /\ \A i \in DOMAIN tile[l].features :
                    /\ tile[l].features[i].type \in GeomType
                    /\ tile[l].features[i].geometry \in Seq(Nat)
                    /\ tile[l].features[i].tags \in Seq(Nat)
      BY <1>2, TilesAssumption, Zenon
    <2> QED BY <2>1, SeqIsSeq, Zenon
  <1> QED BY <1>1, <1>2

OfFeature == {"read", "convert", "rings"}
AllStates == Returned \union OfFeature \union {"idle", "open", "unpack", "layer", "beyond", "crashed", "destroyed"}

\* The count is one of three.
LEMMA CountIsNumber ==
  ASSUME ReferencesCounted
  PROVE  references \in Nat
PROOF
  <1>1. references \in {0, 1, 2}
    BY CountMeans
  <1> QED BY <1>1

\* A step that leaves the tile and what is read of it alone.
LEMMA OpenInvSteady ==
  ASSUME TileInv, ReferencesCounted', UNCHANGED <<tile, position, reader, rings>>,
         pc' \in AllStates, mbtiles' \in BOOLEAN,
         unpacked' \in 0 .. MaxBlocks,
         place' \in Nat \X Nat \X Nat, tile # <<>> => UNCHANGED place,
         pc' = "unpack" => place' \in Places,
         pc' \in OfFeature => pc \in OfFeature /\ UNCHANGED dataset,
         pc' \in {"idle", "open", "unpack"} => pc \in {"idle", "open", "unpack"} /\ UNCHANGED dataset,
         pc' # "layer",
         pc' \in {"read", "convert"} => pc \in {"read", "convert"}
  PROVE  TileInv'
PROOF
  <1>1. references' \in Nat
    BY CountIsNumber, CountMeansNext
  <1>2. /\ Layer' = Layer /\ Geometry' = Geometry
        /\ UNCHANGED <<layerIndex, featureIndex, k, cmd, length, cursor, vtPoly, vtPolys, p, polyStart, polygons>>
    BY DEF Layer, Geometry, Feature, position, reader, rings
  <1>3. TypeOK'
    <2>1. pc' \in OfFeature =>
            /\ layerIndex' <= Len(tile')
            /\ featureIndex' \in 1 .. Len(Layer'.features)
            /\ k' \in 1 .. Len(Geometry') + 1
            /\ Layer'.name \in DOMAIN dataset'
      BY <1>2 DEF TileInv, TypeOK, OfFeature
    <2> QED BY <1>1, <1>2, <2>1 DEF TileInv, TypeOK, OfFeature, AllStates
  <1>4. tile' = <<>> \/ (place' \in Places /\ tile' \in Tiles[place'])
    BY DEF TileInv
  <1>5. /\ pc' \in {"idle", "open", "unpack"} => tile' = <<>> /\ layerIndex' = 1 /\ dataset' = <<>>
        /\ pc' \in {"idle", "open", "unpack", "layer"} => NothingRead'
        /\ pc' \in {"idle", "open", "unpack", "layer", "read", "convert"} => NothingGrouped'
    BY <1>2 DEF TileInv, NothingRead, NothingGrouped
  <1> QED BY <1>3, <1>4, <1>5 DEF TileInv

LEMMA SteadySteps ==
  ASSUME TileInv, ReferencesCounted', NEW at \in Nat \X Nat \X Nat,
         \/ Open(at) \/ NoTile \/ EmptyTile \/ OpenTile \/ InflateBlock \/ UnpackFails \/ Converted
         \/ ReadBeyond \/ UnknownCommand \/ ReadTags \/ ReadTagsBeyond \/ UnknownType
         \/ AddNoLine \/ BeginRings \/ CreateFeatureFails \/ Destroy
  PROVE  TileInv'
PROOF
  <1> USE DEF OfFeature, AllStates, Returned
  <1>1. /\ pc \in AllStates /\ mbtiles \in BOOLEAN /\ unpacked \in 0 .. MaxBlocks
        /\ place \in Nat \X Nat \X Nat
    BY DEF TileInv, TypeOK
  <1>2. 0 \in 0 .. MaxBlocks /\ (unpacked < MaxBlocks => unpacked + 1 \in 0 .. MaxBlocks)
    BY <1>1, TilesAssumption
  <1>3. CASE Open(at)
    <2>1. tile = <<>> /\ pc = "idle"
      BY <1>3 DEF Open, TileInv
    <2> QED BY <1>1, <1>3, <2>1, OpenInvSteady DEF Open
  <1>4. CASE NoTile \/ OpenTile
    BY <1>1, <1>4, OpenInvSteady DEF NoTile, OpenTile, database, TileInv
  <1>5. CASE EmptyTile
    BY <1>1, <1>5, OpenInvSteady DEF EmptyTile
  <1>6. CASE InflateBlock
    BY <1>1, <1>2, <1>6, OpenInvSteady DEF InflateBlock, TileInv
  <1>7. CASE UnpackFails
    BY <1>1, <1>2, <1>7, OpenInvSteady DEF UnpackFails
  <1>8. CASE Converted \/ ReadBeyond \/ ReadTagsBeyond \/ AddNoLine
    BY <1>1, <1>8, OpenInvSteady DEF Converted, ReadBeyond, ReadTagsBeyond, AddNoLine, database
  <1>9. CASE ReadTags \/ BeginRings
    BY <1>1, <1>9, OpenInvSteady DEF ReadTags, ReadAll, BeginRings, database
  <1>10. CASE UnknownCommand \/ UnknownType \/ CreateFeatureFails
    BY <1>1, <1>10, OpenInvSteady DEF UnknownCommand, UnknownType, CreateFeatureFails, Fail, database
  <1>11. CASE Destroy
    <2>1. pc' = "destroyed" /\ mbtiles' \in BOOLEAN
      BY <1>11 DEF Destroy
    <2> QED BY <1>1, <1>11, <2>1, OpenInvSteady DEF Destroy
  <1> QED BY <1>3, <1>4, <1>5, <1>6, <1>7, <1>8, <1>9, <1>10, <1>11

\* The types in the next state, by their parts.
LEMMA TypesNext ==
  ASSUME TileInv, ReferencesCounted',
         pc' \in AllStates, mbtiles' \in BOOLEAN, unpacked' \in 0 .. MaxBlocks,
         place' \in Nat \X Nat \X Nat,
         layerIndex' \in 1 .. Len(tile') + 1,
         pc' \in OfFeature =>
           /\ layerIndex' <= Len(tile')
           /\ featureIndex' \in 1 .. Len(Layer'.features)
           /\ k' \in 1 .. Len(Geometry') + 1
           /\ Layer'.name \in DOMAIN dataset',
         cmd' \in -1 .. 7, length' \in Nat, cursor' \in Int \X Int,
         vtPoly' \in Ring, vtPolys' \in Seq(Ring),
         p' \in 1 .. Len(vtPolys') + 1, polyStart' \in 1 .. p', polygons' \in Seq(Seq(Ring))
  PROVE  TypeOK'
PROOF
  <1>1. references' \in Nat
    BY CountIsNumber, CountMeansNext
  <1> QED BY <1>1 DEF TypeOK, OfFeature, AllStates

\* The variables before a feature is read have their types.
LEMMA NewFeatureTypes ==
  ASSUME NewFeature
  PROVE  /\ cmd' \in -1 .. 7 /\ length' \in Nat /\ cursor' \in Int \X Int
         /\ vtPoly' \in Ring /\ vtPolys' \in Seq(Ring)
         /\ p' \in 1 .. Len(vtPolys') + 1 /\ polyStart' \in 1 .. p' /\ polygons' \in Seq(Seq(Ring))
         /\ k' = 1
PROOF
  <1>1. /\ cmd' = -1 /\ length' = 0 /\ cursor' = <<0, 0>> /\ vtPoly' = <<>> /\ vtPolys' = <<>>
        /\ p' = 1 /\ polyStart' = 1 /\ polygons' = <<>> /\ k' = 1
    BY DEF NewFeature
  <1>2. Len(<<>>) = 0
    BY EmptyIsSeq
  <1>3. vtPoly' \in Ring /\ vtPolys' \in Seq(Ring) /\ polygons' \in Seq(Seq(Ring))
    BY <1>1 DEF Ring
  <1>4. p' \in 1 .. Len(vtPolys') + 1 /\ polyStart' \in 1 .. p'
    BY <1>1, <1>2
  <1> QED BY <1>1, <1>3, <1>4

LEMMA ParseTileTyped ==
  ASSUME TileInv, ReferencesCounted', ParseTile
  PROVE  TileInv'
PROOF
  <1>1. /\ pc = "unpack" /\ pc' = "layer" /\ tile' \in Tiles[place] /\ unpacked' = 0
        /\ UNCHANGED <<mbtiles, references, place, position, reader, rings, dataset>>
    BY DEF ParseTile
  <1>2. place \in Places /\ layerIndex = 1 /\ NothingRead /\ NothingGrouped /\ TypeOK
    BY <1>1 DEF TileInv
  <1>3. tile' = <<>> \/ (place' \in Places /\ tile' \in Tiles[place'])
    BY <1>1, <1>2
  <1>4. Len(tile') \in Nat
    <2>1. tile' \in Seq(Range(tile'))
      BY <1>1, <1>2, TilesAssumption
    <2> QED BY <2>1, SeqIsSeq
  <1>5. TypeOK'
    <2>1. layerIndex' \in 1 .. Len(tile') + 1
      BY <1>1, <1>2, <1>4 DEF position
    <2>2. 0 \in 0 .. MaxBlocks
      BY TilesAssumption
    <2> QED BY <1>1, <1>2, <2>1, <2>2, TypesNext
            DEF TypeOK, reader, rings, AllStates, OfFeature
  <1>6. NothingRead' /\ NothingGrouped'
    BY <1>1, <1>2 DEF NothingRead, NothingGrouped, position, reader, rings
  <1> QED BY <1>1, <1>3, <1>5, <1>6 DEF TileInv

LEMMA ReleaseTyped ==
  ASSUME TileInv, ReferencesCounted', Release
  PROVE  TileInv'
PROOF
  <1>1. /\ pc' = "idle" /\ tile' = <<>> /\ layerIndex' = 1 /\ featureIndex' = 1 /\ dataset' = <<>>
        /\ NewFeature /\ place' = <<0, 0, 0>>
        /\ UNCHANGED <<mbtiles, unpacked>>
    BY DEF Release
  <1>2. TypeOK'
    <2>1. layerIndex' \in 1 .. Len(tile') + 1
      BY <1>1, EmptyIsSeq
    <2> QED BY <1>1, <2>1, NewFeatureTypes, TypesNext DEF TileInv, TypeOK, AllStates, OfFeature
  <1>3. NothingRead' /\ NothingGrouped'
    BY <1>1 DEF NewFeature, NothingRead, NothingGrouped
  <1> QED BY <1>1, <1>2, <1>3 DEF TileInv

\* A layer is begun with its first feature, or is passed over.
LEMMA BeginLayerTyped ==
  ASSUME TileInv, ReferencesCounted', BeginLayer
  PROVE  TileInv'
PROOF
  <1>1. /\ pc = "layer" /\ layerIndex <= Len(tile)
        /\ DOMAIN dataset' = DOMAIN dataset \union {tile[layerIndex].name}
        /\ UNCHANGED <<database, tile, featureIndex, reader, rings>>
        /\ \/ tile[layerIndex].features = <<>> /\ layerIndex' = layerIndex + 1 /\ pc' = "layer"
           \/ tile[layerIndex].features # <<>> /\ pc' = "read" /\ layerIndex' = layerIndex
    BY DEF BeginLayer
  <1>2. NothingRead /\ NothingGrouped /\ TypeOK
    BY <1>1 DEF TileInv
  <1>3. /\ IsSeq(tile) /\ layerIndex \in 1 .. Len(tile)
        /\ IsSeq(tile[layerIndex].features)
    <2>1. IsSeq(tile)
      BY TileIsTyped DEF TileInv
    <2>2. layerIndex \in DOMAIN tile /\ layerIndex \in 1 .. Len(tile)
      BY <1>1, <1>2, <2>1, IsSeqDomain DEF TypeOK
    <2> QED BY <2>1, <2>2, TileIsTyped DEF TileInv
  <1>4. Len(tile) \in Nat /\ layerIndex' \in 1 .. Len(tile') + 1
    BY <1>1, <1>3, IsSeqDomain
  <1>5. ASSUME pc' = "read"
        PROVE  /\ layerIndex' <= Len(tile')
               /\ featureIndex' \in 1 .. Len(Layer'.features)
               /\ k' \in 1 .. Len(Geometry') + 1
               /\ Layer'.name \in DOMAIN dataset'
    <2>1. Layer' = tile[layerIndex] /\ layerIndex' = layerIndex /\ featureIndex' = 1 /\ k' = 1
      BY <1>1, <1>2, <1>5 DEF Layer, NothingRead, reader
    <2>2. Len(tile[layerIndex].features) \in Nat /\ Len(tile[layerIndex].features) # 0
      BY <1>1, <1>3, <1>5, <2>1, IsSeqDomain, EmptyIsSeq, SameSeq
    <2>3. Geometry' \in Seq(Nat)
      <3>1. 1 \in DOMAIN tile[layerIndex].features
        BY <1>3, <2>2, IsSeqDomain
      <3>2. layerIndex \in DOMAIN tile
        BY <1>3, IsSeqDomain
      <3>3. tile[layerIndex].features[1].geometry \in Seq(Nat)
        BY <3>1, <3>2, TileIsTyped DEF TileInv
      <3> QED BY <2>1, <3>3 DEF Geometry, Feature
    <2>4. Len(Geometry') \in Nat
      BY <2>3, SeqIsSeq
    <2>5. featureIndex' \in 1 .. Len(Layer'.features) /\ k' \in 1 .. Len(Geometry') + 1
      BY <2>1, <2>2, <2>4
    <2> QED BY <1>1, <2>1, <2>5
  <1>6. TypeOK'
    <2>1. /\ mbtiles' \in BOOLEAN /\ unpacked' \in 0 .. MaxBlocks /\ place' \in Nat \X Nat \X Nat
          /\ cmd' \in -1 .. 7 /\ length' \in Nat /\ cursor' \in Int \X Int
          /\ vtPoly' \in Ring /\ vtPolys' \in Seq(Ring)
          /\ p' \in 1 .. Len(vtPolys') + 1 /\ polyStart' \in 1 .. p' /\ polygons' \in Seq(Seq(Ring))
      BY <1>1, <1>2 DEF TypeOK, database, reader, rings
    <2>2. pc' \in AllStates /\ (pc' \in OfFeature => pc' = "read")
      BY <1>1 DEF AllStates, OfFeature
    <2> QED BY <1>4, <1>5, <2>1, <2>2, TypesNext
  <1>7. NothingGrouped' /\ NothingRead'
    BY <1>1, <1>2 DEF NothingRead, NothingGrouped, reader, rings
  <1>8. tile' = <<>> \/ (place' \in Places /\ tile' \in Tiles[place'])
    BY <1>1 DEF TileInv, database
  <1> QED BY <1>1, <1>6, <1>7, <1>8 DEF TileInv

\* The feature that is converted is one of the tile.
LEMMA FeatureIsThere ==
  ASSUME TileInv, pc \in OfFeature
  PROVE  /\ IsSeq(tile) /\ layerIndex \in DOMAIN tile
         /\ IsSeq(Layer.features) /\ featureIndex \in DOMAIN Layer.features
         /\ Layer.extent \in Nat \ {0}
         /\ Feature.type \in GeomType /\ Feature.tags \in Seq(Nat)
         /\ Geometry \in Seq(Nat) /\ Len(Geometry) \in Nat /\ DOMAIN Geometry = 1 .. Len(Geometry)
PROOF
  <1>1. /\ layerIndex \in 1 .. Len(tile) + 1 /\ layerIndex <= Len(tile)
        /\ featureIndex \in 1 .. Len(Layer.features)
    BY DEF TileInv, TypeOK, OfFeature
  <1>2. /\ IsSeq(tile)
        /\ \A l \in DOMAIN tile :
             /\ tile[l].extent \in Nat \ {0}
             /\ IsSeq(tile[l].features)
             /\ \A i \in DOMAIN tile[l].features :
                  /\ tile[l].features[i].type \in GeomType
                  /\ tile[l].features[i].geometry \in Seq(Nat)
                  /\ tile[l].features[i].tags \in Seq(Nat)
    BY TileIsTyped DEF TileInv
  <1>3. layerIndex \in DOMAIN tile
    <2>1. DOMAIN tile = 1 .. Len(tile) /\ Len(tile) \in Nat
      BY <1>2, IsSeqDomain
    <2> QED BY <1>1, <2>1
  <1>4. IsSeq(Layer.features) /\ featureIndex \in DOMAIN Layer.features /\ Layer.extent \in Nat \ {0}
    <2>1. IsSeq(Layer.features) /\ Layer.extent \in Nat \ {0}
      BY <1>2, <1>3 DEF Layer
    <2>2. DOMAIN Layer.features = 1 .. Len(Layer.features)
      BY <2>1, IsSeqDomain
    <2> QED BY <1>1, <2>1, <2>2
  <1>5. Feature.type \in GeomType /\ Feature.tags \in Seq(Nat) /\ Geometry \in Seq(Nat)
    BY <1>2, <1>3, <1>4 DEF Layer, Feature, Geometry
  <1> QED BY <1>2, <1>3, <1>4, <1>5, SeqIsSeq

LEMMA CommandTyped ==
  ASSUME TileInv, Reading
  PROVE  /\ Command.cmd \in -1 .. 7 /\ Command.length \in Nat
         /\ Command.at \in 1 .. Len(Geometry) + 1 /\ Command.at >= k
         /\ Len(Geometry) \in Nat /\ k \in Nat
PROOF
  <1>1. pc = "read" /\ k <= Len(Geometry) /\ k \in 1 .. Len(Geometry) + 1 /\ length \in Nat /\ cmd \in -1 .. 7
    BY DEF Reading, TileInv, TypeOK
  <1>2. Geometry \in Seq(Nat) /\ Len(Geometry) \in Nat /\ DOMAIN Geometry = 1 .. Len(Geometry)
    BY <1>1, FeatureIsThere DEF OfFeature
  <1>3. Geometry[k] \in Nat
    <2>1. k \in 1 .. Len(Geometry)
      BY <1>1, <1>2
    <2> QED BY <1>2, <2>1, ElementOfSeq
  <1>4. \A n \in Nat : n % 8 \in 0 .. 7 /\ n \div 8 \in Nat
    OBVIOUS
  <1>5. Geometry[k] % 8 \in -1 .. 7 /\ Geometry[k] \div 8 \in Nat
    <2>1. Geometry[k] % 8 \in 0 .. 7 /\ Geometry[k] \div 8 \in Nat
      BY <1>3, <1>4, Zenon
    <2>2. \A n \in 0 .. 7 : n \in -1 .. 7
      OBVIOUS
    <2> QED BY <2>1, <2>2, Zenon
  <1>6. CASE length = 0
    <2>1. Command = [cmd |-> Geometry[k] % 8, length |-> Geometry[k] \div 8, at |-> k + 1]
      BY <1>6 DEF Command
    <2>2. Command.cmd = Geometry[k] % 8 /\ Command.length = Geometry[k] \div 8 /\ Command.at = k + 1
      BY <2>1
    <2>3. k + 1 \in 1 .. Len(Geometry) + 1 /\ k + 1 >= k /\ k \in Nat
      BY <1>1, <1>2
    <2> QED BY <1>2, <1>5, <2>2, <2>3
  <1>7. CASE length # 0
    <2>1. Command = [cmd |-> cmd, length |-> length, at |-> k]
      BY <1>7 DEF Command
    <2>2. Command.cmd = cmd /\ Command.length = length /\ Command.at = k
      BY <2>1
    <2>3. k >= k /\ k \in Nat
      BY <1>1, <1>2
    <2> QED BY <1>1, <1>2, <2>2, <2>3
  <1> QED BY <1>6, <1>7

\* A step that reads keeps everything else.
LEMMA ReadingTyped ==
  ASSUME TileInv, ReferencesCounted', pc = "read", UNCHANGED <<pc, database, tile, position, rings, dataset>>,
         k' \in 1 .. Len(Geometry) + 1, cmd' \in -1 .. 7, length' \in Nat, cursor' \in Int \X Int,
         vtPoly' \in Ring, vtPolys' \in Seq(Ring)
  PROVE  TileInv'
PROOF
  <1>1. /\ Layer' = Layer /\ Geometry' = Geometry
        /\ UNCHANGED <<pc, mbtiles, references, place, unpacked, tile, layerIndex, featureIndex,
                       p, polyStart, polygons, dataset>>
    BY DEF Layer, Geometry, Feature, position, database, rings
  <1>2. TypeOK /\ NothingGrouped
    BY DEF TileInv
  <1>3. p' \in 1 .. Len(vtPolys') + 1 /\ polyStart' \in 1 .. p' /\ polygons' \in Seq(Seq(Ring))
    <2>1. p' = 1 /\ polyStart' = 1 /\ polygons' = polygons /\ polygons \in Seq(Seq(Ring))
      BY <1>1, <1>2 DEF NothingGrouped, TypeOK
    <2>2. Len(vtPolys') \in Nat
      BY SeqIsSeq
    <2> QED BY <2>1, <2>2
  <1>4. TypeOK'
    <2>1. /\ layerIndex' <= Len(tile')
          /\ featureIndex' \in 1 .. Len(Layer'.features)
          /\ k' \in 1 .. Len(Geometry') + 1
          /\ Layer'.name \in DOMAIN dataset'
          /\ layerIndex' \in 1 .. Len(tile') + 1
          /\ mbtiles' \in BOOLEAN /\ unpacked' \in 0 .. MaxBlocks /\ place' \in Nat \X Nat \X Nat
          /\ pc' \in AllStates
      BY <1>1, <1>2 DEF TypeOK, AllStates, OfFeature
    <2> QED BY <1>3, <2>1, TypesNext
  <1>5. NothingGrouped'
    BY <1>1, <1>2 DEF NothingGrouped
  <1> QED BY <1>1, <1>4, <1>5 DEF TileInv

\* Numbers become coordinates.
LEMMA ZigZagIsNumber ==
  ASSUME NEW n \in Nat
  PROVE  ZigZagUint32ToInt32(n) \in Int
PROOF
  BY DEF ZigZagUint32ToInt32

LEMMA ReadStepsTyped ==
  ASSUME TileInv, ReferencesCounted', ReadNothing \/ ReadVertex \/ ReadClose
  PROVE  TileInv'
PROOF
  <1>1. Reading /\ pc = "read"
    BY DEF ReadNothing, ReadVertex, ReadClose, Drawing, Reading
  <1>2. /\ Command.cmd \in -1 .. 7 /\ Command.length \in Nat
        /\ Command.at \in 1 .. Len(Geometry) + 1
        /\ Len(Geometry) \in Nat
    BY <1>1, CommandTyped
  <1>3. /\ cmd \in -1 .. 7 /\ length \in Nat /\ cursor \in Int \X Int
        /\ vtPoly \in Ring /\ vtPolys \in Seq(Ring)
    BY DEF TileInv, TypeOK
  <1>4. CASE ReadNothing
    BY <1>1, <1>2, <1>3, <1>4, ReadingTyped DEF ReadNothing
  <1>5. CASE ReadClose
    <2>1. /\ vtPolys' = Append(vtPolys, vtPoly) /\ vtPoly' = <<>> /\ cursor' = cursor
          /\ cmd' = Command.cmd /\ length' = Command.length - 1 /\ k' = Command.at
          /\ Command.length > 0
          /\ UNCHANGED <<pc, database, tile, position, rings, dataset>>
      BY <1>5 DEF ReadClose, Done
    <2>2. vtPolys' \in Seq(Ring) /\ vtPoly' \in Ring
      <3>1. Append(vtPolys, vtPoly) \in Seq(Ring)
        BY <1>3, AppendProperties
      <3>2. <<>> \in Ring
        BY DEF Ring
      <3> QED BY <2>1, <3>1, <3>2
    <2>3. length' \in Nat
      BY <1>2, <2>1
    <2> QED BY <1>1, <1>2, <1>3, <2>1, <2>2, <2>3, ReadingTyped
  <1>6. CASE ReadVertex
    <2>1. /\ cursor' = <<cursor[1] + ZigZagUint32ToInt32(Geometry[Command.at]),
                         cursor[2] + ZigZagUint32ToInt32(Geometry[Command.at + 1])>>
          /\ \/ vtPolys' = Append(vtPolys, vtPoly) /\ vtPoly' = <<cursor'>>
             \/ vtPoly' = Append(vtPoly, cursor') /\ vtPolys' = vtPolys
          /\ cmd' = Command.cmd /\ length' = Command.length - 1 /\ k' = Command.at + 2
          /\ Command.length > 0 /\ Command.at < Len(Geometry)
          /\ UNCHANGED <<pc, database, tile, position, rings, dataset>>
      BY <1>6 DEF ReadVertex, Drawing, Done
    <2>2. Geometry[Command.at] \in Nat /\ Geometry[Command.at + 1] \in Nat
      <3>1. Geometry \in Seq(Nat)
        BY <1>1, FeatureIsThere DEF OfFeature
      <3>2. Command.at \in 1 .. Len(Geometry) /\ Command.at + 1 \in 1 .. Len(Geometry)
        BY <1>2, <2>1
      <3> QED BY <3>1, <3>2, ElementOfSeq
    <2>3. cursor' \in Int \X Int
      <3>1. /\ ZigZagUint32ToInt32(Geometry[Command.at]) \in Int
            /\ ZigZagUint32ToInt32(Geometry[Command.at + 1]) \in Int
        BY <2>2, ZigZagIsNumber
      <3> QED BY <1>3, <2>1, <3>1
    <2>4. vtPolys' \in Seq(Ring) /\ vtPoly' \in Ring
      <3> DEFINE vertex == cursor'
      <3>1. vertex \in Int \X Int
        BY <2>3
      <3> HIDE DEF vertex
      <3>2. <<vertex>> \in Seq(Int \X Int)
        BY <3>1
      <3>3. Append(vtPoly, vertex) \in Seq(Int \X Int) /\ Append(vtPolys, vtPoly) \in Seq(Ring)
        BY <1>3, <3>1, AppendProperties DEF Ring
      <3> QED BY <1>3, <2>1, <3>2, <3>3 DEF vertex, Ring
    <2>5. length' \in Nat /\ k' \in 1 .. Len(Geometry) + 1
      <3> DEFINE at == Command.at
                 times == Command.length
                 all == Len(Geometry)
      <3>1. /\ at \in 1 .. all + 1 /\ times \in Nat /\ all \in Nat /\ times > 0 /\ at < all
            /\ length' = times - 1 /\ k' = at + 2
        BY <1>2, <2>1
      <3> HIDE DEF at, times, all
      <3>2. length' \in Nat /\ k' \in 1 .. all + 1
        BY <3>1
      <3> QED BY <3>2 DEF all
    <2> QED BY <1>1, <1>2, <2>1, <2>3, <2>4, <2>5, ReadingTyped
  <1> QED BY <1>4, <1>5, <1>6

\* A feature is made, and the next one or the next layer is begun.
LEMMA CreateTyped ==
  ASSUME TileInv, ReferencesCounted', pc \in OfFeature, NEW parts, CreateFeature(parts)
  PROVE  TileInv'
PROOF
  <1>1. /\ DOMAIN dataset' = DOMAIN dataset /\ NewFeature /\ UNCHANGED <<database, tile>>
        /\ \/ /\ featureIndex = Len(Layer.features)
              /\ pc' = "layer" /\ layerIndex' = layerIndex + 1 /\ featureIndex' = 1
           \/ /\ featureIndex # Len(Layer.features)
              /\ pc' = "read" /\ featureIndex' = featureIndex + 1 /\ UNCHANGED layerIndex
    BY DEF CreateFeature
  <1>2. /\ IsSeq(tile) /\ layerIndex \in DOMAIN tile
        /\ IsSeq(Layer.features) /\ featureIndex \in DOMAIN Layer.features
    BY FeatureIsThere
  <1>3. /\ DOMAIN tile = 1 .. Len(tile) /\ Len(tile) \in Nat
        /\ DOMAIN Layer.features = 1 .. Len(Layer.features) /\ Len(Layer.features) \in Nat
    BY <1>2, IsSeqDomain
  <1>4. layerIndex' \in 1 .. Len(tile') + 1
    BY <1>1, <1>2, <1>3
  <1>5. ASSUME pc' = "read"
        PROVE  /\ layerIndex' <= Len(tile')
               /\ featureIndex' \in 1 .. Len(Layer'.features)
               /\ k' \in 1 .. Len(Geometry') + 1
               /\ Layer'.name \in DOMAIN dataset'
    <2>1. /\ Layer' = Layer /\ featureIndex' = featureIndex + 1 /\ layerIndex' = layerIndex
          /\ featureIndex # Len(Layer.features) /\ tile' = tile /\ DOMAIN dataset' = DOMAIN dataset
      BY <1>1, <1>5 DEF Layer
    <2>2. featureIndex + 1 \in DOMAIN Layer.features
      BY <1>2, <1>3, <2>1
    <2>3. Geometry' \in Seq(Nat)
      <3>1. Layer.features[featureIndex + 1].geometry \in Seq(Nat)
        BY <1>2, <2>2, TileIsTyped DEF TileInv, Layer
      <3> QED BY <2>1, <3>1 DEF Geometry, Feature
    <2>4. Len(Geometry') \in Nat /\ k' = 1
      BY <1>1, <2>3, SeqIsSeq DEF NewFeature
    <2>5. featureIndex' \in 1 .. Len(Layer'.features)
      BY <1>3, <2>1, <2>2
    <2>6. layerIndex' <= Len(tile')
      BY <1>2, <1>3, <2>1
    <2>7. Layer'.name \in DOMAIN dataset'
      BY <2>1 DEF TileInv, TypeOK, OfFeature
    <2>8. k' \in 1 .. Len(Geometry') + 1
      BY <2>4
    <2> QED BY <2>5, <2>6, <2>7, <2>8
  <1>6. TypeOK'
    <2>1. mbtiles' \in BOOLEAN /\ unpacked' \in 0 .. MaxBlocks /\ place' \in Nat \X Nat \X Nat
      BY <1>1 DEF TileInv, TypeOK, database
    <2>2. pc' \in AllStates /\ (pc' \in OfFeature => pc' = "read")
      BY <1>1 DEF AllStates, OfFeature
    <2> QED BY <1>1, <1>4, <1>5, <2>1, <2>2, NewFeatureTypes, TypesNext
  <1>7. NothingGrouped' /\ (pc' = "layer" => NothingRead')
    BY <1>1 DEF NothingRead, NothingGrouped, NewFeature
  <1>8. tile' = <<>> \/ (place' \in Places /\ tile' \in Tiles[place'])
    BY <1>1 DEF TileInv, database
  <1> QED BY <1>1, <1>6, <1>7, <1>8 DEF TileInv

\* What is made of some of the rings consists of them.
LEMMA RingsInTyped ==
  ASSUME NEW S, NEW paths \in Seq(S)
  PROVE  /\ RingsIn(paths) \in Seq(S)
         /\ (\A i \in DOMAIN paths : IsRing(paths[i])) => RingsIn(paths) = paths
PROOF
  <1> DEFINE ones == [i \in DOMAIN paths |-> IF IsRing(paths[i]) THEN <<paths[i]>> ELSE <<>>]
  <1>1. DOMAIN paths = 1 .. Len(paths) /\ Len(paths) \in Nat /\ IsSeq(paths)
    BY SeqIsSeq
  <1>2. \A i \in DOMAIN paths : paths[i] \in S
    BY <1>1, ElementOfSeq
  <1>3. ones \in [1 .. Len(paths) -> Seq(S)]
    <2>1. \A s \in S : <<s>> \in Seq(S)
      OBVIOUS
    <2>2. <<>> \in Seq(S)
      OBVIOUS
    <2> QED BY <1>1, <1>2, <2>1, <2>2
  <1>4. RingsIn(paths) = FlattenSeq(ones)
    BY DEF RingsIn
  <1>5. (\A i \in DOMAIN paths : IsRing(paths[i])) => ones = [i \in DOMAIN paths |-> <<paths[i]>>]
    OBVIOUS
  <1> HIDE DEF ones
  <1>6. IsSeq(ones) /\ \A i \in DOMAIN ones : ones[i] \in Seq(S)
    BY <1>1, <1>3, CountedIsSeq
  <1>7. FlattenSeq(ones) \in Seq(S)
    BY <1>6, FlattenTyped
  <1> QED BY <1>1, <1>4, <1>5, <1>7, FlattenOfOnes

\* The rings of a polygon are the exterior and some of those after it.
LEMMA PolygonIsMade ==
  ASSUME NEW S, vtPolys \in Seq(S), polyStart \in 1 .. Len(vtPolys),
         NEW end \in polyStart .. Len(vtPolys)
  PROVE  /\ SubSeq(vtPolys, polyStart + 1, end) \in Seq(S)
         /\ RingsIn(SubSeq(vtPolys, polyStart + 1, end)) \in Seq(S)
         /\ vtPolys[polyStart] \in S
         /\ PolygonUntil(end) \in Seq(Seq(S))
PROOF
  <1>1. vtPolys[polyStart] \in S /\ Len(vtPolys) \in Nat
    BY ElementOfSeq, SeqIsSeq
  <1>2. SubSeq(vtPolys, polyStart + 1, end) \in Seq(S)
    <2>1. \A i \in polyStart + 1 .. end : i \in 1 .. Len(vtPolys)
      BY <1>1
    <2>2. \A i \in polyStart + 1 .. end : vtPolys[i] \in S
      BY <2>1, ElementOfSeq
    <2>3. polyStart + 1 \in Int /\ end \in Int
      BY <1>1
    <2> HIDE DEF Ring
    <2> QED BY <2>2, <2>3, SubSeqProperties
  <1>3. RingsIn(SubSeq(vtPolys, polyStart + 1, end)) \in Seq(S)
    BY <1>2, RingsInTyped
  <1>4. <<vtPolys[polyStart]>> \o RingsIn(SubSeq(vtPolys, polyStart + 1, end)) \in Seq(S)
    <2>1. <<vtPolys[polyStart]>> \in Seq(S)
      BY <1>1
    <2> QED BY <1>3, <2>1, ConcatProperties
  <1>5. PolygonUntil(end) \in Seq(Seq(S))
    <2> DEFINE poly == <<vtPolys[polyStart]>> \o RingsIn(SubSeq(vtPolys, polyStart + 1, end))
    <2>1. poly \in Seq(S)
      BY <1>4
    <2>2. PolygonUntil(end) \in {<<poly>>, <<>>}
      BY DEF PolygonUntil, CreateOGRPolygon
    <2> HIDE DEF poly
    <2>3. <<poly>> \in Seq(Seq(S)) /\ <<>> \in Seq(Seq(S))
      BY <2>1
    <2> QED BY <2>2, <2>3
  <1> QED BY <1>1, <1>2, <1>3, <1>5

\* Ring after ring is looked at.
LEMMA NextRingTyped ==
  ASSUME TileInv, ReferencesCounted', NextRing
  PROVE  TileInv'
PROOF
  <1>1. /\ pc = "rings" /\ p <= Len(vtPolys) /\ p' = p + 1
        /\ \/ StartsPolygon /\ polygons' = polygons \o PolygonUntil(p - 1) /\ polyStart' = p
           \/ polygons' = polygons /\ polyStart' = polyStart
        /\ UNCHANGED <<pc, database, tile, position, reader, dataset>>
    BY DEF NextRing
  <1>2. /\ TypeOK /\ p \in 1 .. Len(vtPolys) + 1 /\ polyStart \in 1 .. p
        /\ vtPolys \in Seq(Ring) /\ polygons \in Seq(Seq(Ring))
    BY DEF TileInv, TypeOK
  <1>3. Len(vtPolys) \in Nat
    BY <1>2, SeqIsSeq
  <1>4. /\ Layer' = Layer /\ Geometry' = Geometry
        /\ UNCHANGED <<pc, mbtiles, references, place, unpacked, tile, layerIndex, featureIndex, k, cmd,
                       length, cursor, vtPoly, vtPolys, dataset>>
    BY <1>1 DEF Layer, Geometry, Feature, position, database, reader
  <1>5. p' \in 1 .. Len(vtPolys') + 1 /\ polyStart' \in 1 .. p'
    BY <1>1, <1>2, <1>3, <1>4
  <1>6. polygons' \in Seq(Seq(Ring))
    <2>1. CASE polygons' = polygons
      BY <1>2, <2>1
    <2>2. CASE StartsPolygon /\ polygons' = polygons \o PolygonUntil(p - 1)
      <3>1. p > polyStart
        BY <2>2 DEF StartsPolygon
      <3>2. p - 1 \in polyStart .. Len(vtPolys) /\ polyStart \in 1 .. Len(vtPolys)
        BY <1>1, <1>2, <1>3, <3>1
      <3>3. PolygonUntil(p - 1) \in Seq(Seq(Ring))
        BY <1>2, <3>2, PolygonIsMade
      <3> QED BY <1>2, <2>2, <3>3, ConcatProperties
    <2> QED BY <1>1, <2>1, <2>2
  <1>7. TypeOK'
    <2>1. /\ layerIndex' <= Len(tile')
          /\ featureIndex' \in 1 .. Len(Layer'.features)
          /\ k' \in 1 .. Len(Geometry') + 1
          /\ Layer'.name \in DOMAIN dataset'
          /\ layerIndex' \in 1 .. Len(tile') + 1
          /\ mbtiles' \in BOOLEAN /\ unpacked' \in 0 .. MaxBlocks /\ place' \in Nat \X Nat \X Nat
          /\ pc' \in AllStates
          /\ cmd' \in -1 .. 7 /\ length' \in Nat /\ cursor' \in Int \X Int
          /\ vtPoly' \in Ring /\ vtPolys' \in Seq(Ring)
      BY <1>1, <1>2, <1>4 DEF TypeOK, AllStates, OfFeature
    <2> QED BY <1>5, <1>6, <2>1, TypesNext
  <1> QED BY <1>1, <1>4, <1>7 DEF TileInv

LEMMA TileInvKept ==
  ASSUME TileInv, [AnyStep]_vars
  PROVE  TileInv'
PROOF
  <1>1. ReferencesCounted'
    BY CountKept DEF TileInv
  <1>2. CASE UNCHANGED vars
    <2>1. /\ Layer' = Layer /\ Geometry' = Geometry
          /\ UNCHANGED <<pc, mbtiles, references, place, unpacked, tile, layerIndex, featureIndex, k, cmd,
                         length, cursor, vtPoly, vtPolys, p, polyStart, polygons, dataset>>
      BY <1>2 DEF vars, Layer, Geometry, Feature, position, database, reader, rings
    <2>2. TypeOK'
      BY <2>1 DEF TileInv, TypeOK
    <2> QED BY <1>1, <2>1, <2>2 DEF TileInv, NothingRead, NothingGrouped
  <1>3. ASSUME NEW at \in Nat \X Nat \X Nat, Open(at)
        PROVE  TileInv'
    BY <1>1, <1>3, SteadySteps
  <1>4. CASE Converting
    <2>1. <<0, 0, 0>> \in Nat \X Nat \X Nat
      OBVIOUS
    <2>2. CASE NoTile \/ EmptyTile \/ OpenTile \/ InflateBlock \/ UnpackFails \/ Converted
               \/ ReadBeyond \/ UnknownCommand \/ ReadTags \/ ReadTagsBeyond \/ UnknownType
               \/ AddNoLine \/ BeginRings \/ CreateFeatureFails
      BY <1>1, <2>1, <2>2, SteadySteps
    <2>3. CASE ConvertPoints \/ ConvertLines \/ ConvertPolygons
      <3>1. pc \in OfFeature /\ \E parts : CreateFeature(parts)
        BY <2>3 DEF ConvertPoints, ConvertLines, ConvertPolygons, OfFeature
      <3> QED BY <1>1, <3>1, CreateTyped
    <2> QED BY <1>1, <1>4, <2>2, <2>3, ParseTileTyped, BeginLayerTyped, ReadStepsTyped, NextRingTyped
            DEF Converting
  <1>5. CASE Release
    BY <1>1, <1>5, ReleaseTyped
  <1>6. CASE Destroy
    <2>1. <<0, 0, 0>> \in Nat \X Nat \X Nat
      OBVIOUS
    <2> QED BY <1>1, <1>6, <2>1, SteadySteps
  <1> QED BY <1>2, <1>3, <1>4, <1>5, <1>6 DEF AnyStep

LEMMA TileInvInit ==
  ASSUME Init
  PROVE  TileInv
PROOF
  <1>1. /\ pc = "idle" /\ mbtiles \in BOOLEAN /\ references = 1 /\ place = <<0, 0, 0>> /\ unpacked = 0
        /\ tile = <<>> /\ layerIndex = 1 /\ featureIndex = 1
        /\ k = 1 /\ cmd = -1 /\ length = 0 /\ cursor = <<0, 0>> /\ vtPoly = <<>> /\ vtPolys = <<>>
        /\ p = 1 /\ polyStart = 1 /\ polygons = <<>> /\ dataset = <<>>
    BY DEF Init
  <1>2. Len(tile) = 0 /\ Len(vtPolys) = 0
    BY <1>1, EmptyIsSeq
  <1>3. vtPoly \in Ring /\ vtPolys \in Seq(Ring) /\ polygons \in Seq(Seq(Ring))
    BY <1>1 DEF Ring
  <1>4. layerIndex \in 1 .. Len(tile) + 1 /\ p \in 1 .. Len(vtPolys) + 1 /\ polyStart \in 1 .. p
    BY <1>1, <1>2
  <1>5. 0 \in 0 .. MaxBlocks
    BY TilesAssumption
  <1>6. TypeOK
    BY <1>1, <1>3, <1>4, <1>5 DEF TypeOK, Returned
  <1>7. ReferencesCounted
    BY <1>1, CountMeans
  <1> QED BY <1>1, <1>6, <1>7 DEF TileInv, NothingRead, NothingGrouped

LEMMA TileInvariance == Spec => []TileInv
PROOF
  <1>1. TileInv /\ [Next]_vars => TileInv'
    BY TileInvKept, NextIsStep
  <1> QED BY <1>1, TileInvInit, PTL DEF Spec

\* Whatever the database holds, Open reads no layer, feature or number that its tile
\* does not have, but for those it goes beyond by, and what it makes has its types.
THEOREM VectorTypes == Spec => []TypeOK
PROOF
  <1>1. TileInv => TypeOK
    BY DEF TileInv
  <1> QED BY <1>1, TileInvariance, PTL

-----------------------------------------------------------------------------
(* The rings of a feature are grouped by the sign of their area, and the   *)
(* area of a ring has the other sign on the map.                           *)

\* Polygons in a tile: each has an exterior, which is negative for all but the first,
\* and no hole is.
WellTurned(polys) ==
  \A j \in DOMAIN polys :
    /\ polys[j] # <<>>
    /\ j # 1 => Area(polys[j][1]) < 0
    /\ \A n \in DOMAIN polys[j] \ {1} : Area(polys[j][n]) >= 0

\* The rings since the last exterior are its holes.
GroupInv ==
  pc = "rings" =>
    /\ polyStart # 1 => Area(vtPolys[polyStart]) < 0
    /\ \A q \in polyStart + 1 .. p - 1 : Area(vtPolys[q]) >= 0
    /\ polyStart = 1 => polygons = <<>>
    /\ WellTurned(polygons)
    /\ RingsInOrder

\* The same on the map, where the signs are the other ones.
TurnedOnMap(parts) ==
  \A j \in DOMAIN parts :
    /\ IsSeq(parts[j])
    /\ j # 1 => Area(parts[j][1]) >= 0
    /\ \A n \in DOMAIN parts[j] \ {1} : Area(parts[j][n]) <= 0

-----------------------------------------------------------------------------
(* The area of a ring.                                                     *)

\* A sum of any length is what adding up its terms gives.
LEMMA SumExists ==
  ASSUME NEW n \in Nat, NEW g
  PROVE  \E f : f = [i \in 0 .. n |-> IF i = 0 THEN 0 ELSE f[i - 1] + g[i]]
PROOF
  <1> DEFINE Is(f, m) == f = [i \in 0 .. m |-> IF i = 0 THEN 0 ELSE f[i - 1] + g[i]]
             T == {m \in 0 .. n : \E f : Is(f, m)}
  <1>1. 0 \in T
    <2>1. Is([i \in 0 .. 0 |-> 0], 0)
      OBVIOUS
    <2>2. \E f : Is(f, 0)
      <3> HIDE DEF Is
      <3> QED BY <2>1
    <2>3. 0 \in 0 .. n
      OBVIOUS
    <2> QED BY <2>2, <2>3
  <1>2. ASSUME NEW m \in 1 .. n, m - 1 \in T PROVE m \in T
    <2>1. PICK f : Is(f, m - 1)
      BY <1>2
    <2> DEFINE h == [i \in 0 .. m |-> IF i = m THEN f[m - 1] + g[m] ELSE f[i]]
    <2>2. \A i \in 0 .. m - 1 : i \in 0 .. m /\ i # m
      OBVIOUS
    <2>3. \A i \in 0 .. m - 1 : h[i] = f[i]
      BY <2>2
    <2>4. m \in 0 .. m /\ m - 1 \in 0 .. m - 1 /\ m # 0
      OBVIOUS
    <2>5. h[m] = f[m - 1] + g[m]
      BY <2>4
    <2>6. \A i \in 0 .. m - 1 : f[i] = IF i = 0 THEN 0 ELSE f[i - 1] + g[i]
      BY <2>1
    <2>7. \A i \in 0 .. m : i = m \/ i \in 0 .. m - 1
      OBVIOUS
    <2>8. \A i \in 0 .. m - 1 : i = 0 \/ (i \in 1 .. m - 1 /\ i - 1 \in 0 .. m - 1 /\ i # 0)
      OBVIOUS
    <2>9. h = [i \in 0 .. m |-> h[i]]
      OBVIOUS
    <2> HIDE DEF h
    <2>10. \A i \in 0 .. m : h[i] = IF i = 0 THEN 0 ELSE h[i - 1] + g[i]
      <3> TAKE i \in 0 .. m
      <3>1. CASE i = m
        BY <2>3, <2>4, <2>5, <3>1
      <3>2. CASE i = 0
        BY <2>3, <2>4, <2>6, <3>2
      <3>3. CASE i \in 0 .. m - 1 /\ i - 1 \in 0 .. m - 1 /\ i # 0
        <4>1. h[i] = f[i] /\ h[i - 1] = f[i - 1] /\ f[i] = f[i - 1] + g[i]
          BY <2>3, <2>6, <3>3, Zenon
        <4> QED BY <3>3, <4>1
      <3> QED BY <2>7, <2>8, <3>1, <3>2, <3>3
    <2>11. Is(h, m)
      BY <2>9, <2>10
    <2> QED BY <2>11
  <1>3. n \in T
    <2> HIDE DEF T
    <2>1. \A i \in 0 .. n : i \in T
      BY <1>1, <1>2, OneByOne
    <2> QED BY <2>1
  <1> QED BY <1>3

\* the vertex after one, and what the edge to it adds to the area
After(ring, i) == ring[(i % Len(ring)) + 1]
Edge(ring, i) == ring[i][2] * After(ring, i)[1] - ring[i][1] * After(ring, i)[2]

\* the sums that lead to the area
IsSweep(f, ring) ==
  f = [i \in 0 .. Len(ring) |-> IF i = 0 THEN 0 ELSE f[i - 1] + Edge(ring, i)]
Sweep(ring) == CHOOSE f : IsSweep(f, ring)

LEMMA AreaSwept ==
  ASSUME NEW ring, Len(ring) \in Nat
  PROVE  /\ Area(ring) = Sweep(ring)[Len(ring)]
         /\ Sweep(ring)[0] = 0
         /\ \A i \in 1 .. Len(ring) : Sweep(ring)[i] = Sweep(ring)[i - 1] + Edge(ring, i)
PROOF
  <1> DEFINE l == Len(ring)
             g == [i \in 1 .. l |-> Edge(ring, i)]
  <1>1. \E f : IsSweep(f, ring)
    <2>1. PICK f : f = [i \in 0 .. l |-> IF i = 0 THEN 0 ELSE f[i - 1] + g[i]]
      <3> HIDE DEF g
      <3> QED BY SumExists
    <2>2. \A i \in 0 .. l : i = 0 \/ i \in 1 .. l
      OBVIOUS
    <2>3. \A i \in 1 .. l : g[i] = Edge(ring, i)
      OBVIOUS
    <2> HIDE DEF g
    <2>4. \A i \in 0 .. l : (IF i = 0 THEN 0 ELSE f[i - 1] + g[i])
                              = (IF i = 0 THEN 0 ELSE f[i - 1] + Edge(ring, i))
      BY <2>2, <2>3
    <2>5. IsSweep(f, ring)
      <3> HIDE DEF l
      <3>1. [i \in 0 .. l |-> IF i = 0 THEN 0 ELSE f[i - 1] + g[i]]
              = [i \in 0 .. l |-> IF i = 0 THEN 0 ELSE f[i - 1] + Edge(ring, i)]
        BY <2>4
      <3> QED BY <2>1, <3>1 DEF IsSweep, l
    <2> QED BY <2>5
  <1>2. IsSweep(Sweep(ring), ring)
    BY <1>1 DEF Sweep
  <1>3. Area(ring) = Sweep(ring)[Len(ring)]
    BY Zenon DEF Area, Sweep, IsSweep, Edge, After
  <1> DEFINE s == Sweep(ring)
  <1>4. s = [i \in 0 .. l |-> IF i = 0 THEN 0 ELSE s[i - 1] + Edge(ring, i)]
    BY <1>2 DEF IsSweep
  <1> HIDE DEF s, l
  <1>5. l \in Nat
    BY DEF l
  <1>6. s[0] = 0 /\ \A i \in 1 .. l : s[i] = s[i - 1] + Edge(ring, i)
    <2>1. 0 \in 0 .. l /\ \A i \in 1 .. l : i \in 0 .. l /\ i # 0
      BY <1>5
    <2> QED BY <1>4, <2>1
  <1> QED BY <1>3, <1>6 DEF s, l

LEMMA AfterIn ==
  ASSUME NEW n \in Nat, NEW i \in 1 .. n
  PROVE  (i % n) + 1 \in 1 .. n /\ (i # n => (i % n) + 1 = i + 1) /\ (i = n => (i % n) + 1 = 1)
PROOF
  <1>1. CASE i = n
    <2>1. i % n = 0
      BY <1>1
    <2> QED BY <1>1, <2>1
  <1>2. CASE i # n
    <2>1. i % n = i
      BY <1>2
    <2> QED BY <1>2, <2>1
  <1> QED BY <1>1, <1>2

\* what an edge adds on the map
LEMMA EdgeTurned ==
  ASSUME NEW left \in Int, NEW top \in Int, NEW s \in Int,
         NEW xi \in Int, NEW yi \in Int, NEW xa \in Int, NEW ya \in Int
  PROVE  (top - yi * s) * (left + xa * s) - (left + xi * s) * (top - ya * s)
           = (top * s) * (xa - xi) + ((left * s) * (ya - yi) - (s * s) * (yi * xa - xi * ya))
PROOF
  <1>1. (top - yi * s) * (left + xa * s)
          = ((top * left + top * (xa * s)) - (yi * s) * left) - (yi * s) * (xa * s)
    OBVIOUS
  <1>2. (left + xi * s) * (top - ya * s)
          = ((left * top + (xi * s) * top) - left * (ya * s)) - (xi * s) * (ya * s)
    OBVIOUS
  <1> QED BY <1>1, <1>2

\* the sums of the edges up to one
LEMMA SumTurned ==
  ASSUME NEW a \in Int, NEW b \in Int, NEW c \in Int,
         NEW x1 \in Int, NEW y1 \in Int, NEW xi \in Int, NEW yi \in Int, NEW xa \in Int, NEW ya \in Int,
         NEW f \in Int, NEW t \in Int
  PROVE  (a * (xi - x1) + (b * (yi - y1) - c * f)) + (a * (xa - xi) + (b * (ya - yi) - c * t))
           = a * (xa - x1) + (b * (ya - y1) - c * (f + t))
PROOF
  OBVIOUS

Scaled(ring, left, top, s) ==
  [v \in DOMAIN ring |-> <<left + ring[v][1] * s, top - ring[v][2] * s>>]

\* A ring that is moved, scaled, and turned upside down has an area of the other sign.
LEMMA AreaTurned ==
  ASSUME NEW ring \in Ring, NEW left \in Int, NEW top \in Int, NEW s \in Int
  PROVE  Area(ring) \in Int /\ Area(Scaled(ring, left, top, s)) = -((s * s) * Area(ring))
PROOF
  <1> DEFINE moved == Scaled(ring, left, top, s)
             n == Len(ring)
             f == Sweep(ring)
             g == Sweep(moved)
             a == top * s
             b == left * s
             c == s * s
             next(i) == IF i = n THEN 1 ELSE i + 1
             X(i) == ring[i][1]
             Y(i) == ring[i][2]
  <1>1. n \in Nat /\ DOMAIN ring = 1 .. n /\ a \in Int /\ b \in Int /\ c \in Int
    BY SeqIsSeq DEF Ring
  <1>0. Len(moved) = n /\ \A v \in DOMAIN ring : moved[v] = <<left + ring[v][1] * s, top - ring[v][2] * s>>
    <2>1. \A v \in DOMAIN ring : moved[v] = <<left + ring[v][1] * s, top - ring[v][2] * s>>
      BY DEF Scaled
    <2>2. moved \in [1 .. n -> {moved[v] : v \in DOMAIN ring}]
      BY <1>1 DEF Scaled
    <2> HIDE DEF moved
    <2> QED BY <1>1, <2>1, <2>2, CountedIsSeq
  <1> HIDE DEF moved
  <1>2. \A i \in 1 .. n : X(i) \in Int /\ Y(i) \in Int
    <2>1. \A i \in 1 .. n : ring[i] \in Int \X Int
      BY <1>1, ElementOfSeq DEF Ring
    <2> QED BY <2>1
  <1>3. \A i \in 1 .. n : moved[i][1] = left + X(i) * s /\ moved[i][2] = top - Y(i) * s
    <2> TAKE i \in 1 .. n
    <2>1. moved[i] = <<left + X(i) * s, top - Y(i) * s>>
      BY <1>0, <1>1
    <2> HIDE DEF X, Y
    <2> QED BY <2>1
  <1>4. \A i \in 1 .. n : next(i) \in 1 .. n /\ next(i) = (i % n) + 1
    BY <1>1, AfterIn
  <1>5. /\ Area(ring) = f[n] /\ f[0] = 0 /\ \A i \in 1 .. n : f[i] = f[i - 1] + Edge(ring, i)
        /\ Area(moved) = g[n] /\ g[0] = 0 /\ \A i \in 1 .. n : g[i] = g[i - 1] + Edge(moved, i)
    BY <1>0, <1>1, AreaSwept
  <1>6. ASSUME NEW i \in 1 .. n
        PROVE  /\ Edge(ring, i) = Y(i) * X(next(i)) - X(i) * Y(next(i))
               /\ Edge(moved, i) = (top - Y(i) * s) * (left + X(next(i)) * s)
                                     - (left + X(i) * s) * (top - Y(next(i)) * s)
    <2>1. After(ring, i) = ring[next(i)] /\ After(moved, i) = moved[next(i)] /\ next(i) \in 1 .. n
      BY <1>0, <1>4 DEF After
    <2> HIDE DEF next
    <2>2. Edge(ring, i) = Y(i) * X(next(i)) - X(i) * Y(next(i))
      BY <2>1 DEF Edge
    <2>3. Edge(moved, i) = moved[i][2] * moved[next(i)][1] - moved[i][1] * moved[next(i)][2]
      BY <2>1 DEF Edge
    <2>4. /\ moved[i][1] = left + X(i) * s /\ moved[i][2] = top - Y(i) * s
          /\ moved[next(i)][1] = left + X(next(i)) * s /\ moved[next(i)][2] = top - Y(next(i)) * s
      BY <1>3, <2>1
    <2> QED BY <2>2, <2>3, <2>4
  <1> HIDE DEF n, f, g, X, Y, next
  <1>7. ASSUME NEW i \in 1 .. n
        PROVE  /\ Edge(ring, i) \in Int
               /\ Edge(moved, i) = a * (X(next(i)) - X(i)) + (b * (Y(next(i)) - Y(i)) - c * Edge(ring, i))
    <2> DEFINE xi == X(i)
               yi == Y(i)
               xa == X(next(i))
               ya == Y(next(i))
    <2>1. xi \in Int /\ yi \in Int /\ xa \in Int /\ ya \in Int
      BY <1>2, <1>4
    <2>2. Edge(ring, i) = yi * xa - xi * ya
      BY <1>6
    <2>3. Edge(moved, i) = (top - yi * s) * (left + xa * s) - (left + xi * s) * (top - ya * s)
      BY <1>6
    <2>4. Edge(ring, i) \in Int
      <3> HIDE DEF xi, yi, xa, ya
      <3> QED BY <2>1, <2>2
    <2>5. (top - yi * s) * (left + xa * s) - (left + xi * s) * (top - ya * s)
            = (top * s) * (xa - xi) + ((left * s) * (ya - yi) - (s * s) * (yi * xa - xi * ya))
      <3> HIDE DEF xi, yi, xa, ya
      <3> QED BY <2>1, EdgeTurned
    <2>6. Edge(moved, i) = a * (xa - xi) + (b * (ya - yi) - c * Edge(ring, i))
      <3> HIDE DEF xi, yi, xa, ya
      <3> QED BY <2>2, <2>3, <2>5
    <2> QED BY <2>4, <2>6
  <1> HIDE DEF a, b, c
  <1> DEFINE T == {0} \union
                  {i \in 1 .. n : /\ f[i] \in Int
                                  /\ g[i] = a * (X(next(i)) - X(1)) + (b * (Y(next(i)) - Y(1)) - c * f[i])}
  <1>8. ASSUME NEW i \in 1 .. n, i - 1 \in T PROVE i \in T
    <2>1. /\ f[i] = f[i - 1] + Edge(ring, i) /\ g[i] = g[i - 1] + Edge(moved, i)
          /\ Edge(ring, i) \in Int
          /\ Edge(moved, i) = a * (X(next(i)) - X(i)) + (b * (Y(next(i)) - Y(i)) - c * Edge(ring, i))
      BY <1>5, <1>7
    <2>2. f[i - 1] \in Int /\ g[i - 1] = a * (X(i) - X(1)) + (b * (Y(i) - Y(1)) - c * f[i - 1])
      <3>1. CASE i = 1
        <4>1. f[i - 1] = 0 /\ g[i - 1] = 0 /\ X(1) \in Int /\ Y(1) \in Int
          BY <1>2, <1>5, <3>1
        <4>2. a * (X(1) - X(1)) + (b * (Y(1) - Y(1)) - c * 0) = 0
          BY <1>1, <4>1
        <4> QED BY <3>1, <4>1, <4>2
      <3>2. CASE i # 1
        <4>1. i - 1 # 0 /\ i - 1 \in 1 .. n /\ i - 1 # n /\ (i - 1) + 1 = i
          BY <1>1, <3>2
        <4>2. next(i - 1) = i
          BY <4>1 DEF next
        <4>3. f[i - 1] \in Int /\ g[i - 1] = a * (X(next(i - 1)) - X(1)) + (b * (Y(next(i - 1)) - Y(1)) - c * f[i - 1])
          BY <1>8, <4>1
        <4> QED BY <4>2, <4>3
      <3> QED BY <3>1, <3>2
    <2>3. /\ X(i) \in Int /\ Y(i) \in Int /\ X(next(i)) \in Int /\ Y(next(i)) \in Int
          /\ X(1) \in Int /\ Y(1) \in Int
      <3>1. 1 \in 1 .. n
        BY <1>1
      <3> QED BY <1>2, <1>4, <3>1
    <2> DEFINE t == Edge(ring, i)
               x1 == X(1)
               y1 == Y(1)
               xi == X(i)
               yi == Y(i)
               xa == X(next(i))
               ya == Y(next(i))
               e == f[i - 1]
    <2>4. t \in Int /\ e \in Int /\ f[i] = e + t
      BY <2>1, <2>2
    <2>5. g[i] = (a * (xi - x1) + (b * (yi - y1) - c * e)) + (a * (xa - xi) + (b * (ya - yi) - c * t))
      BY <2>1, <2>2
    <2>6. (a * (xi - x1) + (b * (yi - y1) - c * e)) + (a * (xa - xi) + (b * (ya - yi) - c * t))
            = a * (xa - x1) + (b * (ya - y1) - c * (e + t))
      <3>1. xi \in Int /\ yi \in Int /\ xa \in Int /\ ya \in Int /\ x1 \in Int /\ y1 \in Int
        BY <2>3
      <3> HIDE DEF xi, yi, xa, ya, x1, y1, e, t
      <3> QED BY <1>1, <2>4, <3>1, SumTurned
    <2>7. f[i] \in Int /\ g[i] = a * (xa - x1) + (b * (ya - y1) - c * f[i])
      <3> HIDE DEF xi, yi, xa, ya, x1, y1, e, t
      <3> QED BY <2>4, <2>5, <2>6
    <2> QED BY <2>7
  <1>9. n \in T
    <2>1. 0 \in T
      OBVIOUS
    <2> HIDE DEF T
    <2>2. \A i \in 0 .. n : i \in T
      BY <1>1, <1>8, <2>1, OneByOne
    <2> QED BY <1>1, <2>2
  <1>10. CASE n = 0
    <2>1. c * 0 = 0
      BY <1>1
    <2>2. Area(ring) = 0 /\ Area(moved) = 0
      BY <1>5, <1>10
    <2> QED BY <2>1, <2>2 DEF c, moved
  <1>11. CASE n # 0
    <2>1. f[n] \in Int /\ g[n] = a * (X(next(n)) - X(1)) + (b * (Y(next(n)) - Y(1)) - c * f[n])
      BY <1>9, <1>11
    <2>2. next(n) = 1 /\ X(1) \in Int /\ Y(1) \in Int
      <3>1. 1 \in 1 .. n
        BY <1>1, <1>11
      <3> QED BY <1>2, <3>1 DEF next
    <2>3. a * (X(1) - X(1)) + (b * (Y(1) - Y(1)) - c * f[n]) = -(c * f[n])
      BY <1>1, <2>1, <2>2
    <2> QED BY <1>5, <2>1, <2>2, <2>3 DEF c, moved
  <1> QED BY <1>10, <1>11

\* The grid of a tile is put on the map in whole numbers.
LEMMA MapIsNumber ==
  ASSUME TileInv, pc \in OfFeature
  PROVE  TileLeft \in Int /\ TileTop \in Int /\ TileSize \div Layer.extent \in Int
PROOF
  <1>1. /\ tile \in Tiles[place] /\ place \in Places /\ IsSeq(tile) /\ layerIndex \in DOMAIN tile
        /\ Layer.extent \in Nat \ {0}
    <2>1. /\ IsSeq(tile) /\ layerIndex \in DOMAIN tile
          /\ tile = <<>> \/ (place \in Places /\ tile \in Tiles[place])
      BY FeatureIsThere DEF TileInv
    <2>2. tile # <<>>
      BY <2>1, EmptyIsSeq
    <2> QED BY <2>1, <2>2, TileIsTyped DEF Layer
  <1> DEFINE power == 2 ^ place[1]
             zoom == place[1]
  <1>2. place \in Nat \X Nat \X Nat /\ MapWidth \in Nat /\ power \in Nat \ {0}
    BY <1>1, TilesAssumption
  <1>3. place[1] \in Nat /\ place[2] \in Nat /\ place[3] \in Nat
    BY <1>2
  <1>4. TileSize = MapWidth \div power /\ MapLeft = -(MapWidth \div 2) /\ MapTop = MapWidth \div 2
    BY DEF TileSize, MapLeft, MapTop
  <1>5. TileLeft = MapLeft + place[2] * TileSize /\ TileTop = MapTop - ((power - place[3]) - 1) * TileSize
    <2>1. TileTop = MapTop - (power - place[3] - 1) * TileSize
      BY DEF TileTop
    <2> HIDE DEF power
    <2>2. power - place[3] - 1 = (power - place[3]) - 1
      BY <1>2, <1>3
    <2> QED BY <2>1, <2>2 DEF TileLeft
  <1> HIDE DEF power
  <1>6. TileSize \in Int /\ MapLeft \in Int /\ MapTop \in Int
    BY <1>2, <1>4
  <1> QED BY <1>1, <1>2, <1>3, <1>5, <1>6

\* On the map a ring goes around the other way.
LEMMA TurnedAround ==
  ASSUME TileInv, pc \in OfFeature, NEW ring \in Ring
  PROVE  /\ Area(ring) < 0 => Area(PathOnMap(ring)) >= 0
         /\ Area(ring) >= 0 => Area(PathOnMap(ring)) <= 0
PROOF
  <1> DEFINE s == TileSize \div Layer.extent
             left == TileLeft
             top == TileTop
             moved == PathOnMap(ring)
  <1>1. left \in Int /\ top \in Int /\ s \in Int
    BY MapIsNumber
  <1>2. moved = Scaled(ring, left, top, s)
    BY DEF PathOnMap, OnMap, Scaled
  <1> HIDE DEF s, left, top, moved
  <1>7. Area(ring) \in Int /\ Area(moved) = -((s * s) * Area(ring))
    BY <1>1, <1>2, AreaTurned
  <1> DEFINE a == Area(ring)
             c == s * s
  <1>8. c \in Int /\ c >= 0
    BY <1>1
  <1>9. a \in Int /\ Area(moved) = -(c * a)
    BY <1>7
  <1> HIDE DEF a, c
  <1>10. a < 0 => -(c * a) >= 0
    BY <1>8, <1>9
  <1>11. a >= 0 => -(c * a) <= 0
    BY <1>8, <1>9
  <1> QED BY <1>9, <1>10, <1>11 DEF a, moved

LEMMA ShapeTurned ==
  ASSUME TileInv, pc \in OfFeature, NEW parts \in Seq(Seq(Ring)), WellTurned(parts)
  PROVE  TurnedOnMap(ShapeOnMap(parts))
PROOF
  <1>1. ShapeOnMap(parts) = [j \in DOMAIN parts |-> [n \in DOMAIN parts[j] |-> PathOnMap(parts[j][n])]]
    BY DEF ShapeOnMap
  <1>2. \A j \in DOMAIN parts : parts[j] \in Seq(Ring)
    BY SeqIsSeq, ElementOfSeq
  <1>3. \A j \in DOMAIN parts : \A n \in DOMAIN parts[j] : parts[j][n] \in Ring
    BY <1>2, SeqIsSeq, ElementOfSeq
  <1>4. \A j \in DOMAIN parts : 1 \in DOMAIN parts[j]
    <2> TAKE j \in DOMAIN parts
    <2>1. IsSeq(parts[j]) /\ parts[j] # <<>>
      BY <1>2, SeqIsSeq DEF WellTurned
    <2>2. Len(parts[j]) \in Nat /\ DOMAIN parts[j] = 1 .. Len(parts[j])
      BY <2>1, IsSeqDomain
    <2>3. Len(parts[j]) # 0
      BY <2>1, EmptyIsSeq, <1>2, EmptySeq
    <2> QED BY <2>2, <2>3
  <1> DEFINE shape == ShapeOnMap(parts)
  <1>5. /\ DOMAIN shape = DOMAIN parts
        /\ \A j \in DOMAIN parts :
             /\ DOMAIN shape[j] = DOMAIN parts[j]
             /\ \A n \in DOMAIN parts[j] : shape[j][n] = PathOnMap(parts[j][n])
    BY <1>1
  <1> HIDE DEF shape
  <1>6. ASSUME NEW j \in DOMAIN shape, j # 1 PROVE Area(shape[j][1]) >= 0
    <2>1. Area(parts[j][1]) < 0 /\ 1 \in DOMAIN parts[j] /\ parts[j][1] \in Ring
      BY <1>3, <1>4, <1>5, <1>6 DEF WellTurned
    <2> QED BY <1>5, <2>1, TurnedAround
  <1>7. ASSUME NEW j \in DOMAIN shape, NEW n \in DOMAIN shape[j] \ {1} PROVE Area(shape[j][n]) <= 0
    <2>1. Area(parts[j][n]) >= 0 /\ n \in DOMAIN parts[j] /\ parts[j][n] \in Ring
      BY <1>3, <1>5 DEF WellTurned
    <2> QED BY <1>5, <2>1, TurnedAround
  <1>8. ASSUME NEW j \in DOMAIN shape PROVE IsSeq(shape[j])
    <2> DEFINE made == shape[j]
               n == Len(parts[j])
    <2>1. j \in DOMAIN parts /\ DOMAIN parts[j] = 1 .. n /\ n \in Nat
      BY <1>2, <1>5, SeqIsSeq
    <2>2. made = [m \in 1 .. n |-> PathOnMap(parts[j][m])]
      BY <1>1, <2>1 DEF shape
    <2>3. made \in [1 .. n -> {made[m] : m \in 1 .. n}]
      BY <2>2
    <2> HIDE DEF made, n
    <2>4. IsSeq(made)
      BY <2>1, <2>3, CountedIsSeq
    <2> QED BY <2>4 DEF made
  <1> QED BY <1>6, <1>7, <1>8 DEF TurnedOnMap, shape

\* A polygon more, if there is one to be made.
LEMMA PolygonsTurned ==
  ASSUME NEW end \in polyStart .. Len(vtPolys),
         vtPolys \in Seq(Ring), polygons \in Seq(Seq(Ring)), polyStart \in 1 .. Len(vtPolys),
         WellTurned(polygons),
         polygons # <<>> => Area(vtPolys[polyStart]) < 0,
         \A q \in polyStart + 1 .. end : Area(vtPolys[q]) >= 0
  PROVE  WellTurned(polygons \o PolygonUntil(end))
PROOF
  <1> DEFINE S == {r \in Ring : Area(r) >= 0}
             holes == SubSeq(vtPolys, polyStart + 1, end)
             poly == <<vtPolys[polyStart]>> \o RingsIn(holes)
  <1>1. Len(vtPolys) \in Nat /\ end \in Int /\ polyStart \in Int
    BY SeqIsSeq
  <1>2. holes \in Seq(S)
    <2>1. \A q \in polyStart + 1 .. end : vtPolys[q] \in Ring
      <3>1. \A q \in polyStart + 1 .. end : q \in 1 .. Len(vtPolys)
        BY <1>1
      <3> QED BY <3>1, ElementOfSeq
    <2>2. \A q \in polyStart + 1 .. end : vtPolys[q] \in S
      BY <2>1
    <2>3. polyStart + 1 \in Int
      BY <1>1
    <2> HIDE DEF S
    <2> QED BY <1>1, <2>2, <2>3, SubSeqProperties
  <1>3. RingsIn(holes) \in Seq(S)
    <2> HIDE DEF S, holes
    <2> QED BY <1>2, RingsInTyped
  <1>4. vtPolys[polyStart] \in Ring
    BY ElementOfSeq
  <1> DEFINE rest == RingsIn(holes)
             first == <<vtPolys[polyStart]>>
  <1>5. IsSeq(rest) /\ DOMAIN rest = 1 .. Len(rest) /\ Len(rest) \in Nat
        /\ \A n \in DOMAIN rest : Area(rest[n]) >= 0
    <2>1. \A n \in DOMAIN rest : rest[n] \in S
      <3> HIDE DEF S, holes
      <3> QED BY <1>3, SeqIsSeq, ElementOfSeq
    <2> HIDE DEF holes
    <2>2. \A n \in DOMAIN rest : Area(rest[n]) >= 0
      BY <2>1
    <2> HIDE DEF S
    <2> QED BY <1>3, <2>2, SeqIsSeq
  <1>6. first \in Seq(Ring) /\ IsSeq(first) /\ Len(first) = 1 /\ first[1] = vtPolys[polyStart] /\ 1 \in DOMAIN first
    <2>1. first \in Seq(Ring) /\ Len(first) = 1 /\ first[1] = vtPolys[polyStart]
      BY <1>4
    <2> HIDE DEF first
    <2>2. IsSeq(first) /\ DOMAIN first = 1 .. Len(first)
      BY <2>1, SeqIsSeq
    <2> QED BY <2>1, <2>2
  <1> HIDE DEF rest, first, S, holes
  <1>7. /\ IsSeq(poly) /\ Len(poly) = 1 + Len(rest) /\ poly[1] = vtPolys[polyStart]
        /\ \A n \in DOMAIN poly \ {1} : Area(poly[n]) >= 0
    <2>1. poly = first \o rest
      BY DEF first, rest, holes
    <2>2. /\ IsSeq(poly) /\ Len(poly) = 1 + Len(rest) /\ poly[1] = first[1]
          /\ \A n \in DOMAIN rest : poly[1 + n] = rest[n]
      <3> HIDE DEF poly
      <3>1. IsSeq(poly)
        BY <1>5, <1>6, <2>1, ConcatIsSeq
      <3>2. /\ Len(first \o rest) = Len(first) + Len(rest)
            /\ \A n \in DOMAIN first : n \in DOMAIN (first \o rest) /\ (first \o rest)[n] = first[n]
            /\ \A n \in DOMAIN rest : /\ Len(first) + n \in DOMAIN (first \o rest)
                                       /\ (first \o rest)[Len(first) + n] = rest[n]
        <4>1. IsSeq(first) /\ IsSeq(rest)
          BY <1>5, <1>6
        <4> QED BY <4>1, ConcatAt
      <3> QED BY <1>6, <2>1, <3>1, <3>2
    <2> HIDE DEF poly
    <2>3. DOMAIN poly = 1 .. 1 + Len(rest)
      BY <2>2, IsSeqDomain
    <2>4. ASSUME NEW n \in DOMAIN poly \ {1} PROVE Area(poly[n]) >= 0
      <3>1. n - 1 \in DOMAIN rest /\ 1 + (n - 1) = n
        BY <1>5, <2>3
      <3>2. poly[n] = rest[n - 1]
        BY <2>2, <3>1
      <3> QED BY <1>5, <3>1, <3>2
    <2> QED BY <1>6, <2>2, <2>4
  <1>8. poly # <<>>
    <2>1. Len(poly) # 0
      <3> HIDE DEF poly
      <3> QED BY <1>5, <1>7
    <2> HIDE DEF poly
    <2> QED BY <2>1, EmptyIsSeq
  <1>9. PolygonUntil(end) = IF IsRing(vtPolys[polyStart]) THEN <<poly>> ELSE <<>>
    BY DEF PolygonUntil, CreateOGRPolygon, holes
  <1> HIDE DEF poly
  <1>10. IsSeq(polygons) /\ DOMAIN polygons = 1 .. Len(polygons) /\ Len(polygons) \in Nat
    BY SeqIsSeq
  <1>11. CASE ~IsRing(vtPolys[polyStart])
    <2>1. polygons \o PolygonUntil(end) = polygons
      BY <1>9, <1>10, <1>11, EmptyIsSeq
    <2> QED BY <2>1
  <1>12. CASE IsRing(vtPolys[polyStart])
    <2> DEFINE last == <<poly>>
               more == polygons \o last
    <2>1. IsSeq(last) /\ Len(last) = 1 /\ last[1] = poly /\ 1 \in DOMAIN last
      <3>1. last \in Seq({poly}) /\ Len(last) = 1 /\ last[1] = poly
        OBVIOUS
      <3> HIDE DEF last
      <3>2. IsSeq(last) /\ DOMAIN last = 1 .. Len(last)
        BY <3>1, SeqIsSeq
      <3> QED BY <3>1, <3>2
    <2> HIDE DEF last
    <2>2. /\ IsSeq(more) /\ Len(more) = Len(polygons) + 1
          /\ \A j \in DOMAIN polygons : more[j] = polygons[j]
          /\ more[Len(polygons) + 1] = poly
      <3>1. IsSeq(more)
        BY <1>10, <2>1, ConcatIsSeq
      <3>2. /\ Len(more) = Len(polygons) + Len(last)
            /\ \A j \in DOMAIN polygons : j \in DOMAIN more /\ more[j] = polygons[j]
            /\ \A j \in DOMAIN last : /\ Len(polygons) + j \in DOMAIN more
                                       /\ more[Len(polygons) + j] = last[j]
        <4>1. IsSeq(polygons) /\ IsSeq(last)
          BY <1>10, <2>1
        <4> QED BY <4>1, ConcatAt
      <3> HIDE DEF more
      <3> QED BY <2>1, <3>1, <3>2
    <2> HIDE DEF more
    <2>3. DOMAIN more = 1 .. Len(polygons) + 1
      BY <2>2, IsSeqDomain
    <2>4. ASSUME NEW j \in DOMAIN more
          PROVE  /\ more[j] # <<>>
                 /\ j # 1 => Area(more[j][1]) < 0
                 /\ \A n \in DOMAIN more[j] \ {1} : Area(more[j][n]) >= 0
      <3>1. CASE j \in DOMAIN polygons
        BY <2>2, <3>1 DEF WellTurned
      <3>2. CASE j = Len(polygons) + 1
        <4>1. j # 1 => polygons # <<>>
          BY <1>10, <3>2, EmptyIsSeq
        <4>2. more[j] = poly
          BY <2>2, <3>2
        <4> QED BY <1>7, <1>8, <4>1, <4>2
      <3> QED BY <1>10, <2>3, <3>1, <3>2
    <2>5. WellTurned(more)
      BY <2>4 DEF WellTurned
    <2> QED BY <1>9, <1>12, <2>5 DEF more, last
  <1> QED BY <1>11, <1>12

LEMMA AreaIsNumber ==
  ASSUME NEW ring \in Ring
  PROVE  Area(ring) \in Int
PROOF
  <1>1. 0 \in Int
    OBVIOUS
  <1> QED BY <1>1, AreaTurned

\* A polygon has the rings from its exterior to the next one.
LEMMA RingsJoined ==
  ASSUME vtPolys \in Seq(Ring), \A i \in DOMAIN vtPolys : IsRing(vtPolys[i]),
         polygons \in Seq(Seq(Ring)), polyStart \in 1 .. Len(vtPolys),
         NEW end \in polyStart .. Len(vtPolys),
         FlattenSeq(polygons) = SubSeq(vtPolys, 1, polyStart - 1)
  PROVE  FlattenSeq(polygons \o PolygonUntil(end)) = SubSeq(vtPolys, 1, end)
PROOF
  <1> DEFINE holes == SubSeq(vtPolys, polyStart + 1, end)
             poly == SubSeq(vtPolys, polyStart, end)
  <1>1. Len(vtPolys) \in Nat /\ DOMAIN vtPolys = 1 .. Len(vtPolys) /\ end \in Int /\ polyStart \in Int
    BY SeqIsSeq
  <1>2. \A q \in polyStart .. end : q \in 1 .. Len(vtPolys)
    BY <1>1
  <1>3. \A q \in polyStart .. end : vtPolys[q] \in Ring
    BY <1>2, ElementOfSeq
  <1>4. /\ holes \in Seq(Ring) /\ Len(holes) = end - polyStart
        /\ \A i \in 1 .. end - polyStart : holes[i] = vtPolys[polyStart + i]
    <2>1. polyStart + 1 \in Int /\ end \in Int
      BY <1>1
    <2>2. \A q \in polyStart + 1 .. end : vtPolys[q] \in Ring
      <3>1. \A q \in polyStart + 1 .. end : q \in polyStart .. end
        BY <1>1
      <3> QED BY <1>3, <3>1
    <2>3. /\ holes \in Seq(Ring)
          /\ Len(holes) = IF polyStart + 1 <= end THEN end - (polyStart + 1) + 1 ELSE 0
          /\ \A i \in 1 .. end - (polyStart + 1) + 1 : holes[i] = vtPolys[(polyStart + 1) + i - 1]
      BY <2>1, <2>2, SubSeqProperties
    <2> HIDE DEF holes
    <2>4. Len(holes) = end - polyStart
      BY <1>1, <2>3
    <2>5. ASSUME NEW i \in 1 .. end - polyStart PROVE holes[i] = vtPolys[polyStart + i]
      <3>1. i \in 1 .. end - (polyStart + 1) + 1 /\ (polyStart + 1) + i - 1 = polyStart + i
        BY <1>1
      <3> QED BY <2>3, <3>1
    <2> QED BY <2>3, <2>4, <2>5
  <1>5. RingsIn(holes) = holes
    <2> HIDE DEF holes
    <2>1. DOMAIN holes = 1 .. end - polyStart
      BY <1>4, SeqIsSeq
    <2>2. ASSUME NEW i \in DOMAIN holes PROVE IsRing(holes[i])
      <3>1. polyStart + i \in DOMAIN vtPolys
        BY <1>1, <2>1
      <3> QED BY <1>4, <2>1, <3>1
    <2> QED BY <1>4, <2>2, RingsInTyped
  <1>6. poly = <<vtPolys[polyStart]>> \o holes
    BY SubSeqRecursiveFirst
  <1>7. PolygonUntil(end) = <<poly>>
    <2>1. IsRing(vtPolys[polyStart])
      BY <1>1
    <2> QED BY <1>5, <1>6, <2>1 DEF PolygonUntil, CreateOGRPolygon
  <1>8. poly \in Seq(Ring)
    BY <1>1, <1>3, SubSeqProperties
  <1>9. SubSeq(vtPolys, 1, polyStart - 1) \o poly = SubSeq(vtPolys, 1, end)
    <2>1. /\ 1 \in 1 .. Len(vtPolys) + 1 /\ polyStart - 1 \in 1 - 1 .. Len(vtPolys)
          /\ end \in polyStart - 1 .. Len(vtPolys) /\ (polyStart - 1) + 1 = polyStart
      BY <1>1
    <2>2. SubSeq(vtPolys, 1, polyStart - 1) \o SubSeq(vtPolys, (polyStart - 1) + 1, end) = SubSeq(vtPolys, 1, end)
      BY <2>1, ConcatAdjacentSubSeq
    <2> QED BY <2>1, <2>2
  <1> HIDE DEF poly, holes
  <1>10. polygons \o <<poly>> = Append(polygons, poly)
    BY <1>8, AppendIsConcat
  <1>11. AllSeqs(polygons) /\ IsSeq(poly)
    <2>1. IsSeq(polygons) /\ DOMAIN polygons = 1 .. Len(polygons)
      BY SeqIsSeq
    <2>2. \A i \in DOMAIN polygons : polygons[i] \in Seq(Ring)
      BY <2>1, ElementOfSeq
    <2> QED BY <1>8, <2>1, <2>2, SeqIsSeq DEF AllSeqs
  <1>12. FlattenSeq(Append(polygons, poly)) = FlattenSeq(polygons) \o poly
    BY <1>11, FlattenAppend
  <1> QED BY <1>7, <1>9, <1>10, <1>12

\* One more ring is looked at.
LEMMA NextRingGroups ==
  ASSUME TileInv, GroupInv, NextRing
  PROVE  GroupInv'
PROOF
  <1>1. /\ pc = "rings" /\ p <= Len(vtPolys) /\ p' = p + 1 /\ vtPolys' = vtPolys
        /\ \/ StartsPolygon /\ polygons' = polygons \o PolygonUntil(p - 1) /\ polyStart' = p
           \/ ~StartsPolygon /\ polygons' = polygons /\ polyStart' = polyStart
    BY DEF NextRing, reader
  <1>2. /\ p \in 1 .. Len(vtPolys) + 1 /\ polyStart \in 1 .. p
        /\ vtPolys \in Seq(Ring) /\ polygons \in Seq(Seq(Ring)) /\ Len(vtPolys) \in Nat
    BY SeqIsSeq DEF TileInv, TypeOK
  <1>3. /\ polyStart # 1 => Area(vtPolys[polyStart]) < 0
        /\ \A q \in polyStart + 1 .. p - 1 : Area(vtPolys[q]) >= 0
        /\ polyStart = 1 => polygons = <<>>
        /\ WellTurned(polygons)
        /\ RingsInOrder
    BY <1>1 DEF GroupInv
  <1>4. vtPolys[p] \in Ring /\ Area(vtPolys[p]) \in Int
    <2>1. p \in 1 .. Len(vtPolys)
      BY <1>1, <1>2
    <2> QED BY <1>2, <2>1, ElementOfSeq, AreaIsNumber
  <1>5. CASE StartsPolygon /\ polygons' = polygons \o PolygonUntil(p - 1) /\ polyStart' = p
    <2>1. p > polyStart /\ Area(vtPolys[p]) < 0
      BY <1>5 DEF StartsPolygon
    <2>2. /\ p - 1 \in polyStart .. Len(vtPolys) /\ polyStart \in 1 .. Len(vtPolys) /\ p # 1
          /\ p' - 1 = p
      BY <1>1, <1>2, <2>1
    <2>3. polygons # <<>> => Area(vtPolys[polyStart]) < 0
      BY <1>3
    <2>4. WellTurned(polygons \o PolygonUntil(p - 1))
      BY <1>2, <1>3, <2>2, <2>3, PolygonsTurned
    <2>5. (\A i \in DOMAIN vtPolys : IsRing(vtPolys[i])) =>
             FlattenSeq(polygons \o PolygonUntil(p - 1)) = SubSeq(vtPolys, 1, p - 1)
      <3>1. ASSUME \A i \in DOMAIN vtPolys : IsRing(vtPolys[i])
            PROVE  FlattenSeq(polygons) = SubSeq(vtPolys, 1, polyStart - 1)
        BY <1>1, <1>3, <3>1 DEF RingsInOrder
      <3> QED BY <1>2, <2>2, <3>1, RingsJoined
    <2>6. RingsInOrder'
      BY <1>1, <1>5, <2>5 DEF RingsInOrder
    <2>7. \A q \in polyStart' + 1 .. p' - 1 : Area(vtPolys'[q]) >= 0
      BY <1>2, <1>5, <2>2
    <2>8. WellTurned(polygons')
      BY <1>5, <2>4
    <2>9. polyStart' # 1 /\ Area(vtPolys'[polyStart']) < 0
      BY <1>1, <1>5, <2>1, <2>2
    <2> QED BY <2>6, <2>7, <2>8, <2>9 DEF GroupInv
  <1>6. CASE ~StartsPolygon /\ polygons' = polygons /\ polyStart' = polyStart
    <2>1. \A q \in polyStart' + 1 .. p' - 1 : Area(vtPolys'[q]) >= 0
      <3>1. \A q \in polyStart + 1 .. p : q \in polyStart + 1 .. p - 1 \/ (q = p /\ p > polyStart)
        BY <1>2
      <3>2. p > polyStart => Area(vtPolys[p]) >= 0
        BY <1>4, <1>6 DEF StartsPolygon
      <3>3. p' - 1 = p
        BY <1>1, <1>2
      <3>4. \A q \in polyStart + 1 .. p : Area(vtPolys[q]) >= 0
        BY <1>3, <3>1, <3>2
      <3> QED BY <1>1, <1>6, <3>3, <3>4
    <2>2. RingsInOrder'
      BY <1>1, <1>3, <1>6 DEF RingsInOrder
    <2>3. WellTurned(polygons')
      BY <1>3, <1>6
    <2>4. /\ polyStart' # 1 => Area(vtPolys'[polyStart']) < 0
          /\ polyStart' = 1 => polygons' = <<>>
      BY <1>1, <1>3, <1>6
    <2> QED BY <2>1, <2>2, <2>3, <2>4 DEF GroupInv
  <1> QED BY <1>1, <1>5, <1>6

LEMMA GroupKept ==
  ASSUME TileInv, GroupInv, [AnyStep]_vars
  PROVE  GroupInv'
PROOF
  <1>1. CASE NextRing
    BY <1>1, NextRingGroups
  <1>2. CASE BeginRings
    <2>1. /\ pc' = "rings" /\ polygons' = <<>> /\ p' = 1 /\ polyStart' = 1
      BY <1>2 DEF BeginRings, TileInv, NothingGrouped, rings
    <2>2. \A q \in polyStart' + 1 .. p' - 1 : FALSE
      BY <2>1
    <2>3. WellTurned(polygons')
      BY <2>1 DEF WellTurned
    <2>4. RingsInOrder'
      <3>1. SubSeq(vtPolys', 1, polyStart' - 1) = <<>>
        <4>1. polyStart' - 1 = 0 /\ 0 \in Int /\ 1 \in Int /\ 0 < 1
          BY <2>1
        <4> QED BY <4>1, SubSeqEmpty
      <3> QED BY <2>1, <3>1, FlattenNothing DEF RingsInOrder
    <2> QED BY <2>1, <2>2, <2>3, <2>4 DEF GroupInv
  <1>3. CASE pc' # "rings"
    BY <1>3 DEF GroupInv
  <1>4. CASE UNCHANGED vars
    <2>1. UNCHANGED <<pc, p, polyStart, polygons, vtPolys>>
      BY <1>4 DEF vars, rings, reader
    <2>2. WellTurned(polygons) => WellTurned(polygons')
      BY <2>1
    <2>3. RingsInOrder => RingsInOrder'
      BY <2>1 DEF RingsInOrder
    <2> QED BY <2>1, <2>2, <2>3 DEF GroupInv
  <1>5. ASSUME AnyStep, ~NextRing, ~BeginRings PROVE pc' # "rings"
    BY <1>5 DEF AnyStep, Open, Release, Destroy, Converting, NoTile, EmptyTile, OpenTile, InflateBlock,
       UnpackFails, ParseTile, BeginLayer, Converted, ReadNothing, ReadVertex, ReadBeyond, ReadClose,
       UnknownCommand, ReadTags, ReadTagsBeyond, UnknownType, CreateFeatureFails, ConvertPoints,
       ConvertLines, AddNoLine, ConvertPolygons, CreateFeature, Fail, Reading, ReadAll, Drawing
  <1> QED BY <1>1, <1>2, <1>3, <1>4, <1>5

-----------------------------------------------------------------------------
(* The numbers of a shape, by their positions.                             *)

LEMMA ConcatPlaces ==
  ASSUME NEW a, NEW b, IsSeq(a), IsSeq(b)
  PROVE  /\ IsSeq(a \o b) /\ Len(a \o b) = Len(a) + Len(b)
         /\ Len(a) \in Nat /\ Len(b) \in Nat
         /\ \A i \in 1 .. Len(a) : (a \o b)[i] = a[i]
         /\ \A i \in 1 .. Len(b) : (a \o b)[Len(a) + i] = b[i]
PROOF
  <1>1. DOMAIN a = 1 .. Len(a) /\ Len(a) \in Nat /\ DOMAIN b = 1 .. Len(b) /\ Len(b) \in Nat
    BY IsSeqDomain
  <1> QED BY <1>1, ConcatIsSeq, ConcatAt

\* Pairs, one after the other.
LEMMA PairsAt ==
  ASSUME NEW n \in Nat, NEW seqs, IsSeq(seqs), Len(seqs) = n,
         \A i \in 1 .. n : IsSeq(seqs[i]) /\ Len(seqs[i]) = 2
  PROVE  /\ IsSeq(FlattenSeq(seqs)) /\ Len(FlattenSeq(seqs)) = 2 * n
         /\ \A i \in 1 .. n : /\ FlattenSeq(seqs)[2 * i - 1] = seqs[i][1]
                              /\ FlattenSeq(seqs)[2 * i] = seqs[i][2]
PROOF
  <1> DEFINE T == {i \in 0 .. n : Upto(seqs, i) = 2 * i}
             u(i) == Upto(seqs, i)
  <1>1. AllSeqs(seqs) /\ DOMAIN seqs = 1 .. n
    BY IsSeqDomain DEF AllSeqs
  <1>2. u(0) = 0 /\ \A i \in 1 .. n : u(i) = u(i - 1) + 2
    BY <1>1, JoinedSteps
  <1> HIDE DEF u
  <1>3. 0 \in {i \in 0 .. n : u(i) = 2 * i}
    BY <1>2
  <1>4. ASSUME NEW i \in 1 .. n, i - 1 \in {q \in 0 .. n : u(q) = 2 * q}
        PROVE  i \in {q \in 0 .. n : u(q) = 2 * q}
    BY <1>2, <1>4
  <1>5. \A i \in 0 .. n : u(i) = 2 * i
    <2>1. \A i \in 0 .. n : i \in {q \in 0 .. n : u(q) = 2 * q}
      BY <1>3, <1>4, OneByOne
    <2> QED BY <2>1
  <1>6. IsSeq(FlattenSeq(seqs)) /\ Len(FlattenSeq(seqs)) = u(n)
    BY <1>1, FlattenAt DEF u
  <1>7. ASSUME NEW i \in 1 .. n
        PROVE  FlattenSeq(seqs)[2 * i - 1] = seqs[i][1] /\ FlattenSeq(seqs)[2 * i] = seqs[i][2]
    <2>1. 1 \in DOMAIN seqs[i] /\ 2 \in DOMAIN seqs[i]
      <3>1. DOMAIN seqs[i] = 1 .. 2
        BY IsSeqDomain
      <3> QED BY <3>1
    <2>2. FlattenSeq(seqs)[u(i - 1) + 1] = seqs[i][1] /\ FlattenSeq(seqs)[u(i - 1) + 2] = seqs[i][2]
      <3>1. \A m \in DOMAIN seqs[i] : FlattenSeq(seqs)[Upto(seqs, i - 1) + m] = seqs[i][m]
        BY <1>1, FlattenAt
      <3> QED BY <2>1, <3>1 DEF u
    <2>3. u(i - 1) + 1 = 2 * i - 1 /\ u(i - 1) + 2 = 2 * i
      <3>1. i - 1 \in 0 .. n
        OBVIOUS
      <3>2. u(i - 1) = 2 * (i - 1)
        BY <1>5, <3>1
      <3> QED BY <3>2
    <2> QED BY <2>2, <2>3
  <1> QED BY <1>5, <1>6, <1>7

\* The numbers of a path: the move, its step, the line, its steps, and the end.
IsPath(numbers, start, path, end) ==
  /\ IsSeq(numbers) /\ Len(numbers) = 2 * Len(path) + 2 + Len(end)
  /\ numbers[1] = Word(SEG_MOVETO, 1)
  /\ numbers[2] = ZigZag(path[1][1] - start[1])
  /\ numbers[3] = ZigZag(path[1][2] - start[2])
  /\ numbers[4] = Word(SEG_LINETO, Len(path) - 1)
  /\ \A v \in 1 .. Len(path) - 1 :
       /\ numbers[2 * v + 3] = ZigZag(path[v + 1][1] - path[v][1])
       /\ numbers[2 * v + 4] = ZigZag(path[v + 1][2] - path[v][2])
  /\ \A i \in 1 .. Len(end) : numbers[2 * Len(path) + 2 + i] = end[i]

LEMMA PathAt ==
  ASSUME NEW path \in Ring, Len(path) >= 2, NEW start, NEW end, IsSeq(end)
  PROVE  IsPath(Path(start, path, end), start, path, end)
PROOF
  <1> DEFINE n == Len(path) - 1
             a == <<Word(SEG_MOVETO, 1)>>
             b == Step(start, path[1])
             c == <<Word(SEG_LINETO, n)>>
             steps == [i \in 1 .. n |-> Step(path[i], path[i + 1])]
             d == FlattenSeq(steps)
             ab == a \o b
             abc == ab \o c
             abcd == abc \o d
             all == abcd \o end
  <1>1. n \in Nat /\ n >= 1 /\ Len(path) = n + 1
    BY SeqIsSeq DEF Ring
  <1>2. \A from, to : /\ IsSeq(Step(from, to)) /\ Len(Step(from, to)) = 2
                      /\ Step(from, to)[1] = ZigZag(to[1] - from[1])
                      /\ Step(from, to)[2] = ZigZag(to[2] - from[2])
    <2> TAKE from, to
    <2> DEFINE s == Step(from, to)
    <2>1. s \in Seq({ZigZag(to[1] - from[1]), ZigZag(to[2] - from[2])}) /\ Len(s) = 2
      BY DEF Step
    <2>2. s[1] = ZigZag(to[1] - from[1]) /\ s[2] = ZigZag(to[2] - from[2])
      BY DEF Step
    <2> HIDE DEF s
    <2>3. IsSeq(s)
      BY <2>1, SeqIsSeq
    <2> QED BY <2>1, <2>2, <2>3 DEF s
  <1>3. \A e : IsSeq(<<e>>) /\ Len(<<e>>) = 1 /\ <<e>>[1] = e
    <2> TAKE e
    <2>1. <<e>> \in Seq({e}) /\ Len(<<e>>) = 1 /\ <<e>>[1] = e
      OBVIOUS
    <2> QED BY <2>1, SeqIsSeq
  <1>4. /\ IsSeq(a) /\ Len(a) = 1 /\ a[1] = Word(SEG_MOVETO, 1)
        /\ IsSeq(b) /\ Len(b) = 2 /\ b[1] = ZigZag(path[1][1] - start[1]) /\ b[2] = ZigZag(path[1][2] - start[2])
        /\ IsSeq(c) /\ Len(c) = 1 /\ c[1] = Word(SEG_LINETO, n)
    BY <1>2, <1>3
  <1>5. IsSeq(steps) /\ Len(steps) = n /\ \A i \in 1 .. n : steps[i] = Step(path[i], path[i + 1])
    <2>1. steps \in [1 .. n -> {steps[i] : i \in 1 .. n}] /\ \A i \in 1 .. n : steps[i] = Step(path[i], path[i + 1])
      OBVIOUS
    <2> HIDE DEF steps, n
    <2> QED BY <1>1, <2>1, CountedIsSeq
  <1>6. Path(start, path, end) = all
    BY DEF Path
  <1> HIDE DEF steps, n, a, b, c
  <1>7. /\ IsSeq(d) /\ Len(d) = 2 * n
        /\ \A i \in 1 .. n : /\ d[2 * i - 1] = ZigZag(path[i + 1][1] - path[i][1])
                             /\ d[2 * i] = ZigZag(path[i + 1][2] - path[i][2])
    <2>1. \A i \in 1 .. n : IsSeq(steps[i]) /\ Len(steps[i]) = 2
      BY <1>2, <1>5
    <2>2. /\ IsSeq(d) /\ Len(d) = 2 * n
          /\ \A i \in 1 .. n : d[2 * i - 1] = steps[i][1] /\ d[2 * i] = steps[i][2]
      BY <1>1, <1>5, <2>1, PairsAt
    <2> QED BY <1>2, <1>5, <2>2
  <1> HIDE DEF d
  <1>8. IsSeq(ab) /\ Len(ab) = 3 /\ ab[1] = a[1] /\ ab[2] = b[1] /\ ab[3] = b[2]
    <2>1. /\ IsSeq(ab) /\ Len(ab) = Len(a) + Len(b)
          /\ \A i \in 1 .. Len(a) : ab[i] = a[i]
          /\ \A i \in 1 .. Len(b) : ab[Len(a) + i] = b[i]
      <3>1. IsSeq(a) /\ IsSeq(b)
        BY <1>4
      <3> QED BY <3>1, ConcatPlaces
    <2> HIDE DEF ab
    <2> QED BY <1>4, <2>1
  <1> HIDE DEF ab
  <1>9. IsSeq(abc) /\ Len(abc) = 4 /\ (\A i \in 1 .. 3 : abc[i] = ab[i]) /\ abc[4] = c[1]
    <2>1. /\ IsSeq(abc) /\ Len(abc) = Len(ab) + Len(c)
          /\ \A i \in 1 .. Len(ab) : abc[i] = ab[i]
          /\ \A i \in 1 .. Len(c) : abc[Len(ab) + i] = c[i]
      <3>1. IsSeq(ab) /\ IsSeq(c)
        BY <1>4, <1>8
      <3> QED BY <3>1, ConcatPlaces
    <2> HIDE DEF abc
    <2> QED BY <1>4, <1>8, <2>1
  <1> HIDE DEF abc
  <1>10. /\ IsSeq(abcd) /\ Len(abcd) = 4 + 2 * n
         /\ (\A i \in 1 .. 4 : abcd[i] = abc[i]) /\ \A i \in 1 .. 2 * n : abcd[4 + i] = d[i]
    <2>1. /\ IsSeq(abcd) /\ Len(abcd) = Len(abc) + Len(d)
          /\ \A i \in 1 .. Len(abc) : abcd[i] = abc[i]
          /\ \A i \in 1 .. Len(d) : abcd[Len(abc) + i] = d[i]
      <3>1. IsSeq(abc) /\ IsSeq(d)
        BY <1>7, <1>9
      <3> QED BY <3>1, ConcatPlaces
    <2> HIDE DEF abcd
    <2> QED BY <1>7, <1>9, <2>1
  <1> HIDE DEF abcd
  <1>11. /\ IsSeq(all) /\ Len(all) = 4 + 2 * n + Len(end) /\ Len(end) \in Nat
         /\ (\A i \in 1 .. 4 + 2 * n : all[i] = abcd[i]) /\ \A i \in 1 .. Len(end) : all[4 + 2 * n + i] = end[i]
    <2>1. /\ IsSeq(all) /\ Len(all) = Len(abcd) + Len(end) /\ Len(end) \in Nat
          /\ \A i \in 1 .. Len(abcd) : all[i] = abcd[i]
          /\ \A i \in 1 .. Len(end) : all[Len(abcd) + i] = end[i]
      <3>1. IsSeq(abcd) /\ IsSeq(end)
        BY <1>10
      <3> QED BY <3>1, ConcatPlaces
    <2> HIDE DEF all
    <2> QED BY <1>10, <2>1
  <1> HIDE DEF all
  <1>12. all[1] = a[1] /\ all[2] = b[1] /\ all[3] = b[2] /\ all[4] = c[1]
    <2>1. \A i \in 1 .. 4 : i \in 1 .. 4 + 2 * n
      BY <1>1
    <2>2. \A i \in 1 .. 4 : all[i] = abc[i]
      BY <1>10, <1>11, <2>1
    <2> QED BY <1>8, <1>9, <2>2
  <1>13. ASSUME NEW v \in 1 .. n
         PROVE  /\ all[2 * v + 3] = ZigZag(path[v + 1][1] - path[v][1])
                /\ all[2 * v + 4] = ZigZag(path[v + 1][2] - path[v][2])
    <2>1. /\ 2 * v - 1 \in 1 .. 2 * n /\ 2 * v \in 1 .. 2 * n
          /\ 4 + (2 * v - 1) = 2 * v + 3 /\ 4 + 2 * v = 2 * v + 4
          /\ 2 * v + 3 \in 1 .. 4 + 2 * n /\ 2 * v + 4 \in 1 .. 4 + 2 * n
      BY <1>1
    <2>2. all[2 * v + 3] = d[2 * v - 1] /\ all[2 * v + 4] = d[2 * v]
      BY <1>10, <1>11, <2>1
    <2> QED BY <1>7, <2>2
  <1>14. \A i \in 1 .. Len(end) : all[2 * Len(path) + 2 + i] = end[i]
    <2>1. 4 + 2 * n = 2 * Len(path) + 2
      BY <1>1
    <2> QED BY <1>11, <2>1
  <1>15. Len(all) = 2 * Len(path) + 2 + Len(end)
    BY <1>1, <1>11
  <1>16. n = Len(path) - 1
    BY DEF n
  <1> QED BY <1>4, <1>6, <1>11, <1>12, <1>13, <1>14, <1>15, <1>16 DEF IsPath

\* What is written is read again.
LEMMA NumbersRead ==
  /\ \A n \in Int : ZigZag(n) \in Nat /\ ZigZagUint32ToInt32(ZigZag(n)) = n
  /\ \A command \in 0 .. 7 : \A n \in Nat :
       Word(command, n) \in Nat /\ Word(command, n) % 8 = command /\ Word(command, n) \div 8 = n
PROOF
  BY DEF ZigZag, ZigZagUint32ToInt32, Word

Chunks(paths, end) == [j \in DOMAIN paths |-> Path(StartOf(paths, j), paths[j], end)]

Drawable(paths) == paths \in Seq(Ring) /\ \A j \in DOMAIN paths : Len(paths[j]) >= 2

LEMMA ChunksTyped ==
  ASSUME NEW paths, Drawable(paths), NEW end, IsSeq(end)
  PROVE  /\ AllSeqs(Chunks(paths, end)) /\ Len(Chunks(paths, end)) = Len(paths) /\ Len(paths) \in Nat
         /\ \A j \in 1 .. Len(paths) :
              /\ paths[j] \in Ring /\ Len(paths[j]) \in Nat /\ Len(paths[j]) >= 2
              /\ Chunks(paths, end)[j] = Path(StartOf(paths, j), paths[j], end)
              /\ Len(Chunks(paths, end)[j]) = 2 * Len(paths[j]) + 2 + Len(end)
PROOF
  <1> DEFINE chunks == Chunks(paths, end)
             n == Len(paths)
  <1>1. n \in Nat /\ DOMAIN paths = 1 .. n
    BY SeqIsSeq DEF Drawable
  <1>2. \A j \in 1 .. n : paths[j] \in Ring /\ Len(paths[j]) \in Nat /\ Len(paths[j]) >= 2
    <2>1. \A j \in 1 .. n : paths[j] \in Ring /\ Len(paths[j]) >= 2
      BY <1>1, ElementOfSeq DEF Drawable
    <2> QED BY <2>1, SeqIsSeq DEF Ring
  <1>3. \A j \in 1 .. n : chunks[j] = Path(StartOf(paths, j), paths[j], end)
    BY <1>1 DEF Chunks
  <1>4. chunks \in [1 .. n -> {chunks[j] : j \in 1 .. n}]
    BY <1>1 DEF Chunks
  <1> HIDE DEF chunks, n
  <1>5. IsSeq(chunks) /\ Len(chunks) = n
    BY <1>1, <1>4, CountedIsSeq
  <1>6. \A j \in 1 .. n : IsSeq(chunks[j]) /\ Len(chunks[j]) = 2 * Len(paths[j]) + 2 + Len(end)
    <2> TAKE j \in 1 .. n
    <2>1. paths[j] \in Ring /\ Len(paths[j]) >= 2
      BY <1>2
    <2>2. /\ IsSeq(Path(StartOf(paths, j), paths[j], end))
          /\ Len(Path(StartOf(paths, j), paths[j], end)) = 2 * Len(paths[j]) + 2 + Len(end)
      BY <2>1, PathAt DEF IsPath
    <2> QED BY <1>3, <2>2
  <1>7. AllSeqs(chunks)
    <2>1. DOMAIN chunks = 1 .. n
      BY <1>5, IsSeqDomain
    <2> QED BY <1>5, <1>6, <2>1 DEF AllSeqs
  <1> QED BY <1>1, <1>2, <1>3, <1>5, <1>6, <1>7 DEF chunks, n

\* Where the numbers of a path begin in those of all paths, and which they are.
Before(paths, end, j) == Upto(Chunks(paths, end), j - 1)

LEMMA PathsAt ==
  ASSUME NEW paths, Drawable(paths), NEW end, IsSeq(end)
  PROVE  /\ Before(paths, end, 1) = 0 /\ Len(Paths(paths, end)) \in Nat
         /\ Before(paths, end, Len(paths) + 1) = Len(Paths(paths, end))
         /\ \A j \in 1 .. Len(paths) :
              /\ Before(paths, end, j) \in Nat
              /\ Before(paths, end, j + 1) = Before(paths, end, j) + 2 * Len(paths[j]) + 2 + Len(end)
              /\ Before(paths, end, j + 1) <= Len(Paths(paths, end))
              /\ \A i \in 1 .. 2 * Len(paths[j]) + 2 + Len(end) :
                   Paths(paths, end)[Before(paths, end, j) + i] = Path(StartOf(paths, j), paths[j], end)[i]
PROOF
  <1> DEFINE chunks == Chunks(paths, end)
             n == Len(paths)
             numbers == Paths(paths, end)
             u(j) == Upto(chunks, j)
  <1>1. /\ AllSeqs(chunks) /\ Len(chunks) = n /\ n \in Nat
        /\ \A j \in 1 .. n :
             /\ paths[j] \in Ring /\ Len(paths[j]) \in Nat /\ Len(paths[j]) >= 2
             /\ chunks[j] = Path(StartOf(paths, j), paths[j], end)
             /\ Len(chunks[j]) = 2 * Len(paths[j]) + 2 + Len(end)
    BY ChunksTyped
  <1>2. numbers = FlattenSeq(chunks)
    BY DEF Paths, Chunks
  <1> HIDE DEF chunks, n, numbers
  <1>3. AllSeqs(chunks) /\ Len(chunks) = n
    BY <1>1
  <1>4. /\ u(0) = 0 /\ Len(numbers) = u(n)
        /\ \A j \in 1 .. n : u(j) = u(j - 1) + Len(chunks[j])
        /\ \A j \in 0 .. n : u(j) \in Nat
    BY <1>2, <1>3, JoinedSteps, FlattenAt
  <1>5. \A j \in 0 .. n : u(j) <= u(n)
    <2>1. \A j \in 0 .. n : n \in 0 .. n /\ j <= n
      BY <1>1
    <2> QED BY <1>3, <2>1, EndsInOrder
  <1>6. \A j \in 1 .. n : \A i \in 1 .. Len(chunks[j]) : numbers[u(j - 1) + i] = chunks[j][i]
    <2>1. \A j \in 1 .. n : IsSeq(chunks[j]) /\ DOMAIN chunks[j] = 1 .. Len(chunks[j])
      <3>1. DOMAIN chunks = 1 .. n
        BY <1>3, IsSeqDomain DEF AllSeqs
      <3> QED BY <1>3, <3>1, IsSeqDomain DEF AllSeqs
    <2> QED BY <1>2, <1>3, <2>1, FlattenAt
  <1>7. \A j : Before(paths, end, j) = u(j - 1)
    BY DEF Before, chunks
  <1> HIDE DEF u
  <1>8. Before(paths, end, 1) = 0 /\ Before(paths, end, n + 1) = Len(numbers) /\ Len(numbers) \in Nat
    <2>1. 1 - 1 = 0 /\ (n + 1) - 1 = n /\ n \in 0 .. n
      BY <1>1
    <2> QED BY <1>4, <1>7, <2>1
  <1>9. ASSUME NEW j \in 1 .. n
        PROVE  /\ Before(paths, end, j) \in Nat
               /\ Before(paths, end, j + 1) = Before(paths, end, j) + 2 * Len(paths[j]) + 2 + Len(end)
               /\ Before(paths, end, j + 1) <= Len(numbers)
               /\ \A i \in 1 .. 2 * Len(paths[j]) + 2 + Len(end) :
                    numbers[Before(paths, end, j) + i] = Path(StartOf(paths, j), paths[j], end)[i]
    <2>1. (j + 1) - 1 = j /\ j - 1 \in 0 .. n /\ j \in 0 .. n
      BY <1>1
    <2>2. Before(paths, end, j + 1) = u(j) /\ Before(paths, end, j) = u(j - 1)
      BY <1>7, <2>1
    <2>3. u(j - 1) \in Nat /\ u(j) = u(j - 1) + Len(chunks[j]) /\ u(j) <= Len(numbers)
      BY <1>4, <1>5, <2>1
    <2>4. /\ chunks[j] = Path(StartOf(paths, j), paths[j], end)
          /\ Len(chunks[j]) = 2 * Len(paths[j]) + 2 + Len(end) /\ Len(paths[j]) \in Nat
      BY <1>1
    <2>5. \A i \in 1 .. Len(chunks[j]) : numbers[u(j - 1) + i] = chunks[j][i]
      BY <1>6
    <2>6. Len(end) \in Nat
      BY IsSeqDomain
    <2>7. Before(paths, end, j + 1) = Before(paths, end, j) + 2 * Len(paths[j]) + 2 + Len(end)
      BY <2>2, <2>3, <2>4, <2>6
    <2> QED BY <2>2, <2>3, <2>4, <2>5, <2>7
  <1> QED BY <1>8, <1>9 DEF n, numbers

\* The numbers of one path among all of them.
Among(numbers, paths, end, j) ==
  /\ Before(paths, end, j) \in Nat /\ Len(numbers) \in Nat
  /\ Before(paths, end, j + 1) = Before(paths, end, j) + 2 * Len(paths[j]) + 2 + Len(end)
  /\ Before(paths, end, j + 1) <= Len(numbers)
  /\ \A i \in 1 .. 2 * Len(paths[j]) + 2 + Len(end) :
       numbers[Before(paths, end, j) + i] = Path(StartOf(paths, j), paths[j], end)[i]

LEMMA PathAmong ==
  ASSUME NEW paths, Drawable(paths), NEW end, IsSeq(end), NEW j \in 1 .. Len(paths)
  PROVE  Among(Paths(paths, end), paths, end, j)
PROOF
  BY PathsAt DEF Among

-----------------------------------------------------------------------------
(* The decoder on the way through the numbers of a shape.                  *)

NextVertex ==
  <<cursor[1] + ZigZagUint32ToInt32(Geometry[Command.at]),
    cursor[2] + ZigZagUint32ToInt32(Geometry[Command.at + 1])>>

\* A coordinate that was written as a step is found again.
LEMMA StepTaken ==
  ASSUME NEW from \in Int \X Int, NEW to \in Int \X Int, cursor = from,
         NEW at, Command.at = at,
         Geometry[at] = ZigZag(to[1] - from[1]), Geometry[at + 1] = ZigZag(to[2] - from[2])
  PROVE  NextVertex = to
PROOF
  <1> DEFINE d == to[1] - from[1]
             e == to[2] - from[2]
  <1>1. d \in Int /\ e \in Int /\ from[1] + d = to[1] /\ from[2] + e = to[2]
    OBVIOUS
  <1>2. Geometry[at] = ZigZag(d) /\ Geometry[at + 1] = ZigZag(e)
    OBVIOUS
  <1> HIDE DEF d, e
  <1>3. ZigZagUint32ToInt32(Geometry[at]) = d /\ ZigZagUint32ToInt32(Geometry[at + 1]) = e
    BY <1>1, <1>2, NumbersRead
  <1>4. NextVertex = <<to[1], to[2]>>
    BY <1>1, <1>3 DEF NextVertex
  <1> QED BY <1>4

LEMMA CommandBegins ==
  ASSUME length = 0, NEW c \in 0 .. 7, NEW n \in Nat, Geometry[k] = Word(c, n)
  PROVE  Command.cmd = c /\ Command.length = n /\ Command.at = k + 1
PROOF
  BY NumbersRead DEF Command

\* The move to the first vertex of a path.
LEMMA MoveRead ==
  ASSUME NEW paths, Drawable(paths), NEW end, IsSeq(end), Geometry = Paths(paths, end),
         NEW j \in 1 .. Len(paths), k = Before(paths, end, j) + 1, length = 0,
         cursor \in Int \X Int, cursor = StartOf(paths, j)
  PROVE  /\ Command.cmd = SEG_MOVETO /\ Command.length = 1 /\ Command.at = k + 1
         /\ k + 2 <= Len(Geometry) /\ NextVertex = paths[j][1]
PROOF
  <1> DEFINE path == paths[j]
             b == Before(paths, end, j)
             numbers == Path(StartOf(paths, j), path, end)
             l == Len(path)
  <1>1. /\ path \in Ring /\ l \in Nat /\ l >= 2 /\ Len(end) \in Nat
    BY ChunksTyped, IsSeqDomain
  <1>2. /\ b \in Nat /\ Before(paths, end, j + 1) = b + 2 * l + 2 + Len(end)
        /\ Before(paths, end, j + 1) <= Len(Geometry)
        /\ \A i \in 1 .. 2 * l + 2 + Len(end) : Geometry[b + i] = numbers[i]
    <2>1. Among(Geometry, paths, end, j)
      BY PathAmong
    <2> QED BY <2>1 DEF Among
  <1>3. /\ numbers[1] = Word(SEG_MOVETO, 1)
        /\ numbers[2] = ZigZag(path[1][1] - cursor[1]) /\ numbers[3] = ZigZag(path[1][2] - cursor[2])
    <2>1. IsPath(numbers, cursor, path, end)
      BY <1>1, PathAt
    <2> QED BY <2>1 DEF IsPath
  <1>4. path[1] \in Int \X Int
    <2>1. 1 \in 1 .. l
      BY <1>1
    <2> QED BY <1>1, <2>1, ElementOfSeq DEF Ring
  <1> HIDE DEF path, b, numbers, l
  <1>5. /\ Geometry[k] = numbers[1] /\ Geometry[k + 1] = numbers[2] /\ Geometry[(k + 1) + 1] = numbers[3]
    <2>1. 1 \in 1 .. 2 * l + 2 + Len(end) /\ 2 \in 1 .. 2 * l + 2 + Len(end) /\ 3 \in 1 .. 2 * l + 2 + Len(end)
      BY <1>1
    <2>2. k = b + 1 /\ k + 1 = b + 2 /\ (k + 1) + 1 = b + 3
      BY <1>2 DEF b
    <2> QED BY <1>2, <2>1, <2>2
  <1>6. Command.cmd = SEG_MOVETO /\ Command.length = 1 /\ Command.at = k + 1
    <2>1. 1 \in 0 .. 7 /\ 1 \in Nat /\ SEG_MOVETO = 1
      BY DEF SEG_MOVETO
    <2>2. Geometry[k] = Word(1, 1)
      BY <1>3, <1>5, <2>1
    <2> QED BY <2>1, <2>2, CommandBegins
  <1>7. k + 2 <= Len(Geometry)
    <2>1. k = b + 1
      BY DEF b
    <2>2. b + 3 <= b + 2 * l + 2 + Len(end)
      BY <1>1, <1>2
    <2>3. Len(Geometry) \in Nat
      BY PathsAt
    <2> QED BY <1>1, <1>2, <2>1, <2>2, <2>3
  <1>8. NextVertex = path[1]
    BY <1>3, <1>4, <1>5, <1>6, StepTaken
  <1> QED BY <1>6, <1>7, <1>8 DEF path

\* The first elements of t, and no others.
FirstOf(s, t, n) == IsSeq(s) /\ Len(s) = n /\ \A i \in 1 .. n : s[i] = t[i]

\* The decoder has read all paths up to j, or the vertices of path j up to v.
Between(paths, end, j) ==
  /\ k = Before(paths, end, j + 1) + 1 /\ length = 0 /\ cursor = StartOf(paths, j + 1)
  /\ vtPoly = <<>> /\ FirstOf(vtPolys, paths, j)
AtVertex(paths, end, j, v) ==
  /\ k = Before(paths, end, j) + (IF v = 1 THEN 4 ELSE 2 * v + 3)
  /\ length = IF v = 1 THEN 0 ELSE Len(paths[j]) - v
  /\ v # 1 => cmd = SEG_LINETO
  /\ cursor = paths[j][v]
  /\ FirstOf(vtPoly, paths[j], v) /\ FirstOf(vtPolys, paths, j - 1)

\* The line to the next vertex.
LEMMA LineRead ==
  ASSUME NEW paths, Drawable(paths), NEW end, IsSeq(end), Geometry = Paths(paths, end),
         NEW j \in 1 .. Len(paths), NEW v \in 1 .. Len(paths[j]) - 1, AtVertex(paths, end, j, v)
  PROVE  /\ Command.cmd = SEG_LINETO /\ Command.length = Len(paths[j]) - v
         /\ Command.at = Before(paths, end, j) + (2 * v + 3)
         /\ Command.at + 1 <= Len(Geometry) /\ NextVertex = paths[j][v + 1]
PROOF
  <1> DEFINE path == paths[j]
             b == Before(paths, end, j)
             numbers == Path(StartOf(paths, j), path, end)
             l == Len(path)
             at == b + (2 * v + 3)
  <1>1. /\ path \in Ring /\ l \in Nat /\ l >= 2 /\ Len(end) \in Nat
    BY ChunksTyped, IsSeqDomain
  <1>2. /\ b \in Nat /\ Before(paths, end, j + 1) = b + 2 * l + 2 + Len(end)
        /\ Before(paths, end, j + 1) <= Len(Geometry) /\ Len(Geometry) \in Nat
        /\ \A i \in 1 .. 2 * l + 2 + Len(end) : Geometry[b + i] = numbers[i]
    <2>1. Among(Geometry, paths, end, j)
      BY PathAmong
    <2> QED BY <2>1 DEF Among
  <1>3. /\ numbers[4] = Word(SEG_LINETO, l - 1)
        /\ numbers[2 * v + 3] = ZigZag(path[v + 1][1] - path[v][1])
        /\ numbers[2 * v + 4] = ZigZag(path[v + 1][2] - path[v][2])
    <2>1. IsPath(numbers, StartOf(paths, j), path, end)
      BY <1>1, PathAt
    <2>2. v \in 1 .. l - 1
      OBVIOUS
    <2> HIDE DEF numbers, path
    <2> QED BY <2>1, <2>2 DEF IsPath
  <1>4. /\ k = b + (IF v = 1 THEN 4 ELSE 2 * v + 3) /\ length = (IF v = 1 THEN 0 ELSE l - v)
        /\ (v # 1 => cmd = SEG_LINETO) /\ cursor = path[v]
    BY DEF AtVertex
  <1>5. v \in 1 .. l - 1
    OBVIOUS
  <1> HIDE DEF path, b, numbers, l
  <1>6. path[v] \in Int \X Int /\ path[v + 1] \in Int \X Int
    <2>1. v \in 1 .. l /\ v + 1 \in 1 .. l
      BY <1>1, <1>5
    <2> QED BY <1>1, <2>1, ElementOfSeq DEF Ring, l
  <1>7. /\ Geometry[b + 4] = numbers[4]
        /\ Geometry[at] = numbers[2 * v + 3] /\ Geometry[at + 1] = numbers[2 * v + 4]
    <2>1. /\ 4 \in 1 .. 2 * l + 2 + Len(end) /\ 2 * v + 3 \in 1 .. 2 * l + 2 + Len(end)
          /\ 2 * v + 4 \in 1 .. 2 * l + 2 + Len(end)
      BY <1>1, <1>5
    <2>2. at + 1 = b + (2 * v + 4)
      BY <1>2, <1>5
    <2> QED BY <1>2, <2>1, <2>2
  <1>8. Command.cmd = SEG_LINETO /\ Command.length = l - v /\ Command.at = at
    <2>1. CASE v = 1
      <3>1. k = b + 4 /\ length = 0 /\ at = k + 1 /\ l - v = l - 1 /\ l - 1 \in Nat
        BY <1>1, <1>2, <1>4, <2>1
      <3>2. 2 \in 0 .. 7 /\ SEG_LINETO = 2
        BY DEF SEG_LINETO
      <3>3. Geometry[k] = Word(2, l - 1)
        BY <1>3, <1>7, <3>1, <3>2
      <3> QED BY <3>1, <3>2, <3>3, CommandBegins
    <2>2. CASE v # 1
      <3>1. k = at /\ length = l - v /\ length # 0 /\ cmd = SEG_LINETO
        BY <1>1, <1>4, <1>5, <2>2
      <3> QED BY <3>1 DEF Command
    <2> QED BY <2>1, <2>2
  <1>9. at + 1 <= Len(Geometry)
    <2>1. at + 1 = b + (2 * v + 4)
      BY <1>2, <1>5
    <2> HIDE DEF at
    <2> QED BY <1>1, <1>2, <1>5, <2>1
  <1>10. NextVertex = path[v + 1]
    BY <1>3, <1>4, <1>6, <1>7, <1>8, StepTaken
  <1> QED BY <1>8, <1>9, <1>10 DEF path, l, b

\* The end of a ring.
LEMMA CloseRead ==
  ASSUME NEW paths, Drawable(paths), NEW end, end = <<Word(SEG_CLOSE, 1)>>, Geometry = Paths(paths, end),
         NEW j \in 1 .. Len(paths), AtVertex(paths, end, j, Len(paths[j]))
  PROVE  /\ Command.cmd = SEG_CLOSE /\ Command.length = 1 /\ Command.at = k + 1
         /\ k = Before(paths, end, j + 1)
PROOF
  <1> DEFINE path == paths[j]
             b == Before(paths, end, j)
             numbers == Path(StartOf(paths, j), path, end)
             l == Len(path)
  <1>0. IsSeq(end) /\ Len(end) = 1 /\ end[1] = Word(SEG_CLOSE, 1)
    <2>1. end \in Seq({Word(SEG_CLOSE, 1)}) /\ Len(end) = 1 /\ end[1] = Word(SEG_CLOSE, 1)
      OBVIOUS
    <2> QED BY <2>1, SeqIsSeq
  <1>1. /\ path \in Ring /\ l \in Nat /\ l >= 2
    BY <1>0, ChunksTyped
  <1>2. /\ b \in Nat /\ Before(paths, end, j + 1) = b + 2 * l + 2 + Len(end)
        /\ \A i \in 1 .. 2 * l + 2 + Len(end) : Geometry[b + i] = numbers[i]
    <2>1. Among(Geometry, paths, end, j)
      BY <1>0, PathAmong
    <2> QED BY <2>1 DEF Among
  <1>3. numbers[2 * l + 2 + 1] = Word(SEG_CLOSE, 1)
    <2>1. \A i \in 1 .. Len(end) : numbers[2 * l + 2 + i] = end[i]
      <3>1. IsPath(numbers, StartOf(paths, j), path, end)
        BY <1>0, <1>1, PathAt
      <3> HIDE DEF numbers, path
      <3> QED BY <3>1 DEF IsPath
    <2> HIDE DEF numbers, l
    <2> QED BY <1>0, <2>1
  <1>4. k = b + (2 * l + 3) /\ length = 0
    BY <1>1 DEF AtVertex
  <1> HIDE DEF path, b, numbers, l
  <1>5. k = b + (2 * l + 2 + 1) /\ 2 * l + 2 + 1 \in 1 .. 2 * l + 2 + Len(end)
        /\ Before(paths, end, j + 1) = k
    BY <1>0, <1>1, <1>2, <1>4
  <1>6. Geometry[k] = Word(SEG_CLOSE, 1)
    BY <1>2, <1>3, <1>5
  <1>7. 7 \in 0 .. 7 /\ SEG_CLOSE = 7 /\ 1 \in Nat
    BY DEF SEG_CLOSE
  <1> QED BY <1>4, <1>5, <1>6, <1>7, CommandBegins

PathsHere == FlattenSeq(Feature.shape)
EndHere == PathEnd(Feature.type)

LEMMA EncodedHere ==
  ASSUME TileInv, pc \in OfFeature, Feature.shape # NoShape
  PROVE  Encoded(Feature) /\ Tagged(Layer, Feature)
PROOF
  <1>1. /\ layerIndex \in DOMAIN tile /\ featureIndex \in DOMAIN Layer.features
        /\ tile = <<>> \/ (place \in Places /\ tile \in Tiles[place])
    BY FeatureIsThere DEF TileInv
  <1>2. tile # <<>>
    BY <1>1, EmptyIsSeq
  <1>3. Feature = tile[layerIndex].features[featureIndex] /\ Layer = tile[layerIndex]
    BY DEF Feature, Layer
  <1> QED BY <1>1, <1>2, <1>3, EncodedAssumption, Zenon

\* The paths of a feature that is no point, and the numbers that stand for them.
LEMMA DrawnHere ==
  ASSUME TileInv, pc \in OfFeature, Feature.shape # NoShape, Feature.type # "POINT"
  PROVE  /\ Feature.type \in {"POLYGON", "LINESTRING"}
         /\ Feature.shape \in Seq(Seq(Ring)) /\ AllSeqs(Feature.shape)
         /\ Drawable(PathsHere) /\ Len(PathsHere) \in Nat /\ Len(PathsHere) >= 1
         /\ IsSeq(EndHere) /\ Len(EndHere) = IF Feature.type = "POLYGON" THEN 1 ELSE 0
         /\ Geometry = Paths(PathsHere, EndHere)
         /\ Feature.type = "POLYGON" => \A j \in DOMAIN PathsHere : IsRing(PathsHere[j])
         /\ Feature.type = "LINESTRING" => \A j \in DOMAIN PathsHere : IsLine(PathsHere[j])
PROOF
  <1> DEFINE shape == Feature.shape
             paths == PathsHere
             type == Feature.type
             S == {path \in Ring : IF type = "POLYGON" THEN IsRing(path) ELSE IsLine(path)}
  <1>1. /\ shape \in Seq(Seq(Ring)) /\ type \in {"POLYGON", "LINESTRING"}
        /\ type = "POLYGON" => \A i \in DOMAIN shape : PolygonPart(shape[i])
        /\ type = "LINESTRING" => \A i \in DOMAIN shape : LinePart(shape[i])
        /\ Geometry = Paths(PathsHere, EndHere)
    BY EncodedHere DEF Encoded, Geometry, PathsHere, EndHere
  <1>2. IsSeq(shape) /\ DOMAIN shape = 1 .. Len(shape) /\ Len(shape) \in Nat
    BY <1>1, SeqIsSeq
  <1>3. \A i \in DOMAIN shape : shape[i] \in Seq(Ring)
    BY <1>1, <1>2, ElementOfSeq
  <1>4. ASSUME NEW i \in DOMAIN shape
        PROVE  shape[i] \in Seq(S) /\ IsSeq(shape[i]) /\ 1 \in DOMAIN shape[i]
    <2>1. shape[i] \in Seq(Ring)
      BY <1>3
    <2>2. DOMAIN shape[i] = 1 .. Len(shape[i]) /\ Len(shape[i]) \in Nat /\ IsSeq(shape[i])
      BY <2>1, SeqIsSeq
    <2>3. \A m \in 1 .. Len(shape[i]) : shape[i][m] \in Ring
      BY <2>1, ElementOfSeq
    <2>4. Len(shape[i]) >= 1 /\ \A m \in 1 .. Len(shape[i]) : shape[i][m] \in S
      <3>1. CASE type = "POLYGON"
        <4>1. shape[i] # <<>> /\ \A m \in DOMAIN shape[i] : IsRing(shape[i][m])
          BY <1>1, <3>1 DEF PolygonPart
        <4>2. Len(shape[i]) # 0
          BY <2>1, <4>1, EmptySeq
        <4> QED BY <2>2, <2>3, <3>1, <4>1, <4>2
      <3>2. CASE type = "LINESTRING"
        <4>1. Len(shape[i]) = 1 /\ IsLine(shape[i][1])
          BY <1>1, <3>2 DEF LinePart
        <4>2. \A m \in 1 .. 1 : m = 1
          OBVIOUS
        <4> QED BY <2>3, <3>2, <4>1, <4>2
      <3> QED BY <1>1, <3>1, <3>2
    <2>5. shape[i] \in Seq(S)
      <3> DEFINE part == shape[i]
      <3>1. part \in [1 .. Len(part) -> S]
        <4>1. part = [m \in 1 .. Len(part) |-> part[m]]
          BY <2>1, <2>2, SeqDef
        <4> HIDE DEF S, part
        <4> QED BY <2>4, <4>1 DEF part
      <3> HIDE DEF S, part
      <3>2. Len(part) \in Nat
        BY <2>2 DEF part
      <3>3. part \in Seq(S)
        BY <3>1, <3>2, SeqDef
      <3> QED BY <3>3 DEF part
    <2> QED BY <2>2, <2>4, <2>5
  <1>5. AllSeqs(shape)
    BY <1>2, <1>4 DEF AllSeqs
  <1>6. paths \in Seq(S)
    <2> HIDE DEF S
    <2> QED BY <1>2, <1>4, FlattenTyped DEF PathsHere
  <1>7. Len(paths) \in Nat /\ DOMAIN paths = 1 .. Len(paths) /\ \A j \in DOMAIN paths : paths[j] \in S
    <2> HIDE DEF S, paths
    <2> QED BY <1>6, SeqIsSeq, ElementOfSeq
  <1>8. Len(paths) >= 1
    <2>1. Len(shape) # 0
      BY <1>1, EmptySeq DEF NoShape
    <2>2. 1 \in 1 .. Len(shape) /\ 1 \in DOMAIN shape[1]
      <3>1. 1 \in 1 .. Len(shape)
        BY <1>2, <2>1
      <3>2. 1 \in DOMAIN shape
        BY <1>2, <3>1
      <3> QED BY <1>4, <3>1, <3>2
    <2>3. Upto(shape, 1 - 1) + 1 \in DOMAIN paths
      BY <1>5, <2>2, FlattenAt DEF PathsHere
    <2> HIDE DEF paths
    <2> QED BY <1>7, <2>3
  <1>9. \A path \in S : path \in Ring /\ Len(path) >= 2
    <2> TAKE path \in S
    <2>1. path \in Ring /\ (Len(path) >= 3 \/ Len(path) >= 2)
      BY DEF IsRing, IsLine
    <2>2. Len(path) \in Nat
      BY <2>1, SeqIsSeq DEF Ring
    <2> QED BY <2>1, <2>2
  <1>10. Drawable(paths)
    <2>1. paths \in Seq(Ring)
      <3>1. S \subseteq Ring
        OBVIOUS
      <3> HIDE DEF S, paths
      <3> QED BY <1>6, <3>1, SeqMonotonic
    <2> HIDE DEF S
    <2> QED BY <1>7, <1>9, <2>1 DEF Drawable
  <1>11. IsSeq(EndHere) /\ Len(EndHere) = IF type = "POLYGON" THEN 1 ELSE 0
    <2>1. CASE type = "POLYGON"
      <3>1. EndHere \in Seq({Word(SEG_CLOSE, 1)}) /\ Len(EndHere) = 1
        BY <2>1 DEF EndHere, PathEnd
      <3> QED BY <2>1, <3>1, SeqIsSeq
    <2>2. CASE type # "POLYGON"
      BY <2>2, EmptyIsSeq DEF EndHere, PathEnd
    <2> QED BY <2>1, <2>2
  <1> QED BY <1>1, <1>5, <1>7, <1>8, <1>10, <1>11

\* While an encoded feature that is no point is read, the decoder is between two paths
\* or at a vertex of one.
DrawnInv ==
  pc = "read" /\ Feature.shape # NoShape /\ Feature.type # "POINT" =>
    \/ \E j \in 0 .. Len(PathsHere) :
         (Feature.type = "POLYGON" \/ j = 0) /\ Between(PathsHere, EndHere, j)
    \/ \E j \in 1 .. Len(PathsHere) : \E v \in 1 .. Len(PathsHere[j]) : AtVertex(PathsHere, EndHere, j, v)

\* What the decoder finds there: a path begins, or goes on, or ends.
Begins(j) ==
  /\ Command.cmd = SEG_MOVETO /\ Command.length = 1 /\ Command.at = Before(PathsHere, EndHere, j) + 2
  /\ Command.at + 1 <= Len(Geometry) /\ NextVertex = PathsHere[j][1]
  /\ \/ Between(PathsHere, EndHere, j - 1)
     \/ j # 1 /\ AtVertex(PathsHere, EndHere, j - 1, Len(PathsHere[j - 1]))
GoesOn(j, v) ==
  /\ AtVertex(PathsHere, EndHere, j, v)
  /\ Command.cmd = SEG_LINETO /\ Command.length = Len(PathsHere[j]) - v
  /\ Command.at = Before(PathsHere, EndHere, j) + (2 * v + 3)
  /\ Command.at + 1 <= Len(Geometry) /\ NextVertex = PathsHere[j][v + 1]
Ends(j) ==
  /\ Feature.type = "POLYGON" /\ AtVertex(PathsHere, EndHere, j, Len(PathsHere[j]))
  /\ Command.cmd = SEG_CLOSE /\ Command.length = 1
  /\ Command.at = Before(PathsHere, EndHere, j + 1) + 1

LEMMA TurnRead ==
  ASSUME TileInv, DrawnInv, pc = "read", Feature.shape # NoShape, Feature.type # "POINT",
         k <= Len(Geometry)
  PROVE  \/ \E j \in 1 .. Len(PathsHere) :
              Begins(j) \/ Ends(j) \/ \E v \in 1 .. Len(PathsHere[j]) - 1 : GoesOn(j, v)
PROOF
  <1> DEFINE paths == PathsHere
             end == EndHere
             n == Len(paths)
             came(j) == \/ Between(paths, end, j - 1)
                        \/ j # 1 /\ AtVertex(paths, end, j - 1, Len(paths[j - 1]))
             at(j) == k = Before(paths, end, j) + 1 /\ length = 0 /\ cursor = StartOf(paths, j)
  <1>1. /\ Feature.type \in {"POLYGON", "LINESTRING"}
        /\ Drawable(paths) /\ n \in Nat /\ n >= 1
        /\ IsSeq(end) /\ Len(end) = (IF Feature.type = "POLYGON" THEN 1 ELSE 0)
        /\ Geometry = Paths(paths, end)
    BY DrawnHere DEF OfFeature
  <1>2. cursor \in Int \X Int
    BY DEF TileInv, TypeOK
  <1>3. Before(paths, end, n + 1) = Len(Geometry) /\ Len(Geometry) \in Nat
    BY <1>1, PathsAt
  <1> HIDE DEF paths, end, n
  <1>4. ASSUME NEW j \in 1 .. n, at(j), came(j)
        PROVE  Begins(j)
    <2>1. /\ Command.cmd = SEG_MOVETO /\ Command.length = 1 /\ Command.at = k + 1
          /\ k + 2 <= Len(Geometry) /\ NextVertex = paths[j][1]
      BY <1>1, <1>2, <1>4, MoveRead DEF n
    <2>2. Before(paths, end, j) \in Nat
      <3>1. Among(Geometry, paths, end, j)
        BY <1>1, PathAmong DEF n
      <3> QED BY <3>1 DEF Among
    <2>3. k + 1 = Before(paths, end, j) + 2 /\ (k + 1) + 1 = k + 2
      BY <1>4, <2>2
    <2> QED BY <1>4, <2>1, <2>3 DEF Begins, paths, end
  <1> HIDE DEF came, at
  <1>5. ASSUME NEW j \in 0 .. n, Between(paths, end, j)
        PROVE  j + 1 \in 1 .. n /\ Begins(j + 1)
    <2>1. k = Before(paths, end, j + 1) + 1 /\ length = 0 /\ cursor = StartOf(paths, j + 1)
      BY <1>5 DEF Between
    <2>2. j # n
      BY <1>3, <2>1
    <2>3. j + 1 \in 1 .. n /\ (j + 1) - 1 = j
      BY <1>1, <2>2
    <2> DEFINE next == j + 1
    <2>4. next \in 1 .. n /\ at(next) /\ came(next)
      BY <1>5, <2>1, <2>3 DEF at, came
    <2> HIDE DEF next
    <2>5. Begins(next)
      BY <1>4, <2>4
    <2> QED BY <2>4, <2>5 DEF next
  <1>6. ASSUME NEW j \in 1 .. n, NEW v \in 1 .. Len(paths[j]) - 1, AtVertex(paths, end, j, v)
        PROVE  GoesOn(j, v)
    <2>1. /\ Command.cmd = SEG_LINETO /\ Command.length = Len(paths[j]) - v
          /\ Command.at = Before(paths, end, j) + (2 * v + 3)
          /\ Command.at + 1 <= Len(Geometry) /\ NextVertex = paths[j][v + 1]
      BY <1>1, <1>6, LineRead DEF n
    <2> QED BY <1>6, <2>1 DEF GoesOn, paths, end
  <1>7. ASSUME NEW j \in 1 .. n, AtVertex(paths, end, j, Len(paths[j])), Feature.type = "POLYGON"
        PROVE  Ends(j)
    <2>1. end = <<Word(SEG_CLOSE, 1)>>
      BY <1>7 DEF end, EndHere, PathEnd
    <2>2. /\ Command.cmd = SEG_CLOSE /\ Command.length = 1 /\ Command.at = k + 1
          /\ k = Before(paths, end, j + 1)
      BY <1>1, <1>7, <2>1, CloseRead DEF n
    <2> QED BY <1>7, <2>2 DEF Ends, paths, end
  <1>8. ASSUME NEW j \in 1 .. n, AtVertex(paths, end, j, Len(paths[j])), Feature.type # "POLYGON"
        PROVE  j + 1 \in 1 .. n /\ Begins(j + 1)
    <2> DEFINE l == Len(paths[j])
               b == Before(paths, end, j)
    <2>1. /\ b \in Nat /\ Before(paths, end, j + 1) = b + 2 * l + 2 + Len(end)
          /\ l \in Nat /\ l >= 2 /\ Len(end) = 0
      <3>1. Among(Geometry, paths, end, j)
        BY <1>1, PathAmong DEF n
      <3>2. l \in Nat /\ l >= 2
        BY <1>1, ChunksTyped DEF n
      <3> QED BY <1>1, <1>8, <3>1, <3>2 DEF Among
    <2>2. k = b + (IF l = 1 THEN 4 ELSE 2 * l + 3) /\ length = (IF l = 1 THEN 0 ELSE l - l)
          /\ cursor = paths[j][l]
      BY <1>8 DEF AtVertex
    <2>3. cursor = StartOf(paths, j + 1)
      <3>1. j + 1 # 1 /\ (j + 1) - 1 = j
        OBVIOUS
      <3> QED BY <2>2, <3>1 DEF StartOf, Last
    <2> HIDE DEF l, b
    <2>4. k = Before(paths, end, j + 1) + 1 /\ length = 0
      BY <2>1, <2>2
    <2>5. j # n
      BY <1>3, <2>4
    <2>6. j + 1 \in 1 .. n /\ (j + 1) - 1 = j /\ j + 1 # 1
      BY <1>1, <2>5
    <2> DEFINE next == j + 1
    <2>7. next \in 1 .. n /\ at(next) /\ came(next)
      BY <1>8, <2>3, <2>4, <2>6 DEF at, came
    <2> HIDE DEF next
    <2>8. Begins(next)
      BY <1>4, <2>7
    <2> QED BY <2>7, <2>8 DEF next
  <1>9. \/ \E j \in 0 .. n : Between(paths, end, j)
        \/ \E j \in 1 .. n : \E v \in 1 .. Len(paths[j]) : AtVertex(paths, end, j, v)
    BY DEF DrawnInv, paths, end, n
  <1>10. CASE \E j \in 0 .. n : Between(paths, end, j)
    BY <1>5, <1>10 DEF n, paths
  <1>11. ASSUME NEW j \in 1 .. n, NEW v \in 1 .. Len(paths[j]), AtVertex(paths, end, j, v)
         PROVE  \E i \in 1 .. n : Begins(i) \/ Ends(i) \/ \E w \in 1 .. Len(paths[i]) - 1 : GoesOn(i, w)
    <2>1. Len(paths[j]) \in Nat
      BY <1>1, ChunksTyped DEF n
    <2>2. v = Len(paths[j]) \/ v \in 1 .. Len(paths[j]) - 1
      BY <2>1
    <2>3. CASE v = Len(paths[j])
      BY <1>7, <1>8, <1>11, <2>3
    <2>4. CASE v \in 1 .. Len(paths[j]) - 1
      BY <1>6, <1>11, <2>4
    <2> QED BY <2>2, <2>3, <2>4
  <1> QED BY <1>9, <1>10, <1>11 DEF n, paths

\* No turn of the decoder is at a loss.
LEMMA TurnsFit ==
  ASSUME TileInv, DrawnInv, pc = "read", Feature.shape # NoShape, Feature.type # "POINT"
  PROVE  ~ReadNothing /\ ~ReadBeyond /\ ~UnknownCommand
PROOF
  <1> SUFFICES ASSUME k <= Len(Geometry)
               PROVE  ~ReadNothing /\ ~ReadBeyond /\ ~UnknownCommand
    BY DEF ReadNothing, ReadBeyond, UnknownCommand, Drawing, Reading
  <1>1. PICK j \in 1 .. Len(PathsHere) :
          Begins(j) \/ Ends(j) \/ \E v \in 1 .. Len(PathsHere[j]) - 1 : GoesOn(j, v)
    BY TurnRead
  <1>2. Len(PathsHere[j]) \in Nat
    BY DrawnHere, ChunksTyped DEF OfFeature
  <1>3. /\ Command.length > 0 /\ Command.cmd \in {SEG_MOVETO, SEG_LINETO, SEG_CLOSE}
        /\ Command.cmd = SEG_CLOSE \/ Command.at + 1 <= Len(Geometry)
    <2>1. CASE Begins(j)
      BY <2>1 DEF Begins
    <2>2. CASE Ends(j)
      BY <2>2 DEF Ends
    <2>3. ASSUME NEW v \in 1 .. Len(PathsHere[j]) - 1, GoesOn(j, v)
          PROVE  Command.length > 0 /\ Command.cmd = SEG_LINETO /\ Command.at + 1 <= Len(Geometry)
      <3>1. /\ Command.cmd = SEG_LINETO /\ Command.length = Len(PathsHere[j]) - v
            /\ Command.at + 1 <= Len(Geometry)
        BY <2>3 DEF GoesOn
      <3>2. Len(PathsHere[j]) - v > 0
        BY <1>2
      <3> QED BY <3>1, <3>2
    <2> QED BY <1>1, <2>1, <2>2, <2>3
  <1>4. Command.at \in Nat /\ Len(Geometry) \in Nat
    BY CommandTyped DEF Reading
  <1>5. ~(Command.length = 0)
    BY <1>3
  <1>6. ~(Command.cmd \in {SEG_MOVETO, SEG_LINETO} /\ Command.at >= Len(Geometry))
    <2>1. SEG_CLOSE \notin {SEG_MOVETO, SEG_LINETO}
      BY DEF SEG_CLOSE, SEG_MOVETO, SEG_LINETO
    <2> QED BY <1>3, <1>4, <2>1
  <1> QED BY <1>3, <1>5, <1>6 DEF ReadNothing, ReadBeyond, UnknownCommand, Drawing

LEMMA FirstAndNext ==
  ASSUME NEW s, NEW t, NEW n \in Nat, FirstOf(s, t, n), NEW e, e = t[n + 1]
  PROVE  FirstOf(Append(s, e), t, n + 1)
PROOF
  <1>1. IsSeq(s) /\ Len(s) = n /\ DOMAIN s = 1 .. n /\ \A i \in 1 .. n : s[i] = t[i]
    <2>1. IsSeq(s) /\ Len(s) = n /\ \A i \in 1 .. n : s[i] = t[i]
      BY DEF FirstOf
    <2> QED BY <2>1, IsSeqDomain
  <1> DEFINE more == Append(s, e)
  <1>2. /\ IsSeq(more) /\ Len(more) = n + 1 /\ \A i \in 1 .. n : more[i] = s[i]
        /\ more[n + 1] = e
    BY <1>1, AppendIsSeq
  <1> HIDE DEF more
  <1>3. \A i \in 1 .. n + 1 : i \in 1 .. n \/ i = n + 1
    OBVIOUS
  <1> QED BY <1>1, <1>2, <1>3 DEF FirstOf, more

LEMMA FirstIsAll ==
  ASSUME NEW s, NEW t, IsSeq(t), FirstOf(s, t, Len(t))
  PROVE  s = t
PROOF
  <1>1. IsSeq(s) /\ Len(s) = Len(t) /\ \A i \in 1 .. Len(t) : s[i] = t[i]
    BY DEF FirstOf
  <1>2. DOMAIN s = 1 .. Len(t)
    BY <1>1, IsSeqDomain
  <1> QED BY <1>1, <1>2, SameSeq

LEMMA FirstOne ==
  ASSUME NEW e, NEW t, e = t[1]
  PROVE  FirstOf(<<e>>, t, 1) /\ FirstOf(<<>>, t, 0)
PROOF
  <1>1. <<e>> \in Seq({e}) /\ Len(<<e>>) = 1 /\ <<e>>[1] = e
    OBVIOUS
  <1>2. IsSeq(<<e>>)
    BY <1>1, SeqIsSeq
  <1>3. \A i \in 1 .. 1 : i = 1
    OBVIOUS
  <1>4. FirstOf(<<e>>, t, 1)
    BY <1>1, <1>2, <1>3 DEF FirstOf
  <1>5. FirstOf(<<>>, t, 0)
    BY EmptyIsSeq DEF FirstOf
  <1> QED BY <1>4, <1>5

LEMMA VertexReadDoes ==
  ASSUME ReadVertex
  PROVE  /\ cmd' = Command.cmd /\ length' = Command.length - 1 /\ k' = Command.at + 2
         /\ cursor' = NextVertex
         /\ Command.cmd = SEG_MOVETO /\ vtPoly # <<>> =>
              vtPolys' = Append(vtPolys, vtPoly) /\ vtPoly' = <<NextVertex>>
         /\ ~(Command.cmd = SEG_MOVETO /\ vtPoly # <<>>) =>
              vtPoly' = Append(vtPoly, NextVertex) /\ vtPolys' = vtPolys
PROOF
  BY DEF ReadVertex, Done, NextVertex

LEMMA CloseReadDoes ==
  ASSUME ReadClose
  PROVE  /\ cmd' = Command.cmd /\ length' = Command.length - 1 /\ k' = Command.at
         /\ cursor' = cursor /\ vtPolys' = Append(vtPolys, vtPoly) /\ vtPoly' = <<>>
PROOF
  BY DEF ReadClose, Done

LEMMA TurnKept ==
  ASSUME TileInv, DrawnInv, ReadVertex \/ ReadClose, Feature.shape # NoShape, Feature.type # "POINT"
  PROVE  DrawnInv'
PROOF
  <1>0. \E paths, end : paths = PathsHere /\ end = EndHere
    OBVIOUS
  <1> PICK paths, end : paths = PathsHere /\ end = EndHere
    BY <1>0
  <1> DEFINE n == Len(paths)
  <1>1. pc = "read" /\ k <= Len(Geometry) /\ UNCHANGED <<pc, tile, layerIndex, featureIndex>>
    BY DEF ReadVertex, ReadClose, Drawing, Reading, position
  <1>2. PathsHere' = paths /\ EndHere' = end /\ Feature' = Feature
    BY <1>1 DEF PathsHere, EndHere, Feature, Layer
  <1>3. PICK j \in 1 .. n : Begins(j) \/ Ends(j) \/ \E v \in 1 .. Len(paths[j]) - 1 : GoesOn(j, v)
    BY <1>1, TurnRead
  <1>4. /\ Drawable(paths) /\ n \in Nat /\ IsSeq(end)
    BY <1>1, DrawnHere, Zenon DEF OfFeature
  <1>5. \A i \in 1 .. n : paths[i] \in Ring /\ Len(paths[i]) \in Nat /\ Len(paths[i]) >= 2 /\ IsSeq(paths[i])
    <2>1. \A i \in 1 .. n : paths[i] \in Ring /\ Len(paths[i]) \in Nat /\ Len(paths[i]) >= 2
      BY <1>4, ChunksTyped
    <2> QED BY <2>1, SeqIsSeq DEF Ring
  <1>6. Before(paths, end, j) \in Nat
    <2>1. Among(Paths(paths, end), paths, end, j)
      BY <1>4, PathAmong
    <2> QED BY <2>1 DEF Among
  <1> HIDE DEF n
  <1>7. SEG_MOVETO = 1 /\ SEG_LINETO = 2 /\ SEG_CLOSE = 7
    BY DEF SEG_MOVETO, SEG_LINETO, SEG_CLOSE
  <1>8. ReadVertex => Command.cmd # SEG_CLOSE
    BY <1>7 DEF ReadVertex, Drawing
  <1>9. ReadClose => Command.cmd = SEG_CLOSE
    BY DEF ReadClose
  <1>10. ASSUME NEW i \in 1 .. n, NEW v \in 1 .. Len(paths[i]), AtVertex(paths, end, i, v)'
         PROVE  DrawnInv'
    <2>1. AtVertex(PathsHere, EndHere, i, v)'
      BY <1>2, <1>10 DEF AtVertex
    <2>2. i \in 1 .. Len(PathsHere') /\ v \in 1 .. Len(PathsHere'[i])
      BY <1>2 DEF n
    <2> QED BY <2>1, <2>2 DEF DrawnInv
  <1>11. CASE Begins(j)
    <2>1. /\ Command.cmd = SEG_MOVETO /\ Command.length = 1 /\ Command.at = Before(paths, end, j) + 2
          /\ NextVertex = paths[j][1]
          /\ \/ Between(paths, end, j - 1)
             \/ j # 1 /\ AtVertex(paths, end, j - 1, Len(paths[j - 1]))
      BY <1>11 DEF Begins
    <2>2. ReadVertex
      BY <1>7, <1>9, <2>1
    <2>3. k' = Before(paths, end, j) + 4 /\ length' = 0 /\ cursor' = paths[j][1]
      <3>1. k' = Command.at + 2 /\ length' = Command.length - 1 /\ cursor' = NextVertex
        BY <2>2, VertexReadDoes
      <3> QED BY <1>6, <2>1, <3>1
    <2>4. FirstOf(vtPoly', paths[j], 1) /\ FirstOf(vtPolys', paths, j - 1)
      <3>1. CASE Between(paths, end, j - 1)
        <4>1. vtPoly = <<>> /\ FirstOf(vtPolys, paths, j - 1)
          BY <3>1 DEF Between
        <4>2. vtPoly' = Append(vtPoly, NextVertex) /\ vtPolys' = vtPolys
          BY <2>2, <4>1, VertexReadDoes
        <4>3. FirstOf(vtPoly, paths[j], 0)
          BY <4>1, FirstOne
        <4>4. FirstOf(Append(vtPoly, NextVertex), paths[j], 0 + 1)
          <5>1. 0 \in Nat /\ NextVertex = paths[j][0 + 1]
            BY <2>1
          <5> QED BY <4>3, <5>1, FirstAndNext
        <4> QED BY <4>1, <4>2, <4>4
      <3>2. CASE j # 1 /\ AtVertex(paths, end, j - 1, Len(paths[j - 1]))
        <4>1. PICK i \in 1 .. n : i = j - 1 /\ j = i + 1
          BY <1>4, <3>2
        <4>2. FirstOf(vtPoly, paths[i], Len(paths[i])) /\ FirstOf(vtPolys, paths, i - 1)
          BY <3>2, <4>1 DEF AtVertex
        <4>3. IsSeq(paths[i]) /\ Len(paths[i]) >= 2 /\ Len(paths[i]) \in Nat
          BY <1>5
        <4>4. vtPoly = paths[i] /\ vtPoly # <<>>
          <5>1. vtPoly = paths[i]
            BY <4>2, <4>3, FirstIsAll
          <5> QED BY <4>3, <5>1
        <4>5. vtPolys' = Append(vtPolys, vtPoly) /\ vtPoly' = <<NextVertex>>
          BY <2>1, <2>2, <4>4, VertexReadDoes
        <4>6. FirstOf(vtPolys', paths, (i - 1) + 1)
          <5>1. i - 1 \in Nat /\ vtPoly = paths[(i - 1) + 1]
            BY <4>4
          <5> QED BY <4>2, <4>5, <5>1, FirstAndNext
        <4>7. FirstOf(vtPoly', paths[j], 1)
          BY <2>1, <4>5, FirstOne
        <4>8. (i - 1) + 1 = j - 1
          BY <4>1
        <4> QED BY <4>6, <4>7, <4>8
      <3> QED BY <2>1, <3>1, <3>2
    <2>5. AtVertex(paths, end, j, 1)'
      BY <2>3, <2>4 DEF AtVertex
    <2>6. 1 \in 1 .. Len(paths[j])
      BY <1>5
    <2> QED BY <1>10, <2>5, <2>6
  <1>12. ASSUME NEW v \in 1 .. Len(paths[j]) - 1, GoesOn(j, v)
         PROVE  DrawnInv'
    <2> DEFINE l == Len(paths[j])
               b == Before(paths, end, j)
    <2>1. /\ AtVertex(paths, end, j, v)
          /\ Command.cmd = SEG_LINETO /\ Command.length = l - v
          /\ Command.at = b + (2 * v + 3) /\ NextVertex = paths[j][v + 1]
      BY <1>12 DEF GoesOn
    <2>2. ReadVertex
      BY <1>7, <1>9, <2>1
    <2>3. /\ k' = Command.at + 2 /\ length' = Command.length - 1 /\ cursor' = NextVertex
          /\ cmd' = Command.cmd
          /\ vtPoly' = Append(vtPoly, NextVertex) /\ vtPolys' = vtPolys
      <3>1. ~(Command.cmd = SEG_MOVETO /\ vtPoly # <<>>)
        BY <1>7, <2>1
      <3> QED BY <2>2, <3>1, VertexReadDoes
    <2>4. FirstOf(vtPoly, paths[j], v) /\ FirstOf(vtPolys, paths, j - 1)
      BY <2>1 DEF AtVertex
    <2>5. FirstOf(Append(vtPoly, NextVertex), paths[j], v + 1)
      <3>1. v \in Nat
        OBVIOUS
      <3> QED BY <2>1, <2>4, <3>1, FirstAndNext
    <2>6. l \in Nat /\ b \in Nat
      BY <1>5, <1>6
    <2> DEFINE w == v + 1
    <2>7. w \in 1 .. l /\ w # 1 /\ k' = b + (2 * w + 3) /\ length' = l - w
      <3>1. v \in 1 .. l - 1 /\ w = v + 1
        OBVIOUS
      <3>2. k' = b + (2 * v + 3) + 2 /\ length' = (l - v) - 1
        BY <2>1, <2>3
      <3> HIDE DEF l, b, w
      <3> QED BY <2>6, <3>1, <3>2
    <2>8. /\ cursor' = paths[j][w] /\ cmd' = SEG_LINETO
          /\ FirstOf(vtPoly', paths[j], w) /\ FirstOf(vtPolys', paths, j - 1)
      BY <2>1, <2>3, <2>4, <2>5
    <2> HIDE DEF w
    <2>9. AtVertex(paths, end, j, w)'
      BY <2>7, <2>8 DEF AtVertex
    <2> QED BY <1>10, <2>7, <2>9
  <1>13. CASE Ends(j)
    <2>1. /\ Feature.type = "POLYGON" /\ AtVertex(paths, end, j, Len(paths[j]))
          /\ Command.cmd = SEG_CLOSE /\ Command.length = 1
          /\ Command.at = Before(paths, end, j + 1) + 1
      BY <1>13 DEF Ends
    <2>2. ReadClose
      BY <1>8, <2>1
    <2>3. /\ length' = Command.length - 1 /\ k' = Command.at
          /\ cursor' = cursor /\ vtPolys' = Append(vtPolys, vtPoly) /\ vtPoly' = <<>>
      BY <2>2, CloseReadDoes
    <2>4. /\ cursor = paths[j][Len(paths[j])]
          /\ FirstOf(vtPoly, paths[j], Len(paths[j])) /\ FirstOf(vtPolys, paths, j - 1)
      BY <2>1 DEF AtVertex
    <2>5. vtPoly = paths[j]
      BY <1>5, <2>4, FirstIsAll
    <2>6. FirstOf(vtPolys', paths, j)
      <3>1. j - 1 \in Nat /\ (j - 1) + 1 = j
        OBVIOUS
      <3>2. FirstOf(Append(vtPolys, vtPoly), paths, (j - 1) + 1)
        BY <2>4, <2>5, <3>1, FirstAndNext
      <3> QED BY <2>3, <3>1, <3>2
    <2>7. cursor' = StartOf(paths, j + 1)
      <3>1. j + 1 # 1 /\ (j + 1) - 1 = j
        OBVIOUS
      <3> QED BY <2>3, <2>4, <3>1 DEF StartOf, Last
    <2>8. Between(paths, end, j)'
      BY <2>1, <2>3, <2>6, <2>7 DEF Between
    <2>9. Between(PathsHere, EndHere, j)'
      BY <1>2, <2>8 DEF Between
    <2>10. j \in 0 .. Len(PathsHere') /\ Feature'.type = "POLYGON"
      BY <1>2, <2>1 DEF n
    <2> QED BY <2>9, <2>10 DEF DrawnInv
  <1> QED BY <1>3, <1>11, <1>12, <1>13

\* The decoder has read the first v of n points.
AtPoint(n, v) ==
  /\ k = IF v = 0 THEN 1 ELSE 2 * v + 2
  /\ length = IF v = 0 THEN 0 ELSE n - v
  /\ v # 0 => cmd = SEG_MOVETO /\ vtPoly # <<>>

PointsInv ==
  pc = "read" /\ Feature.shape # NoShape /\ Feature.type = "POINT" =>
    \E v \in 0 .. Len(Feature.shape) : AtPoint(Len(Feature.shape), v)

LEMMA PointsHere ==
  ASSUME TileInv, pc \in OfFeature, Feature.shape # NoShape, Feature.type = "POINT"
  PROVE  /\ Len(Feature.shape) \in Nat /\ Len(Feature.shape) >= 1
         /\ Len(Geometry) = 2 * Len(Feature.shape) + 1
         /\ Geometry[1] = Word(SEG_MOVETO, Len(Feature.shape))
PROOF
  <1> DEFINE n == Len(Feature.shape)
             point(i) == IF i = 0 THEN <<0, 0>> ELSE Feature.shape[i][1][1]
             steps == [i \in DOMAIN Feature.shape |-> Step(point(i - 1), point(i))]
             first == <<Word(SEG_MOVETO, n)>>
             rest == FlattenSeq(steps)
  <1>1. Feature.shape \in Seq(Seq(Ring)) /\ Geometry = PointSteps(Feature.shape)
    BY EncodedHere DEF Encoded, Geometry
  <1>2. n \in Nat /\ DOMAIN Feature.shape = 1 .. n
    BY <1>1, SeqIsSeq
  <1>3. n # 0
    BY <1>1, EmptySeq DEF NoShape
  <1>4. Geometry = first \o rest
    BY <1>1 DEF PointSteps
  <1>5. /\ steps \in [1 .. n -> {steps[i] : i \in 1 .. n}]
        /\ \A i \in 1 .. n : steps[i] = Step(point(i - 1), point(i))
    BY <1>2
  <1> HIDE DEF steps, n, point
  <1>6. IsSeq(steps) /\ Len(steps) = n
    BY <1>2, <1>5, CountedIsSeq
  <1>7. \A i \in 1 .. n : IsSeq(steps[i]) /\ Len(steps[i]) = 2
    <2> TAKE i \in 1 .. n
    <2> DEFINE from == point(i - 1)
               to == point(i)
    <2>1. steps[i] = <<ZigZag(to[1] - from[1]), ZigZag(to[2] - from[2])>>
      BY <1>5 DEF Step
    <2> HIDE DEF from, to
    <2>2. steps[i] \in Seq({ZigZag(to[1] - from[1]), ZigZag(to[2] - from[2])}) /\ Len(steps[i]) = 2
      BY <2>1
    <2> QED BY <2>2, SeqIsSeq
  <1>8. IsSeq(rest) /\ Len(rest) = 2 * n
    BY <1>2, <1>6, <1>7, PairsAt
  <1>9. IsSeq(first) /\ Len(first) = 1 /\ first[1] = Word(SEG_MOVETO, n)
    <2>1. first \in Seq({Word(SEG_MOVETO, n)}) /\ Len(first) = 1 /\ first[1] = Word(SEG_MOVETO, n)
      OBVIOUS
    <2> QED BY <2>1, SeqIsSeq
  <1> HIDE DEF first, rest
  <1>10. Len(first \o rest) = Len(first) + Len(rest) /\ \A i \in 1 .. Len(first) : (first \o rest)[i] = first[i]
    <2>1. IsSeq(first) /\ IsSeq(rest)
      BY <1>8, <1>9
    <2> QED BY <2>1, ConcatPlaces
  <1>11. Len(Geometry) = 1 + 2 * n /\ Geometry[1] = first[1]
    BY <1>4, <1>8, <1>9, <1>10
  <1> QED BY <1>2, <1>3, <1>9, <1>11 DEF n

LEMMA PointRead ==
  ASSUME TileInv, pc = "read", Feature.shape # NoShape, Feature.type = "POINT", k <= Len(Geometry),
         NEW n, n = Len(Feature.shape), NEW v \in 0 .. n, AtPoint(n, v)
  PROVE  /\ v + 1 \in 1 .. n /\ Command.cmd = SEG_MOVETO /\ Command.length = n - v
         /\ Command.at = 2 * v + 2 /\ Command.at + 1 <= Len(Geometry)
PROOF
  <1>1. /\ n \in Nat /\ n >= 1 /\ Len(Geometry) = 2 * n + 1 /\ Geometry[1] = Word(SEG_MOVETO, n)
    BY PointsHere DEF OfFeature
  <1>2. /\ k = (IF v = 0 THEN 1 ELSE 2 * v + 2) /\ length = (IF v = 0 THEN 0 ELSE n - v)
        /\ v # 0 => cmd = SEG_MOVETO
    BY DEF AtPoint
  <1>3. v + 1 \in 1 .. n
    BY <1>1, <1>2
  <1>4. Command.cmd = SEG_MOVETO /\ Command.length = n - v /\ Command.at = 2 * v + 2
    <2>1. CASE v = 0
      <3>1. k = 1 /\ length = 0 /\ Geometry[k] = Word(1, n) /\ 1 \in 0 .. 7 /\ SEG_MOVETO = 1
        BY <1>1, <1>2, <2>1 DEF SEG_MOVETO
      <3>2. Command.cmd = 1 /\ Command.length = n /\ Command.at = k + 1
        BY <1>1, <3>1, CommandBegins
      <3> QED BY <1>1, <2>1, <3>1, <3>2
    <2>2. CASE v # 0
      <3>1. k = 2 * v + 2 /\ length = n - v /\ length # 0 /\ cmd = SEG_MOVETO
        BY <1>1, <1>2, <1>3, <2>2
      <3> QED BY <3>1 DEF Command
    <2> QED BY <2>1, <2>2
  <1>5. Command.at + 1 <= Len(Geometry)
    BY <1>1, <1>3, <1>4
  <1> QED BY <1>3, <1>4, <1>5

LEMMA PointsFit ==
  ASSUME TileInv, PointsInv, pc = "read", Feature.shape # NoShape, Feature.type = "POINT"
  PROVE  ~ReadNothing /\ ~ReadBeyond /\ ~UnknownCommand /\ ~ReadClose
PROOF
  <1> SUFFICES ASSUME k <= Len(Geometry)
               PROVE  ~ReadNothing /\ ~ReadBeyond /\ ~UnknownCommand /\ ~ReadClose
    BY DEF ReadNothing, ReadBeyond, UnknownCommand, ReadClose, Drawing, Reading
  <1>1. PICK n : n = Len(Feature.shape)
    OBVIOUS
  <1>2. PICK v \in 0 .. n : AtPoint(n, v)
    BY <1>1 DEF PointsInv
  <1>3. /\ v + 1 \in 1 .. n /\ Command.cmd = SEG_MOVETO /\ Command.length = n - v
        /\ Command.at + 1 <= Len(Geometry)
    BY <1>1, <1>2, PointRead
  <1>4. n \in Nat /\ Len(Geometry) \in Nat /\ Command.at \in Nat
    BY <1>1, PointsHere, CommandTyped DEF OfFeature, Reading
  <1>5. Command.length # 0 /\ ~(Command.at >= Len(Geometry))
    BY <1>3, <1>4
  <1>6. SEG_MOVETO # SEG_CLOSE /\ SEG_MOVETO \in {SEG_MOVETO, SEG_LINETO, SEG_CLOSE}
    BY DEF SEG_CLOSE, SEG_MOVETO
  <1> QED BY <1>3, <1>5, <1>6 DEF ReadNothing, ReadBeyond, UnknownCommand, ReadClose, Drawing

LEMMA PointTurnKept ==
  ASSUME TileInv, PointsInv, ReadVertex, Feature.shape # NoShape, Feature.type = "POINT"
  PROVE  PointsInv'
PROOF
  <1>1. pc = "read" /\ k <= Len(Geometry) /\ UNCHANGED <<pc, tile, layerIndex, featureIndex>>
    BY DEF ReadVertex, Drawing, Reading, position
  <1>2. Feature' = Feature
    BY <1>1 DEF Feature, Layer
  <1>3. PICK n : n = Len(Feature.shape)
    OBVIOUS
  <1>4. PICK v \in 0 .. n : AtPoint(n, v)
    BY <1>1, <1>3 DEF PointsInv
  <1>5. /\ v + 1 \in 1 .. n /\ Command.cmd = SEG_MOVETO /\ Command.length = n - v
        /\ Command.at = 2 * v + 2
    BY <1>1, <1>3, <1>4, PointRead
  <1>6. n \in Nat
    BY <1>1, <1>3, PointsHere DEF OfFeature
  <1>7. k' = Command.at + 2 /\ length' = Command.length - 1 /\ cmd' = Command.cmd
    BY VertexReadDoes
  <1> DEFINE w == v + 1
  <1>8. w \in 1 .. n /\ k' = 2 * w + 2 /\ length' = n - w /\ cmd' = SEG_MOVETO
    BY <1>5, <1>6, <1>7
  <1>12. vtPoly' # <<>>
    <2>1. vtPoly' = <<NextVertex>> \/ vtPoly' = Append(vtPoly, NextVertex)
      BY VertexReadDoes
    <2>2. IsSeq(vtPoly)
      BY SeqIsSeq DEF TileInv, TypeOK, Ring
    <2>3. PICK vertex : vertex = NextVertex
      OBVIOUS
    <2>4. <<vertex>> # <<>>
      OBVIOUS
    <2>5. Append(vtPoly, vertex) # <<>>
      BY <2>2, AppendIsSeq, EmptyIsSeq, IsSeqDomain
    <2> QED BY <2>1, <2>3, <2>4, <2>5
  <1> HIDE DEF w
  <1>9. AtPoint(n, w)'
    BY <1>8, <1>12 DEF AtPoint
  <1>10. w \in 0 .. n
    BY <1>8
  <1>11. AtPoint(Len(Feature.shape), w)' /\ w \in 0 .. Len(Feature'.shape)
    BY <1>2, <1>3, <1>9, <1>10
  <1> QED BY <1>11 DEF PointsInv

\* A feature that nothing is read of yet.
Fresh == k = 1 /\ length = 0 /\ cursor = <<0, 0>> /\ vtPoly = <<>> /\ vtPolys = <<>>

LEMMA FreshReads ==
  TileInv /\ Fresh => DrawnInv /\ PointsInv
PROOF
  <1> SUFFICES ASSUME TileInv, Fresh, pc = "read", Feature.shape # NoShape
               PROVE  DrawnInv /\ PointsInv
    BY DEF DrawnInv, PointsInv
  <1>1. ASSUME Feature.type # "POINT" PROVE DrawnInv
    <2>1. Drawable(PathsHere) /\ Len(PathsHere) \in Nat /\ IsSeq(EndHere)
      BY <1>1, DrawnHere DEF OfFeature
    <2>2. Before(PathsHere, EndHere, 1) = 0
      BY <2>1, PathsAt
    <2>3. StartOf(PathsHere, 1) = <<0, 0>>
      BY DEF StartOf
    <2>4. FirstOf(<<>>, PathsHere, 0)
      BY EmptyIsSeq DEF FirstOf
    <2>5. Between(PathsHere, EndHere, 0)
      <3>1. 0 + 1 = 1
        OBVIOUS
      <3> QED BY <2>2, <2>3, <2>4, <3>1 DEF Between, Fresh
    <2>6. 0 \in 0 .. Len(PathsHere)
      BY <2>1
    <2> QED BY <2>5, <2>6 DEF DrawnInv
  <1>2. ASSUME Feature.type = "POINT" PROVE PointsInv
    <2>1. Len(Feature.shape) \in Nat
      BY <1>2, PointsHere DEF OfFeature
    <2>2. AtPoint(Len(Feature.shape), 0) /\ 0 \in 0 .. Len(Feature.shape)
      BY <2>1 DEF AtPoint, Fresh
    <2> QED BY <2>2 DEF PointsInv
  <1> QED BY <1>1, <1>2 DEF DrawnInv, PointsInv

LEMMA FreshReadsNext ==
  TileInv' /\ Fresh' => DrawnInv' /\ PointsInv'
PROOF
  BY FreshReads, PTL

\* What was decoded of an encoded feature.
DecodedInv ==
  pc = "convert" /\ Feature.shape # NoShape =>
    /\ Feature.type = "POLYGON" => vtPolys = PathsHere
    /\ Feature.type = "LINESTRING" => Lines = PathsHere
    /\ Feature.type = "POINT" => vtPoly # <<>>

\* At the end of the numbers of points at least one is read.
LEMMA SomeRead ==
  ASSUME TileInv, PointsInv, pc = "read", k > Len(Geometry), Feature.shape # NoShape, Feature.type = "POINT"
  PROVE  vtPoly # <<>>
PROOF
  <1>1. PICK n : n = Len(Feature.shape)
    OBVIOUS
  <1>2. n \in Nat /\ n >= 1 /\ Len(Geometry) = 2 * n + 1
    BY <1>1, PointsHere DEF OfFeature
  <1>3. PICK v \in 0 .. n : AtPoint(n, v)
    BY <1>1 DEF PointsInv
  <1>4. v # 0
    BY <1>2, <1>3 DEF AtPoint
  <1> QED BY <1>3, <1>4 DEF AtPoint

\* At the end of the numbers all paths are read.
LEMMA AllRead ==
  ASSUME TileInv, DrawnInv, pc = "read", k > Len(Geometry), Feature.shape # NoShape
  PROVE  /\ Feature.type = "POLYGON" => vtPolys = PathsHere
         /\ Feature.type = "LINESTRING" => Lines = PathsHere
PROOF
  <1> SUFFICES ASSUME Feature.type # "POINT"
               PROVE  /\ Feature.type = "POLYGON" => vtPolys = PathsHere
                      /\ Feature.type = "LINESTRING" => Lines = PathsHere
    OBVIOUS
  <1> DEFINE paths == PathsHere
             end == EndHere
             n == Len(paths)
             type == Feature.type
  <1>1. /\ type \in {"POLYGON", "LINESTRING"}
        /\ Drawable(paths) /\ n \in Nat /\ n >= 1
        /\ IsSeq(end) /\ Len(end) = (IF type = "POLYGON" THEN 1 ELSE 0)
        /\ Geometry = Paths(paths, end)
    BY DrawnHere DEF OfFeature
  <1>2. IsSeq(paths)
    BY <1>1, SeqIsSeq DEF Drawable
  <1>3. /\ Before(paths, end, n + 1) = Len(Geometry) /\ Len(Geometry) \in Nat
        /\ \A j \in 1 .. n :
             /\ Before(paths, end, j) \in Nat
             /\ Before(paths, end, j + 1) = Before(paths, end, j) + 2 * Len(paths[j]) + 2 + Len(end)
             /\ Before(paths, end, j + 1) <= Len(Geometry)
    BY <1>1, PathsAt
  <1>4. \A j \in 1 .. n : Len(paths[j]) \in Nat /\ Len(paths[j]) >= 2 /\ IsSeq(paths[j])
    <2>1. \A j \in 1 .. n : paths[j] \in Ring /\ Len(paths[j]) \in Nat /\ Len(paths[j]) >= 2
      BY <1>1, ChunksTyped
    <2> QED BY <2>1, SeqIsSeq DEF Ring
  <1>5. \/ \E j \in 0 .. n : (type = "POLYGON" \/ j = 0) /\ Between(paths, end, j)
        \/ \E j \in 1 .. n : \E v \in 1 .. Len(paths[j]) : AtVertex(paths, end, j, v)
    BY DEF DrawnInv
  <1>6. Lines = Append(vtPolys, vtPoly)
    BY DEF Lines
  <1> HIDE DEF paths, end, n, type
  <1>7. ASSUME NEW j \in 1 .. n, Before(paths, end, j) + 1 = k
        PROVE  FALSE
    <2>1. /\ Before(paths, end, j) \in Nat
          /\ Before(paths, end, j + 1) = Before(paths, end, j) + 2 * Len(paths[j]) + 2 + Len(end)
          /\ Before(paths, end, j + 1) <= Len(Geometry)
      BY <1>3
    <2>2. Len(paths[j]) \in Nat /\ Len(end) \in Nat /\ Len(Geometry) \in Nat
      BY <1>1, <1>3, <1>4
    <2> DEFINE b == Before(paths, end, j)
               c == Before(paths, end, j + 1)
               l == Len(paths[j])
               e == Len(end)
               g == Len(Geometry)
    <2>3. b \in Nat /\ l \in Nat /\ e \in Nat /\ g \in Nat /\ c = b + 2 * l + 2 + e /\ c <= g /\ b + 1 = k /\ k > g
      BY <1>7, <2>1, <2>2
    <2> HIDE DEF b, c, l, e, g
    <2> QED BY <2>3
  <1>8. ASSUME NEW j \in 0 .. n, type = "POLYGON" \/ j = 0, Between(paths, end, j)
        PROVE  type = "POLYGON" /\ vtPolys = paths
    <2>1. k = Before(paths, end, j + 1) + 1 /\ FirstOf(vtPolys, paths, j)
      BY <1>8 DEF Between
    <2>2. j = n
      <3> SUFFICES ASSUME j # n PROVE FALSE
        OBVIOUS
      <3>1. PICK i \in 1 .. n : i = j + 1
        BY <1>1
      <3> QED BY <1>7, <2>1, <3>1
    <2>3. vtPolys = paths
      BY <1>2, <2>1, <2>2, FirstIsAll DEF n
    <2> QED BY <1>1, <1>8, <2>2, <2>3
  <1>9. ASSUME NEW j \in 1 .. n, NEW v \in 1 .. Len(paths[j]), AtVertex(paths, end, j, v)
        PROVE  type = "LINESTRING" /\ Lines = paths
    <2> DEFINE b == Before(paths, end, j)
               c == Before(paths, end, j + 1)
               l == Len(paths[j])
               e == Len(end)
               g == Len(Geometry)
    <2>1. /\ k = b + (IF v = 1 THEN 4 ELSE 2 * v + 3)
          /\ FirstOf(vtPoly, paths[j], v) /\ FirstOf(vtPolys, paths, j - 1)
      BY <1>9 DEF AtVertex
    <2>2. /\ b \in Nat /\ c = b + 2 * l + 2 + e /\ c <= g /\ g \in Nat /\ l \in Nat /\ l >= 2
          /\ e \in {0, 1} /\ k > g
      <3>1. e \in {0, 1}
        BY <1>1
      <3> QED BY <1>3, <1>4, <3>1
    <2>3. v = l /\ e = 0 /\ c + 1 = k
      <3>1. v \in 1 .. l
        OBVIOUS
      <3> HIDE DEF b, c, l, e, g
      <3> QED BY <2>1, <2>2, <3>1
    <2>4. type = "LINESTRING"
      BY <1>1, <2>3
    <2>5. j = n
      <3> SUFFICES ASSUME j # n PROVE FALSE
        OBVIOUS
      <3>1. PICK i \in 1 .. n : i = j + 1
        BY <1>1
      <3> QED BY <1>7, <2>3, <3>1
    <2>6. vtPoly = paths[n]
      BY <1>4, <2>1, <2>3, <2>5, FirstIsAll
    <2>7. FirstOf(Lines, paths, (n - 1) + 1)
      <3>1. n - 1 \in Nat /\ vtPoly = paths[(n - 1) + 1]
        BY <1>1, <2>6
      <3> QED BY <1>6, <2>1, <2>5, <3>1, FirstAndNext
    <2>8. FirstOf(Lines, paths, Len(paths))
      <3>1. (n - 1) + 1 = Len(paths)
        BY <1>1 DEF n
      <3> QED BY <2>7, <3>1
    <2>9. Lines = paths
      BY <1>2, <2>8, FirstIsAll
    <2> QED BY <2>4, <2>9
  <1>10. (type = "POLYGON" /\ vtPolys = paths) \/ (type = "LINESTRING" /\ Lines = paths)
    BY <1>5, <1>8, <1>9
  <1> QED BY <1>10 DEF paths, type

\* The tags that an encoder wrote have their keys and values.
LEMMA TagsThere ==
  ASSUME TileInv, pc \in OfFeature, Feature.shape # NoShape
  PROVE  TagsFit
PROOF
  <1> DEFINE tags == Feature.tags
             n == Len(tags)
  <1>1. /\ n % 2 = 0
        /\ \A t \in 1 .. n \div 2 : tags[2 * t - 1] < Len(Layer.keys) /\ tags[2 * t] < Len(Layer.values)
    BY EncodedHere DEF Tagged
  <1>2. n \in Nat /\ DOMAIN tags = 1 .. n
    BY FeatureIsThere, SeqIsSeq
  <1>3. ASSUME NEW i \in DOMAIN tags
        PROVE  tags[i] < Len(IF i % 2 = 1 THEN Layer.keys ELSE Layer.values)
    <2>1. i \in 1 .. n
      BY <1>2
    <2>2. CASE i % 2 = 1
      <3>1. PICK t : t = (i + 1) \div 2
        OBVIOUS
      <3>2. t \in 1 .. n \div 2 /\ 2 * t - 1 = i
        <4>1. n \in Nat /\ n % 2 = 0 /\ i \in 1 .. n /\ i % 2 = 1
          BY <1>1, <1>2, <2>1, <2>2
        <4> HIDE DEF n
        <4>2. t \in Int /\ 2 * t - 1 = i
          BY <3>1, <4>1
        <4>3. n = 2 * (n \div 2) /\ n \div 2 \in Nat
          BY <4>1
        <4> QED BY <4>1, <4>2, <4>3
      <3>3. tags[2 * t - 1] < Len(Layer.keys)
        BY <1>1, <3>2
      <3> QED BY <2>2, <3>2, <3>3
    <2>3. CASE i % 2 # 1
      <3>1. PICK t : t = i \div 2
        OBVIOUS
      <3>2. t \in 1 .. n \div 2 /\ 2 * t = i
        <4> HIDE DEF n
        <4> QED BY <1>1, <1>2, <2>1, <2>3, <3>1
      <3>3. tags[2 * t] < Len(Layer.values)
        BY <1>1, <3>2
      <3> QED BY <2>3, <3>2, <3>3
    <2> QED BY <2>2, <2>3
  <1> QED BY <1>1, <1>3 DEF TagsFit

\* The lines that an encoder wrote are lines.
LEMMA LinesThere ==
  ASSUME TileInv, DecodedInv, pc = "convert", Feature.shape # NoShape, Feature.type = "LINESTRING"
  PROVE  LinesFit
PROOF
  <1>1. Lines = PathsHere /\ \A j \in DOMAIN PathsHere : IsLine(PathsHere[j])
    BY DrawnHere DEF DecodedInv, OfFeature
  <1> QED BY <1>1 DEF LinesFit

-----------------------------------------------------------------------------
(* What was written is read, to its end and no further.                    *)

ReadInv == DrawnInv /\ PointsInv /\ DecodedInv /\ ReadsWhatIsThere

\* A step to a place where nothing is said of the reader.
LEMMA ReadElsewhere ==
  ASSUME pc' \notin {"read", "convert", "beyond", "crashed"}
  PROVE  ReadInv'
PROOF
  BY DEF ReadInv, DrawnInv, PointsInv, DecodedInv, ReadsWhatIsThere

\* What is known of a feature without a shape, and while it is not read.
LEMMA ReadInvOf ==
  ASSUME pc' \in {"read", "convert"}, Feature'.shape = NoShape
  PROVE  ReadInv'
PROOF
  BY DEF ReadInv, DrawnInv, PointsInv, DecodedInv, ReadsWhatIsThere

LEMMA FreshInv ==
  ASSUME TileInv', Fresh', pc' \in {"read", "layer"}
  PROVE  ReadInv'
PROOF
  <1>1. DrawnInv' /\ PointsInv'
    BY FreshReadsNext
  <1> QED BY <1>1 DEF ReadInv, DecodedInv, ReadsWhatIsThere

LEMMA ReadStepsRead ==
  ASSUME TileInv, ReadInv, ReadNothing \/ ReadVertex \/ ReadClose
  PROVE  ReadInv'
PROOF
  <1>1. pc = "read" /\ k <= Len(Geometry) /\ UNCHANGED <<pc, tile, layerIndex, featureIndex>>
    BY DEF ReadNothing, ReadVertex, ReadClose, Drawing, Reading, position
  <1>2. Feature' = Feature
    BY <1>1 DEF Feature, Layer
  <1>3. DrawnInv /\ PointsInv
    BY DEF ReadInv
  <1>4. CASE Feature.shape = NoShape
    BY <1>1, <1>2, <1>4, ReadInvOf
  <1>5. CASE Feature.shape # NoShape /\ Feature.type = "POINT"
    <2>1. ReadVertex
      BY <1>1, <1>3, <1>5, PointsFit
    <2>2. PointsInv'
      BY <1>3, <1>5, <2>1, PointTurnKept
    <2> QED BY <1>1, <1>2, <1>5, <2>2 DEF ReadInv, DrawnInv, DecodedInv, ReadsWhatIsThere
  <1>6. CASE Feature.shape # NoShape /\ Feature.type # "POINT"
    <2>1. ReadVertex \/ ReadClose
      BY <1>1, <1>3, <1>6, TurnsFit
    <2>2. DrawnInv'
      BY <1>3, <1>6, <2>1, TurnKept
    <2> QED BY <1>1, <1>2, <1>6, <2>2 DEF ReadInv, PointsInv, DecodedInv, ReadsWhatIsThere
  <1> QED BY <1>4, <1>5, <1>6

LEMMA ReadInvKept ==
  ASSUME TileInv, TileInv', ReadInv, [AnyStep]_vars
  PROVE  ReadInv'
PROOF
  <1>1. CASE UNCHANGED vars
    <2>1. UNCHANGED <<pc, tile, layerIndex, featureIndex, k, cmd, length, cursor, vtPoly, vtPolys>>
      BY <1>1 DEF vars, position, reader
    <2>2. Feature' = Feature /\ PathsHere' = PathsHere /\ EndHere' = EndHere /\ Lines' = Lines
      BY <2>1 DEF Feature, Layer, PathsHere, EndHere, Lines
    <2>3. \E paths, end : paths = PathsHere /\ end = EndHere
      OBVIOUS
    <2>4. PICK paths, end : paths = PathsHere /\ end = EndHere
      BY <2>3
    <2>5. \A j, v : (AtVertex(paths, end, j, v)' <=> AtVertex(paths, end, j, v))
                      /\ (Between(paths, end, j)' <=> Between(paths, end, j))
                      /\ (AtPoint(j, v)' <=> AtPoint(j, v))
      BY <2>1 DEF AtVertex, Between, AtPoint
    <2>6. DrawnInv'
      BY <2>1, <2>2, <2>4, <2>5 DEF ReadInv, DrawnInv
    <2>7. PointsInv'
      BY <2>1, <2>2, <2>5 DEF ReadInv, PointsInv
    <2>8. DecodedInv' /\ ReadsWhatIsThere'
      BY <2>1, <2>2 DEF ReadInv, DecodedInv, ReadsWhatIsThere
    <2> QED BY <2>6, <2>7, <2>8 DEF ReadInv
  <1>2. CASE \/ \E at \in Nat \X Nat \X Nat : Open(at)
             \/ NoTile \/ EmptyTile \/ OpenTile \/ InflateBlock \/ UnpackFails \/ ParseTile \/ Converted
             \/ UnknownCommand \/ UnknownType \/ CreateFeatureFails \/ BeginRings \/ NextRing
             \/ Release \/ Destroy
    <2>1. pc' \notin {"read", "convert", "beyond", "crashed"}
      BY <1>2 DEF Open, NoTile, EmptyTile, OpenTile, InflateBlock, UnpackFails, ParseTile, Converted,
         UnknownCommand, UnknownType, CreateFeatureFails, BeginRings, NextRing, Release, Destroy, Fail
    <2> QED BY <2>1, ReadElsewhere
  <1>3. CASE BeginLayer
    <2>1. pc = "layer" /\ pc' \in {"read", "layer"} /\ UNCHANGED reader
      BY <1>3 DEF BeginLayer
    <2>2. Fresh'
      BY <2>1 DEF TileInv, NothingRead, Fresh, reader
    <2> QED BY <2>1, <2>2, FreshInv
  <1>4. ASSUME NEW parts, CreateFeature(parts)
        PROVE  ReadInv'
    <2>1. pc' \in {"read", "layer"} /\ NewFeature
      BY <1>4 DEF CreateFeature
    <2>2. Fresh'
      BY <2>1 DEF NewFeature, Fresh
    <2> QED BY <2>1, <2>2, FreshInv
  <1>5. CASE ConvertPoints \/ ConvertLines \/ ConvertPolygons
    BY <1>4, <1>5 DEF ConvertPoints, ConvertLines, ConvertPolygons
  <1>6. CASE ReadNothing \/ ReadVertex \/ ReadClose
    BY <1>6, ReadStepsRead
  <1>7. CASE ReadBeyond \/ ReadTagsBeyond \/ AddNoLine
    <2>1. /\ UNCHANGED <<tile, layerIndex, featureIndex>> /\ pc' \in {"beyond", "crashed"}
          /\ pc \in {"read", "convert"}
      BY <1>7 DEF ReadBeyond, ReadTagsBeyond, AddNoLine, Drawing, Reading, ReadAll, position
    <2>2. Feature' = Feature
      BY <2>1 DEF Feature, Layer
    <2>3. Feature.shape = NoShape
      <3> SUFFICES ASSUME Feature.shape # NoShape PROVE FALSE
        OBVIOUS
      <3>1. ~ReadBeyond
        <4>1. pc # "read" => ~ReadBeyond
          BY DEF ReadBeyond, Drawing, Reading
        <4> QED BY <4>1, PointsFit, TurnsFit DEF ReadInv
      <3>2. ~ReadTagsBeyond
        BY <2>1, TagsThere DEF ReadTagsBeyond, OfFeature
      <3>3. ~AddNoLine
        BY LinesThere DEF AddNoLine, ReadInv
      <3> QED BY <1>7, <3>1, <3>2, <3>3
    <2> QED BY <2>1, <2>2, <2>3 DEF ReadInv, DrawnInv, PointsInv, DecodedInv, ReadsWhatIsThere
  <1>8. CASE ReadTags
    <2>1. pc = "read" /\ k > Len(Geometry) /\ pc' = "convert"
          /\ UNCHANGED <<tile, layerIndex, featureIndex, vtPoly, vtPolys>>
      BY <1>8 DEF ReadTags, ReadAll, position, reader
    <2>2. Feature' = Feature /\ PathsHere' = PathsHere /\ Lines' = Lines
      BY <2>1 DEF Feature, Layer, PathsHere, Lines
    <2>3. Feature.shape # NoShape =>
            /\ Feature.type = "POLYGON" => vtPolys = PathsHere
            /\ Feature.type = "LINESTRING" => Lines = PathsHere
            /\ Feature.type = "POINT" => vtPoly # <<>>
      BY <2>1, AllRead, SomeRead DEF ReadInv
    <2> QED BY <2>1, <2>2, <2>3 DEF ReadInv, DrawnInv, PointsInv, DecodedInv, ReadsWhatIsThere
  <1> QED BY <1>1, <1>2, <1>3, <1>5, <1>6, <1>7, <1>8 DEF AnyStep, Converting

LEMMA ReadInvInit ==
  ASSUME Init
  PROVE  ReadInv
PROOF
  BY DEF Init, ReadInv, DrawnInv, PointsInv, DecodedInv, ReadsWhatIsThere

-----------------------------------------------------------------------------
(* The rings that were read are grouped as the shape they were written for. *)

Rings(shape, i) == Upto(shape, i)

PartAt(shape, j) ==
  /\ shape[j] \in Seq(Ring) /\ IsSeq(shape[j]) /\ Len(shape[j]) \in Nat /\ Len(shape[j]) >= 1
  /\ DOMAIN shape[j] = 1 .. Len(shape[j])
  /\ Area(shape[j][1]) < 0 /\ \A i \in 2 .. Len(shape[j]) : Area(shape[j][i]) >= 0
  /\ Rings(shape, j - 1) \in Nat /\ Rings(shape, j) = Rings(shape, j - 1) + Len(shape[j])
  /\ Rings(shape, j) <= Len(PathsHere) /\ Len(PathsHere) \in Nat
  /\ \A i \in 1 .. Len(shape[j]) : PathsHere[Rings(shape, j - 1) + i] = shape[j][i]

LEMMA PartsHere ==
  ASSUME TileInv, pc \in OfFeature, Feature.shape # NoShape, Feature.type = "POLYGON"
  PROVE  /\ Len(Feature.shape) \in Nat /\ Len(Feature.shape) >= 1 /\ IsSeq(Feature.shape)
         /\ Rings(Feature.shape, 0) = 0 /\ Rings(Feature.shape, Len(Feature.shape)) = Len(PathsHere)
         /\ PathsHere \in Seq(Ring) /\ \A i \in DOMAIN PathsHere : IsRing(PathsHere[i])
         /\ \A j \in 1 .. Len(Feature.shape) : PartAt(Feature.shape, j)
PROOF
  <1> DEFINE shape == Feature.shape
             n == Len(shape)
  <1>1. /\ shape \in Seq(Seq(Ring)) /\ \A j \in DOMAIN shape : PolygonPart(shape[j])
    BY EncodedHere DEF Encoded
  <1>2. /\ AllSeqs(shape) /\ PathsHere \in Seq(Ring) /\ \A i \in DOMAIN PathsHere : IsRing(PathsHere[i])
    BY DrawnHere DEF Drawable
  <1>3. n \in Nat /\ DOMAIN shape = 1 .. n /\ IsSeq(shape)
    BY <1>1, SeqIsSeq
  <1>4. n # 0
    BY <1>1, EmptySeq DEF NoShape
  <1>5. PathsHere = FlattenSeq(shape)
    BY DEF PathsHere
  <1>a. \E paths : paths = PathsHere
    OBVIOUS
  <1>b. PICK paths : paths = PathsHere
    BY <1>a
  <1> HIDE DEF shape, n
  <1>6. /\ Upto(shape, 0) = 0
        /\ \A j \in 1 .. Len(shape) : Upto(shape, j) = Upto(shape, j - 1) + Len(shape[j])
        /\ \A j \in 0 .. Len(shape) : Upto(shape, j) \in Nat
    BY <1>2, JoinedSteps
  <1>7. Len(paths) = Upto(shape, Len(shape)) /\ Len(paths) \in Nat
    BY <1>2, <1>5, <1>b, FlattenAt, SeqIsSeq
  <1>8. ASSUME NEW j \in 1 .. n
        PROVE  PartAt(shape, j)
    <2>1. shape[j] \in Seq(Ring) /\ PolygonPart(shape[j])
      BY <1>1, <1>3, ElementOfSeq DEF n
    <2>2. IsSeq(shape[j]) /\ Len(shape[j]) \in Nat /\ DOMAIN shape[j] = 1 .. Len(shape[j])
      BY <2>1, SeqIsSeq
    <2>3. Len(shape[j]) # 0
      BY <2>1, EmptySeq DEF PolygonPart
    <2>4. Area(shape[j][1]) < 0 /\ \A i \in 2 .. Len(shape[j]) : Area(shape[j][i]) >= 0
      <3>1. /\ Area(shape[j][1]) < 0
            /\ \A i \in DOMAIN shape[j] \ {1} : Area(shape[j][i]) >= 0
        BY <2>1 DEF PolygonPart
      <3>2. \A i \in 2 .. Len(shape[j]) : i \in DOMAIN shape[j] \ {1}
        BY <2>2
      <3> QED BY <3>1, <3>2
    <2>5. /\ Upto(shape, j - 1) \in Nat /\ Upto(shape, j) = Upto(shape, j - 1) + Len(shape[j])
          /\ Upto(shape, j) <= Len(paths)
      <3>1. j - 1 \in 0 .. n /\ j \in 0 .. n /\ n \in 0 .. n /\ j <= n
        BY <1>3
      <3>2. Upto(shape, j) <= Upto(shape, n)
        BY <1>2, <3>1, EndsInOrder DEF n
      <3> QED BY <1>6, <1>7, <3>1, <3>2 DEF n
    <2>6. \A i \in 1 .. Len(shape[j]) : paths[Upto(shape, j - 1) + i] = shape[j][i]
      BY <1>2, <1>5, <1>b, <2>2, FlattenAt DEF n
    <2>7. Len(shape[j]) >= 1
      BY <2>2, <2>3
    <2> QED BY <1>7, <1>b, <2>1, <2>2, <2>4, <2>5, <2>6, <2>7 DEF PartAt, Rings
  <1> QED BY <1>2, <1>3, <1>4, <1>6, <1>7, <1>8, <1>b DEF Rings, shape, n

\* A polygon is made of the rings of one part.
LEMMA PartMade ==
  ASSUME NEW shape, NEW j, PartAt(shape, j),
         vtPolys = PathsHere, vtPolys \in Seq(Ring), \A i \in DOMAIN vtPolys : IsRing(vtPolys[i]),
         polyStart = Rings(shape, j - 1) + 1
  PROVE  PolygonUntil(Rings(shape, j)) = <<shape[j]>>
PROOF
  <1> DEFINE part == shape[j]
             l == Len(part)
             start == Rings(shape, j - 1)
             end == Rings(shape, j)
             holes == SubSeq(vtPolys, polyStart + 1, end)
             outer == <<vtPolys[polyStart]>>
             made == outer \o holes
  <1>1. /\ IsSeq(part) /\ l \in Nat /\ l >= 1 /\ DOMAIN part = 1 .. l
        /\ start \in Nat /\ end = start + l /\ end <= Len(vtPolys) /\ Len(vtPolys) \in Nat
        /\ \A i \in 1 .. l : vtPolys[start + i] = part[i]
    BY DEF PartAt
  <1>2. DOMAIN vtPolys = 1 .. Len(vtPolys)
    BY SeqIsSeq
  <1>3. vtPolys[polyStart] = part[1] /\ IsRing(vtPolys[polyStart])
    <2>1. 1 \in 1 .. l /\ polyStart = start + 1 /\ polyStart \in 1 .. Len(vtPolys)
      BY <1>1
    <2> HIDE DEF part, l, start, end
    <2> QED BY <1>1, <1>2, <2>1
  <1>4. /\ holes \in Seq({r \in Ring : IsRing(r)}) /\ IsSeq(holes) /\ Len(holes) = l - 1
        /\ \A i \in 1 .. l - 1 : holes[i] = part[i + 1]
    <2> DEFINE S == {r \in Ring : IsRing(r)}
               a == polyStart + 1
    <2>1. a \in Int /\ end \in Int /\ a = start + 2 /\ a >= 1
      BY <1>1
    <2>2. \A q \in a .. end : q \in 1 .. Len(vtPolys)
      BY <1>1, <2>1
    <2>3. \A q \in a .. end : vtPolys[q] \in S
      <3>1. \A q \in 1 .. Len(vtPolys) : vtPolys[q] \in Ring /\ IsRing(vtPolys[q])
        BY <1>2, ElementOfSeq
      <3> QED BY <2>2, <3>1
    <2> DEFINE h == SubSeq(vtPolys, a, end)
    <2> HIDE DEF S, a, part, l, start, end
    <2>4. /\ h \in Seq(S) /\ Len(h) = (IF a <= end THEN end - a + 1 ELSE 0)
          /\ \A i \in 1 .. end - a + 1 : h[i] = vtPolys[a + i - 1]
      BY <2>1, <2>3, SubSeqProperties
    <2> HIDE DEF h
    <2>5. Len(h) = l - 1 /\ end - a + 1 = l - 1
      BY <1>1, <2>1, <2>4
    <2>6. \A i \in 1 .. l - 1 : h[i] = part[i + 1]
      <3> TAKE i \in 1 .. l - 1
      <3>1. i + 1 \in 1 .. l /\ a + i - 1 = start + (i + 1) /\ i \in 1 .. end - a + 1
        BY <1>1, <2>1, <2>5
      <3> QED BY <1>1, <2>4, <3>1
    <2>7. IsSeq(h)
      BY <2>4, SeqIsSeq
    <2> QED BY <2>4, <2>5, <2>6, <2>7 DEF h, a, S
  <1>5. RingsIn(holes) = holes
    <2> DEFINE S == {r \in Ring : IsRing(r)}
    <2>1. holes \in Seq(S) /\ \A r \in S : IsRing(r)
      BY <1>4
    <2> HIDE DEF S, holes
    <2>2. \A i \in DOMAIN holes : IsRing(holes[i])
      BY <2>1, SeqIsSeq, ElementOfSeq
    <2> QED BY <2>1, <2>2, RingsInTyped
  <1>6. PolygonUntil(end) = <<made>>
    BY <1>3, <1>5 DEF PolygonUntil, CreateOGRPolygon
  <1>7. IsSeq(outer) /\ Len(outer) = 1 /\ outer[1] = part[1]
    <2>1. outer \in Seq({vtPolys[polyStart]}) /\ Len(outer) = 1 /\ outer[1] = vtPolys[polyStart]
      OBVIOUS
    <2> QED BY <1>3, <2>1, SeqIsSeq
  <1> HIDE DEF holes, outer, part, l, start, end
  <1>8. /\ IsSeq(made) /\ Len(made) = Len(outer) + Len(holes)
        /\ \A i \in 1 .. Len(outer) : made[i] = outer[i]
        /\ \A i \in 1 .. Len(holes) : made[Len(outer) + i] = holes[i]
    <2>1. IsSeq(outer) /\ IsSeq(holes)
      BY <1>4, <1>7
    <2> QED BY <2>1, ConcatPlaces
  <1> HIDE DEF made
  <1>9. Len(made) = l /\ DOMAIN made = 1 .. l
    <2>1. Len(made) = l
      BY <1>1, <1>4, <1>7, <1>8
    <2> QED BY <1>8, <2>1, IsSeqDomain
  <1>10. ASSUME NEW i \in 1 .. l PROVE made[i] = part[i]
    <2>1. CASE i = 1
      BY <1>7, <1>8, <2>1
    <2>2. CASE i # 1
      <3>1. PICK m \in 1 .. l - 1 : i = m + 1 /\ i = 1 + m
        BY <1>1, <2>2
      <3> QED BY <1>4, <1>7, <1>8, <3>1
    <2> QED BY <2>1, <2>2
  <1>11. made = part
    BY <1>1, <1>8, <1>9, <1>10, SameSeq
  <1> QED BY <1>6, <1>11 DEF end, part

\* The polygons made so far are the first parts of the shape, and the rings looked at
\* end in the next one.
AtPart(shape, j) ==
  /\ FirstOf(polygons, shape, j - 1) /\ polyStart = Rings(shape, j - 1) + 1
  /\ p \in polyStart .. Rings(shape, j) + 1

GroupedInv ==
  pc = "rings" =>
    /\ Feature.type = "POLYGON"
    /\ Feature.shape # NoShape =>
         /\ vtPolys = PathsHere
         /\ \E j \in 1 .. Len(Feature.shape) : AtPart(Feature.shape, j)

LEMMA FirstPart ==
  ASSUME TileInv, DecodedInv, BeginRings
  PROVE  GroupedInv'
PROOF
  <1>1. /\ pc = "convert" /\ Feature.type = "POLYGON"
        /\ UNCHANGED <<tile, layerIndex, featureIndex, vtPolys, p, polyStart, polygons>>
        /\ p = 1 /\ polyStart = 1 /\ polygons = <<>>
    BY DEF BeginRings, position, reader, rings, TileInv, NothingGrouped
  <1>2. Feature' = Feature /\ PathsHere' = PathsHere
    BY <1>1 DEF Feature, Layer, PathsHere
  <1>3. PICK shape : shape = Feature.shape
    OBVIOUS
  <1>4. ASSUME shape # NoShape
        PROVE  vtPolys = PathsHere /\ 1 \in 1 .. Len(shape) /\ AtPart(shape, 1)'
    <2>1. vtPolys = PathsHere
      BY <1>1, <1>3, <1>4 DEF DecodedInv
    <2>2. Len(shape) \in Nat /\ Len(shape) >= 1 /\ Rings(shape, 0) = 0
      BY <1>1, <1>3, <1>4, PartsHere DEF OfFeature
    <2>3. 1 \in 1 .. Len(shape)
      BY <2>2
    <2>4. PartAt(shape, 1)
      BY <1>1, <1>3, <1>4, <2>3, PartsHere DEF OfFeature
    <2>5. Rings(shape, 1) \in Nat
      BY <2>4 DEF PartAt
    <2>6. FirstOf(<<>>, shape, 0)
      BY EmptyIsSeq DEF FirstOf
    <2>7. 1 - 1 = 0
      OBVIOUS
    <2>8. /\ FirstOf(polygons', shape, 1 - 1) /\ polyStart' = Rings(shape, 1 - 1) + 1
          /\ p' \in polyStart' .. Rings(shape, 1) + 1
      BY <1>1, <2>2, <2>5, <2>6, <2>7
    <2>9. AtPart(shape, 1)'
      BY <2>8 DEF AtPart
    <2> QED BY <2>1, <2>3, <2>9
  <1>5. Feature'.shape # NoShape =>
          vtPolys' = PathsHere' /\ \E j \in 1 .. Len(Feature'.shape) : AtPart(Feature.shape, j)'
    <2>1. shape # NoShape =>
          vtPolys = PathsHere /\ \E j \in 1 .. Len(shape) : AtPart(shape, j)'
      BY <1>4
    <2>2. \A j : AtPart(Feature.shape, j)' <=> AtPart(shape, j)'
      BY <1>2, <1>3 DEF AtPart
    <2> QED BY <1>1, <1>2, <1>3, <2>1, <2>2
  <1> QED BY <1>1, <1>2, <1>5 DEF GroupedInv

LEMMA NextPart ==
  ASSUME TileInv, GroupedInv, NextRing
  PROVE  GroupedInv'
PROOF
  <1>1. /\ pc = "rings" /\ p <= Len(vtPolys) /\ p' = p + 1
        /\ StartsPolygon => polygons' = polygons \o PolygonUntil(p - 1) /\ polyStart' = p
        /\ ~StartsPolygon => polygons' = polygons /\ polyStart' = polyStart
        /\ UNCHANGED <<pc, tile, layerIndex, featureIndex, vtPolys>>
    BY DEF NextRing, position, reader
  <1>2. Feature' = Feature /\ PathsHere' = PathsHere /\ Feature.type = "POLYGON"
    BY <1>1 DEF Feature, Layer, PathsHere, GroupedInv
  <1> SUFFICES ASSUME Feature.shape # NoShape
               PROVE  GroupedInv'
    BY <1>1, <1>2 DEF GroupedInv
  <1>3. \E shape : shape = Feature.shape
    OBVIOUS
  <1>4. PICK shape : shape = Feature.shape
    BY <1>3
  <1>5. PICK j \in 1 .. Len(shape) : AtPart(shape, j)
    BY <1>1, <1>4 DEF GroupedInv
  <1> DEFINE n == Len(shape)
             start == Rings(shape, j - 1)
             end == Rings(shape, j)
  <1>6. /\ vtPolys = PathsHere /\ n \in Nat /\ IsSeq(shape)
        /\ Rings(shape, n) = Len(PathsHere)
        /\ vtPolys \in Seq(Ring) /\ \A i \in DOMAIN vtPolys : IsRing(vtPolys[i])
    <2>1. vtPolys = PathsHere
      BY <1>1 DEF GroupedInv
    <2> QED BY <1>1, <1>2, <1>4, <2>1, PartsHere DEF OfFeature
  <1>7. \A i \in 1 .. n : PartAt(shape, i)
    BY <1>1, <1>2, <1>4, PartsHere DEF OfFeature
  <1>8. /\ FirstOf(polygons, shape, j - 1) /\ polyStart = start + 1 /\ p \in polyStart .. end + 1
    BY <1>5 DEF AtPart
  <1>9. /\ Len(shape[j]) \in Nat /\ Len(shape[j]) >= 1
        /\ start \in Nat /\ end = start + Len(shape[j]) /\ end <= Len(PathsHere) /\ Len(PathsHere) \in Nat
        /\ \A i \in 2 .. Len(shape[j]) : Area(shape[j][i]) >= 0
        /\ \A i \in 1 .. Len(shape[j]) : PathsHere[start + i] = shape[j][i]
    <2>1. PartAt(shape, j)
      BY <1>7
    <2> QED BY <2>1 DEF PartAt
  <1>10. ASSUME NEW i \in 1 .. n, AtPart(shape, i)'
         PROVE  GroupedInv'
    <2>1. AtPart(Feature.shape, i)' /\ i \in 1 .. Len(Feature'.shape)
      BY <1>2, <1>4, <1>10 DEF AtPart
    <2> QED BY <1>1, <1>2, <1>6, <2>1 DEF GroupedInv
  <1> HIDE DEF n, start, end
  <1>11. CASE p <= end
    <2>1. ~StartsPolygon
      <3> SUFFICES ASSUME p > polyStart
                   PROVE  ~(Area(vtPolys[p]) < 0)
        BY DEF StartsPolygon
      <3>1. PICK i : i = p - start
        OBVIOUS
      <3>2. i \in 2 .. Len(shape[j]) /\ i \in 1 .. Len(shape[j]) /\ start + i = p
        BY <1>8, <1>9, <1>11, <3>1
      <3>3. Area(shape[j][i]) >= 0 /\ PathsHere[p] = shape[j][i]
        BY <1>9, <3>2
      <3>4. Area(shape[j][i]) \in Int
        <4>1. vtPolys[p] \in Ring
          <5>1. p \in 1 .. Len(vtPolys)
            BY <1>1, <1>6, <1>8, <1>9
          <5> QED BY <1>6, <5>1, ElementOfSeq
        <4> QED BY <1>6, <3>3, <4>1, AreaIsNumber
      <3> QED BY <1>6, <3>3, <3>4
    <2>2. p' \in polyStart .. end + 1
      <3>1. start \in Nat /\ end = start + Len(shape[j]) /\ Len(shape[j]) \in Nat
        BY <1>9
      <3>2. polyStart = start + 1 /\ p \in polyStart .. end + 1
        BY <1>8
      <3>3. polyStart \in Int /\ end \in Int
        BY <3>1, <3>2
      <3>4. p' = p + 1
        BY <1>1
      <3> QED BY <1>11, <3>2, <3>3, <3>4
    <2>3. AtPart(shape, j)'
      BY <1>1, <1>8, <2>1, <2>2 DEF AtPart, start, end
    <2> QED BY <1>10, <2>3 DEF n
  <1>12. CASE p > end
    <2>1. p = end + 1
      <3>1. start \in Nat /\ end \in Int /\ polyStart = start + 1 /\ p \in polyStart .. end + 1 /\ p > end
        BY <1>8, <1>9, <1>12
      <3> QED BY <3>1
    <2>2. j # n
      BY <1>1, <1>6, <1>9, <2>1 DEF end
    <2> DEFINE i == j + 1
    <2>3. i \in 1 .. n /\ i - 1 = j
      BY <1>6, <2>2 DEF n
    <2> HIDE DEF i
    <2>4. /\ Len(shape[i]) \in Nat /\ Len(shape[i]) >= 1 /\ Area(shape[i][1]) < 0
          /\ Rings(shape, i) = end + Len(shape[i])
          /\ \A m \in 1 .. Len(shape[i]) : PathsHere[end + m] = shape[i][m]
      <3>1. PartAt(shape, i)
        BY <1>7, <2>3
      <3>2. /\ Len(shape[i]) \in Nat /\ Len(shape[i]) >= 1 /\ Area(shape[i][1]) < 0
            /\ Rings(shape, i) = Rings(shape, i - 1) + Len(shape[i])
            /\ \A m \in 1 .. Len(shape[i]) : PathsHere[Rings(shape, i - 1) + m] = shape[i][m]
        BY <3>1 DEF PartAt
      <3> QED BY <2>3, <3>2 DEF end
    <2>5. StartsPolygon
      <3>1. p > polyStart
        BY <1>8, <1>9, <2>1
      <3>2. vtPolys[p] = shape[i][1]
        <4>1. 1 \in 1 .. Len(shape[i])
          BY <2>4
        <4> QED BY <1>6, <2>1, <2>4, <4>1
      <3> QED BY <2>4, <3>1, <3>2 DEF StartsPolygon
    <2>6. PolygonUntil(p - 1) = <<shape[j]>>
      <3>1. p - 1 = Rings(shape, j)
        BY <1>9, <2>1 DEF end
      <3>2. PolygonUntil(Rings(shape, j)) = <<shape[j]>>
        <4>1. PartAt(shape, j) /\ polyStart = Rings(shape, j - 1) + 1
          BY <1>7, <1>8 DEF start, n
        <4> QED BY <1>6, <4>1, PartMade
      <3> QED BY <3>1, <3>2
    <2>7. polygons' = Append(polygons, shape[j])
      <3>1. polygons' = polygons \o <<shape[j]>>
        BY <1>1, <2>5, <2>6
      <3>2. polygons \in Seq(Seq(Ring)) /\ shape[j] \in Seq(Ring)
        <4>1. PartAt(shape, j)
          BY <1>7 DEF n
        <4> QED BY <4>1 DEF PartAt, TileInv, TypeOK
      <3> QED BY <3>1, <3>2, AppendIsConcat
    <2>8. FirstOf(polygons', shape, i - 1)
      <3>1. j - 1 \in Nat /\ (j - 1) + 1 = j
        OBVIOUS
      <3>2. FirstOf(Append(polygons, shape[j]), shape, (j - 1) + 1)
        BY <1>8, <3>1, FirstAndNext
      <3> QED BY <2>3, <2>7, <3>1, <3>2
    <2>9. polyStart' = Rings(shape, i - 1) + 1
      BY <1>1, <2>1, <2>3, <2>5 DEF end
    <2>10. p' \in polyStart' .. Rings(shape, i) + 1
      <3>1. p' = end + 2 /\ polyStart' = end + 1 /\ end \in Nat
        BY <1>1, <1>9, <2>1, <2>5
      <3> QED BY <2>4, <3>1
    <2>11. AtPart(shape, i)'
      BY <2>8, <2>9, <2>10 DEF AtPart
    <2> QED BY <1>10, <2>3, <2>11
  <1>13. p \in Int /\ end \in Int
    BY <1>8, <1>9
  <1> QED BY <1>11, <1>12, <1>13

\* In the end the polygons are the shape.
LEMMA LastPart ==
  ASSUME TileInv, GroupedInv, pc = "rings", p > Len(vtPolys), Feature.shape # NoShape
  PROVE  (IF polyStart <= Len(vtPolys) THEN polygons \o PolygonUntil(Len(vtPolys)) ELSE polygons)
           = Feature.shape
PROOF
  <1>3. \E shape : shape = Feature.shape
    OBVIOUS
  <1>4. PICK shape : shape = Feature.shape
    BY <1>3
  <1>5. PICK j \in 1 .. Len(shape) : AtPart(shape, j)
    BY <1>4 DEF GroupedInv
  <1> DEFINE n == Len(shape)
             start == Rings(shape, j - 1)
             end == Rings(shape, j)
  <1>6. /\ vtPolys = PathsHere /\ n \in Nat /\ IsSeq(shape) /\ Feature.type = "POLYGON"
        /\ Rings(shape, n) = Len(PathsHere)
        /\ vtPolys \in Seq(Ring) /\ \A i \in DOMAIN vtPolys : IsRing(vtPolys[i])
    <2>1. vtPolys = PathsHere /\ Feature.type = "POLYGON"
      BY DEF GroupedInv
    <2> QED BY <1>4, <2>1, PartsHere DEF OfFeature
  <1>7. \A i \in 1 .. n : PartAt(shape, i)
    BY <1>4, <1>6, PartsHere DEF OfFeature
  <1>8. /\ FirstOf(polygons, shape, j - 1) /\ polyStart = start + 1 /\ p \in polyStart .. end + 1
    BY <1>5 DEF AtPart
  <1>9. PartAt(shape, j)
    BY <1>7
  <1>10. /\ Len(shape[j]) \in Nat /\ Len(shape[j]) >= 1 /\ shape[j] \in Seq(Ring)
         /\ start \in Nat /\ end = start + Len(shape[j]) /\ end <= Len(PathsHere) /\ Len(PathsHere) \in Nat
    BY <1>9 DEF PartAt
  <1>11. end = Len(vtPolys)
    <2>1. end \in Nat /\ p \in start + 1 .. end + 1 /\ p > Len(vtPolys) /\ Len(vtPolys) \in Nat
          /\ end <= Len(vtPolys) /\ start \in Nat
      BY <1>6, <1>8, <1>10
    <2> HIDE DEF end, start
    <2> QED BY <2>1
  <1>12. j = n
    <2> SUFFICES ASSUME j # n PROVE FALSE
      OBVIOUS
    <2> DEFINE i == j + 1
    <2>1. i \in 1 .. n /\ i - 1 = j
      BY <1>6
    <2> HIDE DEF i
    <2>2. /\ Len(shape[i]) \in Nat /\ Len(shape[i]) >= 1
          /\ Rings(shape, i) = Rings(shape, i - 1) + Len(shape[i])
          /\ Rings(shape, i) <= Len(PathsHere)
      <3>1. PartAt(shape, i)
        BY <1>7, <2>1
      <3> QED BY <3>1 DEF PartAt
    <2>3. Rings(shape, i - 1) = Len(PathsHere)
      BY <1>6, <1>11, <2>1
    <2> QED BY <1>10, <2>2, <2>3
  <1>13. polyStart <= Len(vtPolys)
    <2>1. end \in Nat /\ start \in Nat /\ end >= start + 1 /\ polyStart = start + 1
      BY <1>8, <1>10
    <2> QED BY <1>11, <2>1
  <1>14. PolygonUntil(Len(vtPolys)) = <<shape[j]>>
    <2>1. PolygonUntil(Rings(shape, j)) = <<shape[j]>>
      BY <1>6, <1>8, <1>9, PartMade
    <2> QED BY <1>11, <2>1
  <1>15. polygons \o <<shape[j]>> = Append(polygons, shape[j])
    <2>1. polygons \in Seq(Seq(Ring))
      BY DEF TileInv, TypeOK
    <2> QED BY <1>10, <2>1, AppendIsConcat
  <1>16. FirstOf(Append(polygons, shape[j]), shape, Len(shape))
    <2>1. j - 1 \in Nat /\ (j - 1) + 1 = j
      OBVIOUS
    <2>2. FirstOf(Append(polygons, shape[j]), shape, (j - 1) + 1)
      BY <1>8, <2>1, FirstAndNext
    <2> QED BY <1>12, <2>1, <2>2
  <1>17. Append(polygons, shape[j]) = shape
    BY <1>6, <1>16, FirstIsAll
  <1> QED BY <1>4, <1>13, <1>14, <1>15, <1>17

\* The lines that were read are the shape.
LEMMA LinesMade ==
  ASSUME TileInv, DecodedInv, pc = "convert", Feature.type = "LINESTRING", Feature.shape # NoShape
  PROVE  [i \in DOMAIN LinesIn(Lines) |-> <<LinesIn(Lines)[i]>>] = Feature.shape
PROOF
  <1> DEFINE n == Len(Feature.shape)
             s == [i \in DOMAIN Feature.shape |-> Feature.shape[i][1]]
             ones == [i \in DOMAIN s |-> <<s[i]>>]
  <1>1. /\ Feature.shape \in Seq(Seq(Ring)) /\ \A i \in DOMAIN Feature.shape : LinePart(Feature.shape[i])
    BY EncodedHere DEF Encoded, OfFeature
  <1>2. n \in Nat /\ DOMAIN Feature.shape = 1 .. n /\ Feature.shape = [i \in 1 .. n |-> Feature.shape[i]]
    <2> DEFINE shape == Feature.shape
    <2>1. shape \in Seq(Seq(Ring))
      BY <1>1
    <2> HIDE DEF shape
    <2>2. Len(shape) \in Nat /\ shape \in [1 .. Len(shape) -> Seq(Ring)]
      BY <2>1, LenProperties
    <2>3. DOMAIN shape = 1 .. Len(shape) /\ shape = [i \in 1 .. Len(shape) |-> shape[i]]
      BY <2>2
    <2> QED BY <2>2, <2>3 DEF shape
  <1>3. s \in [1 .. n -> {s[i] : i \in 1 .. n}] /\ DOMAIN s = 1 .. n /\ \A i \in 1 .. n : s[i] = Feature.shape[i][1]
    BY <1>2
  <1>4. \A i \in 1 .. n : <<Feature.shape[i][1]>> = Feature.shape[i] /\ IsLine(Feature.shape[i][1])
    <2> TAKE i \in 1 .. n
    <2>1. Feature.shape[i] \in Seq(Ring) /\ Len(Feature.shape[i]) = 1 /\ IsLine(Feature.shape[i][1])
      BY <1>1, <1>2, ElementOfSeq DEF LinePart
    <2> DEFINE part == Feature.shape[i]
    <2>2. part \in Seq(Ring) /\ Len(part) = 1
      BY <2>1
    <2> HIDE DEF part
    <2>3. <<part[1]>> \in Seq({part[1]}) /\ Len(<<part[1]>>) = 1 /\ <<part[1]>>[1] = part[1]
      OBVIOUS
    <2>4. IsSeq(part) /\ DOMAIN part = 1 .. 1 /\ IsSeq(<<part[1]>>)
      BY <2>2, <2>3, SeqIsSeq
    <2>5. \A m \in 1 .. 1 : m = 1
      OBVIOUS
    <2>6. <<part[1]>> = part
      BY <2>2, <2>3, <2>4, <2>5, SameSeq
    <2> QED BY <2>1, <2>6 DEF part
  <1>5. ones = Feature.shape
    <2>1. ones = [i \in 1 .. n |-> <<s[i]>>]
      BY <1>3
    <2>2. \A i \in 1 .. n : <<s[i]>> = Feature.shape[i]
      BY <1>3, <1>4
    <2> HIDE DEF ones, s, n
    <2>3. ones = [i \in 1 .. n |-> Feature.shape[i]]
      BY <2>1, <2>2
    <2> QED BY <1>2, <2>3
  <1> HIDE DEF s, n
  <1>6. IsSeq(s)
    BY <1>2, <1>3, CountedIsSeq
  <1>7. FlattenSeq(ones) = s
    BY <1>6, FlattenOfOnes
  <1>8. Lines = s
    <2>1. Lines = PathsHere
      BY DEF DecodedInv
    <2> QED BY <1>5, <1>7, <2>1 DEF PathsHere
  <1>9. LinesIn(Lines) = s
    <2>1. \A i \in DOMAIN s : IsLine(s[i])
      BY <1>3, <1>4
    <2>2. [i \in DOMAIN s |-> IF IsLine(s[i]) THEN <<s[i]>> ELSE <<>>] = ones
      BY <2>1
    <2> QED BY <1>7, <1>8, <2>2 DEF LinesIn
  <1> QED BY <1>5, <1>9

LEMMA GroupedKept ==
  ASSUME TileInv, ReadInv, GroupedInv, [AnyStep]_vars
  PROVE  GroupedInv'
PROOF
  <1>1. CASE UNCHANGED vars
    <2>1. UNCHANGED <<pc, tile, layerIndex, featureIndex, vtPolys, p, polyStart, polygons>>
      BY <1>1 DEF vars, position, reader, rings
    <2>2. Feature' = Feature /\ PathsHere' = PathsHere
      BY <2>1 DEF Feature, Layer, PathsHere
    <2>3. \E shape : shape = Feature.shape
      OBVIOUS
    <2>4. PICK shape : shape = Feature.shape
      BY <2>3
    <2>5. \A j : AtPart(shape, j)' <=> AtPart(shape, j)
      BY <2>1 DEF AtPart
    <2> QED BY <2>1, <2>2, <2>4, <2>5 DEF GroupedInv
  <1>2. CASE BeginRings
    BY <1>2, FirstPart DEF ReadInv
  <1>3. CASE NextRing
    BY <1>3, NextPart
  <1>4. CASE \/ \E at \in Nat \X Nat \X Nat : Open(at)
             \/ NoTile \/ EmptyTile \/ OpenTile \/ InflateBlock \/ UnpackFails \/ ParseTile
             \/ BeginLayer \/ Converted
             \/ ReadNothing \/ ReadVertex \/ ReadBeyond \/ ReadClose \/ UnknownCommand
             \/ ReadTags \/ ReadTagsBeyond
             \/ UnknownType \/ CreateFeatureFails \/ ConvertPoints \/ ConvertLines \/ AddNoLine
             \/ ConvertPolygons \/ Release \/ Destroy
    <2>1. pc' # "rings"
      BY <1>4 DEF Open, NoTile, EmptyTile, OpenTile, InflateBlock, UnpackFails, ParseTile, Converted,
         BeginLayer, ReadNothing, ReadVertex, ReadBeyond, ReadClose, UnknownCommand, Drawing, Reading,
         ReadTags, ReadTagsBeyond, UnknownType, CreateFeatureFails, ConvertPoints, ConvertLines,
         AddNoLine, ConvertPolygons, CreateFeature, Release, Destroy, Fail
    <2> QED BY <2>1 DEF GroupedInv
  <1> QED BY <1>1, <1>2, <1>3, <1>4 DEF AnyStep, Converting

LEMMA Divided ==
  ASSUME NEW w \in Nat, NEW d \in Nat \ {0}, NEW e \in Nat \ {0}, w % (d * e) = 0
  PROVE  LET s == (w \div d) \div e
         IN  s \in Nat /\ w \div d = e * s /\ w = d * (e * s)
PROOF
  <1> DEFINE f == d * e
             s == w \div f
  <1>1. f \in Nat \ {0} /\ w % f = 0
    OBVIOUS
  <1>2. w = f * s /\ s \in Nat
    <2> HIDE DEF f
    <2> QED BY <1>1
  <1> HIDE DEF s
  <1>3. w = d * (e * s) /\ e * s \in Nat
    BY <1>2
  <1>4. \A a \in Nat : \A b \in Nat \ {0} : (b * a) \div b = a
    OBVIOUS
  <1>5. w \div d = e * s
    BY <1>3, <1>4
  <1>6. (w \div d) \div e = s
    BY <1>2, <1>4, <1>5
  <1> QED BY <1>2, <1>3, <1>5, <1>6

LEMMA OnMapIsLocated ==
  ASSUME TileInv, pc \in OfFeature, NEW vertex \in Int \X Int
  PROVE  OnMap(vertex) = Located(Layer, vertex)
PROOF
  <1> DEFINE e == Layer.extent
             d == 2 ^ place[1]
             s == TileSize \div e
             h == MapWidth \div 2
  <1>1. /\ MapWidth \in Nat /\ d \in Nat \ {0} /\ e \in Nat \ {0}
        /\ MapWidth % 2 = 0 /\ MapWidth % (d * e) = 0 /\ place[2] \in Int /\ place[3] \in Int
    <2>1. /\ IsSeq(tile) /\ layerIndex \in DOMAIN tile
          /\ tile = <<>> \/ (place \in Places /\ tile \in Tiles[place])
      BY FeatureIsThere DEF TileInv
    <2>2. tile # <<>>
      BY <2>1, EmptyIsSeq
    <2>3. place \in Places /\ tile \in Tiles[place]
      BY <2>1, <2>2
    <2>4. place \in Nat \X Nat \X Nat
      BY DEF TileInv, TypeOK
    <2>5. place[2] \in Int /\ place[3] \in Int
      BY <2>4
    <2> QED BY <2>1, <2>3, <2>5, TilesAssumption DEF Layer
  <1>2. s \in Nat /\ TileSize = e * s /\ MapWidth = d * (e * s)
    BY <1>1, Divided DEF TileSize
  <1>3. h \in Nat /\ MapWidth = 2 * h
    BY <1>1
  <1>4. vertex[1] \in Int /\ vertex[2] \in Int
    OBVIOUS
  <1> DEFINE p2 == place[2]
             p3 == place[3]
             x1 == vertex[1]
             y1 == vertex[2]
  <1>5. OnMap(vertex) = <<(-h + p2 * TileSize) + x1 * s, (h - (d - p3 - 1) * TileSize) - y1 * s>>
    BY DEF OnMap, TileLeft, TileTop, MapLeft, MapTop
  <1>6. Located(Layer, vertex) = <<(p2 * e + x1) * s - h, ((p3 + 1) * e - y1) * s - h>>
    BY DEF Located
  <1>7. p2 \in Int /\ p3 \in Int /\ x1 \in Int /\ y1 \in Int /\ e \in Int /\ d \in Int /\ s \in Int /\ h \in Int
        /\ TileSize = e * s /\ d * (e * s) = 2 * h
    BY <1>1, <1>2, <1>3, <1>4
  <1> HIDE DEF e, d, s, h, p2, p3, x1, y1
  <1>8. (-h + p2 * TileSize) + x1 * s = (p2 * e + x1) * s - h
    BY <1>7
  <1>9. (h - (d - p3 - 1) * TileSize) - y1 * s = ((p3 + 1) * e - y1) * s - h
    <2>1. (d - p3 - 1) * (e * s) = d * (e * s) - (p3 + 1) * (e * s)
      BY <1>7
    <2>2. ((p3 + 1) * e - y1) * s = (p3 + 1) * (e * s) - y1 * s
      BY <1>7
    <2>3. (p3 + 1) * (e * s) \in Int /\ y1 * s \in Int
      BY <1>7
    <2> DEFINE a == (p3 + 1) * (e * s)
               b == y1 * s
               c == d * (e * s)
    <2> QED
      <3>1. (d - p3 - 1) * TileSize = c - a /\ c = 2 * h /\ ((p3 + 1) * e - y1) * s = a - b
        BY <1>7, <2>1, <2>2
      <3>2. a \in Int /\ b \in Int
        BY <2>3
      <3> HIDE DEF a, c
      <3> QED BY <1>7, <3>1, <3>2
  <1> QED BY <1>5, <1>6, <1>8, <1>9

LEMMA ShapeIsLocated ==
  ASSUME TileInv, pc \in OfFeature, NEW parts \in Seq(Seq(Ring))
  PROVE  ShapeOnMap(parts) = ShapeOf(Layer, parts)
PROOF
  <1>1. ASSUME NEW i \in DOMAIN parts, NEW j \in DOMAIN parts[i]
        PROVE  PathOnMap(parts[i][j]) = [v \in DOMAIN parts[i][j] |-> Located(Layer, parts[i][j][v])]
    <2>1. i \in 1 .. Len(parts) /\ parts[i] \in Seq(Ring)
      BY SeqIsSeq, ElementOfSeq
    <2>2. j \in 1 .. Len(parts[i]) /\ parts[i][j] \in Ring
      BY <2>1, SeqIsSeq, ElementOfSeq
    <2>3. ASSUME NEW v \in DOMAIN parts[i][j] PROVE OnMap(parts[i][j][v]) = Located(Layer, parts[i][j][v])
      <3>1. parts[i][j][v] \in Int \X Int
        BY <2>2, SeqIsSeq, ElementOfSeq DEF Ring
      <3> QED BY <3>1, OnMapIsLocated
    <2> QED BY <2>3 DEF PathOnMap
  <1> QED BY <1>1 DEF ShapeOnMap, ShapeOf

-----------------------------------------------------------------------------
(* Fields tell the attributes.                                             *)

\* A value that is of some kind has a first one.
LEMMA KindFound ==
  ASSUME NEW value, KindOf(value) # "none"
  PROVE  KindOf(value) \in DOMAIN value /\ KindOf(value) \in Range(Kinds)
PROOF
  <1> DEFINE set == {i \in DOMAIN Kinds : Kinds[i] \in DOMAIN value}
             first == CHOOSE i \in set : \A j \in set : i <= j
  <1>1. KindOf(value) = IF set = {} THEN "none" ELSE Kinds[first]
    BY DEF KindOf
  <1>2. DOMAIN Kinds = 1 .. 7
    BY DEF Kinds
  <1>3. set \subseteq Nat /\ set # {}
    BY <1>1, <1>2
  <1>4. \E i \in set : \A j \in set : i <= j
    <2> HIDE DEF set
    <2> QED BY <1>3, HasFirst
  <1>5. first \in set
    <2> HIDE DEF set
    <2> QED BY <1>4
  <1>6. first \in DOMAIN Kinds /\ Kinds[first] \in DOMAIN value
    BY <1>5
  <1>7. KindOf(value) = Kinds[first]
    BY <1>1, <1>3
  <1> QED BY <1>6, <1>7 DEF Range

\* A field of the one kind that counts tells its value.
LEMMA ValueTold ==
  ASSUME NEW value, ValueFits(value), KindOf(value) # "none"
  PROVE  Tells(<<FieldType(value), FieldValue(value)>>, [kind \in {KindOf(value)} |-> value[kind]])
PROOF
  <1>1. PICK kind : kind = KindOf(value)
    OBVIOUS
  <1>2. kind \in DOMAIN value /\ kind \in Range(Kinds)
    BY <1>1, KindFound
  <1>3. kind \in {"string", "float", "double", "int", "uint", "sint", "bool"}
    <2>1. PICK i \in DOMAIN Kinds : kind = Kinds[i]
      BY <1>2 DEF Range
    <2> QED BY <2>1 DEF Kinds
  <1> DEFINE half == 2 ^ (FieldBits - 1)
             all == 2 ^ FieldBits
             one == [other \in {kind} |-> value[other]]
             field == <<FieldType(value), FieldValue(value)>>
             v == value[kind]
  <1>4. half \in Nat \ {0} /\ all = 2 * half
    BY EncodedAssumption
  <1>5. DOMAIN one = {kind} /\ one[kind] = v
    OBVIOUS
  <1>6. CASE kind = "string"
    <2>1. field = <<"OFTString", v>>
      BY <1>1, <1>6 DEF FieldType, FieldValue
    <2> QED BY <1>1, <1>5, <1>6, <2>1 DEF Tells
  <1>7. CASE kind = "bool"
    <2>1. field = <<"OFTInteger", IF v THEN 1 ELSE 0>>
      BY <1>1, <1>7 DEF FieldType, FieldValue
    <2> QED BY <1>1, <1>5, <1>7, <2>1 DEF Tells
  <1>8. CASE kind \in {"float", "double"}
    <2>1. field = <<"OFTReal", v>>
      BY <1>1, <1>8 DEF FieldType, FieldValue
    <2> QED BY <1>1, <1>5, <1>8, <2>1 DEF Tells
  <1>9. CASE kind \in {"int", "sint", "uint"}
    <2>1. field[1] = "OFTInteger64" /\ field[2] = IF kind = "uint" /\ ~(v < half) THEN v - all ELSE v
      <3>1. FieldType(value) = "OFTInteger64"
        BY <1>1, <1>9 DEF FieldType
      <3>2. FieldValue(value) = IF kind = "uint" /\ ~(v < half) THEN v - all ELSE v
        BY <1>1, <1>9 DEF FieldValue
      <3> QED BY <3>1, <3>2
    <2>2. v \in Int /\ (kind = "uint" => v \in 0 .. all - 1) /\ (kind # "uint" => v \in -half .. half - 1)
      <3>1. CASE kind = "uint"
        BY <1>2, <1>4, <3>1 DEF ValueFits
      <3>2. CASE kind \in {"int", "sint"}
        BY <1>2, <1>4, <3>2 DEF ValueFits
      <3> QED BY <1>9, <3>1, <3>2
    <2> HIDE DEF v, half, all, field, one
    <2>3. \A a \in Int, b \in Nat \ {0} : (a = 0 \/ a = -b) => a % b = 0
      OBVIOUS
    <2>4. /\ field[2] \in Int /\ -2 * field[2] <= all /\ 2 * field[2] < all
          /\ field[2] - v \in Int /\ (field[2] - v = 0 \/ field[2] - v = -all)
      <3>1. CASE kind = "uint" /\ ~(v < half)
        BY <1>4, <2>1, <2>2, <3>1
      <3>2. CASE ~(kind = "uint" /\ ~(v < half))
        BY <1>4, <2>1, <2>2, <3>2
      <3> QED BY <3>1, <3>2
    <2>5. (field[2] - v) % all = 0
      BY <1>4, <2>3, <2>4
    <2>6. /\ field[1] = "OFTInteger64" /\ -2 * field[2] <= all /\ 2 * field[2] < all
          /\ (field[2] - one[kind]) % all = 0 /\ kind \in DOMAIN one
      BY <1>5, <2>1, <2>4, <2>5
    <2>7. Tells(field, one)
      BY <1>9, <2>6 DEF Tells, all
    <2> QED BY <1>1, <2>7 DEF field, one
  <1> QED BY <1>3, <1>6, <1>7, <1>8, <1>9

LEMMA FieldsTold ==
  ASSUME TileInv, pc \in OfFeature, Feature.shape # NoShape, NEW made, made.fields = Fields
  PROVE  SameAttributes(Layer, Feature, made)
PROOF
  <1> DEFINE n == Len(Feature.tags)
             told == {t \in 1 .. n \div 2 : KindOf(ValueOf(Layer, Feature, t)) # "none"}
  <1>1. /\ n % 2 = 0
        /\ \A t \in 1 .. n \div 2 : ValueFits(ValueOf(Layer, Feature, t))
        /\ \A t \in told : \A u \in told \ {t} : KeyOf(Layer, Feature, t) # KeyOf(Layer, Feature, u)
        /\ DOMAIN Feature.attributes = {KeyOf(Layer, Feature, t) : t \in told}
        /\ \A t \in told : Feature.attributes[KeyOf(Layer, Feature, t)]
                             = [kind \in {KindOf(ValueOf(Layer, Feature, t))} |-> ValueOf(Layer, Feature, t)[kind]]
    BY EncodedHere DEF Tagged
  <1>2. n \in Nat
    BY FeatureIsThere, SeqIsSeq
  <1>3. (n + 1) \div 2 = n \div 2
    <2> HIDE DEF n
    <2> QED BY <1>1, <1>2
  <1>4. \A t : TagKey(t) = KeyOf(Layer, Feature, t) /\ TagValue(t) = ValueOf(Layer, Feature, t)
    BY DEF TagKey, TagValue, KeyOf, ValueOf
  <1>5. TagPairs = told
    BY <1>3, <1>4 DEF TagPairs
  <1> DEFINE pairsOf(key) == {t \in TagPairs : TagKey(t) = key}
             first(pairs) == CHOOSE t \in pairs : \A u \in pairs : t <= u
             last(pairs) == CHOOSE t \in pairs : \A u \in pairs : u <= t
  <1>6. Fields = [key \in {TagKey(t) : t \in TagPairs} |->
                    <<FieldType(TagValue(first(pairsOf(key)))), FieldValue(TagValue(last(pairsOf(key))))>>]
    BY DEF Fields
  <1>7. \A t \in told : t \in Nat /\ pairsOf(TagKey(t)) = {t}
    <2> TAKE t \in told
    <2>1. t \in Nat
      OBVIOUS
    <2>2. \A u \in told : TagKey(u) = TagKey(t) <=> u = t
      BY <1>1, <1>4
    <2> HIDE DEF told
    <2> QED BY <1>5, <2>1, <2>2
  <1>8. \A t \in Nat : first({t}) = t /\ last({t}) = t
    OBVIOUS
  <1> HIDE DEF pairsOf, first, last, told, n
  <1>9. /\ DOMAIN Fields = {TagKey(t) : t \in told}
        /\ \A t \in told : Fields[TagKey(t)] = <<FieldType(TagValue(t)), FieldValue(TagValue(t))>>
    BY <1>5, <1>6, <1>7, <1>8
  <1>10. ASSUME NEW t \in told
         PROVE  Tells(Fields[TagKey(t)], Feature.attributes[TagKey(t)])
    <2>1. ValueFits(TagValue(t)) /\ KindOf(TagValue(t)) # "none"
      BY <1>1, <1>4 DEF told
    <2>2. Tells(<<FieldType(TagValue(t)), FieldValue(TagValue(t))>>,
                [kind \in {KindOf(TagValue(t))} |-> TagValue(t)[kind]])
      BY <2>1, ValueTold
    <2>3. Feature.attributes[TagKey(t)] = [kind \in {KindOf(TagValue(t))} |-> TagValue(t)[kind]]
      BY <1>1, <1>4
    <2> QED BY <1>9, <2>2, <2>3
  <1>11. DOMAIN Fields = DOMAIN Feature.attributes
    BY <1>1, <1>4, <1>9
  <1>12. \A key \in DOMAIN Fields : Tells(Fields[key], Feature.attributes[key])
    BY <1>9, <1>10
  <1> QED BY <1>11, <1>12 DEF SameAttributes

-----------------------------------------------------------------------------
(* The dataset and the features that were converted.                       *)

\* a shape of a layer at its place on the map, for the tile at any place
LocatedAt(at, layer, vertex) ==
  LET scale == (MapWidth \div 2 ^ at[1]) \div layer.extent
  IN  <<(at[2] * layer.extent + vertex[1]) * scale - MapWidth \div 2,
        ((at[3] + 1) * layer.extent - vertex[2]) * scale - MapWidth \div 2>>
ShapeAt(at, layer, shape) ==
  [i \in DOMAIN shape |-> [j \in DOMAIN shape[i] |->
     [v \in DOMAIN shape[i][j] |-> LocatedAt(at, layer, shape[i][j][v])]]]

\* polygons on the map, each with an exterior, and all of them turned the right way
Outlined(parts) ==
  /\ parts \in Seq(Seq(Ring))
  /\ \A j \in DOMAIN parts :
       /\ parts[j] # <<>> /\ Area(parts[j][1]) >= 0
       /\ \A n \in DOMAIN parts[j] \ {1} : Area(parts[j][n]) <= 0

\* What is said of a feature that was made of one of a tile, with its layer.
MadeOf(at, from, made) ==
  /\ made.type = from[2].type
  /\ from[2].type = "POLYGON" => TurnedOnMap(made.parts)
  /\ from[2].shape # NoShape =>
       /\ from[2].type # "POINT" => made.parts = ShapeAt(at, from[1], from[2].shape)
       /\ SameAttributes(from[1], from[2], made)
       /\ made.parts # <<>>
       /\ from[2].type = "POLYGON" => Outlined(made.parts)

\* the features of a tile with a name, layer by layer
NamedIn(t, name) ==
  [l \in DOMAIN t |->
    IF t[l].name # name THEN <<>>
    ELSE [i \in DOMAIN t[l].features |-> <<t[l], t[l].features[i]>>]]

\* how many of them come before feature i of layer l, and how many are in a dataset
PassedIn(t, name, l, i) ==
  Upto(NamedIn(t, name), l - 1) + (IF l \in DOMAIN t /\ t[l].name = name THEN i - 1 ELSE 0)
ListedIn(data, name) == IF name \in DOMAIN data THEN Len(data[name]) ELSE 0

\* The dataset has the features converted so far, in their order, and the layers begun.
Lists(at, t, l, i, data) ==
  /\ DOMAIN data \subseteq {t[m].name : m \in DOMAIN t}
  /\ \A m \in DOMAIN t : ListedIn(data, t[m].name) = PassedIn(t, t[m].name, l, i)
  /\ \A m \in DOMAIN t : m < l => t[m].name \in DOMAIN data
  /\ \A name \in DOMAIN data :
       /\ IsSeq(data[name])
       /\ \A n \in DOMAIN data[name] : MadeOf(at, FlattenSeq(NamedIn(t, name))[n], data[name][n])

ListInv ==
  /\ pc \in OfFeature \union {"layer", "dataset"} => Lists(place, tile, layerIndex, featureIndex, dataset)
  /\ pc = "dataset" => layerIndex > Len(tile)

RingInv == GroupInv /\ ListInv


TileIsSeq(t) == IsSeq(t) /\ \A l \in DOMAIN t : IsSeq(t[l].features)

LEMMA NamedTyped ==
  ASSUME NEW t, TileIsSeq(t), NEW name
  PROVE  /\ AllSeqs(NamedIn(t, name)) /\ Len(NamedIn(t, name)) = Len(t)
         /\ \A l \in DOMAIN t :
              /\ t[l].name # name => Len(NamedIn(t, name)[l]) = 0
              /\ t[l].name = name =>
                   /\ Len(NamedIn(t, name)[l]) = Len(t[l].features)
                   /\ DOMAIN NamedIn(t, name)[l] = DOMAIN t[l].features
                   /\ \A i \in DOMAIN t[l].features : NamedIn(t, name)[l][i] = <<t[l], t[l].features[i]>>
PROOF
  <1> DEFINE named == NamedIn(t, name)
             all(l) == [i \in DOMAIN t[l].features |-> <<t[l], t[l].features[i]>>]
  <1>1. IsSeq(t) /\ Len(t) \in Nat /\ DOMAIN t = 1 .. Len(t)
    BY IsSeqDomain DEF TileIsSeq
  <1>2. DOMAIN named = DOMAIN t /\ \A l \in DOMAIN t : named[l] = IF t[l].name # name THEN <<>> ELSE all(l)
    BY DEF NamedIn
  <1>3. \A l \in DOMAIN t :
          /\ DOMAIN all(l) = DOMAIN t[l].features
          /\ \A i \in DOMAIN t[l].features : all(l)[i] = <<t[l], t[l].features[i]>>
    OBVIOUS
  <1>4. named \in [1 .. Len(t) -> {named[l] : l \in DOMAIN t}]
    BY <1>1 DEF NamedIn
  <1>5. IsSeq(named) /\ Len(named) = Len(t)
    <2> HIDE DEF named
    <2> QED BY <1>1, <1>4, CountedIsSeq
  <1>6. \A l \in DOMAIN t : IsSeq(all(l)) /\ Len(all(l)) = Len(t[l].features)
    <2> TAKE l \in DOMAIN t
    <2> DEFINE fs == t[l].features
               made == all(l)
    <2>1. DOMAIN fs = 1 .. Len(fs) /\ Len(fs) \in Nat
      BY IsSeqDomain DEF TileIsSeq
    <2>2. made \in [1 .. Len(fs) -> {made[i] : i \in DOMAIN fs}]
      BY <2>1
    <2> HIDE DEF made, fs
    <2>3. IsSeq(made) /\ Len(made) = Len(fs)
      BY <2>1, <2>2, CountedIsSeq
    <2> QED BY <2>3 DEF made, fs
  <1> HIDE DEF named, all
  <1>7. \A l \in DOMAIN named : IsSeq(named[l])
    BY <1>2, <1>6, EmptyIsSeq
  <1>8. \A l \in DOMAIN t : t[l].name # name => Len(named[l]) = 0
    BY <1>2, EmptyIsSeq
  <1>9. \A l \in DOMAIN t : t[l].name = name =>
          /\ Len(named[l]) = Len(t[l].features)
          /\ DOMAIN named[l] = DOMAIN t[l].features
          /\ \A i \in DOMAIN t[l].features : named[l][i] = <<t[l], t[l].features[i]>>
    BY <1>2, <1>3, <1>6
  <1> QED BY <1>5, <1>7, <1>8, <1>9 DEF AllSeqs, named

LEMMA PassedSteps ==
  ASSUME NEW t, TileIsSeq(t), NEW name
  PROVE  /\ Upto(NamedIn(t, name), 0) = 0
         /\ \A l \in DOMAIN t :
              /\ l \in 1 .. Len(t) /\ Upto(NamedIn(t, name), l - 1) \in Nat
              /\ t[l].name # name => Upto(NamedIn(t, name), l) = Upto(NamedIn(t, name), l - 1)
              /\ t[l].name = name =>
                   Upto(NamedIn(t, name), l) = Upto(NamedIn(t, name), l - 1) + Len(t[l].features)
PROOF
  <1> DEFINE named == NamedIn(t, name)
             l == Len(t)
  <1>1. IsSeq(t) /\ l \in Nat /\ DOMAIN t = 1 .. l
    BY IsSeqDomain DEF TileIsSeq
  <1>2. /\ AllSeqs(named) /\ Len(named) = l
        /\ \A m \in DOMAIN t : /\ t[m].name # name => Len(named[m]) = 0
                               /\ t[m].name = name => Len(named[m]) = Len(t[m].features)
    BY NamedTyped
  <1> HIDE DEF named, l
  <1>3. /\ Upto(named, 0) = 0
        /\ \A m \in 1 .. l : Upto(named, m) = Upto(named, m - 1) + Len(named[m])
        /\ \A m \in 0 .. l : Upto(named, m) \in Nat
    BY <1>2, JoinedSteps
  <1>4. ASSUME NEW m \in DOMAIN t
        PROVE  /\ m \in 1 .. l /\ Upto(named, m - 1) \in Nat
               /\ t[m].name # name => Upto(named, m) = Upto(named, m - 1)
               /\ t[m].name = name => Upto(named, m) = Upto(named, m - 1) + Len(t[m].features)
    <2>1. m \in 1 .. l /\ m - 1 \in 0 .. l
      BY <1>1
    <2>2. Upto(named, m - 1) \in Nat /\ Upto(named, m) = Upto(named, m - 1) + Len(named[m])
      BY <1>3, <2>1
    <2>3. t[m].name # name => Upto(named, m) = Upto(named, m - 1)
      BY <1>2, <2>2
    <2>4. t[m].name = name => Upto(named, m) = Upto(named, m - 1) + Len(t[m].features)
      BY <1>2, <2>2
    <2> QED BY <2>1, <2>2, <2>3, <2>4
  <1> QED BY <1>3, <1>4 DEF named, l

\* Nothing is in the dataset at first.
LEMMA ListsNothing ==
  ASSUME NEW at, NEW t, TileIsSeq(t)
  PROVE  Lists(at, t, 1, 1, <<>>)
PROOF
  <1>1. DOMAIN <<>> = {}
    BY EmptyIsSeq
  <1>2. ASSUME NEW m \in DOMAIN t
        PROVE  ListedIn(<<>>, t[m].name) = 0 /\ PassedIn(t, t[m].name, 1, 1) = 0
    <2>1. Upto(NamedIn(t, t[m].name), 0) = 0
      BY PassedSteps
    <2>2. 1 - 1 = 0
      OBVIOUS
    <2> QED BY <1>1, <2>1, <2>2 DEF ListedIn, PassedIn
  <1>3. \A m \in DOMAIN t : ~(m < 1)
    <2>1. DOMAIN t = 1 .. Len(t)
      BY IsSeqDomain DEF TileIsSeq
    <2> QED BY <2>1
  <1> QED BY <1>1, <1>2, <1>3 DEF Lists

\* A layer is begun, and left if there is nothing in it.
LEMMA ListsBegin ==
  ASSUME NEW at, NEW t, TileIsSeq(t), NEW l \in DOMAIN t, NEW data, Lists(at, t, l, 1, data),
         NEW more, more = [name \in DOMAIN data \union {t[l].name} |->
                             IF name \in DOMAIN data THEN data[name] ELSE <<>>]
  PROVE  /\ Lists(at, t, l, 1, more) /\ t[l].name \in DOMAIN more
         /\ t[l].features = <<>> => Lists(at, t, l + 1, 1, more)
PROOF
  <1>1. /\ DOMAIN data \subseteq {t[m].name : m \in DOMAIN t}
        /\ \A m \in DOMAIN t : ListedIn(data, t[m].name) = PassedIn(t, t[m].name, l, 1)
        /\ \A m \in DOMAIN t : m < l => t[m].name \in DOMAIN data
        /\ \A name \in DOMAIN data :
             /\ IsSeq(data[name])
             /\ \A n \in DOMAIN data[name] : MadeOf(at, FlattenSeq(NamedIn(t, name))[n], data[name][n])
    BY DEF Lists
  <1>2. /\ DOMAIN more = DOMAIN data \union {t[l].name}
        /\ \A name \in DOMAIN data : more[name] = data[name]
        /\ t[l].name \notin DOMAIN data => more[t[l].name] = <<>>
    OBVIOUS
  <1>3. DOMAIN more \subseteq {t[m].name : m \in DOMAIN t}
    BY <1>1, <1>2
  <1>4. \A name : ListedIn(more, name) = ListedIn(data, name)
    <2> TAKE name
    <2>1. CASE name \in DOMAIN data
      BY <1>2, <2>1 DEF ListedIn
    <2>2. CASE name \notin DOMAIN data /\ name = t[l].name
      BY <1>2, <2>2, EmptyIsSeq DEF ListedIn
    <2>3. CASE name \notin DOMAIN data /\ name # t[l].name
      BY <1>2, <2>3 DEF ListedIn
    <2> QED BY <2>1, <2>2, <2>3
  <1>5. \A name \in DOMAIN more :
          /\ IsSeq(more[name])
          /\ \A n \in DOMAIN more[name] : MadeOf(at, FlattenSeq(NamedIn(t, name))[n], more[name][n])
    <2> TAKE name \in DOMAIN more
    <2>1. CASE name \in DOMAIN data
      BY <1>1, <1>2, <2>1
    <2>2. CASE name \notin DOMAIN data
      <3>1. more[name] = <<>>
        BY <1>2, <2>2
      <3> QED BY <3>1, EmptyIsSeq
    <2> QED BY <2>1, <2>2
  <1>6. /\ Lists(at, t, l, 1, more)
        /\ \A m \in DOMAIN t : m < l + 1 => t[m].name \in DOMAIN more
    <2>1. \A m \in DOMAIN t : m < l => t[m].name \in DOMAIN more
      BY <1>1, <1>2
    <2>2. \A m \in DOMAIN t : m < l + 1 => m < l \/ m = l
      <3>1. DOMAIN t = 1 .. Len(t)
        BY IsSeqDomain DEF TileIsSeq
      <3> QED BY <3>1
    <2>3. \A m \in DOMAIN t : m < l + 1 => t[m].name \in DOMAIN more
      BY <1>2, <2>1, <2>2
    <2>4. Lists(at, t, l, 1, more)
      BY <1>1, <1>3, <1>4, <1>5, <2>1 DEF Lists
    <2> QED BY <2>3, <2>4
  <1>7. ASSUME t[l].features = <<>>, NEW m \in DOMAIN t
        PROVE  PassedIn(t, t[m].name, l + 1, 1) = PassedIn(t, t[m].name, l, 1)
    <2> DEFINE name == t[m].name
               before == Upto(NamedIn(t, name), l - 1)
               now == Upto(NamedIn(t, name), l)
    <2>1. /\ l \in 1 .. Len(t) /\ before \in Nat
          /\ t[l].name # name => now = before
          /\ t[l].name = name => now = before + Len(t[l].features)
      BY PassedSteps
    <2>2. now = before
      <3>1. Len(t[l].features) = 0
        BY <1>7, EmptyIsSeq
      <3> HIDE DEF now, before, name
      <3> QED BY <2>1, <3>1
    <2>3. (l + 1) - 1 = l /\ 1 - 1 = 0
      BY <2>1
    <2>4. PassedIn(t, name, l, 1) = before + 0
      BY <2>3 DEF PassedIn
    <2>5. PassedIn(t, name, l + 1, 1) = now + 0
      BY <2>3 DEF PassedIn
    <2> QED BY <2>2, <2>4, <2>5
  <1>8. t[l].features = <<>> => Lists(at, t, l + 1, 1, more)
    <2> SUFFICES ASSUME t[l].features = <<>> PROVE Lists(at, t, l + 1, 1, more)
      OBVIOUS
    <2>1. \A m \in DOMAIN t : ListedIn(more, t[m].name) = PassedIn(t, t[m].name, l + 1, 1)
      BY <1>1, <1>4, <1>7
    <2> QED BY <1>3, <1>5, <1>6, <2>1 DEF Lists
  <1> QED BY <1>2, <1>6, <1>8

\* A feature is added to those with the name of its layer.
LEMMA ListsMore ==
  ASSUME NEW at, NEW t, TileIsSeq(t), NEW l \in DOMAIN t, NEW i \in DOMAIN t[l].features,
         NEW data, Lists(at, t, l, i, data), t[l].name \in DOMAIN data,
         NEW made, MadeOf(at, <<t[l], t[l].features[i]>>, made),
         NEW more, more = [data EXCEPT ![t[l].name] = Append(@, made)]
  PROVE  /\ i # Len(t[l].features) => Lists(at, t, l, i + 1, more)
         /\ i = Len(t[l].features) => Lists(at, t, l + 1, 1, more)
PROOF
  <1> DEFINE name == t[l].name
             old == data[name]
             before == Upto(NamedIn(t, name), l - 1)
  <1>1. /\ DOMAIN data \subseteq {t[m].name : m \in DOMAIN t}
        /\ \A m \in DOMAIN t : ListedIn(data, t[m].name) = PassedIn(t, t[m].name, l, i)
        /\ \A m \in DOMAIN t : m < l => t[m].name \in DOMAIN data
        /\ \A other \in DOMAIN data :
             /\ IsSeq(data[other])
             /\ \A n \in DOMAIN data[other] : MadeOf(at, FlattenSeq(NamedIn(t, other))[n], data[other][n])
    BY DEF Lists
  <1>2. /\ DOMAIN more = DOMAIN data
        /\ more[name] = Append(old, made)
        /\ \A other \in DOMAIN data : other # name => more[other] = data[other]
    OBVIOUS
  <1>3. IsSeq(old) /\ Len(old) \in Nat /\ DOMAIN old = 1 .. Len(old)
    BY <1>1, IsSeqDomain
  <1>4. /\ IsSeq(more[name]) /\ Len(more[name]) = Len(old) + 1
        /\ DOMAIN more[name] = DOMAIN old \union {Len(old) + 1}
        /\ \A n \in DOMAIN old : more[name][n] = old[n]
        /\ more[name][Len(old) + 1] = made
    BY <1>2, <1>3, AppendIsSeq
  <1>5. /\ l \in 1 .. Len(t) /\ before \in Nat
        /\ i \in 1 .. Len(t[l].features) /\ Len(t[l].features) \in Nat
    <2>1. IsSeq(t[l].features)
      BY DEF TileIsSeq
    <2> QED BY <2>1, PassedSteps, IsSeqDomain
  <1>6. Len(old) = before + (i - 1)
    <2>1. ListedIn(data, name) = PassedIn(t, name, l, i)
      BY <1>1
    <2> QED BY <2>1 DEF ListedIn, PassedIn
  <1>7. FlattenSeq(NamedIn(t, name))[Len(old) + 1] = <<t[l], t[l].features[i]>>
    <2> DEFINE named == NamedIn(t, name)
    <2>1. /\ AllSeqs(named) /\ Len(named) = Len(t) /\ i \in DOMAIN named[l]
          /\ named[l][i] = <<t[l], t[l].features[i]>>
      BY NamedTyped
    <2>2. Len(old) + 1 = before + i
      <3> HIDE DEF before, old
      <3> QED BY <1>5, <1>6
    <2> HIDE DEF named
    <2>3. FlattenSeq(named)[Upto(named, l - 1) + i] = named[l][i]
      BY <1>5, <2>1, FlattenAt
    <2> QED BY <2>1, <2>2, <2>3 DEF named
  <1> HIDE DEF old
  <1>8. \A other \in DOMAIN more :
          /\ IsSeq(more[other])
          /\ \A n \in DOMAIN more[other] : MadeOf(at, FlattenSeq(NamedIn(t, other))[n], more[other][n])
    <2> TAKE other \in DOMAIN more
    <2>1. CASE other # name
      BY <1>1, <1>2, <2>1
    <2>2. CASE other = name
      <3>1. ASSUME NEW n \in DOMAIN more[name]
            PROVE  MadeOf(at, FlattenSeq(NamedIn(t, name))[n], more[name][n])
        <4>1. CASE n \in DOMAIN old
          BY <1>1, <1>4, <4>1 DEF old
        <4>2. CASE n = Len(old) + 1
          BY <1>4, <1>7, <4>2
        <4> QED BY <1>4, <4>1, <4>2
      <3> QED BY <1>4, <2>2, <3>1
    <2> QED BY <2>1, <2>2
  <1>9. \A other : ListedIn(more, other) = IF other = name THEN ListedIn(data, other) + 1
                                                          ELSE ListedIn(data, other)
    <2> TAKE other
    <2>1. CASE other = name
      <3>1. ListedIn(more, name) = Len(more[name]) /\ ListedIn(data, name) = Len(old)
        BY <1>2 DEF ListedIn, old
      <3> QED BY <1>4, <2>1, <3>1
    <2>2. CASE other # name
      BY <1>2, <2>2 DEF ListedIn
    <2> QED BY <2>1, <2>2
  <1>10. ASSUME i # Len(t[l].features) PROVE Lists(at, t, l, i + 1, more)
    <2>1. ASSUME NEW m \in DOMAIN t
          PROVE  ListedIn(more, t[m].name) = PassedIn(t, t[m].name, l, i + 1)
      <3> DEFINE other == t[m].name
                 base == Upto(NamedIn(t, other), l - 1)
      <3>1. base \in Nat
        BY PassedSteps
      <3>2. ListedIn(data, other) = PassedIn(t, other, l, i)
        BY <1>1
      <3> HIDE DEF other
      <3>3. CASE other = name
        <4>1. PassedIn(t, other, l, i) = base + (i - 1) /\ PassedIn(t, other, l, i + 1) = base + ((i + 1) - 1)
          BY <3>3 DEF PassedIn
        <4>2. ListedIn(more, other) = ListedIn(data, other) + 1
          BY <1>9, <3>3
        <4> HIDE DEF base
        <4>3. ListedIn(more, other) = PassedIn(t, other, l, i + 1)
          BY <1>5, <3>1, <3>2, <4>1, <4>2
        <4> QED BY <4>3 DEF other
      <3>4. CASE other # name
        <4>1. PassedIn(t, other, l, i) = PassedIn(t, other, l, i + 1)
          BY <3>4 DEF PassedIn
        <4>2. ListedIn(more, other) = ListedIn(data, other)
          BY <1>9, <3>4
        <4> QED BY <3>2, <4>1, <4>2 DEF other
      <3> QED BY <3>3, <3>4
    <2> HIDE DEF name, before
    <2> QED BY <1>1, <1>2, <1>8, <2>1 DEF Lists
  <1>11. ASSUME i = Len(t[l].features) PROVE Lists(at, t, l + 1, 1, more)
    <2>1. ASSUME NEW m \in DOMAIN t
          PROVE  ListedIn(more, t[m].name) = PassedIn(t, t[m].name, l + 1, 1)
      <3> DEFINE other == t[m].name
                 base == Upto(NamedIn(t, other), l - 1)
                 now == Upto(NamedIn(t, other), l)
      <3>1. /\ base \in Nat
            /\ name # other => now = base
            /\ name = other => now = base + Len(t[l].features)
        BY PassedSteps
      <3>2. ListedIn(data, other) = PassedIn(t, other, l, i)
        BY <1>1
      <3>3. PassedIn(t, other, l + 1, 1) = now + 0
        <4>1. (l + 1) - 1 = l /\ 1 - 1 = 0
          BY <1>5
        <4> QED BY <4>1 DEF PassedIn
      <3> HIDE DEF other, now
      <3>4. CASE other = name
        <4>1. PassedIn(t, other, l, i) = base + (i - 1)
          BY <3>4 DEF PassedIn
        <4>2. ListedIn(more, other) = ListedIn(data, other) + 1
          BY <1>9, <3>4
        <4> HIDE DEF base
        <4>3. ListedIn(more, other) = PassedIn(t, other, l + 1, 1)
          BY <1>5, <1>11, <3>1, <3>2, <3>3, <3>4, <4>1, <4>2
        <4> QED BY <4>3 DEF other
      <3>5. CASE other # name
        <4>1. PassedIn(t, other, l, i) = base + 0
          BY <3>5 DEF PassedIn
        <4>2. ListedIn(more, other) = ListedIn(data, other)
          BY <1>9, <3>5
        <4> QED BY <3>1, <3>2, <3>3, <3>5, <4>1, <4>2 DEF other
      <3> QED BY <3>4, <3>5
    <2>2. \A m \in DOMAIN t : m < l + 1 => t[m].name \in DOMAIN more
      <3>1. \A m \in DOMAIN t : m < l + 1 => m < l \/ m = l
        <4>1. DOMAIN t = 1 .. Len(t)
          BY IsSeqDomain DEF TileIsSeq
        <4> QED BY <4>1
      <3> QED BY <1>1, <1>2, <3>1
    <2> HIDE DEF name, before
    <2> QED BY <1>1, <1>2, <1>8, <2>1, <2>2 DEF Lists
  <1> QED BY <1>10, <1>11

\* A tile of the database is a sequence of layers with sequences of features.
LEMMA TileInDatabase ==
  ASSUME NEW at \in Places, NEW t \in Tiles[at]
  PROVE  TileIsSeq(t)
PROOF
  <1>1. /\ t \in Seq(Range(t))
        /\ \A l \in DOMAIN t : t[l].features \in Seq(Range(t[l].features))
    BY TilesAssumption, Zenon
  <1> QED BY <1>1, SeqIsSeq, Zenon DEF TileIsSeq

LEMMA TileHere ==
  ASSUME TileInv
  PROVE  TileIsSeq(tile)
PROOF
  BY TileIsTyped DEF TileInv, TileIsSeq

\* The shape that was encoded is put at its place on the map.
LEMMA ShapeMade ==
  ASSUME TileInv, pc \in OfFeature, Feature.shape # NoShape, NEW parts, parts = Feature.shape
  PROVE  ShapeOnMap(parts) = ShapeAt(place, Layer, Feature.shape)
PROOF
  <1>1. parts \in Seq(Seq(Ring))
    BY EncodedHere DEF Encoded
  <1>2. ShapeOnMap(parts) = ShapeOf(Layer, parts)
    BY <1>1, ShapeIsLocated
  <1>3. ShapeOf(Layer, parts) = ShapeAt(place, Layer, parts)
    BY DEF ShapeOf, ShapeAt, Located, LocatedAt, TileSize
  <1> QED BY <1>2, <1>3

LEMMA CountedIn ==
  ASSUME NEW n \in Nat, NEW S, NEW s \in [1 .. n -> S]
  PROVE  s \in Seq(S)
PROOF
  OBVIOUS

\* A path, and the parts of a shape, on the map are of numbers again.
LEMMA ShapeOnMapTyped ==
  ASSUME TileInv, pc \in OfFeature, NEW parts \in Seq(Seq(Ring))
  PROVE  ShapeOnMap(parts) \in Seq(Seq(Ring))
PROOF
  <1>1. ASSUME NEW path \in Ring PROVE PathOnMap(path) \in Ring
    <2>1. TileLeft \in Int /\ TileTop \in Int /\ TileSize \div Layer.extent \in Int
      BY MapIsNumber
    <2>2. DOMAIN path = 1 .. Len(path) /\ Len(path) \in Nat
      BY SeqIsSeq DEF Ring
    <2>3. ASSUME NEW v \in DOMAIN path PROVE OnMap(path[v]) \in Int \X Int
      <3>1. path[v] \in Int \X Int
        BY <2>2, ElementOfSeq DEF Ring
      <3>2. PICK vertex : vertex = path[v]
        OBVIOUS
      <3>3. vertex[1] \in Int /\ vertex[2] \in Int
        BY <3>1, <3>2
      <3>4. OnMap(vertex) = <<TileLeft + vertex[1] * (TileSize \div Layer.extent),
                              TileTop - vertex[2] * (TileSize \div Layer.extent)>>
        BY DEF OnMap
      <3>5. OnMap(vertex) \in Int \X Int
        BY <2>1, <3>3, <3>4
      <3> QED BY <3>2, <3>5
    <2>4. PathOnMap(path) \in [1 .. Len(path) -> Int \X Int]
      BY <2>2, <2>3 DEF PathOnMap
    <2> QED BY <2>2, <2>4, CountedIn DEF Ring
  <1>2. \A j \in DOMAIN parts : parts[j] \in Seq(Ring)
    BY SeqIsSeq, ElementOfSeq
  <1>3. ASSUME NEW j \in DOMAIN parts
        PROVE  [n \in DOMAIN parts[j] |-> PathOnMap(parts[j][n])] \in Seq(Ring)
    <2>1. DOMAIN parts[j] = 1 .. Len(parts[j]) /\ Len(parts[j]) \in Nat
      BY <1>2, SeqIsSeq
    <2>2. \A n \in DOMAIN parts[j] : PathOnMap(parts[j][n]) \in Ring
      BY <1>1, <1>2, <2>1, ElementOfSeq
    <2>3. [n \in DOMAIN parts[j] |-> PathOnMap(parts[j][n])] \in [1 .. Len(parts[j]) -> Ring]
      BY <2>1, <2>2
    <2> QED BY <2>1, <2>3, CountedIn
  <1>4. DOMAIN parts = 1 .. Len(parts) /\ Len(parts) \in Nat
    BY SeqIsSeq
  <1>5. ShapeOnMap(parts) \in [1 .. Len(parts) -> Seq(Ring)]
    BY <1>3, <1>4 DEF ShapeOnMap
  <1> QED BY <1>4, <1>5, CountedIn

\* A polygon that was encoded is turned the right way.
LEMMA ShapeOutlined ==
  ASSUME TileInv, pc \in OfFeature, Feature.shape # NoShape, Feature.type = "POLYGON",
         NEW parts, parts = Feature.shape
  PROVE  Outlined(ShapeOnMap(parts))
PROOF
  <1>1. parts \in Seq(Seq(Ring)) /\ \A j \in DOMAIN parts : PolygonPart(parts[j])
    BY EncodedHere DEF Encoded
  <1>2. \A j \in DOMAIN parts : parts[j] \in Seq(Ring)
    BY <1>1, SeqIsSeq, ElementOfSeq
  <1> DEFINE shape == ShapeOnMap(parts)
  <1>3. /\ DOMAIN shape = DOMAIN parts
        /\ \A j \in DOMAIN parts :
             /\ DOMAIN shape[j] = DOMAIN parts[j]
             /\ \A n \in DOMAIN parts[j] : shape[j][n] = PathOnMap(parts[j][n])
    BY DEF ShapeOnMap
  <1>4. shape \in Seq(Seq(Ring))
    BY <1>1, ShapeOnMapTyped
  <1> HIDE DEF shape
  <1>5. ASSUME NEW j \in DOMAIN shape
        PROVE  /\ shape[j] # <<>> /\ Area(shape[j][1]) >= 0
               /\ \A n \in DOMAIN shape[j] \ {1} : Area(shape[j][n]) <= 0
    <2>1. /\ parts[j] # <<>> /\ parts[j] \in Seq(Ring) /\ Area(parts[j][1]) < 0
          /\ \A n \in DOMAIN parts[j] \ {1} : Area(parts[j][n]) >= 0
      BY <1>1, <1>2, <1>3 DEF PolygonPart
    <2>2. DOMAIN parts[j] = 1 .. Len(parts[j]) /\ Len(parts[j]) \in Nat /\ Len(parts[j]) # 0
      BY <2>1, SeqIsSeq, EmptySeq
    <2>3. 1 \in DOMAIN parts[j]
      BY <2>2
    <2>4. \A n \in DOMAIN parts[j] : parts[j][n] \in Ring
      BY <2>1, <2>2, ElementOfSeq
    <2>5. shape[j] # <<>>
      BY <1>3, <2>3, EmptyIsSeq
    <2>6. Area(shape[j][1]) >= 0
      BY <1>3, <2>1, <2>3, <2>4, TurnedAround
    <2>7. \A n \in DOMAIN shape[j] \ {1} : Area(shape[j][n]) <= 0
      BY <1>3, <2>1, <2>4, TurnedAround
    <2> QED BY <2>5, <2>6, <2>7
  <1> QED BY <1>4, <1>5 DEF Outlined, shape

\* The parts that points and lines are made of.
LEMMA MappedIsSeq ==
  ASSUME NEW s, IsSeq(s)
  PROVE  /\ IsSeq([i \in DOMAIN s |-> << <<s[i]>> >>])
         /\ s # <<>> => [i \in DOMAIN s |-> << <<s[i]>> >>] # <<>>
PROOF
  <1> DEFINE made == [i \in DOMAIN s |-> << <<s[i]>> >>]
  <1>1. DOMAIN s = 1 .. Len(s) /\ Len(s) \in Nat
    BY IsSeqDomain
  <1>2. made \in [1 .. Len(s) -> {made[i] : i \in DOMAIN s}] /\ DOMAIN made = DOMAIN s
    BY <1>1
  <1> HIDE DEF made
  <1>3. IsSeq(made)
    BY <1>1, <1>2, CountedIsSeq
  <1>4. made = <<>> => s = <<>>
    BY <1>1, <1>2, EmptyIsSeq, SameSeq
  <1> QED BY <1>3, <1>4 DEF made

LEMMA SinglesAreSeq ==
  ASSUME NEW s, IsSeq(s)
  PROVE  IsSeq([i \in DOMAIN s |-> <<s[i]>>])
PROOF
  <1> DEFINE made == [i \in DOMAIN s |-> <<s[i]>>]
  <1>1. DOMAIN s = 1 .. Len(s) /\ Len(s) \in Nat
    BY IsSeqDomain
  <1>2. made \in [1 .. Len(s) -> {made[i] : i \in DOMAIN s}]
    BY <1>1
  <1> HIDE DEF made
  <1> QED BY <1>1, <1>2, CountedIsSeq DEF made

LEMMA LinesAreSeq ==
  ASSUME TileInv
  PROVE  IsSeq(LinesIn(Lines))
PROOF
  <1> DEFINE one(i) == IF IsLine(Lines[i]) THEN <<Lines[i]>> ELSE <<>>
             ones == [i \in DOMAIN Lines |-> one(i)]
  <1>1. IsSeq(Lines)
    BY SeqIsSeq, AppendIsSeq DEF TileInv, TypeOK, Lines
  <1>2. DOMAIN Lines = 1 .. Len(Lines) /\ Len(Lines) \in Nat
    BY <1>1, IsSeqDomain
  <1>3. \A i : IsSeq(one(i))
    <2>1. \A e : IsSeq(<<e>>)
      <3> TAKE e
      <3>1. <<e>> \in Seq({e})
        OBVIOUS
      <3> QED BY <3>1, SeqIsSeq
    <2> QED BY <2>1, EmptyIsSeq
  <1>4. LinesIn(Lines) = FlattenSeq(ones)
    BY DEF LinesIn
  <1>5. ones \in [1 .. Len(Lines) -> {one(i) : i \in DOMAIN Lines}] /\ \A i \in DOMAIN ones : ones[i] = one(i)
    BY <1>2
  <1> HIDE DEF ones, one
  <1>6. AllSeqs(ones)
    BY <1>2, <1>3, <1>5, CountedIsSeq DEF AllSeqs
  <1> QED BY <1>4, <1>6, FlattenAt

\* A feature is created, of the type of the one it is made of, and of its shape.
LEMMA CreateLists ==
  ASSUME TileInv, ListInv, pc \in OfFeature, NEW parts, CreateFeature(parts),
         Feature.type = "POLYGON" => parts \in Seq(Seq(Ring)) /\ WellTurned(parts),
         Feature.shape # NoShape /\ Feature.type # "POINT" => parts = Feature.shape,
         IsSeq(parts), Feature.shape # NoShape => parts # <<>>
  PROVE  ListInv'
PROOF
  <1> DEFINE made == [type |-> Feature.type, parts |-> ShapeOnMap(parts), fields |-> Fields]
             name == Layer.name
  <1>1. /\ dataset' = [dataset EXCEPT ![name] = Append(@, made)] /\ tile' = tile /\ place' = place
        /\ pc' # "dataset"
        /\ \/ /\ featureIndex = Len(Layer.features)
              /\ layerIndex' = layerIndex + 1 /\ featureIndex' = 1
           \/ /\ featureIndex # Len(Layer.features)
              /\ featureIndex' = featureIndex + 1 /\ layerIndex' = layerIndex
    BY DEF CreateFeature, database
  <1>2. /\ TileIsSeq(tile) /\ layerIndex \in DOMAIN tile /\ featureIndex \in DOMAIN tile[layerIndex].features
        /\ Layer = tile[layerIndex]
    BY TileHere, FeatureIsThere DEF Layer
  <1>3. Lists(place, tile, layerIndex, featureIndex, dataset)
    BY DEF ListInv
  <1>4. name \in DOMAIN dataset
    BY DEF TileInv, TypeOK, OfFeature
  <1>5. MadeOf(place, <<tile[layerIndex], tile[layerIndex].features[featureIndex]>>, made)
    <2>1. Feature = tile[layerIndex].features[featureIndex] /\ Layer = tile[layerIndex]
      BY DEF Feature, Layer
    <2>2. made.type = Feature.type /\ made.parts = ShapeOnMap(parts) /\ made.fields = Fields
      OBVIOUS
    <2>3. Feature.type = "POLYGON" => TurnedOnMap(ShapeOnMap(parts))
      BY ShapeTurned
    <2> HIDE DEF made
    <2>4. Feature.shape # NoShape => SameAttributes(Layer, Feature, made)
      BY <2>2, FieldsTold
    <2>5. Feature.shape # NoShape /\ Feature.type # "POINT" => made.parts = ShapeAt(place, Layer, Feature.shape)
      BY <2>2, ShapeMade
    <2>7. Feature.shape # NoShape => made.parts # <<>>
      <3>1. DOMAIN ShapeOnMap(parts) = DOMAIN parts
        BY DEF ShapeOnMap
      <3>2. ASSUME parts # <<>>, ShapeOnMap(parts) = <<>> PROVE FALSE
        <4>1. DOMAIN parts = {}
          BY <3>1, <3>2, EmptyIsSeq
        <4>2. parts = <<>>
          BY <4>1, SameSeq, EmptyIsSeq, IsSeqDomain
        <4> QED BY <3>2, <4>2
      <3> QED BY <2>2, <3>2
    <2>8. Feature.shape # NoShape /\ Feature.type = "POLYGON" => Outlined(made.parts)
      BY <2>2, ShapeOutlined
    <2>6. MadeOf(place, <<Layer, Feature>>, made)
      BY <2>2, <2>3, <2>4, <2>5, <2>7, <2>8 DEF MadeOf
    <2> QED BY <2>1, <2>6
  <1> HIDE DEF made
  <1>6. /\ featureIndex # Len(Layer.features) => Lists(place, tile, layerIndex, featureIndex + 1, dataset')
        /\ featureIndex = Len(Layer.features) => Lists(place, tile, layerIndex + 1, 1, dataset')
    BY <1>1, <1>2, <1>3, <1>4, <1>5, ListsMore
  <1>7. Lists(place', tile', layerIndex', featureIndex', dataset')
    BY <1>1, <1>6
  <1> QED BY <1>1, <1>7 DEF ListInv

\* The last polygon of a feature is made, and its holes are the rings since its exterior.
LEMMA LastPolygonTurned ==
  ASSUME TileInv, GroupInv, pc = "rings", p > Len(vtPolys),
         NEW parts, parts = IF polyStart <= Len(vtPolys) THEN polygons \o PolygonUntil(Len(vtPolys)) ELSE polygons
  PROVE  parts \in Seq(Seq(Ring)) /\ WellTurned(parts)
PROOF
  <1>1. /\ p \in 1 .. Len(vtPolys) + 1 /\ polyStart \in 1 .. p
        /\ vtPolys \in Seq(Ring) /\ polygons \in Seq(Seq(Ring)) /\ Len(vtPolys) \in Nat
    BY SeqIsSeq DEF TileInv, TypeOK
  <1>2. /\ polyStart # 1 => Area(vtPolys[polyStart]) < 0
        /\ \A q \in polyStart + 1 .. p - 1 : Area(vtPolys[q]) >= 0
        /\ polyStart = 1 => polygons = <<>>
        /\ WellTurned(polygons)
    BY DEF GroupInv
  <1>3. CASE polyStart <= Len(vtPolys)
    <2> DEFINE end == Len(vtPolys)
    <2>1. p - 1 = end /\ polyStart \in 1 .. end /\ end \in polyStart .. end
      BY <1>1, <1>3
    <2>2. WellTurned(polygons \o PolygonUntil(end))
      BY <1>1, <1>2, <2>1, PolygonsTurned
    <2>3. PolygonUntil(end) \in Seq(Seq(Ring))
      BY <1>1, <2>1, PolygonIsMade
    <2> QED BY <1>1, <1>3, <2>2, <2>3, ConcatProperties
  <1>4. CASE ~(polyStart <= Len(vtPolys))
    BY <1>1, <1>2, <1>4
  <1> QED BY <1>3, <1>4

\* Steps that leave the tile, the place in it and the dataset alone.
LEMMA ListSteady ==
  ASSUME ListInv, UNCHANGED <<database, tile, position, dataset>>,
         pc' \in OfFeature \union {"layer", "dataset"} => pc \in OfFeature \union {"layer", "dataset"},
         pc' = "dataset" => pc = "dataset" \/ layerIndex > Len(tile)
  PROVE  ListInv'
PROOF
  <1>1. UNCHANGED <<place, tile, layerIndex, featureIndex, dataset>>
    BY DEF position, database
  <1> QED BY <1>1 DEF ListInv

LEMMA ListKept ==
  ASSUME TileInv, ReadInv, GroupedInv, RingInv, [AnyStep]_vars
  PROVE  ListInv'
PROOF
  <1>1. ListInv /\ GroupInv
    BY DEF RingInv
  <1>2. CASE UNCHANGED vars
    BY <1>1, <1>2, ListSteady DEF vars
  <1>3. CASE ParseTile
    <2>1. /\ tile' \in Tiles[place] /\ place \in Places
          /\ layerIndex' = 1 /\ featureIndex' = 1 /\ dataset' = <<>> /\ pc' # "dataset"
      BY <1>3 DEF ParseTile, TileInv, NothingRead, position
    <2>2. Lists(place', tile', 1, 1, <<>>)
      BY <2>1, TileInDatabase, ListsNothing
    <2> QED BY <2>1, <2>2 DEF ListInv
  <1>4. CASE BeginLayer
    <2>1. /\ pc = "layer" /\ layerIndex <= Len(tile) /\ featureIndex = 1 /\ featureIndex' = 1 /\ tile' = tile
          /\ place' = place /\ pc' # "dataset"
          /\ dataset' = [name \in DOMAIN dataset \union {tile[layerIndex].name} |->
                           IF name \in DOMAIN dataset THEN dataset[name] ELSE <<>>]
          /\ \/ tile[layerIndex].features = <<>> /\ layerIndex' = layerIndex + 1
             \/ layerIndex' = layerIndex
      BY <1>4 DEF BeginLayer, TileInv, NothingRead, database
    <2>2. TileIsSeq(tile) /\ layerIndex \in DOMAIN tile
      <3>1. TileIsSeq(tile) /\ layerIndex \in 1 .. Len(tile) + 1
        BY TileHere DEF TileInv, TypeOK
      <3>2. Len(tile) \in Nat /\ DOMAIN tile = 1 .. Len(tile)
        BY <3>1, IsSeqDomain DEF TileIsSeq
      <3> QED BY <2>1, <3>1, <3>2
    <2>3. Lists(place, tile, layerIndex, 1, dataset)
      BY <1>1, <2>1 DEF ListInv
    <2>4. /\ Lists(place, tile, layerIndex, 1, dataset')
          /\ tile[layerIndex].features = <<>> => Lists(place, tile, layerIndex + 1, 1, dataset')
      BY <2>1, <2>2, <2>3, ListsBegin
    <2>5. Lists(place', tile', layerIndex', featureIndex', dataset')
      BY <2>1, <2>4
    <2> QED BY <2>1, <2>5 DEF ListInv
  <1>5. CASE ConvertPoints
    <2> DEFINE parts == [v \in DOMAIN vtPoly |-> << <<vtPoly[v]>> >>]
    <2>1. pc = "convert" /\ Feature.type = "POINT" /\ CreateFeature(parts)
      BY <1>5 DEF ConvertPoints
    <2>2. IsSeq(vtPoly)
      BY SeqIsSeq DEF TileInv, TypeOK, Ring
    <2>3. Feature.shape # NoShape => vtPoly # <<>>
      BY <2>1 DEF ReadInv, DecodedInv
    <2>4. IsSeq(parts) /\ (vtPoly # <<>> => parts # <<>>)
      BY <2>2, MappedIsSeq
    <2> HIDE DEF parts
    <2> QED BY <1>1, <2>1, <2>3, <2>4, CreateLists DEF OfFeature
  <1>6. CASE ConvertLines
    <2> DEFINE parts == [i \in DOMAIN LinesIn(Lines) |-> <<LinesIn(Lines)[i]>>]
    <2>1. pc = "convert" /\ Feature.type = "LINESTRING" /\ CreateFeature(parts)
      BY <1>6 DEF ConvertLines
    <2>2. Feature.shape # NoShape => parts = Feature.shape
      BY <2>1, LinesMade DEF ReadInv
    <2>3. IsSeq(LinesIn(Lines))
      BY LinesAreSeq
    <2>4. IsSeq(parts)
      <3>1. PICK lines : lines = LinesIn(Lines)
        OBVIOUS
      <3>2. IsSeq([i \in DOMAIN lines |-> <<lines[i]>>])
        BY <2>3, <3>1, SinglesAreSeq
      <3> QED BY <3>1, <3>2
    <2> HIDE DEF parts
    <2> QED BY <1>1, <2>1, <2>2, <2>4, CreateLists DEF OfFeature, NoShape
  <1>7. CASE ConvertPolygons
    <2> DEFINE parts == IF polyStart <= Len(vtPolys) THEN polygons \o PolygonUntil(Len(vtPolys)) ELSE polygons
    <2>1. pc = "rings" /\ p > Len(vtPolys) /\ CreateFeature(parts)
      BY <1>7 DEF ConvertPolygons
    <2>2. parts \in Seq(Seq(Ring)) /\ WellTurned(parts)
      BY <1>1, <2>1, LastPolygonTurned
    <2>3. Feature.shape # NoShape => parts = Feature.shape
      BY <2>1, LastPart
    <2> HIDE DEF parts
    <2>4. IsSeq(parts)
      BY <2>2, SeqIsSeq
    <2> QED BY <1>1, <2>1, <2>2, <2>3, <2>4, CreateLists DEF OfFeature, NoShape
  <1>8. CASE pc' \notin OfFeature \union {"layer", "dataset"}
    BY <1>8 DEF ListInv
  <1>9. CASE Converted \/ ReadNothing \/ ReadVertex \/ ReadClose \/ ReadTags \/ BeginRings \/ NextRing
    <2>1. /\ UNCHANGED <<database, tile, position, dataset>> /\ pc \in OfFeature \union {"layer", "dataset"}
          /\ pc' = "dataset" => layerIndex > Len(tile)
      BY <1>9 DEF Converted, ReadNothing, ReadVertex, ReadClose, ReadTags, BeginRings, NextRing,
         Reading, ReadAll, Drawing, OfFeature
    <2> QED BY <1>1, <2>1, ListSteady
  <1>10. ASSUME AnyStep, ~ParseTile, ~BeginLayer, ~ConvertPoints, ~ConvertLines, ~ConvertPolygons,
                ~(Converted \/ ReadNothing \/ ReadVertex \/ ReadClose \/ ReadTags \/ BeginRings \/ NextRing)
         PROVE  pc' \notin OfFeature \union {"layer", "dataset"}
    BY <1>10 DEF AnyStep, Open, Release, Destroy, Converting, NoTile, EmptyTile, OpenTile, InflateBlock,
       UnpackFails, ReadBeyond, UnknownCommand, ReadTagsBeyond, UnknownType, CreateFeatureFails,
       AddNoLine, Fail, OfFeature
  <1> QED BY <1>2, <1>3, <1>4, <1>5, <1>6, <1>7, <1>8, <1>9, <1>10

LEMMA RingInvKept ==
  ASSUME TileInv, ReadInv, GroupedInv, RingInv, [AnyStep]_vars
  PROVE  RingInv'
PROOF
  <1>1. GroupInv'
    BY GroupKept DEF RingInv
  <1> QED BY <1>1, ListKept DEF RingInv

LEMMA RingInvInit ==
  ASSUME Init
  PROVE  RingInv
PROOF
  <1>1. pc = "idle"
    BY DEF Init
  <1> QED BY <1>1 DEF RingInv, GroupInv, ListInv, OfFeature

\* What the invariant says of the polygons of a dataset that is returned.
LEMMA RingInvMeans ==
  ASSUME RingInv
  PROVE  RingsWellMade
PROOF
  <1>1. RingsInOrder
    BY DEF RingInv, GroupInv, RingsInOrder
  <1>2. Oriented
    <2> SUFFICES ASSUME NEW name \in DOMAIN dataset, NEW i \in DOMAIN dataset[name],
                        pc = "dataset", FeaturesNamed(name)[i][2].type = "POLYGON",
                        Area(dataset[name][i].parts[1][1]) >= 0,
                        NEW j \in DOMAIN dataset[name][i].parts
                 PROVE  /\ Area(dataset[name][i].parts[j][1]) >= 0
                        /\ \A n \in 2 .. Len(dataset[name][i].parts[j]) : Area(dataset[name][i].parts[j][n]) <= 0
      BY DEF Oriented
    <2> DEFINE made == dataset[name][i]
               from == FlattenSeq(NamedIn(tile, name))[i]
    <2>1. from[2].type = "POLYGON"
      BY DEF FeaturesNamed, NamedIn
    <2>2. MadeOf(place, from, made)
      <3>1. Lists(place, tile, layerIndex, featureIndex, dataset)
        BY DEF RingInv, ListInv
      <3> QED BY <3>1 DEF Lists
    <2> HIDE DEF made, from
    <2>3. /\ IsSeq(made.parts[j])
          /\ j # 1 => Area(made.parts[j][1]) >= 0
          /\ \A n \in DOMAIN made.parts[j] \ {1} : Area(made.parts[j][n]) <= 0
      BY <2>1, <2>2 DEF MadeOf, TurnedOnMap, made
    <2>4. \A n \in 2 .. Len(made.parts[j]) : n \in DOMAIN made.parts[j] \ {1}
      <3>1. DOMAIN made.parts[j] = 1 .. Len(made.parts[j])
        BY <2>3, IsSeqDomain
      <3>2. \A n \in 2 .. Len(made.parts[j]) : n \in 1 .. Len(made.parts[j]) /\ n # 1
        OBVIOUS
      <3> QED BY <3>1, <3>2
    <2> QED BY <2>3, <2>4 DEF made
  <1> QED BY <1>1, <1>2 DEF RingsWellMade

LEMMA ReadInvariance == Spec => [](ReadInv /\ GroupedInv)
PROOF
  <1>1. Init => ReadInv /\ GroupedInv
    BY ReadInvInit DEF Init, GroupedInv
  <1>2. TileInv /\ TileInv' /\ ReadInv /\ GroupedInv /\ [Next]_vars => ReadInv' /\ GroupedInv'
    BY ReadInvKept, GroupedKept, NextIsStep
  <1> QED BY <1>1, <1>2, TileInvariance, PTL DEF Spec

LEMMA RingInvariance == Spec => []RingInv
PROOF
  <1>1. TileInv /\ ReadInv /\ GroupedInv /\ RingInv /\ [Next]_vars => RingInv'
    BY RingInvKept, NextIsStep
  <1> QED BY <1>1, RingInvInit, ReadInvariance, TileInvariance, PTL DEF Spec

\* Whatever the database holds: the rings of a feature are grouped by the sign of their
\* area, none of them lost and none in two polygons, and the dataset that is returned has
\* the polygons the way OSMSDF asserts them, if only the first of them starts with an
\* exterior.
THEOREM RingsAlwaysWellMade == Spec => []RingsWellMade
PROOF
  BY RingInvMeans, RingInvariance, PTL

\* What the invariant says of the features of a dataset that is returned.
LEMMA DatasetMade ==
  ASSUME TileInv, RingInv, pc = "dataset", NEW l \in DOMAIN tile, NEW name, name = tile[l].name
  PROVE  /\ name \in DOMAIN dataset
         /\ Len(dataset[name]) = Len(FeaturesNamed(name))
         /\ \A i \in DOMAIN FeaturesNamed(name) : MadeOf(place, FeaturesNamed(name)[i], dataset[name][i])
PROOF
  <1> DEFINE named == NamedIn(tile, name)
             n == Len(tile)
             made == dataset[name]
  <1>1. TileIsSeq(tile) /\ n \in Nat /\ DOMAIN tile = 1 .. n
    <2>1. TileIsSeq(tile)
      BY TileHere
    <2> QED BY <2>1, IsSeqDomain DEF TileIsSeq
  <1>2. layerIndex = n + 1
    <2>1. layerIndex \in 1 .. n + 1 /\ layerIndex > n
      BY DEF TileInv, TypeOK, RingInv, ListInv
    <2> HIDE DEF n
    <2> QED BY <1>1, <2>1
  <1>3. Lists(place, tile, layerIndex, featureIndex, dataset)
    BY DEF RingInv, ListInv
  <1>4. /\ name \in DOMAIN dataset /\ IsSeq(made) /\ ListedIn(dataset, name) = PassedIn(tile, name, layerIndex, featureIndex)
        /\ \A i \in DOMAIN made : MadeOf(place, FlattenSeq(named)[i], made[i])
    <2>1. l < layerIndex
      BY <1>1, <1>2
    <2> QED BY <1>3, <2>1 DEF Lists
  <1>5. FeaturesNamed(name) = FlattenSeq(named)
    BY DEF FeaturesNamed, NamedIn
  <1>6. AllSeqs(named) /\ Len(named) = n
    BY <1>1, NamedTyped
  <1>7. Len(made) = Upto(named, n) + 0
    <2>1. layerIndex \notin DOMAIN tile /\ layerIndex - 1 = n
      BY <1>1, <1>2
    <2> QED BY <1>4, <2>1 DEF ListedIn, PassedIn
  <1> HIDE DEF named, n, made
  <1>8. IsSeq(FlattenSeq(named)) /\ Len(FlattenSeq(named)) = Upto(named, n) /\ Upto(named, n) \in Nat
    <2>1. n \in 0 .. n
      BY <1>1
    <2> QED BY <1>6, <2>1, FlattenAt, JoinedSteps
  <1>9. Len(made) = Len(FlattenSeq(named))
    BY <1>7, <1>8
  <1>10. DOMAIN FlattenSeq(named) = DOMAIN made
    BY <1>4, <1>8, <1>9, IsSeqDomain
  <1> QED BY <1>4, <1>5, <1>9, <1>10 DEF made

LEMMA DatasetKept ==
  ASSUME TileInv, RingInv
  PROVE  ShapesKept /\ AttributesKept
PROOF
  <1>1. ASSUME pc = "dataset", NEW l \in DOMAIN tile, NEW name, name = tile[l].name
        PROVE  /\ name \in DOMAIN dataset
               /\ Len(dataset[name]) = Len(FeaturesNamed(name))
               /\ \A i \in DOMAIN FeaturesNamed(name) :
                    FeaturesNamed(name)[i][2].shape # NoShape =>
                      /\ SameShape(FeaturesNamed(name)[i][1], FeaturesNamed(name)[i][2], dataset[name][i])
                      /\ SameAttributes(FeaturesNamed(name)[i][1], FeaturesNamed(name)[i][2], dataset[name][i])
    <2>1. /\ name \in DOMAIN dataset
          /\ Len(dataset[name]) = Len(FeaturesNamed(name))
          /\ \A i \in DOMAIN FeaturesNamed(name) : MadeOf(place, FeaturesNamed(name)[i], dataset[name][i])
      BY <1>1, DatasetMade
    <2>2. \A layer, shape : ShapeAt(place, layer, shape) = ShapeOf(layer, shape)
      BY DEF ShapeOf, ShapeAt, Located, LocatedAt, TileSize
    <2> QED BY <2>1, <2>2 DEF MadeOf, SameShape
  <1>2. ShapesKept
    BY <1>1 DEF ShapesKept, Kept
  <1>3. AttributesKept
    BY <1>1 DEF AttributesKept, Kept
  <1> QED BY <1>2, <1>3

\* Whatever the database holds: what an encoder wrote is read to its end and no further.
THEOREM NoReadBeyond == Spec => []ReadsWhatIsThere
PROOF
  <1>1. ReadInv => ReadsWhatIsThere
    BY DEF ReadInv
  <1> QED BY <1>1, ReadInvariance, PTL

\* Whatever the database holds: a dataset that is returned has the features of the
\* tile in their order, lines and polygons with the shapes an encoder wrote, at their
\* place on the map.
THEOREM ShapesAlwaysKept == Spec => []ShapesKept
PROOF
  BY DatasetKept, TileInvariance, RingInvariance, PTL

\* Whatever the database holds: each feature an encoder wrote has the fields that tell
\* its attributes.
THEOREM AttributesAlwaysKept == Spec => []AttributesKept
PROOF
  BY DatasetKept, TileInvariance, RingInvariance, PTL
=============================================================================
