-------------------------- MODULE SendOfferProofs --------------------------
(***************************************************************************)
(* Proofs about SendOffer: lists and concatenations, what each message     *)
(* reads as after it was written, the stream cut anywhere, and the page.   *)
(***************************************************************************)
EXTENDS SendOffer, TLAPS, FiniteSetTheorems, SequenceTheorems, WellFoundedInduction

-----------------------------------------------------------------------------
(* Induction over the numbers up to N, for a set.                          *)

LEMMA Least == ASSUME NEW T \in SUBSET Nat, T # {} PROVE \E m \in T : \A n \in T : m <= n
<1> DEFINE R == {p \in Nat \X Nat : p[1] < p[2]}
<1>1. IsWellFoundedOn(R, Nat)
  BY NatLessThanWellFounded DEF OpToRel
<1> HIDE DEF R
<1>2. \E m \in T : \A n \in T : ~(<<n, m>> \in R)
  BY <1>1, WFMin
<1>3. PICK m \in T : \A n \in T : ~(<<n, m>> \in R)
  BY <1>2
<1>4. \A n \in T : ~(n < m)
  BY <1>3 DEF R
<1>5. QED BY <1>4

LEMMA SetInduction ==
    ASSUME NEW N \in Nat, NEW T, 0 \in T, \A n \in 0..N : n \in T /\ n < N => n + 1 \in T
    PROVE  \A n \in 0..N : n \in T
<1> DEFINE U == {n \in 0..N : n \notin T}
<1>1. SUFFICES ASSUME U # {} PROVE FALSE
  OBVIOUS
<1>2. PICK m \in U : \A n \in U : m <= n
  <2>1. U \in SUBSET Nat
    OBVIOUS
  <2> HIDE DEF U
  <2>2. QED BY <1>1, <2>1, Least
<1>3. m \in 0..N /\ m # 0 /\ m \notin T
  OBVIOUS
<1>4. m - 1 \in 0..N /\ m - 1 \notin U
  BY <1>2, <1>3
<1>5. QED BY <1>3, <1>4

-----------------------------------------------------------------------------
(* Lists.                                                                  *)

KeptUpTo(seq, S, n, f) ==
    f = [i \in 0..n |-> IF i = 0 THEN <<>>
                        ELSE IF seq[i] \in S THEN Append(f[i - 1], seq[i]) ELSE f[i - 1]]

LEMMA KeptFacts ==
    ASSUME NEW seq, NEW S, NEW n \in Nat, NEW f, KeptUpTo(seq, S, n, f)
    PROVE  /\ f[0] = <<>>
           /\ \A i \in 1..n : f[i] = IF seq[i] \in S THEN Append(f[i - 1], seq[i]) ELSE f[i - 1]
<1>1. f[0] = <<>>
  BY DEF KeptUpTo
<1>2. ASSUME NEW i \in 1..n
      PROVE  f[i] = IF seq[i] \in S THEN Append(f[i - 1], seq[i]) ELSE f[i - 1]
  <2>1. i \in 0..n /\ i # 0
    OBVIOUS
  <2> DEFINE rule == IF i = 0 THEN <<>>
                     ELSE IF seq[i] \in S THEN Append(f[i - 1], seq[i]) ELSE f[i - 1]
  <2>2. f[i] = rule
    BY <2>1 DEF KeptUpTo
  <2>3. QED BY <2>1, <2>2
<1>3. QED BY <1>1, <1>2

LEMMA KeptGrows ==
    ASSUME NEW seq, NEW S, NEW n \in Nat, NEW f, KeptUpTo(seq, S, n, f)
    PROVE  \E g : KeptUpTo(seq, S, n + 1, g)
<1> DEFINE x == IF seq[n + 1] \in S THEN Append(f[n], seq[n + 1]) ELSE f[n]
           g == [i \in 0..n + 1 |-> IF i = n + 1 THEN x ELSE f[i]]
           rule(h, i) == IF i = 0 THEN <<>>
                         ELSE IF seq[i] \in S THEN Append(h[i - 1], seq[i]) ELSE h[i - 1]
<1> HIDE DEF x
<1>1. ASSUME NEW i \in 0..n
      PROVE  f[i] = rule(f, i)
  BY DEF KeptUpTo
<1>2. \A i \in 0..n : g[i] = f[i]
  OBVIOUS
<1>3. g[n + 1] = x /\ g[n] = f[n]
  OBVIOUS
<1> HIDE DEF g
<1>4. ASSUME NEW i \in 0..n + 1
      PROVE  g[i] = rule(g, i)
  <2>1. CASE i = n + 1
    BY <1>3, <2>1 DEF x
  <2>2. CASE i = 0
    BY <1>1, <1>2, <2>2
  <2>3. CASE i \in 1..n
    <3>1. i - 1 \in 0..n /\ g[i - 1] = f[i - 1] /\ g[i] = f[i]
      BY <1>2, <2>3
    <3>2. QED BY <1>1, <2>3, <3>1
  <2>4. QED BY <2>1, <2>2, <2>3
<1> HIDE DEF rule
<1>5. g = [i \in 0..n + 1 |-> rule(g, i)]
  <2>1. g = [i \in 0..n + 1 |-> g[i]]
    BY DEF g
  <2>2. QED BY <1>4, <2>1
<1>6. QED BY <1>5 DEF KeptUpTo, rule

LEMMA KeepIs ==
    ASSUME NEW X, NEW seq \in Seq(X), NEW S
    PROVE  \E f : KeptUpTo(seq, S, Len(seq), f) /\ Keep(seq, S) = f[Len(seq)]
<1> DEFINE T == {n \in 0..Len(seq) : \E f : KeptUpTo(seq, S, n, f)}
<1>1. 0 \in T
  <2>1. KeptUpTo(seq, S, 0, [i \in 0..0 |-> <<>>])
    BY DEF KeptUpTo
  <2>2. QED BY <2>1
<1>2. ASSUME NEW n \in 0..Len(seq), n \in T, n < Len(seq)
      PROVE  n + 1 \in T
  BY <1>2, KeptGrows
<1> HIDE DEF T
<1>3. Len(seq) \in T
  <2>1. Len(seq) \in Nat
    OBVIOUS
  <2>2. \A n \in 0..Len(seq) : n \in T
    BY <1>1, <1>2, <2>1, SetInduction
  <2>3. QED BY <2>1, <2>2
<1>4. \E f : KeptUpTo(seq, S, Len(seq), f)
  BY <1>3 DEF T
<1>5. QED BY <1>4 DEF Keep, KeptUpTo

\* h is what is kept of the first n of seq.
KeptOf(h, seq, n, S, X) ==
    /\ h \in Seq(X)
    /\ \A k \in 1..Len(h) : \E i \in 1..n : h[k] = seq[i] /\ seq[i] \in S
    /\ \A i \in 1..n : seq[i] \in S => \E k \in 1..Len(h) : h[k] = seq[i]

LEMMA KeptAppend ==
    ASSUME NEW X, NEW seq \in Seq(X), NEW S, NEW n \in 0..Len(seq) - 1, NEW h,
           KeptOf(h, seq, n, S, X), seq[n + 1] \in S
    PROVE  KeptOf(Append(h, seq[n + 1]), seq, n + 1, S, X)
<1> DEFINE x == seq[n + 1]
           g == Append(h, x)
<1>1. Len(seq) \in Nat /\ n \in Nat /\ h \in Seq(X) /\ Len(h) \in Nat
  BY DEF KeptOf
<1>2. x \in X /\ x \in S
  BY <1>1
<1>3. /\ g \in Seq(X) /\ Len(g) = Len(h) + 1
      /\ \A k \in 1..Len(h) : g[k] = h[k]
      /\ g[Len(h) + 1] = x
  BY <1>1, <1>2
<1> HIDE DEF g, x
<1>4. ASSUME NEW k \in 1..Len(g)
      PROVE  \E i \in 1..n + 1 : g[k] = seq[i] /\ seq[i] \in S
  <2>1. CASE k = Len(h) + 1
    <3>1. n + 1 \in 1..n + 1 /\ g[k] = seq[n + 1]
      BY <1>1, <1>3, <2>1 DEF x
    <3>2. QED BY <3>1
  <2>2. CASE k \in 1..Len(h)
    <3>1. PICK i \in 1..n : h[k] = seq[i] /\ seq[i] \in S
      BY <2>2 DEF KeptOf
    <3>2. i \in 1..n + 1 /\ g[k] = h[k]
      BY <1>1, <1>3, <2>2
    <3>3. QED BY <3>1, <3>2
  <2>3. QED BY <1>1, <1>3, <2>1, <2>2
<1>5. ASSUME NEW i \in 1..n + 1, seq[i] \in S
      PROVE  \E k \in 1..Len(g) : g[k] = seq[i]
  <2>1. CASE i = n + 1
    <3>1. Len(h) + 1 \in 1..Len(g) /\ g[Len(h) + 1] = seq[i]
      BY <1>1, <1>3, <2>1 DEF x
    <3>2. QED BY <3>1
  <2>2. CASE i \in 1..n
    <3>1. PICK k \in 1..Len(h) : h[k] = seq[i]
      BY <1>5, <2>2 DEF KeptOf
    <3>2. k \in 1..Len(g) /\ g[k] = h[k]
      BY <1>1, <1>3
    <3>3. QED BY <3>1, <3>2
  <2>3. QED BY <1>1, <2>1, <2>2
<1>6. QED BY <1>3, <1>4, <1>5 DEF KeptOf, g, x

LEMMA KeptSkip ==
    ASSUME NEW X, NEW seq, NEW S, NEW n \in Nat, NEW h,
           KeptOf(h, seq, n, S, X), seq[n + 1] \notin S
    PROVE  KeptOf(h, seq, n + 1, S, X)
<1>1. \A i \in 1..n + 1 : i \in 1..n \/ i = n + 1
  OBVIOUS
<1>2. \A i \in 1..n : i \in 1..n + 1
  OBVIOUS
<1>3. QED BY <1>1, <1>2 DEF KeptOf

\* What is kept, and where it comes from.
LEMMA KeepFacts ==
    ASSUME NEW X, NEW seq \in Seq(X), NEW S
    PROVE  /\ Keep(seq, S) \in Seq(X)
           /\ ToSet(Keep(seq, S)) = ToSet(seq) \cap S
<1>1. PICK f : KeptUpTo(seq, S, Len(seq), f) /\ Keep(seq, S) = f[Len(seq)]
  BY KeepIs
<1>2. /\ f[0] = <<>> /\ Len(seq) \in Nat
      /\ \A i \in 1..Len(seq) :
            f[i] = IF seq[i] \in S THEN Append(f[i - 1], seq[i]) ELSE f[i - 1]
  BY <1>1, KeptFacts
<1> DEFINE T == {n \in 0..Len(seq) : KeptOf(f[n], seq, n, S, X)}
<1>3. 0 \in T
  <2>1. f[0] \in Seq(X) /\ Len(f[0]) = 0
    BY <1>2
  <2>2. KeptOf(f[0], seq, 0, S, X)
    BY <2>1 DEF KeptOf
  <2>3. QED BY <1>2, <2>2
<1>4. ASSUME NEW n \in 0..Len(seq), n \in T, n < Len(seq)
      PROVE  n + 1 \in T
  <2>1. /\ KeptOf(f[n], seq, n, S, X) /\ n + 1 \in 1..Len(seq) /\ n + 1 \in 0..Len(seq)
        /\ n \in 0..Len(seq) - 1 /\ n \in Nat /\ (n + 1) - 1 = n
    BY <1>2, <1>4
  <2>2. f[n + 1] = IF seq[n + 1] \in S THEN Append(f[n], seq[n + 1]) ELSE f[n]
    BY <1>2, <2>1
  <2>3. KeptOf(f[n + 1], seq, n + 1, S, X)
    BY <2>1, <2>2, KeptAppend, KeptSkip
  <2>4. QED BY <2>1, <2>3
<1> HIDE DEF T
<1>5. \A n \in 0..Len(seq) : n \in T
  BY <1>2, <1>3, <1>4, SetInduction
<1>6. Len(seq) \in T
  BY <1>2, <1>5
<1>7. KeptOf(Keep(seq, S), seq, Len(seq), S, X)
  BY <1>1, <1>6 DEF T
<1> DEFINE h == Keep(seq, S)
<1> HIDE DEF h
<1>8. h \in Seq(X) /\ DOMAIN seq = 1..Len(seq) /\ DOMAIN h = 1..Len(h)
  BY <1>7 DEF KeptOf, h
<1>9. ToSet(h) = ToSet(seq) \cap S
  <2>1. ASSUME NEW x \in ToSet(h) PROVE x \in ToSet(seq) \cap S
    <3>1. PICK k \in 1..Len(h) : x = h[k]
      BY <1>8 DEF ToSet
    <3>2. \E i \in 1..Len(seq) : h[k] = seq[i] /\ seq[i] \in S
      BY <1>7 DEF KeptOf, h
    <3>3. QED BY <1>8, <3>1, <3>2 DEF ToSet
  <2>2. ASSUME NEW x \in ToSet(seq) \cap S PROVE x \in ToSet(h)
    <3>1. PICK i \in 1..Len(seq) : x = seq[i] /\ seq[i] \in S
      BY <1>8 DEF ToSet
    <3>2. \E k \in 1..Len(h) : h[k] = seq[i]
      BY <1>7, <3>1 DEF KeptOf, h
    <3>3. QED BY <1>8, <3>1, <3>2 DEF ToSet
  <2>3. QED BY <2>1, <2>2
<1>10. QED BY <1>8, <1>9 DEF h

-----------------------------------------------------------------------------
(* Concatenations.                                                         *)

FlatUpTo(seqs, n, f) ==
    f = [i \in 1..n |-> IF i = 1 THEN seqs[i] ELSE f[i - 1] \o seqs[i]]

LEMMA FlatFacts ==
    ASSUME NEW seqs, NEW n \in Nat, NEW f, FlatUpTo(seqs, n, f)
    PROVE  \A i \in 1..n : f[i] = IF i = 1 THEN seqs[i] ELSE f[i - 1] \o seqs[i]
<1>1. ASSUME NEW i \in 1..n
      PROVE  f[i] = IF i = 1 THEN seqs[i] ELSE f[i - 1] \o seqs[i]
  BY DEF FlatUpTo
<1>2. QED BY <1>1

LEMMA FlatGrows ==
    ASSUME NEW seqs, NEW n \in Nat, NEW f, FlatUpTo(seqs, n, f)
    PROVE  \E g : FlatUpTo(seqs, n + 1, g)
<1> DEFINE x == IF n = 0 THEN seqs[n + 1] ELSE f[n] \o seqs[n + 1]
           g == [i \in 1..n + 1 |-> IF i = n + 1 THEN x ELSE f[i]]
           rule(h, i) == IF i = 1 THEN seqs[i] ELSE h[i - 1] \o seqs[i]
<1> HIDE DEF x
<1>1. ASSUME NEW i \in 1..n
      PROVE  f[i] = rule(f, i)
  BY FlatFacts
<1>2. \A i \in 1..n : g[i] = f[i]
  OBVIOUS
<1>3. g[n + 1] = x
  OBVIOUS
<1> HIDE DEF g
<1>4. ASSUME NEW i \in 1..n + 1
      PROVE  g[i] = rule(g, i)
  <2>1. CASE i = n + 1
    <3>1. CASE n = 0
      BY <1>3, <2>1, <3>1 DEF x
    <3>2. CASE n # 0
      <4>1. n \in 1..n /\ i - 1 = n /\ i # 1
        BY <2>1, <3>2
      <4>2. g[n] = f[n]
        BY <1>2, <4>1
      <4>3. QED BY <1>3, <2>1, <3>2, <4>1, <4>2 DEF x
    <3>3. QED BY <3>1, <3>2
  <2>2. CASE i = 1 /\ i \in 1..n
    BY <1>1, <1>2, <2>2
  <2>3. CASE i \in 2..n
    <3>1. i \in 1..n /\ i - 1 \in 1..n /\ i # 1
      BY <2>3
    <3>2. g[i - 1] = f[i - 1] /\ g[i] = f[i]
      BY <1>2, <3>1
    <3>3. QED BY <1>1, <3>1, <3>2
  <2>4. QED BY <2>1, <2>2, <2>3
<1> HIDE DEF rule
<1>5. g = [i \in 1..n + 1 |-> rule(g, i)]
  <2>1. g = [i \in 1..n + 1 |-> g[i]]
    BY DEF g
  <2>2. QED BY <1>4, <2>1
<1>6. QED BY <1>5 DEF FlatUpTo, rule

LEMMA FlattenIs ==
    ASSUME NEW X, NEW seqs \in Seq(X), seqs # <<>>
    PROVE  \E f : FlatUpTo(seqs, Len(seqs), f) /\ FlattenSeq(seqs) = f[Len(seqs)]
<1> DEFINE T == {n \in 0..Len(seqs) : \E f : FlatUpTo(seqs, n, f)}
<1>0. Len(seqs) \in Nat /\ Len(seqs) # 0
  OBVIOUS
<1>1. 0 \in T
  <2>1. FlatUpTo(seqs, 0, [i \in 1..0 |-> <<>>])
    BY DEF FlatUpTo
  <2>2. QED BY <1>0, <2>1
<1>2. ASSUME NEW n \in 0..Len(seqs), n \in T, n < Len(seqs)
      PROVE  n + 1 \in T
  BY <1>0, <1>2, FlatGrows
<1> HIDE DEF T
<1>3. \A n \in 0..Len(seqs) : n \in T
  BY <1>0, <1>1, <1>2, SetInduction
<1>4. Len(seqs) \in T
  BY <1>0, <1>3
<1>5. \E f : FlatUpTo(seqs, Len(seqs), f)
  BY <1>4 DEF T
<1>6. QED BY <1>0, <1>5 DEF FlattenSeq, FlatUpTo

LEMMA FlattenType ==
    ASSUME NEW X, NEW seqs \in Seq(Seq(X))
    PROVE  FlattenSeq(seqs) \in Seq(X)
<1>1. CASE seqs = <<>>
  BY <1>1 DEF FlattenSeq
<1>2. CASE seqs # <<>>
  <2>1. PICK f : FlatUpTo(seqs, Len(seqs), f) /\ FlattenSeq(seqs) = f[Len(seqs)]
    BY <1>2, FlattenIs
  <2>2. /\ Len(seqs) \in Nat /\ Len(seqs) # 0
        /\ \A i \in 1..Len(seqs) : f[i] = IF i = 1 THEN seqs[i] ELSE f[i - 1] \o seqs[i]
    BY <1>2, <2>1, FlatFacts
  <2> DEFINE T == {n \in 0..Len(seqs) : n = 0 \/ f[n] \in Seq(X)}
  <2>3. 0 \in T
    BY <2>2
  <2>4. ASSUME NEW n \in 0..Len(seqs), n \in T, n < Len(seqs)
        PROVE  n + 1 \in T
    <3>1. n + 1 \in 1..Len(seqs) /\ seqs[n + 1] \in Seq(X) /\ (n + 1) - 1 = n
          /\ (n + 1 = 1 <=> n = 0)
      BY <2>2, <2>4
    <3>2. f[n + 1] = IF n = 0 THEN seqs[n + 1] ELSE f[n] \o seqs[n + 1]
      BY <2>2, <3>1
    <3>3. f[n + 1] \in Seq(X)
      BY <2>4, <3>1, <3>2
    <3>4. QED BY <3>1, <3>3
  <2> HIDE DEF T
  <2>5. \A n \in 0..Len(seqs) : n \in T
    BY <2>2, <2>3, <2>4, SetInduction
  <2>6. Len(seqs) \in T
    BY <2>2, <2>5
  <2>7. QED BY <2>1, <2>2, <2>6 DEF T
<1>3. QED BY <1>1, <1>2

\* The concatenation of n blocks of five.
Fives(h, seqs, n, X) ==
    /\ h \in Seq(X) /\ Len(h) = 5 * n
    /\ \A i \in 1..n : \A c \in 1..5 : h[5 * (i - 1) + c] = seqs[i][c]

LEMMA FivesGrow ==
    ASSUME NEW X, NEW seqs, NEW n \in Nat, NEW h, Fives(h, seqs, n, X),
           seqs[n + 1] \in Seq(X), Len(seqs[n + 1]) = 5
    PROVE  Fives(h \o seqs[n + 1], seqs, n + 1, X)
<1> DEFINE b == seqs[n + 1]
           g == h \o b
<1>1. h \in Seq(X) /\ Len(h) = 5 * n /\ b \in Seq(X) /\ Len(b) = 5
  BY DEF Fives
<1> HIDE DEF b
<1>2. /\ g \in Seq(X) /\ Len(g) = 5 * n + 5
      /\ \A k \in 1..5 * n + 5 : g[k] = IF k <= 5 * n THEN h[k] ELSE b[k - 5 * n]
  <2>1. /\ g \in Seq(X) /\ Len(g) = Len(h) + Len(b)
        /\ \A k \in 1..Len(h) + Len(b) : g[k] = IF k <= Len(h) THEN h[k] ELSE b[k - Len(h)]
    BY <1>1, ConcatProperties
  <2> HIDE DEF g
  <2>2. QED BY <1>1, <2>1
<1> HIDE DEF g
<1>3. ASSUME NEW i \in 1..n + 1, NEW c \in 1..5
      PROVE  g[5 * (i - 1) + c] = seqs[i][c]
  <2>1. CASE i = n + 1
    <3>1. 5 * (i - 1) + c \in 1..5 * n + 5 /\ ~(5 * (i - 1) + c <= 5 * n)
          /\ 5 * (i - 1) + c - 5 * n = c
      BY <2>1
    <3>2. QED BY <1>2, <2>1, <3>1 DEF b
  <2>2. CASE i \in 1..n
    <3>1. 5 * (i - 1) + c \in 1..5 * n + 5 /\ 5 * (i - 1) + c <= 5 * n
      BY <2>2
    <3>2. h[5 * (i - 1) + c] = seqs[i][c]
      BY <2>2 DEF Fives
    <3>3. QED BY <1>2, <3>1, <3>2
  <2>3. QED BY <2>1, <2>2
<1>4. Len(g) = 5 * (n + 1)
  BY <1>2
<1>5. QED BY <1>2, <1>3, <1>4 DEF Fives, g, b

LEMMA FlattenFives ==
    ASSUME NEW X, NEW seqs \in Seq(Seq(X)), \A i \in 1..Len(seqs) : Len(seqs[i]) = 5
    PROVE  Fives(FlattenSeq(seqs), seqs, Len(seqs), X)
<1>1. CASE seqs = <<>>
  BY <1>1 DEF FlattenSeq, Fives
<1>2. CASE seqs # <<>>
  <2>1. PICK f : FlatUpTo(seqs, Len(seqs), f) /\ FlattenSeq(seqs) = f[Len(seqs)]
    BY <1>2, FlattenIs
  <2>2. /\ Len(seqs) \in Nat /\ Len(seqs) # 0
        /\ \A i \in 1..Len(seqs) : f[i] = IF i = 1 THEN seqs[i] ELSE f[i - 1] \o seqs[i]
    BY <1>2, <2>1, FlatFacts
  <2> DEFINE T == {n \in 0..Len(seqs) : n = 0 \/ Fives(f[n], seqs, n, X)}
  <2>3. 0 \in T
    BY <2>2
  <2>4. ASSUME NEW n \in 0..Len(seqs), n \in T, n < Len(seqs)
        PROVE  n + 1 \in T
    <3>1. n + 1 \in 1..Len(seqs) /\ seqs[n + 1] \in Seq(X) /\ (n + 1) - 1 = n
          /\ (n + 1 = 1 <=> n = 0) /\ Len(seqs[n + 1]) = 5 /\ n \in Nat
      BY <2>2, <2>4
    <3>2. f[n + 1] = IF n = 0 THEN seqs[n + 1] ELSE f[n] \o seqs[n + 1]
      BY <2>2, <3>1
    <3>3. CASE n = 0
      <4>1. f[1] = seqs[1] /\ seqs[1] \in Seq(X) /\ Len(seqs[1]) = 5
        BY <3>1, <3>2, <3>3
      <4>2. Fives(f[1], seqs, 1, X)
        BY <4>1 DEF Fives
      <4>3. QED BY <3>1, <3>3, <4>2
    <3>4. CASE n # 0
      <4>1. Fives(f[n], seqs, n, X)
        BY <2>4, <3>4
      <4>2. Fives(f[n + 1], seqs, n + 1, X)
        BY <3>1, <3>2, <3>4, <4>1, FivesGrow
      <4>3. QED BY <3>1, <4>2
    <3>5. QED BY <3>3, <3>4
  <2> HIDE DEF T
  <2>5. \A n \in 0..Len(seqs) : n \in T
    BY <2>2, <2>3, <2>4, SetInduction
  <2>6. Len(seqs) \in T
    BY <2>2, <2>5
  <2>7. QED BY <2>1, <2>2, <2>6 DEF T
<1>3. QED BY <1>1, <1>2

-----------------------------------------------------------------------------
(* What each message reads as after it was written.                        *)

LEMMA SetToSeqFacts ==
    ASSUME NEW S, IsFiniteSet(S)
    PROVE  \E n \in Nat : /\ SetToSeq(S) \in [1..n -> S]
                          /\ \A x \in S : \E i \in 1..n : SetToSeq(S)[i] = x
<1> DEFINE n == Cardinality(S)
           f == SetToSeq(S)
<1>1. n \in Nat /\ ExistsBijection(1..n, S)
  BY FS_CardinalityType
<1>2. f \in [1..n -> S] /\ IsInjective(f)
  <2>1. \E g \in [1..n -> S] : IsInjective(g)
    BY <1>1 DEF ExistsBijection, Bijection, Injection
  <2>2. f = CHOOSE g \in [1..n -> S] : IsInjective(g)
    BY DEF SetToSeq
  <2> HIDE DEF f, n
  <2>3. QED BY <2>1, <2>2
<1>3. f \in Surjection(1..n, S)
  <2>1. f \in Injection(1..n, S)
    BY <1>2 DEF Injection
  <2>2. IsFiniteSet(1..n) /\ Cardinality(1..n) = n
    BY <1>1, FS_Interval
  <2> HIDE DEF f
  <2>3. Cardinality(1..n) = Cardinality(S)
    BY <2>2
  <2>4. QED BY <2>1, <2>3, FS_Injection
<1>4. \A x \in S : \E i \in 1..n : f[i] = x
  BY <1>3 DEF Surjection
<1>5. QED BY <1>1, <1>2, <1>4

LEMMA JsonKeysAre ==
    /\ JsonTypes = {"HandshakeReq", "HandshakeResp", "TransferAccept", "TransferReject",
                    "TransferPause", "TransferResume", "TransferCancel", "TransferComplete",
                    "ErrorAlert"}
    /\ \A t \in {"HandshakeReq", "HandshakeResp"} : JsonKeys[t] = HandshakeKeys[t]
    /\ \A t \in {"TransferAccept", "TransferReject"} : JsonKeys[t] = AnswerKeys[t]
    /\ \A t \in {"TransferPause", "TransferResume", "TransferCancel", "TransferComplete",
                 "ErrorAlert"} : JsonKeys[t] = ControlKeys[t]
<1>1. /\ DOMAIN HandshakeKeys = {"HandshakeReq", "HandshakeResp"}
      /\ DOMAIN AnswerKeys = {"TransferAccept", "TransferReject"}
      /\ DOMAIN ControlKeys = {"TransferPause", "TransferResume", "TransferCancel",
                               "TransferComplete", "ErrorAlert"}
  BY DEF HandshakeKeys, AnswerKeys, ControlKeys
<1>2. JsonTypes = DOMAIN HandshakeKeys \cup DOMAIN AnswerKeys \cup DOMAIN ControlKeys
  BY DEF JsonTypes
<1>3. \A t \in DOMAIN HandshakeKeys : JsonKeys[t] = HandshakeKeys[t]
  BY <1>1, <1>2 DEF JsonKeys
<1>4. \A t \in DOMAIN AnswerKeys : JsonKeys[t] = AnswerKeys[t]
  BY <1>1, <1>2 DEF JsonKeys
<1>5. \A t \in DOMAIN ControlKeys : JsonKeys[t] = ControlKeys[t]
  BY <1>1, <1>2 DEF JsonKeys
<1>6. QED BY <1>1, <1>2, <1>3, <1>4, <1>5

LEMMA KeysFacts ==
    ASSUME NEW t \in JsonTypes
    PROVE  /\ JsonKeys[t] = [f \in DOMAIN JsonKeys[t] |-> JsonKeys[t][f]]
           /\ \A f, g \in DOMAIN JsonKeys[t] : JsonKeys[t][f] = JsonKeys[t][g] => f = g
           /\ "type" \notin DOMAIN JsonKeys[t]
<1>1. CASE t = "HandshakeReq"
  BY <1>1, JsonKeysAre DEF HandshakeKeys
<1>2. CASE t = "HandshakeResp"
  BY <1>2, JsonKeysAre DEF HandshakeKeys
<1>3. CASE t = "TransferAccept"
  BY <1>3, JsonKeysAre DEF AnswerKeys
<1>4. CASE t = "TransferReject"
  BY <1>4, JsonKeysAre DEF AnswerKeys
<1>5. CASE t = "TransferPause"
  BY <1>5, JsonKeysAre DEF ControlKeys
<1>6. CASE t = "TransferResume"
  BY <1>6, JsonKeysAre DEF ControlKeys
<1>7. CASE t = "TransferCancel"
  BY <1>7, JsonKeysAre DEF ControlKeys
<1>8. CASE t = "TransferComplete"
  BY <1>8, JsonKeysAre DEF ControlKeys
<1>9. CASE t = "ErrorAlert"
  BY <1>9, JsonKeysAre DEF ControlKeys
<1>10. QED
  BY <1>1, <1>2, <1>3, <1>4, <1>5, <1>6, <1>7, <1>8, <1>9, JsonKeysAre

LEMMA FiveAreFinite ==
    ASSUME NEW a, NEW b, NEW c, NEW d, NEW e
    PROVE  IsFiniteSet({a, b, c, d, e})
<1>1. IsFiniteSet({a}) /\ IsFiniteSet({b}) /\ IsFiniteSet({c}) /\ IsFiniteSet({d})
      /\ IsFiniteSet({e})
  BY FS_Singleton
<1>2. IsFiniteSet({a} \cup {b}) /\ IsFiniteSet({c} \cup {d})
  BY <1>1, FS_Union
<1>3. IsFiniteSet(({a} \cup {b}) \cup ({c} \cup {d}))
  BY <1>2, FS_Union
<1>4. IsFiniteSet((({a} \cup {b}) \cup ({c} \cup {d})) \cup {e})
  BY <1>1, <1>3, FS_Union
<1>5. {a, b, c, d, e} = (({a} \cup {b}) \cup ({c} \cup {d})) \cup {e}
  OBVIOUS
<1>6. QED BY <1>4, <1>5

LEMMA KeysFinite ==
    ASSUME NEW t \in JsonTypes
    PROVE  IsFiniteSet(DOMAIN JsonKeys[t])
<1> DEFINE S1 == {"version", "deviceName", "osType", "accepted", "errorMessage"}
           S2 == {"transferId", "receiverDevice", "startFileIndex", "resumeOffset", "reason"}
           S3 == {"fileIndex", "totalBytesTransferred", "errorCode", "message", "message"}
           all == (S1 \cup S2) \cup S3
<1>1. IsFiniteSet(S1) /\ IsFiniteSet(S2) /\ IsFiniteSet(S3)
  BY FiveAreFinite
<1> HIDE DEF S1, S2, S3
<1>2. IsFiniteSet(S1 \cup S2)
  BY <1>1, FS_Union
<1>3. IsFiniteSet(all)
  BY <1>1, <1>2, FS_Union
<1>4. DOMAIN JsonKeys[t] \subseteq all
  <2>1. CASE t \in {"HandshakeReq", "HandshakeResp"}
    BY <2>1, JsonKeysAre DEF HandshakeKeys, S1
  <2>2. CASE t \in {"TransferAccept", "TransferReject"}
    BY <2>2, JsonKeysAre DEF AnswerKeys, S1, S2
  <2>3. CASE t \in {"TransferPause", "TransferResume", "TransferCancel", "TransferComplete",
                    "ErrorAlert"}
    BY <2>3, JsonKeysAre DEF ControlKeys, S2, S3
  <2>4. QED BY <2>1, <2>2, <2>3, JsonKeysAre
<1> HIDE DEF all
<1>5. QED BY <1>3, <1>4, FS_Subset

Reads(m) == IF WithinLimits(m) THEN m ELSE Unreadable

LEMMA OneCell ==
    ASSUME NEW Y, NEW x \in Y
    PROVE  <<x>> \in Seq(Y) /\ Len(<<x>>) = 1 /\ <<x>>[1] = x
OBVIOUS

\* A sequence between two cells.
LEMMA BetweenFacts ==
    ASSUME NEW Y, NEW x \in Y, NEW y \in Y, NEW s \in Seq(Y)
    PROVE  /\ <<x>> \o s \o <<y>> \in Seq(Y)
           /\ Len(<<x>> \o s \o <<y>>) = Len(s) + 2
           /\ (<<x>> \o s \o <<y>>)[1] = x
           /\ (<<x>> \o s \o <<y>>)[Len(s) + 2] = y
           /\ \A i \in 1..Len(s) : (<<x>> \o s \o <<y>>)[i + 1] = s[i]
<1> DEFINE a == <<x>>
           c == <<y>>
           b == a \o s
           d == b \o c
<1>1. a \in Seq(Y) /\ Len(a) = 1 /\ a[1] = x
  BY OneCell
<1>2. c \in Seq(Y) /\ Len(c) = 1 /\ c[1] = y
  BY OneCell
<1> HIDE DEF a, c
<1>3. /\ b \in Seq(Y) /\ Len(b) = Len(a) + Len(s)
      /\ \A i \in 1..Len(a) + Len(s) : b[i] = IF i <= Len(a) THEN a[i] ELSE s[i - Len(a)]
  BY <1>1, ConcatProperties
<1> HIDE DEF b
<1>4. /\ d \in Seq(Y) /\ Len(d) = Len(b) + Len(c)
      /\ \A i \in 1..Len(b) + Len(c) : d[i] = IF i <= Len(b) THEN b[i] ELSE c[i - Len(b)]
  <2>1. b \in Seq(Y) /\ c \in Seq(Y)
    BY <1>2, <1>3
  <2>2. QED BY <2>1, ConcatProperties
<1> HIDE DEF d
<1>5. Len(s) \in Nat /\ Len(b) = 1 + Len(s) /\ Len(d) = Len(s) + 2
  BY <1>1, <1>2, <1>3, <1>4
<1>6. d[1] = x
  BY <1>1, <1>2, <1>3, <1>4, <1>5
<1>7. d[Len(s) + 2] = y
  BY <1>1, <1>2, <1>4, <1>5
<1>8. ASSUME NEW i \in 1..Len(s)
      PROVE  d[i + 1] = s[i]
  <2>1. i + 1 \in 1..Len(b) + Len(c) /\ i + 1 <= Len(b) /\ ~(i + 1 <= Len(a))
        /\ (i + 1) - Len(a) = i /\ i + 1 \in 1..Len(a) + Len(s)
    BY <1>1, <1>2, <1>5
  <2>2. d[i + 1] = b[i + 1] /\ b[i + 1] = s[(i + 1) - Len(a)]
    BY <1>3, <1>4, <2>1
  <2>3. QED BY <2>1, <2>2
<1>9. d \in Seq(Y)
  BY <1>4
<1>10. QED BY <1>5, <1>6, <1>7, <1>8, <1>9 DEF d, b, a, c

\* What is read back from the members of an object.
Member(data, key) == {i \in 2..Len(data) - 1 : data[i][1] = key}
ValueOf(data, key) ==
    IF Member(data, key) = {} THEN "default" ELSE data[CHOOSE i \in Member(data, key) : TRUE][2]
CellsOf(m) == {<<JsonKeys[m.type][f], m[f]>> : f \in DOMAIN JsonKeys[m.type]}

LEMMA CellsFinite ==
    ASSUME NEW m, m.type \in JsonTypes
    PROVE  IsFiniteSet(CellsOf(m))
<1> DEFINE D == DOMAIN JsonKeys[m.type]
           h == [f \in D |-> <<JsonKeys[m.type][f], m[f]>>]
<1>1. h \in Surjection(D, CellsOf(m))
  BY DEF Surjection, CellsOf
<1>2. IsFiniteSet(D)
  BY KeysFinite
<1> HIDE DEF h, D
<1>3. QED BY <1>1, <1>2, FS_Surjection

\* The types of messages do not overlap.
LEMMA ByType ==
    ASSUME NEW m
    PROVE  m.type \in JsonTypes =>
                 /\ Serialize(m) = SerializeJson(m)
                 /\ \A data : Parse(m.type, data) = ParseJson(m.type, data)
                 /\ FieldsOf(m.type) = DOMAIN JsonKeys[m.type]
                 /\ m.type \notin {"TransferOffer", "FileStart", "FileDataChunk", "FileEnd",
                                   "FileAck"}
<1>1. m.type \in JsonTypes => m.type \notin {"TransferOffer", "FileStart", "FileDataChunk",
                                            "FileEnd", "FileAck"}
  BY JsonKeysAre
<1>2. m.type \in JsonTypes => Serialize(m) = SerializeJson(m)
  BY <1>1 DEF Serialize
<1>3. ASSUME m.type \in JsonTypes, NEW data
      PROVE  Parse(m.type, data) = ParseJson(m.type, data)
  BY <1>1, <1>3 DEF Parse
<1>4. m.type \in JsonTypes => FieldsOf(m.type) = DOMAIN JsonKeys[m.type]
  BY <1>1 DEF FieldsOf
<1>5. QED BY <1>1, <1>2, <1>3, <1>4

LEMMA JsonReads ==
    ASSUME NEW m, m.type \in JsonTypes, WellFormed(m)
    PROVE  /\ \E X : Serialize(m) \in Seq(X)
           /\ Parse(m.type, Serialize(m)) = m
<1> DEFINE D == DOMAIN JsonKeys[m.type]
           keys == JsonKeys[m.type]
           s == SetToSeq(CellsOf(m))
           open == "{"
           close == "}"
           Y == CellsOf(m) \cup {open, close}
           d == <<open>> \o s \o <<close>>
<1>1. \A f, g \in D : keys[f] = keys[g] => f = g
  BY KeysFacts
<1>2. m = [f \in D \cup {"type"} |-> m[f]]
  BY ByType DEF WellFormed
<1>3. PICK n \in Nat : /\ s \in [1..n -> CellsOf(m)]
                       /\ \A x \in CellsOf(m) : \E i \in 1..n : s[i] = x
  BY CellsFinite, SetToSeqFacts
<1>4. Serialize(m) = d
  BY ByType DEF SerializeJson, CellsOf
<1>5. Parse(m.type, d) =
        IF ~IsObject(d) THEN Unreadable
        ELSE [f \in D \cup {"type"} |-> IF f = "type" THEN m.type ELSE ValueOf(d, keys[f])]
  <2>1. Parse(m.type, d) = ParseJson(m.type, d)
    BY ByType
  <2> HIDE DEF d
  <2>2. QED BY <2>1 DEF ParseJson, ValueOf, Member
<1> HIDE DEF s
<1>6. s \in Seq(Y) /\ Len(s) = n
  <2>1. s \in Seq(CellsOf(m)) /\ Len(s) = n
    BY <1>3
  <2>2. Seq(CellsOf(m)) \subseteq Seq(Y)
    BY SeqMonotonic
  <2>3. QED BY <2>1, <2>2
<1>7. open \in Y /\ close \in Y
  OBVIOUS
<1> HIDE DEF Y, open, close
<1>8. /\ d \in Seq(Y) /\ Len(d) = n + 2 /\ d[1] = open /\ d[n + 2] = close
      /\ \A i \in 1..n : d[i + 1] = s[i]
  <2>1. s \in Seq(Y) /\ open \in Y /\ close \in Y
    BY <1>6, <1>7
  <2>2. /\ d \in Seq(Y) /\ Len(d) = Len(s) + 2 /\ d[1] = open /\ d[Len(s) + 2] = close
        /\ \A i \in 1..Len(s) : d[i + 1] = s[i]
    BY <2>1, BetweenFacts
  <2> HIDE DEF d
  <2>3. QED BY <1>6, <2>2
<1>8a. Len(d) = n + 2 /\ Len(d) - 1 = n + 1
  <2>1. Len(d) = n + 2
    BY <1>8
  <2> HIDE DEF d
  <2>2. QED BY <2>1
<1> HIDE DEF d, keys, D
<1>9. ASSUME NEW f \in D
      PROVE  ValueOf(d, keys[f]) = m[f]
  <2>1. <<keys[f], m[f]>> \in CellsOf(m)
    BY DEF CellsOf, keys, D
  <2>2. PICK i \in 1..n : s[i] = <<keys[f], m[f]>>
    BY <1>3, <2>1
  <2>3. i + 1 \in 2..Len(d) - 1 /\ d[i + 1] = <<keys[f], m[f]>>
    <3>1. d[i + 1] = s[i]
      BY <1>8
    <3>2. i + 1 \in 2..n + 1
      OBVIOUS
    <3>3. QED BY <1>8a, <2>2, <3>1, <3>2
  <2>4. i + 1 \in Member(d, keys[f])
    BY <2>3 DEF Member
  <2>5. PICK j : j = (CHOOSE k \in Member(d, keys[f]) : TRUE) /\ j \in Member(d, keys[f])
    BY <2>4
  <2>6. j \in 2..Len(d) - 1 /\ d[j][1] = keys[f]
    BY <2>5 DEF Member
  <2>7. j - 1 \in 1..n /\ (j - 1) + 1 = j
    <3>1. j \in 2..n + 1
      BY <1>8a, <2>6
    <3>2. QED BY <3>1
  <2>8. d[j] = s[j - 1] /\ s[j - 1] \in CellsOf(m)
    BY <1>3, <1>8, <2>7
  <2>9. PICK g \in D : d[j] = <<keys[g], m[g]>>
    BY <2>8 DEF CellsOf, keys, D
  <2>10. g = f
    BY <1>1, <2>6, <2>9
  <2>11. d[j][2] = m[f]
    BY <2>9, <2>10
  <2>12. ValueOf(d, keys[f]) = d[j][2]
    BY <2>4, <2>5 DEF ValueOf
  <2>13. QED BY <2>11, <2>12
<1>10. IsObject(d)
  <2>1. Len(d) >= 2 /\ d[1] = open /\ d[Len(d)] = close
    BY <1>8, <1>8a
  <2>2. QED BY <2>1 DEF IsObject, open, close
<1>11. Parse(m.type, d) = [f \in D \cup {"type"} |-> m[f]]
  <2>1. \A f \in D \cup {"type"} :
           (IF f = "type" THEN m.type ELSE ValueOf(d, keys[f])) = m[f]
    BY <1>9
  <2>2. QED BY <1>5, <1>10, <2>1
<1>12. QED BY <1>2, <1>4, <1>8, <1>11

LEMMA OtherTypes ==
    \A t \in {"TransferOffer", "FileStart", "FileDataChunk", "FileEnd", "FileAck"} :
        t \notin JsonTypes
BY JsonKeysAre

LEMMA FileStartReads ==
    ASSUME NEW m, m.type = "FileStart", WellFormed(m)
    PROVE  /\ \E X : Serialize(m) \in Seq(X)
           /\ Parse(m.type, Serialize(m)) = m
<1>1. m.type \notin JsonTypes
  BY OtherTypes
<1>2. /\ Serialize(m) = SerializeFileStart(m)
      /\ FieldsOf(m.type) = {"transferId", "fileIndex", "relativePath", "fileSize",
                             "modifiedTime", "expectedBlake3"}
  BY <1>1 DEF Serialize, FieldsOf
<1>3. Parse(m.type, Serialize(m)) = ParseFileStart(Serialize(m))
  BY <1>1 DEF Parse
<1>4. m = [type |-> "FileStart", transferId |-> m.transferId, fileIndex |-> m.fileIndex,
           relativePath |-> m.relativePath, fileSize |-> m.fileSize,
           modifiedTime |-> m.modifiedTime, expectedBlake3 |-> m.expectedBlake3]
  BY <1>2 DEF WellFormed
<1> DEFINE X == {m.transferId, m.fileIndex, m.relativePath, m.fileSize, m.modifiedTime,
                 m.expectedBlake3}
<1>5. SerializeFileStart(m) \in Seq(X)
  BY DEF SerializeFileStart
<1>6. ParseFileStart(SerializeFileStart(m)) = m
  BY <1>4 DEF SerializeFileStart, ParseFileStart
<1>7. QED BY <1>2, <1>3, <1>5, <1>6

LEMMA FileEndReads ==
    ASSUME NEW m, m.type = "FileEnd", WellFormed(m)
    PROVE  /\ \E X : Serialize(m) \in Seq(X)
           /\ Parse(m.type, Serialize(m)) = m
<1>1. m.type \notin JsonTypes
  BY OtherTypes
<1>2. /\ Serialize(m) = SerializeFileEnd(m)
      /\ FieldsOf(m.type) = {"fileIndex", "blake3Checksum"}
  BY <1>1 DEF Serialize, FieldsOf
<1>3. Parse(m.type, Serialize(m)) = ParseFileEnd(Serialize(m))
  BY <1>1 DEF Parse
<1>4. m = [type |-> "FileEnd", fileIndex |-> m.fileIndex, blake3Checksum |-> m.blake3Checksum]
  BY <1>2 DEF WellFormed
<1> DEFINE X == {m.fileIndex, m.blake3Checksum}
<1>5. SerializeFileEnd(m) \in Seq(X)
  BY DEF SerializeFileEnd
<1>6. ParseFileEnd(SerializeFileEnd(m)) = m
  BY <1>4 DEF SerializeFileEnd, ParseFileEnd
<1>7. QED BY <1>2, <1>3, <1>5, <1>6

LEMMA FileAckReads ==
    ASSUME NEW m, m.type = "FileAck", WellFormed(m)
    PROVE  /\ \E X : Serialize(m) \in Seq(X)
           /\ Parse(m.type, Serialize(m)) = m
<1>1. m.type \notin JsonTypes
  BY OtherTypes
<1>2. /\ Serialize(m) = SerializeFileAck(m)
      /\ FieldsOf(m.type) = {"fileIndex", "statusCode", "bytesReceived", "calculatedBlake3"}
  BY <1>1 DEF Serialize, FieldsOf
<1>3. Parse(m.type, Serialize(m)) = ParseFileAck(Serialize(m))
  BY <1>1 DEF Parse
<1>4. m = [type |-> "FileAck", fileIndex |-> m.fileIndex, statusCode |-> m.statusCode,
           bytesReceived |-> m.bytesReceived, calculatedBlake3 |-> m.calculatedBlake3]
  BY <1>2 DEF WellFormed
<1> DEFINE X == {m.fileIndex, m.statusCode, m.bytesReceived, m.calculatedBlake3}
<1>5. SerializeFileAck(m) \in Seq(X)
  BY DEF SerializeFileAck
<1>6. ParseFileAck(SerializeFileAck(m)) = m
  BY <1>4 DEF SerializeFileAck, ParseFileAck
<1>7. QED BY <1>2, <1>3, <1>5, <1>6

LEMMA Below == ASSUME NEW a \in Nat, NEW w \in Nat, a < w PROVE a % w = a
OBVIOUS

LEMMA ChunkReads ==
    ASSUME NEW m, m.type = "FileDataChunk", WellFormed(m)
    PROVE  /\ \E X : Serialize(m) \in Seq(X)
           /\ Parse(m.type, Serialize(m)) = m
           /\ Len(Serialize(m)) <= ChunkHeader + MaxChunk
<1> DEFINE c == m.chunkData
           n == Len(c)
           a == <<m.fileIndex, m.offset, n % Word>>
           X == ToSet(c) \cup {m.fileIndex, m.offset, n % Word}
           d == a \o c
<1>1. m.type \notin JsonTypes
  BY OtherTypes
<1>2. /\ Serialize(m) = d
      /\ FieldsOf(m.type) = {"fileIndex", "offset", "chunkData"}
  BY <1>1 DEF Serialize, SerializeFileDataChunk, FieldsOf
<1>3. Parse(m.type, d) = ParseFileDataChunk(d)
  <2> HIDE DEF d
  <2>1. QED BY <1>1 DEF Parse
<1>4. /\ m = [type |-> "FileDataChunk", fileIndex |-> m.fileIndex, offset |-> m.offset,
              chunkData |-> c]
      /\ c \in Seq(ToSet(c)) /\ n <= MaxChunk
  BY <1>2 DEF WellFormed
<1>5. n \in Nat /\ n % Word = n /\ (ChunkHeader + n) % Word = ChunkHeader + n /\ n + 3 \in Nat
      /\ ChunkHeader + n <= ChunkHeader + MaxChunk
  <2>1. n \in Nat
    BY <1>4
  <2> HIDE DEF n
  <2>2. /\ n < Word /\ ChunkHeader + n < Word /\ ChunkHeader + n \in Nat /\ Word \in Nat
        /\ ChunkHeader + n <= ChunkHeader + MaxChunk /\ n + 3 \in Nat
    BY <1>4, <2>1, ProtocolAssumption DEF ChunkHeader
  <2>3. QED BY <2>1, <2>2, Below
<1>6. a \in Seq(X) /\ Len(a) = 3 /\ a[1] = m.fileIndex /\ a[2] = m.offset /\ a[3] = n
  <2> HIDE DEF n, c
  <2>1. QED BY <1>5
<1>7. c \in Seq(X)
  <2>1. Seq(ToSet(c)) \subseteq Seq(X)
    BY SeqMonotonic
  <2>2. QED BY <1>4, <2>1
<1> HIDE DEF a, X, c
<1>8. /\ d \in Seq(X) /\ Len(d) = Len(a) + Len(c)
      /\ \A i \in 1..Len(a) + Len(c) : d[i] = IF i <= Len(a) THEN a[i] ELSE c[i - Len(a)]
  BY <1>6, <1>7, ConcatProperties
<1> HIDE DEF d
<1>9. Len(d) = ChunkHeader + n /\ d[1] = m.fileIndex /\ d[2] = m.offset /\ d[3] = n
  <2>1. Len(d) = 3 + n /\ \A i \in 1..3 : i <= Len(a) /\ i \in 1..Len(a) + Len(c)
    BY <1>5, <1>6, <1>8
  <2>2. d[1] = a[1] /\ d[2] = a[2] /\ d[3] = a[3]
    BY <1>8, <2>1
  <2>3. QED BY <1>6, <2>1, <2>2 DEF ChunkHeader
<1>10. SubSeq(d, ChunkHeader + 1, ChunkHeader + n) = c
  <2> DEFINE s == SubSeq(d, 4, 3 + n)
  <2>1. Len(d) = 3 + n /\ n \in Nat
    BY <1>5, <1>9 DEF ChunkHeader
  <2>2. s \in Seq(X) /\ Len(s) = n /\ \A i \in 1..n : s[i] = d[i + 3]
    <3> HIDE DEF n
    <3>1. /\ s \in Seq(X) /\ Len(s) = (IF 4 <= 3 + n THEN 3 + n - 4 + 1 ELSE 0)
          /\ \A i \in 1..3 + n - 4 + 1 : s[i] = d[4 + i - 1]
      BY <1>8, <2>1, SubSeqProperties
    <3> HIDE DEF s
    <3>2. Len(s) = n
      BY <2>1, <3>1
    <3>3. ASSUME NEW i \in 1..n PROVE s[i] = d[i + 3]
      <4>1. i \in 1..3 + n - 4 + 1 /\ 4 + i - 1 = i + 3
        BY <2>1
      <4>2. QED BY <3>1, <4>1
    <3>4. QED BY <3>1, <3>2, <3>3
  <2> HIDE DEF s
  <2>3. ASSUME NEW i \in 1..n PROVE s[i] = c[i]
    <3>1. i + 3 \in 1..Len(a) + Len(c) /\ ~(i + 3 <= Len(a)) /\ (i + 3) - Len(a) = i
      BY <1>6, <2>1
    <3>2. QED BY <1>8, <2>2, <3>1
  <2>4. s = c
    BY <1>7, <2>1, <2>2, <2>3, SeqEqual
  <2>5. QED BY <2>4 DEF s, ChunkHeader
<1>11. ParseFileDataChunk(d) = [type |-> "FileDataChunk", fileIndex |-> d[1], offset |-> d[2],
                                chunkData |-> SubSeq(d, ChunkHeader + 1, ChunkHeader + d[3])]
  <2>1. ~(Len(d) < ChunkHeader)
    BY <1>5, <1>9 DEF ChunkHeader
  <2>2. ChunkFits(d)
    BY <1>9 DEF ChunkFits
  <2>3. QED BY <2>1, <2>2 DEF ParseFileDataChunk
<1>12. ParseFileDataChunk(d) = m
  BY <1>4, <1>9, <1>10, <1>11
<1>13. QED BY <1>2, <1>3, <1>5, <1>8, <1>9, <1>12

\* A manifest's item, and an offer of such items.
IsItem(x) ==
    x = [fileIndex |-> x.fileIndex, relativePath |-> x.relativePath, fileSize |-> x.fileSize,
         modifiedTime |-> x.modifiedTime, blake3Checksum |-> x.blake3Checksum]

IsOffer(m) ==
    /\ m = [type |-> "TransferOffer", transferId |-> m.transferId,
            senderDevice |-> m.senderDevice, totalFiles |-> m.totalFiles,
            totalBytes |-> m.totalBytes, items |-> m.items]
    /\ m.items \in Seq(ToSet(m.items))
    /\ \A x \in ToSet(m.items) : IsItem(x)

ItemCells(items) ==
    UNION {{x.fileIndex, x.relativePath, x.fileSize, x.modifiedTime, x.blake3Checksum} :
           x \in ToSet(items)}
Blocks(items) == [i \in DOMAIN items |-> SerializeItem(items[i])]

\* The items in the payload, five cells each.
LEMMA BlocksFacts ==
    ASSUME NEW items, items \in Seq(ToSet(items))
    PROVE  Fives(FlattenSeq(Blocks(items)), Blocks(items), Len(items), ItemCells(items))
<1>1. Len(items) \in Nat /\ DOMAIN items = 1..Len(items)
  OBVIOUS
<1>2. ASSUME NEW i \in 1..Len(items)
      PROVE  /\ SerializeItem(items[i]) \in Seq(ItemCells(items))
             /\ Len(SerializeItem(items[i])) = 5
  <2> DEFINE x == items[i]
             Y == {x.fileIndex, x.relativePath, x.fileSize, x.modifiedTime, x.blake3Checksum}
  <2>1. x \in ToSet(items)
    BY <1>1 DEF ToSet
  <2>2. Y \subseteq ItemCells(items)
    BY <2>1 DEF ItemCells
  <2>3. SerializeItem(x) \in Seq(Y) /\ Len(SerializeItem(x)) = 5
    BY DEF SerializeItem
  <2>4. Seq(Y) \subseteq Seq(ItemCells(items))
    BY <2>2, SeqMonotonic
  <2> HIDE DEF x, Y
  <2>5. QED BY <2>3, <2>4 DEF x
<1>3. /\ Blocks(items) \in Seq(Seq(ItemCells(items))) /\ Len(Blocks(items)) = Len(items)
      /\ \A i \in 1..Len(items) : Blocks(items)[i] = SerializeItem(items[i])
  <2>1. Blocks(items) = [i \in 1..Len(items) |-> SerializeItem(items[i])]
    BY <1>1 DEF Blocks
  <2>2. Blocks(items) \in [1..Len(items) -> Seq(ItemCells(items))]
    BY <1>2, <2>1
  <2>3. QED BY <1>1, <2>1, <2>2
<1>4. \A i \in 1..Len(Blocks(items)) : Len(Blocks(items)[i]) = 5
  BY <1>2, <1>3
<1>5. Fives(FlattenSeq(Blocks(items)), Blocks(items), Len(Blocks(items)), ItemCells(items))
  BY <1>3, <1>4, FlattenFives
<1>6. QED BY <1>3, <1>5

OfferCells(m) ==
    ItemCells(m.items) \cup {m.transferId, m.senderDevice, m.totalFiles, m.totalBytes,
                             Len(m.items)}

\* What is written of an offer, cell by cell.
LEMMA OfferWritten ==
    ASSUME NEW m, IsOffer(m)
    PROVE  LET d == SerializeTransferOffer(m)
           IN  /\ d \in Seq(OfferCells(m)) /\ Len(d) = OfferHead + ItemSize * Len(m.items)
               /\ d[1] = m.transferId /\ d[2] = m.senderDevice /\ d[3] = m.totalFiles
               /\ d[4] = m.totalBytes /\ d[5] = Len(m.items)
               /\ \A i \in 1..Len(m.items) : \A c \in 1..5 :
                     d[OfferHead + ItemSize * (i - 1) + c] = SerializeItem(m.items[i])[c]
<1> DEFINE n == Len(m.items)
           a == <<m.transferId, m.senderDevice, m.totalFiles, m.totalBytes, n>>
           b == FlattenSeq(Blocks(m.items))
           d == a \o b
           X == OfferCells(m)
<1>1. SerializeTransferOffer(m) = d
  BY DEF SerializeTransferOffer, Blocks
<1>2. n \in Nat /\ DOMAIN m.items = 1..n /\ m.items \in Seq(ToSet(m.items))
  BY DEF IsOffer
<1>3. /\ b \in Seq(X) /\ Len(b) = 5 * n
      /\ \A i \in 1..n : \A c \in 1..5 : b[5 * (i - 1) + c] = SerializeItem(m.items[i])[c]
  <2>1. Fives(b, Blocks(m.items), n, ItemCells(m.items))
    BY <1>2, BlocksFacts
  <2>2. ItemCells(m.items) \subseteq X
    BY DEF OfferCells
  <2>3. Seq(ItemCells(m.items)) \subseteq Seq(X)
    BY <2>2, SeqMonotonic
  <2>4. \A i \in 1..n : Blocks(m.items)[i] = SerializeItem(m.items[i])
    BY <1>2 DEF Blocks
  <2> HIDE DEF b, X, n
  <2>5. QED BY <2>1, <2>3, <2>4 DEF Fives
<1>4. /\ a \in Seq(X) /\ Len(a) = 5
      /\ a[1] = m.transferId /\ a[2] = m.senderDevice /\ a[3] = m.totalFiles
      /\ a[4] = m.totalBytes /\ a[5] = n
  <2>1. {m.transferId, m.senderDevice, m.totalFiles, m.totalBytes, n} \subseteq X
    BY DEF OfferCells
  <2> HIDE DEF n, X
  <2>2. QED BY <2>1
<1> HIDE DEF a, b, X, n
<1>5. /\ d \in Seq(X) /\ Len(d) = Len(a) + Len(b)
      /\ \A i \in 1..Len(a) + Len(b) : d[i] = IF i <= Len(a) THEN a[i] ELSE b[i - Len(a)]
  BY <1>3, <1>4, ConcatProperties
<1> HIDE DEF d
<1>6. Len(d) = OfferHead + ItemSize * n
  BY <1>2, <1>3, <1>4, <1>5 DEF OfferHead, ItemSize
<1>7. d[1] = a[1] /\ d[2] = a[2] /\ d[3] = a[3] /\ d[4] = a[4] /\ d[5] = a[5]
  <2>1. \A i \in 1..5 : i <= Len(a) /\ i \in 1..Len(a) + Len(b)
    BY <1>2, <1>3, <1>4
  <2>2. QED BY <1>5, <2>1
<1>8. ASSUME NEW i \in 1..n, NEW c \in 1..5
      PROVE  d[OfferHead + ItemSize * (i - 1) + c] = SerializeItem(m.items[i])[c]
  <2> DEFINE k == 5 * (i - 1) + c
  <2>1. k \in 1..5 * n /\ OfferHead + ItemSize * (i - 1) + c = k + 5
    BY <1>2 DEF OfferHead, ItemSize
  <2>2. b[k] = SerializeItem(m.items[i])[c]
    BY <1>3
  <2> HIDE DEF k
  <2>3. k + 5 \in 1..Len(a) + Len(b) /\ ~(k + 5 <= Len(a)) /\ (k + 5) - Len(a) = k
    BY <1>2, <1>3, <1>4, <2>1
  <2>4. QED BY <1>5, <2>1, <2>2, <2>3
<1>9. QED BY <1>1, <1>4, <1>5, <1>6, <1>7, <1>8 DEF n, X

LEMMA OfferReads ==
    ASSUME NEW m, IsOffer(m)
    PROVE  /\ \E X : Serialize(m) \in Seq(X)
           /\ Parse(m.type, Serialize(m)) = Reads(m)
           /\ Len(Serialize(m)) = OfferHead + ItemSize * Len(m.items)
<1> DEFINE n == Len(m.items)
           d == SerializeTransferOffer(m)
<1>1. m.type = "TransferOffer" /\ m.type \notin JsonTypes
  BY OtherTypes DEF IsOffer
<1>2. Serialize(m) = d
  BY <1>1 DEF Serialize
<1>3. Parse(m.type, d) = ParseTransferOffer(d)
  <2> HIDE DEF d
  <2>1. QED BY <1>1 DEF Parse
<1>4. /\ d \in Seq(OfferCells(m)) /\ Len(d) = OfferHead + ItemSize * n
      /\ d[1] = m.transferId /\ d[2] = m.senderDevice /\ d[3] = m.totalFiles
      /\ d[4] = m.totalBytes /\ d[5] = n
      /\ \A i \in 1..n : \A c \in 1..5 :
            d[OfferHead + ItemSize * (i - 1) + c] = SerializeItem(m.items[i])[c]
  BY OfferWritten
<1>5. n \in Nat /\ DOMAIN m.items = 1..n /\ \A i \in 1..n : IsItem(m.items[i])
  BY DEF IsOffer, ToSet
<1> HIDE DEF d
<1>6. ASSUME NEW i \in 1..n
      PROVE  ParseItem(d, OfferHead + ItemSize * (i - 1)) = m.items[i]
  <2> DEFINE at == OfferHead + ItemSize * (i - 1)
             x == m.items[i]
  <2>1. /\ SerializeItem(x)[1] = x.fileIndex /\ SerializeItem(x)[2] = x.relativePath
        /\ SerializeItem(x)[3] = x.fileSize /\ SerializeItem(x)[4] = x.modifiedTime
        /\ SerializeItem(x)[5] = x.blake3Checksum
    BY DEF SerializeItem
  <2>2. /\ d[at + 1] = x.fileIndex /\ d[at + 2] = x.relativePath /\ d[at + 3] = x.fileSize
        /\ d[at + 4] = x.modifiedTime /\ d[at + 5] = x.blake3Checksum
    <3>1. \A c \in 1..5 : d[at + c] = SerializeItem(x)[c]
      BY <1>4
    <3> HIDE DEF at, x
    <3>2. QED BY <2>1, <3>1
  <2>3. IsItem(x)
    BY <1>5
  <2> HIDE DEF at, x
  <2>4. ParseItem(d, at) = x
    BY <2>2, <2>3 DEF ParseItem, IsItem
  <2>5. QED BY <2>4 DEF at, x
<1>7. [i \in 1..n |-> ParseItem(d, OfferHead + ItemSize * (i - 1))] = m.items
  <2>1. m.items = [i \in 1..n |-> m.items[i]]
    BY <1>5 DEF IsOffer
  <2>2. QED BY <1>6, <2>1
<1>8. WithinLimits(m) <=> n <= MaxItems /\ OfferHead + ItemSize * n <= MaxMetadata
  BY <1>1 DEF WithinLimits
<1>9. CASE WithinLimits(m)
  <2>1. ~(\/ Len(d) > MaxMetadata \/ Len(d) < OfferHead
          \/ d[5] > MaxItems      \/ Len(d) < OfferHead + ItemSize * d[5])
    <3>1. d[5] = n /\ Len(d) = OfferHead + ItemSize * n
      BY <1>4
    <3>2. n <= MaxItems /\ OfferHead + ItemSize * n <= MaxMetadata /\ n \in Nat
      BY <1>5, <1>8, <1>9
    <3>3. MaxItems \in Nat /\ MaxMetadata \in Nat
      BY ProtocolAssumption
    <3> HIDE DEF n
    <3>4. Len(d) <= MaxMetadata /\ OfferHead <= Len(d)
      BY <3>1, <3>2, <3>3 DEF OfferHead, ItemSize
    <3>5. d[5] <= MaxItems /\ ~(Len(d) < OfferHead + ItemSize * d[5])
      BY <3>1, <3>2, <3>3 DEF OfferHead, ItemSize
    <3>6. QED
      BY <3>1, <3>2, <3>3, <3>4, <3>5 DEF OfferHead, ItemSize
  <2>2. ParseTransferOffer(d) =
          [type |-> "TransferOffer", transferId |-> m.transferId,
           senderDevice |-> m.senderDevice, totalFiles |-> m.totalFiles,
           totalBytes |-> m.totalBytes, items |-> m.items]
    BY <1>4, <1>7, <2>1 DEF ParseTransferOffer
  <2>3. ParseTransferOffer(d) = m
    BY <2>2 DEF IsOffer
  <2>4. QED BY <1>2, <1>3, <1>4, <1>9, <2>3 DEF Reads
<1>10. CASE ~WithinLimits(m)
  <2>1. \/ Len(d) > MaxMetadata \/ Len(d) < OfferHead
        \/ d[5] > MaxItems      \/ Len(d) < OfferHead + ItemSize * d[5]
    BY <1>4, <1>5, <1>8, <1>10, ProtocolAssumption DEF OfferHead, ItemSize
  <2>2. ParseTransferOffer(d) = Unreadable
    BY <2>1 DEF ParseTransferOffer
  <2>3. QED BY <1>2, <1>3, <1>4, <1>10, <2>2 DEF Reads
<1>11. QED BY <1>9, <1>10

-----------------------------------------------------------------------------
(* The manifest of what is selected.                                       *)

\* A list of a manifest's items.
IsItems(s) == s \in Seq(ToSet(s)) /\ \A x \in ToSet(s) : IsItem(x)

LEMMA ItemsOfType ==
    ASSUME NEW p
    PROVE  IsItems(ItemsOf(p))
<1>0. ASSUME NEW r, NEW z PROVE IsItem(Item(r, z))
  BY DEF Item, IsItem
<1>1. CASE p \in FilePaths
  <2> DEFINE x == Item(<<BaseName[p]>>, SizeOf[p])
  <2>1. IsItem(x) /\ ItemsOf(p) = <<x>>
    BY <1>0, <1>1 DEF ItemsOf
  <2> HIDE DEF x
  <2>2. ToSet(<<x>>) = {x} /\ <<x>> \in Seq({x})
    BY DEF ToSet
  <2>3. QED BY <2>1, <2>2 DEF IsItems
<1>2. CASE p \notin FilePaths /\ p \in FolderPaths
  <2> DEFINE q == Inside[p]
             x(i) == Item(<<BaseName[p]>> \o q[i].path, q[i].size)
             s == [i \in 1..Len(q) |-> x(i)]
  <2>1. Len(q) \in Nat /\ DOMAIN q = 1..Len(q)
    BY <1>2, EnumeratorAssumption
  <2>2. ItemsOf(p) = s
    BY <1>2, <2>1 DEF ItemsOf
  <2>3. \A i \in 1..Len(q) : IsItem(x(i))
    BY <1>0
  <2> HIDE DEF x, q
  <2>4. DOMAIN s = 1..Len(q) /\ \A i \in 1..Len(q) : s[i] = x(i)
    OBVIOUS
  <2>5. ToSet(s) = {x(i) : i \in 1..Len(q)}
    BY <2>4 DEF ToSet
  <2>6. s \in Seq(ToSet(s))
    BY <2>1, <2>4, <2>5
  <2> HIDE DEF s
  <2>7. QED BY <2>2, <2>3, <2>5, <2>6 DEF IsItems
<1>3. CASE p \notin FilePaths /\ p \notin FolderPaths
  <2>1. ItemsOf(p) = <<>>
    BY <1>3 DEF ItemsOf
  <2>2. ToSet(<<>>) = {} /\ <<>> \in Seq({})
    BY DEF ToSet
  <2>3. QED BY <2>1, <2>2 DEF IsItems
<1>4. QED BY <1>1, <1>2, <1>3

\* What is selected becomes a list of items, numbered by their places.
LEMMA ManifestType ==
    ASSUME NEW ps, ps \in Seq(ToSet(ps))
    PROVE  LET items == EnumeratePaths(ps).items
           IN  /\ IsItems(items)
               /\ \A i \in 1..Len(items) : items[i].fileIndex = i - 1
<1> DEFINE Z == UNION {ToSet(ItemsOf(p)) : p \in ToSet(ps)}
           seqs == [k \in DOMAIN ps |-> ItemsOf(ps[k])]
           flat == FlattenSeq(seqs)
           items == Numbered(flat)
<1>1. ASSUME NEW p \in ToSet(ps) PROVE ItemsOf(p) \in Seq(Z)
  <2>1. ItemsOf(p) \in Seq(ToSet(ItemsOf(p)))
    BY ItemsOfType DEF IsItems
  <2>2. ToSet(ItemsOf(p)) \subseteq Z
    OBVIOUS
  <2>3. Seq(ToSet(ItemsOf(p))) \subseteq Seq(Z)
    BY <2>2, SeqMonotonic
  <2>4. QED BY <2>1, <2>3
<1>2. \A x \in Z : IsItem(x)
  BY ItemsOfType DEF IsItems
<1>3. seqs \in Seq(Seq(Z))
  <2> HIDE DEF Z
  <2>1. Len(ps) \in Nat /\ DOMAIN ps = 1..Len(ps) /\ \A k \in 1..Len(ps) : ps[k] \in ToSet(ps)
    BY DEF ToSet
  <2>2. seqs \in [1..Len(ps) -> Seq(Z)]
    BY <1>1, <2>1
  <2>3. QED BY <2>1, <2>2
<1>4. flat \in Seq(Z)
  <2> HIDE DEF seqs, Z
  <2>1. QED BY <1>3, FlattenType
<1> HIDE DEF flat, Z
<1>5. /\ Len(flat) \in Nat /\ DOMAIN flat = 1..Len(flat)
      /\ \A i \in 1..Len(flat) : IsItem(flat[i])
  BY <1>2, <1>4
<1>6. items = [i \in 1..Len(flat) |-> [flat[i] EXCEPT !.fileIndex = i - 1]]
  BY <1>5 DEF Numbered
<1>7. ASSUME NEW i \in 1..Len(flat)
      PROVE  IsItem(items[i]) /\ items[i].fileIndex = i - 1
  <2> DEFINE x == flat[i]
             y == [fileIndex |-> i - 1, relativePath |-> x.relativePath,
                   fileSize |-> x.fileSize, modifiedTime |-> x.modifiedTime,
                   blake3Checksum |-> x.blake3Checksum]
  <2>1. items[i] = [x EXCEPT !.fileIndex = i - 1]
    BY <1>6
  <2>2. x = [fileIndex |-> x.fileIndex, relativePath |-> x.relativePath,
             fileSize |-> x.fileSize, modifiedTime |-> x.modifiedTime,
             blake3Checksum |-> x.blake3Checksum]
    BY <1>5 DEF IsItem
  <2> HIDE DEF x
  <2>3. [x EXCEPT !.fileIndex = i - 1] = y
    BY <2>2
  <2>4. IsItem(y) /\ y.fileIndex = i - 1
    BY DEF IsItem
  <2> HIDE DEF y, items
  <2>5. QED BY <2>1, <2>3, <2>4
<1>8. DOMAIN items = 1..Len(flat) /\ Len(items) = Len(flat)
  BY <1>5, <1>6
<1>9. IsItems(items)
  <2>1. ToSet(items) = {items[i] : i \in 1..Len(flat)}
    BY <1>8 DEF ToSet
  <2>2. items = [i \in 1..Len(flat) |-> items[i]]
    BY <1>6
  <2> HIDE DEF items
  <2>3. items \in Seq(ToSet(items))
    BY <1>5, <2>1, <2>2
  <2>4. QED BY <1>7, <2>1, <2>3 DEF IsItems
<1>10. EnumeratePaths(ps).items = items
  BY DEF EnumeratePaths, flat
<1> HIDE DEF items
<1>11. QED BY <1>7, <1>8, <1>9, <1>10

-----------------------------------------------------------------------------
(* The stream.                                                             *)

Packet(m) == CreatePacket(m.type, Serialize(m))

HeaderOf(m) ==
    [magic |-> Magic, msgType |-> m.type, flags |-> 0, payloadLength |-> Len(Serialize(m))]

\* In the stream S stand the packets of s after the first a of them: the k-th
\* ends at p[k].  The stream may end early.
Framed(S, s, a, p) ==
    /\ p \in [a..Len(s) -> Nat] /\ p[a] = 0 /\ Len(S) <= p[Len(s)]
    /\ \A i \in a..Len(s) : \A j \in i..Len(s) : p[i] <= p[j]
    /\ \A k \in a + 1..Len(s) :
          /\ Len(Packet(s[k])) \in Nat
          /\ p[k] = p[k - 1] + Len(Packet(s[k]))
          /\ \A j \in 1..Len(Packet(s[k])) :
                p[k - 1] + j <= Len(S) => S[p[k - 1] + j] = Packet(s[k])[j]

LEMMA FramedPrefix ==
    ASSUME NEW S, NEW T, NEW s, NEW a, NEW p, Framed(S, s, a, p),
           Len(T) \in Nat, Len(S) \in Nat, Len(T) <= Len(S), a \in 0..Len(s), Len(s) \in Nat,
           \A i \in 1..Len(T) : T[i] = S[i]
    PROVE  Framed(T, s, a, p)
<1>1. p \in [a..Len(s) -> Nat] /\ p[a] = 0 /\ Len(S) <= p[Len(s)] /\ p[Len(s)] \in Nat
  BY DEF Framed
<1>2. Len(T) <= p[Len(s)]
  BY <1>1
<1>3. ASSUME NEW k \in a + 1..Len(s), NEW j \in 1..Len(Packet(s[k])), p[k - 1] + j <= Len(T)
      PROVE  T[p[k - 1] + j] = Packet(s[k])[j]
  <2>1. Len(Packet(s[k])) \in Nat /\ p[k - 1] \in Nat
    <3>1. k - 1 \in a..Len(s)
      OBVIOUS
    <3>2. QED BY <1>1, <3>1 DEF Framed
  <2>2. p[k - 1] + j \in 1..Len(T) /\ p[k - 1] + j <= Len(S)
    BY <1>3, <2>1
  <2>3. S[p[k - 1] + j] = Packet(s[k])[j]
    BY <2>2 DEF Framed
  <2>4. QED BY <2>2, <2>3
<1>4. QED BY <1>1, <1>2, <1>3 DEF Framed

LEMMA FramedSend ==
    ASSUME NEW C, NEW S \in Seq(C), NEW s \in Seq(C), NEW a \in 0..Len(s), NEW p,
           Framed(S, s, a, p), Len(S) = p[Len(s)], NEW m, Packet(m) \in Seq(C), m \in C
    PROVE  \E q : Framed(S \o Packet(m), Append(s, m), a, q)
                  /\ Len(S \o Packet(m)) = q[Len(Append(s, m))]
<1> DEFINE P == Packet(m)
           n == Len(s)
           r == Append(s, m)
           T == S \o P
           q == [k \in a..n + 1 |-> IF k = n + 1 THEN p[n] + Len(P) ELSE p[k]]
<1>1. /\ n \in Nat /\ Len(S) \in Nat /\ Len(P) \in Nat /\ a \in Nat /\ a <= n
      /\ a \in a..n /\ n \in a..n
  OBVIOUS
<1>2. Len(r) = n + 1 /\ r[n + 1] = m /\ \A k \in 1..n : r[k] = s[k]
  OBVIOUS
<1> HIDE DEF P
<1>3. Len(T) = Len(S) + Len(P)
      /\ \A i \in 1..Len(S) + Len(P) : T[i] = IF i <= Len(S) THEN S[i] ELSE P[i - Len(S)]
  <2>1. P \in Seq(C)
    BY DEF P
  <2>2. QED BY <2>1, ConcatProperties
<1>4. /\ p \in [a..n -> Nat] /\ p[a] = 0 /\ p[n] = Len(S)
      /\ \A i \in a..n : \A j \in i..n : p[i] <= p[j]
  BY DEF Framed
<1>5. /\ q \in [a..n + 1 -> Nat] /\ q[n + 1] = Len(S) + Len(P)
      /\ \A k \in a..n : q[k] = p[k]
  BY <1>1, <1>4
<1> HIDE DEF q, T, r, n
<1>6. q[a] = 0
  BY <1>1, <1>4, <1>5
<1>7. ASSUME NEW i \in a..n + 1, NEW j \in i..n + 1
      PROVE  q[i] <= q[j]
  <2>1. CASE j = n + 1 /\ i = n + 1
    BY <1>1, <1>5, <2>1
  <2>2. CASE j = n + 1 /\ i \in a..n
    <3>1. p[i] <= p[n] /\ q[i] = p[i] /\ p[i] \in Nat
      BY <1>1, <1>4, <1>5, <2>2
    <3>2. QED BY <1>1, <1>4, <1>5, <2>2, <3>1
  <2>3. CASE j \in a..n
    <3>1. i \in a..n /\ j \in i..n
      BY <1>1, <2>3
    <3>2. QED BY <1>4, <1>5, <3>1
  <2>4. QED BY <1>1, <2>1, <2>2, <2>3
<1>8. ASSUME NEW k \in a + 1..n + 1
      PROVE  /\ Len(Packet(r[k])) \in Nat
             /\ q[k] = q[k - 1] + Len(Packet(r[k]))
             /\ \A j \in 1..Len(Packet(r[k])) :
                   q[k - 1] + j <= Len(T) => T[q[k - 1] + j] = Packet(r[k])[j]
  <2>1. CASE k = n + 1
    <3>1. Packet(r[k]) = P /\ k - 1 = n /\ q[k - 1] = Len(S) /\ q[k] = Len(S) + Len(P)
      BY <1>1, <1>2, <1>4, <1>5, <2>1 DEF P
    <3>2. ASSUME NEW j \in 1..Len(P)
          PROVE  T[Len(S) + j] = P[j]
      <4>1. Len(S) + j \in 1..Len(S) + Len(P) /\ ~(Len(S) + j <= Len(S))
            /\ (Len(S) + j) - Len(S) = j
        BY <1>1
      <4>2. QED BY <1>3, <4>1
    <3>3. QED BY <1>1, <3>1, <3>2
  <2>2. CASE k \in a + 1..n
    <3>1. k \in 1..n /\ k \in a..n /\ k - 1 \in a..n
      BY <1>1, <2>2
    <3>2. r[k] = s[k] /\ q[k] = p[k] /\ q[k - 1] = p[k - 1] /\ p[k] <= Len(S)
          /\ p[k - 1] \in Nat
      BY <1>1, <1>2, <1>4, <1>5, <3>1
    <3>3. /\ Len(Packet(s[k])) \in Nat /\ p[k] = p[k - 1] + Len(Packet(s[k]))
          /\ \A j \in 1..Len(Packet(s[k])) :
                p[k - 1] + j <= Len(S) => S[p[k - 1] + j] = Packet(s[k])[j]
      BY <2>2 DEF Framed, n
    <3>4. ASSUME NEW j \in 1..Len(Packet(s[k]))
          PROVE  T[p[k - 1] + j] = Packet(s[k])[j]
      <4>1. p[k - 1] + j <= Len(S) /\ p[k - 1] + j \in 1..Len(S) + Len(P)
        BY <1>1, <3>2, <3>3
      <4>2. QED BY <1>3, <3>3, <4>1
    <3>5. Packet(r[k]) = Packet(s[k])
      BY <3>2
    <3>6. q[k] = q[k - 1] + Len(Packet(r[k])) /\ Len(Packet(r[k])) \in Nat
      BY <3>2, <3>3, <3>5
    <3>7. \A j \in 1..Len(Packet(r[k])) : T[q[k - 1] + j] = Packet(r[k])[j]
      BY <3>2, <3>4, <3>5
    <3>8. QED BY <3>6, <3>7
  <2>3. QED BY <1>1, <2>1, <2>2
<1>9. Framed(T, r, a, q)
  <2>1. Len(T) <= q[Len(r)]
    BY <1>1, <1>2, <1>3, <1>5
  <2>2. QED BY <1>2, <1>5, <1>6, <1>7, <1>8, <2>1 DEF Framed
<1>10. Len(T) = q[Len(r)]
  BY <1>2, <1>3, <1>5
<1>11. QED BY <1>9, <1>10 DEF T, r, P

LEMMA FramedNext ==
    ASSUME NEW C, NEW S \in Seq(C), NEW s \in Seq(C), NEW a \in 0..Len(s) - 1, NEW p,
           Framed(S, s, a, p), Len(Packet(s[a + 1])) <= Len(S)
    PROVE  \E q : /\ Framed(SubSeq(S, Len(Packet(s[a + 1])) + 1, Len(S)), s, a + 1, q)
                  /\ q[Len(s)] = p[Len(s)] - Len(Packet(s[a + 1]))
<1> DEFINE L == Len(Packet(s[a + 1]))
           n == Len(s)
           T == SubSeq(S, L + 1, Len(S))
           q == [k \in a + 1..n |-> p[k] - L]
<1>1. /\ n \in Nat /\ Len(S) \in Nat /\ a \in Nat /\ a + 1 <= n
      /\ a \in a..n /\ n \in a..n /\ a + 1 \in a..n /\ a + 1 \in a + 1..n /\ n \in a + 1..n
      /\ (a + 1) - 1 = a
  OBVIOUS
<1>2. /\ p \in [a..n -> Nat] /\ p[a] = 0 /\ Len(S) <= p[n]
      /\ \A i \in a..n : \A j \in i..n : p[i] <= p[j]
  BY DEF Framed
<1>3. L \in Nat /\ p[a + 1] = p[(a + 1) - 1] + L
  BY <1>1 DEF Framed
<1>4. p[a + 1] = L /\ L <= Len(S)
  BY <1>1, <1>2, <1>3
<1> HIDE DEF L, n
<1>5. /\ Len(T) = Len(S) - L /\ Len(T) \in Nat
      /\ \A i \in 1..Len(T) : T[i] = S[L + i]
  <2>1. /\ Len(T) = (IF L + 1 <= Len(S) THEN Len(S) - (L + 1) + 1 ELSE 0)
        /\ \A i \in 1..Len(S) - (L + 1) + 1 : T[i] = S[(L + 1) + i - 1]
    <3>1. \A i \in L + 1..Len(S) : S[i] \in C
      BY <1>3
    <3>2. L + 1 \in Int /\ Len(S) \in Int
      BY <1>1, <1>3
    <3>3. QED BY <3>1, <3>2, SubSeqProperties
  <2> HIDE DEF T
  <2>2. Len(T) = Len(S) - L /\ Len(T) \in Nat
    BY <1>1, <1>3, <1>4, <2>1
  <2>3. ASSUME NEW i \in 1..Len(T) PROVE T[i] = S[L + i]
    <3>1. i \in 1..Len(S) - (L + 1) + 1 /\ (L + 1) + i - 1 = L + i
      BY <1>1, <1>3, <2>2
    <3>2. QED BY <2>1, <3>1
  <2>4. QED BY <2>2, <2>3
<1>6. ASSUME NEW k \in a + 1..n
      PROVE  k \in a..n /\ p[k] \in Nat /\ L <= p[k] /\ q[k] = p[k] - L
  <2>1. k \in a..n /\ k \in a + 1..n
    BY <1>1
  <2>2. QED BY <1>1, <1>2, <1>4, <2>1
<1>7. q \in [a + 1..n -> Nat]
  <2>1. \A k \in a + 1..n : p[k] - L \in Nat
    BY <1>3, <1>6
  <2>2. QED BY <2>1
<1> HIDE DEF q, T
<1>8. q[a + 1] = 0 /\ Len(T) <= q[n] /\ q[n] = p[n] - L
  <2>1. q[a + 1] = p[a + 1] - L /\ q[n] = p[n] - L /\ p[n] \in Nat
    BY <1>1, <1>6
  <2>2. QED BY <1>1, <1>2, <1>3, <1>4, <1>5, <2>1
<1>9. ASSUME NEW i \in a + 1..n, NEW j \in i..n
      PROVE  q[i] <= q[j]
  <2>1. j \in a + 1..n /\ i \in a..n /\ p[i] <= p[j]
    BY <1>1, <1>2
  <2>2. QED BY <1>3, <1>6, <2>1
<1>10. ASSUME NEW k \in (a + 1) + 1..n
       PROVE  /\ Len(Packet(s[k])) \in Nat
              /\ q[k] = q[k - 1] + Len(Packet(s[k]))
              /\ \A j \in 1..Len(Packet(s[k])) :
                    q[k - 1] + j <= Len(T) => T[q[k - 1] + j] = Packet(s[k])[j]
  <2>1. k \in a + 1..n /\ k - 1 \in a + 1..n
    BY <1>1
  <2>2. /\ Len(Packet(s[k])) \in Nat /\ p[k] = p[k - 1] + Len(Packet(s[k]))
        /\ \A j \in 1..Len(Packet(s[k])) :
              p[k - 1] + j <= Len(S) => S[p[k - 1] + j] = Packet(s[k])[j]
    BY <2>1 DEF Framed, n
  <2>3. /\ q[k] = p[k] - L /\ q[k - 1] = p[k - 1] - L /\ p[k - 1] \in Nat
        /\ L <= p[k - 1]
    BY <1>6, <2>1
  <2>4. ASSUME NEW j \in 1..Len(Packet(s[k])), q[k - 1] + j <= Len(T)
        PROVE  T[q[k - 1] + j] = Packet(s[k])[j]
    <3>1. q[k - 1] + j \in 1..Len(T) /\ L + (q[k - 1] + j) = p[k - 1] + j
          /\ p[k - 1] + j <= Len(S)
      <4> DEFINE u == q[k - 1]
                 v == p[k - 1]
      <4>1. u = v - L /\ v \in Nat /\ L <= v /\ u + j <= Len(T) /\ j \in Nat \ {0}
        BY <2>2, <2>3, <2>4
      <4>2. Len(T) = Len(S) - L /\ L \in Nat /\ Len(S) \in Nat
        BY <1>1, <1>3, <1>5
      <4> HIDE DEF u, v
      <4>3. u + j \in 1..Len(T) /\ L + (u + j) = v + j /\ v + j <= Len(S)
        BY <4>1, <4>2
      <4>4. QED BY <4>3 DEF u, v
    <3>2. QED BY <1>5, <2>2, <3>1
  <2>5. q[k] = q[k - 1] + Len(Packet(s[k]))
    BY <1>3, <2>2, <2>3
  <2>6. QED BY <2>2, <2>4, <2>5
<1>11. Framed(T, s, a + 1, q)
  BY <1>7, <1>8, <1>9, <1>10 DEF Framed, n
<1>12. QED BY <1>8, <1>11 DEF T, L, n

\* What the session sends: one of the others, or the offer of these items.
Sendable(m, items) ==
    \/ m \in Others \cup {HandshakeReq}
    \/ IsOffer(m) /\ m.items = items

LEMMA SendableFacts ==
    ASSUME NEW m, NEW items, Sendable(m, items)
    PROVE  /\ \E X : Serialize(m) \in Seq(X)
           /\ Parse(m.type, Serialize(m)) = Reads(m)
           /\ Oversized(HeaderOf(m)) => OfferHead + ItemSize * Len(items) > MaxMetadata
<1>1. CASE m \in Others \cup {HandshakeReq}
  <2>1. /\ m.type \in JsonTypes \cup {"FileStart", "FileDataChunk", "FileEnd", "FileAck"}
        /\ WellFormed(m)
        /\ m.type # "FileDataChunk" => Len(Serialize(m)) <= MaxMetadata
    BY <1>1, MessagesAssumption
  <2>2. m.type # "TransferOffer"
    BY <2>1, OtherTypes
  <2>3. Reads(m) = m
    BY <2>2 DEF Reads, WithinLimits
  <2>4. (\E X : Serialize(m) \in Seq(X)) /\ Parse(m.type, Serialize(m)) = m
    BY <2>1, JsonReads, FileStartReads, ChunkReads, FileEndReads, FileAckReads
  <2>5. ~Oversized(HeaderOf(m))
    <3>1. CASE m.type = "FileDataChunk"
      BY <3>1 DEF Oversized, HeaderOf
    <3>2. CASE m.type # "FileDataChunk"
      <4>1. Len(Serialize(m)) \in Nat /\ MaxMetadata \in Nat
        BY <2>4, ProtocolAssumption
      <4>2. ~(Len(Serialize(m)) > MaxMetadata)
        BY <2>1, <3>2, <4>1
      <4>3. QED BY <4>2 DEF Oversized, HeaderOf
    <3>3. QED BY <3>1, <3>2
  <2>6. QED BY <2>3, <2>4, <2>5
<1>2. CASE IsOffer(m) /\ m.items = items
  <2>1. /\ \E X : Serialize(m) \in Seq(X)
        /\ Parse(m.type, Serialize(m)) = Reads(m)
        /\ Len(Serialize(m)) = OfferHead + ItemSize * Len(items)
    BY <1>2, OfferReads
  <2>2. Oversized(HeaderOf(m)) => OfferHead + ItemSize * Len(items) > MaxMetadata
    BY <2>1 DEF Oversized, HeaderOf
  <2>3. QED BY <2>1, <2>2
<1>3. QED BY <1>1, <1>2 DEF Sendable

LEMMA PacketFacts ==
    ASSUME NEW m, \E X : Serialize(m) \in Seq(X)
    PROVE  /\ \E Y : Packet(m) \in Seq(Y)
           /\ Len(Serialize(m)) \in Nat /\ Len(Packet(m)) = HeaderSize + Len(Serialize(m))
           /\ Packet(m)[1] = Magic /\ Packet(m)[2] = m.type /\ Packet(m)[3] = 0
           /\ Packet(m)[4] = Len(Serialize(m))
           /\ \A j \in 1..Len(Serialize(m)) : Packet(m)[HeaderSize + j] = Serialize(m)[j]
<1> DEFINE b == Serialize(m)
           n == Len(b)
           g == Magic
           t == m.type
           z == 0
           a == <<g, t, z, n>>
           d == a \o b
<1>0. PICK X : b \in Seq(X)
  OBVIOUS
<1> DEFINE Y == X \cup {g, t, z, n}
<1>1. Packet(m) = d
  BY DEF Packet, CreatePacket
<1>2. b \in Seq(Y) /\ n \in Nat
  <2>1. X \subseteq Y
    OBVIOUS
  <2> HIDE DEF b, Y
  <2>2. QED BY <1>0, <2>1, SeqMonotonic
<1>3. a \in Seq(Y) /\ Len(a) = 4 /\ a[1] = g /\ a[2] = t /\ a[3] = z /\ a[4] = n
  <2>1. {g, t, z, n} \subseteq Y
    OBVIOUS
  <2> HIDE DEF Y, g, t, z, n
  <2>2. QED BY <2>1
<1> HIDE DEF a, b, Y, n
<1>4. /\ d \in Seq(Y) /\ Len(d) = Len(a) + Len(b)
      /\ \A i \in 1..Len(a) + Len(b) : d[i] = IF i <= Len(a) THEN a[i] ELSE b[i - Len(a)]
  BY <1>2, <1>3, ConcatProperties
<1> HIDE DEF d
<1>5. Len(b) = n
  BY DEF n
<1>6. Len(d) = HeaderSize + n
  BY <1>3, <1>4, <1>5 DEF HeaderSize
<1>7. d[1] = a[1] /\ d[2] = a[2] /\ d[3] = a[3] /\ d[4] = a[4]
  <2>1. \A i \in 1..4 : i <= Len(a) /\ i \in 1..Len(a) + Len(b)
    BY <1>2, <1>3, <1>5
  <2>2. QED BY <1>4, <2>1
<1>8. ASSUME NEW j \in 1..n
      PROVE  d[HeaderSize + j] = b[j]
  <2>1. HeaderSize + j \in 1..Len(a) + Len(b) /\ ~(HeaderSize + j <= Len(a))
        /\ (HeaderSize + j) - Len(a) = j
    BY <1>2, <1>3, <1>5 DEF HeaderSize
  <2>2. QED BY <1>4, <2>1
<1>9. /\ d[1] = g /\ d[2] = t /\ d[3] = z /\ d[4] = n
  BY <1>3, <1>7
<1>10. QED BY <1>1, <1>2, <1>4, <1>6, <1>8, <1>9 DEF b, n

-----------------------------------------------------------------------------
(* The invariant.                                                          *)

Stream == readBuffer \o flight

\* What was sent is what stands in the stream, after what was received.
StreamInv ==
    /\ \E C : /\ readBuffer \in Seq(C) /\ flight \in Seq(C)
              /\ sent \in Seq(C) /\ received \in Seq(C)
    /\ \A k \in 1..Len(sent) : Sendable(sent[k], manifest.items)
    /\ Len(received) <= Len(sent)
    /\ \A k \in 1..Len(received) : received[k] = Reads(sent[k])
    /\ \E p : /\ Framed(Stream, sent, Len(received), p)
              /\ isConnected => Len(Stream) = p[Len(sent)]

\* The header that is kept is that of the next message, and the loop stops
\* only for want of bytes.
HeaderInv ==
    /\ headerParsed => /\ Len(received) < Len(sent)
                       /\ currentHeader = HeaderOf(sent[Len(received) + 1])
    /\ isConnected /\ ~reading =>
          IF headerParsed THEN ~Enough(PacketSize) ELSE ~Enough(HeaderSize)

\* Nothing is sent before START; what is sent are items.
StartInv ==
    /\ paths \in Seq(Paths)
    /\ IsItems(manifest.items)
    /\ target = None => ConnectionInit

OfferInv == StartInv /\ StreamInv /\ HeaderInv

LEMMA Sizes ==
    ASSUME StreamInv
    PROVE  /\ Len(readBuffer) \in Nat /\ Len(flight) \in Nat /\ Len(sent) \in Nat
           /\ Len(received) \in 0..Len(sent) /\ Len(Stream) = Len(readBuffer) + Len(flight)
           /\ \A i \in 1..Len(readBuffer) : Stream[i] = readBuffer[i]
<1>1. PICK C : /\ readBuffer \in Seq(C) /\ flight \in Seq(C)
               /\ sent \in Seq(C) /\ received \in Seq(C)
  BY DEF StreamInv
<1>2. /\ Len(readBuffer) \in Nat /\ Len(flight) \in Nat /\ Len(sent) \in Nat
      /\ Len(received) \in Nat
  BY <1>1
<1>3. /\ Len(Stream) = Len(readBuffer) + Len(flight)
      /\ \A i \in 1..Len(readBuffer) + Len(flight) :
            Stream[i] = IF i <= Len(readBuffer) THEN readBuffer[i]
                        ELSE flight[i - Len(readBuffer)]
  BY <1>1, ConcatProperties DEF Stream
<1>4. Len(received) <= Len(sent)
  BY DEF StreamInv
<1>5. \A i \in 1..Len(readBuffer) : i \in 1..Len(readBuffer) + Len(flight) /\ i <= Len(readBuffer)
  BY <1>2
<1>6. QED BY <1>2, <1>3, <1>4, <1>5

\* The message whose packet is at the front of the stream.
Awaited == sent[Len(received) + 1]

LEMMA AwaitedIsFirst ==
    ASSUME StreamInv, Len(received) < Len(sent)
    PROVE  /\ Sendable(Awaited, manifest.items)
           /\ Len(Serialize(Awaited)) \in Nat
           /\ Len(Packet(Awaited)) = HeaderSize + Len(Serialize(Awaited))
           /\ \A j \in 1..Len(Packet(Awaited)) :
                 j <= Len(Stream) => Stream[j] = Packet(Awaited)[j]
           /\ isConnected => Len(Packet(Awaited)) <= Len(Stream)
<1> DEFINE a == Len(received)
<1>0. Awaited = sent[a + 1]
  BY DEF Awaited
<1>1. a \in Nat /\ Len(sent) \in Nat /\ a + 1 \in 1..Len(sent) /\ a + 1 \in a + 1..Len(sent)
      /\ (a + 1) - 1 = a /\ Len(sent) \in a + 1..Len(sent) /\ a + 1 \in a..Len(sent)
  BY Sizes
<1>2. Sendable(Awaited, manifest.items)
  BY <1>0, <1>1 DEF StreamInv
<1>3. Len(Serialize(Awaited)) \in Nat /\ Len(Packet(Awaited)) = HeaderSize + Len(Serialize(Awaited))
  <2>1. \E X : Serialize(Awaited) \in Seq(X)
    BY <1>2, SendableFacts
  <2>2. QED BY <2>1, PacketFacts
<1>4. PICK p : /\ Framed(Stream, sent, a, p)
               /\ isConnected => Len(Stream) = p[Len(sent)]
  BY DEF StreamInv
<1> HIDE DEF a
<1>5. /\ p[a] = 0 /\ p[a + 1] <= p[Len(sent)]
      /\ Len(Packet(Awaited)) \in Nat
      /\ p[a + 1] = p[(a + 1) - 1] + Len(Packet(Awaited))
      /\ \A j \in 1..Len(Packet(Awaited)) :
            p[(a + 1) - 1] + j <= Len(Stream) => Stream[p[(a + 1) - 1] + j] = Packet(Awaited)[j]
  BY <1>0, <1>1, <1>4 DEF Framed
<1>6. p[(a + 1) - 1] = 0
  BY <1>1, <1>5
<1>7. p[a + 1] = Len(Packet(Awaited))
  BY <1>5, <1>6
<1>8. ASSUME NEW j \in 1..Len(Packet(Awaited)), j <= Len(Stream)
      PROVE  Stream[j] = Packet(Awaited)[j]
  <2>1. 0 + j = j
    BY <1>5
  <2>2. QED BY <1>5, <1>6, <1>8, <2>1
<1>9. isConnected => Len(Packet(Awaited)) <= Len(Stream)
  BY <1>4, <1>5, <1>7
<1>10. QED BY <1>2, <1>3, <1>8, <1>9

\* One more message is sent.
LEMMA StreamSend ==
    ASSUME StreamInv, NEW m, Sendable(m, manifest.items), SendPacket(m), manifest' = manifest
    PROVE  StreamInv'
<1>1. PICK C : /\ readBuffer \in Seq(C) /\ flight \in Seq(C)
               /\ sent \in Seq(C) /\ received \in Seq(C)
  BY DEF StreamInv
<1>2. \E Y : Packet(m) \in Seq(Y)
  BY SendableFacts, PacketFacts
<1>3. PICK Y : Packet(m) \in Seq(Y)
  BY <1>2
<1> DEFINE D == (C \cup Y) \cup {m}
           P == Packet(m)
<1>4. /\ readBuffer \in Seq(D) /\ flight \in Seq(D) /\ sent \in Seq(D) /\ received \in Seq(D)
      /\ P \in Seq(D) /\ m \in D
  <2>1. C \subseteq D /\ Y \subseteq D /\ m \in D
    OBVIOUS
  <2> HIDE DEF D, P
  <2>2. Seq(C) \subseteq Seq(D) /\ Seq(Y) \subseteq Seq(D)
    BY <2>1, SeqMonotonic
  <2>3. QED BY <1>1, <1>3, <2>1, <2>2 DEF P
<1>5. /\ flight' = flight \o P /\ sent' = Append(sent, m) /\ isConnected
      /\ isConnected' = isConnected /\ readBuffer' = readBuffer /\ received' = received
  BY DEF SendPacket, Packet
<1>6. PICK p : /\ Framed(Stream, sent, Len(received), p)
               /\ isConnected => Len(Stream) = p[Len(sent)]
  BY DEF StreamInv
<1>7. Len(received) \in 0..Len(sent) /\ Len(sent) \in Nat
  BY Sizes
<1>8. Stream \in Seq(D)
  <2> HIDE DEF D
  <2>1. QED BY <1>4 DEF Stream
<1>9. \E q : /\ Framed(Stream \o P, Append(sent, m), Len(received), q)
             /\ Len(Stream \o P) = q[Len(Append(sent, m))]
  <2> HIDE DEF D
  <2>1. QED BY <1>4, <1>5, <1>6, <1>7, <1>8, FramedSend DEF P
<1> HIDE DEF P, D
<1>10. Stream' = Stream \o P
  <2>1. Stream' = readBuffer \o (flight \o P)
    BY <1>5 DEF Stream
  <2>2. readBuffer \in Seq(D) /\ flight \in Seq(D) /\ P \in Seq(D)
    BY <1>4
  <2>3. readBuffer \o (flight \o P) = (readBuffer \o flight) \o P
    BY ONLY <2>2, ConcatAssociative
  <2>4. QED BY <2>1, <2>3 DEF Stream
<1>11. Len(sent') = Len(sent) + 1 /\ sent'[Len(sent) + 1] = m
       /\ \A k \in 1..Len(sent) : sent'[k] = sent[k]
  BY <1>4, <1>5
<1>12. flight' \in Seq(D) /\ sent' \in Seq(D)
  BY <1>4, <1>5
<1>13. ASSUME NEW k \in 1..Len(sent')
       PROVE  Sendable(sent'[k], manifest'.items)
  <2>1. CASE k = Len(sent) + 1
    BY <1>11, <2>1
  <2>2. CASE k \in 1..Len(sent)
    BY <1>11, <2>2 DEF StreamInv
  <2>3. QED BY <1>7, <1>11, <2>1, <2>2
<1>14. Len(received') <= Len(sent')
  BY <1>5, <1>7, <1>11
<1>15. \A k \in 1..Len(received') : received'[k] = Reads(sent'[k])
  <2>1. \A k \in 1..Len(received) : k \in 1..Len(sent)
    BY <1>7
  <2>2. QED BY <1>5, <1>11, <2>1 DEF StreamInv
<1>16. \E q : /\ Framed(Stream', sent', Len(received'), q)
              /\ isConnected' => Len(Stream') = q[Len(sent')]
  BY <1>5, <1>9, <1>10
<1>17. \E E : /\ readBuffer' \in Seq(E) /\ flight' \in Seq(E)
              /\ sent' \in Seq(E) /\ received' \in Seq(E)
  BY <1>4, <1>5, <1>12
<1>18. QED BY <1>13, <1>14, <1>15, <1>16, <1>17 DEF StreamInv

LEMMA HeaderSend ==
    ASSUME StreamInv, HeaderInv, NEW m, SendPacket(m)
    PROVE  HeaderInv'
<1>1. PICK C : sent \in Seq(C) /\ received \in Seq(C)
  BY DEF StreamInv
<1>2. /\ sent' = Append(sent, m)
      /\ UNCHANGED <<isConnected, readBuffer, headerParsed, currentHeader, reading, received>>
  BY DEF SendPacket
<1>3. Len(sent) \in Nat /\ Len(received) \in Nat
  BY <1>1
<1>4. Len(sent') = Len(sent) + 1 /\ \A k \in 1..Len(sent) : sent'[k] = sent[k]
  BY <1>1, <1>2
<1>5. Len(received) < Len(sent) => sent'[Len(received) + 1] = sent[Len(received) + 1]
  BY <1>3, <1>4
<1>6. headerParsed' => /\ Len(received') < Len(sent')
                       /\ currentHeader' = HeaderOf(sent'[Len(received') + 1])
  BY <1>2, <1>3, <1>4, <1>5 DEF HeaderInv
<1>7. isConnected' /\ ~reading' =>
          IF headerParsed' THEN ~Enough(PacketSize)' ELSE ~Enough(HeaderSize)'
  BY <1>2 DEF HeaderInv, Enough, PacketSize, HeaderSize
<1>8. QED BY <1>6, <1>7 DEF HeaderInv, Enough, PacketSize, HeaderSize

\* A piece of the stream moves from the socket to the buffer.
LEMMA StreamRead ==
    ASSUME StreamInv, OnReadyRead, manifest' = manifest
    PROVE  StreamInv'
<1>1. PICK C : /\ readBuffer \in Seq(C) /\ flight \in Seq(C)
               /\ sent \in Seq(C) /\ received \in Seq(C)
  BY DEF StreamInv
<1>2. PICK n \in 1..Len(flight) :
          /\ readBuffer' = readBuffer \o SubSeq(flight, 1, n)
          /\ flight' = SubSeq(flight, n + 1, Len(flight))
  BY DEF OnReadyRead
<1>3. UNCHANGED <<isConnected, headerParsed, currentHeader, sent, received>>
  BY DEF OnReadyRead
<1> DEFINE x == SubSeq(flight, 1, n)
           y == SubSeq(flight, n + 1, Len(flight))
<1>4. x \in Seq(C) /\ y \in Seq(C) /\ x \o y = flight
  <2>1. Len(flight) \in Nat
    BY <1>1
  <2>2. x \in Seq(C) /\ Len(x) = n /\ \A i \in 1..n : x[i] = flight[i]
    BY <1>1, <2>1
  <2>3. y \in Seq(C) /\ Len(y) = Len(flight) - n
        /\ \A i \in 1..Len(flight) - n : y[i] = flight[n + i]
    BY <1>1, <2>1
  <2> HIDE DEF x, y
  <2> DEFINE z == x \o y
  <2>4. /\ z \in Seq(C) /\ Len(z) = Len(x) + Len(y)
        /\ \A i \in 1..Len(x) + Len(y) : z[i] = IF i <= Len(x) THEN x[i] ELSE y[i - Len(x)]
    BY <2>2, <2>3, ConcatProperties
  <2> HIDE DEF z
  <2>5. Len(z) = Len(flight)
    BY <2>1, <2>2, <2>3, <2>4
  <2>6. ASSUME NEW i \in 1..Len(z) PROVE z[i] = flight[i]
    <3>1. CASE i <= n
      BY <2>1, <2>2, <2>3, <2>4, <2>5, <3>1
    <3>2. CASE ~(i <= n)
      <4>1. i \in 1..Len(x) + Len(y) /\ ~(i <= Len(x)) /\ i - Len(x) \in 1..Len(flight) - n
            /\ n + (i - Len(x)) = i
        BY <2>1, <2>2, <2>3, <2>5, <3>2
      <4>2. QED BY <2>3, <2>4, <4>1
    <3>3. QED BY <3>1, <3>2
  <2>7. z = flight
    BY <1>1, <2>4, <2>5, <2>6, SeqEqual
  <2>8. QED BY <2>2, <2>3, <2>7 DEF z
<1> HIDE DEF x, y
<1>5. readBuffer' = readBuffer \o x /\ flight' = y
  BY <1>2 DEF x, y
<1>6. Stream' = Stream
  <2>1. Stream' = (readBuffer \o x) \o y
    BY <1>5 DEF Stream
  <2>2. (readBuffer \o x) \o y = readBuffer \o (x \o y)
    <3>1. readBuffer \in Seq(C) /\ x \in Seq(C) /\ y \in Seq(C)
      BY <1>1, <1>4
    <3>2. QED BY <3>1, ConcatAssociative
  <2>3. QED BY <1>4, <2>1, <2>2 DEF Stream
<1>7. readBuffer' \in Seq(C) /\ flight' \in Seq(C)
  BY <1>1, <1>4, <1>5
<1>8. QED BY <1>1, <1>3, <1>6, <1>7 DEF StreamInv

\* The connection is lost: what is buffered stays, and is a prefix.
LEMMA StreamLost ==
    ASSUME StreamInv, ConnectionLost, manifest' = manifest
    PROVE  StreamInv'
<1>1. PICK C : /\ readBuffer \in Seq(C) /\ flight \in Seq(C)
               /\ sent \in Seq(C) /\ received \in Seq(C)
  BY DEF StreamInv
<1>2. /\ isConnected' = FALSE /\ flight' = <<>>
      /\ UNCHANGED <<readBuffer, headerParsed, currentHeader, reading, sent, received>>
  BY DEF ConnectionLost
<1>3. Stream' = readBuffer
  BY <1>1, <1>2, ConcatEmptySeq DEF Stream
<1>4. PICK p : Framed(Stream, sent, Len(received), p)
  BY DEF StreamInv
<1>5. Framed(Stream', sent', Len(received'), p)
  <2>1. /\ Len(readBuffer) \in Nat /\ Len(sent) \in Nat /\ Len(received) \in 0..Len(sent)
        /\ Len(Stream) \in Nat /\ Len(readBuffer) <= Len(Stream)
        /\ \A i \in 1..Len(readBuffer) : readBuffer[i] = Stream[i]
    BY Sizes
  <2>2. Framed(readBuffer, sent, Len(received), p)
    BY <1>4, <2>1, FramedPrefix
  <2>3. QED BY <1>2, <1>3, <2>2
<1>6. flight' \in Seq(C)
  BY <1>2
<1>7. QED BY <1>1, <1>2, <1>5, <1>6 DEF StreamInv

\* Four cells at the front of the buffer are the header of the awaited message.
LEMMA HeaderIsAwaited ==
    ASSUME StreamInv, Enough(HeaderSize)
    PROVE  Len(received) < Len(sent) /\ Header(readBuffer) = HeaderOf(Awaited)
<1>1. /\ Len(readBuffer) \in Nat /\ Len(flight) \in Nat /\ Len(sent) \in Nat
      /\ Len(received) \in 0..Len(sent) /\ Len(Stream) = Len(readBuffer) + Len(flight)
      /\ \A i \in 1..Len(readBuffer) : Stream[i] = readBuffer[i]
  BY Sizes
<1>2. Len(readBuffer) >= 4
  BY DEF Enough, HeaderSize
<1>3. Len(received) < Len(sent)
  <2>1. PICK p : Framed(Stream, sent, Len(received), p)
    BY DEF StreamInv
  <2>2. p[Len(received)] = 0 /\ Len(Stream) <= p[Len(sent)]
    BY <2>1 DEF Framed
  <2>3. Len(received) # Len(sent)
    BY <1>1, <1>2, <2>2
  <2>4. QED BY <1>1, <2>3
<1>4. /\ Sendable(Awaited, manifest.items)
      /\ Len(Serialize(Awaited)) \in Nat
      /\ Len(Packet(Awaited)) = HeaderSize + Len(Serialize(Awaited))
      /\ \A j \in 1..Len(Packet(Awaited)) :
            j <= Len(Stream) => Stream[j] = Packet(Awaited)[j]
  BY <1>3, AwaitedIsFirst
<1>5. /\ Packet(Awaited)[1] = Magic /\ Packet(Awaited)[2] = Awaited.type
      /\ Packet(Awaited)[3] = 0 /\ Packet(Awaited)[4] = Len(Serialize(Awaited))
  <2>1. \E X : Serialize(Awaited) \in Seq(X)
    BY <1>4, SendableFacts
  <2>2. QED BY <2>1, PacketFacts
<1>6. ASSUME NEW j \in 1..4
      PROVE  readBuffer[j] = Packet(Awaited)[j]
  <2>1. j \in 1..Len(readBuffer) /\ j <= Len(Stream) /\ j \in 1..Len(Packet(Awaited))
    BY <1>1, <1>2, <1>4 DEF HeaderSize
  <2>2. Stream[j] = readBuffer[j]
    BY <1>1, <2>1
  <2>3. QED BY <1>4, <2>1, <2>2
<1>7. /\ readBuffer[1] = Magic /\ readBuffer[2] = Awaited.type
      /\ readBuffer[3] = 0 /\ readBuffer[4] = Len(Serialize(Awaited))
  BY <1>5, <1>6
<1>8. Header(readBuffer) = HeaderOf(Awaited)
  BY <1>7 DEF Header, HeaderOf
<1>9. QED BY <1>3, <1>8

LEMMA HeaderParse ==
    ASSUME StreamInv, HeaderInv, ParseHeader, manifest' = manifest
    PROVE  StreamInv' /\ HeaderInv'
<1>1. /\ currentHeader' = Header(readBuffer) /\ Enough(HeaderSize) /\ reading
      /\ UNCHANGED <<flight, readBuffer, sent, received>>
      /\ \/ ~isConnected' /\ ~headerParsed'
         \/ headerParsed' /\ UNCHANGED <<isConnected, reading>>
  BY DEF ParseHeader
<1>2. Len(received) < Len(sent) /\ currentHeader' = HeaderOf(Awaited)
  BY <1>1, HeaderIsAwaited
<1>3. StreamInv'
  <2>1. isConnected' => isConnected
    BY <1>1
  <2>2. Stream' = Stream
    BY <1>1 DEF Stream
  <2>3. QED BY <1>1, <2>1, <2>2 DEF StreamInv
<1>4. headerParsed' => /\ Len(received') < Len(sent')
                       /\ currentHeader' = HeaderOf(sent'[Len(received') + 1])
  BY <1>1, <1>2 DEF Awaited
<1>5. ~(isConnected' /\ ~reading')
  BY <1>1
<1>6. QED BY <1>3, <1>4, <1>5 DEF HeaderInv

LEMMA RefusedIsOversized ==
    ASSUME StreamInv, ParseHeader, ~isConnected', isConnected
    PROVE  OfferHead + ItemSize * Len(manifest.items) > MaxMetadata
<1>1. currentHeader' = Header(readBuffer) /\ Enough(HeaderSize)
      /\ (currentHeader'.magic # Magic \/ Oversized(currentHeader'))
  BY DEF ParseHeader
<1>2. Len(received) < Len(sent) /\ currentHeader' = HeaderOf(Awaited)
  BY <1>1, HeaderIsAwaited
<1>3. HeaderOf(Awaited).magic = Magic
  BY DEF HeaderOf
<1>4. Oversized(HeaderOf(Awaited))
  BY <1>1, <1>2, <1>3
<1>5. Sendable(Awaited, manifest.items)
  BY <1>2, AwaitedIsFirst
<1>6. QED BY <1>4, <1>5, SendableFacts

LEMMA HeaderWait ==
    ASSUME StreamInv, HeaderInv, WaitForMore, manifest' = manifest
    PROVE  StreamInv' /\ HeaderInv'
<1>1. /\ IF headerParsed THEN ~Enough(PacketSize) ELSE ~Enough(HeaderSize)
      /\ UNCHANGED <<isConnected, flight, readBuffer, headerParsed, currentHeader, sent, received>>
  BY DEF WaitForMore
<1>2. StreamInv'
  BY <1>1 DEF StreamInv, Stream
<1>3. IF headerParsed' THEN ~Enough(PacketSize)' ELSE ~Enough(HeaderSize)'
  BY <1>1 DEF Enough, PacketSize, HeaderSize
<1>4. headerParsed' => /\ Len(received') < Len(sent')
                       /\ currentHeader' = HeaderOf(sent'[Len(received') + 1])
  BY <1>1 DEF HeaderInv
<1>5. QED BY <1>2, <1>3, <1>4 DEF HeaderInv, Enough, PacketSize, HeaderSize

\* What is handed over is the awaited message, and the rest of the buffer is
\* the stream after it.
LEMMA StreamExtract ==
    ASSUME StreamInv, HeaderInv, ExtractPacket, manifest' = manifest
    PROVE  StreamInv'
<1> DEFINE m == Awaited
           n == Len(Serialize(m))
           L == HeaderSize + n
           b == SubSeq(readBuffer, HeaderSize + 1, L)
           y == SubSeq(readBuffer, L + 1, Len(readBuffer))
<1>1. /\ reading /\ headerParsed /\ Enough(PacketSize)
      /\ received' = Append(received, Parse(currentHeader.msgType,
                                           SubSeq(readBuffer, HeaderSize + 1, PacketSize)))
      /\ readBuffer' = SubSeq(readBuffer, PacketSize + 1, Len(readBuffer))
      /\ UNCHANGED <<isConnected, flight, sent>>
  BY DEF ExtractPacket
<1>2. Len(received) < Len(sent) /\ currentHeader = HeaderOf(m)
  BY <1>1 DEF HeaderInv, Awaited
<1>3. PacketSize = L /\ currentHeader.msgType = m.type
  BY <1>2 DEF PacketSize, HeaderOf
<1>4. /\ Sendable(m, manifest.items)
      /\ n \in Nat /\ Len(Packet(m)) = L
      /\ \A j \in 1..Len(Packet(m)) : j <= Len(Stream) => Stream[j] = Packet(m)[j]
  BY <1>2, AwaitedIsFirst
<1>5. /\ Len(readBuffer) \in Nat /\ Len(flight) \in Nat /\ Len(sent) \in Nat
      /\ Len(received) \in 0..Len(sent) /\ Len(Stream) = Len(readBuffer) + Len(flight)
      /\ \A i \in 1..Len(readBuffer) : Stream[i] = readBuffer[i]
  BY Sizes
<1>6. /\ \E X : Serialize(m) \in Seq(X)
      /\ Parse(m.type, Serialize(m)) = Reads(m)
  BY <1>4, SendableFacts
<1>7. \A j \in 1..n : Packet(m)[HeaderSize + j] = Serialize(m)[j]
  BY <1>6, PacketFacts
<1>8. L \in Nat /\ L <= Len(readBuffer) /\ HeaderSize \in Nat /\ HeaderSize <= L
  BY <1>1, <1>3, <1>4 DEF Enough, HeaderSize
<1>9. PICK C : /\ readBuffer \in Seq(C) /\ flight \in Seq(C)
               /\ sent \in Seq(C) /\ received \in Seq(C)
  BY DEF StreamInv
<1> HIDE DEF m
<1>10. b = Serialize(m)
  <2>1. PICK X : Serialize(m) \in Seq(X)
    BY <1>6
  <2> DEFINE D == C \cup X
  <2>2. Serialize(m) \in Seq(D) /\ readBuffer \in Seq(D)
    <3>1. C \subseteq D /\ X \subseteq D
      OBVIOUS
    <3> HIDE DEF D
    <3>2. Seq(C) \subseteq Seq(D) /\ Seq(X) \subseteq Seq(D)
      BY <3>1, SeqMonotonic
    <3>3. QED BY <1>9, <2>1, <3>2
  <2> HIDE DEF D
  <2>3. /\ b \in Seq(D) /\ Len(b) = n
        /\ \A j \in 1..n : b[j] = readBuffer[HeaderSize + j]
    <3> HIDE DEF n
    <3>1. /\ b \in Seq(D)
          /\ Len(b) = IF HeaderSize + 1 <= L THEN L - (HeaderSize + 1) + 1 ELSE 0
          /\ \A i \in 1..L - (HeaderSize + 1) + 1 : b[i] = readBuffer[(HeaderSize + 1) + i - 1]
      <4>1. HeaderSize + 1 \in Int /\ L \in Int
        BY <1>8
      <4>2. \A i \in HeaderSize + 1..L : readBuffer[i] \in D
        <5> HIDE DEF L
        <5>1. QED BY <1>5, <1>8, <2>2
      <4>3. QED BY <4>1, <4>2, SubSeqProperties
    <3> HIDE DEF b
    <3>2. Len(b) = n
      BY <1>4, <1>8, <3>1
    <3>3. ASSUME NEW j \in 1..n PROVE b[j] = readBuffer[HeaderSize + j]
      <4>1. j \in 1..L - (HeaderSize + 1) + 1 /\ (HeaderSize + 1) + j - 1 = HeaderSize + j
        BY <1>4, <1>8
      <4>2. QED BY <3>1, <4>1
    <3>4. QED BY <3>1, <3>2, <3>3
  <2> HIDE DEF b
  <2>4. ASSUME NEW j \in 1..n PROVE b[j] = Serialize(m)[j]
    <3>1. HeaderSize + j \in 1..Len(readBuffer) /\ HeaderSize + j <= Len(Stream)
          /\ HeaderSize + j \in 1..Len(Packet(m))
      BY <1>4, <1>5, <1>8
    <3>2. Stream[HeaderSize + j] = readBuffer[HeaderSize + j]
      BY <1>5, <3>1
    <3>3. Stream[HeaderSize + j] = Packet(m)[HeaderSize + j]
      BY <1>4, <3>1
    <3>4. QED BY <1>7, <2>3, <3>2, <3>3
  <2>5. QED BY <2>2, <2>3, <2>4, SeqEqual
<1>11. received' = Append(received, Reads(m))
  BY <1>1, <1>3, <1>6, <1>10
<1>12. readBuffer' = y
  BY <1>1, <1>3
<1>13. /\ y \in Seq(C) /\ Len(y) = Len(readBuffer) - L
       /\ \A i \in 1..Len(readBuffer) - L : y[i] = readBuffer[L + i]
  <2> HIDE DEF L
  <2>1. QED BY <1>8, <1>9
<1> HIDE DEF y
<1>14. Stream' = SubSeq(Stream, L + 1, Len(Stream))
  <2> HIDE DEF L
  <2> DEFINE t == y \o flight
             u == SubSeq(Stream, L + 1, Len(Stream))
             S == Stream
  <2>1. S \in Seq(C) /\ Len(S) = Len(readBuffer) + Len(flight)
        /\ \A i \in 1..Len(readBuffer) + Len(flight) :
              S[i] = IF i <= Len(readBuffer) THEN readBuffer[i] ELSE flight[i - Len(readBuffer)]
    BY <1>9, ConcatProperties DEF Stream
  <2>2. t \in Seq(C) /\ Len(t) = Len(y) + Len(flight)
        /\ \A i \in 1..Len(y) + Len(flight) :
              t[i] = IF i <= Len(y) THEN y[i] ELSE flight[i - Len(y)]
    BY <1>9, <1>13, ConcatProperties
  <2> HIDE DEF S, t
  <2>3. /\ u \in Seq(C) /\ Len(u) = Len(S) - L
        /\ \A i \in 1..Len(S) - L : u[i] = S[L + i]
    <3>1. L \in Nat /\ Len(S) \in Nat /\ L <= Len(S)
      BY <1>5, <1>8, <2>1
    <3>2. u = SubSeq(S, L + 1, Len(S))
      BY DEF S
    <3> HIDE DEF u
    <3>3. QED BY <2>1, <3>1, <3>2
  <2> HIDE DEF u
  <2>4. Len(t) = Len(u)
    BY <1>5, <1>8, <1>13, <2>1, <2>2, <2>3
  <2>5. ASSUME NEW i \in 1..Len(t) PROVE t[i] = u[i]
    <3>1. /\ i \in 1..Len(S) - L /\ i \in 1..Len(y) + Len(flight)
          /\ L + i \in 1..Len(readBuffer) + Len(flight)
      BY <1>5, <1>8, <1>13, <2>1, <2>2, <2>3, <2>4
    <3>2. u[i] = S[L + i]
      BY <2>3, <3>1
    <3>3. CASE i <= Len(y)
      <4>1. i \in 1..Len(readBuffer) - L /\ L + i <= Len(readBuffer)
        BY <1>5, <1>8, <1>13, <3>3
      <4>2. QED BY <1>13, <2>1, <2>2, <3>1, <3>2, <3>3, <4>1
    <3>4. CASE ~(i <= Len(y))
      <4>1. ~(L + i <= Len(readBuffer)) /\ (L + i) - Len(readBuffer) = i - Len(y)
        BY <1>5, <1>8, <1>13, <3>4
      <4>2. QED BY <2>1, <2>2, <3>1, <3>2, <3>4, <4>1
    <3>5. QED BY <3>3, <3>4
  <2>6. t = u
    BY <2>2, <2>3, <2>4, <2>5, SeqEqual
  <2>7. Stream' = t
    BY <1>1, <1>12 DEF Stream, t
  <2>8. QED BY <2>6, <2>7 DEF u
<1>15. PICK p : /\ Framed(Stream, sent, Len(received), p)
                /\ isConnected => Len(Stream) = p[Len(sent)]
  BY DEF StreamInv
<1>16. PICK q : /\ Framed(Stream', sent, Len(received) + 1, q)
                /\ q[Len(sent)] = p[Len(sent)] - L
  <2>1. m = sent[Len(received) + 1]
    BY DEF m, Awaited
  <2>2. Len(received) \in 0..Len(sent) - 1 /\ L <= Len(Stream)
    BY <1>2, <1>5, <1>8
  <2>3. Stream \in Seq(C)
    BY <1>9 DEF Stream
  <2> HIDE DEF L
  <2>4. Len(Packet(sent[Len(received) + 1])) = L
    BY <1>4, <2>1
  <2>5. \E q : /\ Framed(SubSeq(Stream, L + 1, Len(Stream)), sent, Len(received) + 1, q)
               /\ q[Len(sent)] = p[Len(sent)] - L
    BY <1>9, <1>15, <2>2, <2>3, <2>4, FramedNext
  <2>6. QED BY <1>14, <2>5
<1> HIDE DEF L
<1>17. Len(Stream') = Len(Stream) - L
  <2>1. Stream' = y \o flight
    BY <1>1, <1>12 DEF Stream
  <2>2. Len(y \o flight) = Len(y) + Len(flight)
    BY <1>9, <1>13, ConcatProperties
  <2>3. Len(Stream') = Len(y) + Len(flight)
    BY <2>1, <2>2
  <2>4. QED BY <1>5, <1>8, <1>13, <2>3
<1>18. /\ Len(received') = Len(received) + 1
       /\ received'[Len(received) + 1] = Reads(m)
       /\ \A k \in 1..Len(received) : received'[k] = received[k]
  BY <1>9, <1>11
<1>19. \E E : /\ readBuffer' \in Seq(E) /\ flight' \in Seq(E)
              /\ sent' \in Seq(E) /\ received' \in Seq(E)
  <2> DEFINE E == C \cup {Reads(m)}
  <2>1. C \subseteq E /\ Reads(m) \in E
    OBVIOUS
  <2> HIDE DEF E
  <2>2. Seq(C) \subseteq Seq(E)
    BY <2>1, SeqMonotonic
  <2>3. received \in Seq(E) /\ readBuffer' \in Seq(E) /\ flight' \in Seq(E) /\ sent' \in Seq(E)
    BY <1>1, <1>9, <1>12, <1>13, <2>2
  <2>4. received' \in Seq(E)
    BY <1>11, <2>1, <2>3
  <2>5. QED BY <2>3, <2>4
<1>20. ASSUME NEW k \in 1..Len(received')
       PROVE  received'[k] = Reads(sent'[k])
  <2>1. CASE k = Len(received) + 1
    BY <1>1, <1>18, <2>1 DEF m, Awaited
  <2>2. CASE k \in 1..Len(received)
    BY <1>1, <1>18, <2>2 DEF StreamInv
  <2>3. QED BY <1>5, <1>18, <2>1, <2>2
<1>21. Len(received') <= Len(sent')
  BY <1>1, <1>2, <1>5, <1>18
<1>22. \A k \in 1..Len(sent') : Sendable(sent'[k], manifest'.items)
  BY <1>1 DEF StreamInv
<1>23. /\ Framed(Stream', sent', Len(received'), q)
       /\ isConnected' => Len(Stream') = q[Len(sent')]
  BY <1>1, <1>15, <1>16, <1>17, <1>18
<1>24. QED BY <1>19, <1>20, <1>21, <1>22, <1>23 DEF StreamInv

\* The other steps of the header's part.
LEMMA HeaderRest ==
    ASSUME HeaderInv, OnReadyRead \/ ConnectionLost
    PROVE  HeaderInv'
<1>1. UNCHANGED <<headerParsed, currentHeader, sent, received>>
  BY DEF OnReadyRead, ConnectionLost
<1>2. ~(isConnected' /\ ~reading')
  BY DEF OnReadyRead, ConnectionLost
<1>3. headerParsed' => /\ Len(received') < Len(sent')
                       /\ currentHeader' = HeaderOf(sent'[Len(received') + 1])
  BY <1>1 DEF HeaderInv
<1>4. QED BY <1>2, <1>3 DEF HeaderInv

LEMMA HeaderExtract ==
    ASSUME HeaderInv, ExtractPacket
    PROVE  HeaderInv'
<1>1. ~headerParsed' /\ reading' /\ reading
  BY DEF ExtractPacket
<1>2. QED BY <1>1 DEF HeaderInv

LEMMA ConnectionKeeps ==
    ASSUME StreamInv, HeaderInv, ConnectionStep, manifest' = manifest
    PROVE  StreamInv' /\ HeaderInv'
<1>1. CASE OnReadyRead
  BY <1>1, StreamRead, HeaderRest
<1>2. CASE ParseHeader
  BY <1>2, HeaderParse
<1>3. CASE WaitForMore
  BY <1>3, HeaderWait
<1>4. CASE ExtractPacket
  BY <1>4, StreamExtract, HeaderExtract
<1>5. CASE ConnectionLost
  BY <1>5, StreamLost, HeaderRest
<1>6. QED BY <1>1, <1>2, <1>3, <1>4, <1>5 DEF ConnectionStep

LEMMA FreshFrame ==
    \E p : Framed(<<>>, <<>>, 0, p) /\ p[0] = 0
<1>1. Framed(<<>>, <<>>, 0, [k \in 0..0 |-> 0])
  BY DEF Framed
<1>2. [k \in 0..0 |-> 0][0] = 0
  OBVIOUS
<1>3. QED BY <1>1, <1>2

\* A connection on which nothing was sent.
LEMMA FreshConnection ==
    ASSUME readBuffer = <<>>, flight = <<>>, sent = <<>>, received = <<>>, ~headerParsed
    PROVE  StreamInv /\ HeaderInv
<1>2. Stream = <<>> /\ Len(<<>>) = 0
  BY DEF Stream
<1>3. \E p : /\ Framed(Stream, sent, Len(received), p)
             /\ isConnected => Len(Stream) = p[Len(sent)]
  BY <1>2, FreshFrame
<1>4. \E C : /\ readBuffer \in Seq(C) /\ flight \in Seq(C)
             /\ sent \in Seq(C) /\ received \in Seq(C)
  <2>1. <<>> \in Seq({})
    OBVIOUS
  <2>2. QED BY <2>1
<1>5. StreamInv
  BY <1>2, <1>3, <1>4 DEF StreamInv
<1>6. ~Enough(HeaderSize)
  BY <1>2 DEF Enough, HeaderSize
<1>7. QED BY <1>5, <1>6 DEF HeaderInv

LEMMA OfferInit == Init => OfferInv
<1> SUFFICES ASSUME Init PROVE OfferInv
  OBVIOUS
<1>1. StreamInv /\ HeaderInv
  BY FreshConnection DEF Init, ConnectionInit
<1>2. IsItems(manifest.items)
  <2>1. <<>> \in Seq(ToSet(<<>>))
    OBVIOUS
  <2>2. manifest = EnumeratePaths(<<>>)
    BY DEF Init
  <2>3. QED BY <2>1, <2>2, ManifestType
<1>3. paths \in Seq(Paths) /\ ConnectionInit
  BY DEF Init, PageInit
<1>4. QED BY <1>1, <1>2, <1>3 DEF OfferInv, StartInv

\* The page's steps leave a list of the paths that may be selected.
LEMMA PathsKept ==
    ASSUME paths \in Seq(Paths), PageStep
    PROVE  paths' \in Seq(Paths)
<1>1. CASE AddPath
  BY <1>1 DEF AddPath
<1>2. CASE OnRemoveSelectedClicked
  <2>1. PICK gone : paths' = Keep(paths, Paths \ gone)
    BY <1>2 DEF OnRemoveSelectedClicked
  <2>2. Keep(paths, Paths \ gone) \in Seq(Paths)
    BY KeepFacts
  <2>3. QED BY <2>1, <2>2
<1>3. CASE OnClearAllClicked
  BY <1>3 DEF OnClearAllClicked
<1>4. CASE OnManualIpToggled \/ EditManualIp \/ PickDevice
            \/ \E ids \in SUBSET ToSet(Order) : UpdateDeviceList(ids)
  BY <1>4 DEF OnManualIpToggled, EditManualIp, PickDevice, UpdateDeviceList
<1>5. QED BY <1>1, <1>2, <1>3, <1>4 DEF PageStep

\* START makes the manifest and opens the connection, still a fresh one.
LEMMA StartKeeps ==
    ASSUME OfferInv, OnStartTransferClicked
    PROVE  OfferInv'
<1>1. /\ target = None /\ manifest' = EnumeratePaths(paths)
      /\ UNCHANGED <<pageVars, flight, readBuffer, headerParsed, currentHeader, reading,
                     sent, received>>
  BY DEF OnStartTransferClicked
<1>2. paths \in Seq(Paths) /\ ConnectionInit
  BY <1>1 DEF OfferInv, StartInv
<1>3. IsItems(manifest'.items)
  <2>1. paths \in Seq(ToSet(paths))
    BY <1>2 DEF ToSet
  <2>2. QED BY <1>1, <2>1, ManifestType
<1>4. /\ readBuffer' = <<>> /\ flight' = <<>> /\ sent' = <<>> /\ received' = <<>>
      /\ ~headerParsed' /\ paths' = paths
  BY <1>1, <1>2 DEF ConnectionInit, pageVars
<1>5. StreamInv' /\ HeaderInv'
  <2>1. Stream' = <<>> /\ Len(<<>>) = 0
    BY <1>4 DEF Stream
  <2>2. \E p : /\ Framed(Stream', sent', Len(received'), p)
               /\ isConnected' => Len(Stream') = p[Len(sent')]
    BY <1>4, <2>1, FreshFrame
  <2>3. \E C : /\ readBuffer' \in Seq(C) /\ flight' \in Seq(C)
               /\ sent' \in Seq(C) /\ received' \in Seq(C)
    <3>1. <<>> \in Seq({})
      OBVIOUS
    <3>2. QED BY <1>4, <3>1
  <2>4. StreamInv'
    BY <1>4, <2>1, <2>2, <2>3 DEF StreamInv
  <2>5. ~Enough(HeaderSize)'
    BY <1>4, <2>1 DEF Enough, HeaderSize
  <2>6. QED BY <1>4, <2>4, <2>5 DEF HeaderInv
<1>6. target' # None
  BY DEF OnStartTransferClicked, Manual, None
<1>7. QED BY <1>2, <1>3, <1>4, <1>5, <1>6 DEF OfferInv, StartInv

LEMMA TalkKeeps ==
    ASSUME OfferInv, Talk
    PROVE  OfferInv'
<1>1. target # None /\ UNCHANGED <<pageVars, target, manifest>>
  BY DEF Talk
<1>2. PICK m : SendPacket(m) /\ Sendable(m, manifest.items)
  <2>1. CASE SendPacket(HandshakeReq)
    BY <2>1 DEF Sendable
  <2>2. CASE SendPacket(Offer)
    <3>1. IsOffer(Offer) /\ Offer.items = manifest.items
      BY DEF OfferInv, StartInv, IsItems, Offer, IsOffer
    <3>2. QED BY <2>2, <3>1 DEF Sendable
  <2>3. CASE \E m \in Others : SendPacket(m)
    BY <2>3 DEF Sendable
  <2>4. QED BY <2>1, <2>2, <2>3 DEF Talk
<1>3. StreamInv' /\ HeaderInv'
  BY <1>1, <1>2, StreamSend, HeaderSend DEF OfferInv
<1>4. QED BY <1>1, <1>3 DEF OfferInv, StartInv, pageVars

LEMMA OfferAlways == Spec => []OfferInv
<1>1. OfferInv /\ [Next]_vars => OfferInv'
  <2> SUFFICES ASSUME OfferInv, [Next]_vars PROVE OfferInv'
    OBVIOUS
  <2>1. CASE UsePage
    <3>1. target = None /\ PageStep /\ UNCHANGED <<connVars, target, manifest>>
      BY <2>1 DEF UsePage
    <3>2. paths' \in Seq(Paths)
      BY <3>1, PathsKept DEF OfferInv, StartInv
    <3>3. ConnectionInit'
      BY <3>1 DEF OfferInv, StartInv, ConnectionInit, connVars
    <3>4. StreamInv' /\ HeaderInv'
      BY <3>1 DEF OfferInv, StreamInv, HeaderInv, connVars, Stream, Enough, PacketSize
    <3>5. QED BY <3>1, <3>2, <3>3, <3>4 DEF OfferInv, StartInv
  <2>2. CASE OnStartTransferClicked
    BY <2>2, StartKeeps
  <2>3. CASE Talk
    BY <2>3, TalkKeeps
  <2>4. CASE Travel
    <3>1. ConnectionStep /\ UNCHANGED <<pageVars, target, manifest>>
      BY <2>4 DEF Travel
    <3>2. StreamInv' /\ HeaderInv'
      BY <3>1, ConnectionKeeps DEF OfferInv
    <3>3. target # None
      <4>1. ~ConnectionInit
        BY <3>1 DEF ConnectionStep, ConnectionInit, OnReadyRead, ParseHeader, WaitForMore,
                    ExtractPacket, ConnectionLost
      <4>2. QED BY <4>1 DEF OfferInv, StartInv
    <3>4. QED BY <3>1, <3>2, <3>3 DEF OfferInv, StartInv, pageVars
  <2>5. CASE UNCHANGED vars
    BY <2>5 DEF vars, pageVars, connVars, OfferInv, StartInv, StreamInv, Stream, HeaderInv,
                ConnectionInit, Enough, PacketSize
  <2>6. QED BY <2>1, <2>2, <2>3, <2>4, <2>5 DEF Next
<1>2. QED BY <1>1, OfferInit, PTL DEF Spec

\* However the stream is cut, the session is handed the messages that were
\* sent, whole, unchanged and in order.
THEOREM DeliveredAsSentHolds == Spec => []DeliveredAsSent
<1>1. OfferInv => DeliveredAsSent
  <2> SUFFICES ASSUME OfferInv PROVE DeliveredAsSent
    OBVIOUS
  <2>1. PICK C : received \in Seq(C)
    BY DEF OfferInv, StreamInv
  <2>2. DOMAIN received = 1..Len(received)
    BY <2>1
  <2>3. QED BY <2>2 DEF OfferInv, StreamInv, DeliveredAsSent, Reads
<1>2. QED BY <1>1, OfferAlways, PTL

\* No message waits in the buffer for bytes that it does not need.
THEOREM NothingStuckHolds == Spec => []NothingStuck
<1>1. OfferInv => NothingStuck
  <2> SUFFICES ASSUME OfferInv, isConnected, ~reading, flight = <<>>,
                      Len(received) # Len(sent)
               PROVE  FALSE
    BY DEF NothingStuck
  <2>1. /\ Len(readBuffer) \in Nat /\ Len(sent) \in Nat /\ Len(received) \in 0..Len(sent)
        /\ Len(Stream) = Len(readBuffer) + Len(flight)
    BY Sizes DEF OfferInv
  <2>2. Len(received) < Len(sent) /\ Len(Stream) = Len(readBuffer)
    BY <2>1
  <2>3. /\ Len(Serialize(Awaited)) \in Nat
        /\ Len(Packet(Awaited)) = HeaderSize + Len(Serialize(Awaited))
        /\ Len(Packet(Awaited)) <= Len(Stream)
    BY <2>2, AwaitedIsFirst DEF OfferInv
  <2>4. CASE headerParsed
    <3>1. PacketSize = Len(Packet(Awaited)) /\ ~Enough(PacketSize)
      BY <2>3, <2>4 DEF OfferInv, HeaderInv, PacketSize, HeaderOf, Awaited
    <3>2. QED BY <2>1, <2>2, <2>3, <3>1 DEF Enough, HeaderSize
  <2>5. CASE ~headerParsed
    <3>1. ~Enough(HeaderSize)
      BY <2>5 DEF OfferInv, HeaderInv
    <3>2. QED BY <2>1, <2>2, <2>3, <3>1 DEF Enough, HeaderSize
  <2>6. QED BY <2>4, <2>5
<1>2. QED BY <1>1, OfferAlways, PTL

\* The loop never takes part of a message for a header: one is refused only
\* for an offer that is too large.
THEOREM RefusedOnlyIfTooLargeHolds == Spec => RefusedOnlyIfTooLarge
<1>1. OfferInv /\ [Next]_vars =>
        [ParseHeader /\ ~isConnected' /\ isConnected =>
             OfferHead + ItemSize * Len(manifest.items) > MaxMetadata]_vars
  BY RefusedIsOversized DEF OfferInv
<1>2. QED BY <1>1, OfferAlways, PTL DEF Spec, RefusedOnlyIfTooLarge

-----------------------------------------------------------------------------
(* The manifest that arrives.                                              *)

\* Where a file stands in a list of items, and the paths it is under.
PlacesOf(s, n, r) == {i \in 1..n : s[i].relativePath = r}
UnderOf(ps, n, r) == {j \in 1..n : r \in FilesUnder(ps[j])}

\* The file r has a place in s for each of the first n paths it is under.
Counted(s, ps, n, r) ==
    /\ IsFiniteSet(PlacesOf(s, Len(s), r))
    /\ IsFiniteSet(UnderOf(ps, n, r))
    /\ Cardinality(PlacesOf(s, Len(s), r)) = Cardinality(UnderOf(ps, n, r))

LEMMA CellsConcat ==
    ASSUME NEW b, NEW x, NEW y, x \in Seq(ToSet(x)), y \in Seq(ToSet(y)),
           <<b>> \o x = <<b>> \o y
    PROVE  x = y
<1> DEFINE D == (ToSet(x) \cup ToSet(y)) \cup {b}
<1>1. x \in Seq(D) /\ y \in Seq(D)
  <2>1. ToSet(x) \subseteq D /\ ToSet(y) \subseteq D
    OBVIOUS
  <2> HIDE DEF D
  <2>2. Seq(ToSet(x)) \subseteq Seq(D) /\ Seq(ToSet(y)) \subseteq Seq(D)
    BY <2>1, SeqMonotonic
  <2>3. QED BY <2>2
<1>2. <<b>> \in Seq(D)
  <2>1. b \in D
    OBVIOUS
  <2> HIDE DEF D
  <2>2. QED BY <2>1
<1> HIDE DEF D
<1>3. QED BY <1>1, <1>2, ConcatSimplifications

\* A path adds no file twice.
LEMMA FilesOnce ==
    ASSUME NEW p, NEW i \in DOMAIN ItemsOf(p), NEW k \in DOMAIN ItemsOf(p),
           ItemsOf(p)[i].relativePath = ItemsOf(p)[k].relativePath
    PROVE  i = k
<1>1. CASE p \in FilePaths
  <2>1. ItemsOf(p) = <<Item(<<BaseName[p]>>, SizeOf[p])>>
    BY <1>1 DEF ItemsOf
  <2>2. QED BY <2>1
<1>2. CASE p \notin FilePaths /\ p \in FolderPaths
  <2> DEFINE q == Inside[p]
             x(n) == Item(<<BaseName[p]>> \o q[n].path, q[n].size)
  <2>1. ItemsOf(p) = [n \in DOMAIN q |-> x(n)]
    BY <1>2 DEF ItemsOf
  <2>2. i \in DOMAIN q /\ k \in DOMAIN q
    BY <2>1
  <2>3. <<BaseName[p]>> \o q[i].path = <<BaseName[p]>> \o q[k].path
    <3>1. /\ ItemsOf(p)[i].relativePath = x(i).relativePath
          /\ ItemsOf(p)[k].relativePath = x(k).relativePath
      BY <2>1, <2>2
    <3>2. /\ x(i).relativePath = <<BaseName[p]>> \o q[i].path
          /\ x(k).relativePath = <<BaseName[p]>> \o q[k].path
      BY DEF Item
    <3>3. QED BY <3>1, <3>2
  <2>4. /\ q[i].path \in Seq(ToSet(q[i].path)) /\ q[k].path \in Seq(ToSet(q[k].path))
        /\ q[i].path = q[k].path => i = k
    BY <1>2, <2>2, EnumeratorAssumption
  <2> HIDE DEF q
  <2>5. q[i].path = q[k].path
    BY <2>3, <2>4, CellsConcat
  <2>6. QED BY <2>4, <2>5
<1>3. CASE p \notin FilePaths /\ p \notin FolderPaths
  <2>1. ItemsOf(p) = <<>>
    BY <1>3 DEF ItemsOf
  <2>2. QED BY <2>1
<1>4. QED BY <1>1, <1>2, <1>3

\* One more path: each of its files has one place more, and one path more.
LEMMA CountsGrow ==
    ASSUME NEW Z, NEW h \in Seq(Z), NEW ps, NEW n \in Nat, NEW r,
           ItemsOf(ps[n + 1]) \in Seq(Z), Counted(h, ps, n, r)
    PROVE  Counted(h \o ItemsOf(ps[n + 1]), ps, n + 1, r)
<1> DEFINE b == ItemsOf(ps[n + 1])
           g == h \o b
           A == PlacesOf(h, Len(h), r)
           B == UnderOf(ps, n, r)
           A1 == PlacesOf(g, Len(g), r)
           B1 == UnderOf(ps, n + 1, r)
<1>1. /\ Len(g) = Len(h) + Len(b)
      /\ \A i \in 1..Len(h) + Len(b) : g[i] = IF i <= Len(h) THEN h[i] ELSE b[i - Len(h)]
  BY ConcatProperties
<1>2. Len(h) \in Nat /\ Len(b) \in Nat /\ DOMAIN b = 1..Len(b)
  OBVIOUS
<1>0. IsFiniteSet(A) /\ IsFiniteSet(B) /\ Cardinality(A) = Cardinality(B)
  BY DEF Counted
<1>3. FilesUnder(ps[n + 1]) = {b[i].relativePath : i \in 1..Len(b)}
  BY <1>2 DEF FilesUnder
<1>4. \A i \in 1..Len(h) : g[i] = h[i] /\ i \in 1..Len(g)
  BY <1>1, <1>2
<1>5. \A i \in 1..Len(b) : g[Len(h) + i] = b[i] /\ Len(h) + i \in 1..Len(g)
  BY <1>1, <1>2
<1>6. \A i \in 1..Len(g) : i \in 1..Len(h) \/ (i - Len(h) \in 1..Len(b)
                                              /\ Len(h) + (i - Len(h)) = i)
  BY <1>1, <1>2
<1> HIDE DEF g
<1>7. CASE r \in FilesUnder(ps[n + 1])
  <2>1. PICK i0 \in 1..Len(b) : b[i0].relativePath = r
    BY <1>3, <1>7
  <2>2. \A i \in 1..Len(b) : b[i].relativePath = r => i = i0
    BY <1>2, <2>1, FilesOnce
  <2>3. A1 = A \cup {Len(h) + i0}
    <3>1. ASSUME NEW i \in A1 PROVE i \in A \cup {Len(h) + i0}
      <4>1. i \in 1..Len(g) /\ g[i].relativePath = r
        BY DEF PlacesOf
      <4>2. CASE i \in 1..Len(h)
        BY <1>4, <4>1, <4>2 DEF PlacesOf
      <4>3. CASE i - Len(h) \in 1..Len(b) /\ Len(h) + (i - Len(h)) = i
        <5>1. b[i - Len(h)] = g[i]
          BY <1>5, <4>3
        <5>2. i - Len(h) = i0
          BY <2>2, <4>1, <4>3, <5>1
        <5>3. QED BY <4>3, <5>2
      <4>4. QED BY <1>6, <4>1, <4>2, <4>3
    <3>2. A \subseteq A1
      BY <1>4 DEF PlacesOf
    <3>3. Len(h) + i0 \in A1
      BY <1>5, <2>1 DEF PlacesOf
    <3>4. QED BY <3>1, <3>2, <3>3
  <2>4. Len(h) + i0 \notin A
    BY <1>2 DEF PlacesOf
  <2>5. B1 = B \cup {n + 1} /\ n + 1 \notin B
    <3>1. \A j \in 1..n + 1 : j \in 1..n \/ j = n + 1
      OBVIOUS
    <3>2. n + 1 \in 1..n + 1 /\ n + 1 \notin 1..n /\ \A j \in 1..n : j \in 1..n + 1
      OBVIOUS
    <3>3. QED BY <1>7, <3>1, <3>2 DEF UnderOf
  <2> HIDE DEF A, B, A1, B1
  <2>6. IsFiniteSet(A1) /\ Cardinality(A1) = Cardinality(A) + 1
    <3>1. IsFiniteSet(A)
      BY <1>0
    <3>2. QED BY <2>3, <2>4, <3>1, FS_AddElement
  <2>7. IsFiniteSet(B1) /\ Cardinality(B1) = Cardinality(B) + 1
    <3>1. IsFiniteSet(B)
      BY <1>0
    <3>2. QED BY <2>5, <3>1, FS_AddElement
  <2>8. QED BY <1>0, <2>6, <2>7 DEF Counted, A, B, A1, B1, g
<1>8. CASE r \notin FilesUnder(ps[n + 1])
  <2>1. \A i \in 1..Len(b) : b[i].relativePath # r
    BY <1>3, <1>8
  <2>2. A1 = A
    <3>1. ASSUME NEW i \in A1 PROVE i \in A
      <4>1. i \in 1..Len(g) /\ g[i].relativePath = r
        BY DEF PlacesOf
      <4>2. i \in 1..Len(h)
        BY <1>5, <1>6, <2>1, <4>1
      <4>3. QED BY <1>4, <4>1, <4>2 DEF PlacesOf
    <3>2. A \subseteq A1
      BY <1>4 DEF PlacesOf
    <3>3. QED BY <3>1, <3>2
  <2>3. B1 = B
    <3>1. \A j \in 1..n + 1 : j \in 1..n \/ j = n + 1
      OBVIOUS
    <3>2. \A j \in 1..n : j \in 1..n + 1
      OBVIOUS
    <3>3. QED BY <1>8, <3>1, <3>2 DEF UnderOf
  <2>4. QED BY <1>0, <2>2, <2>3 DEF Counted, g
<1>9. QED BY <1>7, <1>8

\* Each file has as many places in the list as there are paths it is under.
LEMMA CountsFlat ==
    ASSUME NEW ps, ps \in Seq(ToSet(ps)), NEW r
    PROVE  LET flat == FlattenSeq([k \in DOMAIN ps |-> ItemsOf(ps[k])])
           IN  /\ IsFiniteSet(PlacesOf(flat, Len(flat), r))
               /\ IsFiniteSet(UnderOf(ps, Len(ps), r))
               /\ Cardinality(PlacesOf(flat, Len(flat), r))
                     = Cardinality(UnderOf(ps, Len(ps), r))
<1> DEFINE Z == UNION {ToSet(ItemsOf(p)) : p \in ToSet(ps)}
           seqs == [k \in DOMAIN ps |-> ItemsOf(ps[k])]
<1>1. ASSUME NEW p \in ToSet(ps) PROVE ItemsOf(p) \in Seq(Z)
  <2>1. ItemsOf(p) \in Seq(ToSet(ItemsOf(p)))
    BY ItemsOfType DEF IsItems
  <2>2. ToSet(ItemsOf(p)) \subseteq Z
    OBVIOUS
  <2>3. Seq(ToSet(ItemsOf(p))) \subseteq Seq(Z)
    BY <2>2, SeqMonotonic
  <2>4. QED BY <2>1, <2>3
<1>2. /\ Len(ps) \in Nat /\ DOMAIN ps = 1..Len(ps) /\ \A k \in 1..Len(ps) : ps[k] \in ToSet(ps)
  BY DEF ToSet
<1> HIDE DEF Z
<1>3. /\ seqs \in Seq(Seq(Z)) /\ Len(seqs) = Len(ps)
      /\ \A k \in 1..Len(ps) : seqs[k] = ItemsOf(ps[k])
  <2>1. seqs \in [1..Len(ps) -> Seq(Z)]
    BY <1>1, <1>2
  <2>2. \A k \in 1..Len(ps) : seqs[k] = ItemsOf(ps[k])
    BY <1>2
  <2> HIDE DEF seqs
  <2>3. QED BY <1>2, <2>1, <2>2
<1>4. Counted(<<>>, ps, 0, r)
  <2>1. PlacesOf(<<>>, Len(<<>>), r) = {} /\ UnderOf(ps, 0, r) = {}
    BY DEF PlacesOf, UnderOf
  <2>2. QED BY <2>1, FS_EmptySet DEF Counted
<1>5. ASSUME NEW h \in Seq(Z), NEW n \in 0..Len(ps) - 1, Counted(h, ps, n, r)
      PROVE  Counted(h \o seqs[n + 1], ps, n + 1, r)
  <2>1. n \in Nat /\ n + 1 \in 1..Len(ps)
    BY <1>2
  <2>2. seqs[n + 1] = ItemsOf(ps[n + 1]) /\ ItemsOf(ps[n + 1]) \in Seq(Z)
    BY <1>1, <1>2, <1>3, <2>1
  <2> HIDE DEF seqs
  <2>3. Counted(h \o ItemsOf(ps[n + 1]), ps, n + 1, r)
    BY <1>5, <2>1, <2>2, CountsGrow
  <2>4. QED BY <2>2, <2>3
<1> HIDE DEF seqs
<1>6. Counted(FlattenSeq(seqs), ps, Len(ps), r)
  <2>1. CASE seqs = <<>>
    <3>1. FlattenSeq(seqs) = <<>> /\ Len(ps) = 0
      BY <1>3, <2>1 DEF FlattenSeq
    <3>2. QED BY <1>4, <3>1
  <2>2. CASE seqs # <<>>
    <3>1. PICK f : FlatUpTo(seqs, Len(seqs), f) /\ FlattenSeq(seqs) = f[Len(seqs)]
      BY <1>3, <2>2, FlattenIs
    <3>2. /\ Len(seqs) \in Nat /\ Len(seqs) # 0
          /\ \A i \in 1..Len(seqs) : f[i] = IF i = 1 THEN seqs[i] ELSE f[i - 1] \o seqs[i]
      BY <1>3, <2>2, <3>1, FlatFacts
    <3> DEFINE T == {n \in 0..Len(seqs) : n = 0 \/ (f[n] \in Seq(Z) /\ Counted(f[n], ps, n, r))}
    <3>3. 0 \in T
      BY <3>2
    <3>4. ASSUME NEW n \in 0..Len(seqs), n \in T, n < Len(seqs)
          PROVE  n + 1 \in T
      <4>1. /\ n + 1 \in 1..Len(seqs) /\ (n + 1) - 1 = n /\ (n + 1 = 1 <=> n = 0) /\ n \in Nat
            /\ n \in 0..Len(ps) - 1
        BY <1>2, <1>3, <3>2, <3>4
      <4>2. f[n + 1] = IF n = 0 THEN seqs[n + 1] ELSE f[n] \o seqs[n + 1]
        BY <3>2, <4>1
      <4>3. seqs[n + 1] \in Seq(Z)
        BY <1>3, <4>1
      <4>4. CASE n = 0
        <5>1. <<>> \in Seq(Z) /\ <<>> \o seqs[n + 1] = seqs[n + 1]
          BY <4>3, ConcatEmptySeq
        <5>2. Counted(<<>> \o seqs[n + 1], ps, n + 1, r)
          BY <1>4, <1>5, <4>1, <4>4, <5>1
        <5>3. f[n + 1] = seqs[n + 1]
          BY <4>2, <4>4
        <5>4. Counted(f[n + 1], ps, n + 1, r)
          BY <5>1, <5>2, <5>3
        <5>5. QED BY <4>1, <4>3, <5>3, <5>4
      <4>5. CASE n # 0
        <5>1. f[n] \in Seq(Z) /\ Counted(f[n], ps, n, r) /\ f[n + 1] = f[n] \o seqs[n + 1]
          BY <3>4, <4>2, <4>5
        <5>2. Counted(f[n] \o seqs[n + 1], ps, n + 1, r)
          BY <1>5, <4>1, <5>1
        <5>3. f[n] \o seqs[n + 1] \in Seq(Z)
          BY <4>3, <5>1, ConcatProperties
        <5>4. f[n + 1] \in Seq(Z) /\ Counted(f[n + 1], ps, n + 1, r)
          BY <5>1, <5>2, <5>3
        <5>5. QED BY <4>1, <5>4
      <4>6. QED BY <4>4, <4>5
    <3> HIDE DEF T
    <3>5. \A n \in 0..Len(seqs) : n \in T
      BY <3>2, <3>3, <3>4, SetInduction
    <3>6. Len(seqs) \in T
      BY <3>2, <3>5
    <3>7. Counted(f[Len(seqs)], ps, Len(seqs), r)
      BY <3>2, <3>6 DEF T
    <3>8. QED BY <1>3, <3>1, <3>7
  <2>3. QED BY <2>1, <2>2
<1>7. QED BY <1>6 DEF Counted, seqs

LEMMA SameInterval == ASSUME NEW a \in Nat, NEW b \in Nat, 1..a = 1..b PROVE a = b
<1>1. a # 0 => a \in 1..a
  OBVIOUS
<1>2. b # 0 => b \in 1..b
  OBVIOUS
<1>3. QED BY <1>1, <1>2

\* The manifest of what is selected: its items by place, by name, by count,
\* and its totals.
LEMMA ManifestCounts ==
    ASSUME NEW ps, ps \in Seq(ToSet(ps))
    PROVE  LET items == EnumeratePaths(ps).items
           IN  /\ DOMAIN items = 1..Len(items) /\ Len(items) \in Nat
               /\ \A i \in DOMAIN items : items[i].fileIndex = i - 1
               /\ {items[i].relativePath : i \in DOMAIN items}
                     = UNION {FilesUnder(ps[j]) : j \in DOMAIN ps}
               /\ \A r : Cardinality({i \in DOMAIN items : items[i].relativePath = r})
                            = Cardinality({j \in DOMAIN ps : r \in FilesUnder(ps[j])})
<1> DEFINE flat == FlattenSeq([k \in DOMAIN ps |-> ItemsOf(ps[k])])
           items == EnumeratePaths(ps).items
<1>1. IsItems(items) /\ \A i \in 1..Len(items) : items[i].fileIndex = i - 1
  BY ManifestType
<1>2. DOMAIN items = 1..Len(items) /\ Len(items) \in Nat
  BY <1>1 DEF IsItems
<1>3. DOMAIN ps = 1..Len(ps)
  OBVIOUS
<1>4. DOMAIN flat = 1..Len(items) /\ Len(flat) = Len(items)
      /\ \A i \in 1..Len(items) : items[i].relativePath = flat[i].relativePath
  <2>1. items = Numbered(flat)
    BY DEF EnumeratePaths
  <2>2. flat \in Seq(UNION {ToSet(ItemsOf(p)) : p \in ToSet(ps)})
    <3> DEFINE Z == UNION {ToSet(ItemsOf(p)) : p \in ToSet(ps)}
               seqs == [k \in DOMAIN ps |-> ItemsOf(ps[k])]
    <3>1. ASSUME NEW p \in ToSet(ps) PROVE ItemsOf(p) \in Seq(Z)
      <4>1. ItemsOf(p) \in Seq(ToSet(ItemsOf(p)))
        BY ItemsOfType DEF IsItems
      <4>2. ToSet(ItemsOf(p)) \subseteq Z
        OBVIOUS
      <4>3. Seq(ToSet(ItemsOf(p))) \subseteq Seq(Z)
        BY <4>2, SeqMonotonic
      <4>4. QED BY <4>1, <4>3
    <3>2. Len(ps) \in Nat /\ \A k \in 1..Len(ps) : ps[k] \in ToSet(ps)
      BY <1>3 DEF ToSet
    <3> HIDE DEF Z
    <3>3. seqs \in [1..Len(ps) -> Seq(Z)]
      BY <1>3, <3>1, <3>2
    <3>4. seqs \in Seq(Seq(Z))
      BY <3>2, <3>3
    <3> HIDE DEF seqs
    <3>5. FlattenSeq(seqs) \in Seq(Z)
      BY <3>4, FlattenType
    <3>6. QED BY <3>5 DEF seqs, Z
  <2> HIDE DEF flat, items
  <2>3. DOMAIN flat = 1..Len(flat) /\ Len(flat) \in Nat
    BY <2>2
  <2>4. DOMAIN items = DOMAIN flat
    BY <2>1 DEF Numbered
  <2>5. Len(flat) = Len(items)
    BY <1>2, <2>3, <2>4, SameInterval
  <2>6. ASSUME NEW i \in 1..Len(items)
        PROVE  items[i].relativePath = flat[i].relativePath
    <3>1. items[i] = [flat[i] EXCEPT !.fileIndex = i - 1]
      BY <2>1, <2>3, <2>5 DEF Numbered
    <3> DEFINE x == flat[i]
    <3>2. IsItem(items[i])
      BY <1>1, <1>2 DEF IsItems, ToSet
    <3>3. "relativePath" \in DOMAIN items[i]
      BY <3>2 DEF IsItem
    <3>4. "relativePath" \in DOMAIN flat[i]
      BY <3>1, <3>3
    <3>5. QED BY <3>1, <3>4
  <2>7. QED BY <2>3, <2>5, <2>6
<1> HIDE DEF items
<1>5. ASSUME NEW r
      PROVE  /\ {i \in DOMAIN items : items[i].relativePath = r} = PlacesOf(flat, Len(flat), r)
             /\ {j \in DOMAIN ps : r \in FilesUnder(ps[j])} = UnderOf(ps, Len(ps), r)
  <2> HIDE DEF flat
  <2>1. QED BY <1>2, <1>3, <1>4 DEF PlacesOf, UnderOf
<1>6. ASSUME NEW r
      PROVE  /\ IsFiniteSet(PlacesOf(flat, Len(flat), r))
             /\ IsFiniteSet(UnderOf(ps, Len(ps), r))
             /\ Cardinality(PlacesOf(flat, Len(flat), r)) = Cardinality(UnderOf(ps, Len(ps), r))
  BY CountsFlat
<1> HIDE DEF flat
<1>7. ASSUME NEW r
      PROVE  (PlacesOf(flat, Len(flat), r) = {}) <=> (UnderOf(ps, Len(ps), r) = {})
  BY <1>6, FS_EmptySet
<1>8. {items[i].relativePath : i \in DOMAIN items} = UNION {FilesUnder(ps[j]) : j \in DOMAIN ps}
  <2>1. ASSUME NEW r
        PROVE  r \in {items[i].relativePath : i \in DOMAIN items}
                  <=> {i \in DOMAIN items : items[i].relativePath = r} # {}
    OBVIOUS
  <2>2. ASSUME NEW r
        PROVE  r \in UNION {FilesUnder(ps[j]) : j \in DOMAIN ps}
                  <=> {j \in DOMAIN ps : r \in FilesUnder(ps[j])} # {}
    OBVIOUS
  <2> DEFINE lhs == {items[i].relativePath : i \in DOMAIN items}
             rhs == UNION {FilesUnder(ps[j]) : j \in DOMAIN ps}
  <2>3. ASSUME NEW r
        PROVE  r \in lhs <=> r \in rhs
    <3> HIDE DEF lhs, rhs
    <3>1. r \in lhs <=> PlacesOf(flat, Len(flat), r) # {}
      BY <1>5, <2>1 DEF lhs
    <3>2. r \in rhs <=> UnderOf(ps, Len(ps), r) # {}
      BY <1>5, <2>2 DEF rhs
    <3>3. QED BY <1>7, <3>1, <3>2
  <2> HIDE DEF lhs, rhs
  <2>4. lhs = rhs
    BY <2>3
  <2>5. QED BY <2>4 DEF lhs, rhs
<1>9. \A r : Cardinality({i \in DOMAIN items : items[i].relativePath = r})
                = Cardinality({j \in DOMAIN ps : r \in FilesUnder(ps[j])})
  BY <1>5, <1>6
<1>10. QED BY <1>1, <1>2, <1>8, <1>9 DEF items

LEMMA ManifestTotals ==
    ASSUME NEW ps
    PROVE  LET f == EnumeratePaths(ps)
           IN  /\ f.totalFiles = Len(f.items)
               /\ f.totalBytes = MapThenSumSet(LAMBDA i : f.items[i].fileSize, DOMAIN f.items)
BY DEF EnumeratePaths, FoldSeq, FoldFunction, FoldFunctionOnSet, MapThenSumSet, MapThenFoldSet

\* The manifest is that of the selection, and the offer is made of it.
OfferMade ==
    /\ target # None => manifest = EnumeratePaths(paths)
    /\ \A k \in 1..Len(sent) : sent[k].type = "TransferOffer" => sent[k] = Offer

LEMMA OthersAreNoOffers ==
    ASSUME NEW m \in Others \cup {HandshakeReq}
    PROVE  m.type # "TransferOffer"
<1>1. m.type \in JsonTypes \cup {"FileStart", "FileDataChunk", "FileEnd", "FileAck"}
  BY MessagesAssumption
<1>2. QED BY <1>1, OtherTypes

LEMMA OfferMadeAlways == Spec => []OfferMade
<1>1. Init => OfferMade
  <2> SUFFICES ASSUME Init PROVE OfferMade
    OBVIOUS
  <2>1. target = None /\ sent = <<>> /\ Len(<<>>) = 0
    BY DEF Init, ConnectionInit
  <2>2. QED BY <2>1 DEF OfferMade
<1>2. OfferInv /\ OfferMade /\ [Next]_vars => OfferMade'
  <2> SUFFICES ASSUME OfferInv, OfferMade, [Next]_vars PROVE OfferMade'
    OBVIOUS
  <2>1. CASE UsePage
    <3>1. target = None /\ UNCHANGED <<sent, target, manifest>>
      BY <2>1 DEF UsePage, connVars
    <3>2. QED BY <3>1 DEF OfferMade, Offer
  <2>2. CASE OnStartTransferClicked
    <3>1. /\ target = None /\ manifest' = EnumeratePaths(paths) /\ UNCHANGED <<paths, sent>>
      BY <2>2 DEF OnStartTransferClicked, pageVars
    <3>2. sent = <<>> /\ Len(<<>>) = 0
      BY <3>1 DEF OfferInv, StartInv, ConnectionInit
    <3>3. QED BY <3>1, <3>2 DEF OfferMade
  <2>3. CASE Talk
    <3>1. UNCHANGED <<paths, target, manifest>>
      BY <2>3 DEF Talk, pageVars
    <3>2. PICK m : sent' = Append(sent, m) /\ (m.type = "TransferOffer" => m = Offer)
      <4>1. CASE SendPacket(HandshakeReq)
        BY <4>1, OthersAreNoOffers DEF SendPacket
      <4>2. CASE SendPacket(Offer)
        BY <4>2 DEF SendPacket
      <4>3. CASE \E m \in Others : SendPacket(m)
        BY <4>3, OthersAreNoOffers DEF SendPacket
      <4>4. QED BY <2>3, <4>1, <4>2, <4>3 DEF Talk
    <3>3. PICK C : sent \in Seq(C)
      BY DEF OfferInv, StreamInv
    <3>4. /\ Len(sent) \in Nat /\ Len(sent') = Len(sent) + 1 /\ sent'[Len(sent) + 1] = m
          /\ \A k \in 1..Len(sent) : sent'[k] = sent[k]
      BY <3>2, <3>3
    <3>5. Offer' = Offer
      BY <3>1 DEF Offer
    <3>6. ASSUME NEW k \in 1..Len(sent'), sent'[k].type = "TransferOffer"
          PROVE  sent'[k] = Offer'
      <4>1. CASE k = Len(sent) + 1
        BY <3>2, <3>4, <3>5, <3>6, <4>1
      <4>2. CASE k \in 1..Len(sent)
        BY <3>4, <3>5, <3>6, <4>2 DEF OfferMade
      <4>3. QED BY <3>4, <4>1, <4>2
    <3>7. target' # None => manifest' = EnumeratePaths(paths')
      BY <3>1 DEF OfferMade
    <3>8. QED BY <3>6, <3>7 DEF OfferMade
  <2>4. CASE Travel
    <3>1. UNCHANGED <<paths, target, manifest, sent>>
      BY <2>4 DEF Travel, pageVars, ConnectionStep, OnReadyRead, ParseHeader, WaitForMore,
                  ExtractPacket, ConnectionLost
    <3>2. QED BY <3>1 DEF OfferMade, Offer
  <2>5. CASE UNCHANGED vars
    BY <2>5 DEF vars, pageVars, connVars, OfferMade, Offer
  <2>6. QED BY <2>1, <2>2, <2>3, <2>4, <2>5 DEF Next
<1>3. QED BY <1>1, <1>2, OfferAlways, PTL DEF Spec

\* The offer the receiver reads has every file once for each selected path it
\* is under and no other, numbered by its place, with the totals of its items.
THEOREM ManifestIntactHolds == Spec => []ManifestIntact
<1>1. OfferInv /\ OfferMade => ManifestIntact
  <2> SUFFICES ASSUME OfferInv, OfferMade, NEW k \in DOMAIN received,
                      received[k].type = "TransferOffer"
               PROVE  LET m == received[k]
                          files == {m.items[i].relativePath : i \in DOMAIN m.items}
                      IN  /\ \A i \in DOMAIN m.items : m.items[i].fileIndex = i - 1
                          /\ files = UNION {FilesUnder(paths[j]) : j \in DOMAIN paths}
                          /\ \A f \in files :
                                Cardinality({i \in DOMAIN m.items : m.items[i].relativePath = f})
                                  = Cardinality({j \in DOMAIN paths : f \in FilesUnder(paths[j])})
                          /\ m.totalFiles = Len(m.items)
                          /\ m.totalBytes = MapThenSumSet(LAMBDA i : m.items[i].fileSize,
                                                          DOMAIN m.items)
    BY DEF ManifestIntact
  <2>1. PICK C : received \in Seq(C)
    BY DEF OfferInv, StreamInv
  <2>2. k \in 1..Len(received) /\ Len(received) \in 0..Len(sent) /\ k \in 1..Len(sent)
    BY <2>1, Sizes DEF OfferInv
  <2>3. received[k] = Reads(sent[k])
    BY <2>2 DEF OfferInv, StreamInv
  <2>4. received[k] = sent[k]
    BY <2>3 DEF Reads, Unreadable
  <2>5. received[k] = Offer
    BY <2>2, <2>4 DEF OfferMade
  <2>6. target # None
    <3>1. Len(sent) # 0
      BY <2>2
    <3>2. sent # <<>>
      BY <3>1
    <3>3. QED BY <3>2 DEF OfferInv, StartInv, ConnectionInit
  <2> DEFINE e == EnumeratePaths(paths)
  <2>7. manifest = e
    BY <2>6 DEF OfferMade
  <2>8. /\ received[k].items = e.items /\ received[k].totalFiles = e.totalFiles
        /\ received[k].totalBytes = e.totalBytes
    BY <2>5, <2>7 DEF Offer
  <2>9. paths \in Seq(ToSet(paths))
    BY DEF OfferInv, StartInv, ToSet
  <2>10. /\ \A i \in DOMAIN e.items : e.items[i].fileIndex = i - 1
         /\ {e.items[i].relativePath : i \in DOMAIN e.items}
               = UNION {FilesUnder(paths[j]) : j \in DOMAIN paths}
         /\ \A r : Cardinality({i \in DOMAIN e.items : e.items[i].relativePath = r})
                      = Cardinality({j \in DOMAIN paths : r \in FilesUnder(paths[j])})
    BY <2>9, ManifestCounts
  <2>11. /\ e.totalFiles = Len(e.items)
         /\ e.totalBytes = MapThenSumSet(LAMBDA i : e.items[i].fileSize, DOMAIN e.items)
    BY ManifestTotals
  <2> HIDE DEF e
  <2>12. received[k].totalBytes = MapThenSumSet(LAMBDA i : received[k].items[i].fileSize,
                                                DOMAIN received[k].items)
    BY <2>8, <2>11 DEF MapThenSumSet, MapThenFoldSet
  <2>13. QED BY <2>8, <2>10, <2>11, <2>12
<1>2. QED BY <1>1, OfferAlways, OfferMadeAlways, PTL

-----------------------------------------------------------------------------
(* The page.                                                               *)

LEMMA ToSetIs ==
    ASSUME NEW X, NEW s \in Seq(X)
    PROVE  /\ ToSet(s) = {s[i] : i \in 1..Len(s)} /\ ToSet(s) \subseteq X
           /\ s # <<>> => s[1] \in ToSet(s)
<1>1. DOMAIN s = 1..Len(s) /\ Len(s) \in Nat /\ \A i \in 1..Len(s) : s[i] \in X
  OBVIOUS
<1>2. s # <<>> => 1 \in 1..Len(s)
  OBVIOUS
<1>3. QED BY <1>1, <1>2 DEF ToSet

\* What is current is listed; what the user picked is current while it is.
PageInv ==
    /\ devices \in Seq(ToSet(Order))
    /\ choice = None \/ choice \in ToSet(devices)
    /\ picked # None => picked \in ToSet(devices) /\ choice = picked
    /\ StartHasWork
    /\ picked # None => target \in {None, Manual} \/ target = picked

\* The list is rebuilt: what was picked stays current while it is listed.
LEMMA PageRebuilt ==
    ASSUME PageInv, target = None, NEW ids \in SUBSET ToSet(Order), UpdateDeviceList(ids),
           target' = target
    PROVE  PageInv'
<1>1. devices' \in Seq(ToSet(Order)) /\ ToSet(devices') = ids
  <2>1. Order \in Seq(ToSet(Order))
    BY PageAssumption
  <2>2. /\ Keep(Order, ids) \in Seq(ToSet(Order))
        /\ ToSet(Keep(Order, ids)) = ToSet(Order) \cap ids
    BY <2>1, KeepFacts
  <2>3. devices' = Keep(Order, ids)
    BY DEF UpdateDeviceList
  <2>4. QED BY <2>2, <2>3
<1>2. choice' = None \/ choice' \in ToSet(devices')
  <2>1. choice' = CurrentAfter(devices')
    BY DEF UpdateDeviceList
  <2>2. devices' # <<>> => devices'[1] \in ToSet(devices')
    BY <1>1, ToSetIs
  <2>3. QED BY <2>1, <2>2 DEF CurrentAfter
<1>3. ASSUME picked' # None
      PROVE  picked' \in ToSet(devices') /\ choice' = picked'
  <2>1. picked \in ids /\ picked' = picked /\ choice' = CurrentAfter(devices')
    BY <1>3 DEF UpdateDeviceList
  <2>2. choice = picked /\ picked \in ToSet(devices')
    BY <1>1, <1>3, <2>1 DEF PageInv
  <2>3. QED BY <2>1, <2>2 DEF CurrentAfter
<1>4. StartHasWork'
  BY <1>2 DEF StartHasWork, UpdateDeviceList, UpdateSummary
<1>5. QED BY <1>1, <1>2, <1>3, <1>4 DEF PageInv

\* The other steps of the page.
LEMMA PageUsed ==
    ASSUME PageInv, target = None, PageStep, target' = target
    PROVE  PageInv'
<1>1. ASSUME NEW ids \in SUBSET ToSet(Order), UpdateDeviceList(ids)
      PROVE  PageInv'
  BY <1>1, PageRebuilt
<1>2. CASE AddPath \/ OnRemoveSelectedClicked \/ OnClearAllClicked \/ OnManualIpToggled
  <2>1. UNCHANGED <<devices, choice, picked>> /\ UpdateSummary
    BY <1>2 DEF AddPath, OnRemoveSelectedClicked, OnClearAllClicked, OnManualIpToggled
  <2>2. StartHasWork'
    BY <2>1 DEF PageInv, StartHasWork, UpdateSummary
  <2>3. QED BY <2>1, <2>2 DEF PageInv
<1>3. CASE EditManualIp
  BY <1>3 DEF EditManualIp, PageInv, StartHasWork
<1>4. CASE PickDevice
  <2>1. PICK i \in DOMAIN devices : choice' = devices[i] /\ picked' = devices[i]
    BY <1>4 DEF PickDevice
  <2>2. devices[i] \in ToSet(devices)
    BY DEF ToSet
  <2>3. UNCHANGED <<paths, devices, manual, typed, startEnabled>>
    BY <1>4 DEF PickDevice
  <2>4. QED BY <2>1, <2>2, <2>3 DEF PageInv, StartHasWork
<1>5. QED BY <1>1, <1>2, <1>3, <1>4 DEF PageStep

LEMMA PageAlways == Spec => []PageInv
<1>1. Init => PageInv
  BY EmptySeq DEF Init, PageInit, PageInv, StartHasWork
<1>2. PageInv /\ [Next]_vars => PageInv'
  <2> SUFFICES ASSUME PageInv, [Next]_vars PROVE PageInv'
    OBVIOUS
  <2>1. CASE UsePage
    BY <2>1, PageUsed DEF UsePage
  <2>2. CASE OnStartTransferClicked
    BY <2>2 DEF OnStartTransferClicked, PageInv, StartHasWork, pageVars
  <2>3. CASE Talk \/ Travel
    BY <2>3 DEF Talk, Travel, PageInv, StartHasWork, pageVars
  <2>4. CASE UNCHANGED vars
    BY <2>4 DEF vars, pageVars, PageInv, StartHasWork
  <2>5. QED BY <2>1, <2>2, <2>3, <2>4 DEF Next
<1>3. QED BY <1>1, <1>2, PTL DEF Spec

\* What the user picked is where START sends to, however often the list of
\* devices is rebuilt under the open page.
THEOREM PickIsTargetHolds == Spec => []PickIsTarget
<1>1. PageInv => PickIsTarget
  BY DEF PageInv, PickIsTarget
<1>2. QED BY <1>1, PageAlways, PTL

\* START is enabled only with a selection and a destination to send to.
THEOREM StartHasWorkHolds == Spec => []StartHasWork
<1>1. PageInv => StartHasWork
  BY DEF PageInv
<1>2. QED BY <1>1, PageAlways, PTL
=============================================================================
