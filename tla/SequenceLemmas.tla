-------------------------- MODULE SequenceLemmas --------------------------
(***************************************************************************)
(* Facts about numbers and sequences that the proofs of several modules    *)
(* need: induction over the naturals and over sequences, stated for a set  *)
(* in place of a predicate; functions defined by recursion over an         *)
(* interval; and what the library's FlattenSeq and ToSet do.               *)
(***************************************************************************)
EXTENDS Integers, SequencesExt, SequenceTheorems, FiniteSetTheorems,
        WellFoundedInduction, Selection, TLAPS

\* Induction over the naturals: a set that has 0 and the successor of each of
\* its numbers has them all.
LEMMA NatSetInduction ==
    ASSUME NEW S, 0 \in S, \A n \in Nat : n \in S => n + 1 \in S
    PROVE  Nat \subseteq S
<1> DEFINE R == {ss \in Nat \X Nat : ss[1] < ss[2]}
<1> SUFFICES ASSUME Nat \ S # {} PROVE FALSE
  OBVIOUS
<1>1. IsWellFoundedOn(R, Nat)
  BY NatLessThanWellFounded DEF OpToRel
<1>2. \E x \in Nat \ S : \A y \in Nat \ S : ~(<<y, x>> \in R)
  <2> HIDE DEF R
  <2> QED BY <1>1, WFMin
<1>3. PICK x \in Nat \ S : \A y \in Nat \ S : ~(y < x)
  BY <1>2
<1>4. x - 1 \in Nat /\ x - 1 < x /\ x - 1 \in S
  BY <1>3
<1> QED BY <1>4

\* A non-empty set of naturals has a least element.
LEMMA LeastNat ==
    ASSUME NEW S \in SUBSET Nat, S # {}
    PROVE  \E n \in S : \A m \in S : n <= m
<1>1. PICK n \in S : \A m \in S : <<m, n>> \notin OpToRel(<, Nat)
  BY NatLessThanWellFounded, WFMin
<1>2. \A m \in S : ~(m < n)
  BY <1>1 DEF OpToRel
<1> QED
  BY <1>2

\* Induction over sequences, from the left: a set that has <<>> and each of
\* its sequences with one more element has all sequences.
LEMMA SeqSetInduction ==
    ASSUME NEW S, NEW P, <<>> \in P,
           \A s \in Seq(S), e \in S : s \in P => Append(s, e) \in P
    PROVE  Seq(S) \subseteq P
<1> DEFINE N == {n \in Nat : \A s \in Seq(S) : Len(s) = n => s \in P}
<1>1. 0 \in N
  BY EmptySeq
<1>2. ASSUME NEW n \in Nat, n \in N PROVE n + 1 \in N
  <2> SUFFICES ASSUME NEW s \in Seq(S), Len(s) = n + 1 PROVE s \in P
    OBVIOUS
  <2> DEFINE f == SubSeq(s, 1, n)  e == s[n + 1]
  <2>1. f \in Seq(S) /\ Len(f) = n /\ \A i \in 1..n : f[i] = s[i]
    BY SubSeqProperties
  <2>2. e \in S
    BY ElementOfSeq
  <2>3. Append(f, e) \in Seq(S) /\ Len(Append(f, e)) = n + 1
        /\ \A i \in 1..n + 1 : Append(f, e)[i] = s[i]
    BY <2>1, <2>2
  <2>4. s = Append(f, e)
    BY <2>3, SeqEqual
  <2> QED BY <2>1, <2>2, <2>4, <1>2
<1> HIDE DEF N
<1>3. Nat \subseteq N
  BY <1>1, <1>2, NatSetInduction
<1> QED BY <1>3, LenProperties DEF N

\* Some function on 0..n starts with base and goes on as F says.
Recursion(T, base, n, F) ==
    \E f \in [0..n -> T] :
        f[0] = base /\ \A i \in 1..n : f[i] = F[i][f[i - 1]]

\* A function can be defined by recursion over 0..n: the value at 0 is given,
\* and F gives every other value from the one before.
LEMMA RecursionExists ==
    ASSUME NEW T, NEW base \in T, NEW n \in Nat, NEW F \in [1..n -> [T -> T]]
    PROVE  Recursion(T, base, n, F)
<1> DEFINE Rec(m, f) == f[0] = base /\ \A i \in 1..m : f[i] = F[i][f[i - 1]]
           P == {m \in Nat : m <= n => \E f \in [0..m -> T] : Rec(m, f)}
<1>1. 0 \in P
  <2>1. [i \in 0..0 |-> base] \in [0..0 -> T] /\ Rec(0, [i \in 0..0 |-> base])
    OBVIOUS
  <2> QED BY <2>1
<1>2. ASSUME NEW m \in Nat, m \in P PROVE m + 1 \in P
  <2> SUFFICES ASSUME m + 1 <= n PROVE \E f \in [0..m + 1 -> T] : Rec(m + 1, f)
    OBVIOUS
  <2>1. PICK f \in [0..m -> T] : Rec(m, f)
    BY <1>2
  <2> DEFINE e == F[m + 1][f[m]]
             g == [i \in 0..m + 1 |-> IF i = m + 1 THEN e ELSE f[i]]
  <2>2. e \in T
    OBVIOUS
  <2>3. g \in [0..m + 1 -> T] /\ g[m + 1] = e /\ \A i \in 0..m : g[i] = f[i]
    BY <2>2
  <2>4. ASSUME NEW i \in 1..m + 1 PROVE g[i] = F[i][g[i - 1]]
    <3>1. CASE i = m + 1
      <4>1. g[i - 1] = f[m]
        BY <3>1, <2>3
      <4> QED BY <4>1, <3>1, <2>3
    <3>2. CASE i \in 1..m
      <4>1. g[i] = f[i] /\ g[i - 1] = f[i - 1]
        BY <3>2, <2>3
      <4> QED BY <4>1, <3>2, <2>1
    <3> QED BY <3>1, <3>2
  <2>5. g[0] = base
    BY <2>1, <2>3
  <2> QED BY <2>3, <2>4, <2>5
<1> HIDE DEF P
<1>3. n \in P
  BY <1>1, <1>2, NatSetInduction
<1> QED BY <1>3 DEF P, Recursion

\* The elements of a sequence with one more, of two sequences one after the
\* other, and of a sequence without its first.
LEMMA ToSetProperties ==
    ASSUME NEW S, NEW s \in Seq(S)
    PROVE  /\ ToSet(<<>>) = {}
           /\ ToSet(s) \subseteq S
           /\ \A e : ToSet(Append(s, e)) = ToSet(s) \cup {e}
           /\ \A u \in Seq(S) : ToSet(s \o u) = ToSet(s) \cup ToSet(u)
           /\ s # <<>> => ToSet(s) = {Head(s)} \cup ToSet(Tail(s))
<1>1. ToSet(<<>>) = {}
  BY DEF ToSet
<1>2. ToSet(s) \subseteq S
  BY ElementOfSeq, LenProperties DEF ToSet
<1>3. ASSUME NEW e PROVE ToSet(Append(s, e)) = ToSet(s) \cup {e}
  <2>1. DOMAIN s = 1..Len(s) /\ DOMAIN Append(s, e) = 1..Len(s) + 1
        /\ Append(s, e)[Len(s) + 1] = e
        /\ \A i \in 1..Len(s) : Append(s, e)[i] = s[i]
    OBVIOUS
  <2> QED BY <2>1 DEF ToSet
<1>4. ASSUME NEW u \in Seq(S) PROVE ToSet(s \o u) = ToSet(s) \cup ToSet(u)
  <2>1. /\ DOMAIN s = 1..Len(s) /\ DOMAIN u = 1..Len(u)
        /\ DOMAIN (s \o u) = 1..Len(s) + Len(u)
        /\ \A i \in 1..Len(s) : (s \o u)[i] = s[i]
        /\ \A i \in 1..Len(u) : (s \o u)[Len(s) + i] = u[i]
    OBVIOUS
  <2>2. ToSet(s \o u) \subseteq ToSet(s) \cup ToSet(u)
    <3> SUFFICES ASSUME NEW i \in 1..Len(s) + Len(u)
                 PROVE  (s \o u)[i] \in ToSet(s) \cup ToSet(u)
      BY <2>1 DEF ToSet
    <3>1. CASE i \in 1..Len(s)
      BY <3>1, <2>1 DEF ToSet
    <3>2. CASE i \notin 1..Len(s)
      <4>1. i - Len(s) \in 1..Len(u) /\ (s \o u)[i] = u[i - Len(s)]
        BY <3>2, <2>1
      <4> QED BY <4>1, <2>1 DEF ToSet
    <3> QED BY <3>1, <3>2
  <2>3. ToSet(s) \subseteq ToSet(s \o u)
    BY <2>1 DEF ToSet
  <2>4. ToSet(u) \subseteq ToSet(s \o u)
    <3> SUFFICES ASSUME NEW i \in 1..Len(u) PROVE u[i] \in ToSet(s \o u)
      BY <2>1 DEF ToSet
    <3>1. Len(s) + i \in 1..Len(s) + Len(u)
      OBVIOUS
    <3> QED BY <2>1, <3>1 DEF ToSet
  <2> QED BY <2>2, <2>3, <2>4
<1>5. ASSUME s # <<>> PROVE ToSet(s) = {Head(s)} \cup ToSet(Tail(s))
  <2>1. Len(s) \in Nat \ {0} /\ DOMAIN s = 1..Len(s) /\ Head(s) = s[1]
        /\ DOMAIN Tail(s) = 1..Len(s) - 1
        /\ \A i \in 1..Len(s) - 1 : Tail(s)[i] = s[i + 1]
    BY <1>5
  <2>3. ToSet(s) \subseteq {Head(s)} \cup ToSet(Tail(s))
    <3> SUFFICES ASSUME NEW i \in 1..Len(s), i # 1
                 PROVE  s[i] \in ToSet(Tail(s))
      BY <2>1 DEF ToSet
    <3>1. i - 1 \in 1..Len(s) - 1 /\ Tail(s)[i - 1] = s[i]
      BY <2>1
    <3> QED BY <3>1, <2>1 DEF ToSet
  <2>4. ToSet(Tail(s)) \subseteq ToSet(s)
    <3>1. \A i \in 1..Len(s) - 1 : i + 1 \in 1..Len(s)
      BY <2>1
    <3> QED BY <2>1, <3>1 DEF ToSet
  <2>5. Head(s) \in ToSet(s)
    BY <2>1 DEF ToSet
  <2> QED BY <2>3, <2>4, <2>5
<1> QED BY <1>1, <1>2, <1>3, <1>4, <1>5

\* A sequence has finitely many elements.
LEMMA ToSetFinite ==
    ASSUME NEW S, NEW s \in Seq(S)
    PROVE  IsFiniteSet(ToSet(s))
<1> DEFINE P == {u \in Seq(S) : IsFiniteSet(ToSet(u))}
<1>1. <<>> \in P
  <2>1. <<>> \in Seq(S)
    OBVIOUS
  <2>2. ToSet(<<>>) = {}
    BY DEF ToSet
  <2> QED BY <2>1, <2>2, FS_EmptySet, Zenon
<1>2. ASSUME NEW u \in Seq(S), NEW e \in S, u \in P PROVE Append(u, e) \in P
  <2>1. ToSet(Append(u, e)) = ToSet(u) \cup {e}
    BY ToSetProperties
  <2>2. IsFiniteSet(ToSet(u) \cup {e})
    BY <1>2, FS_AddElement
  <2>3. Append(u, e) \in Seq(S)
    OBVIOUS
  <2> QED BY <2>1, <2>2, <2>3, Zenon
<1>3. Seq(S) \subseteq P
  <2> HIDE DEF P
  <2> QED BY <1>1, <1>2, SeqSetInduction
<1> QED BY <1>3

\* The first elements of a sequence are elements of it.
LEMMA SubSeqSubset ==
    ASSUME NEW S, NEW s \in Seq(S), NEW n \in 0..Len(s)
    PROVE  ToSet(SubSeq(s, 1, n)) \subseteq ToSet(s)
<1>1. SubSeq(s, 1, n) \in Seq(S) /\ Len(SubSeq(s, 1, n)) = n
      /\ \A i \in 1..n : SubSeq(s, 1, n)[i] = s[i]
  BY SubSeqProperties
<1>2. DOMAIN s = 1..Len(s) /\ DOMAIN SubSeq(s, 1, n) = 1..n
  BY <1>1, LenProperties
<1> QED BY <1>1, <1>2 DEF ToSet

\* The first elements of a sequence are those of a longer one.
LEMMA SubSeqOfAppend ==
    ASSUME NEW S, NEW s \in Seq(S), NEW e \in S, NEW n \in 0..Len(s)
    PROVE  SubSeq(Append(s, e), 1, n) = SubSeq(s, 1, n)
<1>1. Append(s, e) \in Seq(S) /\ Len(Append(s, e)) = Len(s) + 1
      /\ \A i \in 1..Len(s) : Append(s, e)[i] = s[i]
  OBVIOUS
<1>2. SubSeq(s, 1, n) \in Seq(S) /\ Len(SubSeq(s, 1, n)) = n
      /\ \A i \in 1..n : SubSeq(s, 1, n)[i] = s[i]
  BY SubSeqProperties
<1>3. SubSeq(Append(s, e), 1, n) \in Seq(S)
      /\ Len(SubSeq(Append(s, e), 1, n)) = n
      /\ \A i \in 1..n : SubSeq(Append(s, e), 1, n)[i] = s[i]
  BY <1>1, SubSeqProperties
<1> QED BY <1>2, <1>3, SeqEqual

\* Concatenation is associative.
LEMMA ConcatAssoc ==
    ASSUME NEW S
    PROVE  \A x, y, z \in Seq(S) : (x \o y) \o z = x \o (y \o z)
BY ConcatAssociative

\* What Selected computes: nothing of the empty sequence; one more element is
\* taken or left out.
LEMMA SelectedStep ==
    ASSUME NEW A, NEW S, NEW s \in Seq(A)
    PROVE  /\ Selected(<<>>, S) = <<>>
           /\ Selected(s, S) \in Seq(A)
           /\ \A w \in A :
                  Selected(Append(s, w), S)
                      = IF w \in S THEN Append(Selected(s, S), w) ELSE Selected(s, S)
<1> DEFINE Of(u, f) ==
        f = [i \in 0..Len(u) |->
                IF i = 0 THEN <<>>
                ELSE IF u[i] \in S THEN Append(f[i - 1], u[i]) ELSE f[i - 1]]
<1>1. ASSUME NEW u \in Seq(A), NEW n \in Nat, n = Len(u)
      PROVE  \E f : Of(u, f)
  <2>1. \A i \in 1..n : u[i] \in A
    BY <1>1, ElementOfSeq
  <2> DEFINE T == Seq(A)
  <2>2. \E F \in [1..n -> [T -> T]] : \A i \in 1..n, x \in T :
            F[i][x] = IF u[i] \in S THEN Append(x, u[i]) ELSE x
    <3> DEFINE F == [i \in 1..n |-> [x \in T |->
                        IF u[i] \in S THEN Append(x, u[i]) ELSE x]]
    <3>1. F \in [1..n -> [T -> T]]
      BY <2>1
    <3>2. \A i \in 1..n, x \in T :
              F[i][x] = IF u[i] \in S THEN Append(x, u[i]) ELSE x
      OBVIOUS
    <3> QED BY <3>1, <3>2
  <2>3. PICK F \in [1..n -> [T -> T]] : \A i \in 1..n, x \in T :
            F[i][x] = IF u[i] \in S THEN Append(x, u[i]) ELSE x
    BY <2>2
  <2>4. <<>> \in T
    OBVIOUS
  <2>5. Recursion(T, <<>>, n, F)
    <3> HIDE DEF T
    <3> QED BY <2>4, RecursionExists
  <2>6. PICK g \in [0..n -> T] :
            g[0] = <<>> /\ \A i \in 1..n : g[i] = F[i][g[i - 1]]
    BY <2>5 DEF Recursion
  <2>7. ASSUME NEW i \in 0..n
        PROVE  g[i] = IF i = 0 THEN <<>>
                      ELSE IF u[i] \in S THEN Append(g[i - 1], u[i])
                      ELSE g[i - 1]
    <3>1. CASE i = 0
      BY <3>1, <2>6
    <3>2. CASE i # 0
      <4>1. i \in 1..n /\ i - 1 \in 0..n
        BY <3>2
      <4>2. g[i - 1] \in T /\ g[i] = F[i][g[i - 1]]
        BY <4>1, <2>6, Zenon
      <4> QED BY <3>2, <4>1, <4>2, <2>3, Zenon
    <3> QED BY <3>1, <3>2
  <2>8. DOMAIN g = 0..Len(u)
    BY <1>1
  <2>9. g = [i \in 0..Len(u) |-> g[i]]
    BY <2>8
  <2>10. Of(u, g)
    BY <2>7, <2>9, <1>1, Zenon
  <2> QED BY <2>10
<1> DEFINE Sel(u, n, f) ==
        /\ Selected(u, S) = f[n]
        /\ f[0] = <<>>
        /\ \A i \in 1..n :
               f[i] = IF u[i] \in S THEN Append(f[i - 1], u[i]) ELSE f[i - 1]
<1>2. ASSUME NEW u \in Seq(A), NEW n \in Nat, n = Len(u)
      PROVE  \E f : Sel(u, n, f)
  <2> DEFINE c == CHOOSE h : Of(u, h)
  <2>1. Of(u, c)
    BY <1>1, <1>2
  <2>2. Selected(u, S) = c[n]
    BY <1>2 DEF Selected
  <2> HIDE DEF c
  <2>3. ASSUME NEW i \in 0..n
        PROVE  c[i] = IF i = 0 THEN <<>>
                      ELSE IF u[i] \in S THEN Append(c[i - 1], u[i])
                      ELSE c[i - 1]
    BY <2>1, <1>2, Zenon
  <2>4. c[0] = <<>>
    BY <2>3
  <2>5. ASSUME NEW i \in 1..n
        PROVE  c[i] = IF u[i] \in S THEN Append(c[i - 1], u[i]) ELSE c[i - 1]
    <3>1. i \in 0..n /\ i # 0
      OBVIOUS
    <3> QED BY <3>1, <2>3, Zenon
  <2>6. Sel(u, n, c)
    BY <2>2, <2>4, <2>5
  <2> QED BY <2>6
<1>3. Selected(<<>>, S) = <<>>
  <2>1. <<>> \in Seq(A) /\ 0 \in Nat /\ 0 = Len(<<>>)
    OBVIOUS
  <2>2. PICK f : Sel(<<>>, 0, f)
    <3> HIDE DEF Sel
    <3> QED BY <2>1, <1>2
  <2> QED BY <2>2
<1>4. ASSUME NEW u \in Seq(A), NEW w \in A
      PROVE  Selected(Append(u, w), S)
                 = IF w \in S THEN Append(Selected(u, S), w) ELSE Selected(u, S)
  <2> DEFINE n == Len(u)  v == Append(u, w)
  <2>1. n \in Nat /\ v \in Seq(A) /\ n + 1 = Len(v) /\ v[n + 1] = w
        /\ \A i \in 1..n : v[i] = u[i]
    OBVIOUS
  <2> HIDE DEF n, v
  <2>2. PICK f : Sel(u, n, f)
    <3> HIDE DEF Sel
    <3> QED BY <2>1, <1>2 DEF n
  <2>3. PICK g : Sel(v, n + 1, g)
    <3>1. n + 1 \in Nat
      BY <2>1
    <3> HIDE DEF Sel
    <3> QED BY <2>1, <3>1, <1>2
  <2> DEFINE P == {i \in Nat : i <= n => f[i] = g[i]}
  <2>4. 0 \in P
    BY <2>2, <2>3
  <2>5. ASSUME NEW i \in Nat, i \in P PROVE i + 1 \in P
    <3> SUFFICES ASSUME i + 1 <= n PROVE f[i + 1] = g[i + 1]
      OBVIOUS
    <3>1. f[i] = g[i] /\ i + 1 \in 1..n /\ i + 1 \in 1..n + 1 /\ (i + 1) - 1 = i
      BY <2>1, <2>5
    <3>2. f[i + 1] = IF u[i + 1] \in S THEN Append(f[i], u[i + 1]) ELSE f[i]
      BY <3>1, <2>2
    <3>3. g[i + 1] = IF v[i + 1] \in S THEN Append(g[i], v[i + 1]) ELSE g[i]
      BY <3>1, <2>3
    <3>4. v[i + 1] = u[i + 1]
      BY <3>1, <2>1
    <3> QED BY <3>1, <3>2, <3>3, <3>4
  <2>6. f[n] = g[n]
    <3>1. Nat \subseteq P
      <4> HIDE DEF P
      <4> QED BY <2>4, <2>5, NatSetInduction
    <3> QED BY <3>1, <2>1
  <2>7. n + 1 \in 1..n + 1 /\ (n + 1) - 1 = n
    BY <2>1
  <2>8. g[n + 1] = IF w \in S THEN Append(g[n], w) ELSE g[n]
    BY <2>1, <2>3, <2>7
  <2> QED BY <2>2, <2>3, <2>6, <2>8 DEF v
<1>5. Selected(s, S) \in Seq(A)
  <2> DEFINE P == {u \in Seq(A) : Selected(u, S) \in Seq(A)}
  <2>1. <<>> \in P
    <3>1. <<>> \in Seq(A)
      OBVIOUS
    <3> QED BY <3>1, <1>3, Zenon
  <2>2. ASSUME NEW u \in Seq(A), NEW w \in A, u \in P
        PROVE  Append(u, w) \in P
    <3>1. Selected(u, S) \in Seq(A)
      BY <2>2
    <3>2. Append(Selected(u, S), w) \in Seq(A) /\ Append(u, w) \in Seq(A)
      BY <3>1
    <3> QED BY <3>1, <3>2, <1>4, Zenon
  <2>3. Seq(A) \subseteq P
    <3> HIDE DEF P
    <3> QED BY <2>1, <2>2, SeqSetInduction
  <2> QED BY <2>3
<1> QED BY <1>3, <1>4, <1>5

\* What is selected of two sequences one after the other, and as a set.
LEMMA SelectedProperties ==
    ASSUME NEW A, NEW S, NEW s \in Seq(A), NEW u \in Seq(A)
    PROVE  /\ Selected(s \o u, S) = Selected(s, S) \o Selected(u, S)
           /\ ToSet(Selected(s, S)) = ToSet(s) \cap S
           /\ Len(Selected(s, S)) <= Len(s)
           /\ Len(Selected(s, S)) < Len(s) \/ ToSet(s) \subseteq S
<1>1. Selected(s \o u, S) = Selected(s, S) \o Selected(u, S)
  <2> DEFINE P == {v \in Seq(A) :
                     Selected(s \o v, S) = Selected(s, S) \o Selected(v, S)}
  <2>1. <<>> \in P
    <3>1. <<>> \in Seq(A) /\ Selected(s, S) \in Seq(A)
          /\ Selected(<<>>, S) = <<>>
      BY SelectedStep
    <3>2. s \o <<>> = s /\ Selected(s, S) \o <<>> = Selected(s, S)
      BY <3>1, ConcatEmptySeq
    <3> QED BY <3>1, <3>2, Zenon
  <2>2. ASSUME NEW v \in Seq(A), NEW w \in A, v \in P
        PROVE  Append(v, w) \in P
    <3>1. s \o v \in Seq(A) /\ Append(v, w) \in Seq(A)
          /\ Selected(s, S) \in Seq(A) /\ Selected(v, S) \in Seq(A)
      BY SelectedStep
    <3>2. \A x, y \in Seq(A) : x \o Append(y, w) = Append(x \o y, w)
      OBVIOUS
    <3>3. s \o Append(v, w) = Append(s \o v, w)
      BY <3>2
    <3>4. Selected(s, S) \o Append(Selected(v, S), w)
              = Append(Selected(s, S) \o Selected(v, S), w)
      BY <3>1, <3>2, Zenon
    <3>5. Selected(s \o v, S) = Selected(s, S) \o Selected(v, S)
      BY <2>2
    <3>6. \A x \in Seq(A) :
              Selected(Append(x, w), S)
                  = IF w \in S THEN Append(Selected(x, S), w) ELSE Selected(x, S)
      BY SelectedStep
    <3>7. Selected(Append(s \o v, w), S)
              = IF w \in S THEN Append(Selected(s \o v, S), w)
                ELSE Selected(s \o v, S)
      BY <3>1, <3>6, Zenon
    <3> QED BY <3>1, <3>3, <3>4, <3>5, <3>6, <3>7, Zenon
  <2>3. Seq(A) \subseteq P
    <3> HIDE DEF P
    <3> QED BY <2>1, <2>2, SeqSetInduction
  <2> QED BY <2>3
<1>2. ToSet(Selected(s, S)) = ToSet(s) \cap S
  <2> DEFINE P == {v \in Seq(A) :
                     ToSet(Selected(v, S)) = ToSet(v) \cap S}
  <2>1. <<>> \in P
    <3>1. <<>> \in Seq(A)
      OBVIOUS
    <3>2. Selected(<<>>, S) = <<>>
      BY <3>1, SelectedStep, Zenon
    <3>3. ToSet(<<>>) = {}
      BY DEF ToSet
    <3> QED BY <3>1, <3>2, <3>3, Zenon
  <2>2. ASSUME NEW v \in Seq(A), NEW w \in A, v \in P
        PROVE  Append(v, w) \in P
    <3>1. Append(v, w) \in Seq(A) /\ Selected(v, S) \in Seq(A)
      BY SelectedStep
    <3>2. ToSet(Append(v, w)) = ToSet(v) \cup {w}
          /\ ToSet(Append(Selected(v, S), w)) = ToSet(Selected(v, S)) \cup {w}
      BY <3>1, ToSetProperties
    <3>3. ToSet(Selected(v, S)) = ToSet(v) \cap S
      BY <2>2
    <3>4. Selected(Append(v, w), S)
              = IF w \in S THEN Append(Selected(v, S), w) ELSE Selected(v, S)
      BY SelectedStep
    <3>5. ToSet(Selected(Append(v, w), S)) = ToSet(Append(v, w)) \cap S
      <4>1. CASE w \in S
        <5>1. ToSet(Selected(Append(v, w), S)) = (ToSet(v) \cap S) \cup {w}
          BY <4>1, <3>2, <3>3, <3>4, Zenon
        <5> QED BY <5>1, <3>2, <4>1
      <4>2. CASE w \notin S
        <5>1. ToSet(Selected(Append(v, w), S)) = ToSet(v) \cap S
          BY <4>2, <3>3, <3>4, Zenon
        <5> QED BY <5>1, <3>2, <4>2
      <4> QED BY <4>1, <4>2
    <3> QED BY <3>1, <3>5, Zenon
  <2>3. Seq(A) \subseteq P
    <3> HIDE DEF P
    <3> QED BY <2>1, <2>2, SeqSetInduction
  <2> QED BY <2>3
<1>3. Len(Selected(s, S)) <= Len(s)
      /\ (Len(Selected(s, S)) < Len(s) \/ ToSet(s) \subseteq S)
  <2> DEFINE Short(v) == /\ Len(Selected(v, S)) <= Len(v)
                         /\ Len(Selected(v, S)) < Len(v) \/ ToSet(v) \subseteq S
             P == {v \in Seq(A) : Short(v)}
  <2>1. <<>> \in P
    <3>1. <<>> \in Seq(A) /\ ToSet(<<>>) = {} /\ Len(<<>>) = 0
      BY DEF ToSet
    <3>2. Selected(<<>>, S) = <<>>
      BY <3>1, SelectedStep, Zenon
    <3> QED BY <3>1, <3>2
  <2>2. ASSUME NEW v \in Seq(A), NEW w \in A, v \in P
        PROVE  Append(v, w) \in P
    <3>1. Append(v, w) \in Seq(A) /\ Selected(v, S) \in Seq(A)
          /\ ToSet(Append(v, w)) = ToSet(v) \cup {w}
      BY SelectedStep, ToSetProperties
    <3>2. Len(Append(v, w)) = Len(v) + 1 /\ Len(v) \in Nat
          /\ Len(Selected(v, S)) \in Nat
          /\ Len(Append(Selected(v, S), w)) = Len(Selected(v, S)) + 1
      BY <3>1
    <3>3. Short(v)
      BY <2>2
    <3>4. Selected(Append(v, w), S)
              = IF w \in S THEN Append(Selected(v, S), w) ELSE Selected(v, S)
      BY SelectedStep
    <3>5. Short(Append(v, w))
      <4>1. CASE w \in S
        BY <4>1, <3>1, <3>2, <3>3, <3>4
      <4>2. CASE w \notin S
        BY <4>2, <3>1, <3>2, <3>3, <3>4
      <4> QED BY <4>1, <4>2
    <3> QED BY <3>1, <3>5
  <2>3. Seq(A) \subseteq P
    <3> HIDE DEF P
    <3> QED BY <2>1, <2>2, SeqSetInduction
  <2> QED BY <2>3
<1> QED BY <1>1, <1>2, <1>3

\* FlattenSeq() gives the sequences of a sequence one after the other.
LEMMA FlattenSeqProperties ==
    ASSUME NEW S, NEW q \in Seq(Seq(S))
    PROVE  /\ FlattenSeq(<<>>) = <<>>
           /\ FlattenSeq(q) \in Seq(S)
           /\ \A b \in Seq(S) : FlattenSeq(Append(q, b)) = FlattenSeq(q) \o b
           /\ q # <<>> => FlattenSeq(q) = Head(q) \o FlattenSeq(Tail(q))
<1> DEFINE Flat(s, f) ==
        f = [i \in 1..Len(s) |-> IF i = 1 THEN s[i] ELSE f[i - 1] \o s[i]]
<1>0. \A x, y, z \in Seq(S) : (x \o y) \o z = x \o (y \o z)
  BY ConcatAssoc
<1>1. FlattenSeq(<<>>) = <<>>
  BY DEF FlattenSeq
<1>2. ASSUME NEW s \in Seq(Seq(S)), NEW n \in Nat \ {0}, n = Len(s)
      PROVE  \E f : Flat(s, f)
  <2>1. \A i \in 1..n : s[i] \in Seq(S)
    BY <1>2, ElementOfSeq
  <2>2. \E F \in [1..n -> [Seq(S) -> Seq(S)]] :
            \A i \in 1..n, x \in Seq(S) : F[i][x] = x \o s[i]
    <3> DEFINE F == [i \in 1..n |-> [x \in Seq(S) |-> x \o s[i]]]
    <3>1. F \in [1..n -> [Seq(S) -> Seq(S)]]
      BY <2>1
    <3>2. \A i \in 1..n, x \in Seq(S) : F[i][x] = x \o s[i]
      OBVIOUS
    <3> QED BY <3>1, <3>2
  <2>3. PICK F \in [1..n -> [Seq(S) -> Seq(S)]] :
            \A i \in 1..n, x \in Seq(S) : F[i][x] = x \o s[i]
    BY <2>2
  <2>4. <<>> \in Seq(S) /\ n \in Nat
    OBVIOUS
  <2>5. \E g \in [0..n -> Seq(S)] :
            g[0] = <<>> /\ \A i \in 1..n : g[i] = F[i][g[i - 1]]
    <3> DEFINE T == Seq(S)
    <3>1. <<>> \in T /\ F \in [1..n -> [T -> T]]
      BY <2>4
    <3> HIDE DEF T
    <3>2. Recursion(T, <<>>, n, F)
      BY <3>1, <2>4, RecursionExists
    <3> QED BY <3>2 DEF T, Recursion
  <2>6. PICK g \in [0..n -> Seq(S)] :
            g[0] = <<>> /\ \A i \in 1..n : g[i] = F[i][g[i - 1]]
    BY <2>5
  <2> DEFINE f == [i \in 1..n |-> g[i]]
  <2>7. ASSUME NEW i \in 1..n
        PROVE  f[i] = IF i = 1 THEN s[i] ELSE f[i - 1] \o s[i]
    <3>0. i - 1 \in 0..n
      OBVIOUS
    <3>1. g[i - 1] \in Seq(S) /\ g[i] = g[i - 1] \o s[i] /\ s[i] \in Seq(S)
      BY <3>0, <2>1, <2>3, <2>6, Zenon
    <3>2. CASE i = 1
      <4>1. g[i] = <<>> \o s[i]
        <5>1. i - 1 = 0
          BY <3>2
        <5> QED BY <5>1, <3>1, <2>6, Zenon
      <4> QED BY <3>1, <3>2, <4>1
    <3>3. CASE i # 1
      <4>1. i - 1 \in 1..n
        BY <3>3
      <4> QED BY <4>1, <3>1, <3>3
    <3> QED BY <3>2, <3>3
  <2>8. Flat(s, f)
    BY <2>7, <1>2
  <2> QED BY <2>8
<1>3. ASSUME NEW s \in Seq(Seq(S)), NEW n \in Nat \ {0}, n = Len(s)
      PROVE  \E f \in [1..n -> Seq(S)] :
                 /\ FlattenSeq(s) = f[n]
                 /\ f[1] = s[1]
                 /\ \A i \in 2..n : f[i] = f[i - 1] \o s[i]
  <2> DEFINE c == CHOOSE h : Flat(s, h)
  <2>1. Flat(s, c)
    BY <1>2, <1>3
  <2>2. FlattenSeq(s) = c[n]
    BY <1>3 DEF FlattenSeq
  <2> HIDE DEF c
  <2>3. c[1] = s[1] /\ \A i \in 2..n : c[i] = c[i - 1] \o s[i]
    <3>1. ASSUME NEW i \in 1..n
          PROVE  c[i] = IF i = 1 THEN s[i] ELSE c[i - 1] \o s[i]
      BY <2>1, <1>3, Zenon
    <3>2. 1 \in 1..n /\ \A i \in 2..n : i \in 1..n /\ i # 1
      OBVIOUS
    <3> QED BY <3>1, <3>2, Zenon
  <2>4. DOMAIN c = 1..n /\ c = [i \in 1..n |-> c[i]]
    BY <2>1, <1>3
  <2> DEFINE P == {i \in Nat : i + 1 <= n => c[i + 1] \in Seq(S)}
  <2>5. \A i \in 1..n : s[i] \in Seq(S)
    BY <1>3, ElementOfSeq
  <2>6. 0 \in P
    BY <2>3, <2>5
  <2>7. ASSUME NEW i \in Nat, i \in P PROVE i + 1 \in P
    <3> SUFFICES ASSUME i + 2 <= n PROVE c[i + 2] \in Seq(S)
      OBVIOUS
    <3>1. c[i + 1] \in Seq(S) /\ s[i + 2] \in Seq(S)
      BY <2>5, <2>7
    <3>2. i + 2 \in 2..n /\ (i + 2) - 1 = i + 1
      OBVIOUS
    <3>3. c[i + 2] = c[i + 1] \o s[i + 2]
      BY <2>3, <3>2
    <3> QED BY <3>1, <3>3
  <2>8. Nat \subseteq P
    <3> HIDE DEF P
    <3> QED BY <2>6, <2>7, NatSetInduction
  <2>9. ASSUME NEW i \in 1..n PROVE c[i] \in Seq(S)
    <3>1. i - 1 \in Nat /\ (i - 1) + 1 = i /\ i <= n
      OBVIOUS
    <3> QED BY <3>1, <2>8
  <2>10. c \in [1..n -> Seq(S)]
    BY <2>4, <2>9
  <2> QED BY <2>2, <2>3, <2>10
<1>4. ASSUME NEW s \in Seq(Seq(S)) PROVE FlattenSeq(s) \in Seq(S)
  <2>1. CASE s = <<>>
    <3>1. <<>> \in Seq(S)
      OBVIOUS
    <3> QED BY <3>1, <2>1, <1>1, Zenon
  <2>2. CASE s # <<>>
    <3>1. Len(s) \in Nat \ {0}
      BY <2>2, EmptySeq
    <3>2. PICK f \in [1..Len(s) -> Seq(S)] : FlattenSeq(s) = f[Len(s)]
      BY <1>3, <3>1
    <3>3. Len(s) \in 1..Len(s)
      BY <3>1
    <3> QED BY <3>2, <3>3, Zenon
  <2> QED BY <2>1, <2>2
<1>5. ASSUME NEW s \in Seq(Seq(S)), NEW b \in Seq(S)
      PROVE  FlattenSeq(Append(s, b)) = FlattenSeq(s) \o b
  <2> DEFINE n == Len(s) + 1
  <2>1. Append(s, b) \in Seq(Seq(S)) /\ n = Len(Append(s, b)) /\ n \in Nat \ {0}
        /\ Append(s, b)[n] = b /\ \A i \in 1..n - 1 : Append(s, b)[i] = s[i]
    OBVIOUS
  <2> HIDE DEF n
  <2>2. PICK g \in [1..n -> Seq(S)] :
            /\ FlattenSeq(Append(s, b)) = g[n]
            /\ g[1] = Append(s, b)[1]
            /\ \A i \in 2..n : g[i] = g[i - 1] \o Append(s, b)[i]
    BY <2>1, <1>3
  <2>3. CASE s = <<>>
    <3>1. n = 1 /\ FlattenSeq(Append(s, b)) = b
      BY <2>3, <2>1, <2>2 DEF n
    <3> QED BY <3>1, <2>3, <1>1
  <2>4. CASE s # <<>>
    <3>1. n - 1 = Len(s) /\ n - 1 \in Nat \ {0}
      BY <2>4, EmptySeq DEF n
    <3>2. PICK f \in [1..n - 1 -> Seq(S)] :
              /\ FlattenSeq(s) = f[n - 1]
              /\ f[1] = s[1]
              /\ \A i \in 2..n - 1 : f[i] = f[i - 1] \o s[i]
      BY <3>1, <1>3
    <3> DEFINE P == {i \in Nat : i + 1 <= n - 1 => f[i + 1] = g[i + 1]}
    <3>3. 0 \in P
      BY <2>1, <2>2, <3>1, <3>2
    <3>4. ASSUME NEW i \in Nat, i \in P PROVE i + 1 \in P
      <4> SUFFICES ASSUME i + 2 <= n - 1 PROVE f[i + 2] = g[i + 2]
        OBVIOUS
      <4>1. i + 2 \in 2..n - 1 /\ i + 2 \in 2..n /\ (i + 2) - 1 = i + 1
            /\ i + 2 \in 1..n - 1
        BY <2>1
      <4>2. f[i + 2] = f[i + 1] \o s[i + 2] /\ g[i + 2] = g[i + 1] \o s[i + 2]
        BY <4>1, <3>2, <2>2, <2>1
      <4>3. f[i + 1] = g[i + 1]
        BY <3>4, <2>1
      <4> QED BY <4>2, <4>3
    <3>5. Nat \subseteq P
      <4> HIDE DEF P
      <4> QED BY <3>3, <3>4, NatSetInduction
    <3>6. n - 2 \in Nat /\ (n - 2) + 1 = n - 1
      BY <3>1, <2>1
    <3>7. f[n - 1] = g[n - 1]
      BY <3>5, <3>6
    <3>8. n \in 2..n
      BY <3>6, <2>1
    <3> QED BY <3>2, <3>7, <3>8, <2>2, <2>1
  <2> QED BY <2>3, <2>4
<1>6. ASSUME q # <<>> PROVE FlattenSeq(q) = Head(q) \o FlattenSeq(Tail(q))
  <2> DEFINE P == {s \in Seq(Seq(S)) :
                     s # <<>> => FlattenSeq(s) = Head(s) \o FlattenSeq(Tail(s))}
  <2>1. <<>> \in P
    OBVIOUS
  <2>2. ASSUME NEW s \in Seq(Seq(S)), NEW b \in Seq(S), s \in P
        PROVE  Append(s, b) \in P
    <3>1. CASE s = <<>>
      <4>1. Append(s, b) = <<b>> /\ Head(<<b>>) = b /\ Tail(<<b>>) = <<>>
        BY <3>1
      <4>2. FlattenSeq(Append(s, b)) = <<>> \o b
        BY <1>1, <1>5, <3>1
      <4>3. <<>> \o b = b /\ b \o <<>> = b
        BY ConcatEmptySeq
      <4> QED BY <4>1, <4>2, <4>3, <1>1, SMTT(30), ZenonT(30)
    <3>2. CASE s # <<>>
      <4>1. Head(s) \in Seq(S) /\ Tail(s) \in Seq(Seq(S))
            /\ Head(Append(s, b)) = Head(s)
            /\ Tail(Append(s, b)) = Append(Tail(s), b)
        BY <3>2
      <4>2. FlattenSeq(Tail(s)) \in Seq(S)
        BY <4>1, <1>4
      <4>3. FlattenSeq(Append(s, b)) = (Head(s) \o FlattenSeq(Tail(s))) \o b
        BY <2>2, <3>2, <1>5
      <4>4. FlattenSeq(Append(Tail(s), b)) = FlattenSeq(Tail(s)) \o b
        BY <4>1, <1>5
      <4>5. (Head(s) \o FlattenSeq(Tail(s))) \o b
            = Head(s) \o (FlattenSeq(Tail(s)) \o b)
        BY <4>1, <4>2, <1>0, Zenon
      <4>6. FlattenSeq(Append(s, b))
            = Head(Append(s, b)) \o FlattenSeq(Tail(Append(s, b)))
        BY <4>1, <4>3, <4>4, <4>5, Zenon
      <4>7. Append(s, b) \in Seq(Seq(S))
        OBVIOUS
      <4> QED BY <4>6, <4>7, Zenon
    <3> QED BY <3>1, <3>2
  <2>3. Seq(Seq(S)) \subseteq P
    <3> HIDE DEF P
    <3> QED BY <2>1, <2>2, SeqSetInduction
  <2> QED BY <2>3, <1>6
<1> QED BY <1>1, <1>4, <1>5, <1>6
============================================================================
