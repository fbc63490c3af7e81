----------------------------- MODULE Rcf_proofs -----------------------------
(***************************************************************************)
(* What a walk over an animation file's size words computes, for a file of *)
(* any length.  Start is a recursive function; that it is the function its *)
(* equation describes, and every fact about all its values, is proved by   *)
(* induction from the least element of a set of numbers.                   *)
(***************************************************************************)
EXTENDS Rcf, WellFoundedInduction, TLAPS

(* A set of numbers that is not empty has a least one. *)
LEMMA LeastNat ==
    ASSUME NEW T, T \subseteq Nat, T # {}
    PROVE  \E m \in T : \A k \in T : m <= k
<1>1. PICK m \in T : \A k \in T : ~(<<k, m>> \in OpToRel(<, Nat))
  <2>1. IsWellFoundedOn(OpToRel(<, Nat), Nat) BY NatLessThanWellFounded
  <2> DEFINE R == OpToRel(<, Nat)
  <2> HIDE DEF R
  <2>2. IsWellFoundedOn(R, Nat) BY <2>1 DEF R
  <2>3. \E x \in T : \A y \in T : ~ (<<y, x>> \in R) BY <2>2, WFMin
  <2> QED BY <2>3 DEF R
<1>2. ASSUME NEW k \in T PROVE m <= k
  <2>1. ~(<<k, m>> \in {ss \in Nat \X Nat : ss[1] < ss[2]}) BY <1>1 DEF OpToRel
  <2>2. ~(k < m) BY <2>1
  <2> QED BY <2>2
<1> QED BY <1>2

(* Induction, over a set in place of a predicate. *)
LEMMA Induct ==
    ASSUME NEW S, 0 \in S, \A n \in Nat : n \in S => n + 1 \in S
    PROVE  Nat \subseteq S
<1> SUFFICES ASSUME Nat \ S # {} PROVE FALSE OBVIOUS
<1>1. PICK m \in Nat \ S : \A k \in Nat \ S : m <= k BY LeastNat
<1>2. m # 0 /\ m - 1 \in Nat BY <1>1
<1>3. m - 1 \in S BY <1>1, <1>2
<1> QED BY <1>2, <1>3

(* The first n steps of an iteration of f from a. *)
UpTo(A, a, f, n, g) ==
    /\ g \in [0 .. n -> A] /\ g[0] = a
    /\ \A i \in 0 .. n - 1 : g[i + 1] = f[g[i]]

IsStep(A, a, f) == a \in A /\ f \in [A -> A]
Iterates(A, a, f, s) == s \in [Nat -> A] /\ s[0] = a /\ \A i \in Nat : s[i + 1] = f[s[i]]

(* An iteration exists: the pieces of every length agree. *)
LEMMA Recursion == \A A, a, f : IsStep(A, a, f) => \E s : Iterates(A, a, f, s)
<1> SUFFICES ASSUME NEW A, NEW a, NEW f, IsStep(A, a, f) PROVE \E s : Iterates(A, a, f, s)
  OBVIOUS
<1>0. a \in A /\ f \in [A -> A] BY DEF IsStep
<1> DEFINE S == {n \in Nat : \E g : UpTo(A, a, f, n, g)}
<1>1. Nat \subseteq S
  <2>1. 0 \in S
    <3>1. UpTo(A, a, f, 0, [i \in 0 .. 0 |-> a]) BY <1>0 DEF UpTo
    <3> QED BY <3>1
  <2>2. ASSUME NEW n \in Nat, n \in S PROVE n + 1 \in S
    <3>1. PICK g : UpTo(A, a, f, n, g) BY <2>2
    <3> DEFINE h == [i \in 0 .. n + 1 |-> IF i = n + 1 THEN f[g[n]] ELSE g[i]]
    <3>2. /\ \A i \in 0 .. n : i \in 0 .. n + 1 /\ i # n + 1 /\ g[i] \in A
          /\ n + 1 \in 0 .. n + 1 /\ n \in 0 .. n /\ 0 \in 0 .. n
      BY <3>1 DEF UpTo
    <3>3. \A i \in 0 .. n : h[i] = g[i] BY <3>2
    <3>4. h[n + 1] = f[g[n]] BY <3>2
    <3>5. h \in [0 .. n + 1 -> A]
      <4>1. \A i \in 0 .. n + 1 : i = n + 1 \/ i \in 0 .. n OBVIOUS
      <4>2. f[g[n]] \in A BY <1>0, <3>2
      <4> QED BY <4>1, <4>2, <3>2
    <3>6. \A i \in 0 .. n + 1 - 1 : h[i + 1] = f[h[i]]
      <4>1. \A i \in 0 .. n : i = n \/ (i \in 0 .. n - 1 /\ i + 1 \in 0 .. n) OBVIOUS
      <4> HIDE DEF h
      <4>2. ASSUME NEW i \in 0 .. n PROVE h[i + 1] = f[h[i]]
        <5>1. CASE i = n BY <5>1, <3>2, <3>3, <3>4
        <5>2. CASE i \in 0 .. n - 1 /\ i + 1 \in 0 .. n BY <5>2, <3>1, <3>3 DEF UpTo
        <5> QED BY <4>1, <5>1, <5>2
      <4> QED BY <4>2
    <3>7. UpTo(A, a, f, n + 1, h)
      <4>1. h[0] = a BY <3>1, <3>2, <3>3 DEF UpTo
      <4> HIDE DEF h
      <4> QED BY <4>1, <3>5, <3>6 DEF UpTo
    <3> QED BY <3>7
  <2> HIDE DEF S
  <2> QED BY <2>1, <2>2, Induct
<1> DEFINE T == {i \in Nat : \A n, m \in Nat : \A g, h :
                   UpTo(A, a, f, n, g) /\ UpTo(A, a, f, m, h) /\ i <= n /\ i <= m => g[i] = h[i]}
<1>2. Nat \subseteq T
  <2>1. 0 \in T BY DEF UpTo
  <2>2. ASSUME NEW i \in Nat, i \in T PROVE i + 1 \in T
    <3> SUFFICES ASSUME NEW n \in Nat, NEW m \in Nat, NEW g, NEW h,
                        UpTo(A, a, f, n, g), UpTo(A, a, f, m, h), i + 1 <= n, i + 1 <= m
                 PROVE  g[i + 1] = h[i + 1]
      OBVIOUS
    <3>1. g[i] = h[i] BY <2>2
    <3>2. i \in 0 .. n - 1 /\ i \in 0 .. m - 1 OBVIOUS
    <3> QED BY <3>1, <3>2 DEF UpTo
  <2> HIDE DEF T
  <2> QED BY <2>1, <2>2, Induct
<1> DEFINE G == [i \in Nat |-> CHOOSE g : UpTo(A, a, f, i, g)]
<1> DEFINE s == [i \in Nat |-> G[i][i]]
<1>3. ASSUME NEW i \in Nat PROVE UpTo(A, a, f, i, G[i])
  <2>1. \E g : UpTo(A, a, f, i, g) BY <1>1
  <2> QED BY <2>1
<1>4. \A i \in Nat : s[i] = G[i][i] OBVIOUS
<1> HIDE DEF G
<1>5. s \in [Nat -> A] BY <1>3 DEF UpTo
<1>6. s[0] = a BY <1>3 DEF UpTo
<1>7. ASSUME NEW i \in Nat PROVE s[i + 1] = f[s[i]]
  <2>1. UpTo(A, a, f, i, G[i]) /\ UpTo(A, a, f, i + 1, G[i + 1]) BY <1>3
  <2>2. G[i + 1][i] = G[i][i] BY <1>2, <2>1
  <2>3. G[i + 1][i + 1] = f[G[i + 1][i]] BY <2>1 DEF UpTo
  <2> QED BY <2>2, <2>3, <1>4
<1> QED BY <1>5, <1>6, <1>7 DEF Iterates

(* A body is a sequence of units; offsets in it are numbers. *)
LEMMA AfterNat ==
    ASSUME NEW b \in Seq(Unit), NEW o \in Nat
    PROVE  SizeAt(b, o) \in Nat /\ After(b, o) \in Nat /\ After(b, o) > o
<1>1. SizeAt(b, o) \in Nat
  <2>1. CASE o + 1 \in 1 .. Len(b)
    <3>1. b[o + 1] \in Unit BY <2>1
    <3> QED BY <3>1 DEF SizeAt, Unit
  <2>2. CASE ~(o + 1 \in 1 .. Len(b)) BY <2>2 DEF SizeAt
  <2> QED BY <2>1, <2>2
<1> QED BY <1>1 DEF After

(* The frames start behind the logo. *)
FirstOffset(b, logo) == IF logo THEN After(b, 0) ELSE 0

(* Start satisfies the recursion it is defined by, and its values are numbers. *)
LEMMA StartUnfolds ==
    ASSUME NEW b \in Seq(Unit), NEW logo \in BOOLEAN
    PROVE  /\ Start(b, logo) \in [Nat -> Nat]
           /\ Start(b, logo)[0] = FirstOffset(b, logo)
           /\ \A i \in Nat : Start(b, logo)[i + 1] = After(b, Start(b, logo)[i])
<1>1. FirstOffset(b, logo) \in Nat /\ \A o \in Nat : After(b, o) \in Nat
  BY AfterNat DEF FirstOffset
<1>a. PICK a : a = FirstOffset(b, logo) OBVIOUS
<1>f. PICK f : f = [o \in Nat |-> After(b, o)] OBVIOUS
<1>2. PICK s \in [Nat -> Nat] : s[0] = a /\ \A i \in Nat : s[i + 1] = f[s[i]]
  <2>1. IsStep(Nat, a, f) BY <1>1, <1>a, <1>f DEF IsStep
  <2>2. PICK s : Iterates(Nat, a, f, s) BY <2>1, Recursion
  <2> QED BY <2>2 DEF Iterates
<1>3. \A i \in Nat : s[i + 1] = After(b, s[i]) BY <1>2, <1>f
<1> DEFINE Rec(t) == t = [i \in Nat |-> IF i = 0 THEN (IF logo THEN After(b, 0) ELSE 0) ELSE After(b, t[i - 1])]
<1>4. Rec(s)
  <2> DEFINE r == [i \in Nat |-> IF i = 0 THEN (IF logo THEN After(b, 0) ELSE 0) ELSE After(b, s[i - 1])]
  <2>1. ASSUME NEW i \in Nat PROVE s[i] = r[i]
    <3>1. CASE i = 0 BY <3>1, <1>2, <1>a DEF FirstOffset
    <3>2. CASE i # 0
      <4>1. i - 1 \in Nat /\ (i - 1) + 1 = i BY <3>2
      <4> QED BY <4>1, <1>3, <3>2
    <3> QED BY <3>1, <3>2
  <2>2. s = [i \in Nat |-> s[i]] OBVIOUS
  <2> QED BY <2>1, <2>2
<1>5. Start(b, logo) = CHOOSE t : Rec(t) BY DEF Start
<1>6. Rec(Start(b, logo)) BY <1>4, <1>5
<1> DEFINE t == Start(b, logo)
<1>7. t = [i \in Nat |-> IF i = 0 THEN (IF logo THEN After(b, 0) ELSE 0) ELSE After(b, t[i - 1])]
  BY <1>6
<1> HIDE DEF t
<1>8. t[0] = FirstOffset(b, logo) BY <1>7 DEF FirstOffset
<1>9. ASSUME NEW i \in Nat PROVE t[i + 1] = After(b, t[i])
  <2>1. i + 1 \in Nat /\ i + 1 # 0 /\ (i + 1) - 1 = i OBVIOUS
  <2> QED BY <1>7, <2>1
<1> DEFINE N == {i \in Nat : t[i] \in Nat}
<1>10. 0 \in N BY <1>8, <1>1
<1>11. ASSUME NEW i \in Nat, i \in N PROVE i + 1 \in N
  <2>1. t[i] \in Nat BY <1>11
  <2>2. t[i + 1] \in Nat BY <1>9, <2>1, AfterNat
  <2> QED BY <2>2
<1>12. Nat \subseteq N
  <2> HIDE DEF N
  <2> QED BY <1>10, <1>11, Induct
<1>13. t \in [Nat -> Nat] BY <1>7, <1>12
<1> QED BY <1>8, <1>9, <1>13 DEF t

(* A walk takes at least one unit for each frame. *)
LEMMA StartGrows ==
    ASSUME NEW b \in Seq(Unit), NEW logo \in BOOLEAN
    PROVE  \A i \in Nat : Start(b, logo)[i] \in Nat /\ Start(b, logo)[i] >= i
<1> DEFINE s == Start(b, logo)
           S == {i \in Nat : s[i] >= i}
<1>1. s \in [Nat -> Nat] /\ \A i \in Nat : s[i + 1] = After(b, s[i]) BY StartUnfolds
<1> HIDE DEF s
<1>2. 0 \in S BY <1>1
<1>3. ASSUME NEW i \in Nat, i \in S PROVE i + 1 \in S
  <2>1. s[i] \in Nat /\ s[i] >= i BY <1>1, <1>3
  <2>2. s[i + 1] \in Nat /\ s[i + 1] > s[i] BY <1>1, <2>1, AfterNat
  <2> QED BY <2>1, <2>2
<1>4. Nat \subseteq S
  <2> HIDE DEF S
  <2> QED BY <1>2, <1>3, Induct
<1> QED BY <1>1, <1>4 DEF s

(* Each stream begins behind the ones before it. *)
LEMMA StartStrict ==
    ASSUME NEW b \in Seq(Unit), NEW logo \in BOOLEAN, NEW i \in Nat
    PROVE  \A j \in Nat : i < j => Start(b, logo)[i] < Start(b, logo)[j]
<1> DEFINE s == Start(b, logo)
           S == {j \in Nat : i < j => s[i] < s[j]}
<1>1. s \in [Nat -> Nat] /\ \A k \in Nat : s[k + 1] = After(b, s[k]) BY StartUnfolds
<1> HIDE DEF s
<1>2. 0 \in S OBVIOUS
<1>3. ASSUME NEW j \in Nat, j \in S PROVE j + 1 \in S
  <2>1. s[j] \in Nat /\ s[j + 1] \in Nat /\ s[i] \in Nat /\ s[j + 1] > s[j] BY <1>1, AfterNat
  <2>2. i < j + 1 => i = j \/ i < j OBVIOUS
  <2> QED BY <1>3, <2>1, <2>2
<1>4. Nat \subseteq S
  <2> HIDE DEF S
  <2> QED BY <1>2, <1>3, Induct
<1> QED BY <1>4 DEF s

(***************************************************************************)
(* A body that is appended to.                                             *)
(***************************************************************************)
Prefixed(b, d) ==
    /\ b \in Seq(Unit) /\ d \in Seq(Unit) /\ Len(b) <= Len(d)
    /\ \A k \in 1 .. Len(b) : d[k] = b[k]

(* d is b with a size word and a stream of that size behind it. *)
WithStream(b, d, i, n) ==
    /\ Prefixed(b, d) /\ n \in Nat
    /\ Len(d) = Len(b) + 1 + n
    /\ d[Len(b) + 1] = Word(n)
    /\ \A k \in 1 .. n : d[Len(b) + 1 + k] = Piece(i, k)

(* What lies in the body stays where it is. *)
LEMMA SizeKept ==
    ASSUME NEW b, NEW d, Prefixed(b, d), NEW o \in Nat, o < Len(b)
    PROVE  SizeAt(d, o) = SizeAt(b, o) /\ After(d, o) = After(b, o)
<1>1. Len(b) \in Nat /\ Len(d) \in Nat BY DEF Prefixed
<1>2. o + 1 \in 1 .. Len(b) /\ o + 1 \in 1 .. Len(d) BY <1>1 DEF Prefixed
<1>3. d[o + 1] = b[o + 1] BY <1>2 DEF Prefixed
<1>4. SizeAt(d, o) = SizeAt(b, o) BY <1>2, <1>3 DEF SizeAt
<1> QED BY <1>4 DEF After

(* So does a whole stream. *)
LEMMA FrameKept ==
    ASSUME NEW b, NEW d, Prefixed(b, d), NEW o \in Nat, o < Len(b), NEW i, FrameAt(b, o, i)
    PROVE  FrameAt(d, o, i)
<1>0. b \in Seq(Unit) /\ Len(b) \in Nat /\ Len(d) \in Nat /\ Len(b) <= Len(d) BY DEF Prefixed
<1>1. SizeAt(d, o) = SizeAt(b, o) /\ After(d, o) = After(b, o) BY SizeKept
<1>2. SizeAt(b, o) \in Nat /\ After(b, o) \in Nat BY <1>0, AfterNat
<1>3. After(d, o) <= Len(d) BY <1>0, <1>1, <1>2 DEF FrameAt
<1>4. ASSUME NEW k \in 1 .. SizeAt(b, o) PROVE d[o + 1 + k] = Piece(i, k)
  <2>1. o + 1 + k \in 1 .. Len(b) BY <1>0, <1>2 DEF FrameAt, After
  <2>2. d[o + 1 + k] = b[o + 1 + k] BY <2>1 DEF Prefixed
  <2> QED BY <2>2 DEF FrameAt
<1> QED BY <1>1, <1>3, <1>4 DEF FrameAt

(* The elements of a concatenation. *)
LEMMA Concat ==
    ASSUME NEW v \in Seq(Unit), NEW f \in Seq(Unit)
    PROVE  /\ v \o f \in Seq(Unit) /\ Len(v \o f) = Len(v) + Len(f)
           /\ \A k \in 1 .. Len(v) : (v \o f)[k] = v[k]
           /\ \A k \in 1 .. Len(f) : (v \o f)[Len(v) + k] = f[k]
<1>1. Len(v) \in Nat /\ Len(f) \in Nat OBVIOUS
<1>2. v \o f \in Seq(Unit) /\ Len(v \o f) = Len(v) + Len(f) OBVIOUS
<1>3. ASSUME NEW k \in 1 .. Len(v) PROVE (v \o f)[k] = v[k] BY <1>1
<1>4. ASSUME NEW k \in 1 .. Len(f) PROVE (v \o f)[Len(v) + k] = f[k]
  <2>1. /\ Len(v) + k \in 1 .. Len(v) + Len(f) /\ ~(Len(v) + k <= Len(v))
        /\ (Len(v) + k) - Len(v) = k
    BY <1>1
  <2> QED BY <2>1
<1> QED BY <1>2, <1>3, <1>4

(* A walk that ends where b ends finds the same places in d. *)
LEMMA StartKept ==
    ASSUME NEW b, NEW d, Prefixed(b, d), NEW logo \in BOOLEAN, NEW j \in Nat,
           Start(b, logo)[j] = Len(b)
    PROVE  \A i \in 0 .. j : Start(d, logo)[i] = Start(b, logo)[i]
<1>0. b \in Seq(Unit) /\ d \in Seq(Unit) /\ Len(b) \in Nat BY DEF Prefixed
<1> DEFINE s == Start(b, logo)
           t == Start(d, logo)
           S == {i \in Nat : i <= j => t[i] = s[i]}
<1>1. /\ s \in [Nat -> Nat] /\ s[0] = FirstOffset(b, logo) /\ s[j] = Len(b)
      /\ \A i \in Nat : s[i + 1] = After(b, s[i])
      /\ \A i \in Nat : i < j => s[i] < s[j]
  BY <1>0, StartUnfolds, StartStrict
<1>2. t[0] = FirstOffset(d, logo) /\ \A i \in Nat : t[i + 1] = After(d, t[i])
  BY <1>0, StartUnfolds
<1> HIDE DEF s, t
<1>3. 0 \in S
  <2>1. CASE logo
    <3>1. s[0] = After(b, 0) BY <1>1, <2>1 DEF FirstOffset
    <3>2. s[0] > 0 BY <1>0, <3>1, AfterNat
    <3>3. s[0] <= s[j]
      <4>1. s[0] \in Nat /\ s[j] \in Nat BY <1>1
      <4>2. CASE j = 0 BY <4>1, <4>2
      <4>3. CASE j # 0
        <5>1. 0 < j BY <4>3
        <5>2. s[0] < s[j] BY <1>1, <5>1
        <5> QED BY <4>1, <5>2
      <4> QED BY <4>2, <4>3
    <3>4. 0 < Len(b) BY <1>1, <3>2, <3>3
    <3>5. After(d, 0) = After(b, 0) BY <3>4, SizeKept
    <3> QED BY <1>2, <2>1, <3>1, <3>5 DEF FirstOffset
  <2>2. CASE ~logo BY <1>1, <1>2, <2>2 DEF FirstOffset
  <2> QED BY <2>1, <2>2
<1>4. ASSUME NEW i \in Nat, i \in S PROVE i + 1 \in S
  <2> SUFFICES ASSUME i + 1 <= j PROVE t[i + 1] = s[i + 1] OBVIOUS
  <2>1. t[i] = s[i] /\ i < j BY <1>4
  <2>2. s[i] \in Nat /\ s[i] < Len(b) BY <1>1, <2>1
  <2>3. After(d, s[i]) = After(b, s[i]) BY <2>2, SizeKept
  <2> QED BY <1>1, <1>2, <2>1, <2>3
<1>5. Nat \subseteq S
  <2> HIDE DEF S
  <2> QED BY <1>3, <1>4, Induct
<1> QED BY <1>5 DEF s, t

(* The stream that was appended is there. *)
LEMMA StreamThere ==
    ASSUME NEW b, NEW d, NEW i, NEW n, WithStream(b, d, i, n)
    PROVE  SizeAt(d, Len(b)) = n /\ After(d, Len(b)) = Len(d) /\ (n > 0 => FrameAt(d, Len(b), i))
<1>0. b \in Seq(Unit) /\ d \in Seq(Unit) /\ Len(b) \in Nat /\ Len(d) = Len(b) + 1 + n /\ n \in Nat
  BY DEF WithStream, Prefixed
<1>1. Len(b) + 1 \in 1 .. Len(d) BY <1>0
<1>2. d[Len(b) + 1].kind = "size" /\ d[Len(b) + 1].n = n BY DEF WithStream, Word
<1>3. SizeAt(d, Len(b)) = n BY <1>1, <1>2 DEF SizeAt
<1>4. After(d, Len(b)) = Len(d) BY <1>0, <1>3 DEF After
<1>5. n > 0 => FrameAt(d, Len(b), i)
  <2> SUFFICES ASSUME n > 0 PROVE FrameAt(d, Len(b), i) OBVIOUS
  <2>1. \A k \in 1 .. n : d[Len(b) + 1 + k] = Piece(i, k) BY DEF WithStream
  <2>2. Len(d) <= Len(d) BY <1>0
  <2> QED BY <1>3, <1>4, <2>1, <2>2 DEF FrameAt
<1> QED BY <1>3, <1>4, <1>5
=============================================================================
