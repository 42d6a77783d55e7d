--------------------------- MODULE SequenceLemmas ---------------------------
(***************************************************************************)
(* What Append, Tail and RemoveAt do to a queue, for the proofs about the  *)
(* modules that keep one; and induction over the places of a sequence,     *)
(* with what FoldLeft computes, for those that fold over one.              *)
(***************************************************************************)
EXTENDS Integers, Sequences, SequencesExt, SequenceTheorems, FiniteSetTheorems, WellFoundedInduction, TLAPS

\* A queue with a message appended.
LEMMA Appended ==
  ASSUME NEW S, NEW q \in Seq(S), NEW m \in S
  PROVE  /\ Append(q, m) \in Seq(S) /\ Append(q, m) # <<>> /\ Len(Append(q, m)) = Len(q) + 1 /\ Len(q) \in Nat
         /\ \A i \in 1 .. Len(q) : Append(q, m)[i] = q[i]
         /\ Append(q, m)[Len(q) + 1] = m
         /\ q = <<>> => Append(q, m)[1] = m
         /\ q # <<>> => Append(q, m)[1] = q[1]
<1>1. Len(q) \in Nat /\ (q = <<>> <=> Len(q) = 0)
  BY EmptySeq, LenProperties
<1>2. /\ Append(q, m) \in Seq(S) /\ Append(q, m) # <<>> /\ Len(Append(q, m)) = Len(q) + 1
      /\ \A i \in 1 .. Len(q) : Append(q, m)[i] = q[i]
      /\ Append(q, m)[Len(q) + 1] = m
  BY AppendProperties
<1>3. QED
  BY <1>1, <1>2

\* A queue without its first message.
LEMMA Taken ==
  ASSUME NEW S, NEW q \in Seq(S), q # <<>>
  PROVE  /\ Tail(q) \in Seq(S) /\ Head(q) \in S /\ Head(q) = q[1]
         /\ Len(q) \in Nat /\ Len(q) >= 1 /\ Len(Tail(q)) = Len(q) - 1
         /\ \A i \in 1 .. Len(q) - 1 : Tail(q)[i] = q[i + 1]
<1>1. Len(q) \in Nat /\ Len(q) # 0
  BY EmptySeq, LenProperties
<1>2. /\ Tail(q) \in Seq(S) /\ Head(q) \in S /\ Len(Tail(q)) = Len(q) - 1
      /\ \A i \in 1 .. Len(Tail(q)) : Tail(q)[i] = q[i + 1]
  BY HeadTailProperties
<1>3. Head(q) = q[1]
  BY <1>1
<1>4. QED
  BY <1>1, <1>2, <1>3

\* What RemoveAt does to a sequence.
LEMMA Removed ==
  ASSUME NEW S, NEW s \in Seq(S), NEW k \in 1 .. Len(s)
  PROVE  /\ RemoveAt(s, k) \in Seq(S)
         /\ Len(RemoveAt(s, k)) = Len(s) - 1
         /\ \A i \in 1 .. Len(s) - 1 : RemoveAt(s, k)[i] = s[IF i < k THEN i ELSE i + 1]
<1> DEFINE a == SubSeq(s, 1, k - 1)
           b == SubSeq(s, k + 1, Len(s))
<1>1. Len(s) \in Nat /\ k \in Nat /\ \A i \in 1 .. Len(s) : s[i] \in S
  BY LenProperties, ElementOfSeq
<1>2. /\ a \in Seq(S) /\ Len(a) = k - 1
      /\ \A i \in 1 .. k - 1 : a[i] = s[i]
  BY <1>1, SubSeqProperties
<1>3. /\ b \in Seq(S) /\ Len(b) = Len(s) - k
      /\ \A i \in 1 .. Len(s) - k : b[i] = s[k + i]
  <2>1. \A i \in k + 1 .. Len(s) : s[i] \in S
    BY <1>1
  <2>2. /\ b \in Seq(S)
        /\ Len(b) = IF k + 1 <= Len(s) THEN Len(s) - (k + 1) + 1 ELSE 0
        /\ \A i \in 1 .. Len(s) - (k + 1) + 1 : b[i] = s[k + 1 + i - 1]
    BY <1>1, <2>1, SubSeqProperties
  <2>3. QED
    BY <1>1, <2>2
<1> HIDE DEF a, b
<1>4. a \o b \in Seq(S) /\ Len(a \o b) = Len(a) + Len(b)
  BY <1>2, <1>3, ConcatProperties
<1>5. \A i \in 1 .. Len(s) - 1 : (a \o b)[i] = s[IF i < k THEN i ELSE i + 1]
  <2> TAKE i \in 1 .. Len(s) - 1
  <2>1. CASE i < k
    <3>1. i \in 1 .. Len(a)
      BY <1>1, <1>2, <2>1
    <3>2. (a \o b)[i] = a[i]
      BY <1>2, <1>3, <3>1
    <3>3. QED
      BY <1>1, <1>2, <2>1, <3>2
  <2>2. CASE ~(i < k)
    <3>1. i - Len(a) \in 1 .. Len(b) /\ i = Len(a) + (i - Len(a))
      BY <1>1, <1>2, <1>3, <2>2
    <3>2. (a \o b)[i] = b[i - Len(a)]
      BY <1>2, <1>3, <3>1
    <3>3. b[i - Len(a)] = s[k + (i - Len(a))]
      BY <1>3, <3>1
    <3>4. k + (i - Len(a)) = i + 1
      BY <1>1, <1>2
    <3>5. QED
      BY <2>2, <3>2, <3>3, <3>4
  <2>3. QED
    BY <2>1, <2>2
<1>6. RemoveAt(s, k) = a \o b
  BY DEF RemoveAt, a, b
<1>7. Len(a \o b) = Len(s) - 1
  BY <1>1, <1>2, <1>3, <1>4
<1>8. QED
  BY <1>4, <1>5, <1>6, <1>7

\* Everything but the element removed is still there.
LEMMA OthersRemain ==
  ASSUME NEW S, NEW s \in Seq(S), NEW k \in 1 .. Len(s), NEW x, x # s[k], NEW i \in 1 .. Len(s), s[i] = x
  PROVE  \E j \in 1 .. Len(RemoveAt(s, k)) : RemoveAt(s, k)[j] = x
<1> DEFINE r == RemoveAt(s, k)
<1>1. Len(s) \in Nat
  BY LenProperties
<1>2. Len(r) = Len(s) - 1 /\ \A j \in 1 .. Len(s) - 1 : r[j] = s[IF j < k THEN j ELSE j + 1]
  BY Removed
<1> HIDE DEF r
<1>3. CASE i < k
  <2>1. i \in 1 .. Len(r) /\ r[i] = x
    BY <1>1, <1>2, <1>3
  <2>2. QED
    BY <2>1 DEF r
<1>4. CASE i > k
  <2>1. i - 1 \in 1 .. Len(r) /\ i - 1 + 1 = i
    BY <1>1, <1>2, <1>4
  <2>2. r[i - 1] = x
    BY <1>1, <1>2, <1>4, <2>1
  <2>3. QED
    BY <2>1, <2>2 DEF r
<1>5. QED
  BY <1>1, <1>3, <1>4

\* What is in a queue, after Append and before Tail.
LEMMA InQueue ==
  ASSUME NEW S, NEW q \in Seq(S)
  PROVE  /\ ToSet(q) = {q[i] : i \in 1 .. Len(q)} /\ ToSet(q) \subseteq S
         /\ q = <<>> <=> ToSet(q) = {}
         /\ \A m \in S : ToSet(Append(q, m)) = ToSet(q) \cup {m}
         /\ q # <<>> => ToSet(q) = ToSet(Tail(q)) \cup {Head(q)}
<1>1. \A r \in Seq(S) : ToSet(r) = {r[i] : i \in 1 .. Len(r)} /\ Len(r) \in Nat
  BY LenProperties DEF ToSet
<1>2. ToSet(q) \subseteq S /\ (q = <<>> <=> ToSet(q) = {})
  <2>1. \A i \in 1 .. Len(q) : q[i] \in S
    BY ElementOfSeq
  <2>2. q = <<>> <=> Len(q) = 0
    BY EmptySeq
  <2>3. Len(q) # 0 => 1 \in 1 .. Len(q)
    BY <1>1
  <2>4. QED
    BY <1>1, <2>1, <2>2, <2>3
<1>3. ASSUME NEW m \in S PROVE ToSet(Append(q, m)) = ToSet(q) \cup {m}
  <2> DEFINE r == Append(q, m)
  <2>1. /\ r \in Seq(S) /\ Len(r) = Len(q) + 1 /\ Len(q) \in Nat
        /\ \A i \in 1 .. Len(q) : r[i] = q[i]
        /\ r[Len(q) + 1] = m
    BY Appended
  <2> HIDE DEF r
  <2>2. \A i : i \in 1 .. Len(r) <=> i \in 1 .. Len(q) \/ i = Len(q) + 1
    BY <2>1
  <2>3. {r[i] : i \in 1 .. Len(r)} = {q[i] : i \in 1 .. Len(q)} \cup {m}
    BY <2>1, <2>2
  <2>4. QED
    BY <1>1, <2>1, <2>3 DEF r
<1>4. ASSUME q # <<>> PROVE ToSet(q) = ToSet(Tail(q)) \cup {Head(q)}
  <2> DEFINE r == Tail(q)
  <2>1. /\ r \in Seq(S) /\ Head(q) = q[1] /\ Len(q) \in Nat /\ Len(q) >= 1 /\ Len(r) = Len(q) - 1
        /\ \A i \in 1 .. Len(q) - 1 : r[i] = q[i + 1]
    BY <1>4, Taken
  <2> HIDE DEF r
  <2>2. ASSUME NEW i \in 1 .. Len(q) PROVE q[i] \in {r[j] : j \in 1 .. Len(r)} \cup {q[1]}
    <3>1. CASE i = 1
      BY <3>1
    <3>2. CASE i # 1
      <4>1. i - 1 \in 1 .. Len(r) /\ i - 1 + 1 = i
        BY <2>1, <3>2
      <4>2. q[i] = r[i - 1]
        BY <2>1, <4>1
      <4>3. QED
        BY <4>1, <4>2
    <3>3. QED
      BY <3>1, <3>2
  <2>3. ASSUME NEW j \in 1 .. Len(r) PROVE r[j] \in {q[i] : i \in 1 .. Len(q)}
    BY <2>1
  <2>4. q[1] \in {q[i] : i \in 1 .. Len(q)}
    BY <2>1
  <2>5. {q[i] : i \in 1 .. Len(q)} = {r[j] : j \in 1 .. Len(r)} \cup {q[1]}
    BY <2>2, <2>3, <2>4
  <2>6. ToSet(r) = {r[j] : j \in 1 .. Len(r)} /\ ToSet(q) = {q[i] : i \in 1 .. Len(q)}
    BY <1>1, <2>1
  <2>7. QED
    BY <2>1, <2>5, <2>6 DEF r
<1>5. QED
  BY <1>1, <1>2, <1>3, <1>4

-----------------------------------------------------------------------------
(* Induction over the places of a sequence, and with it what FoldLeft computes.  Where a proof *)
(* needs a fold it expands FoldLeft, which gives a function on the sets of places, has         *)
(* FoldExists for its existence, and reads off FoldClimbs what it is after each element.       *)

\* Induction over the numbers up to n, with a set in the place of a predicate.
LEMMA UpTo ==
  ASSUME NEW n \in Nat, NEW P, 0 \in P, \A j \in 1 .. n : j - 1 \in P => j \in P
  PROVE  0 .. n \subseteq P
<1> DEFINE Less == {ss \in Nat \X Nat : ss[1] < ss[2]}
           Bad == {j \in 0 .. n : j \notin P}
<1>1. SUFFICES ASSUME Bad # {} PROVE FALSE
  OBVIOUS
<1>2. PICK m \in Bad : \A y \in Bad : ~(<<y, m>> \in Less)
  <2>1. Bad \subseteq Nat
    OBVIOUS
  <2>2. IsWellFoundedOn(Less, Nat)
    BY NatLessThanWellFounded DEF OpToRel
  <2> HIDE DEF Bad, Less
  <2>3. QED
    BY <1>1, <2>1, <2>2, WFMin
<1>3. m \in 1 .. n /\ m \notin P
  OBVIOUS
<1>4. m - 1 \in Nat /\ m \in Nat /\ m - 1 < m /\ m - 1 \in 0 .. n
  BY <1>3
<1>5. <<m - 1, m>> \in Less
  BY <1>4
<1>6. m - 1 \notin Bad
  BY <1>2, <1>5
<1>7. QED
  BY <1>3, <1>4, <1>6

\* The greatest element of a set of numbers up to n.
LEMMA Top ==
  ASSUME NEW n \in Nat, NEW s \in SUBSET (1 .. n), n \in s
  PROVE  Max(s) = n
<1>1. n \in s /\ \A y \in s : n >= y
  OBVIOUS
<1>2. \A x \in s : (\A y \in s : x >= y) => x = n
  BY <1>1
<1>3. QED
  BY <1>1, <1>2 DEF Max

\* A function f on the sets of places of q, of which the greatest comes last: T folded over q.
FoldsBy(T, b, q, D, f) == \A s \in SUBSET D : f[s] = IF s = {} THEN b ELSE T[<<f[s \ {Max(s)}], q[Max(s)]>>]
TopsIn(L, q, D) == \A s \in SUBSET D : s # {} => q[Max(s)] \in L

\* The places of a sequence have a greatest one.
LEMMA FoldExists ==
  ASSUME NEW A, NEW L, NEW T \in [A \X L -> A], NEW b \in A, NEW q \in Seq(L)
  PROVE  /\ \E f \in [SUBSET DOMAIN q -> A] : FoldsBy(T, b, q, DOMAIN q, f)
         /\ TopsIn(L, q, DOMAIN q)
<1> DEFINE Has(n) == (\E f \in [SUBSET (1 .. n) -> A] : FoldsBy(T, b, q, 1 .. n, f)) /\ TopsIn(L, q, 1 .. n)
           P == {n \in 0 .. Len(q) : Has(n)}
<1>1. DOMAIN q = 1 .. Len(q) /\ Len(q) \in Nat
  BY LenProperties
<1>2. Has(0)
  <2> DEFINE f == [s \in SUBSET (1 .. 0) |-> b]
  <2>1. SUBSET (1 .. 0) = {{}}
    OBVIOUS
  <2>2. f \in [SUBSET (1 .. 0) -> A]
    OBVIOUS
  <2>3. \A s \in SUBSET (1 .. 0) : s = {} /\ f[s] = b
    BY <2>1
  <2> HIDE DEF f
  <2>4. FoldsBy(T, b, q, 1 .. 0, f)
    BY <2>3 DEF FoldsBy
  <2>5. TopsIn(L, q, 1 .. 0)
    BY <2>1 DEF TopsIn
  <2>6. QED
    BY <2>2, <2>4, <2>5
<1>3. ASSUME NEW n \in 1 .. Len(q), Has(n - 1) PROVE Has(n)
  <2>1. PICK f \in [SUBSET (1 .. n - 1) -> A] : FoldsBy(T, b, q, 1 .. n - 1, f)
    BY <1>3
  <2> DEFINE h == [s \in SUBSET (1 .. n) |-> IF n \in s THEN T[<<f[s \ {n}], q[n]>>] ELSE f[s]]
  <2>2. \A s \in SUBSET (1 .. n) : s \ {n} \in SUBSET (1 .. n - 1)
    BY <1>1
  <2>3. q[n] \in L
    BY <1>1, ElementOfSeq
  <2>4. \A s \in SUBSET (1 .. n) : /\ n \in s => h[s] = T[<<f[s \ {n}], q[n]>>]
                                   /\ n \notin s => h[s] = f[s]
    OBVIOUS
  <2>5. h \in [SUBSET (1 .. n) -> A]
    <3>1. ASSUME NEW s \in SUBSET (1 .. n) PROVE (IF n \in s THEN T[<<f[s \ {n}], q[n]>>] ELSE f[s]) \in A
      <4>1. f[s \ {n}] \in A
        BY <2>1, <2>2
      <4>2. n \notin s => s \ {n} = s
        OBVIOUS
      <4>3. QED
        BY <2>3, <4>1, <4>2
    <3>2. QED
      BY <3>1
  <2> HIDE DEF h
  <2>6. \A s \in SUBSET (1 .. n) : n \in s => Max(s) = n
    BY <1>1, Top
  <2>7. \A s \in SUBSET (1 .. n) : n \notin s => s \in SUBSET (1 .. n - 1)
    BY <2>2
  <2>8. TopsIn(L, q, 1 .. n)
    <3>1. TopsIn(L, q, 1 .. n - 1)
      BY <1>3
    <3>2. QED
      BY <2>3, <2>6, <2>7, <3>1 DEF TopsIn
  <2>9. FoldsBy(T, b, q, 1 .. n, h)
    <3> SUFFICES ASSUME NEW s \in SUBSET (1 .. n) PROVE h[s] = IF s = {} THEN b ELSE T[<<h[s \ {Max(s)}], q[Max(s)]>>]
      BY DEF FoldsBy
    <3>1. CASE n \in s
      <4>1. h[s \ {n}] = f[s \ {n}]
        BY <2>2, <2>4
      <4>2. QED
        BY <2>4, <2>6, <3>1, <4>1
    <3>2. CASE n \notin s
      <4>1. h[s] = f[s] /\ f[s] = IF s = {} THEN b ELSE T[<<f[s \ {Max(s)}], q[Max(s)]>>]
        BY <2>1, <2>4, <2>7, <3>2 DEF FoldsBy
      <4>2. s \ {Max(s)} \in SUBSET (1 .. n) /\ n \notin s \ {Max(s)}
        BY <3>2
      <4>3. h[s \ {Max(s)}] = f[s \ {Max(s)}]
        BY <2>4, <4>2
      <4>4. QED
        BY <4>1, <4>3
    <3>3. QED
      BY <3>1, <3>2
  <2>10. QED
    BY <2>5, <2>8, <2>9
<1> HIDE DEF Has
<1>4. 0 \in P /\ \A j \in 1 .. Len(q) : j - 1 \in P => j \in P
  BY <1>1, <1>2, <1>3
<1> HIDE DEF P
<1>5. 0 .. Len(q) \subseteq P
  BY <1>1, <1>4, UpTo
<1>6. Len(q) \in P
  BY <1>1, <1>5
<1>7. Has(Len(q))
  BY <1>6 DEF P
<1>8. QED
  BY <1>1, <1>7 DEF Has

\* What such a function f is at the beginnings of q: a, place by place.
ClimbsTo(j, f, a) ==
  /\ 1 .. j # {} /\ Max(1 .. j) = j /\ (1 .. j) \ {j} = 1 .. j - 1
  /\ a[j] = f[1 .. j] /\ a[j - 1] = f[1 .. j - 1]
Climbs(f, a, n) ==
  /\ a[0] = f[{}] /\ a[n] = f[1 .. n]
  /\ \A j \in 1 .. n : 1 .. j \in SUBSET (1 .. n) /\ ClimbsTo(j, f, a)

LEMMA FoldClimbs ==
  ASSUME NEW n \in Nat, NEW f
  PROVE  \E a : Climbs(f, a, n)
<1> DEFINE a == [j \in 0 .. n |-> f[1 .. j]]
<1>1. 1 .. 0 = {}
  OBVIOUS
<1>2. a[0] = f[1 .. 0] /\ a[n] = f[1 .. n]
  OBVIOUS
<1>3. ASSUME NEW j \in 1 .. n
      PROVE  1 .. j \in SUBSET (1 .. n) /\ ClimbsTo(j, f, a)
  <2>1. j \in Nat /\ 1 .. j \in SUBSET (1 .. j) /\ j \in 1 .. j
    OBVIOUS
  <2>2. Max(1 .. j) = j
    BY <2>1, Top
  <2>3. 1 .. j \subseteq 1 .. n /\ 1 .. j # {}
    BY <2>1
  <2>4. (1 .. j) \ {j} = 1 .. j - 1
    OBVIOUS
  <2>5. a[j] = f[1 .. j] /\ a[j - 1] = f[1 .. j - 1]
    OBVIOUS
  <2>6. QED
    BY <2>2, <2>3, <2>4, <2>5 DEF ClimbsTo
<1> HIDE DEF a
<1>4. Climbs(f, a, n)
  BY <1>1, <1>2, <1>3 DEF Climbs
<1>5. QED
  BY <1>4

\* What holds before the first element, and is kept by each, holds of what FoldLeft computes.
LEMMA FoldStays ==
  ASSUME NEW L, NEW q \in Seq(L), NEW A, NEW g, g[{}] \in A,
         \A s \in SUBSET DOMAIN q : s # {} /\ g[s \ {Max(s)}] \in A => g[s] \in A
  PROVE  g[DOMAIN q] \in A
<1>1. DOMAIN q = 1 .. Len(q) /\ Len(q) \in Nat
  BY LenProperties
<1>2. PICK a : Climbs(g, a, Len(q))
  BY <1>1, FoldClimbs
<1> DEFINE P == {j \in 0 .. Len(q) : a[j] \in A}
<1>3. a[0] \in A
  BY <1>2 DEF Climbs
<1>4. ASSUME NEW j \in 1 .. Len(q), a[j - 1] \in A PROVE a[j] \in A
  <2>1. 1 .. j \in SUBSET DOMAIN q /\ ClimbsTo(j, g, a)
    BY <1>1, <1>2 DEF Climbs
  <2>2. 1 .. j # {} /\ g[(1 .. j) \ {Max(1 .. j)}] \in A /\ a[j] = g[1 .. j]
    BY <1>4, <2>1 DEF ClimbsTo
  <2>3. QED
    BY <2>1, <2>2
<1>5. 0 \in P /\ \A j \in 1 .. Len(q) : j - 1 \in P => j \in P
  BY <1>1, <1>3, <1>4
<1> HIDE DEF P
<1>6. 0 .. Len(q) \subseteq P
  BY <1>1, <1>5, UpTo
<1>7. Len(q) \in P
  BY <1>1, <1>6
<1>8. QED
  BY <1>1, <1>2, <1>7 DEF P, Climbs

\* The greatest of some places is one of them.
LEMMA GreatestPlace ==
  ASSUME NEW n \in Nat, NEW M \in SUBSET (1 .. n), M # {}
  PROVE  Max(M) \in M
<1> DEFINE Less == {ss \in Nat \X Nat : ss[1] < ss[2]}
           R == {n - y : y \in M}
<1>1. PICK r \in R : \A y \in R : ~(<<y, r>> \in Less)
  <2>1. IsWellFoundedOn(Less, Nat)
    BY NatLessThanWellFounded DEF OpToRel
  <2>2. \A y \in M : n - y \in Nat /\ n - y \in R
    OBVIOUS
  <2>3. R \in SUBSET Nat
    BY <2>2
  <2>4. PICK y : y \in M
    OBVIOUS
  <2>5. R # {}
    BY <2>2, <2>4
  <2> HIDE DEF Less, R
  <2>6. QED
    BY <2>1, <2>3, <2>5, WFMin
<1>2. PICK m \in M : r = n - m
  OBVIOUS
<1>3. ASSUME NEW y \in M PROVE m >= y
  <2>1. n - y \in R /\ n - y \in Nat /\ r \in Nat
    BY <1>2
  <2>2. ~(<<n - y, r>> \in Less)
    BY <1>1, <2>1
  <2>3. ~(n - y < r)
    BY <2>1, <2>2
  <2>4. QED
    BY <1>2, <2>3
<1>4. QED
  BY <1>3 DEF Max

\* The least of some places is one of them.
LEMMA LeastPlace ==
  ASSUME NEW M \in SUBSET Nat, M # {} PROVE Min(M) \in M
<1> DEFINE Less == {ss \in Nat \X Nat : ss[1] < ss[2]}
<1>1. PICK m \in M : \A y \in M : ~(<<y, m>> \in Less)
  <2>1. IsWellFoundedOn(Less, Nat)
    BY NatLessThanWellFounded DEF OpToRel
  <2> HIDE DEF Less
  <2>2. QED
    BY <2>1, WFMin
<1>2. ASSUME NEW y \in M PROVE m <= y
  <2>1. m \in Nat /\ y \in Nat /\ ~(<<y, m>> \in Less)
    BY <1>1
  <2>2. ~(y < m)
    BY <2>1
  <2>3. QED
    BY <2>1, <2>2
<1>3. \E x \in M : \A y \in M : x <= y
  BY <1>2
<1>4. QED
  BY <1>3 DEF Min

\* A sequence of the elements of a finite set.
LEMMA SeqOfSet ==
  ASSUME NEW S, IsFiniteSet(S)
  PROVE  SetToSeq(S) \in Seq(S)
<1>1. Cardinality(S) \in Nat /\ ExistsBijection(1 .. Cardinality(S), S)
  BY FS_CardinalityType
<1>2. \E f \in [1 .. Cardinality(S) -> S] : IsInjective(f)
  BY <1>1 DEF ExistsBijection, Bijection, Injection
<1>3. SetToSeq(S) \in [1 .. Cardinality(S) -> S]
  BY <1>2 DEF SetToSeq
<1>4. QED
  BY <1>1, <1>3
=============================================================================
