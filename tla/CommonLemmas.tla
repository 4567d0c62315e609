----------------------------- MODULE CommonLemmas -----------------------------
(***************************************************************************)
(* Facts about indices, sets and sequences that the proofs of several       *)
(* components need.                                                         *)
(***************************************************************************)
EXTENDS Integers, Sequences, FiniteSets, SequencesExt,
        FiniteSetTheorems, SequenceTheorems, WellFoundedInduction, TLAPS

(* A non-empty set of indices has a first one. *)
LEMMA MinIsElement ==
  ASSUME NEW S \in SUBSET Nat, S # {}
  PROVE  Min(S) \in S /\ \A i \in S : Min(S) <= i
<1> DEFINE below(i) == 0 .. i - 1
           T == {below(i) : i \in S}
<1>1. T \subseteq FiniteSubsetsOf(Nat) /\ T # {}
  <2>1. ASSUME NEW i \in S
        PROVE  below(i) \in FiniteSubsetsOf(Nat)
    <3>1. i - 1 \in Int /\ below(i) \in SUBSET Nat
      OBVIOUS
    <3>2. IsFiniteSet(below(i))
      BY <3>1, FS_Interval
    <3> QED
      BY <3>1, <3>2 DEF FiniteSubsetsOf
  <2> QED
    BY <2>1
<1>2. PICK x \in T : \A y \in T : <<y, x>> \notin StrictSubsetOrdering(Nat)
  <2> HIDE DEF T
  <2> QED
    BY <1>1, WFMin, FS_StrictSubsetOrderingWellFounded
<1>3. PICK i \in S : x = below(i)
  OBVIOUS
<1>4. ASSUME NEW j \in S
      PROVE  i =< j
  <2>1. SUFFICES ASSUME j < i
                 PROVE  FALSE
    OBVIOUS
  <2>2. below(j) \subseteq below(i) /\ i - 1 \in below(i) /\ i - 1 \notin below(j)
    BY <2>1
  <2>3. <<below(j), below(i)>> \in StrictSubsetOrdering(Nat)
    BY <2>2 DEF StrictSubsetOrdering
  <2> QED
    BY <1>2, <1>3, <2>3
<1> QED
  BY <1>4 DEF Min

(* Two sets that differ at most in w have cardinalities that differ so.     *)
LEMMA CountStep ==
  ASSUME NEW S, NEW T, NEW w, IsFiniteSet(S), T \ {w} = S \ {w}
  PROVE  /\ IsFiniteSet(T) /\ Cardinality(T) \in Nat /\ Cardinality(S) \in Nat
         /\ Cardinality(T) = Cardinality(S) + (IF w \in T THEN 1 ELSE 0)
                                            - (IF w \in S THEN 1 ELSE 0)
<1>1. T = IF w \in T THEN (S \ {w}) \cup {w} ELSE S \ {w}
  OBVIOUS
<1>2. /\ IsFiniteSet(S \ {w})
      /\ Cardinality(S \ {w}) = IF w \in S THEN Cardinality(S) - 1 ELSE Cardinality(S)
  BY FS_RemoveElement
<1>3. /\ IsFiniteSet((S \ {w}) \cup {w})
      /\ Cardinality((S \ {w}) \cup {w}) = Cardinality(S \ {w}) + 1
  BY <1>2, FS_AddElement
<1>4. IsFiniteSet(T)
  BY <1>1, <1>2, <1>3
<1>5. Cardinality(T) \in Nat /\ Cardinality(S) \in Nat /\ Cardinality(S \ {w}) \in Nat
  BY <1>2, <1>4, FS_CardinalityType
<1>6. Cardinality(T) = Cardinality(S \ {w}) + (IF w \in T THEN 1 ELSE 0)
  <2>1. CASE w \in T
    <3>1. T = (S \ {w}) \cup {w}
      BY <2>1
    <3> QED
      BY <1>3, <2>1, <3>1
  <2>2. CASE w \notin T
    <3>1. T = S \ {w}
      BY <2>2
    <3> QED
      BY <1>5, <2>2, <3>1
  <2> QED
    BY <2>1, <2>2
<1> QED
  BY <1>2, <1>4, <1>5, <1>6

(* The indices before and after i. *)
LEMMA IndexSplit ==
  ASSUME NEW l \in Nat, NEW i \in 1 .. l
  PROVE  /\ l - 1 \in Nat /\ (i - 1) + (l - i) = l - 1
         /\ (IF 1 <= i - 1 THEN i - 1 - 1 + 1 ELSE 0) = i - 1
         /\ (IF i + 1 <= l THEN l - (i + 1) + 1 ELSE 0) = l - i
         /\ i - 1 - 1 + 1 = i - 1 /\ l - (i + 1) + 1 = l - i
         /\ \A k \in 1 .. l - i : i + 1 + k - 1 = i + k
         /\ \A k \in 1 .. i - 1 : 1 + k - 1 = k
         /\ \A n \in 1 .. l - 1 :
              IF n <= i - 1 THEN n \in 1 .. i - 1 /\ n \in 1 .. l /\ n # i
              ELSE n - (i - 1) \in 1 .. l - i /\ i + (n - (i - 1)) = n + 1
                   /\ n + 1 \in 1 .. l /\ n + 1 # i
OBVIOUS

(* A sequence of anything. *)
IsSeq(s) == s \in Seq(Range(s))

(* Where a sequence of elements of S is expected, one of its own elements is. *)
LEMMA SeqIsSeq ==
  ASSUME NEW S, NEW s \in Seq(S)
  PROVE  IsSeq(s) /\ Len(s) \in Nat /\ DOMAIN s = 1 .. Len(s) /\ \A n \in DOMAIN s : s[n] \in S
BY SeqOfRange DEF IsSeq

(* Where the elements are when one was removed: each is in one place, and no other is there. *)
LEMMA RemoveAtMoves ==
  ASSUME NEW S, NEW s \in Seq(S), NEW i \in DOMAIN s
  PROVE  /\ RemoveAt(s, i) \in Seq(S)
         /\ \A n \in DOMAIN RemoveAt(s, i) : \E k \in DOMAIN s : k # i /\ RemoveAt(s, i)[n] = s[k]
         /\ \A k \in DOMAIN s : k # i => \E n \in DOMAIN RemoveAt(s, i) : RemoveAt(s, i)[n] = s[k]
         /\ \A m, n \in DOMAIN RemoveAt(s, i) : m # n =>
              \E j, k \in DOMAIN s : /\ j # k /\ RemoveAt(s, i)[m] = s[j] /\ RemoveAt(s, i)[n] = s[k]
<1> DEFINE l == Len(s)
           a == SubSeq(s, 1, i - 1)
           b == SubSeq(s, i + 1, l)
           r == RemoveAt(s, i)
           At(n) == IF n < i THEN n ELSE n + 1
<1>1. l \in Nat /\ i \in 1 .. l /\ DOMAIN s = 1 .. l /\ i - 1 \in Int /\ i + 1 \in Int
  BY SeqIsSeq
<1>2. /\ \A k \in 1 .. i - 1 : s[k] \in S
      /\ \A k \in i + 1 .. l : s[k] \in S
  BY <1>1, SeqIsSeq
<1>3. /\ a \in Seq(S) /\ Len(a) = IF 1 <= i - 1 THEN i - 1 - 1 + 1 ELSE 0
      /\ \A k \in 1 .. i - 1 - 1 + 1 : a[k] = s[1 + k - 1]
  BY <1>1, <1>2, SubSeqProperties
<1>4. /\ b \in Seq(S) /\ Len(b) = IF i + 1 <= l THEN l - (i + 1) + 1 ELSE 0
      /\ \A k \in 1 .. l - (i + 1) + 1 : b[k] = s[i + 1 + k - 1]
  BY <1>1, <1>2, SubSeqProperties
<1>5. r = a \o b
  BY DEF RemoveAt
<1> HIDE DEF a, b, l, r
<1>6. /\ Len(a) = i - 1 /\ \A k \in 1 .. i - 1 : a[k] = s[k]
      /\ Len(b) = l - i /\ \A k \in 1 .. l - i : b[k] = s[i + k]
  <2>1. /\ (IF 1 <= i - 1 THEN i - 1 - 1 + 1 ELSE 0) = i - 1 /\ i - 1 - 1 + 1 = i - 1
        /\ (IF i + 1 <= l THEN l - (i + 1) + 1 ELSE 0) = l - i /\ l - (i + 1) + 1 = l - i
        /\ \A k \in 1 .. i - 1 : 1 + k - 1 = k
        /\ \A k \in 1 .. l - i : i + 1 + k - 1 = i + k
    BY <1>1, IndexSplit
  <2>2. Len(a) = i - 1 /\ \A k \in 1 .. i - 1 : a[k] = s[k]
    BY <1>3, <2>1
  <2>3. Len(b) = l - i /\ \A k \in 1 .. l - i : b[k] = s[i + k]
    BY <1>4, <2>1
  <2> QED
    BY <2>2, <2>3
<1>7. /\ r \in Seq(S) /\ Len(r) = l - 1 /\ DOMAIN r = 1 .. l - 1
      /\ \A n \in 1 .. l - 1 : r[n] = IF n <= i - 1 THEN a[n] ELSE b[n - (i - 1)]
  <2>1. Len(a) + Len(b) = l - 1
    BY <1>1, <1>6, IndexSplit
  <2>2. /\ a \o b \in Seq(S) /\ Len(a \o b) = Len(a) + Len(b)
        /\ \A n \in 1 .. Len(a) + Len(b) :
             (a \o b)[n] = IF n <= Len(a) THEN a[n] ELSE b[n - Len(a)]
    BY <1>3, <1>4, ConcatProperties
  <2> QED
    BY <1>5, <1>6, <2>1, <2>2, SeqIsSeq
<1>8. ASSUME NEW n \in 1 .. l - 1
      PROVE  At(n) \in 1 .. l /\ At(n) # i /\ r[n] = s[At(n)]
  <2>1. CASE n <= i - 1
    <3>1. n < i /\ n \in 1 .. l /\ n \in 1 .. i - 1 /\ n # i
      BY <1>1, <2>1
    <3> QED
      BY <1>6, <1>7, <2>1, <3>1
  <2>2. CASE ~(n <= i - 1)
    <3>1. ~(n < i) /\ n + 1 \in 1 .. l /\ n + 1 # i /\ n - (i - 1) \in 1 .. l - i /\ i + (n - (i - 1)) = n + 1
      BY <1>1, <2>2
    <3> QED
      BY <1>6, <1>7, <2>2, <3>1
  <2> QED
    BY <2>1, <2>2
<1>9. ASSUME NEW k \in 1 .. l, k # i
      PROVE  \E n \in 1 .. l - 1 : At(n) = k
  <2>1. CASE k < i
    <3>1. k \in 1 .. l - 1
      BY <1>1, <2>1
    <3> QED
      BY <2>1, <3>1
  <2>2. CASE ~(k < i)
    <3>1. k - 1 \in 1 .. l - 1 /\ ~(k - 1 < i) /\ (k - 1) + 1 = k
      BY <1>1, <1>9, <2>2
    <3> QED
      BY <3>1
  <2> QED
    BY <2>1, <2>2
<1>10. ASSUME NEW m \in 1 .. l - 1, NEW n \in 1 .. l - 1, m # n
       PROVE  At(m) # At(n)
  BY <1>1, <1>10
<1> HIDE DEF At
<1>11. \A n \in DOMAIN r : \E k \in DOMAIN s : k # i /\ r[n] = s[k]
  BY <1>1, <1>7, <1>8
<1>12. \A k \in DOMAIN s : k # i => \E n \in DOMAIN r : r[n] = s[k]
  BY <1>1, <1>7, <1>8, <1>9
<1>13. \A m, n \in DOMAIN r : m # n =>
         \E j, k \in DOMAIN s : j # k /\ r[m] = s[j] /\ r[n] = s[k]
  BY <1>1, <1>7, <1>8, <1>10
<1> QED
  BY <1>7, <1>11, <1>12, <1>13 DEF r

(* What is left after one element of a sequence is removed are the others. *)
LEMMA RemoveAtKeepsOthers ==
  ASSUME NEW S, NEW s \in Seq(S), NEW i \in 1 .. Len(s)
  PROVE  /\ RemoveAt(s, i) \in Seq(S)
         /\ \A n \in DOMAIN RemoveAt(s, i) :
              \E k \in DOMAIN s : k # i /\ RemoveAt(s, i)[n] = s[k]
BY SeqIsSeq, RemoveAtMoves

(* A sequence with an element is not empty. *)
LEMMA NotEmpty == ASSUME NEW S, NEW s \in Seq(S), NEW n \in DOMAIN s PROVE s # <<>>
<1>1. DOMAIN s = 1 .. Len(s) /\ Len(s) \in Nat
  BY SeqIsSeq
<1>2. Len(s) # 0
  BY <1>1
<1> QED
  BY <1>2, EmptySeq

(* A function on 1 .. k is a sequence. *)
LEMMA FunctionIsSeq ==
  ASSUME NEW k \in Nat, NEW f, f = [n \in 1 .. k |-> f[n]]
  PROVE  IsSeq(f) /\ DOMAIN f = 1 .. k
<1>1. DOMAIN f = 1 .. k /\ f \in [1 .. k -> Range(f)]
  BY DEF Range
<1> QED
  BY <1>1 DEF IsSeq

(* An appended sequence has the elements it had and the new one. *)
LEMMA AppendAdds ==
  ASSUME NEW s, NEW x, IsSeq(s)
  PROVE  /\ IsSeq(Append(s, x))
         /\ \A n \in DOMAIN Append(s, x) :
              Append(s, x)[n] = x \/ \E k \in DOMAIN s : Append(s, x)[n] = s[k]
<1> DEFINE S == Range(s) \cup {x}
<1>1. s \in Seq(S) /\ x \in S
  BY SeqMonotonic DEF IsSeq
<1> HIDE DEF S
<1>2. Append(s, x) \in Seq(S) /\ Len(Append(s, x)) = Len(s) + 1
      /\ \A n \in 1 .. Len(s) + 1 : Append(s, x)[n] = IF n = Len(s) + 1 THEN x ELSE s[n]
  BY <1>1, AppendProperties
<1>3. Len(s) \in Nat /\ DOMAIN s = 1 .. Len(s) /\ DOMAIN Append(s, x) = 1 .. Len(s) + 1
  BY <1>1, <1>2, SeqIsSeq
<1>4. \A n \in 1 .. Len(s) + 1 : n = Len(s) + 1 \/ n \in 1 .. Len(s)
  BY <1>3
<1> QED
  BY <1>2, <1>3, <1>4, SeqIsSeq

(* An appended sequence keeps its elements where they are. *)
LEMMA AppendKeeps ==
  ASSUME NEW S, NEW s \in Seq(S), NEW x \in S
  PROVE  /\ Append(s, x) \in Seq(S) /\ DOMAIN Append(s, x) = DOMAIN s \cup {Len(s) + 1}
         /\ Len(s) + 1 \notin DOMAIN s /\ Append(s, x)[Len(s) + 1] = x
         /\ \A n \in DOMAIN s : Append(s, x)[n] = s[n]
<1>1. Len(s) \in Nat /\ DOMAIN s = 1 .. Len(s)
  BY SeqIsSeq
<1>2. /\ Append(s, x) \in Seq(S) /\ Len(Append(s, x)) = Len(s) + 1
      /\ \A n \in 1 .. Len(s) + 1 : Append(s, x)[n] = IF n = Len(s) + 1 THEN x ELSE s[n]
  BY AppendProperties
<1>3. DOMAIN Append(s, x) = 1 .. Len(s) + 1
  BY <1>2, SeqIsSeq
<1>4. 1 .. Len(s) + 1 = (1 .. Len(s)) \cup {Len(s) + 1} /\ Len(s) + 1 \notin 1 .. Len(s)
  BY <1>1
<1>5. \A n \in 1 .. Len(s) : n # Len(s) + 1 /\ n \in 1 .. Len(s) + 1
  BY <1>1
<1> QED
  BY <1>1, <1>2, <1>3, <1>4, <1>5

(* The tail of a sequence has only elements of the sequence. *)
LEMMA TailKeepsOthers ==
  ASSUME NEW s, IsSeq(s), s # <<>>
  PROVE  /\ Head(s) = s[1] /\ 1 \in DOMAIN s /\ IsSeq(Tail(s))
         /\ \A n \in DOMAIN Tail(s) : \E k \in DOMAIN s : Tail(s)[n] = s[k]
<1>1. s \in Seq(Range(s))
  BY DEF IsSeq
<1>2. DOMAIN s = 1 .. Len(s) /\ Len(s) \in Nat /\ Len(s) # 0 /\ Head(s) = s[1]
  BY <1>1, EmptySeq
<1>3. /\ Tail(s) \in Seq(Range(s)) /\ Len(Tail(s)) = Len(s) - 1
      /\ \A i \in 1 .. Len(Tail(s)) : Tail(s)[i] = s[i + 1]
  BY <1>1, HeadTailProperties
<1>4. DOMAIN Tail(s) = 1 .. Len(s) - 1
  BY <1>2, <1>3
<1>5. 1 \in DOMAIN s /\ \A i \in 1 .. Len(s) - 1 : i + 1 \in DOMAIN s
  BY <1>2
<1> QED
  BY <1>2, <1>3, <1>4, <1>5, SeqIsSeq

(* As many numbers, each less by one. *)
LEMMA ShiftCount ==
  ASSUME NEW S \in SUBSET Nat, IsFiniteSet(S)
  PROVE  IsFiniteSet({k - 1 : k \in S}) /\ Cardinality({k - 1 : k \in S}) = Cardinality(S)
<1> DEFINE T == {k - 1 : k \in S}
           f == [k \in S |-> k - 1]
<1>1. f \in Bijection(S, T)
  <2>1. f \in [S -> T] /\ \A t \in T : \E k \in S : f[k] = t
    OBVIOUS
  <2>2. \A a, b \in S : f[a] = f[b] => a = b
    <3>1. \A a \in S : a \in Nat /\ f[a] = a - 1
      OBVIOUS
    <3> QED  BY <3>1
  <2> QED  BY <2>1, <2>2 DEF Bijection, Injection, Surjection, IsInjective
<1>2. ExistsBijection(S, T)
  BY <1>1 DEF ExistsBijection
<1> QED  BY <1>2, FS_Bijection
=============================================================================
