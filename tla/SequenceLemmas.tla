---------------------------- MODULE SequenceLemmas ----------------------------
(* What the sequence operators of the models preserve.                     *)
EXTENDS Integers, Sequences, SequencesExt, SequenceTheorems, WellFoundedInduction,
        TLAPS

(* Two sequences in a row.                                                 *)
LEMMA Concat ==
  ASSUME NEW S, NEW a \in Seq(S), NEW b \in Seq(S)
  PROVE  /\ a \o b \in Seq(S) /\ Len(a \o b) = Len(a) + Len(b)
         /\ DOMAIN (a \o b) = 1..(Len(a) + Len(b))
         /\ \A j \in 1..(Len(a) + Len(b)) :
              (a \o b)[j] = IF j <= Len(a) THEN a[j] ELSE b[j - Len(a)]
<1>1. /\ a \o b \in Seq(S) /\ Len(a \o b) = Len(a) + Len(b)
      /\ \A j \in 1..(Len(a) + Len(b)) :
           (a \o b)[j] = IF j <= Len(a) THEN a[j] ELSE b[j - Len(a)]
  BY ConcatProperties
<1> DEFINE c == a \o b
<1>2. c \in Seq(S) /\ Len(c) = Len(a) + Len(b)
  BY <1>1
<1> HIDE DEF c
<1>3. DOMAIN c = 1..(Len(a) + Len(b))
  BY <1>2, LenProperties
<1>4. QED
  BY <1>1, <1>3 DEF c

(* What is left in q when element i was taken out.                         *)
LEMMA RemoveAtElements ==
  ASSUME NEW S, NEW q \in Seq(S), NEW i \in DOMAIN q
  PROVE  /\ RemoveAt(q, i) \in Seq(S)
         /\ Len(RemoveAt(q, i)) = Len(q) - 1
         /\ DOMAIN RemoveAt(q, i) = 1..(Len(q) - 1)
         /\ \A j \in 1..(Len(q) - 1) :
              RemoveAt(q, i)[j] = IF j < i THEN q[j] ELSE q[j + 1]
<1> DEFINE a == SubSeq(q, 1, i-1)
           b == SubSeq(q, i+1, Len(q))
           c == a \o b
<1>1. i \in 1..Len(q) /\ Len(q) \in Nat
  BY LenProperties
<1>2. a \in Seq(S) /\ Len(a) = i-1 /\ \A j \in 1..(i-1) : a[j] = q[j]
  BY <1>1, SubSeqProperties
<1>3. /\ b \in Seq(S) /\ Len(b) = Len(q) - i
      /\ \A j \in 1..(Len(q) - i) : b[j] = q[i+j]
  BY <1>1, SubSeqProperties
<1>4. RemoveAt(q, i) = c
  BY DEF RemoveAt
<1> HIDE DEF a, b
<1>5. /\ c \in Seq(S) /\ Len(c) = Len(a) + Len(b)
      /\ DOMAIN c = 1..(Len(a) + Len(b))
      /\ \A j \in 1..(Len(a) + Len(b)) :
           c[j] = IF j <= Len(a) THEN a[j] ELSE b[j - Len(a)]
  BY <1>2, <1>3, Concat
<1> HIDE DEF c
<1>6. Len(a) + Len(b) = Len(q) - 1
  BY <1>1, <1>2, <1>3
<1>7. ASSUME NEW j \in 1..(Len(q) - 1)
      PROVE  c[j] = IF j < i THEN q[j] ELSE q[j + 1]
  <2>1. c[j] = IF j <= i - 1 THEN a[j] ELSE b[j - (i - 1)]
    BY <1>2, <1>5, <1>6
  <2>2. CASE j < i
    BY <1>1, <1>2, <2>1, <2>2
  <2>3. CASE ~(j < i)
    <3>1. j - (i - 1) \in 1..(Len(q) - i) /\ i + (j - (i - 1)) = j + 1
      BY <1>1, <2>3
    <3>2. c[j] = b[j - (i - 1)]
      BY <1>1, <2>1, <2>3
    <3>3. b[j - (i - 1)] = q[j + 1]
      BY <1>3, <3>1
    <3>4. QED
      BY <2>3, <3>2, <3>3
  <2>4. QED
    BY <2>2, <2>3
<1>8. QED
  BY <1>4, <1>5, <1>6, <1>7

LEMMA RemoveAtType ==
  ASSUME NEW S, NEW q \in Seq(S), NEW i \in DOMAIN q
  PROVE  /\ RemoveAt(q, i) \in Seq(S)
         /\ \A j \in DOMAIN RemoveAt(q, i) : \E k \in DOMAIN q : RemoveAt(q, i)[j] = q[k]
<1> DEFINE r == RemoveAt(q, i)
<1>1. /\ r \in Seq(S) /\ DOMAIN r = 1..(Len(q) - 1)
      /\ \A j \in 1..(Len(q) - 1) : r[j] = IF j < i THEN q[j] ELSE q[j + 1]
  BY RemoveAtElements
<1> HIDE DEF r
<1>2. DOMAIN q = 1..Len(q) /\ Len(q) \in Nat
  BY LenProperties
<1>3. ASSUME NEW j \in DOMAIN r PROVE \E k \in DOMAIN q : r[j] = q[k]
  <2>1. j \in DOMAIN q /\ j + 1 \in DOMAIN q /\ (r[j] = q[j] \/ r[j] = q[j + 1])
    BY <1>1, <1>2
  <2>2. QED
    BY <2>1
<1>4. QED
  BY <1>1, <1>3 DEF r

LEMMA ReplaceAtType ==
  ASSUME NEW S, NEW q \in Seq(S), NEW i \in DOMAIN q, NEW e \in S
  PROVE  /\ [q EXCEPT ![i] = e] \in Seq(S)
         /\ Len([q EXCEPT ![i] = e]) = Len(q)
         /\ DOMAIN [q EXCEPT ![i] = e] = DOMAIN q
  BY ExceptSeq

LEMMA AppendType ==
  ASSUME NEW S, NEW q \in Seq(S), NEW e \in S
  PROVE  /\ Append(q, e) \in Seq(S)
         /\ Len(Append(q, e)) = Len(q) + 1
         /\ Append(q, e)[Len(q) + 1] = e
         /\ \A i \in DOMAIN q : i \in DOMAIN Append(q, e) /\ Append(q, e)[i] = q[i]
         /\ DOMAIN Append(q, e) = 1..(Len(q) + 1)
  BY AppendProperties, LenProperties

LEMMA TailType ==
  ASSUME NEW S, NEW q \in Seq(S), q # <<>>
  PROVE  /\ Head(q) \in S /\ Head(q) = q[1] /\ 1 \in DOMAIN q
         /\ Tail(q) \in Seq(S)
         /\ \A i \in DOMAIN Tail(q) : i + 1 \in DOMAIN q /\ Tail(q)[i] = q[i + 1]
  BY HeadTailProperties, EmptySeq, LenProperties

(* The pages below the top one.                                            *)
LEMMA FrontType ==
  ASSUME NEW S, NEW q \in Seq(S), Len(q) > 1
  PROVE  /\ SubSeq(q, 1, Len(q) - 1) \in Seq(S)
         /\ Len(SubSeq(q, 1, Len(q) - 1)) = Len(q) - 1
         /\ DOMAIN SubSeq(q, 1, Len(q) - 1) = 1..(Len(q) - 1)
         /\ \A i \in 1..(Len(q) - 1) : SubSeq(q, 1, Len(q) - 1)[i] = q[i]
  BY SubSeqProperties, LenProperties

-----------------------------------------------------------------------------
(* Least and greatest elements: what inductions over numbers rest on here. *)

LEMMA Least ==
  ASSUME NEW T \in SUBSET Nat, T # {}
  PROVE  \E m \in T : \A n \in T : m <= n
<1> DEFINE R == {ss \in Nat \X Nat : ss[1] < ss[2]}
<1>1. IsWellFoundedOn(R, Nat)
  BY NatLessThanWellFounded DEF OpToRel
<1> HIDE DEF R
<1>2. PICK m \in T : \A n \in T : ~(<<n, m>> \in R)
  BY <1>1, WFMin
<1>3. \A n \in T : ~(n < m)
  BY <1>2 DEF R
<1>4. QED
  BY <1>3

LEMMA Greatest ==
  ASSUME NEW N \in Nat, NEW T \in SUBSET (1..N), T # {}
  PROVE  \E m \in T : \A n \in T : n <= m
<1> DEFINE S == {k \in Nat : N - k \in T}
<1>1. S # {} /\ S \in SUBSET Nat
  <2>1. PICK n \in T : TRUE
    OBVIOUS
  <2>2. N - n \in Nat /\ N - (N - n) = n
    OBVIOUS
  <2>3. N - n \in S
    BY <2>1, <2>2
  <2>4. QED
    BY <2>3
<1> HIDE DEF S
<1>2. PICK k \in S : \A j \in S : k <= j
  BY <1>1, Least
<1>3. N - k \in T /\ k \in Nat
  BY <1>2 DEF S
<1>4. ASSUME NEW n \in T PROVE n <= N - k
  <2>1. N - n \in Nat /\ N - (N - n) = n
    OBVIOUS
  <2>2. N - n \in S
    BY <2>1 DEF S
  <2>3. k <= N - n
    BY <1>2, <2>2
  <2>4. QED
    BY <1>3, <2>3
<1>5. QED
  BY <1>3, <1>4

LEMMA LeastOf ==
  ASSUME NEW s \in SUBSET Nat, s # {}
  PROVE  Min(s) \in s /\ \A x \in s : Min(s) <= x
<1>1. \E m \in s : \A x \in s : m <= x
  BY Least
<1>2. QED
  BY <1>1 DEF Min

(* Induction from N + 1 down to 1.                                         *)
LEMMA Downwards ==
  ASSUME NEW N \in Nat, NEW wrong \in SUBSET (1 .. N + 1),
         N + 1 \notin wrong, \A k \in 1 .. N : k \in wrong => k + 1 \in wrong
  PROVE  wrong = {}
<1> SUFFICES ASSUME wrong # {} PROVE FALSE
  OBVIOUS
<1>0. N + 1 \in Nat
  OBVIOUS
<1>1. PICK m \in wrong : \A n \in wrong : n <= m
  BY <1>0, Greatest
<1>2. m \in 1 .. N
  BY <1>1
<1>3. m + 1 \in wrong
  BY <1>2
<1>4. QED
  BY <1>1, <1>2, <1>3

(* One place of a sum, the least of s, and the rest of it.                 *)
Summed(low, g, f, s) ==
  IF s = {} THEN 0 ELSE low[Min(s)] + g * f[s \ {Min(s)}]

LEMMA RestOf ==
  ASSUME NEW N \in Nat, NEW k \in 1 .. N, NEW s \in SUBSET (k .. N), s # {}
  PROVE  /\ Min(s) \in k .. N /\ Min(s) \in 1 .. N
         /\ s \ {Min(s)} \in SUBSET (k + 1 .. N)
<1>1. s \in SUBSET Nat
  OBVIOUS
<1>2. Min(s) \in s /\ \A x \in s : Min(s) <= x
  BY <1>1, LeastOf
<1>3. Min(s) \in k .. N
  BY <1>2
<1>4. ASSUME NEW x \in s \ {Min(s)} PROVE x \in k + 1 .. N
  <2>1. x \in k .. N /\ Min(s) <= x /\ x # Min(s)
    BY <1>2
  <2>2. QED
    BY <1>3, <2>1
<1>5. s \ {Min(s)} \in SUBSET (k + 1 .. N)
  BY <1>4
<1>6. QED
  BY <1>3, <1>5

LEMMA PlaceType ==
  ASSUME NEW a \in Nat, NEW g \in Nat, NEW b \in Nat
  PROVE  a + g * b \in Nat
<1>1. g * b \in Nat
  OBVIOUS
<1>2. QED
  BY <1>1

(* There is a function that gives the sums, ...                            *)
LEMMA SumIsThere ==
  ASSUME NEW N \in Nat, NEW low \in [1 .. N -> Nat], NEW g \in Nat
  PROVE  \E f \in [SUBSET (1 .. N) -> Nat] :
           \A s \in SUBSET (1 .. N) : f[s] = Summed(low, g, f, s)
<1> DEFINE Sums(f, k) == \A s \in SUBSET (k .. N) : f[s] = Summed(low, g, f, s)
           Functions == [SUBSET (1 .. N) -> Nat]
           wrong == {k \in 1 .. N + 1 : ~\E f \in Functions : Sums(f, k)}
<1>1. \E f \in Functions : Sums(f, N + 1)
  <2> DEFINE f == [s \in SUBSET (1 .. N) |-> 0]
  <2>1. f \in Functions
    OBVIOUS
  <2>2. \A s \in SUBSET (N + 1 .. N) : s = {} /\ f[s] = 0
    OBVIOUS
  <2>3. Sums(f, N + 1)
    BY <2>2 DEF Summed
  <2>4. QED
    BY <2>1, <2>3
<1>2. ASSUME NEW k \in 1 .. N, NEW f \in Functions, Sums(f, k + 1)
      PROVE  \E h \in Functions : Sums(h, k)
  <2> DEFINE h == [s \in SUBSET (1 .. N) |->
                     IF s \in SUBSET (k .. N) THEN Summed(low, g, f, s) ELSE 0]
  <2>1. \A s \in SUBSET (k .. N) : s \in SUBSET (1 .. N)
    OBVIOUS
  <2>2. \A s \in SUBSET (k .. N) : Summed(low, g, f, s) \in Nat
    <3> TAKE s \in SUBSET (k .. N)
    <3>1. CASE s = {}
      BY <3>1 DEF Summed
    <3>2. CASE s # {}
      <4>1. Min(s) \in 1 .. N /\ s \ {Min(s)} \in SUBSET (1 .. N)
        BY <3>2, RestOf
      <4>2. low[Min(s)] \in Nat /\ f[s \ {Min(s)}] \in Nat
        BY <4>1
      <4>3. QED
        BY <3>2, <4>2, PlaceType DEF Summed
    <3>3. QED
      BY <3>1, <3>2
  <2>3. h \in Functions
    BY <2>2
  <2>4. \A s \in SUBSET (k .. N) : h[s] = Summed(low, g, f, s)
    BY <2>1
  <2> HIDE DEF h
  <2>5. \A s \in SUBSET (k + 1 .. N) : s \in SUBSET (k .. N) /\ h[s] = f[s]
    BY <1>2, <2>4
  <2>6. \A s \in SUBSET (k .. N) : Summed(low, g, h, s) = Summed(low, g, f, s)
    <3> TAKE s \in SUBSET (k .. N)
    <3>1. CASE s = {}
      BY <3>1 DEF Summed
    <3>2. CASE s # {}
      <4>1. h[s \ {Min(s)}] = f[s \ {Min(s)}]
        BY <2>5, <3>2, RestOf
      <4>2. QED
        BY <3>2, <4>1 DEF Summed
    <3>3. QED
      BY <3>1, <3>2
  <2>7. QED
    BY <2>3, <2>4, <2>6
<1> HIDE DEF Sums, Functions
<1>3. N + 1 \notin wrong /\ \A k \in 1 .. N : k \in wrong => k + 1 \in wrong
  <2>1. \A k \in 1 .. N : k + 1 \in 1 .. N + 1
    OBVIOUS
  <2>2. QED
    BY <1>1, <1>2, <2>1
<1>4. wrong = {}
  BY <1>3, Downwards
<1>5. PICK f \in Functions : Sums(f, 1)
  <2>0. 1 \in 1 .. N + 1
    OBVIOUS
  <2>1. ~(1 \in 1 .. N + 1 /\ ~\E f \in Functions : Sums(f, 1))
    BY <1>4
  <2>2. QED
    BY <2>0, <2>1
<1>6. QED
  BY <1>5 DEF Sums, Functions

(* ... and it is what a fold chooses: nothing for no places, and for all   *)
(* from k on the place k and those after it.                               *)
LEMMA RestIs ==
  ASSUME NEW N \in Nat, NEW k \in 1 .. N
  PROVE  Min(k .. N) = k /\ (k .. N) \ {Min(k .. N)} = k + 1 .. N /\ k .. N # {}
<1>1. (k .. N) \in SUBSET Nat /\ k \in k .. N
  OBVIOUS
<1>2. Min(k .. N) \in k .. N /\ \A x \in k .. N : Min(k .. N) <= x
  BY <1>1, LeastOf
<1>3. Min(k .. N) = k
  BY <1>1, <1>2
<1>4. (k .. N) \ {k} = k + 1 .. N
  OBVIOUS
<1>5. QED
  BY <1>1, <1>3, <1>4

LEMMA SumChosen ==
  ASSUME NEW N \in Nat, NEW low \in [1 .. N -> Nat], NEW g \in Nat
  PROVE  \E f : f = [s \in SUBSET (1 .. N) |-> Summed(low, g, f, s)]
<1>1. PICK f \in [SUBSET (1 .. N) -> Nat] :
        \A s \in SUBSET (1 .. N) : f[s] = Summed(low, g, f, s)
  BY SumIsThere
<1>2. f = [s \in SUBSET (1 .. N) |-> f[s]]
  OBVIOUS
<1>3. [s \in SUBSET (1 .. N) |-> f[s]] = [s \in SUBSET (1 .. N) |-> Summed(low, g, f, s)]
  BY <1>1
<1>4. f = [s \in SUBSET (1 .. N) |-> Summed(low, g, f, s)]
  BY <1>2, <1>3
<1>5. QED
  BY <1>4

Sums(sum, N, low, g) == \A s \in SUBSET (1 .. N) : sum[s] = Summed(low, g, sum, s)

LEMMA SumSteps ==
  ASSUME NEW N \in Nat, NEW low, NEW g, NEW sum, Sums(sum, N, low, g)
  PROVE  /\ sum[{}] = 0
         /\ \A k \in 1 .. N : sum[k .. N] = low[k] + g * sum[k + 1 .. N]
<1>1. sum[{}] = 0
  BY DEF Summed, Sums
<1>2. \A k \in 1 .. N : sum[k .. N] = low[k] + g * sum[k + 1 .. N]
  <2> TAKE k \in 1 .. N
  <2>1. sum[k .. N] = Summed(low, g, sum, k .. N)
    BY DEF Sums
  <2>2. Min(k .. N) = k /\ (k .. N) \ {Min(k .. N)} = k + 1 .. N /\ k .. N # {}
    BY RestIs
  <2> DEFINE s == k .. N
  <2>3. Min(s) = k /\ s \ {Min(s)} = k + 1 .. N /\ s # {}
    BY <2>2
  <2> HIDE DEF s
  <2>4. Summed(low, g, sum, s) = low[k] + g * sum[k + 1 .. N]
    BY <2>3 DEF Summed
  <2>5. QED
    BY <2>1, <2>4 DEF s
<1>3. QED
  BY <1>1, <1>2

-----------------------------------------------------------------------------
(* The greatest element, as a CHOOSE, and the folds that take it first.    *)
LEMMA GreatestOf ==
  ASSUME NEW N \in Nat, NEW s \in SUBSET (1 .. N), s # {}
  PROVE  Max(s) \in s /\ \A x \in s : x <= Max(s)
<1>1. \E m \in s : \A x \in s : x <= m
  BY Greatest
<1>2. \E m \in s : \A x \in s : m >= x
  BY <1>1
<1>3. QED
  BY <1>2 DEF Max

(* A fold that applies functions, one after the other.                     *)
Applied(w, base, f, s) ==
  IF s = {} THEN base ELSE w[Max(s)][f[s \ {Max(s)}]]

LEMMA AppliedToSame ==
  ASSUME NEW w, NEW base, NEW f, NEW g, NEW s, s # {} => f[s \ {Max(s)}] = g[s \ {Max(s)}]
  PROVE  Applied(w, base, f, s) = Applied(w, base, g, s)
BY DEF Applied

LEMMA WithoutGreatest ==
  ASSUME NEW k \in Nat, NEW s \in SUBSET (1 .. k + 1), s # {}
  PROVE  s \ {Max(s)} \in SUBSET (1 .. k)
<1>1. k + 1 \in Nat
  OBVIOUS
<1>2. Max(s) \in s /\ \A x \in s : x <= Max(s)
  BY <1>1, GreatestOf
<1>3. ASSUME NEW x \in s \ {Max(s)} PROVE x \in 1 .. k
  <2>1. x \in 1 .. k + 1 /\ x <= Max(s) /\ x # Max(s) /\ Max(s) \in 1 .. k + 1
    BY <1>2
  <2>2. QED
    BY <2>1
<1>4. QED
  BY <1>3

LEMMA AppliedUpTo ==
  ASSUME NEW w, NEW base, NEW N \in Nat
  PROVE  \E f : f = [s \in SUBSET (1 .. N) |-> Applied(w, base, f, s)]
<1> DEFINE Applies(f, k) == f = [s \in SUBSET (1 .. k) |-> Applied(w, base, f, s)]
           wrong == {k \in Nat : ~\E f : Applies(f, k)}
<1>1. SUFFICES wrong = {}
  OBVIOUS
<1>2. SUFFICES ASSUME wrong # {} PROVE FALSE
  OBVIOUS
<1>3. PICK k \in wrong : \A l \in wrong : k <= l
  <2> HIDE DEF Applies
  <2>1. wrong \in SUBSET Nat
    OBVIOUS
  <2> HIDE DEF wrong
  <2>2. QED
    BY <1>2, <2>1, Least
<1>4. CASE k = 0
  <2> DEFINE f == [s \in SUBSET (1 .. k) |-> base]
  <2>1. \A s \in SUBSET (1 .. k) : s = {}
    BY <1>4
  <2>2. \A s \in SUBSET (1 .. k) : Applied(w, base, f, s) = base
    BY <2>1 DEF Applied
  <2>3. f = [s \in SUBSET (1 .. k) |-> Applied(w, base, f, s)]
    BY <2>2
  <2> HIDE DEF f
  <2>4. Applies(f, k)
    BY <2>3
  <2> HIDE DEF Applies
  <2>5. QED
    BY <1>3, <2>4
<1>5. CASE k # 0
  <2> DEFINE j == k - 1
  <2>1. j \in Nat /\ j + 1 = k /\ j \notin wrong
    <3> HIDE DEF Applies
    <3>1. QED
      BY <1>3, <1>5
  <2>2. PICK f : Applies(f, j)
    <3> HIDE DEF Applies, j
    <3>1. QED
      BY <2>1
  <2> HIDE DEF j
  <2> DEFINE h == [s \in SUBSET (1 .. k) |-> Applied(w, base, f, s)]
  <2>3. \A s \in SUBSET (1 .. j) : f[s] = Applied(w, base, f, s) /\ s \in SUBSET (1 .. k)
    <3>1. \A s \in SUBSET (1 .. j) : f[s] = Applied(w, base, f, s)
      BY <2>2
    <3>2. \A x \in 1 .. j : x \in 1 .. k
      BY <2>1
    <3>3. QED
      BY <3>1, <3>2
  <2>4. \A s \in SUBSET (1 .. j) : h[s] = f[s]
    BY <2>3
  <2>5. \A s \in SUBSET (1 .. k) : Applied(w, base, f, s) = Applied(w, base, h, s)
    <3> HIDE DEF h
    <3> TAKE s \in SUBSET (1 .. k)
    <3>1. s # {} => f[s \ {Max(s)}] = h[s \ {Max(s)}]
      <4> HAVE s # {}
      <4>1. s \ {Max(s)} \in SUBSET (1 .. j)
        BY <2>1, WithoutGreatest
      <4>2. QED
        BY <2>4, <4>1
    <3>2. QED
      BY <3>1, AppliedToSame
  <2>6. h = [s \in SUBSET (1 .. k) |-> Applied(w, base, h, s)]
    <3> DEFINE d == [s \in SUBSET (1 .. k) |-> Applied(w, base, h, s)]
    <3>1. h = d
      BY <2>5
    <3>2. QED
      BY <3>1
  <2> HIDE DEF h
  <2>7. Applies(h, k)
    BY <2>6
  <2> HIDE DEF Applies
  <2>8. QED
    BY <1>3, <2>7
<1>6. QED
  BY <1>4, <1>5
=============================================================================
