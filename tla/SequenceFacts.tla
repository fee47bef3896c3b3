---------------------------- MODULE SequenceFacts ----------------------------
(* Queues and lists as sets: what a sequence holds, and that it holds      *)
(* nothing twice; maxima of finite sets.  Lemmas that the proofs of        *)
(* several components use.                                                 *)
EXTENDS Integers, Sequences, FiniteSets, FiniteSetTheorems, WellFoundedInduction, TLAPS

Elements(s) == {s[i] : i \in DOMAIN s}
Distinct(s) == \A i, j \in DOMAIN s : s[i] = s[j] => i = j

LEMMA AppendElements ==
  ASSUME NEW S, NEW s \in Seq(S), NEW e \in S
  PROVE  /\ Elements(Append(s, e)) = Elements(s) \cup {e}
         /\ Distinct(s) /\ e \notin Elements(s) => Distinct(Append(s, e))
<1>1. /\ DOMAIN s = 1..Len(s) /\ DOMAIN Append(s, e) = 1..Len(s) + 1 /\ Len(s) \in Nat
      /\ \A i \in 1..Len(s) : Append(s, e)[i] = s[i]
      /\ Append(s, e)[Len(s) + 1] = e
  OBVIOUS
<1>2. 1..Len(s) + 1 = (1..Len(s)) \cup {Len(s) + 1}
  BY <1>1
<1> QED BY <1>1, <1>2 DEF Elements, Distinct

LEMMA TailElements ==
  ASSUME NEW S, NEW s \in Seq(S), s # <<>>
  PROVE  /\ Elements(s) = Elements(Tail(s)) \cup {Head(s)}
         /\ Distinct(s) => Distinct(Tail(s)) /\ Head(s) \notin Elements(Tail(s))
<1>1. /\ DOMAIN s = 1..Len(s) /\ DOMAIN Tail(s) = 1..Len(s) - 1 /\ Len(s) \in Nat \ {0}
      /\ \A i \in 1..Len(s) - 1 : Tail(s)[i] = s[i + 1]
      /\ Head(s) = s[1]
  OBVIOUS
<1>2. \A i \in 1..Len(s) : i = 1 \/ (i - 1 \in 1..Len(s) - 1 /\ s[i] = Tail(s)[i - 1])
  BY <1>1
<1>3. \A i \in 1..Len(s) - 1 : i + 1 \in 1..Len(s)
  BY <1>1
<1>4. Elements(s) = Elements(Tail(s)) \cup {Head(s)}
  <2>1. Elements(s) \subseteq Elements(Tail(s)) \cup {Head(s)}
    <3> SUFFICES ASSUME NEW i \in 1..Len(s) PROVE s[i] \in Elements(Tail(s)) \cup {Head(s)}
      BY <1>1 DEF Elements
    <3> QED BY <1>1, <1>2 DEF Elements
  <2>2. Elements(Tail(s)) \cup {Head(s)} \subseteq Elements(s)
    BY <1>1, <1>3 DEF Elements
  <2> QED BY <2>1, <2>2
<1>5. ASSUME Distinct(s) PROVE Distinct(Tail(s)) /\ Head(s) \notin Elements(Tail(s))
  <2>1. \A i, j \in 1..Len(s) - 1 : s[i + 1] = s[j + 1] => i = j
    BY <1>1, <1>3, <1>5 DEF Distinct
  <2>2. \A i \in 1..Len(s) - 1 : s[i + 1] # s[1]
    BY <1>1, <1>3, <1>5 DEF Distinct
  <2> QED BY <1>1, <2>1, <2>2 DEF Elements, Distinct
<1> QED BY <1>4, <1>5

(* A sequence is cut after its first k elements. *)
LEMMA CutElements ==
  ASSUME NEW S, NEW s \in Seq(S), NEW k \in 0..Len(s)
  PROVE  LET taken == {s[i] : i \in 1..k}
             left  == SubSeq(s, k + 1, Len(s))
         IN /\ left \in Seq(S) /\ Len(left) = Len(s) - k
            /\ taken \subseteq S
            /\ Elements(s) = taken \cup Elements(left)
            /\ Distinct(s) => Distinct(left) /\ taken \cap Elements(left) = {}
<1> DEFINE n == Len(s)
           left == SubSeq(s, k + 1, n)
           taken == {s[i] : i \in 1..k}
<1>1. /\ n \in Nat /\ k \in Nat /\ k <= n /\ DOMAIN s = 1..n
      /\ left \in Seq(S) /\ Len(left) = n - k /\ DOMAIN left = 1..(n - k)
      /\ \A i \in 1..(n - k) : left[i] = s[i + k]
      /\ \A i \in 1..n : s[i] \in S
  OBVIOUS
<1> HIDE DEF n, left
<1>2. \A i \in 1..n : i \in 1..k \/ (i - k \in 1..(n - k) /\ (i - k) + k = i)
  BY <1>1
<1>3. /\ \A i \in 1..(n - k) : i + k \in 1..n /\ i + k \notin 1..k
      /\ \A i \in 1..k : i \in 1..n
  BY <1>1
<1>4. Elements(s) \subseteq taken \cup Elements(left)
  <2> SUFFICES ASSUME NEW i \in 1..n PROVE s[i] \in taken \cup Elements(left)
    BY <1>1 DEF Elements
  <2>1. CASE i \in 1..k
    BY <2>1
  <2>2. CASE i - k \in 1..(n - k) /\ (i - k) + k = i
    <3>1. left[i - k] = s[i]
      BY <1>1, <2>2
    <3> QED BY <1>1, <2>2, <3>1 DEF Elements
  <2> QED BY <1>2, <2>1, <2>2
<1>5. taken \cup Elements(left) \subseteq Elements(s)
  BY <1>1, <1>3 DEF Elements
<1>6. ASSUME Distinct(s) PROVE Distinct(left) /\ taken \cap Elements(left) = {}
  <2>1. Distinct(left)
    <3> SUFFICES ASSUME NEW i \in 1..(n - k), NEW j \in 1..(n - k), left[i] = left[j]
                 PROVE  i = j
      BY <1>1 DEF Distinct
    <3>1. i + k = j + k
      BY <1>1, <1>3, <1>6 DEF Distinct
    <3> QED BY <1>1, <3>1
  <2>2. \A i \in 1..k : \A j \in 1..(n - k) : s[i] # left[j]
    <3> SUFFICES ASSUME NEW i \in 1..k, NEW j \in 1..(n - k), s[i] = left[j] PROVE FALSE
      OBVIOUS
    <3>1. i \in 1..n /\ j + k \in 1..n /\ i # j + k /\ left[j] = s[j + k]
      BY <1>1, <1>3
    <3> QED BY <1>1, <1>6, <3>1 DEF Distinct
  <2> QED BY <1>1, <2>1, <2>2 DEF Elements
<1>7. taken \subseteq S
  BY <1>1, <1>3
<1> QED BY <1>1, <1>4, <1>5, <1>6, <1>7 DEF n, left

(* The i-th element is taken out of a sequence. *)
LEMMA TakenOut ==
  ASSUME NEW S, NEW s \in Seq(S), Distinct(s), NEW i \in DOMAIN s
  PROVE  LET r == SubSeq(s, 1, i - 1) \o SubSeq(s, i + 1, Len(s))
         IN /\ r \in Seq(S) /\ Len(r) = Len(s) - 1
            /\ Distinct(r)
            /\ Elements(r) = Elements(s) \ {s[i]}
<1> DEFINE n == Len(s)
           r == SubSeq(s, 1, i - 1) \o SubSeq(s, i + 1, Len(s))
           before == SubSeq(s, 1, i - 1)
           after == SubSeq(s, i + 1, n)
<1>1. n \in Nat /\ DOMAIN s = 1..n /\ i \in 1..n
  OBVIOUS
<1>2. /\ before \in Seq(S) /\ Len(before) = i - 1
      /\ \A j \in 1..i - 1 : before[j] = s[j]
  BY <1>1
<1>3. /\ after \in Seq(S) /\ Len(after) = n - i
      /\ \A j \in 1..n - i : after[j] = s[j + i]
  BY <1>1
<1>4. r = before \o after
  OBVIOUS
<1> HIDE DEF n, r, before, after
<1>5. /\ r \in Seq(S) /\ Len(r) = n - 1 /\ DOMAIN r = 1..n - 1
      /\ \A j \in 1..n - 1 : r[j] = IF j < i THEN s[j] ELSE s[j + 1]
  <2>0. before \o after \in Seq(S) /\ Len(before \o after) = Len(before) + Len(after)
    <3>1. before \in Seq(S) /\ after \in Seq(S)
      BY <1>2, <1>3
    <3> QED BY <3>1
  <2>1. r \in Seq(S) /\ Len(r) = (i - 1) + (n - i)
    BY <1>2, <1>3, <1>4, <2>0
  <2>2. Len(r) = n - 1 /\ DOMAIN r = 1..n - 1
    BY <1>1, <2>1
  <2>3. ASSUME NEW j \in 1..n - 1 PROVE r[j] = IF j < i THEN s[j] ELSE s[j + 1]
    <3>1. CASE j < i
      <4>1. j \in 1..i - 1
        BY <1>1, <3>1
      <4> QED BY <1>2, <1>3, <1>4, <3>1, <4>1
    <3>2. CASE ~(j < i)
      <4>1. j - (i - 1) \in 1..n - i /\ (j - (i - 1)) + i = j + 1 /\ j > Len(before)
        BY <1>1, <1>2, <3>2
      <4>2. r[j] = after[j - (i - 1)]
        BY <1>1, <1>2, <1>3, <1>4, <4>1, SMTT(30)
      <4> QED BY <1>3, <3>2, <4>1, <4>2
    <3> QED BY <3>1, <3>2
  <2> QED BY <2>1, <2>2, <2>3
<1>6. Distinct(r)
  <2> SUFFICES ASSUME NEW j \in 1..n - 1, NEW k \in 1..n - 1, r[j] = r[k] PROVE j = k
    BY <1>5 DEF Distinct
  <2>1. j \in 1..n /\ k \in 1..n /\ j + 1 \in 1..n /\ k + 1 \in 1..n
    BY <1>1
  <2>2. \A a, b \in 1..n : s[a] = s[b] => a = b
    BY <1>1 DEF Distinct
  <2>3. r[j] = (IF j < i THEN s[j] ELSE s[j + 1]) /\ r[k] = (IF k < i THEN s[k] ELSE s[k + 1])
    BY <1>5
  <2>4. CASE j < i /\ k < i
    BY <2>1, <2>2, <2>3, <2>4
  <2>5. CASE j < i /\ ~(k < i)
    <3>1. s[j] = s[k + 1]
      BY <2>3, <2>5
    <3> QED BY <1>1, <2>1, <2>2, <2>5, <3>1
  <2>6. CASE ~(j < i) /\ k < i
    <3>1. s[j + 1] = s[k]
      BY <2>3, <2>6
    <3> QED BY <1>1, <2>1, <2>2, <2>6, <3>1
  <2>7. CASE ~(j < i) /\ ~(k < i)
    <3>1. s[j + 1] = s[k + 1]
      BY <2>3, <2>7
    <3> QED BY <1>1, <2>1, <2>2, <3>1
  <2> QED BY <2>4, <2>5, <2>6, <2>7
<1>7. Elements(r) = Elements(s) \ {s[i]}
  <2>1. ASSUME NEW j \in 1..n - 1 PROVE r[j] \in Elements(s) \ {s[i]}
    <3>1. j \in 1..n /\ j + 1 \in 1..n /\ (j < i => j # i) /\ (~(j < i) => j + 1 # i)
      BY <1>1
    <3>2. \A a \in 1..n : s[a] = s[i] => a = i
      BY <1>1 DEF Distinct
    <3> QED BY <1>1, <1>5, <3>1, <3>2 DEF Elements
  <2>2. ASSUME NEW j \in 1..n, j # i PROVE s[j] \in Elements(r)
    <3>1. CASE j < i
      <4>1. j \in 1..n - 1
        BY <1>1, <3>1
      <4> QED BY <1>5, <3>1, <4>1 DEF Elements
    <3>2. CASE j > i
      <4>1. j - 1 \in 1..n - 1 /\ ~(j - 1 < i) /\ (j - 1) + 1 = j
        BY <1>1, <3>2
      <4>2. r[j - 1] = s[j]
        BY <1>5, <4>1
      <4> QED BY <1>5, <4>1, <4>2 DEF Elements
    <3> QED BY <1>1, <2>2, <3>1, <3>2
  <2>3. Elements(r) \subseteq Elements(s) \ {s[i]}
    BY <1>5, <2>1 DEF Elements
  <2>4. Elements(s) \ {s[i]} \subseteq Elements(r)
    BY <1>1, <2>2 DEF Elements
  <2> QED BY <2>3, <2>4
<1> QED BY <1>5, <1>6, <1>7 DEF n, r

(* Of the counts up to n for which a test holds, beginning with zero, one  *)
(* is the last or the next fails.                                          *)
LEMMA LastCount ==
  ASSUME NEW n \in Nat, NEW good \in SUBSET (0..n), 0 \in good
  PROVE  \E k \in good : k < n => k + 1 \notin good
<1> DEFINE T == {j \in 0..n : n - j \in good}
<1>1. T \subseteq Nat /\ n \in T
  OBVIOUS
<1>2. PICK j \in T : \A i \in T : ~(<<i, j>> \in OpToRel(<, Nat))
  BY <1>1, NatLessThanWellFounded, WFMin
<1>3. \A i \in T : ~(i < j)
  BY <1>1, <1>2 DEF OpToRel
<1>4. j \in 0..n /\ n - j \in good
  OBVIOUS
<1>5. ASSUME n - j < n, (n - j) + 1 \in good PROVE FALSE
  <2>1. j - 1 \in 0..n /\ n - (j - 1) = (n - j) + 1
    BY <1>4, <1>5
  <2>2. j - 1 \in T /\ j - 1 < j
    BY <1>4, <1>5, <2>1
  <2> QED BY <1>3, <2>2
<1> QED BY <1>4, <1>5

LEMMA AppendItems ==
  ASSUME NEW S, NEW s \in Seq(S), NEW e \in S
  PROVE  /\ Append(s, e) \in Seq(S) /\ Len(Append(s, e)) = Len(s) + 1 /\ Len(s) \in Nat
         /\ DOMAIN s = 1..Len(s) /\ DOMAIN Append(s, e) = 1..Len(s) + 1
         /\ \A i \in 1..Len(s) : Append(s, e)[i] = s[i]
         /\ Append(s, e)[Len(s) + 1] = e
OBVIOUS

(* The members of a finite set have a highest one. *)
LEMMA HasMaximum ==
  ASSUME NEW A, IsFiniteSet(A), A # {}, NEW h \in [A -> Int]
  PROVE  \E i \in A : \A j \in A : h[j] <= h[i]
<1> DEFINE below(i) == {j \in A : h[j] <= h[i]}
           T == {Cardinality(A) - Cardinality(below(i)) : i \in A}
<1>1. \A i \in A : /\ IsFiniteSet(below(i)) /\ Cardinality(below(i)) \in Nat
                   /\ Cardinality(below(i)) <= Cardinality(A) /\ Cardinality(A) \in Nat
  <2> SUFFICES ASSUME NEW i \in A
               PROVE  /\ IsFiniteSet(below(i)) /\ Cardinality(below(i)) \in Nat
                      /\ Cardinality(below(i)) <= Cardinality(A) /\ Cardinality(A) \in Nat
    OBVIOUS
  <2>1. below(i) \in SUBSET A
    OBVIOUS
  <2> HIDE DEF below
  <2> QED BY <2>1, FS_Subset, FS_CardinalityType
<1>2. T \subseteq Nat /\ T # {}
  <2> HIDE DEF below
  <2> QED BY <1>1
<1>3. PICK t \in T : \A u \in T : ~(<<u, t>> \in OpToRel(<, Nat))
  BY <1>2, NatLessThanWellFounded, WFMin
<1>4. \A u \in T : ~(u < t)
  BY <1>2, <1>3 DEF OpToRel
<1>5. PICK i \in A : t = Cardinality(A) - Cardinality(below(i))
  OBVIOUS
<1>6. SUFFICES ASSUME NEW j \in A, ~(h[j] <= h[i]) PROVE FALSE
  OBVIOUS
<1>7. below(i) \in SUBSET below(j) /\ j \in below(j) /\ j \notin below(i)
  BY <1>6
<1>8. Cardinality(A) - Cardinality(below(j)) \in T
  OBVIOUS
<1> HIDE DEF below, T
<1>9. Cardinality(below(i)) <= Cardinality(below(j)) /\ Cardinality(below(i)) # Cardinality(below(j))
  BY <1>1, <1>7, FS_Subset
<1> QED BY <1>1, <1>4, <1>5, <1>8, <1>9

(* Sets that differ in one member at most *)
LEMMA OneChanges ==
  ASSUME NEW A, NEW B, NEW s, IsFiniteSet(A), A \ {s} = B \ {s}
  PROVE  /\ IsFiniteSet(B) /\ Cardinality(A) \in Nat /\ Cardinality(B) \in Nat
         /\ Cardinality(B) = Cardinality(A) - (IF s \in A THEN 1 ELSE 0) + (IF s \in B THEN 1 ELSE 0)
<1> DEFINE C == A \ {s}
<1>1. IsFiniteSet(C) /\ Cardinality(C) = IF s \in A THEN Cardinality(A) - 1 ELSE Cardinality(A)
  BY FS_RemoveElement
<1>2. B = IF s \in B THEN C \cup {s} ELSE C
  OBVIOUS
<1>3. IsFiniteSet(C \cup {s}) /\ Cardinality(C \cup {s}) = Cardinality(C) + 1
  <2>1. s \notin C
    OBVIOUS
  <2> HIDE DEF C
  <2> QED BY <1>1, <2>1, FS_AddElement
<1> HIDE DEF C
<1>4. IsFiniteSet(B)
  BY <1>1, <1>2, <1>3
<1>5. Cardinality(A) \in Nat /\ Cardinality(B) \in Nat
  BY <1>4, FS_CardinalityType
<1>6. CASE s \in B
  <2>1. Cardinality(B) = Cardinality(C) + 1
    BY <1>2, <1>3, <1>6
  <2> QED BY <1>1, <1>4, <1>5, <1>6, <2>1
<1>7. CASE s \notin B
  <2>1. Cardinality(B) = Cardinality(C)
    BY <1>2, <1>7
  <2> QED BY <1>1, <1>4, <1>5, <1>7, <2>1
<1> QED BY <1>6, <1>7

-----------------------------------------------------------------------------
(* Sums of natural numbers over a finite set, counted as pairs *)

Total(S, f) == Cardinality(UNION {{x} \X (1..f[x]) : x \in S})

LEMMA TotalOfOne ==
  ASSUME NEW x, NEW n \in Nat
  PROVE  IsFiniteSet({x} \X (1..n)) /\ Cardinality({x} \X (1..n)) = n
<1> DEFINE one == {x}
           items == 1..n
<1>1. IsFiniteSet(items) /\ Cardinality(items) = n
  BY FS_Interval, SMTT(30)
<1>2. IsFiniteSet(one) /\ Cardinality(one) = 1
  BY FS_Singleton
<1> HIDE DEF one, items
<1>3. IsFiniteSet(one \X items) /\ Cardinality(one \X items) = Cardinality(one) * Cardinality(items)
  BY <1>1, <1>2, FS_Product
<1>4. Cardinality(one \X items) = n
  BY <1>1, <1>2, <1>3
<1> QED BY <1>3, <1>4 DEF one, items

LEMMA TotalFinite ==
  ASSUME NEW S, IsFiniteSet(S), NEW f, \A x \in S : f[x] \in Nat
  PROVE  IsFiniteSet(UNION {{x} \X (1..f[x]) : x \in S}) /\ Total(S, f) \in Nat
<1> DEFINE parts == {{x} \X (1..f[x]) : x \in S}
           part  == [x \in S |-> {x} \X (1..f[x])]
<1>1. part \in Surjection(S, parts)
  BY DEF Surjection
<1>2. IsFiniteSet(parts)
  BY <1>1, FS_Surjection
<1>3. \A x \in S : IsFiniteSet({x} \X (1..f[x]))
  BY TotalOfOne
<1>4. IsFiniteSet(UNION parts)
  BY <1>2, <1>3, FS_UNION
<1> QED BY <1>4, FS_CardinalityType DEF Total

LEMMA TotalEmpty == ASSUME NEW f PROVE Total({}, f) = 0
<1>1. UNION {{x} \X (1..f[x]) : x \in {}} = {}
  OBVIOUS
<1> QED BY <1>1, FS_EmptySet DEF Total

(* One more term *)
LEMMA TotalAdds ==
  ASSUME NEW S, IsFiniteSet(S), NEW x, x \notin S, NEW f, \A y \in S \cup {x} : f[y] \in Nat
  PROVE  Total(S \cup {x}, f) = Total(S, f) + f[x]
<1> DEFINE rest == UNION {{y} \X (1..f[y]) : y \in S}
           all == UNION {{y} \X (1..f[y]) : y \in S \cup {x}}
           new == {x} \X (1..f[x])
<1>1. all = rest \cup new
  OBVIOUS
<1>2. rest \cap new = {}
  OBVIOUS
<1>3. IsFiniteSet(rest) /\ Cardinality(rest) \in Nat
  BY TotalFinite, FS_CardinalityType
<1>4. IsFiniteSet(new) /\ Cardinality(new) = f[x] /\ f[x] \in Nat
  BY TotalOfOne
<1>5. Total(S, f) = Cardinality(rest) /\ Total(S \cup {x}, f) = Cardinality(all)
  BY DEF Total
<1> HIDE DEF rest, all, new
<1>6. Cardinality(rest \cup new) = Cardinality(rest) + Cardinality(new) - Cardinality(rest \cap new)
  BY <1>3, <1>4, FS_Union
<1>7. Cardinality(rest \cap new) = 0
  BY <1>2, FS_EmptySet
<1>8. Cardinality(all) = Cardinality(rest) + f[x]
  BY <1>1, <1>3, <1>4, <1>6, <1>7
<1> QED BY <1>5, <1>8

LEMMA TotalSame ==
  ASSUME NEW S, NEW f, NEW g, \A x \in S : f[x] = g[x]
  PROVE  Total(S, f) = Total(S, g)
<1>1. \A x \in S : {x} \X (1..f[x]) = {x} \X (1..g[x])
  OBVIOUS
<1>2. {{x} \X (1..f[x]) : x \in S} = {{x} \X (1..g[x]) : x \in S}
  BY <1>1
<1> QED BY <1>2 DEF Total

(* One term changes, or comes or goes with its index. *)
LEMMA TotalChanges ==
  ASSUME NEW A, NEW B, NEW s, IsFiniteSet(A), A \ {s} = B \ {s},
         NEW f, NEW g, \A x \in A : f[x] \in Nat, \A x \in B : g[x] \in Nat,
         \A x \in A \ {s} : f[x] = g[x]
  PROVE  /\ Total(A, f) \in Nat /\ Total(B, g) \in Nat
         /\ Total(B, g) = Total(A, f) - (IF s \in A THEN f[s] ELSE 0) + (IF s \in B THEN g[s] ELSE 0)
<1> DEFINE C == A \ {s}
<1>1. IsFiniteSet(C) /\ IsFiniteSet(B)
  BY FS_RemoveElement, OneChanges
<1>2. s \notin C /\ (s \in A => A = C \cup {s}) /\ (s \notin A => A = C)
      /\ (s \in B => B = C \cup {s}) /\ (s \notin B => B = C)
      /\ (\A x \in C : f[x] \in Nat /\ g[x] \in Nat /\ f[x] = g[x])
      /\ (s \in A => f[s] \in Nat) /\ (s \in B => g[s] \in Nat)
  OBVIOUS
<1> HIDE DEF C
<1>3. Total(C, f) = Total(C, g) /\ Total(C, f) \in Nat /\ Total(C, g) \in Nat
  BY <1>1, <1>2, TotalSame, TotalFinite
<1>4. Total(A, f) = Total(C, f) + (IF s \in A THEN f[s] ELSE 0)
  <2>1. CASE s \in A
    <3>1. Total(C \cup {s}, f) = Total(C, f) + f[s]
      BY <1>1, <1>2, <2>1, TotalAdds
    <3> QED BY <1>2, <2>1, <3>1
  <2>2. CASE s \notin A
    BY <1>2, <1>3, <2>2
  <2> QED BY <2>1, <2>2
<1>5. Total(B, g) = Total(C, g) + (IF s \in B THEN g[s] ELSE 0)
  <2>1. CASE s \in B
    <3>1. Total(C \cup {s}, g) = Total(C, g) + g[s]
      BY <1>1, <1>2, <2>1, TotalAdds
    <3> QED BY <1>2, <2>1, <3>1
  <2>2. CASE s \notin B
    BY <1>2, <1>3, <2>2
  <2> QED BY <2>1, <2>2
<1>6. (IF s \in A THEN f[s] ELSE 0) \in Nat /\ (IF s \in B THEN g[s] ELSE 0) \in Nat
  BY <1>2
<1> QED BY <1>3, <1>4, <1>5, <1>6
=============================================================================
