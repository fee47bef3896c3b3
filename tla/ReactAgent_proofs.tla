-------------------------- MODULE ReactAgent_proofs --------------------------
(***************************************************************************)
(* Theorems about ReactAgent, for all of its settings, for any calls that  *)
(* a model may make and however long it goes on.                           *)
(*                                                                         *)
(* First lemmas about lists of messages: what a selection of a list keeps  *)
(* of it (At, Enum), when a list is a part of another (Part), and when it  *)
(* is Good, that is, a conversation in which no message or call is there   *)
(* twice and each call has its result, but for those that are open.  Then  *)
(* what trimming, clearing, summarizing and the removal of submissions     *)
(* make of a good list, the invariant Inv, its proof, and the theorems.    *)
(***************************************************************************)
EXTENDS ReactAgent, FiniteSetTheorems, WellFoundedInduction, TLAPS

-----------------------------------------------------------------------------
(* The elements of a sequence at some indices *)

Row(f, n, s, I) ==
  IF n = 0 THEN <<>> ELSE IF n \in I THEN Append(f[n - 1], s[n]) ELSE f[n - 1]

(* A function is defined along a sequence from the value before. *)
LEMMA TakenExists ==
  ASSUME NEW S, NEW s \in Seq(S), NEW I
  PROVE  \E f : f = [i \in 0..Len(s) |-> Row(f, i, s, I)]
<1> DEFINE n == Len(s)
           P(m) == \E f : f = [i \in 0..m |-> Row(f, i, s, I)]
           T == {m \in 0..n : ~P(m)}
<1>0. n \in Nat
  OBVIOUS
<1> HIDE DEF n
<1>1. P(0)
  <2> DEFINE g == [i \in 0..0 |-> <<>>]
  <2>1. \A i \in 0..0 : Row(g, i, s, I) = <<>>
    BY DEF Row
  <2>2. g = [i \in 0..0 |-> Row(g, i, s, I)]
    BY <2>1
  <2> QED BY <2>2
<1>2. ASSUME NEW m \in 1..n, P(m - 1) PROVE P(m)
  <2>1. PICK f : f = [i \in 0..m - 1 |-> Row(f, i, s, I)]
    BY <1>2
  <2> DEFINE g == [i \in 0..m |-> IF i = m THEN Row(f, m, s, I) ELSE f[i]]
  <2>2. ASSUME NEW i \in 0..m PROVE g[i] = Row(g, i, s, I)
    <3>1. i # 0 => i - 1 \in 0..m /\ i - 1 # m /\ i - 1 \in 0..m - 1
      BY <1>0
    <3>2. i # 0 => g[i - 1] = f[i - 1]
      BY <3>1
    <3>3. Row(g, i, s, I) = Row(f, i, s, I)
      BY <3>2 DEF Row
    <3>4. i # m => i \in 0..m - 1
      BY <1>0
    <3>5. i # m => f[i] = Row(f, i, s, I)
      BY <2>1, <3>4
    <3> QED BY <3>3, <3>5
  <2>3. g = [i \in 0..m |-> Row(g, i, s, I)]
    <3> HIDE DEF g
    <3>1. g = [i \in 0..m |-> g[i]]
      BY DEF g
    <3> QED BY <2>2, <3>1
  <2> QED BY <2>3
<1>3. ASSUME T # {} PROVE FALSE
  <2> HIDE DEF P
  <2>1. T \subseteq Nat
    BY <1>0
  <2>2. PICK m \in T : \A i \in T : ~(<<i, m>> \in OpToRel(<, Nat))
    BY <1>3, <2>1, NatLessThanWellFounded, WFMin
  <2>3. \A i \in T : ~(i < m)
    BY <2>1, <2>2 DEF OpToRel
  <2>4. m \in 0..n /\ ~P(m)
    OBVIOUS
  <2>5. m # 0
    BY <1>1, <2>4
  <2>6. m \in 1..n /\ m - 1 \in 0..n /\ m - 1 < m
    BY <1>0, <2>4, <2>5
  <2>7. P(m - 1)
    BY <2>3, <2>6
  <2> QED BY <1>2, <2>4, <2>6, <2>7
<1>4. n \in 0..n
  BY <1>0
<1>5. P(n)
  BY <1>3, <1>4
<1> QED BY <1>5 DEF n

(* Sequence r has the elements of s at the indices in I: h tells where. *)
Enum(h, r, s, I) ==
  /\ h \in [1..Len(r) -> DOMAIN s]
  /\ \A k \in 1..Len(r) : h[k] \in I /\ r[k] = s[h[k]]
  /\ \A k, l \in 1..Len(r) : k < l => h[k] < h[l]
  /\ \A i \in DOMAIN s : i \in I => \E k \in 1..Len(r) : h[k] = i

(* The first n elements of s, as far as they are taken *)
EnumTo(n, h, r, s, I) ==
  /\ h \in [1..Len(r) -> 1..n]
  /\ \A k \in 1..Len(r) : h[k] \in I /\ r[k] = s[h[k]]
  /\ \A k, l \in 1..Len(r) : k < l => h[k] < h[l]
  /\ \A i \in 1..n : i \in I => \E k \in 1..Len(r) : h[k] = i

(* One more element is taken, or passed over.                              *)
LEMMA EnumGrows ==
  ASSUME NEW S, NEW s \in Seq(S), NEW I, NEW r \in Seq(S), NEW n \in 1..Len(s),
         NEW h, EnumTo(n - 1, h, r, s, I)
  PROVE  \E g : EnumTo(n, g, IF n \in I THEN Append(r, s[n]) ELSE r, s, I)
<1> DEFINE m == Len(r)
           q == Append(r, s[n])
           g == [k \in 1..m + 1 |-> IF k = m + 1 THEN n ELSE h[k]]
<1>1. /\ s[n] \in S /\ m \in Nat /\ n \in Nat
      /\ q \in Seq(S) /\ Len(q) = m + 1 /\ q[m + 1] = s[n]
      /\ \A k \in 1..m : q[k] = r[k]
  OBVIOUS
<1> HIDE DEF m, q
<1>2. /\ h \in [1..m -> 1..n - 1]
      /\ \A k \in 1..m : h[k] \in I /\ r[k] = s[h[k]]
      /\ \A k, l \in 1..m : k < l => h[k] < h[l]
      /\ \A i \in 1..n - 1 : i \in I => \E k \in 1..m : h[k] = i
  BY DEF EnumTo, m
<1>3. CASE n \notin I
  <2>1. h \in [1..m -> 1..n]
    BY <1>1, <1>2
  <2>2. \A i \in 1..n : i \in I => i \in 1..n - 1
    BY <1>1, <1>3
  <2>3. EnumTo(n, h, r, s, I)
    BY <1>2, <2>1, <2>2 DEF EnumTo, m
  <2> QED BY <1>3, <2>3
<1>4. CASE n \in I
  <2>1. /\ g[m + 1] = n
        /\ \A k \in 1..m : k \in 1..m + 1 /\ k # m + 1 /\ g[k] = h[k]
    BY <1>1
  <2>2. \A k \in 1..m + 1 : k = m + 1 \/ k \in 1..m
    BY <1>1
  <2>3. g \in [1..m + 1 -> 1..n]
    BY <1>1, <1>2, <2>2
  <2> HIDE DEF g
  <2>4. \A k \in 1..m + 1 : g[k] \in I /\ q[k] = s[g[k]]
    BY <1>1, <1>2, <1>4, <2>1, <2>2
  <2>5. ASSUME NEW k \in 1..m + 1, NEW l \in 1..m + 1, k < l PROVE g[k] < g[l]
    <3>1. k \in 1..m /\ g[k] = h[k] /\ h[k] \in 1..n - 1
      BY <1>1, <1>2, <2>1, <2>5
    <3>2. CASE l = m + 1
      BY <1>1, <2>1, <3>1, <3>2
    <3>3. CASE l \in 1..m
      BY <1>2, <2>1, <2>5, <3>1, <3>3
    <3> QED BY <2>2, <3>2, <3>3
  <2>6. ASSUME NEW i \in 1..n, i \in I PROVE \E k \in 1..m + 1 : g[k] = i
    <3>1. CASE i = n
      BY <1>1, <2>1, <3>1
    <3>2. CASE i # n
      <4>1. i \in 1..n - 1
        BY <1>1, <3>2
      <4> QED BY <1>2, <2>1, <2>6, <4>1
    <3> QED BY <3>1, <3>2
  <2>7. EnumTo(n, g, q, s, I)
    BY <1>1, <2>3, <2>4, <2>5, <2>6 DEF EnumTo
  <2> QED BY <1>4, <2>7 DEF q
<1> QED BY <1>3, <1>4

(* At lists the elements at the indices in I, in order.                    *)
LEMMA AtEnum ==
  ASSUME NEW S, NEW s \in Seq(S), NEW I
  PROVE  /\ At(s, I) \in Seq(S)
         /\ \E h : Enum(h, At(s, I), s, I)
<1>0. \E f : f = [n \in 0..Len(s) |-> Row(f, n, s, I)]
  BY TakenExists
<1>1. PICK f : f = [n \in 0..Len(s) |-> Row(f, n, s, I)] /\ At(s, I) = f[Len(s)]
  BY <1>0 DEF At, Row
<1> DEFINE P(n) == f[n] \in Seq(S) /\ \E h : EnumTo(n, h, f[n], s, I)
           T == {n \in 0..Len(s) : ~P(n)}
<1>2. P(0)
  <2>1. f[0] = <<>>
    BY <1>1 DEF Row
  <2>2. EnumTo(0, <<>>, <<>>, s, I)
    BY DEF EnumTo
  <2> QED BY <2>1, <2>2
<1>3. ASSUME NEW n \in 1..Len(s), P(n - 1) PROVE P(n)
  <2>1. n \in 0..Len(s) /\ n # 0 /\ s[n] \in S
    OBVIOUS
  <2>2. f[n] = IF n \in I THEN Append(f[n - 1], s[n]) ELSE f[n - 1]
    BY <1>1, <2>1 DEF Row
  <2>3. PICK h : EnumTo(n - 1, h, f[n - 1], s, I)
    BY <1>3
  <2>4. \E g : EnumTo(n, g, IF n \in I THEN Append(f[n - 1], s[n]) ELSE f[n - 1], s, I)
    BY <1>3, <2>3, EnumGrows
  <2>5. f[n] \in Seq(S)
    BY <1>3, <2>1, <2>2
  <2> QED BY <2>2, <2>4, <2>5
<1>4. T = {}
  <2> HIDE DEF P
  <2>1. SUFFICES ASSUME T # {} PROVE FALSE
    OBVIOUS
  <2>2. T \subseteq Nat
    OBVIOUS
  <2>3. PICK n \in T : \A i \in T : ~(<<i, n>> \in OpToRel(<, Nat))
    BY <2>1, <2>2, NatLessThanWellFounded, WFMin
  <2>4. \A i \in T : ~(i < n)
    BY <2>2, <2>3 DEF OpToRel
  <2>5. n \in 0..Len(s) /\ ~P(n) /\ n # 0
    BY <1>2
  <2>6. n \in 1..Len(s) /\ n - 1 \in 0..Len(s) /\ n - 1 < n
    BY <2>5
  <2> QED BY <1>3, <2>4, <2>5, <2>6
<1>5. P(Len(s))
  <2> HIDE DEF P
  <2>1. Len(s) \in 0..Len(s)
    OBVIOUS
  <2> QED BY <1>4, <2>1
<1>6. PICK h : EnumTo(Len(s), h, f[Len(s)], s, I)
  BY <1>5
<1>7. Enum(h, f[Len(s)], s, I)
  BY <1>6 DEF Enum, EnumTo
<1> QED BY <1>1, <1>5, <1>7

(* Neighbours that are taken remain neighbours. *)
Adjacent(h, r, s, I) ==
  \A k \in DOMAIN r :
    /\ h[k] + 1 \in DOMAIN s \cap I => k + 1 \in DOMAIN r /\ h[k + 1] = h[k] + 1
    /\ h[k] - 1 \in DOMAIN s \cap I => k - 1 \in DOMAIN r /\ h[k - 1] = h[k] - 1

(* So they do in what At gives.                                            *)
LEMMA Neighbours ==
  ASSUME NEW S, NEW s \in Seq(S), NEW I, NEW r \in Seq(S), NEW h, Enum(h, r, s, I)
  PROVE  Adjacent(h, r, s, I)
<1> SUFFICES ASSUME NEW k \in 1..Len(r)
             PROVE  /\ h[k] + 1 \in DOMAIN s \cap I => k + 1 \in 1..Len(r) /\ h[k + 1] = h[k] + 1
                    /\ h[k] - 1 \in DOMAIN s \cap I => k - 1 \in 1..Len(r) /\ h[k - 1] = h[k] - 1
  BY DEF Adjacent
<1>1. DOMAIN s = 1..Len(s) /\ Len(s) \in Nat /\ Len(r) \in Nat
  OBVIOUS
<1>2. /\ \A l \in 1..Len(r) : h[l] \in 1..Len(s)
      /\ \A l, m \in 1..Len(r) : l < m => h[l] < h[m]
      /\ \A i \in DOMAIN s : i \in I => \E l \in 1..Len(r) : h[l] = i
  BY <1>1 DEF Enum
<1>3. ASSUME h[k] + 1 \in DOMAIN s \cap I
      PROVE  k + 1 \in 1..Len(r) /\ h[k + 1] = h[k] + 1
  <2>1. PICK l \in 1..Len(r) : h[l] = h[k] + 1
    BY <1>2, <1>3
  <2>2. k < l
    BY <1>1, <1>2, <2>1
  <2>3. ~(k + 1 < l)
    <3> SUFFICES ASSUME k + 1 < l PROVE FALSE
      OBVIOUS
    <3>1. k + 1 \in 1..Len(r) /\ k < k + 1
      BY <1>1
    <3>2. h[k] < h[k + 1] /\ h[k + 1] < h[l]
      BY <1>2, <3>1
    <3> QED BY <1>2, <2>1, <3>1, <3>2
  <2>4. l = k + 1
    BY <2>2, <2>3
  <2> QED BY <2>1, <2>4
<1>4. ASSUME h[k] - 1 \in DOMAIN s \cap I
      PROVE  k - 1 \in 1..Len(r) /\ h[k - 1] = h[k] - 1
  <2>1. PICK l \in 1..Len(r) : h[l] = h[k] - 1
    BY <1>2, <1>4
  <2>2. l < k
    BY <1>1, <1>2, <2>1
  <2>3. ~(l < k - 1)
    <3> SUFFICES ASSUME l < k - 1 PROVE FALSE
      OBVIOUS
    <3>1. k - 1 \in 1..Len(r) /\ k - 1 < k
      BY <1>1
    <3>2. h[k - 1] < h[k] /\ h[l] < h[k - 1]
      BY <1>2, <3>1
    <3> QED BY <1>2, <2>1, <3>1, <3>2
  <2>4. l = k - 1
    BY <2>2, <2>3
  <2> QED BY <2>1, <2>4
<1> QED BY <1>3, <1>4

-----------------------------------------------------------------------------
(* Lists of messages *)

Functions == {Transfer, Memory} \cup UNION {ToSet(turn) : turn \in Turns}
CallSet == [id : Nat \ {0}, function : Functions]
MessageSet ==
  {m \in [id : Int, role : {"system", "user", "assistant", "tool"},
          origin : {"input", "run", "summary", "warning"}, calls : Seq(CallSet),
          call : CallSet \cup {NoCall}] :
     /\ m.calls # <<>> => m.role = "assistant"
     /\ m.role = "tool" <=> m.call # NoCall
     /\ m.origin = "input" => m.role = "user"}

(* The calls that a message makes or answers *)
Concerns(m) == ToSet(m.calls) \cup ({m.call} \ {NoCall})

(* No message is there twice, edited or not; no call is answered twice;    *)
(* and a call is known by its id.                                          *)
Unique(list) ==
  /\ \A i, j \in DOMAIN list : list[i].id \in {list[j].id, -list[j].id} => i = j
  /\ \A i, j \in DOMAIN list : list[i].call # NoCall /\ list[i].call = list[j].call => i = j
  /\ \A i, j \in DOMAIN list : \A c \in Concerns(list[i]), d \in Concerns(list[j]) :
       c.id = d.id => c = d

Bounded(list, n) ==
  \A i \in DOMAIN list : list[i].id \in -n..n /\ \A c \in Concerns(list[i]) : c.id <= n

(* A result follows its call, and all calls but the open ones have one.    *)
Closed(list, open) ==
  /\ \A i \in DOMAIN list : list[i].role = "tool" =>
       \E j \in 1..i - 1 : list[i].call \in ToSet(list[j].calls)
  /\ \A i \in DOMAIN list : \A c \in ToSet(list[i].calls) :
       c \in open \/ \E j \in DOMAIN list : list[j].call = c
  /\ \A i \in DOMAIN list : list[i].call \notin open
  /\ \A c \in open : \E i \in DOMAIN list : c \in ToSet(list[i].calls)

Good(list, open, n) ==
  /\ list \in Seq(MessageSet)
  /\ Unique(list) /\ Bounded(list, n) /\ Closed(list, open)

(* The messages at the start that make a call, which the next ones answer  *)
Callers(start) == IF Len(start) = 6 THEN {3, 5} ELSE {}
CallOf(p) == IF p = 3 THEN Call(3, Memory) ELSE Call(5, Transfer)

(* A message and the next one of the start are side by side. *)
Paired(list, p) ==
  \A i \in DOMAIN list :
    /\ list[i].id = p => i + 1 \in DOMAIN list /\ list[i + 1].id = p + 1
    /\ list[i].id = p + 1 => i - 1 \in DOMAIN list /\ list[i - 1].id = p

(* The messages at the start: as they were where they are, a call and its  *)
(* result side by side; all of them are there.                             *)
Original(list, start) ==
  \A i \in DOMAIN list : list[i].id \in -Len(start)..Len(start) =>
    list[i].id \in DOMAIN start /\ list[i] = start[list[i].id]

Marked(list, start) ==
  /\ Original(list, start)
  /\ \A p \in Callers(start) : Paired(list, p)

Present(list, start) == \A p \in DOMAIN start : \E i \in DOMAIN list : list[i].id = p

HasInput(s) == \E i \in DOMAIN s : s[i].origin = "input"

Within(list, n) == \A i \in DOMAIN list : list[i].id \in -n..n

(* What the compaction has not seen yet *)
UnseenOf(kept, seen) == At(kept, {i \in DOMAIN kept : kept[i].id \notin seen})

(* The messages since the last compaction end the list. *)
EndsWith(kept, list, n) ==
  /\ Len(kept) - n <= Len(list)
  /\ \A k \in n + 1..Len(kept) : list[Len(list) - (Len(kept) - k)] = kept[k]

StartOf(handed) == <<System(1)>> \o (IF handed THEN HandedOff ELSE <<Input(2)>>)

-----------------------------------------------------------------------------
(* The inductive invariant *)

Running == pc \notin Over
Kept == IF pc = "overflow" THEN Front(messages) ELSE messages
Open == IF pc = "tools" THEN ToSet(Last(messages).calls) ELSE {}
Whole == compacted \o UnseenOf(Kept, processed)

(* The history: in order but for the last message, which did not fit and   *)
(* is going to be dropped, and the calls that are going to be answered.    *)
HistoryInv ==
  /\ Good(Kept, Open, last_id) /\ HasInput(Kept)
  /\ pc = "overflow" => messages = Append(Kept, Assistant(last_id + 1, <<>>))
  /\ pc = "tools" => messages # <<>> /\ \A n, k \in DOMAIN Last(messages).calls :
                       Last(messages).calls[n] = Last(messages).calls[k] => n = k
  /\ settled <= Len(Kept)
  /\ attempts < setting.attempts
  /\ prefix = StartOf(setting.handed_off) /\ last_id >= Len(prefix)

(* What holds of the compacted input whatever the strategy *)
ListsInv ==
  /\ last_id \in Nat /\ warned \in BOOLEAN
  /\ compacted \in Seq(MessageSet) /\ Within(compacted, last_id) /\ Within(input, last_id)
  /\ processed \subseteq -last_id..last_id
  /\ pc = "model" => input = IF setting.strategy = "none" THEN messages ELSE compacted

(* The compacted input with what is new stands for the history: it has the *)
(* messages at the start, and ends with what has come since.               *)
SinceInv ==
  /\ Present(Whole, prefix)
  /\ EndsWith(Kept, Unwarned(Whole), settled)
  /\ pc \in {"model", "overflow"} => Ids(Kept) \subseteq processed

(* Whether it is good, too, unless a message at the start was edited: the  *)
(* result of the handoff, say, cleared, has another id, and compact_fn()   *)
(* misses it and puts it in front once more.                               *)
CompactInv == Good(Whole, Open, last_id) /\ Marked(Whole, prefix)

CompactedInv ==
  setting.strategy # "none" => SinceInv /\ (~PrefixEdited => CompactInv)

LoopInv == HistoryInv /\ ListsInv /\ CompactedInv

Inv == FinalHistory /\ (Running => LoopInv)

-----------------------------------------------------------------------------
(* What At gives: one list only, all of it or none of it                   *)

(* A set of naturals that is not empty has a least element. *)
LEMMA Least ==
  ASSUME NEW T, T \subseteq Nat, T # {}
  PROVE  \E n \in T : \A m \in T : n <= m
<1>1. PICK n \in T : \A m \in T : ~(<<m, n>> \in OpToRel(<, Nat))
  BY NatLessThanWellFounded, WFMin
<1>2. \A m \in T : ~(m < n)
  BY <1>1 DEF OpToRel
<1> QED BY <1>2

(* There is but one way to list the elements at some indices. *)
LEMMA EnumLeads ==
  ASSUME NEW S, NEW s \in Seq(S), NEW I, NEW r \in Seq(S), NEW q \in Seq(S),
         NEW h, Enum(h, r, s, I), NEW g, Enum(g, q, s, I),
         NEW k \in 1..Len(r)
  PROVE  k \in 1..Len(q) /\ g[k] = h[k]
<1>1. DOMAIN s = 1..Len(s) /\ Len(s) \in Nat /\ Len(r) \in Nat /\ Len(q) \in Nat
  OBVIOUS
<1>2. /\ \A l \in 1..Len(r) : h[l] \in 1..Len(s) /\ h[l] \in I
      /\ \A l, m \in 1..Len(r) : l < m => h[l] < h[m]
      /\ \A i \in DOMAIN s : i \in I => \E l \in 1..Len(r) : h[l] = i
  BY <1>1 DEF Enum
<1>3. /\ \A l \in 1..Len(q) : g[l] \in 1..Len(s) /\ g[l] \in I
      /\ \A l, m \in 1..Len(q) : l < m => g[l] < g[m]
      /\ \A i \in DOMAIN s : i \in I => \E l \in 1..Len(q) : g[l] = i
  BY <1>1 DEF Enum
<1> DEFINE T == {l \in 1..Len(r) : ~(l \in 1..Len(q) /\ g[l] = h[l])}
<1>4. ASSUME T # {} PROVE FALSE
  <2>0. T \subseteq Nat
    OBVIOUS
  <2>1. PICK l \in T : \A m \in T : l <= m
    <3> HIDE DEF T
    <3> QED BY <2>0, <1>4, Least
  <2>2. l \in 1..Len(r) /\ ~(l \in 1..Len(q) /\ g[l] = h[l])
    BY <2>1
  <2>3. ASSUME NEW m \in 1..Len(r), m < l PROVE m \in 1..Len(q) /\ g[m] = h[m]
    BY <2>1, <2>3
  <2> HIDE DEF T
  <2>4. PICK m \in 1..Len(q) : g[m] = h[l]
    BY <1>1, <1>2, <1>3, <2>2
  <2>5. ~(m < l)
    BY <1>1, <1>2, <2>2, <2>3, <2>4
  <2>6. m # l
    BY <2>2, <2>4
  <2>7. l \in 1..Len(q) /\ g[l] < h[l]
    BY <1>1, <1>3, <2>2, <2>4, <2>5, <2>6
  <2>8. PICK j \in 1..Len(r) : h[j] = g[l]
    BY <1>1, <1>2, <1>3, <2>7
  <2>9. j < l
    BY <1>1, <1>2, <2>2, <2>7, <2>8
  <2>10. j \in 1..Len(q) /\ g[j] = g[l]
    BY <2>3, <2>8, <2>9
  <2> QED BY <1>1, <1>3, <2>7, <2>9, <2>10
<1> QED BY <1>4

(* Any list of the elements at the indices in I is what At gives.          *)
LEMMA EnumUnique ==
  ASSUME NEW S, NEW s \in Seq(S), NEW I, NEW r \in Seq(S), NEW h, Enum(h, r, s, I)
  PROVE  At(s, I) = r
<1>1. At(s, I) \in Seq(S) /\ \E g : Enum(g, At(s, I), s, I)
  BY AtEnum
<1> DEFINE q == At(s, I)
<1>2. PICK g : Enum(g, q, s, I)
  BY <1>1
<1> HIDE DEF q
<1>0. q \in Seq(S)
  BY <1>1 DEF q
<1>3. ASSUME NEW k \in 1..Len(r) PROVE k \in 1..Len(q) /\ g[k] = h[k]
  BY <1>0, <1>2, EnumLeads
<1>4. ASSUME NEW k \in 1..Len(q) PROVE k \in 1..Len(r) /\ g[k] = h[k]
  BY <1>0, <1>2, EnumLeads
<1>5. Len(q) \in Nat /\ Len(r) \in Nat /\ q \in Seq(S)
  BY <1>1 DEF q
<1>6. Len(q) = Len(r)
  <2>1. Len(r) > 0 => Len(r) \in 1..Len(q)
    BY <1>3, <1>5
  <2>2. Len(q) > 0 => Len(q) \in 1..Len(r)
    BY <1>4, <1>5
  <2> QED BY <2>1, <2>2, <1>5
<1>7. \A k \in 1..Len(r) : q[k] = r[k]
  BY <1>2, <1>3, <1>6 DEF Enum
<1> QED BY <1>5, <1>6, <1>7 DEF q

(* With all indices At gives all of the list,                              *)
LEMMA AtAll ==
  ASSUME NEW S, NEW s \in Seq(S), NEW I, DOMAIN s \subseteq I
  PROVE  At(s, I) = s
<1> DEFINE h == [k \in 1..Len(s) |-> k]
<1>1. Enum(h, s, s, I)
  BY DEF Enum
<1> QED BY <1>1, EnumUnique

(* and with none nothing.                                                  *)
LEMMA AtNone ==
  ASSUME NEW S, NEW s \in Seq(S), NEW I, DOMAIN s \cap I = {}
  PROVE  At(s, I) = <<>>
<1>1. Enum(<<>>, <<>>, s, I) /\ <<>> \in Seq(S)
  BY DEF Enum
<1> QED BY <1>1, EnumUnique

(* What follows is taken as it is. *)
LEMMA AtExtended ==
  ASSUME NEW S, NEW s \in Seq(S), NEW t \in Seq(S), NEW I, NEW J,
         \A i \in 1..Len(s) : i \in I <=> i \in J,
         \A i \in Len(s) + 1..Len(s) + Len(t) : i \in I
  PROVE  At(s \o t, I) = At(s, J) \o t
<1>1. At(s, J) \in Seq(S) /\ \E g : Enum(g, At(s, J), s, J)
  BY AtEnum
<1> DEFINE r == At(s, J)
           m == Len(r)
           n == Len(s)
           l == Len(t)
<1>2. PICK g : Enum(g, r, s, J)
  BY <1>1
<1> HIDE DEF r
<1>3. /\ r \in Seq(S) /\ m \in Nat /\ n \in Nat /\ l \in Nat
      /\ r \o t \in Seq(S) /\ s \o t \in Seq(S)
      /\ Len(r \o t) = m + l /\ Len(s \o t) = n + l
      /\ \A k \in 1..m : (r \o t)[k] = r[k]
      /\ \A k \in 1..m + l : k > m => (r \o t)[k] = t[k - m]
      /\ \A k \in 1..n : (s \o t)[k] = s[k]
      /\ \A k \in 1..n + l : k > n => (s \o t)[k] = t[k - n]
      /\ DOMAIN s = 1..n /\ DOMAIN (s \o t) = 1..n + l
  BY <1>1 DEF r
<1>4. /\ g \in [1..m -> 1..n]
      /\ \A k \in 1..m : g[k] \in J /\ r[k] = s[g[k]]
      /\ \A k, j \in 1..m : k < j => g[k] < g[j]
      /\ \A i \in 1..n : i \in J => \E k \in 1..m : g[k] = i
  BY <1>2, <1>3 DEF Enum
<1> DEFINE h == [k \in 1..m + l |-> IF k <= m THEN g[k] ELSE k - m + n]
<1> HIDE DEF m, n, l
<1>5. \A k \in 1..m + l : \/ k \in 1..m /\ h[k] = g[k] /\ h[k] \in 1..n
                          \/ k > m /\ h[k] = k - m + n /\ h[k] \in n + 1..n + l
  BY <1>3, <1>4
<1>6. h \in [1..m + l -> 1..n + l]
  BY <1>3, <1>4
<1> HIDE DEF h
<1>7. \A k \in 1..m + l : h[k] \in I /\ (r \o t)[k] = (s \o t)[h[k]]
  <2> TAKE k \in 1..m + l
  <2>1. CASE k \in 1..m /\ h[k] = g[k] /\ h[k] \in 1..n
    BY <1>3, <1>4, <2>1 DEF n
  <2>2. CASE k > m /\ h[k] = k - m + n /\ h[k] \in n + 1..n + l
    <3>0. m \in Nat /\ n \in Nat /\ l \in Nat
      BY <1>3
    <3>1. h[k] \in 1..n + l /\ h[k] > n /\ h[k] - n = k - m
      BY <2>2, <3>0
    <3>2. h[k] \in I
      BY <2>2 DEF n, l
    <3>3. (s \o t)[h[k]] = t[h[k] - n]
      BY <1>3, <3>1
    <3>4. (r \o t)[k] = t[k - m]
      BY <1>3, <2>2
    <3> QED BY <3>1, <3>2, <3>3, <3>4
  <2> QED BY <1>5, <2>1, <2>2
<1>8. \A k, j \in 1..m + l : k < j => h[k] < h[j]
  <2> TAKE k, j \in 1..m + l
  <2> HAVE k < j
  <2>1. CASE j \in 1..m /\ h[j] = g[j] /\ h[j] \in 1..n
    <3>1. k \in 1..m /\ h[k] = g[k]
      <4>1. k \in 1..m
        BY <1>3, <2>1
      <4>2. ~(k > m)
        BY <1>3, <4>1
      <4> QED BY <4>1, <4>2, <1>5
    <3> QED BY <1>4, <2>1, <3>1
  <2>2. CASE j > m /\ h[j] = j - m + n /\ h[j] \in n + 1..n + l
    <3>1. (k \in 1..m /\ h[k] \in 1..n) \/ (k > m /\ h[k] = k - m + n)
      BY <1>5
    <3> QED BY <1>3, <2>2, <3>1
  <2> QED BY <1>5, <2>1, <2>2
<1>9. \A i \in 1..n + l : i \in I => \E k \in 1..m + l : h[k] = i
  <2> TAKE i \in 1..n + l
  <2> HAVE i \in I
  <2>1. CASE i \in 1..n
    <3>1. i \in J
      BY <2>1 DEF n
    <3>2. PICK k \in 1..m : g[k] = i
      BY <1>4, <2>1, <3>1
    <3>3. k \in 1..m + l /\ h[k] = g[k]
      BY <1>3, <1>5
    <3> QED BY <3>2, <3>3
  <2>2. CASE i > n
    <3>1. i - n + m \in 1..m + l /\ i - n + m > m
      BY <1>3, <2>2
    <3>2. h[i - n + m] = i
      BY <1>3, <1>5, <3>1
    <3> QED BY <3>1, <3>2
  <2> QED BY <1>3, <2>1, <2>2
<1>10. Enum(h, r \o t, s \o t, I)
  BY <1>3, <1>6, <1>7, <1>8, <1>9 DEF Enum
<1> QED BY <1>3, <1>10, EnumUnique DEF r

-----------------------------------------------------------------------------
(* Messages, and lists that are parts of others                            *)

(* What an edit leaves of a message *)
Like(a, b) ==
  /\ a.role = b.role /\ a.origin = b.origin /\ a.call = b.call
  /\ ToSet(a.calls) \subseteq ToSet(b.calls)
  /\ a.id \in {b.id, -b.id}

(* The messages of r are, perhaps edited, those of s at some indices in D. *)
PartAt(h, r, s, D) ==
  /\ h \in [1..Len(r) -> D]
  /\ \A k, l \in 1..Len(r) : h[k] = h[l] => k = l
  /\ \A k \in 1..Len(r) : Like(r[k], s[h[k]])

Part(r, s, D) == \E h : PartAt(h, r, s, D)

(* What the fields of a message hold                                       *)
LEMMA MessageFields ==
  ASSUME NEW m \in MessageSet
  PROVE  /\ m.id \in Int /\ m.role \in {"system", "user", "assistant", "tool"}
         /\ m.origin \in {"input", "run", "summary", "warning"}
         /\ m.calls \in Seq(CallSet) /\ ToSet(m.calls) \subseteq CallSet
         /\ m.call \in CallSet \cup {NoCall}
         /\ m.calls # <<>> => m.role = "assistant"
         /\ m.role = "tool" <=> m.call # NoCall
         /\ m.origin = "input" => m.role = "user"
         /\ Concerns(m) \subseteq CallSet
<1>1. m \in [id : Int, role : {"system", "user", "assistant", "tool"},
             origin : {"input", "run", "summary", "warning"}, calls : Seq(CallSet),
             call : CallSet \cup {NoCall}]
      /\ (m.calls # <<>> => m.role = "assistant")
      /\ (m.role = "tool" <=> m.call # NoCall)
      /\ (m.origin = "input" => m.role = "user")
  BY DEF MessageSet
<1>2. m.calls \in Seq(CallSet) /\ m.call \in CallSet \cup {NoCall}
  BY <1>1
<1>3. ToSet(m.calls) \subseteq CallSet
  BY <1>2 DEF ToSet
<1> QED BY <1>1, <1>2, <1>3 DEF Concerns

(* A call in a message is not the empty one.                               *)
LEMMA CallFields ==
  ASSUME NEW c \in CallSet
  PROVE  c.id \in Nat /\ c.id # 0 /\ c # NoCall
<1>1. c.id \in Nat \ {0}
  BY DEF CallSet
<1>2. NoCall.id = 0
  BY DEF NoCall, Call
<1>3. c.id # 0
  BY <1>1
<1> QED BY <1>1, <1>2, <1>3

(* Numbers up to their sign *)
LEMMA Signs ==
  ASSUME NEW a \in Int, NEW b \in Int, NEW x, NEW y, x \in {a, -a}, y \in {b, -b},
         x \in {y, -y}
  PROVE  a \in {b, -b}
OBVIOUS

(* The sign may change twice.                                              *)
LEMMA SignsThen ==
  ASSUME NEW a \in Int, NEW x, NEW y, x \in {y, -y}, y \in {a, -a}
  PROVE  x \in {a, -a}
OBVIOUS

(* An edit adds no call to a message.                                      *)
LEMMA LikeConcerns ==
  ASSUME NEW a, NEW b, Like(a, b)
  PROVE  Concerns(a) \subseteq Concerns(b)
BY DEF Like, Concerns

(* Part of a list without repetitions has none.                            *)
LEMMA PartUnique ==
  ASSUME NEW s \in Seq(MessageSet), NEW r \in Seq(MessageSet), Part(r, s, DOMAIN s), Unique(s)
  PROVE  Unique(r)
<1>0. DOMAIN r = 1..Len(r) /\ DOMAIN s = 1..Len(s)
  OBVIOUS
<1>1. PICK h : PartAt(h, r, s, DOMAIN s)
  BY DEF Part
<1>2. /\ \A k \in DOMAIN r : h[k] \in DOMAIN s /\ Like(r[k], s[h[k]])
      /\ \A k, l \in DOMAIN r : h[k] = h[l] => k = l
  BY <1>0, <1>1 DEF PartAt
<1>3. ASSUME NEW i \in DOMAIN r, NEW j \in DOMAIN r, r[i].id \in {r[j].id, -r[j].id} PROVE i = j
  <2>1. s[h[i]] \in MessageSet /\ s[h[j]] \in MessageSet
    BY <1>0, <1>2
  <2>2. s[h[i]].id \in Int /\ s[h[j]].id \in Int
    BY <2>1, MessageFields
  <2>3. r[i].id \in {s[h[i]].id, -s[h[i]].id} /\ r[j].id \in {s[h[j]].id, -s[h[j]].id}
    BY <1>2 DEF Like
  <2>4. s[h[i]].id \in {s[h[j]].id, -s[h[j]].id}
    <3> DEFINE a == s[h[i]].id
               b == s[h[j]].id
               x == r[i].id
               y == r[j].id
    <3>1. a \in Int /\ b \in Int /\ x \in {a, -a} /\ y \in {b, -b} /\ x \in {y, -y}
      BY <1>3, <2>2, <2>3
    <3> HIDE DEF a, b, x, y
    <3>2. a \in {b, -b}
      BY <3>1, Signs
    <3> QED BY <3>2 DEF a, b
  <2>5. h[i] = h[j]
    BY <1>2, <2>4 DEF Unique
  <2> QED BY <1>2, <2>5
<1>4. ASSUME NEW i \in DOMAIN r, NEW j \in DOMAIN r, r[i].call # NoCall, r[i].call = r[j].call
      PROVE  i = j
  <2>1. s[h[i]].call # NoCall /\ s[h[i]].call = s[h[j]].call
    BY <1>2, <1>4 DEF Like
  <2>2. h[i] = h[j]
    BY <1>2, <2>1 DEF Unique
  <2> QED BY <1>2, <2>2
<1>5. ASSUME NEW i \in DOMAIN r, NEW j \in DOMAIN r,
             NEW c \in Concerns(r[i]), NEW d \in Concerns(r[j]), c.id = d.id
      PROVE  c = d
  <2>1. c \in Concerns(s[h[i]]) /\ d \in Concerns(s[h[j]])
    BY <1>2, LikeConcerns
  <2> QED BY <1>2, <1>5, <2>1 DEF Unique
<1> QED BY <1>3, <1>4, <1>5 DEF Unique

(* Part of a list has no ids that the list has not.                        *)
LEMMA PartBounded ==
  ASSUME NEW n \in Nat, NEW s \in Seq(MessageSet), NEW r \in Seq(MessageSet),
         Part(r, s, DOMAIN s), Bounded(s, n)
  PROVE  Bounded(r, n)
<1>0. DOMAIN r = 1..Len(r) /\ DOMAIN s = 1..Len(s)
  OBVIOUS
<1>1. PICK h : PartAt(h, r, s, DOMAIN s)
  BY DEF Part
<1>2. \A k \in DOMAIN r : h[k] \in DOMAIN s /\ Like(r[k], s[h[k]])
  BY <1>0, <1>1 DEF PartAt
<1>3. ASSUME NEW i \in DOMAIN r PROVE r[i].id \in -n..n
  <2>1. s[h[i]].id \in -n..n /\ r[i].id \in {s[h[i]].id, -s[h[i]].id}
    BY <1>2 DEF Bounded, Like
  <2> QED BY <2>1
<1>4. ASSUME NEW i \in DOMAIN r, NEW c \in Concerns(r[i]) PROVE c.id <= n
  BY <1>2, LikeConcerns DEF Bounded
<1> QED BY <1>3, <1>4 DEF Bounded

(* Parts of some indices are parts of more.                                *)
LEMMA PartWider ==
  ASSUME NEW r, NEW s, NEW D, NEW E, Part(r, s, D), D \subseteq E
  PROVE  Part(r, s, E)
BY DEF Part, PartAt

(* A message that is not edited                                            *)
LEMMA LikeSelf ==
  ASSUME NEW a
  PROVE  Like(a, a)
BY DEF Like

(* Parts at different indices, one after the other (not in order, perhaps) *)
LEMMA PartJoin ==
  ASSUME NEW s \in Seq(MessageSet), NEW p \in Seq(MessageSet), NEW q \in Seq(MessageSet),
         NEW D, NEW E, Part(p, s, D), Part(q, s, E), D \cap E = {}
  PROVE  Part(p \o q, s, D \cup E)
<1> DEFINE m == Len(p)
           n == Len(q)
           r == p \o q
<1>1. PICK g : PartAt(g, p, s, D)
  BY DEF Part
<1>2. PICK f : PartAt(f, q, s, E)
  BY DEF Part
<1>3. /\ m \in Nat /\ n \in Nat /\ Len(r) = m + n
      /\ \A k \in 1..m : r[k] = p[k]
      /\ \A k \in 1..m + n : k > m => r[k] = q[k - m]
  OBVIOUS
<1>4. /\ \A k \in 1..m : g[k] \in D /\ Like(p[k], s[g[k]])
      /\ \A k, l \in 1..m : g[k] = g[l] => k = l
  BY <1>1 DEF PartAt
<1>5. /\ \A k \in 1..n : f[k] \in E /\ Like(q[k], s[f[k]])
      /\ \A k, l \in 1..n : f[k] = f[l] => k = l
  BY <1>2 DEF PartAt
<1> HIDE DEF m, n, r
<1> DEFINE h == [k \in 1..m + n |-> IF k <= m THEN g[k] ELSE f[k - m]]
<1>6. \A k \in 1..m + n :
        \/ k \in 1..m /\ h[k] = g[k] /\ h[k] \in D /\ r[k] = p[k]
        \/ k - m \in 1..n /\ k > m /\ h[k] = f[k - m] /\ h[k] \in E /\ r[k] = q[k - m]
  <2> TAKE k \in 1..m + n
  <2>1. CASE k <= m
    <3>1. k \in 1..m
      BY <1>3, <2>1
    <3> QED BY <1>3, <1>4, <2>1, <3>1
  <2>2. CASE ~(k <= m)
    <3>1. k - m \in 1..n /\ k > m
      BY <1>3, <2>2
    <3> QED BY <1>3, <1>5, <2>2, <3>1
  <2> QED BY <2>1, <2>2
<1>7. h \in [1..m + n -> D \cup E]
  BY <1>6
<1> HIDE DEF h
<1>8. ASSUME NEW k \in 1..m + n, NEW l \in 1..m + n, h[k] = h[l] PROVE k = l
  <2>1. CASE k \in 1..m /\ h[k] = g[k] /\ h[k] \in D
    <3>1. h[l] \notin E
      BY <1>8, <2>1
    <3>2. l \in 1..m /\ h[l] = g[l]
      BY <1>6, <3>1
    <3> QED BY <1>4, <1>8, <2>1, <3>2
  <2>2. CASE k - m \in 1..n /\ h[k] = f[k - m] /\ h[k] \in E
    <3>1. h[l] \notin D
      BY <1>8, <2>2
    <3>2. l - m \in 1..n /\ h[l] = f[l - m]
      BY <1>6, <3>1
    <3>3. k - m = l - m
      BY <1>5, <1>8, <2>2, <3>2
    <3> QED BY <1>3, <3>3
  <2> QED BY <1>6, <2>1, <2>2
<1>9. \A k \in 1..m + n : Like(r[k], s[h[k]])
  BY <1>4, <1>5, <1>6
<1>10. PartAt(h, r, s, D \cup E)
  BY <1>3, <1>7, <1>8, <1>9 DEF PartAt
<1> QED BY <1>10 DEF Part, r

(* A part of a part is a part.                                             *)
LEMMA PartThen ==
  ASSUME NEW s \in Seq(MessageSet), NEW r \in Seq(MessageSet), NEW q \in Seq(MessageSet),
         NEW D, D \subseteq DOMAIN s, Part(q, r, DOMAIN r), Part(r, s, D)
  PROVE  Part(q, s, D)
<1>0. DOMAIN q = 1..Len(q) /\ DOMAIN r = 1..Len(r) /\ DOMAIN s = 1..Len(s)
  OBVIOUS
<1>1. PICK f : PartAt(f, q, r, DOMAIN r)
  BY DEF Part
<1>2. PICK g : PartAt(g, r, s, D)
  BY DEF Part
<1>3. /\ \A k \in DOMAIN q : f[k] \in DOMAIN r /\ Like(q[k], r[f[k]])
      /\ \A k, l \in DOMAIN q : f[k] = f[l] => k = l
  BY <1>0, <1>1 DEF PartAt
<1>4. /\ \A k \in DOMAIN r : g[k] \in D /\ Like(r[k], s[g[k]])
      /\ \A k, l \in DOMAIN r : g[k] = g[l] => k = l
  BY <1>0, <1>2 DEF PartAt
<1> DEFINE h == [k \in 1..Len(q) |-> g[f[k]]]
<1>5. h \in [1..Len(q) -> D]
  BY <1>0, <1>3, <1>4
<1>6. \A k, l \in 1..Len(q) : h[k] = h[l] => k = l
  BY <1>0, <1>3, <1>4
<1>7. ASSUME NEW k \in 1..Len(q) PROVE Like(q[k], s[h[k]])
  <2>1. h[k] = g[f[k]] /\ Like(q[k], r[f[k]]) /\ Like(r[f[k]], s[h[k]])
    BY <1>0, <1>3, <1>4
  <2>2. s[h[k]] \in MessageSet
    BY <1>0, <1>5
  <2>3. s[h[k]].id \in Int
    BY <2>2, MessageFields
  <2> HIDE DEF h
  <2>4. q[k].id \in {s[h[k]].id, -s[h[k]].id}
    <3>1. q[k].id \in {r[f[k]].id, -r[f[k]].id} /\ r[f[k]].id \in {s[h[k]].id, -s[h[k]].id}
      BY <2>1 DEF Like
    <3> QED BY <2>3, <3>1, SignsThen, SMTT(20)
  <2>5. ToSet(q[k].calls) \subseteq ToSet(s[h[k]].calls)
    BY <2>1 DEF Like
  <2> QED BY <2>1, <2>4, <2>5 DEF Like
<1> HIDE DEF h
<1>8. PartAt(h, q, s, D)
  BY <1>5, <1>6, <1>7 DEF PartAt
<1> QED BY <1>8 DEF Part

(* What is listed of a list is a part of it,                               *)
LEMMA EnumPart ==
  ASSUME NEW s \in Seq(MessageSet), NEW r \in Seq(MessageSet), NEW I, NEW h, Enum(h, r, s, I)
  PROVE  PartAt(h, r, s, DOMAIN s \cap I)
<1>1. Len(r) \in Nat /\ \A k \in 1..Len(r) : h[k] \in DOMAIN s \cap I /\ Like(r[k], s[h[k]])
  BY LikeSelf DEF Enum
<1>2. h \in [1..Len(r) -> DOMAIN s \cap I]
  BY <1>1 DEF Enum
<1>3. ASSUME NEW k \in 1..Len(r), NEW l \in 1..Len(r), h[k] = h[l] PROVE k = l
  <2>1. h[k] \in Int /\ h[l] \in Int
    BY <1>1
  <2>2. ~(k < l) /\ ~(l < k)
    BY <1>3, <2>1 DEF Enum
  <2> QED BY <1>1, <2>2
<1> QED BY <1>1, <1>2, <1>3 DEF PartAt

(* and so is what At gives.                                                *)
LEMMA AtPart ==
  ASSUME NEW s \in Seq(MessageSet), NEW I
  PROVE  /\ At(s, I) \in Seq(MessageSet)
         /\ Part(At(s, I), s, DOMAIN s \cap I)
         /\ Part(At(s, I), s, DOMAIN s)
<1>1. At(s, I) \in Seq(MessageSet) /\ \E h : Enum(h, At(s, I), s, I)
  BY AtEnum
<1>2. Part(At(s, I), s, DOMAIN s \cap I)
  BY <1>1, EnumPart DEF Part
<1> QED BY <1>1, <1>2, PartWider

-----------------------------------------------------------------------------
(* Longer lists: joining, saying and answering                             *)

(* Joining, index by index                                                 *)
LEMMA Joined ==
  ASSUME NEW S, NEW p \in Seq(S), NEW q \in Seq(S)
  PROVE  /\ p \o q \in Seq(S) /\ Len(p \o q) = Len(p) + Len(q)
         /\ DOMAIN p = 1..Len(p) /\ DOMAIN q = 1..Len(q) /\ Len(p) \in Nat /\ Len(q) \in Nat
         /\ DOMAIN (p \o q) = 1..Len(p) + Len(q)
         /\ \A i \in DOMAIN p : i \in DOMAIN (p \o q) /\ (p \o q)[i] = p[i]
         /\ \A i \in DOMAIN q : Len(p) + i \in DOMAIN (p \o q) /\ (p \o q)[Len(p) + i] = q[i]
         /\ \A i \in DOMAIN (p \o q) :
              \/ i \in DOMAIN p /\ (p \o q)[i] = p[i]
              \/ i - Len(p) \in DOMAIN q /\ i > Len(p) /\ (p \o q)[i] = q[i - Len(p)]
OBVIOUS

(* Append, index by index                                                  *)
LEMMA Appended ==
  ASSUME NEW S, NEW p \in Seq(S), NEW e \in S
  PROVE  /\ Append(p, e) \in Seq(S) /\ Len(Append(p, e)) = Len(p) + 1 /\ Len(p) \in Nat
         /\ DOMAIN p = 1..Len(p) /\ DOMAIN Append(p, e) = 1..Len(p) + 1
         /\ \A i \in DOMAIN p : i \in DOMAIN Append(p, e) /\ Append(p, e)[i] = p[i]
         /\ Append(p, e)[Len(p) + 1] = e
         /\ \A i \in DOMAIN Append(p, e) : i \in DOMAIN p \/ i = Len(p) + 1
OBVIOUS

(* Where all calls are answered, others may follow.                        *)
LEMMA ClosedJoin ==
  ASSUME NEW p \in Seq(MessageSet), NEW q \in Seq(MessageSet), Closed(p, {}), Closed(q, {})
  PROVE  Closed(p \o q, {})
<1> DEFINE r == p \o q
           n == Len(p)
<1>1. /\ DOMAIN p = 1..n /\ n \in Nat
      /\ DOMAIN q \subseteq Nat
      /\ \A i \in DOMAIN p : i \in DOMAIN r /\ r[i] = p[i]
      /\ \A i \in DOMAIN q : n + i \in DOMAIN r /\ r[n + i] = q[i]
      /\ \A i \in DOMAIN r : \/ i \in DOMAIN p /\ r[i] = p[i]
                             \/ i - n \in DOMAIN q /\ i > n /\ r[i] = q[i - n]
      /\ DOMAIN q = 1..Len(q) /\ DOMAIN r = 1..n + Len(q) /\ Len(q) \in Nat
  BY Joined
<1> HIDE DEF r, n
<1>2. ASSUME NEW i \in DOMAIN r, r[i].role = "tool"
      PROVE  \E j \in 1..i - 1 : r[i].call \in ToSet(r[j].calls)
  <2>1. CASE i \in DOMAIN p /\ r[i] = p[i]
    <3>1. PICK j \in 1..i - 1 : p[i].call \in ToSet(p[j].calls)
      BY <1>2, <2>1 DEF Closed
    <3>2. j \in DOMAIN p
      BY <1>1, <2>1
    <3> QED BY <1>1, <2>1, <3>1, <3>2
  <2>2. CASE i - n \in DOMAIN q /\ i > n /\ r[i] = q[i - n]
    <3>1. PICK j \in 1..(i - n) - 1 : q[i - n].call \in ToSet(q[j].calls)
      BY <1>2, <2>2 DEF Closed
    <3>2. j \in DOMAIN q /\ n + j \in 1..i - 1
      BY <1>1, <2>2
    <3> QED BY <1>1, <2>2, <3>1, <3>2
  <2> QED BY <1>1, <2>1, <2>2
<1>3. ASSUME NEW i \in DOMAIN r, NEW c \in ToSet(r[i].calls)
      PROVE  \E j \in DOMAIN r : r[j].call = c
  <2>1. CASE i \in DOMAIN p /\ r[i] = p[i]
    <3>1. PICK j \in DOMAIN p : p[j].call = c
      BY <1>3, <2>1 DEF Closed
    <3> QED BY <1>1, <3>1
  <2>2. CASE i - n \in DOMAIN q /\ i > n /\ r[i] = q[i - n]
    <3>1. PICK j \in DOMAIN q : q[j].call = c
      BY <1>3, <2>2 DEF Closed
    <3> QED BY <1>1, <3>1
  <2> QED BY <1>1, <2>1, <2>2
<1> QED BY <1>2, <1>3 DEF Closed, r

(* Neither calls nor results *)
LEMMA PlainClosed ==
  ASSUME NEW p \in Seq(MessageSet),
         \A i \in DOMAIN p : p[i].role \notin {"tool", "assistant"}
  PROVE  Closed(p, {})
<1>1. ASSUME NEW i \in DOMAIN p PROVE p[i].role # "tool" /\ p[i].calls = <<>>
  <2>1. p[i] \in MessageSet
    OBVIOUS
  <2> QED BY <2>1, MessageFields
<1>2. \A i \in DOMAIN p : ToSet(p[i].calls) = {}
  BY <1>1 DEF ToSet
<1> QED BY <1>1, <1>2 DEF Closed

-----------------------------------------------------------------------------
(* New messages *)

(* A message with a new id, and calls that are new or open, repeats nothing. *)
LEMMA UniqueAppend ==
  ASSUME NEW n \in Nat, NEW list \in Seq(MessageSet), Unique(list), Bounded(list, n),
         NEW m \in MessageSet, m.id \in Nat, m.id > n,
         m.call # NoCall => \A i \in DOMAIN list : list[i].call # m.call,
         \A i \in DOMAIN list : \A c \in Concerns(list[i]), d \in Concerns(m) :
           c.id = d.id => c = d,
         \A c, d \in Concerns(m) : c.id = d.id => c = d
  PROVE  Unique(Append(list, m))
<1> DEFINE r == Append(list, m)
           k == Len(list) + 1
<1>1. /\ \A i \in DOMAIN list : i \in DOMAIN r /\ r[i] = list[i] /\ i # k
      /\ r[k] = m
      /\ \A i \in DOMAIN r : i \in DOMAIN list \/ i = k
  BY Appended
<1> HIDE DEF r, k
<1>2. ASSUME NEW i \in DOMAIN r, NEW j \in DOMAIN r, r[i].id \in {r[j].id, -r[j].id} PROVE i = j
  <2>1. \A l \in DOMAIN list : list[l].id \in -n..n
    BY DEF Bounded
  <2>2. \A l \in DOMAIN list : m.id \notin {list[l].id, -list[l].id} /\ list[l].id \notin {m.id, -m.id}
    BY <2>1
  <2>3. i \in DOMAIN list /\ j \in DOMAIN list => i = j
    BY <1>1, <1>2 DEF Unique
  <2> QED BY <1>1, <1>2, <2>2, <2>3
<1>3. ASSUME NEW i \in DOMAIN r, NEW j \in DOMAIN r, r[i].call # NoCall, r[i].call = r[j].call
      PROVE  i = j
  <2>1. i \in DOMAIN list /\ j \in DOMAIN list => i = j
    BY <1>1, <1>3 DEF Unique
  <2> QED BY <1>1, <1>3, <2>1
<1>4. ASSUME NEW i \in DOMAIN r, NEW j \in DOMAIN r,
             NEW c \in Concerns(r[i]), NEW d \in Concerns(r[j]), c.id = d.id
      PROVE  c = d
  <2>1. i \in DOMAIN list /\ j \in DOMAIN list => c = d
    BY <1>1, <1>4 DEF Unique
  <2> QED BY <1>1, <1>4, <2>1
<1> QED BY <1>2, <1>3, <1>4 DEF Unique, r

(* The ids known so far grow with it.                                      *)
LEMMA BoundedAppend ==
  ASSUME NEW n \in Nat, NEW k \in Nat, n <= k, NEW list \in Seq(MessageSet), Bounded(list, n),
         NEW m \in MessageSet, m.id \in -k..k, \A c \in Concerns(m) : c.id <= k
  PROVE  Bounded(Append(list, m), k)
<1> DEFINE r == Append(list, m)
<1>1. /\ \A i \in DOMAIN list : r[i] = list[i]
      /\ r[Len(list) + 1] = m
      /\ \A i \in DOMAIN r : i \in DOMAIN list \/ i = Len(list) + 1
  BY Appended
<1> HIDE DEF r
<1>2. ASSUME NEW i \in DOMAIN list
      PROVE  list[i].id \in -k..k /\ \A c \in Concerns(list[i]) : c.id <= k
  <2>1. list[i].id \in -n..n /\ \A c \in Concerns(list[i]) : c.id <= n
    BY DEF Bounded
  <2>2. list[i] \in MessageSet
    OBVIOUS
  <2>3. \A c \in Concerns(list[i]) : c.id \in Nat
    BY <2>2, MessageFields, CallFields
  <2> QED BY <2>1, <2>3
<1>3. \A i \in DOMAIN r : r[i].id \in -k..k /\ \A c \in Concerns(r[i]) : c.id <= k
  BY <1>1, <1>2
<1> QED BY <1>3 DEF Bounded, r

(* A message that is no result: its calls are open. *)
LEMMA SaidGood ==
  ASSUME NEW n \in Nat, NEW k \in Nat, n <= k, NEW list, NEW open, Good(list, open, n),
         NEW m \in MessageSet, m.role # "tool", m.id \in n + 1..k,
         \A c \in ToSet(m.calls) : c.id \in n + 1..k,
         \A c, d \in ToSet(m.calls) : c.id = d.id => c = d
  PROVE  Good(Append(list, m), open \cup ToSet(m.calls), k)
<1> DEFINE r == Append(list, m)
           l == Len(list) + 1
           new == ToSet(m.calls)
<1>0. list \in Seq(MessageSet) /\ Unique(list) /\ Bounded(list, n) /\ Closed(list, open)
  BY DEF Good
<1>1. /\ \A i \in DOMAIN list : i \in DOMAIN r /\ r[i] = list[i] /\ i \in Nat /\ i < l
      /\ r[l] = m /\ l \in DOMAIN r /\ l \in Nat
      /\ \A i \in DOMAIN r : i \in DOMAIN list \/ i = l
      /\ DOMAIN list = 1..l - 1
      /\ r \in Seq(MessageSet)
  BY <1>0, Appended
<1> HIDE DEF r, l
<1>2. m.call = NoCall /\ Concerns(m) = new
  <2>1. m.call = NoCall
    BY MessageFields
  <2> QED BY <2>1 DEF Concerns
<1>3. \A i \in DOMAIN list : \A c \in Concerns(list[i]) : c \notin new /\ c.id \in Nat /\ c.id <= n
  <2> TAKE i \in DOMAIN list
  <2> TAKE c \in Concerns(list[i])
  <2>1. c.id <= n
    BY <1>0 DEF Bounded
  <2>2. list[i] \in MessageSet
    BY <1>0
  <2>3. c.id \in Nat
    BY <2>2, MessageFields, CallFields
  <2> QED BY <2>1, <2>3
<1>4. Unique(r)
  <2>1. \A i \in DOMAIN list : \A c \in Concerns(list[i]), d \in Concerns(m) : c.id = d.id => c = d
    BY <1>2, <1>3
  <2>2. m.id \in Nat /\ m.id > n
    OBVIOUS
  <2> QED BY <1>0, <1>2, <2>1, <2>2, UniqueAppend DEF r
<1>5. Bounded(r, k)
  <2>1. m.id \in -k..k /\ \A c \in Concerns(m) : c.id <= k
    BY <1>2
  <2> QED BY <1>0, <2>1, BoundedAppend DEF r
<1>6. ASSUME NEW i \in DOMAIN r, r[i].role = "tool"
      PROVE  \E j \in 1..i - 1 : r[i].call \in ToSet(r[j].calls)
  <2>1. i \in DOMAIN list /\ r[i] = list[i]
    BY <1>1, <1>6
  <2>2. PICK j \in 1..i - 1 : list[i].call \in ToSet(list[j].calls)
    BY <1>0, <1>6, <2>1 DEF Closed
  <2>3. j \in DOMAIN list
    BY <1>1, <2>1
  <2> QED BY <1>1, <2>1, <2>2, <2>3
<1>7. ASSUME NEW i \in DOMAIN r, NEW c \in ToSet(r[i].calls)
      PROVE  c \in open \cup new \/ \E j \in DOMAIN r : r[j].call = c
  <2>1. CASE i \in DOMAIN list
    <3>1. c \in open \/ \E j \in DOMAIN list : list[j].call = c
      BY <1>0, <1>1, <1>7, <2>1 DEF Closed
    <3> QED BY <1>1, <3>1
  <2>2. CASE i = l
    BY <1>1, <1>7, <2>2
  <2> QED BY <1>1, <2>1, <2>2
<1>8. ASSUME NEW i \in DOMAIN r PROVE r[i].call \notin open \cup new
  <2>0. new \subseteq CallSet
    BY MessageFields
  <2>1. CASE i \in DOMAIN list
    <3>1. r[i] = list[i] /\ list[i].call \notin open
      BY <1>0, <1>1, <2>1 DEF Closed
    <3>2. list[i].call # NoCall => list[i].call \in Concerns(list[i])
      BY DEF Concerns
    <3>3. list[i].call \notin new
      BY <1>3, <2>0, <2>1, <3>2, CallFields
    <3> QED BY <3>1, <3>3
  <2>2. CASE i = l
    <3>1. NoCall \notin new
      BY <2>0, CallFields
    <3>2. ASSUME NoCall \in open PROVE FALSE
      <4>1. PICK j \in DOMAIN list : NoCall \in ToSet(list[j].calls)
        BY <1>0, <3>2 DEF Closed
      <4>2. list[j] \in MessageSet
        BY <1>0
      <4> QED BY <4>1, <4>2, MessageFields, CallFields
    <3> QED BY <1>1, <1>2, <2>2, <3>1, <3>2
  <2> QED BY <1>1, <2>1, <2>2
<1>9. ASSUME NEW c \in open \cup new PROVE \E i \in DOMAIN r : c \in ToSet(r[i].calls)
  BY <1>0, <1>1 DEF Closed
<1>10. Closed(r, open \cup new)
  BY <1>6, <1>7, <1>8, <1>9 DEF Closed
<1> QED BY <1>1, <1>4, <1>5, <1>10 DEF Good, r

(* The answer to an open call *)
LEMMA AnswerGood ==
  ASSUME NEW n \in Nat, NEW list, NEW open, Good(list, open, n),
         NEW m \in MessageSet, m.role = "tool", m.call \in open, m.id = n + 1
  PROVE  Good(Append(list, m), open \ {m.call}, n + 1)
<1> DEFINE r == Append(list, m)
           l == Len(list) + 1
<1>0. list \in Seq(MessageSet) /\ Unique(list) /\ Bounded(list, n) /\ Closed(list, open)
  BY DEF Good
<1>1. /\ \A i \in DOMAIN list : i \in DOMAIN r /\ r[i] = list[i] /\ i \in Nat /\ i < l
      /\ r[l] = m /\ l \in DOMAIN r /\ l \in Nat
      /\ \A i \in DOMAIN r : i \in DOMAIN list \/ i = l
      /\ DOMAIN list = 1..l - 1
      /\ r \in Seq(MessageSet)
  BY <1>0, Appended
<1> HIDE DEF r, l
<1>2. /\ m.calls = <<>> /\ ToSet(m.calls) = {} /\ Concerns(m) = {m.call}
      /\ m.call # NoCall
  <2>1. m.calls = <<>> /\ m.call # NoCall
    BY MessageFields
  <2> QED BY <2>1 DEF Concerns, ToSet
<1>3. PICK p \in DOMAIN list : m.call \in ToSet(list[p].calls)
  BY <1>0 DEF Closed
<1>4. m.call \in Concerns(list[p])
  BY <1>3 DEF Concerns
<1>5. Unique(r)
  <2>1. \A i \in DOMAIN list : \A c \in Concerns(list[i]), d \in Concerns(m) : c.id = d.id => c = d
    BY <1>0, <1>2, <1>4 DEF Unique
  <2>2. \A i \in DOMAIN list : list[i].call # m.call
    BY <1>0 DEF Closed
  <2> QED BY <1>0, <1>2, <2>1, <2>2, UniqueAppend DEF r
<1>6. Bounded(r, n + 1)
  <2>1. m.call.id <= n /\ m.call.id \in Nat
    <3>1. list[p] \in MessageSet
      BY <1>0
    <3> QED BY <1>0, <1>4, <3>1, MessageFields, CallFields DEF Bounded
  <2>2. \A c \in Concerns(m) : c.id <= n + 1
    BY <1>2, <2>1
  <2> QED BY <1>0, <2>2, BoundedAppend DEF r
<1>7. ASSUME NEW i \in DOMAIN r, r[i].role = "tool"
      PROVE  \E j \in 1..i - 1 : r[i].call \in ToSet(r[j].calls)
  <2>1. CASE i \in DOMAIN list
    <3>1. r[i] = list[i]
      BY <1>1, <2>1
    <3>2. PICK j \in 1..i - 1 : list[i].call \in ToSet(list[j].calls)
      BY <1>0, <1>7, <2>1, <3>1 DEF Closed
    <3>3. j \in DOMAIN list
      BY <1>1, <2>1
    <3> QED BY <1>1, <2>1, <3>2, <3>3
  <2>2. CASE i = l
    <3>1. p \in 1..i - 1
      BY <1>1, <2>2
    <3> QED BY <1>1, <1>3, <2>2, <3>1
  <2> QED BY <1>1, <2>1, <2>2
<1>8. ASSUME NEW i \in DOMAIN r, NEW c \in ToSet(r[i].calls)
      PROVE  c \in open \ {m.call} \/ \E j \in DOMAIN r : r[j].call = c
  <2>1. i \in DOMAIN list
    BY <1>1, <1>2, <1>8
  <2>2. c \in open \/ \E j \in DOMAIN list : list[j].call = c
    BY <1>0, <1>1, <1>8, <2>1 DEF Closed
  <2> QED BY <1>1, <2>2
<1>9. ASSUME NEW i \in DOMAIN r PROVE r[i].call \notin open \ {m.call}
  BY <1>0, <1>1 DEF Closed
<1>10. ASSUME NEW c \in open \ {m.call} PROVE \E i \in DOMAIN r : c \in ToSet(r[i].calls)
  BY <1>0, <1>1 DEF Closed
<1>11. Closed(r, open \ {m.call})
  BY <1>7, <1>8, <1>9, <1>10 DEF Closed
<1> QED BY <1>1, <1>5, <1>6, <1>11 DEF Good, r

-----------------------------------------------------------------------------
(* Kinds of messages, and the start of a conversation                      *)

IsStart(start) == \E handed \in BOOLEAN : start = StartOf(handed)

(* Messages of the system and of users, with their ids and origins         *)
LEMMA PlainMessages ==
  ASSUME NEW id \in Int
  PROVE  \A m \in {System(id), User(id), Input(id), Summary(id), Warning(id)} :
           /\ m \in MessageSet /\ m.id = id /\ m.calls = <<>> /\ m.call = NoCall
           /\ m.role = (IF m = System(id) THEN "system" ELSE "user")
           /\ m.origin = "input" <=> m = Input(id)
           /\ m.origin = "warning" <=> m = Warning(id)
<1>1. System(id) = [id |-> id, role |-> "system", origin |-> "run", calls |-> <<>>, call |-> NoCall]
  BY DEF System, Message
<1>2. User(id) = [id |-> id, role |-> "user", origin |-> "run", calls |-> <<>>, call |-> NoCall]
  BY DEF User, Message
<1>3. Input(id) = [id |-> id, role |-> "user", origin |-> "input", calls |-> <<>>, call |-> NoCall]
  BY <1>2 DEF Input
<1>4. Summary(id) = [id |-> id, role |-> "user", origin |-> "summary", calls |-> <<>>, call |-> NoCall]
  BY <1>2 DEF Summary
<1>9. Warning(id) = [id |-> id, role |-> "user", origin |-> "warning", calls |-> <<>>, call |-> NoCall]
  BY <1>2 DEF Warning
<1>5. /\ System(id).role = "system" /\ System(id).origin = "run"
      /\ User(id).role = "user" /\ User(id).origin = "run"
      /\ Input(id).role = "user" /\ Input(id).origin = "input"
      /\ Summary(id).role = "user" /\ Summary(id).origin = "summary"
      /\ Warning(id).role = "user" /\ Warning(id).origin = "warning"
  BY <1>1, <1>2, <1>3, <1>4, <1>9
<1>6. ASSUME NEW m \in {System(id), User(id), Input(id), Summary(id), Warning(id)}
      PROVE  m.id = id /\ m.calls = <<>> /\ m.call = NoCall
  BY <1>1, <1>2, <1>3, <1>4, <1>9
<1>7. ASSUME NEW m \in {System(id), User(id), Input(id), Summary(id), Warning(id)}
      PROVE  m \in MessageSet
  <2>1. <<>> \in Seq(CallSet) /\ NoCall \in CallSet \cup {NoCall}
    OBVIOUS
  <2>2. m.role # "tool"
    BY <1>5
  <2> DEFINE Fields == [id : Int, role : {"system", "user", "assistant", "tool"},
                        origin : {"input", "run", "summary", "warning"}, calls : Seq(CallSet),
                        call : CallSet \cup {NoCall}]
  <2>3. m \in Fields
    <3>1. CASE m = System(id)
      BY <1>1, <2>1, <3>1
    <3>2. CASE m = User(id)
      BY <1>2, <2>1, <3>2
    <3>3. CASE m = Input(id)
      BY <1>3, <2>1, <3>3
    <3>4. CASE m = Summary(id)
      BY <1>4, <2>1, <3>4
    <3>5. CASE m = Warning(id)
      BY <1>9, <2>1, <3>5
    <3> QED BY <3>1, <3>2, <3>3, <3>4, <3>5
  <2>4. m.origin = "input" => m.role = "user"
    BY <1>5
  <2> QED BY <2>2, <2>3, <2>4, <1>6 DEF MessageSet
<1>8. ASSUME NEW m \in {System(id), User(id), Input(id), Summary(id), Warning(id)}
      PROVE  /\ m.role = (IF m = System(id) THEN "system" ELSE "user")
             /\ m.origin = "input" <=> m = Input(id)
             /\ m.origin = "warning" <=> m = Warning(id)
  BY <1>5
<1> QED BY <1>6, <1>7, <1>8

(* What a user says and a summary are no warnings.                         *)
LEMMA NoWarnings ==
  ASSUME NEW id
  PROVE  User(id).origin # "warning" /\ Summary(id).origin # "warning"
BY DEF User, Summary, Message

(* A message of the model                                                  *)
LEMMA AssistantMessage ==
  ASSUME NEW id \in Int, NEW calls \in Seq(CallSet)
  PROVE  /\ Assistant(id, calls) \in MessageSet
         /\ Assistant(id, calls).id = id /\ Assistant(id, calls).role = "assistant"
         /\ Assistant(id, calls).origin = "run" /\ Assistant(id, calls).calls = calls
<1> DEFINE m == Assistant(id, calls)
<1>1. m = [id |-> id, role |-> "assistant", origin |-> "run", calls |-> calls, call |-> NoCall]
  BY DEF Assistant, Message
<1> HIDE DEF m
<1>2. /\ m.id = id /\ m.role = "assistant" /\ m.origin = "run" /\ m.calls = calls
      /\ m.call = NoCall
  BY <1>1
<1>3. m \in [id : Int, role : {"system", "user", "assistant", "tool"},
            origin : {"input", "run", "summary", "warning"}, calls : Seq(CallSet),
            call : CallSet \cup {NoCall}]
  BY <1>1
<1>4. m \in MessageSet
  BY <1>2, <1>3 DEF MessageSet
<1> QED BY <1>2, <1>4 DEF m

(* The result of a call                                                    *)
LEMMA ToolMessage ==
  ASSUME NEW id \in Int, NEW call \in CallSet
  PROVE  /\ Tool(id, call) \in MessageSet
         /\ Tool(id, call).id = id /\ Tool(id, call).role = "tool"
         /\ Tool(id, call).origin = "run" /\ Tool(id, call).calls = <<>>
         /\ Tool(id, call).call = call
<1> DEFINE m == Tool(id, call)
<1>1. m = [id |-> id, role |-> "tool", origin |-> "run", calls |-> <<>>, call |-> call]
  BY DEF Tool, Message
<1> HIDE DEF m
<1>2. /\ m.id = id /\ m.role = "tool" /\ m.origin = "run" /\ m.calls = <<>>
      /\ m.call = call
  BY <1>1
<1>3. m \in [id : Int, role : {"system", "user", "assistant", "tool"},
            origin : {"input", "run", "summary", "warning"}, calls : Seq(CallSet),
            call : CallSet \cup {NoCall}]
  BY <1>1
<1>4. call # NoCall
  BY CallFields
<1>5. m \in MessageSet
  BY <1>2, <1>3, <1>4 DEF MessageSet
<1> QED BY <1>2, <1>5 DEF m

(* A call of a function that a turn or a handoff names                     *)
LEMMA CallMade ==
  ASSUME NEW id \in Nat \ {0}, NEW function \in Functions
  PROVE  /\ Call(id, function) \in CallSet
         /\ Call(id, function).id = id /\ Call(id, function).function = function
BY DEF Call, CallSet

(* The calls at the start of one that was handed off to *)
LEMMA CallsOf ==
  ASSUME NEW p \in {3, 5}
  PROVE  CallOf(p) \in CallSet /\ CallOf(p).id = p /\ CallOf(p) # NoCall
<1>1. Transfer \in Functions /\ Memory \in Functions
  BY DEF Functions
<1>2. CallOf(p) = Call(p, IF p = 3 THEN Memory ELSE Transfer)
  BY DEF CallOf
<1>3. CallOf(p) \in CallSet /\ CallOf(p).id = p
  BY <1>1, <1>2, CallMade
<1> QED BY <1>3, CallFields

(* A message at the start that makes a call, and the next, which answers it *)
Caller(start, p) ==
  /\ p \in 3..5 /\ p \in DOMAIN start /\ p + 1 \in DOMAIN start
  /\ start[p].role = "assistant" /\ start[p].calls = <<CallOf(p)>>
  /\ start[p + 1].role = "tool" /\ start[p + 1].calls = <<>> /\ start[p + 1].call = CallOf(p)
  /\ CallOf(p) \in CallSet /\ CallOf(p).id = p /\ CallOf(p) # NoCall

(* The start of a conversation: system and input, perhaps calls and their results *)
LEMMA StartMessages ==
  ASSUME NEW start, IsStart(start)
  PROVE  /\ start \in Seq(MessageSet) /\ Len(start) \in {2, 6}
         /\ DOMAIN start = 1..Len(start)
         /\ \A p \in DOMAIN start : start[p].id = p /\ start[p].origin # "warning"
         /\ start[1].role = "system" /\ start[1].calls = <<>> /\ start[1].origin # "input"
         /\ start[2].role = "user" /\ start[2].calls = <<>> /\ start[2].origin = "input"
         /\ \A p \in Callers(start) : Caller(start, p)
         /\ \A p \in DOMAIN start : p \in {1, 2} \/ p \in Callers(start) \/ p - 1 \in Callers(start)
         /\ \A p \in DOMAIN start : p # 2 => start[p].origin # "input"
<1>1. PICK handed \in BOOLEAN : start = StartOf(handed)
  BY DEF IsStart
<1>2. /\ CallOf(3) \in CallSet /\ CallOf(3).id = 3 /\ CallOf(3) # NoCall
      /\ CallOf(5) \in CallSet /\ CallOf(5).id = 5 /\ CallOf(5) # NoCall
      /\ CallOf(3) = Call(3, Memory) /\ CallOf(5) = Call(5, Transfer)
  BY CallsOf DEF CallOf
<1>3. /\ System(1) \in MessageSet /\ System(1).id = 1
      /\ System(1).role = "system" /\ System(1).calls = <<>>
  BY PlainMessages
<1>4. /\ Input(2) \in MessageSet /\ Input(2).id = 2 /\ Input(2).calls = <<>>
      /\ Input(2).role \in {"user", "system"} /\ Input(2).origin = "input"
  BY PlainMessages
<1>5. Input(2).role = "user" /\ System(1).origin # "input" /\ System(1).origin # "warning"
  <2>1. Input(2).role = "user" /\ System(1).origin # "input"
    BY <1>3, <1>4, MessageFields
  <2>2. System(1).origin = "warning" <=> System(1) = Warning(1)
    BY PlainMessages
  <2>3. Warning(1).role = "user"
    BY DEF Warning, User, Message
  <2> QED BY <1>3, <2>1, <2>2, <2>3
<1> DEFINE a == Assistant(3, <<CallOf(3)>>)
           b == Tool(4, CallOf(3))
           c == Assistant(5, <<CallOf(5)>>)
           d == Tool(6, CallOf(5))
<1>6. /\ a \in MessageSet /\ a.id = 3 /\ a.role = "assistant"
      /\ a.calls = <<CallOf(3)>> /\ a.origin = "run"
      /\ c \in MessageSet /\ c.id = 5 /\ c.role = "assistant"
      /\ c.calls = <<CallOf(5)>> /\ c.origin = "run"
  <2> DEFINE q(u) == <<CallOf(u)>>
  <2>1. q(3) \in Seq(CallSet) /\ q(5) \in Seq(CallSet)
    BY <1>2
  <2> HIDE DEF q
  <2>2. /\ Assistant(3, q(3)) \in MessageSet /\ Assistant(3, q(3)).id = 3
        /\ Assistant(3, q(3)).role = "assistant" /\ Assistant(3, q(3)).calls = q(3)
        /\ Assistant(3, q(3)).origin = "run"
    BY <2>1, AssistantMessage
  <2>3. /\ Assistant(5, q(5)) \in MessageSet /\ Assistant(5, q(5)).id = 5
        /\ Assistant(5, q(5)).role = "assistant" /\ Assistant(5, q(5)).calls = q(5)
        /\ Assistant(5, q(5)).origin = "run"
    BY <2>1, AssistantMessage
  <2> QED BY <2>2, <2>3 DEF q
<1>7. /\ b \in MessageSet /\ b.id = 4 /\ b.role = "tool" /\ b.calls = <<>>
      /\ b.call = CallOf(3) /\ b.origin = "run"
      /\ d \in MessageSet /\ d.id = 6 /\ d.role = "tool" /\ d.calls = <<>>
      /\ d.call = CallOf(5) /\ d.origin = "run"
  BY <1>2, ToolMessage
<1>8. CASE handed
  <2>1. start = <<System(1)>> \o <<Input(2), a, b, c, d>>
    BY <1>1, <1>2, <1>8 DEF StartOf, HandedOff
  <2> HIDE DEF a, b, c, d
  <2>2. /\ start[1] = System(1) /\ start[2] = Input(2)
        /\ start[3] = a /\ start[4] = b /\ start[5] = c /\ start[6] = d
        /\ Len(start) = 6 /\ start \in Seq(MessageSet) /\ DOMAIN start = 1..6
    BY <1>3, <1>4, <1>6, <1>7, <2>1
  <2>3. Callers(start) = {3, 5}
    BY <2>2 DEF Callers
  <2>4. Caller(start, 3)
    BY <1>2, <1>6, <1>7, <2>2 DEF Caller
  <2>5. Caller(start, 5)
    BY <1>2, <1>6, <1>7, <2>2 DEF Caller
  <2>6. \A p \in DOMAIN start : p \in {1, 2, 3, 4, 5, 6}
    BY <2>2
  <2>7. \A p \in DOMAIN start : p \in {1, 2} \/ p \in Callers(start) \/ p - 1 \in Callers(start)
    BY <2>3, <2>6
  <2>8. \A p \in DOMAIN start :
          /\ start[p].id = p /\ start[p].origin # "warning"
          /\ p # 2 => start[p].origin # "input"
    BY <1>3, <1>4, <1>5, <1>6, <1>7, <2>2, <2>6
  <2>9. \A p \in Callers(start) : Caller(start, p)
    BY <2>3, <2>4, <2>5
  <2>10. /\ start \in Seq(MessageSet) /\ Len(start) \in {2, 6} /\ DOMAIN start = 1..Len(start)
    BY <2>2
  <2>11. /\ start[1].role = "system" /\ start[1].calls = <<>> /\ start[1].origin # "input"
         /\ start[2].role = "user" /\ start[2].calls = <<>> /\ start[2].origin = "input"
    BY <1>3, <1>4, <1>5, <2>2
  <2> QED BY <2>7, <2>8, <2>9, <2>10, <2>11
<1>9. CASE ~handed
  <2>1. start = <<System(1)>> \o <<Input(2)>>
    BY <1>1, <1>9 DEF StartOf
  <2>2. /\ start[1] = System(1) /\ start[2] = Input(2)
        /\ Len(start) = 2 /\ start \in Seq(MessageSet) /\ DOMAIN start = 1..2
    BY <1>3, <1>4, <2>1
  <2>3. Callers(start) = {}
    BY <2>2 DEF Callers
  <2> QED BY <1>3, <1>4, <1>5, <2>2, <2>3
<1> QED BY <1>8, <1>9

(* What a message at the start that makes a call is *)
LEMMA CallersAre ==
  ASSUME NEW start, IsStart(start), NEW u \in Callers(start)
  PROVE  /\ Caller(start, u) /\ u \in Nat /\ u - 1 \notin Callers(start) /\ u + 1 \notin Callers(start)
         /\ u \in -Len(start)..Len(start) /\ u + 1 \in -Len(start)..Len(start)
<1>1. Caller(start, u) /\ Len(start) \in {2, 6}
  BY StartMessages
<1>2. Len(start) = 6 /\ u \in {3, 5} /\ Callers(start) = {3, 5}
  BY <1>1 DEF Callers
<1> QED BY <1>1, <1>2

(* Lists that agree with the start do so together.                         *)
LEMMA MarkedJoin ==
  ASSUME NEW start, NEW p \in Seq(MessageSet), NEW q \in Seq(MessageSet),
         Marked(p, start), Marked(q, start)
  PROVE  Marked(p \o q, start)
<1> DEFINE r == p \o q
           n == Len(p)
<1>1. /\ DOMAIN p = 1..n /\ n \in Nat /\ Len(q) \in Nat
      /\ DOMAIN q = 1..Len(q) /\ DOMAIN r = 1..n + Len(q)
      /\ \A i \in DOMAIN p : i \in DOMAIN r /\ r[i] = p[i]
      /\ \A i \in DOMAIN q : n + i \in DOMAIN r /\ r[n + i] = q[i]
      /\ \A i \in DOMAIN r : \/ i \in DOMAIN p /\ r[i] = p[i]
                             \/ i - n \in DOMAIN q /\ i > n /\ r[i] = q[i - n]
  BY Joined
<1> HIDE DEF r, n
<1>2. ASSUME NEW i \in DOMAIN r, r[i].id \in -Len(start)..Len(start)
      PROVE  r[i].id \in DOMAIN start /\ r[i] = start[r[i].id]
  <2>1. CASE i \in DOMAIN p /\ r[i] = p[i]
    BY <1>2, <2>1 DEF Marked, Original
  <2>2. CASE i - n \in DOMAIN q /\ r[i] = q[i - n]
    BY <1>2, <2>2 DEF Marked, Original
  <2> QED BY <1>1, <2>1, <2>2
<1>3. ASSUME NEW u \in Callers(start) PROVE Paired(r, u)
  <2>0. Paired(p, u) /\ Paired(q, u)
    BY DEF Marked
  <2>1. ASSUME NEW i \in DOMAIN p
        PROVE  /\ r[i].id = u => i + 1 \in DOMAIN r /\ r[i + 1].id = u + 1
               /\ r[i].id = u + 1 => i - 1 \in DOMAIN r /\ r[i - 1].id = u
    <3>1. /\ p[i].id = u => i + 1 \in DOMAIN p /\ p[i + 1].id = u + 1
          /\ p[i].id = u + 1 => i - 1 \in DOMAIN p /\ p[i - 1].id = u
      BY <2>0 DEF Paired
    <3>2. r[i] = p[i]
      BY <1>1
    <3> QED BY <1>1, <3>1, <3>2
  <2>2. ASSUME NEW j \in DOMAIN q
        PROVE  /\ r[n + j].id = u => n + j + 1 \in DOMAIN r /\ r[n + j + 1].id = u + 1
               /\ r[n + j].id = u + 1 => n + j - 1 \in DOMAIN r /\ r[n + j - 1].id = u
    <3>1. /\ q[j].id = u => j + 1 \in DOMAIN q /\ q[j + 1].id = u + 1
          /\ q[j].id = u + 1 => j - 1 \in DOMAIN q /\ q[j - 1].id = u
      BY <2>0 DEF Paired
    <3>2. r[n + j] = q[j] /\ n + (j + 1) = n + j + 1 /\ n + (j - 1) = n + j - 1
      BY <1>1
    <3>3. j + 1 \in DOMAIN q => n + (j + 1) \in DOMAIN r /\ r[n + (j + 1)] = q[j + 1]
      BY <1>1
    <3>4. j - 1 \in DOMAIN q => n + (j - 1) \in DOMAIN r /\ r[n + (j - 1)] = q[j - 1]
      BY <1>1
    <3> QED BY <3>1, <3>2, <3>3, <3>4
  <2>3. ASSUME NEW i \in DOMAIN r
        PROVE  i \in DOMAIN p \/ \E j \in DOMAIN q : i = n + j
    <3>1. i - n \in DOMAIN q => i = n + (i - n)
      BY <1>1
    <3> QED BY <1>1, <3>1
  <2>4. ASSUME NEW i \in DOMAIN r
        PROVE  /\ r[i].id = u => i + 1 \in DOMAIN r /\ r[i + 1].id = u + 1
               /\ r[i].id = u + 1 => i - 1 \in DOMAIN r /\ r[i - 1].id = u
    <3>1. CASE i \in DOMAIN p
      BY <2>1, <3>1
    <3>2. CASE i \notin DOMAIN p
      <4>1. PICK j \in DOMAIN q : i = n + j
        BY <2>3, <3>2
      <4>2. i + 1 = n + j + 1 /\ i - 1 = n + j - 1
        BY <1>1, <4>1
      <4>3. /\ r[n + j].id = u => n + j + 1 \in DOMAIN r /\ r[n + j + 1].id = u + 1
            /\ r[n + j].id = u + 1 => n + j - 1 \in DOMAIN r /\ r[n + j - 1].id = u
        BY <2>2
      <4> QED BY <4>1, <4>2, <4>3
    <3> QED BY <3>1, <3>2
  <2> QED BY <2>4 DEF Paired
<1> QED BY <1>2, <1>3 DEF Marked, Original, r

(* Messages that are not of the start agree with it.                       *)
LEMMA MarkedNew ==
  ASSUME NEW start, NEW p, \A i \in DOMAIN p : p[i].id \notin -Len(start)..Len(start),
         IsStart(start)
  PROVE  Marked(p, start)
<1>1. Len(start) \in {2, 6}
  BY StartMessages
<1>2. ASSUME NEW u \in Callers(start), NEW i \in DOMAIN p
      PROVE  p[i].id # u /\ p[i].id # u + 1
  <2>1. Len(start) = 6 /\ u \in {3, 5}
    BY <1>1 DEF Callers
  <2> QED BY <2>1
<1> QED BY <1>2 DEF Marked, Original, Paired

(* Both of a pair are taken, or none of it. *)
Together(s, I, u) ==
  \A i \in DOMAIN s \cap I :
    /\ s[i].id = u => i + 1 \in I
    /\ s[i].id = u + 1 => i - 1 \in I

(* Some of a list: a call of the start and its result together *)
LEMMA MarkedAt ==
  ASSUME NEW start, NEW s \in Seq(MessageSet), NEW I, Original(s, start),
         \A u \in Callers(start) : Paired(s, u) /\ Together(s, I, u)
  PROVE  Marked(At(s, I), start)
<1>1. At(s, I) \in Seq(MessageSet) /\ \E h : Enum(h, At(s, I), s, I)
  BY AtEnum
<1> DEFINE r == At(s, I)
<1>2. PICK h : Enum(h, r, s, I)
  BY <1>1
<1> HIDE DEF r
<1>3. r \in Seq(MessageSet) /\ DOMAIN r = 1..Len(r)
  BY <1>1 DEF r
<1>4. \A k \in DOMAIN r : h[k] \in DOMAIN s /\ h[k] \in I /\ r[k] = s[h[k]]
  BY <1>2, <1>3 DEF Enum
<1>5. Adjacent(h, r, s, I)
  BY <1>2, <1>3, Neighbours
<1>6. ASSUME NEW u \in Callers(start), NEW k \in DOMAIN r
      PROVE  /\ r[k].id = u => k + 1 \in DOMAIN r /\ r[k + 1].id = u + 1
             /\ r[k].id = u + 1 => k - 1 \in DOMAIN r /\ r[k - 1].id = u
  <2>1. h[k] \in DOMAIN s /\ h[k] \in I /\ r[k] = s[h[k]]
    BY <1>4
  <2>0. Paired(s, u) /\ Together(s, I, u)
    OBVIOUS
  <2>3. /\ s[h[k]].id = u => h[k] + 1 \in DOMAIN s /\ s[h[k] + 1].id = u + 1
        /\ s[h[k]].id = u + 1 => h[k] - 1 \in DOMAIN s /\ s[h[k] - 1].id = u
    BY <2>0, <2>1 DEF Paired
  <2>4. /\ s[h[k]].id = u => h[k] + 1 \in I
        /\ s[h[k]].id = u + 1 => h[k] - 1 \in I
    BY <2>0, <2>1 DEF Together
  <2>2. /\ s[h[k]].id = u => h[k] + 1 \in DOMAIN s \cap I /\ s[h[k] + 1].id = u + 1
        /\ s[h[k]].id = u + 1 => h[k] - 1 \in DOMAIN s \cap I /\ s[h[k] - 1].id = u
    BY <2>3, <2>4
  <2> QED BY <1>4, <1>5, <2>1, <2>2 DEF Adjacent
<1>7. Original(r, start)
  BY <1>4 DEF Original
<1>8. \A u \in Callers(start) : Paired(r, u)
  BY <1>6 DEF Paired
<1> QED BY <1>7, <1>8 DEF Marked, r

(* The messages of the start that a list has are a whole. *)
LEMMA MarkedClosed ==
  ASSUME NEW start, IsStart(start), NEW p \in Seq(MessageSet), Marked(p, start),
         \A i \in DOMAIN p : p[i].id \in DOMAIN start
  PROVE  Closed(p, {})
<1>0. /\ DOMAIN start = 1..Len(start) /\ Len(start) \in {2, 6}
      /\ start[1].role = "system" /\ start[1].calls = <<>>
      /\ start[2].role = "user" /\ start[2].calls = <<>>
      /\ \A u \in Callers(start) : Caller(start, u)
      /\ \A u \in DOMAIN start : u \in {1, 2} \/ u \in Callers(start) \/ u - 1 \in Callers(start)
  BY StartMessages
<1>1. \A i \in DOMAIN p : p[i] = start[p[i].id]
  <2>1. \A i \in DOMAIN p : p[i].id \in -Len(start)..Len(start)
    BY <1>0
  <2> QED BY <2>1 DEF Marked, Original
<1>2. ASSUME NEW i \in DOMAIN p
      PROVE  \/ p[i].role # "tool" /\ ToSet(p[i].calls) = {}
             \/ \E u \in Callers(start) : \/ /\ p[i].id = u /\ p[i].role = "assistant"
                                             /\ ToSet(p[i].calls) = {CallOf(u)}
                                          \/ /\ p[i].id = u + 1 /\ ToSet(p[i].calls) = {}
                                             /\ p[i].call = CallOf(u)
  <2>1. p[i] = start[p[i].id] /\ p[i].id \in DOMAIN start
    BY <1>1
  <2>2. ToSet(<<>>) = {} /\ \A c : ToSet(<<c>>) = {c}
    BY DEF ToSet
  <2>3. CASE p[i].id \in {1, 2}
    BY <1>0, <2>1, <2>2, <2>3
  <2>4. CASE p[i].id \in Callers(start)
    <3>1. Caller(start, p[i].id)
      BY <1>0, <2>4
    <3>2. p[i].role = "assistant" /\ p[i].calls = <<CallOf(p[i].id)>>
      BY <2>1, <3>1 DEF Caller
    <3> QED BY <2>2, <2>4, <3>2
  <2>5. CASE p[i].id - 1 \in Callers(start)
    <3>1. p[i].id \in Int /\ Caller(start, p[i].id - 1) /\ (p[i].id - 1) + 1 = p[i].id
      BY <1>0, <2>1, <2>5
    <3> QED BY <2>1, <2>2, <2>5, <3>1 DEF Caller
  <2> QED BY <1>0, <2>1, <2>3, <2>4, <2>5
<1>3. ASSUME NEW u \in Callers(start)
      PROVE  Caller(start, u) /\ Paired(p, u) /\ u \in Nat
  BY <1>0 DEF Marked, Caller
<1>4. DOMAIN p \subseteq Nat
  OBVIOUS
<1>5. ASSUME NEW i \in DOMAIN p, p[i].role = "tool"
      PROVE  \E j \in 1..i - 1 : p[i].call \in ToSet(p[j].calls)
  <2>1. PICK u \in Callers(start) : p[i].id = u + 1 /\ p[i].call = CallOf(u)
    BY <1>2, <1>5
  <2>2. i - 1 \in DOMAIN p /\ p[i - 1].id = u
    BY <1>3, <2>1 DEF Paired
  <2>3. ToSet(p[i - 1].calls) = {CallOf(u)}
    <3>1. p[i - 1] = start[u] /\ start[u].calls = <<CallOf(u)>>
      BY <1>1, <1>3, <2>2 DEF Caller
    <3> QED BY <3>1 DEF ToSet
  <2>4. i - 1 \in 1..i - 1
    BY <2>2
  <2> QED BY <2>1, <2>3, <2>4
<1>6. ASSUME NEW i \in DOMAIN p, NEW c \in ToSet(p[i].calls)
      PROVE  \E j \in DOMAIN p : p[j].call = c
  <2>1. PICK u \in Callers(start) : p[i].id = u /\ c = CallOf(u)
    BY <1>2, <1>6
  <2>2. i + 1 \in DOMAIN p /\ p[i + 1].id = u + 1
    BY <1>3, <2>1 DEF Paired
  <2>3. p[i + 1].call = CallOf(u)
    BY <1>1, <1>3, <2>2 DEF Caller
  <2> QED BY <2>1, <2>2, <2>3
<1> QED BY <1>5, <1>6 DEF Closed

-----------------------------------------------------------------------------
(* A good list in which no call is open is one that a model API accepts.   *)
LEMMA GoodValid ==
  ASSUME NEW list, NEW n, Good(list, {}, n)
  PROVE  Valid(list)
<1>0. list \in Seq(MessageSet) /\ Unique(list) /\ Closed(list, {})
  BY DEF Good
<1>1. \A i \in DOMAIN list : list[i].role = "tool" =>
        \E j \in 1..i - 1 : list[i].call \in ToSet(list[j].calls)
  BY <1>0 DEF Closed
<1>2. ASSUME NEW i \in DOMAIN list, NEW c \in ToSet(list[i].calls)
      PROVE  Cardinality({j \in DOMAIN list : list[j].call = c}) = 1
  <2>1. PICK j \in DOMAIN list : list[j].call = c
    BY <1>0 DEF Closed
  <2>2. c # NoCall
    <3>1. list[i] \in MessageSet
      BY <1>0
    <3> QED BY <3>1, MessageFields, CallFields
  <2>3. {k \in DOMAIN list : list[k].call = c} = {j}
    BY <1>0, <2>1, <2>2 DEF Unique
  <2> QED BY <2>3, FS_Singleton
<1> QED BY <1>1, <1>2 DEF Valid

-----------------------------------------------------------------------------
(* Parts of a list, and calls that are taken out                           *)

(* The elements that At gives                                              *)
LEMMA AtElements ==
  ASSUME NEW S, NEW s \in Seq(S), NEW I
  PROVE  ToSet(At(s, I)) = {s[i] : i \in DOMAIN s \cap I}
<1>1. At(s, I) \in Seq(S) /\ \E h : Enum(h, At(s, I), s, I)
  BY AtEnum
<1> DEFINE r == At(s, I)
<1>2. PICK h : Enum(h, r, s, I)
  BY <1>1
<1> HIDE DEF r
<1>3. DOMAIN r = 1..Len(r)
  BY <1>1 DEF r
<1>4. ToSet(r) \subseteq {s[i] : i \in DOMAIN s \cap I}
  BY <1>2, <1>3 DEF Enum, ToSet
<1>5. {s[i] : i \in DOMAIN s \cap I} \subseteq ToSet(r)
  BY <1>2, <1>3 DEF Enum, ToSet
<1> QED BY <1>4, <1>5 DEF r

(* A message with some of its calls *)
WithCalls(m, J) == [m EXCEPT !.calls = At(@, J)]

(* A message that loses some of its calls is an edit of it.                *)
LEMMA CallsRemoved ==
  ASSUME NEW m \in MessageSet, NEW J
  PROVE  /\ WithCalls(m, J) \in MessageSet
         /\ WithCalls(m, J).id = m.id /\ Like(WithCalls(m, J), m)
         /\ ToSet(WithCalls(m, J).calls) = {m.calls[n] : n \in DOMAIN m.calls \cap J}
         /\ DOMAIN m.calls \subseteq J => WithCalls(m, J) = m
<1> DEFINE w == WithCalls(m, J)
           Fields == [id : Int, role : {"system", "user", "assistant", "tool"},
                      origin : {"input", "run", "summary", "warning"}, calls : Seq(CallSet),
                      call : CallSet \cup {NoCall}]
<1>1. m \in Fields /\ m.calls \in Seq(CallSet)
  BY DEF MessageSet
<1>2. At(m.calls, J) \in Seq(CallSet) /\ ToSet(At(m.calls, J)) = {m.calls[n] : n \in DOMAIN m.calls \cap J}
  BY <1>1, AtEnum, AtElements
<1>3. w \in Fields /\ w.id = m.id /\ w.role = m.role /\ w.origin = m.origin /\ w.call = m.call
      /\ w.calls = At(m.calls, J)
  BY <1>1, <1>2 DEF WithCalls
<1>4. DOMAIN m.calls \subseteq J => w = m
  <2> SUFFICES ASSUME DOMAIN m.calls \subseteq J PROVE w = m
    OBVIOUS
  <2>1. At(m.calls, J) = m.calls
    BY <1>1, AtAll
  <2> QED BY <1>1, <2>1 DEF WithCalls
<1> HIDE DEF w
<1>5. m.calls = <<>> => w.calls = <<>>
  <2> SUFFICES ASSUME m.calls = <<>> PROVE w.calls = <<>>
    OBVIOUS
  <2>1. DOMAIN m.calls \cap J = {}
    OBVIOUS
  <2> QED BY <1>1, <1>3, <2>1, AtNone
<1>6. w \in MessageSet
  BY <1>3, <1>5 DEF MessageSet
<1>7. ToSet(w.calls) = {m.calls[n] : n \in DOMAIN m.calls \cap J}
  BY <1>2, <1>3
<1>8. ToSet(w.calls) \subseteq ToSet(m.calls)
  BY <1>7 DEF ToSet
<1>9. Like(w, m)
  BY <1>3, <1>8 DEF Like
<1> QED BY <1>3, <1>4, <1>6, <1>7, <1>9 DEF w

(* A list whose messages are edited where they are *)
LEMMA EditedPart ==
  ASSUME NEW s \in Seq(MessageSet), NEW r \in Seq(MessageSet), Len(r) = Len(s),
         \A i \in DOMAIN s : Like(r[i], s[i])
  PROVE  Part(r, s, DOMAIN s)
<1> DEFINE h == [k \in 1..Len(r) |-> k]
<1>1. PartAt(h, r, s, DOMAIN s)
  BY DEF PartAt
<1> QED BY <1>1 DEF Part

(* A stretch of a list is a part of it.                                    *)
LEMMA SubSeqPart ==
  ASSUME NEW s \in Seq(MessageSet), NEW a \in Nat, a > 0, NEW b \in Nat, b <= Len(s), a <= b + 1
  PROVE  /\ SubSeq(s, a, b) \in Seq(MessageSet) /\ Len(SubSeq(s, a, b)) = b - a + 1
         /\ DOMAIN SubSeq(s, a, b) = 1..b - a + 1
         /\ \A k \in 1..b - a + 1 : a + k - 1 \in DOMAIN s /\ SubSeq(s, a, b)[k] = s[a + k - 1]
         /\ Part(SubSeq(s, a, b), s, DOMAIN s)
<1> DEFINE r == SubSeq(s, a, b)
           n == b - a + 1
<1>1. /\ r \in Seq(MessageSet) /\ Len(r) = n /\ n \in Nat /\ DOMAIN r = 1..n
      /\ DOMAIN s = 1..Len(s) /\ Len(s) \in Nat
      /\ \A k \in 1..n : r[k] = s[a + k - 1]
  OBVIOUS
<1>2. \A k \in 1..n : a + k - 1 \in DOMAIN s
  BY <1>1
<1> HIDE DEF r
<1> DEFINE h == [k \in 1..n |-> a + k - 1]
<1>3. h \in [1..n -> DOMAIN s] /\ \A k, l \in 1..n : h[k] = h[l] => k = l
  BY <1>1, <1>2
<1>4. \A k \in 1..n : Like(r[k], s[h[k]])
  BY <1>1, LikeSelf
<1> HIDE DEF h
<1>5. PartAt(h, r, s, DOMAIN s)
  BY <1>1, <1>3, <1>4 DEF PartAt
<1> QED BY <1>1, <1>2, <1>5 DEF Part, r

(* OnlyAnswered(): each message keeps the calls that are answered.         *)
LEMMA OnlyAnsweredMessages ==
  ASSUME NEW s \in Seq(MessageSet)
  PROVE  /\ OnlyAnswered(s) \in Seq(MessageSet) /\ Len(OnlyAnswered(s)) = Len(s)
         /\ \A i \in DOMAIN s :
              /\ OnlyAnswered(s)[i].id = s[i].id
              /\ Like(OnlyAnswered(s)[i], s[i])
              /\ ToSet(OnlyAnswered(s)[i].calls) = {c \in ToSet(s[i].calls) : c.id \in Answered(s)}
              /\ (\A c \in ToSet(s[i].calls) : c.id \in Answered(s)) => OnlyAnswered(s)[i] = s[i]
<1> DEFINE J(m) == {n \in DOMAIN m.calls : m.calls[n].id \in Answered(s)}
           r == [i \in DOMAIN s |-> WithCalls(s[i], J(s[i]))]
<1>1. \A i \in DOMAIN s : s[i] \in MessageSet
  OBVIOUS
<1>2. \A i \in DOMAIN s : WithCalls(s[i], J(s[i])) \in MessageSet
  BY <1>1, CallsRemoved
<1>3. r \in Seq(MessageSet) /\ Len(r) = Len(s)
  <2> HIDE DEF J
  <2>1. DOMAIN s = 1..Len(s) /\ Len(s) \in Nat
    OBVIOUS
  <2> QED BY <1>2, <2>1
<1>4. OnlyAnswered(s) = r
  <2>1. OnlyAnswered(s) = <<>> \o r
    BY DEF OnlyAnswered, WithCalls
  <2> HIDE DEF r
  <2> QED BY <1>3, <2>1
<1>5. ASSUME NEW i \in DOMAIN s
      PROVE  /\ r[i].id = s[i].id
             /\ Like(r[i], s[i])
             /\ ToSet(r[i].calls) = {c \in ToSet(s[i].calls) : c.id \in Answered(s)}
             /\ (\A c \in ToSet(s[i].calls) : c.id \in Answered(s)) => r[i] = s[i]
  <2> DEFINE m == s[i]
  <2>1. r[i] = WithCalls(m, J(m)) /\ m \in MessageSet
    BY <1>1
  <2> HIDE DEF r, m
  <2>2. ToSet(r[i].calls) = {m.calls[n] : n \in DOMAIN m.calls \cap J(m)}
    <3> HIDE DEF J
    <3> QED BY <2>1, CallsRemoved
  <2>3. {m.calls[n] : n \in DOMAIN m.calls \cap J(m)} = {c \in ToSet(m.calls) : c.id \in Answered(s)}
    BY DEF ToSet
  <2>4. ASSUME \A c \in ToSet(m.calls) : c.id \in Answered(s) PROVE r[i] = m
    <3>1. DOMAIN m.calls \subseteq J(m)
      BY <2>4 DEF ToSet
    <3> HIDE DEF J
    <3> QED BY <2>1, <3>1, CallsRemoved
  <2>5. r[i].id = m.id /\ Like(r[i], m)
    <3> HIDE DEF J
    <3> QED BY <2>1, CallsRemoved
  <2> QED BY <2>2, <2>3, <2>4, <2>5 DEF m
<1> HIDE DEF r
<1> QED BY <1>3, <1>4, <1>5

-----------------------------------------------------------------------------
(* trim_messages(): orphaned results and calls without one                 *)

(* trim_messages() after the system messages and the input *)
Fitted(p) == NotEndingInAssistant(OnlyAnswered(WithoutOrphans(p)))

KeptIndices(p) == {i \in DOMAIN p : p[i].role = "tool" => HasParent(p, i)}

(* A result and a call with the same id belong together.                   *)
LEMMA CallById ==
  ASSUME NEW s \in Seq(MessageSet), Unique(s), NEW i \in DOMAIN s, NEW j \in DOMAIN s,
         s[i].role = "tool", NEW c \in ToSet(s[j].calls), c.id = s[i].call.id
  PROVE  c = s[i].call
<1>1. s[i] \in MessageSet
  OBVIOUS
<1>2. s[i].call # NoCall
  BY <1>1, MessageFields
<1>3. c \in Concerns(s[j]) /\ s[i].call \in Concerns(s[i])
  BY <1>2 DEF Concerns
<1> QED BY <1>3 DEF Unique

(* WithoutOrphans() leaves only results whose call is there before them.   *)
LEMMA OrphansRemoved ==
  ASSUME NEW p \in Seq(MessageSet), Unique(p)
  PROVE  \A k \in DOMAIN WithoutOrphans(p) :
           WithoutOrphans(p)[k].role = "tool" =>
             \E j \in 1..k - 1 : WithoutOrphans(p)[k].call \in ToSet(WithoutOrphans(p)[j].calls)
<1> DEFINE w == WithoutOrphans(p)
           I == KeptIndices(p)
<1>1. w = At(p, I) /\ w \in Seq(MessageSet) /\ \E h : Enum(h, w, p, I)
  BY AtEnum DEF WithoutOrphans, KeptIndices
<1>2. PICK h : Enum(h, w, p, I)
  BY <1>1
<1> HIDE DEF w
<1>0. DOMAIN w = 1..Len(w) /\ Len(w) \in Nat /\ DOMAIN p = 1..Len(p)
  BY <1>1
<1>3. /\ DOMAIN w = 1..Len(w) /\ Len(w) \in Nat /\ DOMAIN p = 1..Len(p)
      /\ \A k \in DOMAIN w : h[k] \in DOMAIN p /\ h[k] \in I /\ w[k] = p[h[k]]
      /\ \A k, l \in DOMAIN w : k < l => h[k] < h[l]
      /\ \A i \in DOMAIN p : i \in I => \E k \in DOMAIN w : h[k] = i
  BY <1>0, <1>2 DEF Enum
<1>4. ASSUME NEW k \in DOMAIN w, w[k].role = "tool"
      PROVE  \E j \in 1..k - 1 : w[k].call \in ToSet(w[j].calls)
  <2>1. HasParent(p, h[k])
    BY <1>3, <1>4 DEF KeptIndices
  <2>2. PICK j0 \in 1..h[k] - 1 :
          /\ p[j0].role = "assistant"
          /\ \E n \in DOMAIN p[j0].calls : p[j0].calls[n].id = p[h[k]].call.id
    BY <2>1 DEF HasParent
  <2>3. j0 \in DOMAIN p /\ j0 < h[k] /\ j0 \in I
    BY <1>3, <2>2 DEF KeptIndices
  <2>4. PICK n \in DOMAIN p[j0].calls : p[j0].calls[n].id = p[h[k]].call.id
    BY <2>2
  <2>5. p[j0].calls[n] \in ToSet(p[j0].calls)
    BY <2>4 DEF ToSet
  <2>6. p[j0].calls[n] = p[h[k]].call
    <3>1. h[k] \in DOMAIN p /\ p[h[k]].role = "tool"
      BY <1>3, <1>4
    <3> DEFINE c == p[j0].calls[n]
    <3>2. c \in ToSet(p[j0].calls) /\ c.id = p[h[k]].call.id
      BY <2>4, <2>5
    <3> HIDE DEF c
    <3>3. c = p[h[k]].call
      BY <2>3, <3>1, <3>2, CallById
    <3> QED BY <3>3 DEF c
  <2>7. PICK j \in DOMAIN w : h[j] = j0
    BY <1>3, <2>3
  <2>8. j < k
    <3>1. h[k] \in Int /\ h[j] \in Int /\ h[j] < h[k]
      BY <1>3, <2>3, <2>7
    <3>2. j # k /\ ~(k < j)
      BY <1>3, <3>1
    <3> QED BY <1>3, <3>2
  <2>9. j \in 1..k - 1
    BY <1>3, <2>8
  <2> QED BY <1>3, <2>5, <2>6, <2>7, <2>9
<1> QED BY <1>4 DEF w

(* OnlyAnswered() then leaves only calls whose result is there after them. *)
LEMMA OnlyAnsweredClosed ==
  ASSUME NEW w \in Seq(MessageSet), Unique(w),
         \A k \in DOMAIN w : w[k].role = "tool" =>
           \E j \in 1..k - 1 : w[k].call \in ToSet(w[j].calls)
  PROVE  Closed(OnlyAnswered(w), {})
<1> DEFINE a == OnlyAnswered(w)
<1>1. /\ a \in Seq(MessageSet) /\ Len(a) = Len(w)
      /\ \A i \in DOMAIN w : /\ Like(a[i], w[i])
                             /\ ToSet(a[i].calls) = {c \in ToSet(w[i].calls) : c.id \in Answered(w)}
  BY OnlyAnsweredMessages
<1> HIDE DEF a
<1>2. DOMAIN a = DOMAIN w /\ DOMAIN w = 1..Len(w) /\ Len(w) \in Nat
  BY <1>1
<1>3. \A i \in DOMAIN w : a[i].role = w[i].role /\ a[i].call = w[i].call
  BY <1>1 DEF Like
<1>4. ASSUME NEW k \in DOMAIN a, a[k].role = "tool"
      PROVE  \E j \in 1..k - 1 : a[k].call \in ToSet(a[j].calls)
  <2>1. w[k].role = "tool"
    BY <1>2, <1>3, <1>4
  <2>2. PICK j \in 1..k - 1 : w[k].call \in ToSet(w[j].calls)
    BY <1>2, <2>1
  <2>3. j \in DOMAIN w
    BY <1>2
  <2>4. w[k].call.id \in Answered(w)
    BY <1>2, <2>1 DEF Answered
  <2>5. w[k].call \in ToSet(a[j].calls)
    BY <1>1, <2>2, <2>3, <2>4
  <2> QED BY <1>2, <1>3, <2>5
<1>5. ASSUME NEW i \in DOMAIN a, NEW c \in ToSet(a[i].calls) PROVE \E j \in DOMAIN a : a[j].call = c
  <2>1. c \in ToSet(w[i].calls) /\ c.id \in Answered(w)
    BY <1>1, <1>2
  <2>2. PICK j \in DOMAIN w : w[j].role = "tool" /\ w[j].call.id = c.id
    BY <2>1 DEF Answered
  <2>3. c = w[j].call
    BY <1>2, <2>1, <2>2, CallById
  <2> QED BY <1>2, <1>3, <2>3
<1> QED BY <1>4, <1>5 DEF Closed, a

(* NotEndingInAssistant() drops the last message or nothing,               *)
LEMMA LastDropped ==
  ASSUME NEW a \in Seq(MessageSet)
  PROVE  /\ NotEndingInAssistant(a) \in Seq(MessageSet)
         /\ Part(NotEndingInAssistant(a), a, DOMAIN a)
         /\ NotEndingInAssistant(a) = a \/
              /\ Len(a) > 0 /\ a[Len(a)].role = "assistant"
              /\ Len(NotEndingInAssistant(a)) = Len(a) - 1
              /\ \A i \in 1..Len(a) - 1 : NotEndingInAssistant(a)[i] = a[i]
<1>1. CASE NotEndingInAssistant(a) = a
  BY <1>1, EditedPart, LikeSelf
<1>2. CASE NotEndingInAssistant(a) # a
  <2>1. /\ a # <<>> /\ Last(a).role = "assistant"
        /\ NotEndingInAssistant(a) = SubSeq(a, 1, Len(a) - 1)
    BY <1>2 DEF NotEndingInAssistant, Front
  <2>2. /\ Len(a) \in Nat /\ Len(a) > 0 /\ Len(a) - 1 \in Nat
        /\ 1 \in Nat /\ 1 > 0 /\ Len(a) - 1 <= Len(a) /\ 1 <= (Len(a) - 1) + 1
    BY <2>1
  <2> DEFINE r == SubSeq(a, 1, Len(a) - 1)
  <2>3. /\ r \in Seq(MessageSet) /\ Len(r) = (Len(a) - 1) - 1 + 1
        /\ \A k \in 1..(Len(a) - 1) - 1 + 1 : r[k] = a[1 + k - 1]
        /\ Part(r, a, DOMAIN a)
    BY <2>2, SubSeqPart
  <2> HIDE DEF r
  <2>4. Len(r) = Len(a) - 1 /\ \A k \in 1..Len(a) - 1 : r[k] = a[k]
    BY <2>2, <2>3
  <2>5. a[Len(a)].role = "assistant"
    BY <2>1 DEF Last
  <2> QED BY <2>1, <2>2, <2>3, <2>4, <2>5 DEF r
<1> QED BY <1>1, <1>2

(* which had no call then: its result would have come after it.            *)
LEMMA LastDroppedClosed ==
  ASSUME NEW a \in Seq(MessageSet), Closed(a, {})
  PROVE  Closed(NotEndingInAssistant(a), {})
<1> DEFINE r == NotEndingInAssistant(a)
           n == Len(a) - 1
<1>1. CASE r = a
  BY <1>1
<1>2. CASE r # a
  <2>1. /\ r \in Seq(MessageSet) /\ Len(a) > 0 /\ a[n + 1].role = "assistant" /\ Len(r) = n
        /\ \A i \in 1..n : r[i] = a[i]
    BY <1>2, LastDropped
  <2>2. n \in Nat /\ DOMAIN r = 1..n /\ DOMAIN a = 1..n + 1
    BY <2>1
  <2> HIDE DEF r, n
  <2>3. ASSUME NEW k \in DOMAIN r, r[k].role = "tool"
        PROVE  \E j \in 1..k - 1 : r[k].call \in ToSet(r[j].calls)
    <3>1. PICK j \in 1..k - 1 : a[k].call \in ToSet(a[j].calls)
      BY <2>1, <2>2, <2>3 DEF Closed
    <3> QED BY <2>1, <2>2, <3>1
  <2>4. ASSUME NEW i \in DOMAIN r, NEW c \in ToSet(r[i].calls) PROVE \E j \in DOMAIN r : r[j].call = c
    <3>1. i \in DOMAIN a /\ c \in ToSet(a[i].calls) /\ a[i] \in MessageSet
      BY <2>1, <2>2
    <3>2. PICK j \in DOMAIN a : a[j].call = c
      BY <3>1 DEF Closed
    <3>3. c # NoCall /\ a[j] \in MessageSet
      <4>1. c \in CallSet
        BY <3>1, MessageFields
      <4> QED BY <3>2, <4>1, CallFields
    <3>4. a[j].role = "tool"
      BY <3>2, <3>3, MessageFields
    <3>5. j \in DOMAIN r
      BY <2>1, <2>2, <3>4
    <3> QED BY <2>1, <2>2, <3>2, <3>5
  <2> QED BY <2>3, <2>4 DEF Closed, r
<1> QED BY <1>1, <1>2

(* What is kept of a conversation is a part of it,                         *)
LEMMA FittedPart ==
  ASSUME NEW p \in Seq(MessageSet)
  PROVE  Fitted(p) \in Seq(MessageSet) /\ Part(Fitted(p), p, DOMAIN p)
<1> DEFINE w == WithoutOrphans(p)
           a == OnlyAnswered(w)
<1>1. w \in Seq(MessageSet) /\ Part(w, p, DOMAIN p)
  BY AtPart DEF WithoutOrphans
<1> HIDE DEF w
<1>2. a \in Seq(MessageSet) /\ Part(a, w, DOMAIN w)
  BY <1>1, OnlyAnsweredMessages, EditedPart
<1>3. Part(a, p, DOMAIN p)
  BY <1>1, <1>2, PartThen
<1> HIDE DEF a
<1>4. NotEndingInAssistant(a) \in Seq(MessageSet) /\ Part(NotEndingInAssistant(a), a, DOMAIN a)
  BY <1>2, LastDropped
<1>5. Part(NotEndingInAssistant(a), p, DOMAIN p)
  BY <1>2, <1>3, <1>4, PartThen
<1> QED BY <1>4, <1>5 DEF Fitted, a, w

(* with all its calls answered.                                            *)
LEMMA FittedClosed ==
  ASSUME NEW p \in Seq(MessageSet), Unique(p)
  PROVE  Closed(Fitted(p), {})
<1> DEFINE w == WithoutOrphans(p)
           a == OnlyAnswered(w)
<1>1. w \in Seq(MessageSet) /\ Part(w, p, DOMAIN p)
  BY AtPart DEF WithoutOrphans
<1>2. Unique(w)
  BY <1>1, PartUnique
<1>3. \A k \in DOMAIN w : w[k].role = "tool" => \E j \in 1..k - 1 : w[k].call \in ToSet(w[j].calls)
  BY OrphansRemoved
<1> HIDE DEF w
<1>4. a \in Seq(MessageSet) /\ Closed(a, {})
  BY <1>1, <1>2, <1>3, OnlyAnsweredClosed, OnlyAnsweredMessages
<1> HIDE DEF a
<1> QED BY <1>4, LastDroppedClosed DEF Fitted, a, w

-----------------------------------------------------------------------------
(* trim_messages(): what is left is good again                             *)

(* The system messages and the input, which a compaction keeps *)
Opening(list) == SystemOf(list) \o InputOf(list)

(* partition_messages() puts each message in one of three lists.           *)
LEMMA HeadParts ==
  ASSUME NEW s \in Seq(MessageSet)
  PROVE  /\ SystemOf(s) \in Seq(MessageSet) /\ InputOf(s) \in Seq(MessageSet)
         /\ Others(s) \in Seq(MessageSet) /\ ConversationOf(s) \in Seq(MessageSet)
         /\ Part(SystemOf(s), s, SystemIndices(s))
         /\ Part(Others(s), s, DOMAIN s \ SystemIndices(s))
         /\ Part(InputOf(s), Others(s), InputIndices(Others(s)))
         /\ Part(ConversationOf(s), Others(s), DOMAIN Others(s) \ InputIndices(Others(s)))
         /\ InputIndices(Others(s)) \subseteq DOMAIN Others(s)
         /\ SystemIndices(s) \subseteq DOMAIN s
<1>1. SystemIndices(s) \subseteq DOMAIN s
  BY DEF SystemIndices
<1>2. InputIndices(Others(s)) \subseteq DOMAIN Others(s)
  BY DEF InputIndices
<1>3. SystemOf(s) \in Seq(MessageSet) /\ Part(SystemOf(s), s, DOMAIN s \cap SystemIndices(s))
  BY AtPart DEF SystemOf
<1>4. /\ Others(s) \in Seq(MessageSet)
      /\ Part(Others(s), s, DOMAIN s \cap (DOMAIN s \ SystemIndices(s)))
  BY AtPart DEF Others
<1> DEFINE o == Others(s)
<1>5. InputOf(s) = At(o, InputIndices(o))
  BY DEF InputOf
<1>6. ConversationOf(s) = At(o, DOMAIN o \ InputIndices(o))
  BY DEF ConversationOf
<1>7. o \in Seq(MessageSet)
  BY <1>4
<1> HIDE DEF o
<1>8. InputOf(s) \in Seq(MessageSet) /\ Part(InputOf(s), o, DOMAIN o \cap InputIndices(o))
  BY <1>5, <1>7, AtPart
<1>9. /\ ConversationOf(s) \in Seq(MessageSet)
      /\ Part(ConversationOf(s), o, DOMAIN o \cap (DOMAIN o \ InputIndices(o)))
  BY <1>6, <1>7, AtPart
<1>10. /\ DOMAIN s \cap SystemIndices(s) = SystemIndices(s)
       /\ DOMAIN s \cap (DOMAIN s \ SystemIndices(s)) = DOMAIN s \ SystemIndices(s)
       /\ DOMAIN o \cap InputIndices(o) = InputIndices(o)
       /\ DOMAIN o \cap (DOMAIN o \ InputIndices(o)) = DOMAIN o \ InputIndices(o)
  BY <1>1, <1>2 DEF o
<1> QED BY <1>1, <1>2, <1>3, <1>4, <1>8, <1>9, <1>10 DEF o

(* The system messages, the input and some of the conversation *)
LEMMA HeadJoined ==
  ASSUME NEW s \in Seq(MessageSet), NEW f \in Seq(MessageSet),
         Part(f, ConversationOf(s), DOMAIN ConversationOf(s))
  PROVE  /\ Opening(s) \o f \in Seq(MessageSet) /\ Part(Opening(s) \o f, s, DOMAIN s)
         /\ Opening(s) \in Seq(MessageSet) /\ Part(Opening(s), s, DOMAIN s)
<1> DEFINE o == Others(s)
           c == ConversationOf(s)
           i == InputOf(s)
           y == SystemOf(s)
           SI == SystemIndices(s)
           II == InputIndices(o)
<1>1. /\ y \in Seq(MessageSet) /\ i \in Seq(MessageSet)
      /\ o \in Seq(MessageSet) /\ c \in Seq(MessageSet)
      /\ Part(y, s, SI) /\ Part(o, s, DOMAIN s \ SI)
      /\ Part(i, o, II) /\ Part(c, o, DOMAIN o \ II)
      /\ II \subseteq DOMAIN o /\ SI \subseteq DOMAIN s
      /\ Part(f, c, DOMAIN c)
  BY HeadParts
<1>2. Opening(s) = y \o i
  BY DEF Opening
<1> HIDE DEF o, c, i, y, SI, II
<1>3. Part(f, o, DOMAIN o \ II)
  <2>1. DOMAIN o \ II \subseteq DOMAIN o
    OBVIOUS
  <2> QED BY <1>1, <2>1, PartThen
<1>4. i \o f \in Seq(MessageSet) /\ Part(i \o f, o, DOMAIN o)
  <2>1. II \cap (DOMAIN o \ II) = {} /\ II \cup (DOMAIN o \ II) = DOMAIN o
    BY <1>1
  <2>2. Part(i \o f, o, II \cup (DOMAIN o \ II))
    BY <1>1, <1>3, <2>1, PartJoin
  <2> QED BY <1>1, <2>1, <2>2
<1> DEFINE g == i \o f
           D == DOMAIN s \ SI
<1>5. D \subseteq DOMAIN s /\ SI \cap D = {} /\ SI \cup D = DOMAIN s
  BY <1>1
<1>6. Part(o, s, D) /\ g \in Seq(MessageSet) /\ Part(g, o, DOMAIN o)
  BY <1>1, <1>4
<1>7. y \o i \o f = y \o g
  BY <1>1
<1>8. Part(i, o, DOMAIN o)
  BY <1>1, PartWider
<1> HIDE DEF D, g
<1>9. Part(g, s, D) /\ Part(i, s, D)
  BY <1>1, <1>5, <1>6, <1>8, PartThen
<1>10. Part(y \o g, s, SI \cup D) /\ Part(y \o i, s, SI \cup D)
  BY <1>1, <1>5, <1>6, <1>9, PartJoin
<1>11. y \o g \in Seq(MessageSet) /\ y \o i \in Seq(MessageSet)
  BY <1>1, <1>6
<1> QED BY <1>2, <1>5, <1>7, <1>10, <1>11

(* System messages and input are neither calls nor results.                *)
LEMMA HeadPlain ==
  ASSUME NEW s \in Seq(MessageSet), HasInput(s)
  PROVE  /\ Closed(Opening(s), {}) /\ HasInput(InputOf(s))
         /\ InputIndices(Others(s)) = {j \in DOMAIN Others(s) : Others(s)[j].origin = "input"}
<1> DEFINE o == Others(s)
           I == DOMAIN s \ SystemIndices(s)
<1>1. o \in Seq(MessageSet) /\ \E h : Enum(h, o, s, I)
  BY AtEnum DEF Others
<1>2. PICK h : Enum(h, o, s, I)
  BY <1>1
<1>3. PICK i \in DOMAIN s : s[i].origin = "input"
  BY DEF HasInput
<1>4. i \in I
  <2>1. s[i] \in MessageSet
    OBVIOUS
  <2>2. s[i].role = "user"
    BY <1>3, <2>1, MessageFields
  <2> QED BY <2>2 DEF SystemIndices
<1> HIDE DEF o
<1>5. DOMAIN o = 1..Len(o)
  BY <1>1
<1>6. PICK k \in DOMAIN o : h[k] = i
  BY <1>2, <1>3, <1>4, <1>5 DEF Enum
<1>7. o[k].origin = "input"
  BY <1>2, <1>3, <1>5, <1>6 DEF Enum
<1> DEFINE II == {j \in DOMAIN o : o[j].origin = "input"}
<1>8. InputIndices(o) = II
  BY <1>7 DEF InputIndices
<1> DEFINE p == InputOf(s)
<1>9. p = At(o, II)
  BY <1>8 DEF InputOf, o
<1>10. PICK g : Enum(g, p, o, II)
  BY <1>1, <1>9, AtEnum
<1>11. p \in Seq(MessageSet)
  BY HeadParts
<1> HIDE DEF p
<1>12. \A j \in DOMAIN p : p[j].origin = "input"
  BY <1>10, <1>11 DEF Enum
<1>13. HasInput(p)
  <2>1. k \in II
    BY <1>7
  <2>2. \E j \in 1..Len(p) : g[j] = k
    BY <1>10, <2>1 DEF Enum
  <2> QED BY <1>11, <1>12, <2>2 DEF HasInput
<1>14. Closed(p, {})
  <2>1. \A j \in DOMAIN p : p[j] \in MessageSet
    BY <1>11
  <2>2. \A j \in DOMAIN p : p[j].role = "user"
    BY <1>12, <2>1, MessageFields
  <2>3. \A j \in DOMAIN p : p[j].role \notin {"tool", "assistant"}
    BY <2>2
  <2> QED BY <1>11, <2>3, PlainClosed
<1> DEFINE y == SystemOf(s)
<1>15. y = At(s, SystemIndices(s)) /\ y \in Seq(MessageSet)
  BY HeadParts DEF SystemOf
<1>16. PICK f : Enum(f, y, s, SystemIndices(s))
  BY <1>15, AtEnum
<1> HIDE DEF y
<1>17. Closed(y, {})
  <2>1. \A j \in DOMAIN y : y[j].role = "system"
    BY <1>15, <1>16 DEF Enum, SystemIndices
  <2>2. \A j \in DOMAIN y : y[j].role \notin {"tool", "assistant"}
    BY <2>1
  <2> QED BY <1>15, <2>2, PlainClosed
<1>18. Closed(y \o p, {})
  BY <1>11, <1>14, <1>15, <1>17, ClosedJoin
<1> QED BY <1>8, <1>13, <1>18 DEF Opening, y, p, o

(* A part of a good list is good if it has no open calls.                  *)
LEMMA PartGood ==
  ASSUME NEW n \in Nat, NEW s, NEW r \in Seq(MessageSet), Good(s, {}, n),
         Part(r, s, DOMAIN s), Closed(r, {})
  PROVE  Good(r, {}, n)
<1>1. s \in Seq(MessageSet) /\ Unique(s) /\ Bounded(s, n)
  BY DEF Good
<1>2. Unique(r) /\ Bounded(r, n)
  BY <1>1, PartUnique, PartBounded
<1> QED BY <1>2 DEF Good

Left(s, tenths) ==
  SubSeq(ConversationOf(s), Dropped(tenths, Len(ConversationOf(s))) + 1, Len(ConversationOf(s)))

(* No more is dropped than there is.                                       *)
LEMMA DroppedBound ==
  ASSUME NEW n \in Nat, NEW tenths \in 0..10
  PROVE  Dropped(tenths, n) \in Nat /\ Dropped(tenths, n) <= n
<1>1. CASE tenths = 1
  BY <1>1 DEF Dropped
<1>2. CASE tenths = 2
  BY <1>2 DEF Dropped
<1>3. CASE tenths = 0
  BY <1>3 DEF Dropped
<1>4. CASE tenths = 3
  BY <1>4 DEF Dropped
<1>5. CASE tenths = 4
  BY <1>5 DEF Dropped
<1>6. CASE tenths = 5
  BY <1>6 DEF Dropped
<1>7. CASE tenths = 6
  BY <1>7 DEF Dropped
<1>8. CASE tenths = 7
  BY <1>8 DEF Dropped
<1>9. CASE tenths = 8
  BY <1>9 DEF Dropped
<1>10. CASE tenths = 9
  BY <1>10 DEF Dropped
<1>11. CASE tenths = 10
  BY <1>11 DEF Dropped
<1> QED BY <1>1, <1>2, <1>3, <1>4, <1>5, <1>6, <1>7, <1>8, <1>9, <1>10, <1>11

(* What trim_messages() looks at is the end of the conversation.           *)
LEMMA LeftOver ==
  ASSUME NEW s \in Seq(MessageSet), NEW tenths \in 0..10
  PROVE  \E a \in Nat :
           /\ a <= Len(ConversationOf(s))
           /\ Left(s, tenths) = SubSeq(ConversationOf(s), a + 1, Len(ConversationOf(s)))
           /\ Left(s, tenths) \in Seq(MessageSet)
           /\ DOMAIN Left(s, tenths) = 1..Len(ConversationOf(s)) - a
           /\ \A k \in 1..Len(ConversationOf(s)) - a :
                a + k \in DOMAIN ConversationOf(s) /\ Left(s, tenths)[k] = ConversationOf(s)[a + k]
           /\ Part(Left(s, tenths), ConversationOf(s), DOMAIN ConversationOf(s))
<1> DEFINE c == ConversationOf(s)
           n == Len(c)
           a == Dropped(tenths, n)
<1>1. c \in Seq(MessageSet) /\ n \in Nat
  <2>1. c \in Seq(MessageSet)
    BY HeadParts
  <2> HIDE DEF c
  <2> QED BY <2>1
<1>2. Left(s, tenths) = SubSeq(c, a + 1, n)
  BY DEF Left
<1>3. a \in Nat /\ a <= n
  <2> HIDE DEF n, a
  <2> QED BY <1>1, DroppedBound DEF a
<1> HIDE DEF a, c
<1>4. a + 1 \in Nat /\ a + 1 > 0 /\ n <= Len(c) /\ a + 1 <= n + 1 /\ n - (a + 1) + 1 = n - a
  BY <1>1, <1>3
<1> DEFINE r == SubSeq(c, a + 1, n)
<1>5. /\ r \in Seq(MessageSet) /\ DOMAIN r = 1..n - (a + 1) + 1
      /\ \A k \in 1..n - (a + 1) + 1 : (a + 1) + k - 1 \in DOMAIN c /\ r[k] = c[(a + 1) + k - 1]
      /\ Part(r, c, DOMAIN c)
  BY <1>1, <1>4, SubSeqPart
<1> HIDE DEF r, n
<1>6. \A k \in 1..n - a : (a + 1) + k - 1 = a + k
  BY <1>1, <1>3
<1>7. \A k \in 1..n - a : a + k \in DOMAIN c /\ r[k] = c[a + k]
  BY <1>4, <1>5, <1>6
<1> QED BY <1>2, <1>3, <1>4, <1>5, <1>7 DEF r, n, c

(* trim_messages() in terms of Opening and Fitted                          *)
LEMMA TrimIs ==
  ASSUME NEW s, NEW tenths
  PROVE  Trim(s, tenths) = Opening(s) \o Fitted(Left(s, tenths))
BY DEF Trim, Opening, Fitted, Left

(* Trimming leaves a part of the list,                                     *)
LEMMA TrimPart ==
  ASSUME NEW s \in Seq(MessageSet), NEW tenths \in 0..10
  PROVE  /\ Trim(s, tenths) \in Seq(MessageSet) /\ Part(Trim(s, tenths), s, DOMAIN s)
<1> DEFINE l == Left(s, tenths)
           c == ConversationOf(s)
<1>1. l \in Seq(MessageSet) /\ Part(l, c, DOMAIN c) /\ c \in Seq(MessageSet)
  BY LeftOver, HeadParts
<1> HIDE DEF l, c
<1>2. Fitted(l) \in Seq(MessageSet) /\ Part(Fitted(l), l, DOMAIN l)
  BY <1>1, FittedPart
<1>3. Part(Fitted(l), c, DOMAIN c)
  BY <1>1, <1>2, PartThen
<1> QED BY <1>2, <1>3, HeadJoined, TrimIs DEF c, l

(* and a good one, which still has the input.                              *)
LEMMA TrimGood ==
  ASSUME NEW n \in Nat, NEW s, Good(s, {}, n), HasInput(s), NEW tenths \in 0..10
  PROVE  Good(Trim(s, tenths), {}, n) /\ HasInput(Trim(s, tenths))
<1>0. s \in Seq(MessageSet) /\ Unique(s)
  BY DEF Good
<1> DEFINE l == Left(s, tenths)
           c == ConversationOf(s)
           o == Others(s)
<1>1. l \in Seq(MessageSet) /\ Part(l, c, DOMAIN c) /\ c \in Seq(MessageSet)
  BY <1>0, LeftOver, HeadParts
<1>2. /\ o \in Seq(MessageSet) /\ Part(o, s, DOMAIN s \ SystemIndices(s))
      /\ Part(c, o, DOMAIN o \ InputIndices(o))
  BY <1>0, HeadParts
<1>3. Trim(s, tenths) = Opening(s) \o Fitted(l)
  BY TrimIs
<1> HIDE DEF l, c, o
<1>4. Part(o, s, DOMAIN s) /\ Part(c, o, DOMAIN o)
  <2>1. DOMAIN s \ SystemIndices(s) \subseteq DOMAIN s /\ DOMAIN o \ InputIndices(o) \subseteq DOMAIN o
    OBVIOUS
  <2> QED BY <1>2, <2>1, PartWider
<1>5. Unique(l)
  <2>1. Unique(o)
    BY <1>0, <1>2, <1>4, PartUnique
  <2>2. Unique(c)
    BY <1>1, <1>2, <1>4, <2>1, PartUnique
  <2> QED BY <1>1, <2>2, PartUnique
<1>6. Fitted(l) \in Seq(MessageSet) /\ Closed(Fitted(l), {})
  BY <1>1, <1>5, FittedPart, FittedClosed
<1>7. Opening(s) \in Seq(MessageSet) /\ Closed(Opening(s), {})
  <2>1. Part(c, c, DOMAIN c)
    BY <1>1, EditedPart, LikeSelf
  <2>2. Opening(s) \in Seq(MessageSet)
    BY <1>0, <1>1, <2>1, HeadJoined DEF c
  <2> QED BY <1>0, <2>2, HeadPlain
<1>8. Closed(Trim(s, tenths), {})
  BY <1>3, <1>6, <1>7, ClosedJoin
<1>9. HasInput(Trim(s, tenths))
  <2>1. SystemOf(s) \in Seq(MessageSet) /\ InputOf(s) \in Seq(MessageSet) /\ HasInput(InputOf(s))
    BY <1>0, HeadParts, HeadPlain
  <2> DEFINE y == SystemOf(s)
             i == InputOf(s)
  <2>2. Trim(s, tenths) = (y \o i) \o Fitted(l)
    BY <1>3 DEF Opening
  <2> HIDE DEF y, i
  <2>3. PICK k \in DOMAIN i : i[k].origin = "input"
    BY <2>1 DEF HasInput, i
  <2>4. y \in Seq(MessageSet) /\ i \in Seq(MessageSet) /\ y \o i \in Seq(MessageSet)
    BY <2>1 DEF y, i
  <2>5. Len(y) + k \in DOMAIN (y \o i) /\ (y \o i)[Len(y) + k] = i[k]
    BY <2>3, <2>4, Joined
  <2> DEFINE g == y \o i
             m == Len(y) + k
  <2>6. g \in Seq(MessageSet) /\ m \in DOMAIN g /\ g[m].origin = "input"
    BY <2>3, <2>4, <2>5
  <2> HIDE DEF g, m
  <2>7. m \in DOMAIN (g \o Fitted(l)) /\ (g \o Fitted(l))[m] = g[m]
    BY <1>6, <2>6, Joined
  <2> QED BY <2>2, <2>6, <2>7 DEF HasInput, g
<1>10. Trim(s, tenths) \in Seq(MessageSet) /\ Part(Trim(s, tenths), s, DOMAIN s)
  BY <1>0, TrimPart
<1> QED BY <1>8, <1>9, <1>10, PartGood

-----------------------------------------------------------------------------
(* trim_messages() and the messages at the start                           *)

(* A pair that may lack its first message, cut off from the start of a list *)
PairedAfter(list, p) ==
  \A i \in DOMAIN list :
    /\ list[i].id = p => i + 1 \in DOMAIN list /\ list[i + 1].id = p + 1
    /\ list[i].id = p + 1 /\ i > 1 => list[i - 1].id = p

(* A result that has lost its call is dropped, a call that has one stays.  *)
LEMMA OrphansMarked ==
  ASSUME NEW start, IsStart(start), NEW p \in Seq(MessageSet), Original(p, start),
         \A u \in Callers(start) : PairedAfter(p, u)
  PROVE  Marked(WithoutOrphans(p), start)
<1> DEFINE I == KeptIndices(p)
           L == Len(start)
<1>1. WithoutOrphans(p) = At(p, I)
  BY DEF WithoutOrphans, KeptIndices
<1>2. DOMAIN p = 1..Len(p) /\ Len(p) \in Nat
  OBVIOUS
<1>3. \A i \in DOMAIN p : p[i].id \in -L..L => p[i] = start[p[i].id]
  BY DEF Original
<1> HIDE DEF L
<1>4. ASSUME NEW u \in Callers(start), NEW i \in DOMAIN p, p[i].id = u
      PROVE  i + 1 \in DOMAIN p /\ p[i + 1].id = u + 1 /\ i + 1 \in I
  <2>0. Caller(start, u) /\ u \in -L..L /\ u + 1 \in -L..L
    BY CallersAre DEF L
  <2>1. i + 1 \in DOMAIN p /\ p[i + 1].id = u + 1
    BY <1>4 DEF PairedAfter
  <2>2. p[i] = start[u] /\ p[i + 1] = start[u + 1]
    BY <1>3, <1>4, <2>0, <2>1
  <2>3. p[i].role = "assistant" /\ p[i].calls = <<CallOf(u)>> /\ p[i + 1].call = CallOf(u)
    BY <2>0, <2>2 DEF Caller
  <2>4. i \in 1..(i + 1) - 1 /\ \A k \in i + 1..(i + 1) - 1 : FALSE
    BY <1>2
  <2>5. 1 \in DOMAIN p[i].calls /\ p[i].calls[1].id = p[i + 1].call.id
    BY <2>3
  <2>6. HasParent(p, i + 1)
    BY <2>3, <2>4, <2>5 DEF HasParent
  <2> QED BY <2>1, <2>6 DEF KeptIndices
<1>5. ASSUME NEW u \in Callers(start), NEW i \in DOMAIN p, i \in I, p[i].id = u + 1
      PROVE  i - 1 \in DOMAIN p /\ p[i - 1].id = u /\ i - 1 \in I
  <2>0. Caller(start, u) /\ u \in -L..L /\ u + 1 \in -L..L
    BY CallersAre DEF L
  <2>1. p[i] = start[u + 1]
    BY <1>3, <1>5, <2>0
  <2>2. p[i].role = "tool"
    BY <2>0, <2>1 DEF Caller
  <2>3. HasParent(p, i)
    BY <1>5, <2>2 DEF KeptIndices
  <2>4. PICK j \in 1..i - 1 : TRUE
    BY <2>3 DEF HasParent
  <2>5. i > 1 /\ i - 1 \in DOMAIN p
    BY <1>2, <2>4
  <2>6. p[i - 1].id = u
    BY <1>5, <2>5 DEF PairedAfter
  <2>7. p[i - 1] = start[u]
    BY <1>3, <2>0, <2>5, <2>6
  <2>8. p[i - 1].role # "tool"
    BY <2>0, <2>7 DEF Caller
  <2> QED BY <2>5, <2>6, <2>8 DEF KeptIndices
<1>6. ASSUME NEW u \in Callers(start), NEW i \in DOMAIN p, p[i].id = u + 1, i \notin I
      PROVE  i = 1
  <2>0. Caller(start, u) /\ u \in -L..L
    BY CallersAre DEF L
  <2>1. SUFFICES ASSUME i # 1 PROVE FALSE
    OBVIOUS
  <2>2. i > 1 /\ i - 1 \in DOMAIN p /\ (i - 1) + 1 = i
    BY <1>2, <2>1
  <2>3. p[i - 1].id = u
    BY <1>6, <2>2 DEF PairedAfter
  <2>4. (i - 1) + 1 \in I
    BY <1>4, <2>2, <2>3
  <2> QED BY <1>6, <2>2, <2>4
<1> HIDE DEF I
<1>7. At(p, I) \in Seq(MessageSet) /\ \E h : Enum(h, At(p, I), p, I)
  BY AtEnum
<1> DEFINE r == At(p, I)
<1>8. PICK h : Enum(h, r, p, I)
  BY <1>7
<1> HIDE DEF r
<1>9. r \in Seq(MessageSet) /\ DOMAIN r = 1..Len(r)
  BY <1>7 DEF r
<1>10. \A k \in DOMAIN r : h[k] \in DOMAIN p /\ h[k] \in I /\ r[k] = p[h[k]]
  BY <1>8, <1>9 DEF Enum
<1>11. Adjacent(h, r, p, I)
  BY <1>8, <1>9, Neighbours
<1>12. ASSUME NEW u \in Callers(start), NEW k \in DOMAIN r
       PROVE  /\ r[k].id = u => k + 1 \in DOMAIN r /\ r[k + 1].id = u + 1
              /\ r[k].id = u + 1 => k - 1 \in DOMAIN r /\ r[k - 1].id = u
  <2>1. h[k] \in DOMAIN p /\ h[k] \in I /\ r[k] = p[h[k]]
    BY <1>10
  <2>2. /\ p[h[k]].id = u => h[k] + 1 \in DOMAIN p \cap I /\ p[h[k] + 1].id = u + 1
        /\ p[h[k]].id = u + 1 => h[k] - 1 \in DOMAIN p \cap I /\ p[h[k] - 1].id = u
    BY <1>4, <1>5, <2>1
  <2> QED BY <1>10, <1>11, <2>1, <2>2 DEF Adjacent
<1>13. \A u \in Callers(start) : Paired(r, u)
  BY <1>12 DEF Paired
<1>14. Original(r, start)
  BY <1>10 DEF Original
<1> QED BY <1>1, <1>13, <1>14 DEF Marked, r

(* At the end of a conversation a call of the start and its result stay or *)
(* go together.                                                            *)
LEMMA FittedMarked ==
  ASSUME NEW start, IsStart(start), NEW p \in Seq(MessageSet), Original(p, start),
         \A u \in Callers(start) : PairedAfter(p, u)
  PROVE  Marked(Fitted(p), start)
<1> DEFINE w == WithoutOrphans(p)
           a == OnlyAnswered(w)
           L == Len(start)
<1>0. /\ DOMAIN start = 1..L /\ L \in Nat
      /\ start[1].calls = <<>> /\ start[2].calls = <<>>
      /\ \A u \in DOMAIN start : u \in {1, 2} \/ u \in Callers(start) \/ u - 1 \in Callers(start)
  <2>1. L \in {2, 6}
    BY StartMessages
  <2> QED BY <2>1, StartMessages
<1>1. w \in Seq(MessageSet)
  BY AtPart DEF WithoutOrphans
<1>2. Marked(w, start)
  BY OrphansMarked
<1>3. /\ Original(w, start) /\ \A u \in Callers(start) : Paired(w, u)
      /\ \A i \in DOMAIN w : w[i].id \in -L..L => w[i].id \in DOMAIN start /\ w[i] = start[w[i].id]
  BY <1>2 DEF Marked, Original
<1> HIDE DEF w
<1>4. /\ a \in Seq(MessageSet) /\ Len(a) = Len(w)
      /\ \A i \in DOMAIN w :
           /\ a[i].id = w[i].id
           /\ (\A c \in ToSet(w[i].calls) : c.id \in Answered(w)) => a[i] = w[i]
  BY <1>1, OnlyAnsweredMessages
<1>5. DOMAIN a = DOMAIN w
  BY <1>1, <1>4
<1> HIDE DEF a, L
<1>6. ASSUME NEW i \in DOMAIN w, w[i].id \in Callers(start)
      PROVE  \A c \in ToSet(w[i].calls) : c.id \in Answered(w)
  <2> DEFINE u == w[i].id
  <2>1. u \in Callers(start)
    BY <1>6
  <2> HIDE DEF u
  <2>2. Caller(start, u) /\ u \in -L..L /\ u + 1 \in -L..L
    BY <2>1, CallersAre DEF L
  <2>3. w[i].id = u
    BY DEF u
  <2>4. i + 1 \in DOMAIN w /\ w[i + 1].id = u + 1
    BY <1>3, <2>1, <2>3 DEF Paired
  <2>5. w[i] = start[u] /\ w[i + 1] = start[u + 1]
    BY <1>3, <2>2, <2>3, <2>4
  <2>6. w[i].calls = <<CallOf(u)>> /\ w[i + 1].role = "tool" /\ w[i + 1].call = CallOf(u)
    BY <2>2, <2>5 DEF Caller
  <2>7. CallOf(u).id \in Answered(w)
    BY <2>4, <2>6 DEF Answered
  <2>8. ToSet(w[i].calls) = {CallOf(u)}
    BY <2>6 DEF ToSet
  <2> QED BY <2>7, <2>8
<1>7. ASSUME NEW i \in DOMAIN w, w[i].id \in -L..L
      PROVE  a[i] = w[i]
  <2>1. w[i].id \in DOMAIN start /\ w[i] = start[w[i].id]
    BY <1>3, <1>7
  <2>2. CASE w[i].id \in Callers(start)
    BY <1>4, <1>6, <2>2
  <2>3. CASE w[i].id \notin Callers(start)
    <3>1. w[i].calls = <<>>
      <4>1. CASE w[i].id \in {1, 2}
        BY <1>0, <2>1, <4>1
      <4>2. CASE w[i].id - 1 \in Callers(start)
        <5> DEFINE u == w[i].id - 1
        <5>1. Caller(start, u) /\ w[i].id = u + 1
          BY <1>0, <2>1, <4>2, CallersAre
        <5> HIDE DEF u
        <5> QED BY <2>1, <5>1 DEF Caller
      <4> QED BY <1>0, <2>1, <2>3, <4>1, <4>2
    <3>2. ToSet(w[i].calls) = {}
      BY <3>1 DEF ToSet
    <3> QED BY <1>4, <3>2
  <2> QED BY <2>2, <2>3
<1>8. \A i \in DOMAIN a : a[i].id = w[i].id
  BY <1>4, <1>5
<1>9. Original(a, start)
  <2>1. \A i \in DOMAIN a : a[i].id \in -L..L => a[i].id \in DOMAIN start /\ a[i] = start[a[i].id]
    BY <1>3, <1>5, <1>7, <1>8
  <2> QED BY <2>1 DEF Original, L
<1>10. ASSUME NEW u \in Callers(start) PROVE Paired(a, u)
  <2>1. Paired(w, u)
    BY <1>3
  <2> QED BY <1>5, <1>8, <2>1 DEF Paired
<1> DEFINE r == NotEndingInAssistant(a)
<1>11. Marked(r, start)
  <2>1. CASE r = a
    BY <1>9, <1>10, <2>1 DEF Marked
  <2>2. CASE r # a
    <3> DEFINE n == Len(a)
    <3>1. /\ r \in Seq(MessageSet) /\ n > 0 /\ a[n].role = "assistant" /\ Len(r) = n - 1
          /\ \A i \in 1..n - 1 : r[i] = a[i]
      BY <1>4, <2>2, LastDropped
    <3>2. n \in Nat /\ DOMAIN r = 1..n - 1 /\ DOMAIN a = 1..n /\ n \in DOMAIN a
      BY <1>4, <3>1
    <3> HIDE DEF r, n
    <3>3. \A i \in DOMAIN r : i \in DOMAIN a /\ r[i] = a[i] /\ i \in Int /\ i < n
      BY <3>1, <3>2
    <3>4. ASSUME NEW u \in Callers(start), NEW i \in DOMAIN r
          PROVE  /\ r[i].id = u => i + 1 \in DOMAIN r /\ r[i + 1].id = u + 1
                 /\ r[i].id = u + 1 => i - 1 \in DOMAIN r /\ r[i - 1].id = u
      <4>0. Caller(start, u) /\ u + 1 \in -L..L
        BY CallersAre DEF L
      <4>1. a[n].id # u + 1
        <5> SUFFICES ASSUME a[n].id = u + 1 PROVE FALSE
          OBVIOUS
        <5>1. a[n] = start[u + 1]
          BY <1>9, <3>2, <4>0 DEF Original, L
        <5> QED BY <3>1, <4>0, <5>1 DEF Caller
      <4>2. /\ a[i].id = u => i + 1 \in DOMAIN a /\ a[i + 1].id = u + 1
            /\ a[i].id = u + 1 => i - 1 \in DOMAIN a /\ a[i - 1].id = u
        BY <1>10, <3>3 DEF Paired
      <4>3. i + 1 \in DOMAIN a /\ i + 1 # n => i + 1 \in DOMAIN r
        BY <3>2
      <4>4. i - 1 \in DOMAIN a => i - 1 \in DOMAIN r
        BY <3>2
      <4> QED BY <3>3, <4>1, <4>2, <4>3, <4>4
    <3>5. Original(r, start)
      BY <1>9, <3>3 DEF Original
    <3>6. \A u \in Callers(start) : Paired(r, u)
      BY <3>4 DEF Paired
    <3> QED BY <3>5, <3>6 DEF Marked
  <2> QED BY <2>1, <2>2
<1> QED BY <1>11 DEF Fitted, a, w

(* A selection that has none of the messages of the start that make or     *)
(* answer calls, and what it leaves                                        *)
LEMMA MarkedSplit ==
  ASSUME NEW start, NEW s \in Seq(MessageSet), Marked(s, start), NEW I,
         \A u \in Callers(start) : \A i \in DOMAIN s : s[i].id \in {u, u + 1} => i \notin I
  PROVE  Marked(At(s, I), start) /\ Marked(At(s, DOMAIN s \ I), start)
<1> DEFINE J == DOMAIN s \ I
<1>1. Original(s, start) /\ \A u \in Callers(start) : Paired(s, u)
  BY DEF Marked
<1>2. \A u \in Callers(start) : Together(s, I, u)
  BY DEF Together
<1>3. ASSUME NEW u \in Callers(start) PROVE Together(s, J, u)
  <2>1. ASSUME NEW i \in DOMAIN s
        PROVE  /\ s[i].id = u => i + 1 \in J
               /\ s[i].id = u + 1 => i - 1 \in J
    <3>1. /\ s[i].id = u => i + 1 \in DOMAIN s /\ s[i + 1].id = u + 1
          /\ s[i].id = u + 1 => i - 1 \in DOMAIN s /\ s[i - 1].id = u
      BY <1>1 DEF Paired
    <3> QED BY <3>1
  <2> HIDE DEF J
  <2> QED BY <2>1 DEF Together
<1>4. Marked(At(s, I), start)
  BY <1>1, <1>2, MarkedAt
<1> HIDE DEF J
<1>5. Marked(At(s, J), start)
  BY <1>1, <1>3, MarkedAt
<1> QED BY <1>4, <1>5 DEF J

(* A call of the start and its result are of the conversation, not of the  *)
(* opening.                                                                *)
LEMMA OpeningMarked ==
  ASSUME NEW start, IsStart(start), NEW s \in Seq(MessageSet), HasInput(s), Marked(s, start)
  PROVE  /\ Marked(SystemOf(s), start) /\ Marked(InputOf(s), start) /\ Marked(Opening(s), start)
         /\ Marked(ConversationOf(s), start)
<1> DEFINE SI == SystemIndices(s)
           o == Others(s)
           II == InputIndices(o)
<1>0. ASSUME NEW u \in Callers(start), NEW list, Marked(list, start),
             NEW i \in DOMAIN list, list[i].id \in {u, u + 1}
      PROVE  list[i].role # "system" /\ list[i].origin # "input"
  <2>1. Caller(start, u) /\ u \in -Len(start)..Len(start) /\ u + 1 \in -Len(start)..Len(start)
    BY CallersAre
  <2>2. list[i] = start[list[i].id]
    BY <1>0, <2>1 DEF Marked, Original
  <2>3. start[u].role = "assistant" /\ start[u + 1].role = "tool" /\ u \in 3..5
    BY <2>1 DEF Caller
  <2>4. start[u].origin # "input" /\ start[u + 1].origin # "input"
    <3>1. u \in DOMAIN start /\ u + 1 \in DOMAIN start /\ u # 2 /\ u + 1 # 2
      BY <2>1 DEF Caller
    <3> QED BY <3>1, StartMessages
  <2> QED BY <1>0, <2>2, <2>3, <2>4
<1>1. Marked(At(s, SI), start) /\ Marked(At(s, DOMAIN s \ SI), start)
  <2>1. \A u \in Callers(start) : \A i \in DOMAIN s : s[i].id \in {u, u + 1} => i \notin SI
    BY <1>0 DEF SystemIndices
  <2> HIDE DEF SI
  <2> QED BY <2>1, MarkedSplit
<1>2. Marked(SystemOf(s), start) /\ Marked(o, start)
  BY <1>1 DEF SystemOf, Others
<1>3. o \in Seq(MessageSet) /\ II = {j \in DOMAIN o : o[j].origin = "input"}
  BY HeadParts, HeadPlain
<1>4. /\ InputOf(s) = At(o, II) /\ ConversationOf(s) = At(o, DOMAIN o \ II)
      /\ SystemOf(s) \in Seq(MessageSet) /\ InputOf(s) \in Seq(MessageSet)
  BY HeadParts DEF InputOf, ConversationOf
<1> HIDE DEF o, II, SI
<1>5. Marked(At(o, II), start) /\ Marked(At(o, DOMAIN o \ II), start)
  <2>1. \A u \in Callers(start) : \A i \in DOMAIN o : o[i].id \in {u, u + 1} => i \notin II
    BY <1>0, <1>2, <1>3
  <2> QED BY <1>2, <1>3, <2>1, MarkedSplit
<1>6. Marked(Opening(s), start)
  BY <1>2, <1>4, <1>5, MarkedJoin DEF Opening
<1> QED BY <1>2, <1>4, <1>5, <1>6

(* A call of the start and its result are trimmed together.                *)
LEMMA TrimMarked ==
  ASSUME NEW start, IsStart(start), NEW s \in Seq(MessageSet), HasInput(s), Marked(s, start),
         NEW tenths \in 0..10
  PROVE  Marked(Trim(s, tenths), start)
<1> DEFINE c == ConversationOf(s)
           l == Left(s, tenths)
           n == Len(c)
<1>1. c \in Seq(MessageSet) /\ Marked(c, start)
  BY HeadParts, OpeningMarked
<1>2. PICK a \in Nat :
        /\ a <= n
        /\ l \in Seq(MessageSet)
        /\ DOMAIN l = 1..n - a
        /\ \A k \in 1..n - a : a + k \in DOMAIN c /\ l[k] = c[a + k]
  BY LeftOver
<1>3. Original(c, start) /\ \A u \in Callers(start) : Paired(c, u)
  BY <1>1 DEF Marked
<1> HIDE DEF c, l
<1>4. n \in Nat /\ DOMAIN c = 1..n
  BY <1>1
<1> HIDE DEF n
<1>5. Original(l, start)
  BY <1>2, <1>3 DEF Original
<1>6. ASSUME NEW u \in Callers(start) PROVE PairedAfter(l, u)
  <2>0. Paired(c, u)
    BY <1>3
  <2>1. ASSUME NEW i \in DOMAIN l
        PROVE  /\ l[i].id = u => i + 1 \in DOMAIN l /\ l[i + 1].id = u + 1
               /\ l[i].id = u + 1 /\ i > 1 => l[i - 1].id = u
    <3>1. i \in 1..n - a /\ a + i \in DOMAIN c /\ l[i] = c[a + i]
      BY <1>2
    <3>2. ASSUME l[i].id = u PROVE i + 1 \in DOMAIN l /\ l[i + 1].id = u + 1
      <4>1. (a + i) + 1 \in DOMAIN c /\ c[(a + i) + 1].id = u + 1
        BY <2>0, <3>1, <3>2 DEF Paired
      <4>2. i + 1 \in 1..n - a /\ (a + i) + 1 = a + (i + 1)
        BY <1>2, <1>4, <3>1, <4>1
      <4> QED BY <1>2, <4>1, <4>2
    <3>3. ASSUME l[i].id = u + 1, i > 1 PROVE l[i - 1].id = u
      <4>1. c[(a + i) - 1].id = u
        BY <2>0, <3>1, <3>3 DEF Paired
      <4>2. i - 1 \in 1..n - a /\ (a + i) - 1 = a + (i - 1)
        BY <1>2, <1>4, <3>1, <3>3
      <4> QED BY <1>2, <4>1, <4>2
    <3> QED BY <3>2, <3>3
  <2> QED BY <2>1 DEF PairedAfter
<1>7. Marked(Fitted(l), start)
  <2>1. l \in Seq(MessageSet)
    BY <1>2
  <2> QED BY <1>5, <1>6, <2>1, FittedMarked
<1>8. Opening(s) \in Seq(MessageSet) /\ Fitted(l) \in Seq(MessageSet)
  <2>1. Part(c, c, DOMAIN c)
    BY <1>1, EditedPart, LikeSelf
  <2>2. Opening(s) \in Seq(MessageSet)
    BY <1>1, <2>1, HeadJoined DEF c
  <2> QED BY <1>2, <2>2, FittedPart
<1>9. Marked(Opening(s) \o Fitted(l), start)
  BY <1>7, <1>8, OpeningMarked, MarkedJoin
<1> QED BY <1>9, TrimIs DEF l

-----------------------------------------------------------------------------
(* Trimming edits no ids. *)

(* At brings no ids in,                                                    *)
LEMMA IdsAt ==
  ASSUME NEW s \in Seq(MessageSet), NEW I
  PROVE  Ids(At(s, I)) \subseteq Ids(s)
<1>1. PICK h : Enum(h, At(s, I), s, I)
  BY AtEnum
<1>2. At(s, I) \in Seq(MessageSet)
  BY AtEnum
<1>3. DOMAIN At(s, I) = 1..Len(At(s, I))
  BY <1>2
<1> QED BY <1>1, <1>3 DEF Enum, Ids

(* joining only those of both lists,                                       *)
LEMMA IdsJoin ==
  ASSUME NEW p \in Seq(MessageSet), NEW q \in Seq(MessageSet)
  PROVE  Ids(p \o q) = Ids(p) \cup Ids(q)
<1> DEFINE r == p \o q
           n == Len(p)
<1>1. /\ \A i \in DOMAIN p : i \in DOMAIN r /\ r[i] = p[i]
      /\ \A i \in DOMAIN q : n + i \in DOMAIN r /\ r[n + i] = q[i]
      /\ \A i \in DOMAIN r : \/ i \in DOMAIN p /\ r[i] = p[i]
                             \/ i - n \in DOMAIN q /\ r[i] = q[i - n]
  BY Joined
<1> HIDE DEF r, n
<1>2. Ids(r) \subseteq Ids(p) \cup Ids(q)
  BY <1>1 DEF Ids
<1>3. Ids(p) \subseteq Ids(r)
  BY <1>1 DEF Ids
<1>4. Ids(q) \subseteq Ids(r)
  BY <1>1 DEF Ids
<1> QED BY <1>2, <1>3, <1>4 DEF r

(* fitting none,                                                           *)
LEMMA IdsFitted ==
  ASSUME NEW p \in Seq(MessageSet)
  PROVE  Ids(Fitted(p)) \subseteq Ids(p)
<1> DEFINE w == WithoutOrphans(p)
           a == OnlyAnswered(w)
           r == NotEndingInAssistant(a)
<1>1. w \in Seq(MessageSet) /\ Ids(w) \subseteq Ids(p)
  BY AtPart, IdsAt DEF WithoutOrphans
<1> HIDE DEF w
<1>2. a \in Seq(MessageSet) /\ Len(a) = Len(w) /\ \A i \in DOMAIN w : a[i].id = w[i].id
  BY <1>1, OnlyAnsweredMessages
<1>3. Ids(a) \subseteq Ids(w)
  <2>1. DOMAIN a = DOMAIN w
    BY <1>1, <1>2
  <2> QED BY <1>2, <2>1 DEF Ids
<1> HIDE DEF a
<1>4. Ids(r) \subseteq Ids(a)
  <2>1. CASE r = a
    BY <2>1
  <2>2. CASE r # a
    <3>1. r \in Seq(MessageSet) /\ Len(r) = Len(a) - 1 /\ \A i \in 1..Len(a) - 1 : r[i] = a[i]
      BY <1>2, <2>2, LastDropped
    <3>2. DOMAIN r = 1..Len(a) - 1 /\ DOMAIN a = 1..Len(a) /\ Len(a) \in Nat
      BY <1>2, <3>1
    <3>3. \A i \in DOMAIN r : i \in DOMAIN a /\ r[i] = a[i]
      BY <3>1, <3>2
    <3> QED BY <3>3 DEF Ids
  <2> QED BY <2>1, <2>2
<1> QED BY <1>1, <1>3, <1>4 DEF Fitted, r, a, w

(* and hence trimming none.                                                *)
LEMMA IdsTrim ==
  ASSUME NEW s \in Seq(MessageSet), NEW tenths \in 0..10
  PROVE  Ids(Trim(s, tenths)) \subseteq Ids(s)
<1> DEFINE c == ConversationOf(s)
           l == Left(s, tenths)
           o == Others(s)
           i == InputOf(s)
           y == SystemOf(s)
<1>1. y \in Seq(MessageSet) /\ i \in Seq(MessageSet) /\ o \in Seq(MessageSet) /\ c \in Seq(MessageSet)
  BY HeadParts
<1>2. Ids(y) \subseteq Ids(s) /\ Ids(o) \subseteq Ids(s)
  BY IdsAt DEF SystemOf, Others
<1>3. Ids(i) \subseteq Ids(o) /\ Ids(c) \subseteq Ids(o)
  <2>1. i = At(o, InputIndices(o)) /\ c = At(o, DOMAIN o \ InputIndices(o))
    BY DEF InputOf, ConversationOf
  <2> HIDE DEF o, i, c
  <2> QED BY <1>1, <2>1, IdsAt
<1>4. l \in Seq(MessageSet) /\ Ids(l) \subseteq Ids(c)
  <2>1. PICK a \in Nat : /\ l \in Seq(MessageSet)
                         /\ DOMAIN l = 1..Len(c) - a
                         /\ \A k \in 1..Len(c) - a : a + k \in DOMAIN c /\ l[k] = c[a + k]
    BY LeftOver
  <2> HIDE DEF l, c
  <2> QED BY <2>1 DEF Ids
<1>5. Trim(s, tenths) = (y \o i) \o Fitted(l)
  BY TrimIs DEF Opening
<1> HIDE DEF y, i, o, c, l
<1>6. Fitted(l) \in Seq(MessageSet) /\ Ids(Fitted(l)) \subseteq Ids(l) /\ y \o i \in Seq(MessageSet)
  BY <1>1, <1>4, FittedPart, IdsFitted
<1>7. Ids((y \o i) \o Fitted(l)) = (Ids(y) \cup Ids(i)) \cup Ids(Fitted(l))
  <2>1. Ids(y \o i) = Ids(y) \cup Ids(i)
    BY <1>1, IdsJoin
  <2> DEFINE g == y \o i
  <2>2. g \in Seq(MessageSet)
    BY <1>6
  <2> HIDE DEF g
  <2>3. Ids(g \o Fitted(l)) = Ids(g) \cup Ids(Fitted(l))
    BY <1>6, <2>2, IdsJoin
  <2> QED BY <2>1, <2>3 DEF g
<1> QED BY <1>2, <1>3, <1>4, <1>5, <1>6, <1>7

-----------------------------------------------------------------------------
(* Messages that are edited: clear_memory_content() and CompactionEdit     *)

(* A message that is edited keeps all but its id.                          *)
LEMMA EditedMessage ==
  ASSUME NEW m \in MessageSet
  PROVE  /\ Edited(m) \in MessageSet /\ Like(Edited(m), m)
         /\ Edited(m).role = m.role /\ Edited(m).calls = m.calls /\ Edited(m).call = m.call
<1> DEFINE e == Edited(m)
           Fields == [id : Int, role : {"system", "user", "assistant", "tool"},
                      origin : {"input", "run", "summary", "warning"}, calls : Seq(CallSet),
                      call : CallSet \cup {NoCall}]
<1>1. m \in Fields /\ m.id \in Int
  BY DEF MessageSet
<1>2. /\ e \in Fields /\ e.id \in {m.id, -m.id} /\ e.role = m.role /\ e.origin = m.origin
      /\ e.calls = m.calls /\ e.call = m.call
  BY <1>1 DEF Edited
<1> HIDE DEF e
<1>3. e \in MessageSet
  BY <1>2 DEF MessageSet
<1>4. Like(e, m)
  BY <1>2 DEF Like
<1> QED BY <1>2, <1>3, <1>4 DEF e

(* An edit of an edit is an edit.                                          *)
LEMMA LikeThen ==
  ASSUME NEW a, NEW b, NEW c \in MessageSet, Like(a, b), Like(b, c)
  PROVE  Like(a, c)
<1>1. c.id \in Int
  BY MessageFields
<1>2. a.id \in {b.id, -b.id} /\ b.id \in {c.id, -c.id}
  BY DEF Like
<1>3. a.id \in {c.id, -c.id}
  BY <1>1, <1>2, SignsThen
<1> QED BY <1>3 DEF Like

(* EditAt() edits some messages and leaves the rest as it is.              *)
LEMMA EditAtEach ==
  ASSUME NEW s \in Seq(MessageSet), NEW I
  PROVE  /\ EditAt(s, I) \in Seq(MessageSet) /\ Len(EditAt(s, I)) = Len(s)
         /\ DOMAIN EditAt(s, I) = DOMAIN s
         /\ \A i \in DOMAIN s :
              /\ Like(EditAt(s, I)[i], s[i])
              /\ EditAt(s, I)[i].calls = s[i].calls
              /\ i \notin I => EditAt(s, I)[i] = s[i]
         /\ Part(EditAt(s, I), s, DOMAIN s)
<1> DEFINE r == [i \in DOMAIN s |-> IF i \in I THEN Edited(s[i]) ELSE s[i]]
<1>1. EditAt(s, I) = <<>> \o r
  BY DEF EditAt
<1>2. \A i \in DOMAIN s : s[i] \in MessageSet
  OBVIOUS
<1>3. DOMAIN s = 1..Len(s) /\ Len(s) \in Nat
  OBVIOUS
<1>4. r \in Seq(MessageSet) /\ Len(r) = Len(s) /\ DOMAIN r = DOMAIN s
  BY <1>2, <1>3, EditedMessage
<1>5. \A i \in DOMAIN s :
        Like(r[i], s[i]) /\ r[i].calls = s[i].calls /\ (i \notin I => r[i] = s[i])
  BY <1>2, EditedMessage, LikeSelf
<1> HIDE DEF r
<1>6. Part(r, s, DOMAIN s)
  BY <1>4, <1>5, EditedPart
<1>7. <<>> \o r = r
  BY <1>4
<1> QED BY <1>1, <1>4, <1>5, <1>6, <1>7

(* What is left of a list w, and still messages of it *)
PartOf(c, w) == c \in Seq(MessageSet) /\ Part(c, w, DOMAIN w)

(* It fits if it is good, too, and has the start and the input. *)
Fits(c, w, start, n) ==
  /\ PartOf(c, w)
  /\ Good(c, {}, n) /\ Marked(c, start) /\ HasInput(c)

(* What is left of that                                                    *)
LEMMA PartOfPart ==
  ASSUME NEW w \in Seq(MessageSet), NEW s, PartOf(s, w), NEW c \in Seq(MessageSet),
         Part(c, s, DOMAIN s)
  PROVE  PartOf(c, w)
BY PartThen DEF PartOf

(* Only messages of assistants and tools are edited. *)
Later(s, I) == \A i \in DOMAIN s \cap I : s[i].role \in {"assistant", "tool"}

(* The messages that are edited stay in their places, so the list stays good. *)
LEMMA EditAtFits ==
  ASSUME NEW start, IsStart(start), Len(start) = 2, NEW n \in Nat, NEW w \in Seq(MessageSet),
         NEW s, Fits(s, w, start, n), NEW I, Later(s, I)
  PROVE  Fits(EditAt(s, I), w, start, n)
<1> DEFINE r == EditAt(s, I)
<1>0. s \in Seq(MessageSet) /\ Closed(s, {}) /\ Good(s, {}, n) /\ Marked(s, start) /\ PartOf(s, w)
  BY DEF Fits, Good
<1>1. /\ r \in Seq(MessageSet) /\ DOMAIN r = DOMAIN s /\ Part(r, s, DOMAIN s)
      /\ \A i \in DOMAIN s : /\ Like(r[i], s[i]) /\ r[i].calls = s[i].calls
                             /\ s[i].role \notin {"assistant", "tool"} => r[i] = s[i]
  <2>1. \A i \in DOMAIN s : s[i].role \notin {"assistant", "tool"} => i \notin I
    BY DEF Later
  <2> QED BY <1>0, <2>1, EditAtEach
<1> HIDE DEF r
<1>2. \A i \in DOMAIN s : r[i].role = s[i].role /\ r[i].call = s[i].call
  BY <1>1 DEF Like
<1>3. Closed(r, {})
  <2>1. ASSUME NEW k \in DOMAIN r, r[k].role = "tool"
        PROVE  \E j \in 1..k - 1 : r[k].call \in ToSet(r[j].calls)
    <3>1. PICK j \in 1..k - 1 : s[k].call \in ToSet(s[j].calls)
      BY <1>0, <1>1, <1>2, <2>1 DEF Closed
    <3>2. j \in DOMAIN s
      BY <1>0, <1>1
    <3> QED BY <1>1, <1>2, <3>1, <3>2
  <2>2. ASSUME NEW i \in DOMAIN r, NEW c \in ToSet(r[i].calls) PROVE \E j \in DOMAIN r : r[j].call = c
    <3>1. i \in DOMAIN s /\ c \in ToSet(s[i].calls)
      BY <1>1
    <3>2. PICK j \in DOMAIN s : s[j].call = c
      BY <1>0, <3>1 DEF Closed
    <3> QED BY <1>1, <1>2, <3>2
  <2> QED BY <2>1, <2>2 DEF Closed
<1>4. Good(r, {}, n)
  BY <1>0, <1>1, <1>3, PartGood
<1>5. /\ DOMAIN start = 1..2 /\ start[1].role = "system" /\ start[2].role = "user"
  BY StartMessages
<1>6. ASSUME NEW i \in DOMAIN r, r[i].id \in -2..2
      PROVE  r[i].id \in DOMAIN start /\ r[i] = start[r[i].id]
  <2>1. s[i] \in MessageSet
    BY <1>0, <1>1
  <2>2. s[i].id \in Int /\ r[i].id \in {s[i].id, -s[i].id}
    BY <1>1, <2>1, MessageFields DEF Like
  <2>3. s[i].id \in -2..2
    BY <1>6, <2>2
  <2>4. s[i].id \in DOMAIN start /\ s[i] = start[s[i].id]
    BY <1>0, <1>1, <2>3 DEF Marked, Original
  <2>5. s[i].role \notin {"assistant", "tool"}
    BY <1>5, <2>4
  <2> QED BY <1>1, <2>4, <2>5
<1>7. Marked(r, start)
  <2>1. Callers(start) = {}
    BY DEF Callers
  <2> QED BY <1>6, <2>1 DEF Marked, Original
<1>8. HasInput(r)
  <2>1. PICK i \in DOMAIN s : s[i].origin = "input"
    BY DEF Fits, HasInput
  <2>2. r[i].origin = "input"
    BY <1>1, <2>1 DEF Like
  <2> QED BY <1>1, <2>1, <2>2 DEF HasInput
<1>9. PartOf(r, w)
  BY <1>0, <1>1, PartOfPart
<1> QED BY <1>4, <1>7, <1>8, <1>9 DEF Fits, r

-----------------------------------------------------------------------------
(* RemoveCalls(): what it makes of each message *)
LEMMA RemoveCallsEach ==
  ASSUME NEW t \in Seq(MessageSet), NEW X
  PROVE  /\ RemoveCalls(t, X) \in Seq(MessageSet) /\ Len(RemoveCalls(t, X)) = Len(t)
         /\ DOMAIN RemoveCalls(t, X) = DOMAIN t
         /\ \A i \in DOMAIN t :
              /\ Like(RemoveCalls(t, X)[i], t[i])
              /\ ToSet(RemoveCalls(t, X)[i].calls) = ToSet(t[i].calls) \ X
              /\ t[i].calls = <<>> => RemoveCalls(t, X)[i] = t[i]
         /\ Part(RemoveCalls(t, X), t, DOMAIN t)
<1> DEFINE J(m) == {n \in DOMAIN m.calls : m.calls[n] \notin X}
           new(m) == IF ToSet(m.calls) \cap X = {} THEN m
                     ELSE WithCalls(Edited(m), J(Edited(m)))
           r == [i \in DOMAIN t |-> new(t[i])]
<1>1. RemoveCalls(t, X) = r
  BY DEF RemoveCalls, WithCalls
<1>2. ASSUME NEW m \in MessageSet
      PROVE  /\ new(m) \in MessageSet /\ Like(new(m), m)
             /\ ToSet(new(m).calls) = ToSet(m.calls) \ X
             /\ m.calls = <<>> => new(m) = m
  <2>1. CASE ToSet(m.calls) \cap X = {}
    BY <2>1, LikeSelf
  <2>2. CASE ToSet(m.calls) \cap X # {}
    <3> DEFINE e == Edited(m)
               w == WithCalls(e, J(e))
    <3>1. e \in MessageSet /\ Like(e, m) /\ e.calls = m.calls
      BY EditedMessage
    <3>2. new(m) = w
      BY <2>2
    <3> HIDE DEF e
    <3>3. w \in MessageSet /\ Like(w, e) /\ ToSet(w.calls) = {e.calls[n] : n \in DOMAIN e.calls \cap J(e)}
      <4> HIDE DEF J
      <4> QED BY <3>1, CallsRemoved
    <3>4. Like(w, m)
      BY <3>1, <3>3, LikeThen
    <3>5. {e.calls[n] : n \in DOMAIN e.calls \cap J(e)} = ToSet(m.calls) \ X
      BY <3>1 DEF ToSet
    <3>6. m.calls # <<>>
      BY <2>2 DEF ToSet
    <3> HIDE DEF w, new
    <3> QED BY <3>2, <3>3, <3>4, <3>5, <3>6
  <2> QED BY <2>1, <2>2
<1>3. \A i \in DOMAIN t : t[i] \in MessageSet
  OBVIOUS
<1>4. DOMAIN t = 1..Len(t) /\ Len(t) \in Nat
  OBVIOUS
<1> HIDE DEF new
<1>5. r \in Seq(MessageSet) /\ Len(r) = Len(t) /\ DOMAIN r = DOMAIN t
  BY <1>2, <1>3, <1>4
<1>6. \A i \in DOMAIN t :
        /\ Like(r[i], t[i]) /\ ToSet(r[i].calls) = ToSet(t[i].calls) \ X
        /\ t[i].calls = <<>> => r[i] = t[i]
  BY <1>2, <1>3
<1> HIDE DEF r
<1>7. Part(r, t, DOMAIN t)
  BY <1>5, <1>6, EditedPart
<1> QED BY <1>1, <1>5, <1>6, <1>7

(* ClearCalls() leaves a part of the list,                                 *)
LEMMA ClearCallsPart ==
  ASSUME NEW s \in Seq(MessageSet), NEW keep
  PROVE  ClearCalls(s, keep) \in Seq(MessageSet) /\ Part(ClearCalls(s, keep), s, DOMAIN s)
<1> DEFINE T == ToClear(s, keep)
           X == {s[i].call : i \in T}
           t == At(s, DOMAIN s \ T)
<1>1. ClearCalls(s, keep) = RemoveCalls(t, X)
  BY DEF ClearCalls
<1>2. t \in Seq(MessageSet) /\ Part(t, s, DOMAIN s)
  BY AtPart
<1> HIDE DEF t, X
<1>3. RemoveCalls(t, X) \in Seq(MessageSet) /\ Part(RemoveCalls(t, X), t, DOMAIN t)
  BY <1>2, RemoveCallsEach
<1>4. Part(RemoveCalls(t, X), s, DOMAIN s)
  BY <1>2, <1>3, PartThen
<1> QED BY <1>1, <1>3, <1>4

(* and a good one: a result goes together with its call.                   *)
LEMMA ClearCallsFits ==
  ASSUME NEW start, IsStart(start), Len(start) = 2, NEW n \in Nat, NEW w \in Seq(MessageSet),
         NEW s, Fits(s, w, start, n), NEW keep
  PROVE  Fits(ClearCalls(s, keep), w, start, n)
<1> DEFINE T == ToClear(s, keep)
           X == {s[i].call : i \in T}
           I == DOMAIN s \ T
           t == At(s, I)
           r == ClearCalls(s, keep)
<1>0. s \in Seq(MessageSet) /\ Closed(s, {}) /\ Unique(s) /\ Good(s, {}, n) /\ Marked(s, start)
  BY DEF Fits, Good
<1>1. r = RemoveCalls(t, X)
  BY DEF ClearCalls
<1>2. T \subseteq DOMAIN s /\ \A i \in T : s[i].role = "tool"
  BY DEF ToClear, Results
<1>3. t \in Seq(MessageSet) /\ \E h : Enum(h, t, s, I)
  BY <1>0, AtEnum
<1>4. PICK h : Enum(h, t, s, I)
  BY <1>3
<1>5. r \in Seq(MessageSet) /\ Part(r, s, DOMAIN s)
  BY <1>0, ClearCallsPart
<1> HIDE DEF T, t, r
<1>6. DOMAIN t = 1..Len(t) /\ Len(t) \in Nat /\ DOMAIN s = 1..Len(s)
  BY <1>0, <1>3
<1>7. /\ \A k \in DOMAIN t : h[k] \in DOMAIN s /\ h[k] \notin T /\ t[k] = s[h[k]] /\ t[k] \in MessageSet
      /\ \A k, l \in DOMAIN t : k < l => h[k] < h[l]
      /\ \A i \in DOMAIN s : i \notin T => \E k \in DOMAIN t : h[k] = i
  <2> HIDE DEF I
  <2>1. /\ \A k \in DOMAIN t : h[k] \in DOMAIN s /\ h[k] \in I /\ t[k] = s[h[k]]
        /\ \A k, l \in DOMAIN t : k < l => h[k] < h[l]
        /\ \A i \in DOMAIN s : i \in I => \E k \in DOMAIN t : h[k] = i
    BY <1>4, <1>6 DEF Enum
  <2>2. \A i : i \in I <=> i \in DOMAIN s /\ i \notin T
    BY DEF I
  <2>3. \A k \in DOMAIN t : t[k] \in MessageSet
    BY <1>3
  <2> QED BY <2>1, <2>2, <2>3
<1>8. /\ DOMAIN r = DOMAIN t
      /\ \A i \in DOMAIN t : /\ Like(r[i], t[i]) /\ ToSet(r[i].calls) = ToSet(t[i].calls) \ X
                             /\ t[i].calls = <<>> => r[i] = t[i]
  <2> HIDE DEF X
  <2>1. t \in Seq(MessageSet)
    BY <1>3
  <2> DEFINE q == RemoveCalls(t, X)
  <2>2. DOMAIN q = DOMAIN t
    BY <2>1, RemoveCallsEach
  <2>3. \A i \in DOMAIN t : Like(q[i], t[i])
    BY <2>1, RemoveCallsEach
  <2>4. \A i \in DOMAIN t : ToSet(q[i].calls) = ToSet(t[i].calls) \ X
    BY <2>1, RemoveCallsEach
  <2>5. \A i \in DOMAIN t : t[i].calls = <<>> => q[i] = t[i]
    BY <2>1, RemoveCallsEach
  <2>6. r = q
    BY <1>1
  <2> HIDE DEF q
  <2> QED BY <2>2, <2>3, <2>4, <2>5, <2>6
<1>9. \A k \in DOMAIN t : r[k].role = s[h[k]].role /\ r[k].call = s[h[k]].call
  BY <1>7, <1>8 DEF Like
<1>10. ASSUME NEW k \in DOMAIN r, r[k].role = "tool"
       PROVE  \E j \in 1..k - 1 : r[k].call \in ToSet(r[j].calls)
  <2>1. h[k] \in DOMAIN s /\ h[k] \notin T /\ s[h[k]].role = "tool" /\ r[k].call = s[h[k]].call
    BY <1>7, <1>8, <1>9, <1>10
  <2>2. PICK j0 \in 1..h[k] - 1 : s[h[k]].call \in ToSet(s[j0].calls)
    BY <1>0, <2>1 DEF Closed
  <2>3. j0 \in DOMAIN s /\ j0 < h[k] /\ h[k] \in Int
    BY <1>6, <2>1
  <2>4. j0 \notin T
    <3>1. s[j0] \in MessageSet
      BY <1>0, <2>3
    <3>2. s[j0].calls # <<>>
      BY <2>2 DEF ToSet
    <3>3. s[j0].role = "assistant"
      BY <3>1, <3>2, MessageFields
    <3> QED BY <1>2, <3>3
  <2>5. PICK j \in DOMAIN t : h[j] = j0
    BY <1>7, <2>3, <2>4
  <2>6. j \in 1..k - 1
    <3>1. j # k /\ ~(k < j)
      BY <1>6, <1>7, <1>8, <2>3, <2>5
    <3> QED BY <1>6, <1>8, <3>1
  <2>7. s[h[k]].call \notin X
    <3>1. s[h[k]] \in MessageSet
      BY <1>0, <2>1
    <3>2. s[h[k]].call # NoCall
      BY <2>1, <3>1, MessageFields
    <3>3. \A i \in T : s[i].call = s[h[k]].call => i = h[k]
      BY <1>0, <1>2, <2>1, <3>2 DEF Unique
    <3> QED BY <2>1, <3>3
  <2>8. s[h[k]].call \in ToSet(r[j].calls)
    BY <1>7, <1>8, <2>2, <2>5, <2>7
  <2> QED BY <2>1, <2>6, <2>8
<1>11. ASSUME NEW i \in DOMAIN r, NEW c \in ToSet(r[i].calls) PROVE \E j \in DOMAIN r : r[j].call = c
  <2>1. c \in ToSet(s[h[i]].calls) /\ c \notin X /\ h[i] \in DOMAIN s
    BY <1>7, <1>8
  <2>2. PICK j0 \in DOMAIN s : s[j0].call = c
    BY <1>0, <2>1 DEF Closed
  <2>3. j0 \notin T
    BY <2>1, <2>2
  <2>4. PICK j \in DOMAIN t : h[j] = j0
    BY <1>7, <2>3
  <2> QED BY <1>8, <1>9, <2>2, <2>4
<1>12. Closed(r, {})
  BY <1>10, <1>11 DEF Closed
<1>13. Good(r, {}, n)
  BY <1>0, <1>5, <1>12, PartGood
<1>14. /\ DOMAIN start = 1..2 /\ start[1].calls = <<>> /\ start[2].calls = <<>>
  BY StartMessages
<1>15. ASSUME NEW i \in DOMAIN r, r[i].id \in -2..2
       PROVE  r[i].id \in DOMAIN start /\ r[i] = start[r[i].id]
  <2>1. t[i] \in MessageSet /\ t[i] = s[h[i]] /\ h[i] \in DOMAIN s
    BY <1>7, <1>8
  <2>2. t[i].id \in Int /\ r[i].id \in {t[i].id, -t[i].id}
    BY <1>8, <2>1, MessageFields DEF Like
  <2>3. t[i].id \in -2..2
    BY <1>15, <2>2
  <2>4. t[i].id \in DOMAIN start /\ t[i] = start[t[i].id]
    BY <1>0, <2>1, <2>3 DEF Marked, Original
  <2>5. t[i].calls = <<>>
    BY <1>14, <2>4
  <2> QED BY <1>8, <2>4, <2>5
<1>16. Marked(r, start)
  <2>1. Callers(start) = {}
    BY DEF Callers
  <2> QED BY <1>15, <2>1 DEF Marked, Original
<1>17. HasInput(r)
  <2>1. PICK i \in DOMAIN s : s[i].origin = "input"
    BY DEF Fits, HasInput
  <2>2. s[i].role = "user" /\ s[i].calls = <<>>
    <3>1. s[i] \in MessageSet
      BY <1>0, <2>1
    <3> QED BY <2>1, <3>1, MessageFields
  <2>3. i \notin T
    BY <1>2, <2>2
  <2>4. PICK k \in DOMAIN t : h[k] = i
    BY <1>7, <2>1, <2>3
  <2>5. r[k] = t[k] /\ t[k] = s[i]
    BY <1>7, <1>8, <2>2, <2>4
  <2> QED BY <1>8, <2>1, <2>4, <2>5 DEF HasInput
<1>18. PartOf(r, w)
  BY <1>5, PartOfPart DEF Fits
<1> QED BY <1>13, <1>16, <1>17, <1>18 DEF Fits, r

-----------------------------------------------------------------------------
(* The messages at the start, put in front again                           *)

(* The messages at the start that a compaction has dropped, and what it left *)
Restored(start, c) == At(start, {i \in DOMAIN start : start[i].id \notin Ids(c)}) \o c

(* All of the start is there again, whatever was left.                     *)
LEMMA RestoredPresent ==
  ASSUME NEW start, IsStart(start), NEW c \in Seq(MessageSet)
  PROVE  Present(Restored(start, c), start)
<1> DEFINE M == {i \in DOMAIN start : start[i].id \notin Ids(c)}
           q == At(start, M)
           r == q \o c
<1>1. start \in Seq(MessageSet) /\ \A p \in DOMAIN start : start[p].id = p
  BY StartMessages
<1>2. q \in Seq(MessageSet) /\ \E h : Enum(h, q, start, M)
  BY <1>1, AtEnum
<1>3. PICK h : Enum(h, q, start, M)
  BY <1>2
<1> HIDE DEF q
<1>4. DOMAIN q = 1..Len(q)
  BY <1>2
<1>5. ASSUME NEW p \in DOMAIN start PROVE \E i \in DOMAIN r : r[i].id = p
  <2>1. CASE p \in Ids(c)
    <3>1. PICK i \in DOMAIN c : c[i].id = p
      BY <2>1 DEF Ids
    <3>2. Len(q) + i \in DOMAIN r /\ r[Len(q) + i] = c[i]
      BY <1>2, <3>1, Joined
    <3> QED BY <3>1, <3>2
  <2>2. CASE p \notin Ids(c)
    <3>1. p \in M
      BY <1>1, <2>2
    <3> HIDE DEF M
    <3>2. PICK k \in DOMAIN q : h[k] = p
      BY <1>3, <1>4, <3>1 DEF Enum
    <3>3. k \in DOMAIN r /\ r[k] = q[k] /\ q[k] = start[p]
      BY <1>2, <1>3, <1>4, <3>2, Joined DEF Enum
    <3> QED BY <1>1, <3>3
  <2> QED BY <2>1, <2>2
<1> HIDE DEF r
<1> QED BY <1>5 DEF Present, Restored, q, r

(* What was dropped of the start is put in front, the rest being good.     *)
LEMMA RestoredGood ==
  ASSUME NEW n \in Nat, NEW start, IsStart(start), NEW w, Good(w, {}, n),
         Marked(w, start), Present(w, start),
         NEW c \in Seq(MessageSet), Part(c, w, DOMAIN w), Closed(c, {}), Marked(c, start)
  PROVE  /\ Good(Restored(start, c), {}, n)
         /\ Marked(Restored(start, c), start) /\ Present(Restored(start, c), start)
<1> DEFINE L == Len(start)
           M == {i \in DOMAIN start : start[i].id \notin Ids(c)}
           q == At(start, M)
           r == q \o c
<1>0. w \in Seq(MessageSet)
  BY DEF Good
<1>1. /\ start \in Seq(MessageSet) /\ DOMAIN start = 1..L /\ L \in {2, 6}
      /\ \A p \in DOMAIN start : start[p].id = p
  BY StartMessages
<1>2. q \in Seq(MessageSet) /\ \E h : Enum(h, q, start, M)
  BY <1>1, AtEnum
<1>3. PICK h : Enum(h, q, start, M)
  BY <1>2
<1>4. Marked(q, start)
  <2>1. Original(start, start)
    BY <1>1 DEF Original
  <2>2. ASSUME NEW u \in Callers(start) PROVE Paired(start, u) /\ Together(start, M, u)
    <3>0. u \in DOMAIN start /\ u + 1 \in DOMAIN start /\ u \in Nat
      BY CallersAre DEF Caller
    <3>1. u \in Ids(c) <=> u + 1 \in Ids(c)
      <4>1. \A j \in DOMAIN c :
              /\ c[j].id = u => j + 1 \in DOMAIN c /\ c[j + 1].id = u + 1
              /\ c[j].id = u + 1 => j - 1 \in DOMAIN c /\ c[j - 1].id = u
        BY <2>2 DEF Marked, Paired
      <4>2. \A x : x \in Ids(c) <=> \E j \in DOMAIN c : c[j].id = x
        BY DEF Ids
      <4>3. ASSUME u \in Ids(c) PROVE u + 1 \in Ids(c)
        <5>1. PICK j \in DOMAIN c : c[j].id = u
          BY <4>2, <4>3
        <5> QED BY <4>1, <4>2, <5>1
      <4>4. ASSUME u + 1 \in Ids(c) PROVE u \in Ids(c)
        <5>1. PICK j \in DOMAIN c : c[j].id = u + 1
          BY <4>2, <4>4
        <5> QED BY <4>1, <4>2, <5>1
      <4> QED BY <4>3, <4>4
    <3>2. \A p \in DOMAIN start : p \in M <=> p \notin Ids(c)
      BY <1>1
    <3>3. Paired(start, u)
      BY <1>1, <3>0 DEF Paired
    <3> HIDE DEF M
    <3>4. u \in M <=> u + 1 \in M
      BY <3>0, <3>1, <3>2
    <3>5. ASSUME NEW i \in DOMAIN start \cap M
          PROVE  /\ start[i].id = u => i + 1 \in M
                 /\ start[i].id = u + 1 => i - 1 \in M
      <4>1. start[i].id = i /\ i \in M
        BY <1>1
      <4> QED BY <3>0, <3>4, <4>1
    <3> QED BY <3>3, <3>5 DEF Together
  <2> HIDE DEF M
  <2> QED BY <1>1, <2>1, <2>2, MarkedAt
<1> HIDE DEF q
<1>5. /\ DOMAIN q = 1..Len(q) /\ Len(q) \in Nat
      /\ \A k \in DOMAIN q : h[k] \in DOMAIN start /\ h[k] \notin Ids(c) /\ q[k] = start[h[k]]
      /\ \A k, l \in DOMAIN q : k < l => h[k] < h[l]
      /\ \A i \in M : \E k \in DOMAIN q : h[k] = i
  <2>1. DOMAIN q = 1..Len(q) /\ Len(q) \in Nat
    BY <1>2
  <2>2. /\ \A k \in DOMAIN q : h[k] \in M /\ q[k] = start[h[k]]
        /\ \A k, l \in DOMAIN q : k < l => h[k] < h[l]
        /\ \A i \in DOMAIN start : i \in M => \E k \in DOMAIN q : h[k] = i
    <3> HIDE DEF M
    <3> QED BY <1>3, <2>1 DEF Enum
  <2> QED BY <1>1, <2>1, <2>2
<1>6. \A k \in DOMAIN q : q[k].id = h[k]
  BY <1>1, <1>5
<1>7. Closed(q, {})
  BY <1>2, <1>4, <1>5, <1>6, MarkedClosed
<1> DEFINE E == {i \in DOMAIN w : w[i].id \in DOMAIN start /\ w[i].id \notin Ids(c)}
<1>8. Part(c, w, DOMAIN w \ E)
  <2>1. PICK g : PartAt(g, c, w, DOMAIN w)
    BY DEF Part
  <2>2. DOMAIN c = 1..Len(c)
    OBVIOUS
  <2>3. ASSUME NEW k \in DOMAIN c PROVE g[k] \notin E
    <3>1. SUFFICES ASSUME w[g[k]].id \in DOMAIN start, w[g[k]].id \notin Ids(c) PROVE FALSE
      OBVIOUS
    <3>2. c[k].id \in {w[g[k]].id, -w[g[k]].id}
      BY <2>1, <2>2 DEF PartAt, Like
    <3>3. c[k].id \in -L..L
      BY <1>1, <3>1, <3>2
    <3>4. c[k].id \in DOMAIN start
      BY <3>3 DEF Marked, Original
    <3>5. c[k].id = w[g[k]].id
      BY <1>1, <3>1, <3>2, <3>4
    <3> QED BY <3>1, <3>5 DEF Ids
  <2>4. PartAt(g, c, w, DOMAIN w \ E)
    <3>1. \A k \in 1..Len(c) : g[k] \in DOMAIN w \ E
      BY <2>1, <2>2, <2>3 DEF PartAt
    <3> HIDE DEF E
    <3> QED BY <2>1, <3>1 DEF PartAt
  <2> QED BY <2>4 DEF Part
<1>9. Part(q, w, E)
  <2> DEFINE f == [k \in 1..Len(q) |-> CHOOSE i \in DOMAIN w : w[i].id = h[k]]
  <2>1. ASSUME NEW k \in DOMAIN q PROVE f[k] \in DOMAIN w /\ w[f[k]].id = h[k]
    <3>1. \E i \in DOMAIN w : w[i].id = h[k]
      BY <1>5 DEF Present
    <3> QED BY <1>5, <3>1
  <2> HIDE DEF f
  <2>2. ASSUME NEW k \in DOMAIN q PROVE f[k] \in E /\ w[f[k]] = q[k]
    <3>1. w[f[k]].id \in DOMAIN start /\ w[f[k]].id \notin Ids(c) /\ f[k] \in DOMAIN w
      BY <1>5, <2>1
    <3>2. w[f[k]].id \in -L..L
      BY <1>1, <3>1
    <3>3. w[f[k]] = start[h[k]]
      BY <2>1, <3>1, <3>2 DEF Marked, Original
    <3> QED BY <1>5, <3>1, <3>3
  <2>3. ASSUME NEW k \in DOMAIN q, NEW l \in DOMAIN q, f[k] = f[l] PROVE k = l
    <3>1. h[k] = h[l] /\ h[k] \in Int
      BY <1>1, <1>5, <2>1, <2>3
    <3>2. ~(k < l) /\ ~(l < k)
      BY <1>1, <1>5, <3>1
    <3> QED BY <1>5, <3>2
  <2>4. f \in [1..Len(q) -> E]
    <3>1. f = [k \in 1..Len(q) |-> f[k]]
      BY DEF f
    <3> HIDE DEF E
    <3> QED BY <1>5, <2>2, <3>1
  <2>5. PartAt(f, q, w, E)
    <3> HIDE DEF E
    <3> QED BY <1>5, <2>2, <2>3, <2>4, LikeSelf DEF PartAt
  <2> QED BY <2>5 DEF Part
<1>10. Part(r, w, DOMAIN w)
  <2>1. E \cap (DOMAIN w \ E) = {} /\ E \cup (DOMAIN w \ E) = DOMAIN w
    OBVIOUS
  <2> HIDE DEF E
  <2>2. Part(r, w, E \cup (DOMAIN w \ E))
    BY <1>0, <1>2, <1>8, <1>9, <2>1, PartJoin DEF q
  <2> QED BY <2>1, <2>2
<1>11. Closed(r, {}) /\ r \in Seq(MessageSet) /\ Marked(r, start)
  <2>1. q \in Seq(MessageSet)
    BY <1>2 DEF q
  <2> QED BY <1>4, <1>7, <2>1, ClosedJoin, MarkedJoin
<1>12. Good(r, {}, n)
  BY <1>10, <1>11, PartGood
<1>13. Present(r, start)
  <2>1. Restored(start, c) = r
    BY DEF Restored, q
  <2>2. Present(Restored(start, c), start)
    BY RestoredPresent
  <2> HIDE DEF r
  <2> QED BY <2>1, <2>2
<1> QED BY <1>11, <1>12, <1>13 DEF Restored, q

(* A summary at the end makes no difference to what is put in front.       *)
LEMMA RestoredAppend ==
  ASSUME NEW start, IsStart(start), NEW c \in Seq(MessageSet), NEW m \in MessageSet,
         m.id \notin DOMAIN start
  PROVE  Restored(start, Append(c, m)) = Append(Restored(start, c), m)
<1> DEFINE M == {i \in DOMAIN start : start[i].id \notin Ids(c)}
           N == {i \in DOMAIN start : start[i].id \notin Ids(Append(c, m))}
           q == At(start, M)
<1>1. start \in Seq(MessageSet) /\ \A p \in DOMAIN start : start[p].id = p
  BY StartMessages
<1>2. Ids(Append(c, m)) = Ids(c) \cup {m.id}
  <2> DEFINE r == Append(c, m)
  <2>1. /\ \A i \in DOMAIN c : i \in DOMAIN r /\ r[i] = c[i]
        /\ Len(c) + 1 \in DOMAIN r /\ r[Len(c) + 1] = m
        /\ \A i \in DOMAIN r : i \in DOMAIN c \/ i = Len(c) + 1
    BY Appended
  <2> HIDE DEF r
  <2>2. Ids(r) \subseteq Ids(c) \cup {m.id}
    BY <2>1 DEF Ids
  <2>3. Ids(c) \cup {m.id} \subseteq Ids(r)
    BY <2>1 DEF Ids
  <2> QED BY <2>2, <2>3 DEF r
<1>3. M = N
  BY <1>1, <1>2
<1>4. q \in Seq(MessageSet)
  BY <1>1, AtEnum
<1>5. Restored(start, Append(c, m)) = q \o Append(c, m) /\ Restored(start, c) = q \o c
  BY <1>3 DEF Restored
<1> HIDE DEF q
<1>6. q \o Append(c, m) = Append(q \o c, m)
  BY <1>4
<1> QED BY <1>5, <1>6

(* Where the start is present, so is the input.                            *)
LEMMA PresentInput ==
  ASSUME NEW start, IsStart(start), NEW w, Marked(w, start), Present(w, start)
  PROVE  HasInput(w)
<1>1. 2 \in DOMAIN start /\ 2 \in -Len(start)..Len(start) /\ start[2].origin = "input"
  BY StartMessages
<1>2. PICK i \in DOMAIN w : w[i].id = 2
  BY <1>1 DEF Present
<1>3. w[i] = start[2]
  BY <1>1, <1>2 DEF Marked, Original
<1> QED BY <1>1, <1>2, <1>3 DEF HasInput

(* A summary follows the system messages and the input.                    *)
LEMMA SummarizeIs ==
  ASSUME NEW s \in Seq(MessageSet), NEW id
  PROVE  Summarize(s, id) = Append(Opening(s), Summary(id))
<1> DEFINE y == SystemOf(s)
           i == InputOf(s)
           m == Summary(id)
<1>1. y \in Seq(MessageSet) /\ i \in Seq(MessageSet)
  BY HeadParts
<1>2. Summarize(s, id) = y \o i \o <<m>> /\ Opening(s) = y \o i
  BY DEF Summarize, Opening
<1> HIDE DEF y, i, m
<1>3. y \o i \in Seq(MessageSet)
  BY <1>1
<1> DEFINE g == y \o i
<1> HIDE DEF g
<1>4. g \in Seq(MessageSet) => g \o <<m>> = Append(g, m)
  OBVIOUS
<1> QED BY <1>2, <1>3, <1>4 DEF g, m

-----------------------------------------------------------------------------
(* _remove_submit_tool()                                                   *)

(* How r has the messages of s that are no submission, without such calls *)
Submitless(h, f, r, s) ==
  /\ Enum(h, f, s, {i \in DOMAIN s : s[i].call.function # Submit})
  /\ f \in Seq(MessageSet) /\ r \in Seq(MessageSet)
  /\ DOMAIN r = DOMAIN f /\ Part(r, s, DOMAIN s)
  /\ \A k \in DOMAIN f :
       /\ h[k] \in DOMAIN s /\ s[h[k]].call.function # Submit
       /\ r[k].id = s[h[k]].id /\ Like(r[k], s[h[k]])
       /\ ToSet(r[k].calls) = {c \in ToSet(s[h[k]].calls) : c.function # Submit}

(* What _remove_submit_tool() makes of each message                        *)
LEMMA RemoveSubmitEach ==
  ASSUME NEW s \in Seq(MessageSet)
  PROVE  \E h : Submitless(h, NoSubmission(s, Submit), RemoveSubmit(s, Submit), s)
<1> DEFINE I == {i \in DOMAIN s : s[i].call.function # Submit}
           f == NoSubmission(s, Submit)
           r == RemoveSubmit(s, Submit)
           J(m) == {n \in DOMAIN m.calls : m.calls[n].function # Submit}
<1>1. f = At(s, I)
  BY DEF NoSubmission
<1>2. f \in Seq(MessageSet) /\ \E h : Enum(h, f, s, I)
  BY <1>1, AtEnum
<1>3. PICK h : Enum(h, f, s, I)
  BY <1>2
<1>4. r = [i \in DOMAIN f |-> WithCalls(f[i], J(f[i]))]
  BY DEF RemoveSubmit, WithCalls
<1> HIDE DEF f, r
<1>5. DOMAIN f = 1..Len(f) /\ Len(f) \in Nat /\ \A k \in DOMAIN f : f[k] \in MessageSet
  BY <1>2
<1>6. \A k \in DOMAIN f : h[k] \in DOMAIN s /\ h[k] \in I /\ f[k] = s[h[k]]
  <2> HIDE DEF I
  <2> QED BY <1>3, <1>5 DEF Enum
<1>7. ASSUME NEW m \in MessageSet
      PROVE  /\ WithCalls(m, J(m)) \in MessageSet
             /\ WithCalls(m, J(m)).id = m.id /\ Like(WithCalls(m, J(m)), m)
             /\ ToSet(WithCalls(m, J(m)).calls) = {c \in ToSet(m.calls) : c.function # Submit}
  <2>1. {m.calls[n] : n \in DOMAIN m.calls \cap J(m)} = {c \in ToSet(m.calls) : c.function # Submit}
    BY DEF ToSet
  <2> HIDE DEF J
  <2> QED BY <2>1, CallsRemoved
<1> HIDE DEF J
<1>8. r \in Seq(MessageSet) /\ DOMAIN r = DOMAIN f /\ Len(r) = Len(f)
  BY <1>4, <1>5, <1>7
<1>9. \A k \in DOMAIN f :
        /\ r[k].id = f[k].id /\ Like(r[k], f[k])
        /\ ToSet(r[k].calls) = {c \in ToSet(f[k].calls) : c.function # Submit}
  BY <1>4, <1>5, <1>7
<1>10. Part(r, s, DOMAIN s)
  <2>1. Part(r, f, DOMAIN f)
    BY <1>2, <1>8, <1>9, EditedPart
  <2>2. Part(f, s, DOMAIN s)
    BY <1>1, AtPart
  <2> QED BY <1>2, <1>8, <2>1, <2>2, PartThen
<1>11. \A k \in DOMAIN f :
         /\ h[k] \in DOMAIN s /\ s[h[k]].call.function # Submit
         /\ r[k].id = s[h[k]].id /\ Like(r[k], s[h[k]])
         /\ ToSet(r[k].calls) = {c \in ToSet(s[h[k]].calls) : c.function # Submit}
  BY <1>6, <1>9
<1>12. Submitless(h, f, r, s)
  BY <1>2, <1>3, <1>8, <1>10, <1>11 DEF Submitless
<1> QED BY <1>12 DEF f, r

(* Only the results of submissions are taken away.                         *)
LEMMA RemoveSubmitKeeps ==
  ASSUME NEW s \in Seq(MessageSet), NEW m \in ToSet(s)
  PROVE  m.id \in Ids(RemoveSubmit(s, Submit)) \/ m.call.function = Submit
<1> DEFINE I == {i \in DOMAIN s : s[i].call.function # Submit}
           f == NoSubmission(s, Submit)
           r == RemoveSubmit(s, Submit)
<1>0. PICK h : Submitless(h, f, r, s)
  BY RemoveSubmitEach
<1> HIDE DEF f, r
<1>1. /\ Enum(h, f, s, I) /\ f \in Seq(MessageSet)
      /\ DOMAIN r = DOMAIN f
      /\ \A k \in DOMAIN f : r[k].id = s[h[k]].id
  BY <1>0 DEF Submitless
<1>2. PICK i \in DOMAIN s : m = s[i]
  BY DEF ToSet
<1>3. ASSUME m.call.function # Submit PROVE m.id \in Ids(r)
  <2>1. i \in I
    BY <1>2, <1>3
  <2>2. DOMAIN f = 1..Len(f)
    BY <1>1
  <2>3. PICK k \in DOMAIN f : h[k] = i
    <3> HIDE DEF I
    <3> QED BY <1>1, <2>1, <2>2 DEF Enum
  <2> QED BY <1>1, <1>2, <2>3 DEF Ids
<1> QED BY <1>3 DEF r

(* A submission goes with its result, so that the list stays good.         *)
LEMMA RemoveSubmitGood ==
  ASSUME NEW n \in Nat, NEW s, Good(s, {}, n)
  PROVE  /\ Good(RemoveSubmit(s, Submit), {}, n)
         /\ \A m \in ToSet(RemoveSubmit(s, Submit)) :
              m.call.function # Submit /\ \A call \in ToSet(m.calls) : call.function # Submit
<1> DEFINE I == {i \in DOMAIN s : s[i].call.function # Submit}
           f == NoSubmission(s, Submit)
           r == RemoveSubmit(s, Submit)
<1>0. s \in Seq(MessageSet) /\ Closed(s, {})
  BY DEF Good
<1>a. PICK h : Submitless(h, f, r, s)
  BY <1>0, RemoveSubmitEach
<1> HIDE DEF f, r
<1>1. /\ Enum(h, f, s, I) /\ f \in Seq(MessageSet) /\ r \in Seq(MessageSet)
      /\ DOMAIN r = DOMAIN f /\ Part(r, s, DOMAIN s)
      /\ \A k \in DOMAIN f :
           /\ h[k] \in DOMAIN s /\ s[h[k]].call.function # Submit
           /\ Like(r[k], s[h[k]])
           /\ ToSet(r[k].calls) = {c \in ToSet(s[h[k]].calls) : c.function # Submit}
  BY <1>a DEF Submitless
<1>2. DOMAIN f = 1..Len(f) /\ Len(f) \in Nat /\ DOMAIN s = 1..Len(s)
  BY <1>0, <1>1
<1>3. /\ \A k, l \in DOMAIN f : k < l => h[k] < h[l]
      /\ \A i \in DOMAIN s : i \in I => \E k \in DOMAIN f : h[k] = i
  <2> HIDE DEF I
  <2> QED BY <1>1, <1>2 DEF Enum
<1>4. \A k \in DOMAIN f : r[k].role = s[h[k]].role /\ r[k].call = s[h[k]].call
  BY <1>1 DEF Like
<1>5. NoCall.function # Submit
  BY DEF NoCall, Call, Submit
<1>6. ASSUME NEW k \in DOMAIN r, r[k].role = "tool"
      PROVE  \E j \in 1..k - 1 : r[k].call \in ToSet(r[j].calls)
  <2>1. h[k] \in DOMAIN s /\ s[h[k]].role = "tool" /\ s[h[k]].call.function # Submit
    BY <1>1, <1>4, <1>6
  <2>2. PICK j0 \in 1..h[k] - 1 : s[h[k]].call \in ToSet(s[j0].calls)
    BY <1>0, <2>1 DEF Closed
  <2>3. j0 \in DOMAIN s /\ j0 < h[k] /\ h[k] \in Int
    BY <1>2, <2>1
  <2>4. j0 \in I
    <3>1. s[j0] \in MessageSet
      BY <1>0, <2>3
    <3>2. s[j0].calls # <<>>
      BY <2>2 DEF ToSet
    <3>3. s[j0].call = NoCall
      BY <3>1, <3>2, MessageFields
    <3> QED BY <1>5, <2>3, <3>3
  <2>5. PICK j \in DOMAIN f : h[j] = j0
    BY <1>3, <2>3, <2>4
  <2>6. j \in 1..k - 1
    <3>1. j # k /\ ~(k < j)
      BY <1>1, <1>2, <1>3, <2>3, <2>5
    <3> QED BY <1>1, <1>2, <3>1
  <2> QED BY <1>1, <1>4, <2>1, <2>2, <2>5, <2>6
<1>7. ASSUME NEW i \in DOMAIN r, NEW c \in ToSet(r[i].calls) PROVE \E j \in DOMAIN r : r[j].call = c
  <2>1. c \in ToSet(s[h[i]].calls) /\ c.function # Submit /\ h[i] \in DOMAIN s
    BY <1>1
  <2>2. PICK j0 \in DOMAIN s : s[j0].call = c
    BY <1>0, <2>1 DEF Closed
  <2>3. j0 \in I
    BY <2>1, <2>2
  <2>4. PICK j \in DOMAIN f : h[j] = j0
    BY <1>3, <2>3
  <2> QED BY <1>1, <1>4, <2>2, <2>4
<1>8. Closed(r, {})
  BY <1>6, <1>7 DEF Closed
<1>9. Good(r, {}, n)
  BY <1>1, <1>8, PartGood
<1>10. \A k \in DOMAIN r :
         r[k].call.function # Submit /\ \A call \in ToSet(r[k].calls) : call.function # Submit
  BY <1>1, <1>4
<1>11. \A m \in ToSet(r) :
         m.call.function # Submit /\ \A call \in ToSet(m.calls) : call.function # Submit
  BY <1>10 DEF ToSet
<1> QED BY <1>9, <1>11 DEF r

-----------------------------------------------------------------------------
(* The answers to the calls of a message *)

AnswerRow(f, n, calls) == IF n = 0 THEN <<>> ELSE Answer(f[n - 1], calls[n])

(* The answers are defined call by call.                                   *)
LEMMA AnswersExist ==
  ASSUME NEW calls \in Seq(CallSet)
  PROVE  \E f : f = [n \in 0..Len(calls) |-> AnswerRow(f, n, calls)]
<1> DEFINE n == Len(calls)
           P(m) == \E f : f = [i \in 0..m |-> AnswerRow(f, i, calls)]
           T == {m \in 0..n : ~P(m)}
<1>0. n \in Nat
  OBVIOUS
<1> HIDE DEF n
<1>1. P(0)
  <2> DEFINE g == [i \in 0..0 |-> <<>>]
  <2>1. \A i \in 0..0 : AnswerRow(g, i, calls) = <<>>
    BY DEF AnswerRow
  <2>2. g = [i \in 0..0 |-> AnswerRow(g, i, calls)]
    BY <2>1
  <2> QED BY <2>2
<1>2. ASSUME NEW m \in 1..n, P(m - 1) PROVE P(m)
  <2>1. PICK f : f = [i \in 0..m - 1 |-> AnswerRow(f, i, calls)]
    BY <1>2
  <2> DEFINE g == [i \in 0..m |-> IF i = m THEN AnswerRow(f, m, calls) ELSE f[i]]
  <2>2. ASSUME NEW i \in 0..m PROVE g[i] = AnswerRow(g, i, calls)
    <3>1. i # 0 => i - 1 \in 0..m /\ i - 1 # m /\ i - 1 \in 0..m - 1
      BY <1>0
    <3>2. i # 0 => g[i - 1] = f[i - 1]
      BY <3>1
    <3>3. AnswerRow(g, i, calls) = AnswerRow(f, i, calls)
      BY <3>2 DEF AnswerRow
    <3>4. i # m => i \in 0..m - 1
      BY <1>0
    <3>5. i # m => f[i] = AnswerRow(f, i, calls)
      BY <2>1, <3>4
    <3> QED BY <3>3, <3>5
  <2>3. g = [i \in 0..m |-> AnswerRow(g, i, calls)]
    <3> HIDE DEF g
    <3>1. g = [i \in 0..m |-> g[i]]
      BY DEF g
    <3> QED BY <2>2, <3>1
  <2> QED BY <2>3
<1>3. ASSUME T # {} PROVE FALSE
  <2> HIDE DEF P
  <2>1. T \subseteq Nat
    BY <1>0
  <2>2. \E m \in T : \A i \in T : m <= i
    <3> HIDE DEF T
    <3> QED BY <1>3, <2>1, Least
  <2>3. PICK m \in T : \A i \in T : m <= i
    BY <2>2
  <2>4. m \in 0..n /\ ~P(m) /\ m # 0
    BY <1>1
  <2>5. m \in 1..n /\ m - 1 \in 0..n /\ ~(m <= m - 1)
    BY <1>0, <2>4
  <2>6. P(m - 1)
    BY <2>3, <2>5
  <2> QED BY <1>2, <2>4, <2>5, <2>6
<1>4. n \in 0..n
  BY <1>0
<1>5. P(n)
  BY <1>3, <1>4
<1> QED BY <1>5 DEF n

(* The messages of q bear the ids after n; none of them is a warning. *)
Numbered(q, n) == \A i \in DOMAIN q : q[i].id = n + i /\ q[i].origin # "warning"

(* One more answer bears the next id.                                      *)
LEMMA NumberedAppend ==
  ASSUME NEW n \in Nat, NEW q \in Seq(MessageSet), Numbered(q, n),
         NEW m \in MessageSet, m.id = n + Len(q) + 1, m.origin # "warning"
  PROVE  /\ Append(q, m) \in Seq(MessageSet) /\ Numbered(Append(q, m), n)
         /\ Len(Append(q, m)) = Len(q) + 1
BY DEF Numbered

(* The answer to one call closes it, and opens none.                       *)
LEMMA AnswerStep ==
  ASSUME last_id \in Nat, NEW list \in Seq(MessageSet), NEW q \in Seq(MessageSet),
         Numbered(q, last_id), NEW open, NEW call \in open, call \in CallSet,
         Good(list \o q, open, last_id + Len(q))
  PROVE  /\ Answer(q, call) \in Seq(MessageSet) /\ Numbered(Answer(q, call), last_id)
         /\ Good(list \o Answer(q, call), open \ {call}, last_id + Len(Answer(q, call)))
<1> DEFINE id == last_id + Len(q) + 1
           t == Tool(id, call)
           p == Append(q, t)
<1>1. Len(q) \in Nat /\ id \in Nat /\ id = last_id + Len(q) + 1
  OBVIOUS
<1>2. t \in MessageSet /\ t.id = id /\ t.role = "tool" /\ t.call = call /\ t.origin = "run"
  BY <1>1, ToolMessage
<1> HIDE DEF t
<1>3. p \in Seq(MessageSet) /\ Numbered(p, last_id) /\ Len(p) = Len(q) + 1
  BY <1>2, NumberedAppend
<1>4. Good(list \o p, open \ {call}, last_id + Len(p))
  <2> DEFINE g == list \o q
             n == last_id + Len(q)
  <2>1. list \o p = Append(g, t)
    BY <1>2
  <2>2. n \in Nat /\ last_id + Len(p) = n + 1 /\ t.id = n + 1
    BY <1>1, <1>2, <1>3
  <2>3. Good(g, open, n)
    OBVIOUS
  <2> HIDE DEF g, n, p
  <2>4. Good(Append(g, t), open \ {t.call}, n + 1)
    BY <1>2, <2>2, <2>3, AnswerGood
  <2> QED BY <1>2, <2>1, <2>2, <2>4
<1> HIDE DEF p
<1>5. Answer(q, call) = p \o (IF call.function = Transfer
                               THEN <<Assistant(id + 1, <<>>), User(id + 2)>> ELSE <<>>)
  BY DEF Answer, p, t
<1> HIDE DEF id
<1>6. CASE call.function # Transfer
  <2>1. Answer(q, call) = p
    BY <1>3, <1>5, <1>6
  <2> QED BY <1>3, <1>4, <2>1
<1>7. CASE call.function = Transfer
  <2> DEFINE a == Assistant(id + 1, <<>>)
             u == User(id + 2)
             pa == Append(p, a)
             r == Append(pa, u)
  <2>1. /\ a \in MessageSet /\ a.id = id + 1 /\ a.role # "tool" /\ ToSet(a.calls) = {}
        /\ a.origin = "run"
    <3>1. <<>> \in Seq(CallSet) /\ ToSet(<<>>) = {} /\ id + 1 \in Int
      BY <1>1 DEF ToSet
    <3>2. /\ a \in MessageSet /\ a.id = id + 1 /\ a.role = "assistant" /\ a.calls = <<>>
          /\ a.origin = "run"
      <4> DEFINE none == <<>>
                 k == id + 1
      <4>1. a = Assistant(k, none) /\ none \in Seq(CallSet) /\ k \in Int
        BY <3>1
      <4> HIDE DEF none, k, a
      <4>2. /\ a \in MessageSet /\ a.id = k /\ a.role = "assistant" /\ a.calls = none
            /\ a.origin = "run"
        BY <4>1, AssistantMessage
      <4> QED BY <4>2 DEF none, k
    <3> QED BY <3>1, <3>2
  <2>2. /\ u \in MessageSet /\ u.id = id + 2 /\ u.role # "tool" /\ ToSet(u.calls) = {}
        /\ u.origin # "warning"
    <3>1. ToSet(<<>>) = {} /\ id + 2 \in Int
      BY <1>1 DEF ToSet
    <3>2. u \in MessageSet /\ u.id = id + 2 /\ u.calls = <<>> /\ u.call = NoCall
      BY <3>1, PlainMessages
    <3> QED BY <3>1, <3>2, MessageFields, NoWarnings
  <2>3. Answer(q, call) = p \o <<a, u>>
    BY <1>5, <1>7
  <2> HIDE DEF a, u
  <2>4. Answer(q, call) = r
    BY <1>3, <2>1, <2>2, <2>3
  <2>5. pa \in Seq(MessageSet) /\ Numbered(pa, last_id) /\ Len(pa) = Len(p) + 1
    <3>1. a.id = last_id + Len(p) + 1
      BY <1>1, <1>3, <2>1
    <3>2. /\ last_id \in Nat /\ p \in Seq(MessageSet) /\ Numbered(p, last_id)
          /\ a \in MessageSet /\ a.origin # "warning"
      BY <1>3, <2>1
    <3> QED BY <3>1, <3>2, NumberedAppend
  <2> HIDE DEF pa
  <2>6. r \in Seq(MessageSet) /\ Numbered(r, last_id) /\ Len(r) = Len(pa) + 1
    <3>1. u.id = last_id + Len(pa) + 1
      BY <1>1, <1>3, <2>2, <2>5
    <3>2. /\ last_id \in Nat /\ pa \in Seq(MessageSet) /\ Numbered(pa, last_id)
          /\ u \in MessageSet /\ u.origin # "warning"
      BY <2>2, <2>5
    <3> QED BY <3>1, <3>2, NumberedAppend
  <2>7. Good(list \o pa, open \ {call}, last_id + Len(pa))
    <3> DEFINE g == list \o p
               n == last_id + Len(p)
    <3>1. list \o pa = Append(g, a)
      BY <1>3, <2>1 DEF pa
    <3>2. n \in Nat /\ n + 1 \in Nat /\ n <= n + 1 /\ last_id + Len(pa) = n + 1 /\ a.id \in n + 1..n + 1
      BY <1>1, <1>3, <2>1, <2>5
    <3>3. Good(g, open \ {call}, n)
      BY <1>4
    <3> HIDE DEF g, n
    <3>4. Good(Append(g, a), (open \ {call}) \cup ToSet(a.calls), n + 1)
      BY <2>1, <3>2, <3>3, SaidGood
    <3> QED BY <2>1, <3>1, <3>2, <3>4
  <2>8. Good(list \o r, open \ {call}, last_id + Len(r))
    <3> DEFINE g == list \o pa
               n == last_id + Len(pa)
    <3>1. list \o r = Append(g, u)
      BY <2>2, <2>5
    <3>2. n \in Nat /\ n + 1 \in Nat /\ n <= n + 1 /\ last_id + Len(r) = n + 1 /\ u.id \in n + 1..n + 1
      BY <1>1, <1>3, <2>2, <2>5, <2>6
    <3>3. Good(g, open \ {call}, n)
      BY <2>7
    <3> HIDE DEF g, n
    <3>4. Good(Append(g, u), (open \ {call}) \cup ToSet(u.calls), n + 1)
      BY <2>2, <3>2, <3>3, SaidGood
    <3> QED BY <2>2, <3>1, <3>2, <3>4
  <2> QED BY <2>4, <2>6, <2>8
<1> QED BY <1>6, <1>7

(* The answers to all calls of the last message close the list again.      *)
LEMMA AnswersGood ==
  ASSUME last_id \in Nat, NEW calls \in Seq(CallSet),
         \A n, k \in DOMAIN calls : calls[n] = calls[k] => n = k,
         NEW list, Good(list, ToSet(calls), last_id)
  PROVE  /\ Answers(calls) \in Seq(MessageSet) /\ Numbered(Answers(calls), last_id)
         /\ Good(list \o Answers(calls), {}, last_id + Len(Answers(calls)))
<1>0. list \in Seq(MessageSet)
  BY DEF Good
<1> DEFINE l == Len(calls)
<1>1. l \in Nat /\ DOMAIN calls = 1..l /\ \A n \in 1..l : calls[n] \in CallSet
  OBVIOUS
<1>2. \E f : f = [n \in 0..l |-> AnswerRow(f, n, calls)]
  BY AnswersExist
<1>3. PICK f : f = [n \in 0..l |-> AnswerRow(f, n, calls)] /\ Answers(calls) = f[l]
  BY <1>2 DEF Answers, AnswerRow
<1> DEFINE Left_(n) == {calls[k] : k \in n + 1..l}
           P(n) == /\ f[n] \in Seq(MessageSet) /\ Numbered(f[n], last_id)
                   /\ Good(list \o f[n], Left_(n), last_id + Len(f[n]))
           T == {n \in 0..l : ~P(n)}
<1> HIDE DEF l
<1>4. P(0)
  <2>1. f[0] = <<>>
    BY <1>1, <1>3 DEF AnswerRow
  <2>2. Left_(0) = ToSet(calls)
    BY <1>1 DEF ToSet
  <2>3. list \o <<>> = list /\ last_id + Len(<<>>) = last_id /\ <<>> \in Seq(MessageSet)
    BY <1>0
  <2>4. Numbered(<<>>, last_id)
    BY DEF Numbered
  <2> HIDE DEF Left_
  <2> QED BY <2>1, <2>2, <2>3, <2>4
<1>5. ASSUME NEW n \in 1..l, P(n - 1) PROVE P(n)
  <2>1. f[n] = Answer(f[n - 1], calls[n])
    <3>1. n \in 0..l /\ n # 0
      BY <1>1
    <3> QED BY <1>3, <3>1 DEF AnswerRow
  <2>2. calls[n] \in Left_(n - 1) /\ calls[n] \in CallSet
    <3>1. n \in (n - 1) + 1..l
      BY <1>1
    <3> QED BY <1>1, <3>1
  <2>3. Left_(n) = Left_(n - 1) \ {calls[n]}
    <3>1. (n - 1) + 1..l = {n} \cup (n + 1..l) /\ n \notin n + 1..l /\ n + 1..l \subseteq 1..l
      BY <1>1
    <3>2. \A k \in n + 1..l : calls[k] # calls[n]
      BY <1>1, <3>1
    <3> QED BY <3>1, <3>2
  <2> DEFINE q == f[n - 1]
             o == Left_(n - 1)
             c == calls[n]
  <2>4. q \in Seq(MessageSet) /\ Numbered(q, last_id) /\ Good(list \o q, o, last_id + Len(q))
    BY <1>5
  <2> HIDE DEF q, o, c, Left_
  <2>5. c \in o /\ c \in CallSet
    BY <2>2 DEF c, o
  <2>6. /\ Answer(q, c) \in Seq(MessageSet) /\ Numbered(Answer(q, c), last_id)
        /\ Good(list \o Answer(q, c), o \ {c}, last_id + Len(Answer(q, c)))
    BY <1>0, <2>4, <2>5, AnswerStep
  <2> QED BY <2>1, <2>3, <2>6 DEF q, o, c
<1> HIDE DEF P
<1>6. T = {}
  <2>1. SUFFICES ASSUME T # {} PROVE FALSE
    OBVIOUS
  <2>2. T \subseteq Nat
    BY <1>1
  <2>3. \E n \in T : \A i \in T : n <= i
    <3> HIDE DEF T
    <3> QED BY <2>1, <2>2, Least
  <2>4. PICK n \in T : \A i \in T : n <= i
    BY <2>3
  <2>5. n \in 0..l /\ ~P(n) /\ n # 0
    BY <1>4
  <2>6. n \in 1..l /\ n - 1 \in 0..l /\ ~(n <= n - 1)
    BY <1>1, <2>5
  <2>7. P(n - 1)
    BY <2>4, <2>6
  <2> QED BY <1>5, <2>5, <2>6, <2>7
<1>7. P(l)
  <2>1. l \in 0..l
    BY <1>1
  <2> QED BY <1>6, <2>1
<1>8. Left_(l) = {}
  BY <1>1
<1> HIDE DEF Left_
<1> QED BY <1>3, <1>7, <1>8 DEF P

-----------------------------------------------------------------------------
(* The compacted input and what has come since                             *)

(* What is added is new to the compaction. *)
LEMMA UnseenGrows ==
  ASSUME NEW kept \in Seq(MessageSet), NEW new \in Seq(MessageSet), NEW P,
         \A i \in DOMAIN new : new[i].id \notin P
  PROVE  UnseenOf(kept \o new, P) = UnseenOf(kept, P) \o new
<1> DEFINE r == kept \o new
           I == {i \in DOMAIN r : r[i].id \notin P}
           J == {i \in DOMAIN kept : kept[i].id \notin P}
<1>1. /\ DOMAIN kept = 1..Len(kept) /\ DOMAIN new = 1..Len(new)
      /\ Len(kept) \in Nat /\ Len(new) \in Nat
      /\ DOMAIN r = 1..Len(kept) + Len(new)
      /\ \A i \in DOMAIN kept : r[i] = kept[i]
      /\ \A i \in DOMAIN new : r[Len(kept) + i] = new[i]
  BY Joined
<1>2. \A i \in 1..Len(kept) : i \in I <=> i \in J
  BY <1>1
<1>3. ASSUME NEW i \in Len(kept) + 1..Len(kept) + Len(new) PROVE i \in I
  <2>1. i - Len(kept) \in DOMAIN new /\ i \in DOMAIN r
    BY <1>1
  <2>2. r[i] = new[i - Len(kept)]
    <3>1. r[Len(kept) + (i - Len(kept))] = new[i - Len(kept)]
      BY <1>1, <2>1
    <3> QED BY <1>1, <3>1
  <2>3. r[i].id \notin P
    BY <2>1, <2>2
  <2> QED BY <2>1, <2>3
<1> HIDE DEF I, J
<1>4. At(r, I) = At(kept, J) \o new
  BY <1>2, <1>3, AtExtended
<1> QED BY <1>4 DEF UnseenOf, I, J

(* Nothing is new when all has been seen.                                  *)
LEMMA UnseenNone ==
  ASSUME NEW kept \in Seq(MessageSet), NEW P, Ids(kept) \subseteq P
  PROVE  UnseenOf(kept, P) = <<>>
<1> DEFINE I == {i \in DOMAIN kept : kept[i].id \notin P}
<1>1. DOMAIN kept \cap I = {}
  BY DEF Ids
<1> HIDE DEF I
<1>2. At(kept, I) = <<>>
  BY <1>1, AtNone
<1> QED BY <1>2 DEF UnseenOf, I

(* What is new is a part of the history.                                   *)
LEMMA UnseenPart ==
  ASSUME NEW kept \in Seq(MessageSet), NEW P
  PROVE  UnseenOf(kept, P) \in Seq(MessageSet) /\ Part(UnseenOf(kept, P), kept, DOMAIN kept)
BY AtPart DEF UnseenOf

(* A part has no larger ids than the list,                                 *)
LEMMA WithinPart ==
  ASSUME NEW n \in Nat, NEW s \in Seq(MessageSet), NEW r \in Seq(MessageSet),
         Part(r, s, DOMAIN s), Within(s, n)
  PROVE  Within(r, n)
<1>1. PICK h : PartAt(h, r, s, DOMAIN s)
  BY DEF Part
<1>2. ASSUME NEW i \in DOMAIN r PROVE r[i].id \in -n..n
  <2>1. h[i] \in DOMAIN s /\ Like(r[i], s[h[i]])
    BY <1>1 DEF PartAt
  <2>2. s[h[i]].id \in -n..n
    BY <2>1 DEF Within
  <2>3. r[i].id \in {s[h[i]].id, -s[h[i]].id}
    BY <2>1 DEF Like
  <2> QED BY <2>2, <2>3
<1> QED BY <1>2 DEF Within

(* nor have two lists together,                                            *)
LEMMA WithinJoin ==
  ASSUME NEW n \in Nat, NEW p \in Seq(MessageSet), NEW q \in Seq(MessageSet),
         Within(p, n), Within(q, n)
  PROVE  Within(p \o q, n)
<1> DEFINE r == p \o q
           l == Len(p)
<1>1. \A i \in DOMAIN r : \/ i \in DOMAIN p /\ r[i] = p[i]
                          \/ i - l \in DOMAIN q /\ r[i] = q[i - l]
  BY Joined
<1> HIDE DEF r, l
<1>2. \A i \in DOMAIN p : p[i].id \in -n..n
  BY DEF Within
<1>3. \A i \in DOMAIN q : q[i].id \in -n..n
  BY DEF Within
<1>4. \A i \in DOMAIN r : r[i].id \in -n..n
  BY <1>1, <1>2, <1>3
<1> QED BY <1>4 DEF Within, r

(* and they are within any larger bound.                                   *)
LEMMA WithinWider ==
  ASSUME NEW n \in Nat, NEW k \in Nat, n <= k, NEW s, Within(s, n)
  PROVE  Within(s, k)
<1>1. -n..n \subseteq -k..k
  OBVIOUS
<1> QED BY <1>1 DEF Within

(* A list that is good for a bound is good for a larger one.               *)
LEMMA GoodWider ==
  ASSUME NEW n \in Nat, NEW k \in Nat, n <= k, NEW s, NEW open, Good(s, open, n)
  PROVE  Good(s, open, k)
<1>1. s \in Seq(MessageSet) /\ Unique(s) /\ Bounded(s, n) /\ Closed(s, open)
  BY DEF Good
<1>2. ASSUME NEW i \in DOMAIN s PROVE s[i].id \in -k..k /\ \A c \in Concerns(s[i]) : c.id <= k
  <2>1. s[i].id \in -n..n /\ \A c \in Concerns(s[i]) : c.id <= n
    BY <1>1 DEF Bounded
  <2>2. \A c \in Concerns(s[i]) : c.id \in Nat
    <3>1. s[i] \in MessageSet
      BY <1>1
    <3> QED BY <3>1, MessageFields, CallFields
  <2> QED BY <2>1, <2>2
<1> QED BY <1>1, <1>2 DEF Good, Bounded

(* A good list has no larger ids than the bound that it is good for.       *)
LEMMA GoodWithin ==
  ASSUME NEW s, NEW open, NEW n, Good(s, open, n)
  PROVE  s \in Seq(MessageSet) /\ Within(s, n)
BY DEF Good, Bounded, Within

(* Nothing is added.                                                       *)
LEMMA GoodSame ==
  ASSUME NEW s, NEW open, NEW n, Good(s, open, n)
  PROVE  Good(s \o <<>>, open, n)
<1>1. s \in Seq(MessageSet)
  BY DEF Good
<1>2. s \o <<>> = s
  BY <1>1
<1> QED BY <1>2

(* What has come since the last compaction still ends the list. *)
LEMMA EndsGrow ==
  ASSUME NEW kept \in Seq(MessageSet), NEW list \in Seq(MessageSet), NEW new \in Seq(MessageSet),
         NEW n \in Nat, n <= Len(kept), EndsWith(kept, list, n)
  PROVE  EndsWith(kept \o new, list \o new, n)
<1> DEFINE r == kept \o new
           t == list \o new
           a == Len(kept)
           b == Len(list)
           l == Len(new)
<1>1. /\ a \in Nat /\ b \in Nat /\ l \in Nat /\ DOMAIN new = 1..l
      /\ DOMAIN kept = 1..a /\ DOMAIN list = 1..b
      /\ Len(r) = a + l /\ Len(t) = b + l
      /\ \A i \in DOMAIN kept : r[i] = kept[i]
      /\ \A i \in DOMAIN new : r[a + i] = new[i]
      /\ \A i \in DOMAIN list : t[i] = list[i]
      /\ \A i \in DOMAIN new : t[b + i] = new[i]
  <2>1. /\ a \in Nat /\ l \in Nat /\ DOMAIN new = 1..l /\ DOMAIN kept = 1..a
        /\ Len(r) = a + l
        /\ \A i \in DOMAIN kept : r[i] = kept[i]
        /\ \A i \in DOMAIN new : r[a + i] = new[i]
    BY Joined
  <2>2. /\ b \in Nat /\ DOMAIN list = 1..b
        /\ Len(t) = b + l
        /\ \A i \in DOMAIN list : t[i] = list[i]
        /\ \A i \in DOMAIN new : t[b + i] = new[i]
    BY Joined
  <2> QED BY <2>1, <2>2
<1>2. a - n <= b /\ \A k \in n + 1..a : list[b - (a - k)] = kept[k]
  BY DEF EndsWith
<1> HIDE DEF r, t, a, b, l
<1>3. ASSUME NEW k \in n + 1..a + l
      PROVE  t[(b + l) - ((a + l) - k)] = r[k]
  <2>1. CASE k <= a
    <3>1. k \in DOMAIN kept /\ k \in n + 1..a /\ b - (a - k) \in DOMAIN list
      BY <1>1, <1>2, <2>1
    <3>2. (b + l) - ((a + l) - k) = b - (a - k)
      BY <1>1
    <3>3. t[b - (a - k)] = list[b - (a - k)] /\ r[k] = kept[k]
      BY <1>1, <3>1
    <3> QED BY <1>2, <3>1, <3>2, <3>3
  <2>2. CASE k > a
    <3>1. k - a \in DOMAIN new /\ a + (k - a) = k
      BY <1>1, <2>2
    <3>2. (b + l) - ((a + l) - k) = b + (k - a)
      BY <1>1
    <3>3. r[a + (k - a)] = new[k - a] /\ t[b + (k - a)] = new[k - a]
      BY <1>1, <3>1
    <3> QED BY <3>1, <3>2, <3>3
  <2> QED BY <1>1, <2>1, <2>2
<1>4. Len(r) - n <= Len(t)
  BY <1>1, <1>2
<1> QED BY <1>1, <1>3, <1>4 DEF EndsWith, r, t

(* Right after a compaction nothing has to be at the end.                  *)
LEMMA EndsSelf ==
  ASSUME NEW kept \in Seq(MessageSet), NEW list \in Seq(MessageSet)
  PROVE  EndsWith(kept, list, Len(kept))
BY DEF EndsWith

(* At passes over what is not taken at the end,                            *)
LEMMA AtShorter ==
  ASSUME NEW S, NEW s \in Seq(S), NEW m \in S, NEW I, NEW J,
         \A i \in 1..Len(s) : i \in I <=> i \in J, Len(s) + 1 \notin I
  PROVE  At(Append(s, m), I) = At(s, J)
<1> DEFINE r == At(s, J)
           t == Append(s, m)
<1>1. r \in Seq(S) /\ \E h : Enum(h, r, s, J)
  BY AtEnum
<1>2. PICK h : Enum(h, r, s, J)
  BY <1>1
<1>3. /\ t \in Seq(S) /\ DOMAIN t = 1..Len(s) + 1 /\ DOMAIN s = 1..Len(s) /\ Len(s) \in Nat
      /\ \A i \in DOMAIN s : t[i] = s[i]
  OBVIOUS
<1> HIDE DEF r, t
<1>4. Enum(h, r, t, I)
  <2>1. h \in [1..Len(r) -> DOMAIN t]
    BY <1>2, <1>3 DEF Enum
  <2>2. \A k \in 1..Len(r) : h[k] \in I /\ r[k] = t[h[k]]
    BY <1>2, <1>3 DEF Enum
  <2>3. \A i \in DOMAIN t : i \in I => i \in DOMAIN s /\ i \in J
    BY <1>3
  <2> QED BY <1>2, <2>1, <2>2, <2>3 DEF Enum
<1> QED BY <1>1, <1>3, <1>4, EnumUnique DEF r, t

(* which is how a warning is left out,                                     *)
LEMMA UnwarnedWarning ==
  ASSUME NEW s \in Seq(MessageSet), NEW m \in MessageSet, m.origin = "warning"
  PROVE  Unwarned(Append(s, m)) = Unwarned(s)
<1> DEFINE t == Append(s, m)
           I == {i \in DOMAIN t : t[i].origin # "warning"}
           J == {i \in DOMAIN s : s[i].origin # "warning"}
<1>1. /\ DOMAIN t = 1..Len(s) + 1 /\ DOMAIN s = 1..Len(s) /\ Len(s) \in Nat
      /\ (\A i \in DOMAIN s : t[i] = s[i]) /\ t[Len(s) + 1] = m
  OBVIOUS
<1>2. \A i \in 1..Len(s) : i \in I <=> i \in J
  BY <1>1
<1>3. Len(s) + 1 \notin I
  BY <1>1
<1> HIDE DEF I, J
<1>4. At(t, I) = At(s, J)
  BY <1>2, <1>3, AtShorter
<1> QED BY <1>4 DEF Unwarned, I, J

(* whereas the rest is not.                                                *)
LEMMA UnwarnedGrows ==
  ASSUME NEW s \in Seq(MessageSet), NEW new \in Seq(MessageSet),
         \A i \in DOMAIN new : new[i].origin # "warning"
  PROVE  Unwarned(s \o new) = Unwarned(s) \o new
<1> DEFINE r == s \o new
           I == {i \in DOMAIN r : r[i].origin # "warning"}
           J == {i \in DOMAIN s : s[i].origin # "warning"}
<1>1. /\ DOMAIN s = 1..Len(s) /\ DOMAIN new = 1..Len(new)
      /\ Len(s) \in Nat /\ Len(new) \in Nat
      /\ DOMAIN r = 1..Len(s) + Len(new)
      /\ \A i \in DOMAIN s : r[i] = s[i]
      /\ \A i \in DOMAIN new : r[Len(s) + i] = new[i]
  BY Joined
<1>2. \A i \in 1..Len(s) : i \in I <=> i \in J
  BY <1>1
<1>3. ASSUME NEW i \in Len(s) + 1..Len(s) + Len(new) PROVE i \in I
  <2>1. i - Len(s) \in DOMAIN new /\ i \in DOMAIN r /\ Len(s) + (i - Len(s)) = i
    BY <1>1
  <2>2. r[i] = new[i - Len(s)]
    BY <1>1, <2>1
  <2> QED BY <2>1, <2>2
<1> HIDE DEF I, J
<1>4. At(r, I) = At(s, J) \o new
  BY <1>2, <1>3, AtExtended
<1> QED BY <1>4 DEF Unwarned, I, J

(* Messages that are newer than the start do not change what it is like. *)
LEMMA StartKept ==
  ASSUME NEW start, IsStart(start), NEW list \in Seq(MessageSet), NEW new \in Seq(MessageSet),
         NEW n \in Nat, n >= Len(start), \A i \in DOMAIN new : new[i].id > n,
         Marked(list, start), Present(list, start)
  PROVE  Marked(list \o new, start) /\ Present(list \o new, start)
<1>1. Len(start) \in Nat
  BY StartMessages
<1>2. ASSUME NEW i \in DOMAIN new PROVE new[i].id \notin -Len(start)..Len(start)
  <2>1. new[i].id > n /\ new[i] \in MessageSet
    OBVIOUS
  <2>2. new[i].id \in Int
    BY <2>1, MessageFields
  <2> QED BY <1>1, <2>1, <2>2
<1>3. Marked(new, start)
  BY <1>2, MarkedNew
<1>4. Marked(list \o new, start)
  BY <1>3, MarkedJoin
<1>5. \A i \in DOMAIN list : i \in DOMAIN (list \o new) /\ (list \o new)[i] = list[i]
  BY Joined
<1>6. Present(list \o new, start)
  BY <1>5 DEF Present
<1> QED BY <1>4, <1>6

(* The input stays in a list that grows.                                   *)
LEMMA InputKept ==
  ASSUME NEW list \in Seq(MessageSet), NEW new \in Seq(MessageSet), HasInput(list)
  PROVE  HasInput(list \o new)
<1>1. \A i \in DOMAIN list : i \in DOMAIN (list \o new) /\ (list \o new)[i] = list[i]
  BY Joined
<1> QED BY <1>1 DEF HasInput

(* The last message, and what comes before it                              *)
LEMMA FrontAppend ==
  ASSUME NEW list \in Seq(MessageSet), NEW m \in MessageSet
  PROVE  /\ Front(Append(list, m)) = list /\ Last(Append(list, m)) = m
         /\ Append(list, m) = list \o <<m>> /\ Append(list, m) # <<>>
         /\ <<m>> \in Seq(MessageSet) /\ DOMAIN <<m>> = {1} /\ <<m>>[1] = m
<1> DEFINE r == Append(list, m)
<1>1. r \in Seq(MessageSet) /\ Len(r) = Len(list) + 1 /\ r[Len(list) + 1] = m /\ Len(list) \in Nat
  OBVIOUS
<1>2. Front(r) = list
  <2>1. Front(r) = SubSeq(r, 1, Len(list))
    BY <1>1 DEF Front
  <2> QED BY <2>1
<1>3. Last(r) = m
  BY <1>1 DEF Last
<1>4. r = list \o <<m>> /\ r # <<>>
  BY <1>1
<1> QED BY <1>2, <1>3, <1>4

-----------------------------------------------------------------------------
(* Each way to compact                                                     *)

(* What is left of w; and, if the start allows it, what fits               *)
Rest(c, w, start, n, fits) == PartOf(c, w) /\ (fits => Fits(c, w, start, n))

(* CompactionTrim leaves such a list,                                      *)
LEMMA TrimRest ==
  ASSUME NEW start, IsStart(start), NEW n \in Nat, NEW w \in Seq(MessageSet), NEW fits,
         NEW tenths \in 0..10, NEW c, Rest(c, w, start, n, fits)
  PROVE  Rest(Trim(c, tenths), w, start, n, fits)
<1> DEFINE r == Trim(c, tenths)
<1>1. c \in Seq(MessageSet) /\ PartOf(c, w)
  BY DEF Rest, PartOf
<1>2. r \in Seq(MessageSet) /\ Part(r, c, DOMAIN c)
  BY <1>1, TrimPart
<1>3. PartOf(r, w)
  BY <1>1, <1>2, PartOfPart
<1>4. ASSUME fits PROVE Fits(r, w, start, n)
  <2>1. Good(c, {}, n) /\ Marked(c, start) /\ HasInput(c)
    BY <1>4 DEF Rest, Fits
  <2>2. Good(r, {}, n) /\ HasInput(r)
    BY <1>1, <2>1, TrimGood
  <2>3. Marked(r, start)
    BY <1>1, <2>1, TrimMarked
  <2> QED BY <1>3, <2>2, <2>3 DEF Fits
<1> QED BY <1>3, <1>4 DEF Rest

(* and so does editing its messages,                                       *)
LEMMA EditAtRest ==
  ASSUME NEW start, IsStart(start), NEW n \in Nat, NEW w \in Seq(MessageSet), NEW fits,
         fits => Len(start) = 2, NEW c, Rest(c, w, start, n, fits), NEW I, Later(c, I)
  PROVE  Rest(EditAt(c, I), w, start, n, fits)
<1> DEFINE r == EditAt(c, I)
<1>1. c \in Seq(MessageSet) /\ PartOf(c, w)
  BY DEF Rest, PartOf
<1>2. r \in Seq(MessageSet) /\ Part(r, c, DOMAIN c)
  BY <1>1, EditAtEach
<1>3. PartOf(r, w)
  BY <1>1, <1>2, PartOfPart
<1>4. fits => Fits(r, w, start, n)
  BY EditAtFits DEF Rest
<1> QED BY <1>3, <1>4 DEF Rest

(* the removal of calls,                                                   *)
LEMMA ClearCallsRest ==
  ASSUME NEW start, IsStart(start), NEW n \in Nat, NEW w \in Seq(MessageSet), NEW fits,
         fits => Len(start) = 2, NEW c, Rest(c, w, start, n, fits), NEW keep
  PROVE  Rest(ClearCalls(c, keep), w, start, n, fits)
<1> DEFINE r == ClearCalls(c, keep)
<1>1. c \in Seq(MessageSet) /\ PartOf(c, w)
  BY DEF Rest, PartOf
<1>2. r \in Seq(MessageSet) /\ Part(r, c, DOMAIN c)
  BY <1>1, ClearCallsPart
<1>3. PartOf(r, w)
  BY <1>1, <1>2, PartOfPart
<1>4. fits => Fits(r, w, start, n)
  BY ClearCallsFits DEF Rest
<1> QED BY <1>3, <1>4 DEF Rest

(* that of results,                                                        *)
LEMMA ClearResultsRest ==
  ASSUME NEW start, IsStart(start), NEW n \in Nat, NEW w \in Seq(MessageSet), NEW fits,
         fits => Len(start) = 2, NEW c, Rest(c, w, start, n, fits), NEW keep
  PROVE  Rest(ClearResults(c, keep), w, start, n, fits)
<1>1. Later(c, ToClear(c, keep))
  BY DEF Later, ToClear, Results
<1> QED BY <1>1, EditAtRest DEF ClearResults

(* that of thinking,                                                       *)
LEMMA UnthoughtRest ==
  ASSUME NEW start, IsStart(start), NEW n \in Nat, NEW w \in Seq(MessageSet), NEW fits,
         fits => Len(start) = 2, NEW c, Rest(c, w, start, n, fits)
  PROVE  Rest(Unthought(c), w, start, n, fits)
<1> DEFINE I == {i \in EarlierTurns(c) : c[i].id \in Thinking}
<1>1. Later(c, I)
  BY DEF Later, EarlierTurns
<1>2. Unthought(c) = EditAt(c, I)
  BY DEF Unthought
<1> HIDE DEF I
<1> QED BY <1>1, <1>2, EditAtRest

(* and that of what was saved to memory.                                   *)
LEMMA RememberedRest ==
  ASSUME NEW start, IsStart(start), NEW n \in Nat, NEW w \in Seq(MessageSet), NEW fits,
         fits /\ setting.memory => Len(start) = 2,
         NEW lists, \A c \in lists : Rest(c, w, start, n, fits), NEW r \in Remembered(lists)
  PROVE  Rest(r, w, start, n, fits)
<1>1. CASE ~setting.memory
  BY <1>1 DEF Remembered
<1>2. CASE setting.memory
  <2>1. PICK c \in lists : r = ClearMemory(c)
    BY <1>2 DEF Remembered
  <2> DEFINE I == {i \in DOMAIN c : \E call \in ToSet(c[i].calls) : call.function = Memory}
  <2>2. r = EditAt(c, I)
    BY <2>1 DEF ClearMemory
  <2>3. ASSUME NEW i \in DOMAIN c \cap I PROVE c[i].role = "assistant"
    <3>1. c \in Seq(MessageSet)
      BY DEF Rest, PartOf
    <3>2. c[i] \in MessageSet /\ c[i].calls # <<>>
      BY <3>1 DEF ToSet
    <3> QED BY <3>2 DEF MessageSet
  <2> HIDE DEF I
  <2>4. Later(c, I)
    BY <2>3 DEF Later
  <2> QED BY <1>2, <2>2, <2>4, EditAtRest
<1> QED BY <1>1, <1>2

(* Trimming once                                                           *)
LEMMA TrimmedRest ==
  ASSUME NEW start, IsStart(start), NEW n \in Nat, NEW w \in Seq(MessageSet), NEW fits,
         fits /\ setting.memory => Len(start) = 2,
         NEW lists, \A c \in lists : Rest(c, w, start, n, fits)
  PROVE  \A r \in Trimmed(lists) : Rest(r, w, start, n, fits)
<1> DEFINE T == {Trim(m, TrimTenths) : m \in lists}
<1>1. TrimTenths \in 0..10
  BY ReactAssumption
<1>2. \A c \in T : Rest(c, w, start, n, fits)
  BY <1>1, TrimRest
<1> HIDE DEF T
<1>3. \A r \in Remembered(T) : Rest(r, w, start, n, fits)
  BY <1>2, RememberedRest
<1> QED BY <1>3 DEF Trimmed, T

(* Each strategy but the summary leaves such lists.                        *)
LEMMA CompactionsRest ==
  ASSUME setting.strategy \in {"trim", "edit", "edit_calls"},
         NEW start, IsStart(start), NEW n \in Nat, NEW w \in Seq(MessageSet), NEW fits,
         fits /\ (setting.strategy # "trim" \/ setting.memory) => Len(start) = 2,
         Rest(w, w, start, n, fits), NEW c \in Compactions(w)
  PROVE  Rest(c, w, start, n, fits)
<1>1. setting.strategy # "trim" => Rest(Unthought(w), w, start, n, fits)
  BY UnthoughtRest
<1>2. CASE setting.strategy = "edit"
  <2> DEFINE C == {ClearResults(Unthought(w), KeepToolUses)}
  <2>1. \A m \in C : Rest(m, w, start, n, fits)
    BY <1>1, <1>2, ClearResultsRest
  <2>2. c \in Remembered(C)
    BY <1>2 DEF Compactions
  <2> HIDE DEF C
  <2> QED BY <1>2, <2>1, <2>2, RememberedRest
<1>3. CASE setting.strategy = "edit_calls"
  <2> DEFINE C == {ClearCalls(Unthought(w), KeepToolUses)}
  <2>1. \A m \in C : Rest(m, w, start, n, fits)
    BY <1>1, <1>3, ClearCallsRest
  <2>2. c \in Remembered(C)
    BY <1>3 DEF Compactions
  <2> HIDE DEF C
  <2> QED BY <1>3, <2>1, <2>2, RememberedRest
<1>4. CASE setting.strategy = "trim"
  <2> DEFINE once == Trimmed({w})
             twice == Trimmed(once)
             thrice == Trimmed(twice)
             again == Trimmed(thrice)
  <2>1. c \in once \cup twice \cup thrice \cup again
    BY <1>4 DEF Compactions
  <2>2. fits /\ setting.memory => Len(start) = 2
    OBVIOUS
  <2>3. \A m \in {w} : Rest(m, w, start, n, fits)
    OBVIOUS
  <2>4. \A m \in once : Rest(m, w, start, n, fits)
    BY <2>2, <2>3, TrimmedRest
  <2> HIDE DEF once
  <2>5. \A m \in twice : Rest(m, w, start, n, fits)
    BY <2>2, <2>4, TrimmedRest
  <2> HIDE DEF twice
  <2>6. \A m \in thrice : Rest(m, w, start, n, fits)
    BY <2>2, <2>5, TrimmedRest
  <2> HIDE DEF thrice
  <2>7. \A m \in again : Rest(m, w, start, n, fits)
    BY <2>2, <2>6, TrimmedRest
  <2> QED BY <2>1, <2>4, <2>5, <2>6, <2>7
<1> QED BY <1>2, <1>3, <1>4

(* A list is a part of itself,                                             *)
LEMMA PartSelf ==
  ASSUME NEW w \in Seq(MessageSet)
  PROVE  Part(w, w, DOMAIN w)
<1>1. \A i \in DOMAIN w : Like(w[i], w[i])
  BY LikeSelf
<1> QED BY <1>1, EditedPart

(* and nothing is a part of it.                                            *)
LEMMA PartEmpty ==
  ASSUME NEW w, NEW D
  PROVE  <<>> \in Seq(MessageSet) /\ Part(<<>>, w, D)
<1> DEFINE h == [k \in 1..Len(<<>>) |-> CHOOSE d \in D : TRUE]
<1>1. 1..Len(<<>>) = {} /\ <<>> \in Seq(MessageSet)
  OBVIOUS
<1>2. h \in [1..Len(<<>>) -> D]
  BY <1>1
<1>3. PartAt(h, <<>>, w, D)
  BY <1>1, <1>2 DEF PartAt
<1> QED BY <1>1, <1>3 DEF Part

(* The prefix is put in front of what is left.                             *)
LEMMA PreservedIs ==
  ASSUME NEW c
  PROVE  Preserved(c) = Restored(prefix, c)
BY DEF Preserved, Restored

(* The prefix has no larger ids than the rest.                             *)
LEMMA RestoredWithin ==
  ASSUME NEW start, IsStart(start), NEW n \in Nat, n >= Len(start),
         NEW c \in Seq(MessageSet), Within(c, n)
  PROVE  Restored(start, c) \in Seq(MessageSet) /\ Within(Restored(start, c), n)
<1> DEFINE q == At(start, {i \in DOMAIN start : start[i].id \notin Ids(c)})
<1>1. /\ start \in Seq(MessageSet) /\ DOMAIN start = 1..Len(start) /\ Len(start) \in Nat
      /\ \A p \in DOMAIN start : start[p].id = p
  BY StartMessages
<1>2. Within(start, n)
  BY <1>1 DEF Within
<1>3. q \in Seq(MessageSet) /\ Part(q, start, DOMAIN start)
  BY <1>1, AtPart
<1>4. Within(q, n)
  BY <1>1, <1>2, <1>3, WithinPart
<1>5. q \o c \in Seq(MessageSet) /\ Within(q \o c, n)
  BY <1>3, <1>4, WithinJoin, Joined
<1> QED BY <1>5 DEF Restored

(* The largest id once a compaction is done *)
NextId == IF setting.strategy = "summary" THEN last_id + 1 ELSE last_id

(* The four strategies                                                     *)
LEMMA CompactionKinds ==
  ASSUME setting.strategy \in {"trim", "edit", "edit_calls", "summary"}, NEW w,
         NEW c \in Compactions(w)
  PROVE  \/ setting.strategy \in {"trim", "edit", "edit_calls"}
         \/ setting.strategy = "summary" /\ c = Summarize(w, last_id + 1)
BY DEF Compactions

(* Whatever the strategy, the compacted input holds messages that exist,   *)
(* and all of the start.                                                   *)
LEMMA CompactedWithin ==
  ASSUME setting.strategy \in {"trim", "edit", "edit_calls", "summary"},
         IsStart(prefix), last_id \in Nat, last_id >= Len(prefix),
         NEW w \in Seq(MessageSet), Within(w, last_id), NEW c \in Compactions(w)
  PROVE  /\ Preserved(c) \in Seq(MessageSet) /\ Within(Preserved(c), NextId)
         /\ Present(Preserved(c), prefix)
<1>1. NextId \in Nat /\ NextId >= last_id /\ NextId >= Len(prefix)
  <2>1. Len(prefix) \in Nat
    BY StartMessages
  <2> QED BY <2>1 DEF NextId
<1>2. ASSUME c \in Seq(MessageSet), Part(c, w, DOMAIN w)
      PROVE  c \in Seq(MessageSet) /\ Within(c, NextId)
  <2>1. Within(c, last_id)
    BY <1>2, WithinPart
  <2> QED BY <1>1, <1>2, <2>1, WithinWider
<1>3. c \in Seq(MessageSet) /\ Within(c, NextId)
  <2>1. CASE setting.strategy \in {"trim", "edit", "edit_calls"}
    <3>1. Rest(w, w, prefix, last_id, FALSE)
      BY PartSelf DEF Rest, PartOf
    <3>2. Rest(c, w, prefix, last_id, FALSE)
      BY <2>1, <3>1, CompactionsRest
    <3> QED BY <1>2, <3>2 DEF Rest, PartOf
  <2>4. CASE setting.strategy = "summary" /\ c = Summarize(w, last_id + 1)
    <3> DEFINE m == Summary(last_id + 1)
               o == Opening(w)
    <3>1. m \in MessageSet /\ m.id = last_id + 1
      BY PlainMessages
    <3>2. <<>> \in Seq(MessageSet) /\ Part(<<>>, ConversationOf(w), DOMAIN ConversationOf(w))
      BY PartEmpty
    <3>3. o \in Seq(MessageSet) /\ Part(o, w, DOMAIN w)
      BY <3>2, HeadJoined
    <3>4. Within(o, last_id)
      BY <3>3, WithinPart
    <3>5. Within(o, NextId)
      BY <1>1, <3>4, WithinWider
    <3>6. c = Append(o, m)
      BY <2>4, SummarizeIs
    <3> HIDE DEF m, o
    <3>7. c = o \o <<m>> /\ <<m>> \in Seq(MessageSet) /\ DOMAIN <<m>> = {1} /\ <<m>>[1] = m
      BY <3>1, <3>3, <3>6, FrontAppend
    <3>8. last_id + 1 \in -NextId..NextId
      BY <1>1, <2>4 DEF NextId
    <3>9. Within(<<m>>, NextId)
      BY <3>1, <3>7, <3>8 DEF Within
    <3>10. Within(o \o <<m>>, NextId) /\ o \o <<m>> \in Seq(MessageSet)
      BY <1>1, <3>3, <3>5, <3>7, <3>9, WithinJoin, Joined
    <3> QED BY <3>7, <3>10
  <2> QED BY <2>1, <2>4, CompactionKinds
<1>4. Restored(prefix, c) \in Seq(MessageSet) /\ Within(Restored(prefix, c), NextId)
  BY <1>1, <1>3, RestoredWithin
<1>5. Present(Restored(prefix, c), prefix)
  BY <1>3, RestoredPresent
<1> QED BY <1>4, <1>5, PreservedIs

(* The strategies keep it good, unless a message at the start is edited.   *)
LEMMA CompactedGood ==
  ASSUME setting.strategy \in {"trim", "edit", "edit_calls", "summary"},
         setting.strategy \in {"edit", "edit_calls"} \/ (setting.strategy = "trim" /\ setting.memory)
           => Len(prefix) = 2,
         IsStart(prefix), last_id \in Nat, last_id >= Len(prefix),
         NEW w, Good(w, {}, last_id), Marked(w, prefix), Present(w, prefix),
         NEW c \in Compactions(w)
  PROVE  /\ Good(Preserved(c), {}, NextId)
         /\ Marked(Preserved(c), prefix) /\ Present(Preserved(c), prefix)
<1>1. w \in Seq(MessageSet) /\ HasInput(w)
  BY PresentInput DEF Good
<1>2. ASSUME setting.strategy # "summary", c \in Seq(MessageSet), Part(c, w, DOMAIN w),
             Closed(c, {}), Marked(c, prefix)
      PROVE  /\ Good(Preserved(c), {}, NextId)
             /\ Marked(Preserved(c), prefix) /\ Present(Preserved(c), prefix)
  <2>1. NextId = last_id
    BY <1>2 DEF NextId
  <2>2. /\ Good(Restored(prefix, c), {}, last_id)
        /\ Marked(Restored(prefix, c), prefix) /\ Present(Restored(prefix, c), prefix)
    BY <1>2, RestoredGood
  <2> QED BY <2>1, <2>2, PreservedIs
<1>3. CASE setting.strategy \in {"trim", "edit", "edit_calls"}
  <2>1. Rest(w, w, prefix, last_id, TRUE)
    BY <1>1, PartSelf DEF Rest, PartOf, Fits
  <2>2. Rest(c, w, prefix, last_id, TRUE)
    <3>1. setting.strategy # "trim" \/ setting.memory => Len(prefix) = 2
      BY <1>3
    <3> QED BY <1>1, <1>3, <2>1, <3>1, CompactionsRest
  <2>3. c \in Seq(MessageSet) /\ Part(c, w, DOMAIN w) /\ Closed(c, {}) /\ Marked(c, prefix)
    BY <2>2 DEF Rest, Fits, PartOf, Good
  <2> QED BY <1>2, <1>3, <2>3
<1>6. CASE setting.strategy = "summary" /\ c = Summarize(w, last_id + 1)
  <2> DEFINE m == Summary(last_id + 1)
             o == Opening(w)
             r == Restored(prefix, o)
  <2>1. /\ Len(prefix) \in Nat /\ DOMAIN prefix = 1..Len(prefix)
        /\ NextId = last_id + 1
    BY <1>6, StartMessages DEF NextId
  <2>2. m \in MessageSet /\ m.id = last_id + 1 /\ m.calls = <<>> /\ m.role # "tool"
    <3>1. m \in MessageSet /\ m.id = last_id + 1 /\ m.calls = <<>> /\ m.call = NoCall
      BY PlainMessages
    <3> QED BY <3>1, MessageFields
  <2>3. <<>> \in Seq(MessageSet) /\ Part(<<>>, ConversationOf(w), DOMAIN ConversationOf(w))
    BY PartEmpty
  <2>4. o \in Seq(MessageSet) /\ Part(o, w, DOMAIN w)
    BY <1>1, <2>3, HeadJoined
  <2>5. Closed(o, {}) /\ Marked(o, prefix)
    BY <1>1, HeadPlain, OpeningMarked
  <2>6. Good(r, {}, last_id) /\ Marked(r, prefix) /\ Present(r, prefix)
    BY <2>4, <2>5, RestoredGood
  <2>7. r \in Seq(MessageSet)
    BY <2>6 DEF Good
  <2>8. c = Append(o, m)
    BY <1>1, <1>6, SummarizeIs
  <2> HIDE DEF m, o
  <2>9. Restored(prefix, Append(o, m)) = Append(r, m)
    <3>1. m.id \notin DOMAIN prefix
      BY <2>1, <2>2
    <3> QED BY <2>2, <2>4, <3>1, RestoredAppend
  <2> HIDE DEF r
  <2>10. /\ Append(r, m) = r \o <<m>> /\ <<m>> \in Seq(MessageSet)
         /\ DOMAIN <<m>> = {1} /\ <<m>>[1] = m
    BY <2>2, <2>7, FrontAppend
  <2>11. Marked(r \o <<m>>, prefix) /\ Present(r \o <<m>>, prefix)
    <3>1. \A i \in DOMAIN <<m>> : <<m>>[i].id > last_id
      BY <2>2, <2>10
    <3> QED BY <2>6, <2>7, <2>10, <3>1, StartKept
  <2>12. Good(Append(r, m), {}, last_id + 1)
    <3>1. ToSet(m.calls) = {}
      BY <2>2 DEF ToSet
    <3>2. m.id \in last_id + 1..last_id + 1 /\ last_id + 1 \in Nat /\ last_id <= last_id + 1
      BY <2>2
    <3>3. Good(Append(r, m), {} \cup ToSet(m.calls), last_id + 1)
      BY <2>2, <2>6, <3>1, <3>2, SaidGood
    <3> QED BY <3>1, <3>3
  <2>13. Preserved(c) = Append(r, m)
    BY <2>8, <2>9, PreservedIs
  <2> QED BY <2>1, <2>10, <2>11, <2>12, <2>13
<1> QED BY <1>3, <1>6, CompactionKinds

-----------------------------------------------------------------------------
(* Steps that add to the history                                           *)

ScalarsOK ==
  /\ setting \in Settings
  /\ pc \in {"input", "model", "overflow", "tools", "submitted", "continue"} \cup Over
  /\ called \in BOOLEAN /\ attempts \in 0..setting.attempts /\ turns \in 0..MaxTurns
  /\ settled \in Nat

(* Every setting starts with a conversation as IsStart has it.             *)
LEMMA StartIs ==
  ASSUME NEW s \in Settings, NEW p, p = StartOf(s.handed_off)
  PROVE  IsStart(p) /\ Len(p) \in {2, 6}
<1>1. s.handed_off \in BOOLEAN
  BY ReactAssumption DEF Setting
<1>2. IsStart(p)
  BY <1>1 DEF IsStart
<1> QED BY <1>2, StartMessages

(* Where an edit would reach the messages at the start there is no handoff. *)
LEMMA StartLength ==
  ASSUME HistoryInv, ~PrefixEdited, setting \in Setting
  PROVE  setting.strategy \in {"edit", "edit_calls"} \/ (setting.strategy = "trim" /\ setting.memory)
           => Len(prefix) = 2
<1>1. setting.handed_off \in BOOLEAN
  BY DEF Setting
<1> QED BY <1>1 DEF HistoryInv, PrefixEdited, StartOf

(* What the arguments of react() are                                       *)
LEMMA SettingOf ==
  ASSUME setting \in Settings
  PROVE  /\ setting \in Setting /\ setting.attempts \in Nat \ {0}
         /\ setting.strategy \in {"none", "trim", "edit", "edit_calls", "summary"}
         /\ setting.handed_off \in BOOLEAN /\ setting.hook \in BOOLEAN /\ setting.memory \in BOOLEAN
         /\ setting.submit \in {"removed", "kept", "off"}
<1>1. setting \in Setting /\ setting.attempts > 0
  BY ReactAssumption
<1> QED BY <1>1 DEF Setting

(* While the agent runs, all ids are known. *)
LEMMA RunningIds ==
  ASSUME NEW n \in Nat, NEW kept \in Seq(MessageSet), Within(kept, n),
         NEW m, m = kept \/ m = Append(kept, Assistant(n + 1, <<>>)),
         NEW p, IsStart(p), n >= Len(p), NEW c, Within(c, n), NEW d, Within(d, n)
  PROVE  \A list \in {m, p, c, d} : \A i \in DOMAIN list : list[i].id \in -n..n + 1
<1>1. ASSUME NEW list, Within(list, n), NEW i \in DOMAIN list
      PROVE  list[i].id \in -n..n + 1
  <2>1. list[i].id \in -n..n
    BY <1>1 DEF Within
  <2> QED BY <2>1
<1>2. ASSUME m = Append(kept, Assistant(n + 1, <<>>))
      PROVE  \A i \in DOMAIN m : m[i].id \in -n..n + 1
  <2> DEFINE a == Assistant(n + 1, <<>>)
  <2>1. a \in MessageSet /\ a.id = n + 1
    <3>1. <<>> \in Seq(CallSet) /\ n + 1 \in Int
      OBVIOUS
    <3> QED BY <3>1, AssistantMessage
  <2>2. m = Append(kept, a)
    BY <1>2
  <2> HIDE DEF a
  <2>3. ASSUME NEW i \in DOMAIN m PROVE m[i].id \in -n..n + 1
    <3>1. \/ i \in DOMAIN kept /\ m[i] = kept[i]
          \/ m[i] = a
      BY <2>1, <2>2, Appended
    <3>2. i \in DOMAIN kept => kept[i].id \in -n..n + 1
      BY <1>1
    <3> QED BY <2>1, <3>1, <3>2
  <2> QED BY <2>3
<1>3. \A i \in DOMAIN m : m[i].id \in -n..n + 1
  BY <1>1, <1>2
<1>4. ASSUME NEW i \in DOMAIN p PROVE p[i].id \in -n..n + 1
  <2>1. p[i].id = i /\ i \in 1..Len(p) /\ Len(p) \in Nat
    BY StartMessages
  <2> QED BY <2>1
<1> QED BY <1>1, <1>3, <1>4

(* The type invariant from the parts of Inv                                *)
LEMMA RunningType ==
  ASSUME ScalarsOK', HistoryInv', ListsInv'
  PROVE  TypeOK'
<1>1. last_id' \in Nat /\ Within(compacted', last_id') /\ Within(input', last_id')
  BY DEF ListsInv
<1>2. Within(Kept', last_id') /\ Kept' \in Seq(MessageSet)
  BY GoodWithin DEF HistoryInv
<1>3. messages' = Kept' \/ messages' = Append(Kept', Assistant(last_id' + 1, <<>>))
  BY DEF HistoryInv, Kept
<1>4. IsStart(prefix') /\ last_id' >= Len(prefix')
  <2>1. setting' \in Settings /\ prefix' = StartOf(setting'.handed_off) /\ last_id' >= Len(prefix')
    BY DEF ScalarsOK, HistoryInv
  <2> QED BY <2>1, StartIs
<1>5. \A list \in {messages', prefix', compacted', input'} :
        \A i \in DOMAIN list : list[i].id \in -last_id'..last_id' + 1
  BY <1>1, <1>2, <1>3, <1>4, RunningIds
<1>6. warned' \in BOOLEAN
  BY DEF ListsInv
<1> QED BY <1>5, <1>6 DEF TypeOK, ScalarsOK

(* The lists of messages, and the ids in them                              *)
LEMMA WholeSeq ==
  ASSUME HistoryInv, ListsInv
  PROVE  /\ Kept \in Seq(MessageSet) /\ UnseenOf(Kept, processed) \in Seq(MessageSet)
         /\ Whole \in Seq(MessageSet) /\ Within(Kept, last_id) /\ Within(Whole, last_id)
<1>1. Kept \in Seq(MessageSet) /\ Within(Kept, last_id)
  BY GoodWithin DEF HistoryInv
<1>2. last_id \in Nat /\ compacted \in Seq(MessageSet) /\ Within(compacted, last_id)
  BY DEF ListsInv
<1> DEFINE u == UnseenOf(Kept, processed)
<1>3. u \in Seq(MessageSet) /\ Part(u, Kept, DOMAIN Kept)
  BY <1>1, UnseenPart
<1>4. Within(u, last_id)
  BY <1>1, <1>2, <1>3, WithinPart
<1>5. compacted \o u \in Seq(MessageSet) /\ Within(compacted \o u, last_id)
  BY <1>2, <1>3, <1>4, WithinJoin, Joined
<1> QED BY <1>1, <1>3, <1>5 DEF Whole

(* What a step adds to the history it adds to what stands for it, too. *)
Added(new) ==
  /\ new \in Seq(MessageSet) /\ Kept' = Kept \o new
  /\ last_id' \in Nat /\ last_id' >= last_id
  /\ \A i \in DOMAIN new : new[i].id > last_id /\ new[i].origin # "warning"
  /\ \A list : Good(list, Open, last_id) => Good(list \o new, Open', last_id')

(* Intervals of ids                                                        *)
LEMMA Wider ==
  ASSUME NEW n \in Nat, NEW k \in Nat, k >= n
  PROVE  -n..n \subseteq -k..k
OBVIOUS

(* Joining is associative.                                                 *)
LEMMA JoinThen ==
  ASSUME NEW S, NEW p \in Seq(S), NEW q \in Seq(S), NEW r \in Seq(S)
  PROVE  p \o (q \o r) = (p \o q) \o r
OBVIOUS

(* What is added to the history is added to what stands for it.            *)
LEMMA WholeGrows ==
  ASSUME NEW kept \in Seq(MessageSet), NEW new \in Seq(MessageSet), NEW P,
         \A i \in DOMAIN new : new[i].id \notin P, NEW c \in Seq(MessageSet)
  PROVE  c \o UnseenOf(kept \o new, P) = (c \o UnseenOf(kept, P)) \o new
<1>1. UnseenOf(kept \o new, P) = UnseenOf(kept, P) \o new
  BY UnseenGrows
<1>2. UnseenOf(kept, P) \in Seq(MessageSet)
  BY UnseenPart
<1> QED BY <1>1, <1>2, JoinThen, SMTT(20)

(* A step that adds messages keeps what Inv says of the lists.             *)
LEMMA Growing ==
  ASSUME setting \in Settings, settled \in Nat, LoopInv, NEW new, Added(new),
         UNCHANGED <<setting, prefix, compactVars, settled>>,
         pc' # "model", pc' = "overflow" => pc = "model" /\ new = <<>>
  PROVE  /\ Good(Kept', Open', last_id') /\ HasInput(Kept') /\ settled' <= Len(Kept')
         /\ prefix' = StartOf(setting'.handed_off) /\ last_id' >= Len(prefix')
         /\ ListsInv' /\ CompactedInv'
<1>1. new \in Seq(MessageSet) /\ Kept' = Kept \o new
  BY DEF Added
<1>12. last_id' \in Nat /\ last_id' >= last_id
  BY DEF Added
<1>13. /\ \A i \in DOMAIN new : new[i].id > last_id
       /\ \A i \in DOMAIN new : new[i].origin # "warning"
  BY DEF Added
<1>14. \A list : Good(list, Open, last_id) => Good(list \o new, Open', last_id')
  BY DEF Added
<1>2. HistoryInv /\ ListsInv /\ CompactedInv
  BY DEF LoopInv
<1>3. /\ Good(Kept, Open, last_id) /\ HasInput(Kept) /\ settled <= Len(Kept)
      /\ prefix = StartOf(setting.handed_off) /\ last_id >= Len(prefix)
  BY <1>2 DEF HistoryInv
<1>4. /\ last_id \in Nat /\ compacted \in Seq(MessageSet) /\ Within(compacted, last_id)
      /\ Within(input, last_id) /\ processed \subseteq -last_id..last_id /\ warned \in BOOLEAN
  BY <1>2 DEF ListsInv
<1>5. /\ setting' = setting /\ prefix' = prefix /\ compacted' = compacted
      /\ processed' = processed /\ input' = input /\ settled' = settled /\ warned' = warned
  BY DEF compactVars
<1>6. Kept \in Seq(MessageSet) /\ UnseenOf(Kept, processed) \in Seq(MessageSet)
      /\ Whole \in Seq(MessageSet)
  BY <1>2, WholeSeq
<1>7. Good(Kept', Open', last_id') /\ HasInput(Kept')
  BY <1>1, <1>3, <1>6, <1>14, InputKept
<1>8. settled' <= Len(Kept') /\ last_id' >= Len(prefix')
  <2>1. Len(Kept \o new) = Len(Kept) + Len(new) /\ Len(Kept) \in Nat /\ Len(new) \in Nat
    BY <1>1, <1>6
  <2>2. Len(prefix) \in Nat
    BY <1>3, StartIs
  <2> QED BY <1>1, <1>3, <1>4, <1>5, <1>12, <2>1, <2>2
<1>9. ListsInv'
  <2>1. Within(compacted, last_id') /\ Within(input, last_id')
    BY <1>4, <1>12, WithinWider
  <2>2. processed' \subseteq -last_id'..last_id'
    <3>1. -last_id..last_id \subseteq -last_id'..last_id'
      BY <1>4, <1>12, Wider
    <3> QED BY <1>4, <1>5, <3>1
  <2> QED BY <1>4, <1>5, <1>12, <2>1, <2>2 DEF ListsInv
<1>10. Whole' = Whole \o new
  <2>1. ASSUME NEW i \in DOMAIN new PROVE new[i].id \notin processed
    <3>1. new[i] \in MessageSet /\ new[i].id > last_id
      BY <1>1, <1>13
    <3>2. new[i].id \in Int
      BY <3>1, MessageFields
    <3> QED BY <1>4, <3>1, <3>2
  <2>2. new \in Seq(MessageSet) /\ Kept \in Seq(MessageSet) /\ compacted \in Seq(MessageSet)
    BY <1>1, <1>4, <1>6
  <2>3. compacted \o UnseenOf(Kept \o new, processed)
          = (compacted \o UnseenOf(Kept, processed)) \o new
    BY <2>1, <2>2, WholeGrows
  <2> QED BY <1>1, <1>5, <2>3 DEF Whole
<1>11. IsStart(prefix)
  BY <1>3, StartIs
<1>15. ASSUME SinceInv PROVE SinceInv'
  <2>1. Present(Whole, prefix) /\ EndsWith(Kept, Unwarned(Whole), settled)
    BY <1>15 DEF SinceInv
  <2>2. Present(Whole', prefix)
    <3>1. \A i \in DOMAIN Whole : i \in DOMAIN (Whole \o new) /\ (Whole \o new)[i] = Whole[i]
      BY <1>1, <1>6, Joined
    <3>2. Present(Whole \o new, prefix)
      BY <2>1, <3>1 DEF Present
    <3> QED BY <1>10, <3>2
  <2>3. EndsWith(Kept', Unwarned(Whole'), settled)
    <3> DEFINE u == Unwarned(Whole)
    <3>1. u \in Seq(MessageSet)
      BY <1>6, AtEnum DEF Unwarned
    <3>2. Unwarned(Whole \o new) = u \o new
      BY <1>1, <1>6, <1>13, UnwarnedGrows
    <3>3. EndsWith(Kept, u, settled)
      BY <2>1
    <3> HIDE DEF u
    <3>4. EndsWith(Kept \o new, u \o new, settled)
      BY <1>1, <1>3, <1>6, <3>1, <3>3, EndsGrow
    <3> QED BY <1>1, <1>10, <3>2, <3>4
  <2>4. ASSUME pc' \in {"model", "overflow"} PROVE Ids(Kept') \subseteq processed'
    <3>1. pc = "model" /\ new = <<>>
      BY <2>4
    <3>2. Kept' = Kept
      BY <1>1, <1>6, <3>1
    <3>3. Ids(Kept) \subseteq processed
      BY <1>15, <3>1 DEF SinceInv
    <3> QED BY <1>5, <3>2, <3>3
  <2> QED BY <1>5, <2>2, <2>3, <2>4 DEF SinceInv
<1>16. ASSUME CompactInv, SinceInv PROVE CompactInv'
  <2>1. Good(Whole, Open, last_id) /\ Marked(Whole, prefix) /\ Present(Whole, prefix)
    BY <1>16 DEF CompactInv, SinceInv
  <2>2. Good(Whole', Open', last_id')
    BY <1>10, <1>14, <2>1
  <2>3. \A i \in DOMAIN new : new[i].id > last_id
    BY <1>13
  <2>4. Marked(Whole \o new, prefix)
    BY <1>1, <1>3, <1>4, <1>6, <1>11, <2>1, <2>3, StartKept
  <2> QED BY <1>5, <1>10, <2>2, <2>4 DEF CompactInv
<1>17. CompactedInv'
  <2>1. (PrefixEdited' <=> PrefixEdited) /\ setting' = setting
    BY <1>5 DEF PrefixEdited
  <2>2. setting.strategy # "none" => SinceInv /\ (~PrefixEdited => CompactInv)
    BY <1>2 DEF CompactedInv
  <2>3. setting'.strategy # "none" => SinceInv' /\ (~PrefixEdited' => CompactInv')
    BY <1>15, <1>16, <2>1, <2>2
  <2> QED BY <2>3 DEF CompactedInv
<1> QED BY <1>3, <1>5, <1>7, <1>8, <1>9, <1>17

-----------------------------------------------------------------------------
(* The steps keep the invariant: the model answers                         *)

(* A step after which the agent goes on *)
LEMMA GoesOn ==
  ASSUME ScalarsOK', HistoryInv', ListsInv', CompactedInv', pc' # "done"
  PROVE  Inv'
<1>1. TypeOK'
  BY RunningType
<1> QED BY <1>1 DEF Inv, FinalHistory, LoopInv

(* What Inv says of an agent that is running                               *)
LEMMA FromInv ==
  ASSUME Inv, Running
  PROVE  ScalarsOK /\ LoopInv /\ HistoryInv /\ ListsInv /\ CompactedInv
BY DEF Inv, FinalHistory, TypeOK, ScalarsOK, LoopInv

(* Generate: the calls of the turn are open.                               *)
LEMMA GenerateStep ==
  ASSUME Inv, Generate
  PROVE  Inv'
<1>1. Running
  BY DEF Generate, Running, Over
<1>2. ScalarsOK /\ LoopInv /\ HistoryInv /\ ListsInv
  BY <1>1, FromInv
<1>3. PICK turn \in Turns :
        /\ messages' = Append(messages,
                         Assistant(last_id + 1, [n \in DOMAIN turn |-> Call(last_id + n, turn[n])]))
        /\ last_id' = last_id + 1 + Len(turn)
        /\ called' = (turn # <<>>)
  BY DEF Generate
<1> DEFINE calls == [n \in DOMAIN turn |-> Call(last_id + n, turn[n])]
           m == Assistant(last_id + 1, calls)
           new == <<m>>
<1>4. /\ last_id \in Nat /\ turn \in Seq(STRING) /\ DOMAIN turn = 1..Len(turn) /\ Len(turn) \in Nat
  BY <1>2, ReactAssumption DEF ListsInv
<1>5. ASSUME NEW n \in DOMAIN turn
      PROVE  calls[n] \in CallSet /\ calls[n].id = last_id + n
  <2>1. turn[n] \in Functions
    BY DEF Functions, ToSet
  <2>2. last_id + n \in Nat \ {0}
    BY <1>4
  <2> QED BY <2>1, <2>2, CallMade
<1>6. calls \in Seq(CallSet) /\ DOMAIN calls = DOMAIN turn /\ Len(calls) = Len(turn)
  <2>1. calls \in [1..Len(turn) -> CallSet] /\ DOMAIN calls = DOMAIN turn
    BY <1>4, <1>5
  <2> QED BY <1>4, <2>1
<1>7. /\ m \in MessageSet /\ m.id = last_id + 1 /\ m.role = "assistant" /\ m.calls = calls
      /\ m.origin = "run"
  <2>1. last_id + 1 \in Int
    BY <1>4
  <2> HIDE DEF calls
  <2> QED BY <1>6, <2>1, AssistantMessage
<1>8. messages' = Append(messages, m)
  BY <1>3
<1> HIDE DEF m
<1>9. /\ pc = "model" /\ turns < MaxTurns
      /\ pc' = IF called' THEN "tools" ELSE "continue"
      /\ turns' = turns + 1
      /\ UNCHANGED <<setting, prefix, compactVars, attempts, settled>>
  BY DEF Generate
<1>10. Kept = messages /\ Kept' = messages' /\ Open = {}
  BY <1>9 DEF Kept, Open
<1>11. messages \in Seq(MessageSet)
  BY <1>2, <1>10, GoodWithin DEF HistoryInv
<1>12. /\ messages' = messages \o new /\ Last(messages') = m /\ messages' # <<>>
       /\ new \in Seq(MessageSet) /\ DOMAIN new = {1} /\ new[1] = m
  BY <1>7, <1>8, <1>11, FrontAppend
<1>13. called' = (calls # <<>>)
  BY <1>3, <1>4, <1>6
<1>14. Open' = ToSet(m.calls)
  <2>1. CASE called'
    BY <1>9, <1>12, <2>1 DEF Open
  <2>2. CASE ~called'
    <3>1. ToSet(m.calls) = {}
      <4>1. m.calls = <<>>
        BY <1>7, <1>13, <2>2
      <4> QED BY <4>1 DEF ToSet
    <3> QED BY <1>9, <2>2, <3>1 DEF Open
  <2> QED BY <2>1, <2>2
<1>15. \A c \in ToSet(calls) : c.id \in last_id + 1..last_id'
  <2>1. ASSUME NEW c \in ToSet(calls) PROVE c.id \in last_id + 1..last_id'
    <3>1. PICK n \in DOMAIN turn : c = calls[n]
      BY <1>6, <2>1 DEF ToSet
    <3> QED BY <1>3, <1>4, <1>5, <3>1
  <2> QED BY <2>1
<1>16. \A n, k \in DOMAIN calls : calls[n].id = calls[k].id => n = k
  <2>1. ASSUME NEW n \in DOMAIN calls, NEW k \in DOMAIN calls, calls[n].id = calls[k].id
        PROVE  n = k
    <3>1. calls[n].id = last_id + n /\ calls[k].id = last_id + k
      BY <1>5, <1>6
    <3> QED BY <1>4, <1>6, <2>1, <3>1
  <2> QED BY <2>1
<1>17. \A c, d \in ToSet(calls) : c.id = d.id => c = d
  BY <1>16 DEF ToSet
<1> HIDE DEF calls, new
<1>18. last_id' \in Nat /\ last_id' >= last_id + 1
  BY <1>3, <1>4
<1>19. ASSUME NEW list, Good(list, Open, last_id)
       PROVE  Good(list \o new, Open', last_id')
  <2>1. Good(Append(list, m), {} \cup ToSet(m.calls), last_id')
    <3>1. m.id \in last_id + 1..last_id' /\ last_id <= last_id' /\ m.role # "tool"
      BY <1>4, <1>7, <1>18
    <3>2. Good(list, {}, last_id)
      BY <1>10, <1>19
    <3>3. \A c \in ToSet(m.calls) : c.id \in last_id + 1..last_id'
      BY <1>7, <1>15
    <3>4. \A c, d \in ToSet(m.calls) : c.id = d.id => c = d
      BY <1>7, <1>17
    <3> QED BY <1>4, <1>7, <1>18, <3>1, <3>2, <3>3, <3>4, SaidGood
  <2>2. list \in Seq(MessageSet)
    BY <1>19 DEF Good
  <2>3. Append(list, m) = list \o new
    BY <1>7, <2>2, FrontAppend DEF new
  <2>4. {} \cup ToSet(m.calls) = Open'
    BY <1>14
  <2> QED BY <2>1, <2>3, <2>4
<1>20. Added(new)
  <2>1. \A i \in DOMAIN new : new[i].id > last_id /\ new[i].origin # "warning"
    BY <1>4, <1>7, <1>12
  <2>2. Kept' = Kept \o new /\ last_id' >= last_id
    BY <1>4, <1>10, <1>12, <1>18
  <2> QED BY <1>12, <1>18, <1>19, <2>1, <2>2 DEF Added
<1>21. pc' \notin {"model", "overflow", "done"}
  BY <1>9
<1>22. /\ Good(Kept', Open', last_id') /\ HasInput(Kept') /\ settled' <= Len(Kept')
       /\ prefix' = StartOf(setting'.handed_off) /\ last_id' >= Len(prefix')
       /\ ListsInv' /\ CompactedInv'
  <2>1. setting \in Settings /\ settled \in Nat
    BY <1>2 DEF ScalarsOK
  <2>2. UNCHANGED <<setting, prefix, compactVars, settled>>
    BY <1>9
  <2> QED BY <1>2, <1>20, <1>21, <2>1, <2>2, Growing
<1>23. HistoryInv'
  <2>1. pc' = "tools" => messages' # <<>> /\ \A n, k \in DOMAIN Last(messages').calls :
                           Last(messages').calls[n] = Last(messages').calls[k] => n = k
    BY <1>7, <1>12, <1>16
  <2>2. attempts' < setting'.attempts
    BY <1>2, <1>9 DEF HistoryInv
  <2> QED BY <1>21, <1>22, <2>1, <2>2 DEF HistoryInv
<1>24. ScalarsOK'
  <2>1. turns' \in 0..MaxTurns /\ called' \in BOOLEAN
    BY <1>2, <1>9, <1>13, ReactAssumption DEF ScalarsOK
  <2> QED BY <1>2, <1>9, <2>1 DEF ScalarsOK
<1> QED BY <1>21, <1>22, <1>23, <1>24, GoesOn

-----------------------------------------------------------------------------
(* Tools, submissions and what a user says                                 *)

(* GenerateOverflows: the history is the list without its last message.    *)
LEMMA GenerateOverflowsStep ==
  ASSUME Inv, GenerateOverflows
  PROVE  Inv'
<1>1. Running
  BY DEF GenerateOverflows, Running, Over
<1>2. ScalarsOK /\ LoopInv /\ HistoryInv /\ ListsInv
  BY <1>1, FromInv
<1>3. /\ pc = "model" /\ pc' = "overflow" /\ called' = FALSE
      /\ messages' = Append(messages, Assistant(last_id + 1, <<>>))
      /\ UNCHANGED <<setting, prefix, compactVars, attempts, turns, last_id, settled>>
  BY DEF GenerateOverflows
<1>4. last_id \in Nat
  BY <1>2 DEF ListsInv
<1>5. Kept = messages /\ Open = {} /\ Open' = {} /\ Kept' = Front(messages')
  BY <1>3 DEF Kept, Open
<1>6. messages \in Seq(MessageSet)
  BY <1>2, <1>5, GoodWithin DEF HistoryInv
<1>7. Assistant(last_id + 1, <<>>) \in MessageSet
  <2>1. <<>> \in Seq(CallSet) /\ last_id + 1 \in Int
    BY <1>4
  <2> QED BY <2>1, AssistantMessage
<1>8. Kept' = Kept
  BY <1>3, <1>5, <1>6, <1>7, FrontAppend
<1>9. Added(<<>>)
  <2>1. Kept = Kept \o <<>> /\ <<>> \in Seq(MessageSet)
    BY <1>5, <1>6
  <2>2. \A list : Good(list, Open, last_id) => Good(list \o <<>>, Open', last_id')
    BY <1>3, <1>5, GoodSame
  <2>3. \A i \in DOMAIN <<>> : <<>>[i].id > last_id /\ <<>>[i].origin # "warning"
    OBVIOUS
  <2> QED BY <1>3, <1>4, <1>8, <2>1, <2>2, <2>3 DEF Added
<1>10. /\ Good(Kept', Open', last_id') /\ HasInput(Kept') /\ settled' <= Len(Kept')
       /\ prefix' = StartOf(setting'.handed_off) /\ last_id' >= Len(prefix')
       /\ ListsInv' /\ CompactedInv'
  <2>1. setting \in Settings /\ settled \in Nat
    BY <1>2 DEF ScalarsOK
  <2>2. UNCHANGED <<setting, prefix, compactVars, settled>>
    BY <1>3
  <2> QED BY <1>2, <1>3, <1>9, <2>1, <2>2, Growing
<1>11. HistoryInv'
  <2>1. messages' = Append(Kept', Assistant(last_id' + 1, <<>>))
    BY <1>3, <1>5, <1>8
  <2>2. attempts' < setting'.attempts
    BY <1>2, <1>3 DEF HistoryInv
  <2> QED BY <1>3, <1>10, <2>1, <2>2 DEF HistoryInv
<1>12. ScalarsOK'
  BY <1>2, <1>3 DEF ScalarsOK
<1> QED BY <1>3, <1>10, <1>11, <1>12, GoesOn

(* ExecuteTools: all open calls are answered.                              *)
LEMMA ExecuteToolsStep ==
  ASSUME Inv, ExecuteTools
  PROVE  Inv'
<1>1. Running
  BY DEF ExecuteTools, Running, Over
<1>2. ScalarsOK /\ LoopInv /\ HistoryInv /\ ListsInv
  BY <1>1, FromInv
<1> DEFINE calls == Last(messages).calls
           new == Answers(calls)
<1>3. /\ pc = "tools" /\ pc' \in {"continue", "submitted"} /\ called' \in BOOLEAN
      /\ messages' = messages \o new /\ last_id' = last_id + Len(new)
      /\ UNCHANGED <<setting, prefix, compactVars, attempts, turns, settled>>
  BY DEF ExecuteTools
<1>4. last_id \in Nat
  BY <1>2 DEF ListsInv
<1>5. Kept = messages /\ Open = ToSet(calls) /\ Open' = {} /\ Kept' = messages'
  BY <1>3 DEF Kept, Open
<1>6. messages \in Seq(MessageSet) /\ messages # <<>>
      /\ \A n, k \in DOMAIN calls : calls[n] = calls[k] => n = k
  BY <1>2, <1>3, <1>5, GoodWithin DEF HistoryInv
<1>7. calls \in Seq(CallSet)
  <2>1. Last(messages) \in MessageSet
    BY <1>6 DEF Last
  <2> QED BY <2>1, MessageFields
<1> HIDE DEF calls
<1>8. ASSUME NEW list, Good(list, Open, last_id)
      PROVE  /\ new \in Seq(MessageSet) /\ Numbered(new, last_id)
             /\ Good(list \o new, Open', last_id')
  <2>1. Good(list, ToSet(calls), last_id)
    BY <1>5, <1>8
  <2>2. /\ new \in Seq(MessageSet) /\ Numbered(new, last_id)
        /\ Good(list \o new, {}, last_id + Len(new))
    BY <1>4, <1>6, <1>7, <2>1, AnswersGood
  <2> QED BY <1>3, <1>5, <2>2
<1>9. new \in Seq(MessageSet) /\ Numbered(new, last_id)
  <2>1. Good(Kept, Open, last_id)
    BY <1>2 DEF HistoryInv
  <2> QED BY <1>8, <2>1
<1> HIDE DEF new
<1>10. Added(new)
  <2>1. \A i \in DOMAIN new : new[i].id > last_id /\ new[i].origin # "warning"
    BY <1>4, <1>9 DEF Numbered
  <2>2. last_id' \in Nat /\ last_id' >= last_id
    BY <1>3, <1>4, <1>9
  <2> QED BY <1>3, <1>5, <1>8, <1>9, <2>1, <2>2 DEF Added
<1>11. /\ Good(Kept', Open', last_id') /\ HasInput(Kept') /\ settled' <= Len(Kept')
       /\ prefix' = StartOf(setting'.handed_off) /\ last_id' >= Len(prefix')
       /\ ListsInv' /\ CompactedInv'
  <2>1. setting \in Settings /\ settled \in Nat
    BY <1>2 DEF ScalarsOK
  <2>2. UNCHANGED <<setting, prefix, compactVars, settled>>
    BY <1>3
  <2>3. pc' # "model" /\ pc' # "overflow"
    BY <1>3
  <2> QED BY <1>2, <1>10, <2>1, <2>2, <2>3, Growing
<1>12. HistoryInv'
  <2>1. attempts' < setting'.attempts
    BY <1>2, <1>3 DEF HistoryInv
  <2> QED BY <1>3, <1>11, <2>1 DEF HistoryInv
<1>13. ScalarsOK'
  BY <1>2, <1>3 DEF ScalarsOK
<1> QED BY <1>3, <1>11, <1>12, <1>13, GoesOn

(* A user has a say. *)
LEMMA UserAdded ==
  ASSUME HistoryInv, ListsInv, pc \notin {"overflow", "tools"}, pc' \notin {"overflow", "tools"},
         SayUser
  PROVE  Added(<<User(last_id + 1)>>)
<1> DEFINE m == User(last_id + 1)
           new == <<m>>
<1>1. messages' = Append(messages, m) /\ last_id' = last_id + 1
  BY DEF SayUser
<1>2. last_id \in Nat
  BY DEF ListsInv
<1>3. Kept = messages /\ Open = {} /\ Open' = {} /\ Kept' = messages'
  BY DEF Kept, Open
<1>4. messages \in Seq(MessageSet)
  BY <1>3, GoodWithin DEF HistoryInv
<1>5. /\ m \in MessageSet /\ m.id = last_id + 1 /\ m.calls = <<>> /\ m.role # "tool"
      /\ m.origin # "warning"
  <2>1. m \in MessageSet /\ m.id = last_id + 1 /\ m.calls = <<>> /\ m.call = NoCall
    BY <1>2, PlainMessages
  <2>2. m.origin # "warning"
    BY NoWarnings
  <2> QED BY <2>1, <2>2, MessageFields
<1>6. ToSet(m.calls) = {}
  BY <1>5 DEF ToSet
<1> HIDE DEF m
<1>7. messages' = messages \o new /\ new \in Seq(MessageSet) /\ DOMAIN new = {1} /\ new[1] = m
  BY <1>1, <1>4, <1>5, FrontAppend
<1> HIDE DEF new
<1>8. last_id' \in Nat /\ last_id' >= last_id /\ m.id \in last_id + 1..last_id'
  BY <1>1, <1>2, <1>5
<1>9. ASSUME NEW list, Good(list, Open, last_id)
      PROVE  Good(list \o new, Open', last_id')
  <2>1. Good(Append(list, m), {} \cup ToSet(m.calls), last_id')
    <3>1. Good(list, {}, last_id)
      BY <1>3, <1>9
    <3> QED BY <1>2, <1>5, <1>6, <1>8, <3>1, SaidGood
  <2>2. list \in Seq(MessageSet)
    BY <1>9 DEF Good
  <2>3. Append(list, m) = list \o new
    BY <1>5, <2>2, FrontAppend DEF new
  <2>4. {} \cup ToSet(m.calls) = Open'
    BY <1>3, <1>6
  <2> QED BY <2>1, <2>3, <2>4
<1>10. \A i \in DOMAIN new : new[i].id > last_id /\ new[i].origin # "warning"
  BY <1>2, <1>5, <1>7
<1>11. Added(new)
  BY <1>3, <1>7, <1>8, <1>9, <1>10 DEF Added
<1> QED BY <1>11 DEF new, m

(* A user says something, or nobody does, and the loop goes on.            *)
LEMMA SaidInv ==
  ASSUME HistoryInv, ListsInv, LoopInv, ScalarsOK,
         pc \in {"submitted", "continue"}, pc' \in {"continue", "input"},
         SayUser \/ UNCHANGED <<messages, last_id>>,
         UNCHANGED <<setting, prefix, compactVars, called, turns, settled>>,
         attempts' \in 0..setting.attempts - 1
  PROVE  Inv'
<1>1. /\ UNCHANGED <<setting, prefix, compactVars, settled>>
      /\ setting \in Settings /\ settled \in Nat /\ setting.attempts \in Nat
  BY ReactAssumption DEF ScalarsOK, Setting
<1>2. \E new : Added(new)
  <2>1. CASE SayUser
    BY <2>1, UserAdded
  <2>2. CASE UNCHANGED <<messages, last_id>>
    <3>1. Kept = messages /\ Open = {} /\ Open' = {} /\ Kept' = messages'
      BY DEF Kept, Open
    <3>2. messages \in Seq(MessageSet)
      BY <3>1, GoodWithin DEF HistoryInv
    <3>3. Kept' = Kept \o <<>> /\ <<>> \in Seq(MessageSet)
      BY <2>2, <3>1, <3>2
    <3>4. \A list : Good(list, Open, last_id) => Good(list \o <<>>, Open', last_id')
      BY <2>2, <3>1, GoodSame
    <3>5. \A i \in DOMAIN <<>> : <<>>[i].id > last_id /\ <<>>[i].origin # "warning"
      OBVIOUS
    <3>6. last_id' \in Nat /\ last_id' >= last_id
      BY <2>2 DEF ListsInv
    <3>7. Added(<<>>)
      BY <3>3, <3>4, <3>5, <3>6 DEF Added
    <3> QED BY <3>7
  <2> QED BY <2>1, <2>2
<1>3. PICK new : Added(new)
  BY <1>2
<1>4. /\ Good(Kept', Open', last_id') /\ HasInput(Kept') /\ settled' <= Len(Kept')
      /\ prefix' = StartOf(setting'.handed_off) /\ last_id' >= Len(prefix')
      /\ ListsInv' /\ CompactedInv'
  <2>1. pc' # "model" /\ pc' # "overflow"
    OBVIOUS
  <2> QED BY <1>1, <1>3, <2>1, Growing
<1>5. HistoryInv'
  <2>1. attempts' < setting'.attempts
    BY <1>1
  <2>2. pc' # "tools" /\ pc' # "overflow"
    OBVIOUS
  <2> QED BY <1>4, <2>1, <2>2 DEF HistoryInv
<1>6. ScalarsOK'
  <2>1. attempts' \in 0..setting'.attempts
    BY <1>1
  <2> QED BY <2>1 DEF ScalarsOK
<1>7. pc' # "done"
  OBVIOUS
<1> QED BY <1>4, <1>5, <1>6, <1>7, GoesOn

(* SubmitIncorrect                                                         *)
LEMMA SubmitIncorrectStep ==
  ASSUME Inv, SubmitIncorrect
  PROVE  Inv'
<1>1. Running
  BY DEF SubmitIncorrect, Running, Over
<1>2. ScalarsOK /\ LoopInv /\ HistoryInv /\ ListsInv
  BY <1>1, FromInv
<1>3. /\ pc = "submitted" /\ pc' = "continue" /\ SayUser
      /\ attempts' = attempts + 1 /\ attempts' < setting.attempts
      /\ UNCHANGED <<setting, prefix, compactVars, called, turns, settled>>
  BY DEF SubmitIncorrect
<1>4. attempts' \in 0..setting.attempts - 1
  BY <1>2, <1>3, ReactAssumption DEF ScalarsOK, Setting
<1> QED BY <1>2, <1>3, <1>4, SaidInv

(* Continue                                                                *)
LEMMA ContinueStep ==
  ASSUME Inv, Continue
  PROVE  Inv'
<1>1. Running
  BY DEF Continue, Running, Over
<1>2. ScalarsOK /\ LoopInv /\ HistoryInv /\ ListsInv
  BY <1>1, FromInv
<1>3. /\ pc = "continue" /\ pc' = "input" /\ (SayUser \/ UNCHANGED <<messages, last_id>>)
      /\ UNCHANGED <<setting, prefix, compactVars, called, attempts, turns, settled>>
  BY DEF Continue
<1>4. attempts' \in 0..setting.attempts - 1
  BY <1>2, <1>3, ReactAssumption DEF ScalarsOK, Setting, HistoryInv
<1> QED BY <1>2, <1>3, <1>4, SaidInv

-----------------------------------------------------------------------------
(* What the model is given                                                 *)

(* compact_fn() looks for the messages that are new to it.                 *)
LEMMA UnprocessedIs ==
  Unprocessed = UnseenOf(messages, processed)
BY DEF Unprocessed, UnseenOf

(* The ids of a list that is within a bound                                *)
LEMMA IdsWithin ==
  ASSUME NEW s, NEW n, Within(s, n)
  PROVE  Ids(s) \subseteq -n..n
BY DEF Within, Ids

(* Once all of the history has been seen, the compacted input stands for it. *)
LEMMA AllSeen ==
  ASSUME NEW c \in Seq(MessageSet), NEW kept \in Seq(MessageSet), NEW P, Ids(kept) \subseteq P
  PROVE  c \o UnseenOf(kept, P) = c
<1>1. UnseenOf(kept, P) = <<>>
  BY UnseenNone
<1>2. c \o <<>> = c
  OBVIOUS
<1> QED BY <1>1, <1>2

(* NoCompaction: the history itself is the input.                          *)
LEMMA NoCompactionStep ==
  ASSUME Inv, NoCompaction
  PROVE  Inv'
<1>1. Running
  BY DEF NoCompaction, Running, Over
<1>2. ScalarsOK /\ LoopInv /\ HistoryInv /\ ListsInv
  BY <1>1, FromInv
<1>3. /\ pc = "input" /\ pc' = "model" /\ setting.strategy = "none" /\ input' = messages
      /\ UNCHANGED <<setting, messages, prefix, compacted, processed, warned, called, attempts,
                     turns, last_id, settled>>
  BY DEF NoCompaction
<1>4. Kept = messages /\ Kept' = Kept /\ Open' = Open
  BY <1>3 DEF Kept, Open
<1>5. HistoryInv'
  BY <1>2, <1>3, <1>4 DEF HistoryInv
<1>6. ListsInv'
  <2>1. Within(messages, last_id)
    BY <1>2, <1>4, WholeSeq
  <2> QED BY <1>2, <1>3, <2>1 DEF ListsInv
<1>7. ScalarsOK'
  BY <1>2, <1>3 DEF ScalarsOK
<1>8. CompactedInv'
  BY <1>3 DEF CompactedInv
<1> QED BY <1>3, <1>5, <1>6, <1>7, <1>8, GoesOn

(* What is added for the model's eyes only: nothing, or the warning        *)
Warned(new) ==
  \/ new = <<>> /\ last_id' = last_id
  \/ new = <<Warning(last_id + 1)>> /\ last_id' = last_id + 1

(* It comes after all that has been said, and leaves a good list good.     *)
LEMMA WarnedGood ==
  ASSUME last_id \in Nat, NEW start, IsStart(start), last_id >= Len(start), NEW new, Warned(new)
  PROVE  /\ new \in Seq(MessageSet) /\ last_id' \in Nat /\ last_id' >= last_id
         /\ Ids(new) \subseteq last_id + 1..last_id' /\ Within(new, last_id')
         /\ \A w : Good(w, {}, last_id) => Good(w \o new, {}, last_id')
         /\ \A w \in Seq(MessageSet) : Unwarned(w \o new) = Unwarned(w)
         /\ \A w \in Seq(MessageSet) :
              Marked(w, start) /\ Present(w, start) => Marked(w \o new, start)
<1> DEFINE m == Warning(last_id + 1)
<1>1. CASE new = <<>> /\ last_id' = last_id
  <2>1. \A w \in Seq(MessageSet) : w \o new = w
    BY <1>1
  <2>2. \A w : Good(w, {}, last_id) => Good(w \o new, {}, last_id')
    BY <1>1, GoodSame
  <2>3. new \in Seq(MessageSet) /\ Within(new, last_id') /\ Ids(new) \subseteq last_id + 1..last_id'
    BY <1>1 DEF Within, Ids
  <2> QED BY <1>1, <2>1, <2>2, <2>3
<1>2. CASE new = <<m>> /\ last_id' = last_id + 1
  <2>1. /\ m \in MessageSet /\ m.id = last_id + 1 /\ m.calls = <<>> /\ m.call = NoCall
        /\ m.origin = "warning"
    BY PlainMessages
  <2>2. m.role # "tool" /\ ToSet(m.calls) = {}
    BY <2>1, MessageFields DEF ToSet
  <2> HIDE DEF m
  <2>3. new \in Seq(MessageSet) /\ DOMAIN new = {1} /\ new[1] = m
    BY <1>2, <2>1
  <2>4. \A w \in Seq(MessageSet) : w \o new = Append(w, m)
    BY <1>2, <2>1, FrontAppend
  <2>5. ASSUME NEW w, Good(w, {}, last_id) PROVE Good(w \o new, {}, last_id')
    <3>1. m.id \in last_id + 1..last_id' /\ last_id' \in Nat /\ last_id <= last_id'
      BY <1>2, <2>1
    <3>2. Good(Append(w, m), {} \cup ToSet(m.calls), last_id')
      BY <2>1, <2>2, <2>5, <3>1, SaidGood
    <3>3. w \in Seq(MessageSet)
      BY <2>5 DEF Good
    <3>4. {} \cup ToSet(m.calls) = {}
      BY <2>2
    <3> QED BY <2>4, <3>2, <3>3, <3>4
  <2>6. \A w \in Seq(MessageSet) : Unwarned(w \o new) = Unwarned(w)
    BY <2>1, <2>4, UnwarnedWarning
  <2>7. \A i \in DOMAIN new : new[i].id > last_id
    BY <2>1, <2>3
  <2>8. ASSUME NEW w \in Seq(MessageSet), Marked(w, start), Present(w, start)
        PROVE  Marked(w \o new, start)
    BY <2>3, <2>7, <2>8, StartKept
  <2>9. Ids(new) \subseteq last_id + 1..last_id' /\ Within(new, last_id')
    BY <1>2, <2>1, <2>3 DEF Ids, Within
  <2> QED BY <1>2, <2>3, <2>5, <2>6, <2>8, <2>9
<1> QED BY <1>1, <1>2 DEF Warned

(* BelowThreshold: what stands for the history becomes the input.          *)
LEMMA BelowThresholdStep ==
  ASSUME Inv, BelowThreshold
  PROVE  Inv'
<1>1. Running
  BY DEF BelowThreshold, Running, Over
<1>2. ScalarsOK /\ LoopInv /\ HistoryInv /\ ListsInv /\ CompactedInv
  BY <1>1, FromInv
<1>3. /\ pc = "input" /\ pc' = "model" /\ setting.strategy # "none" /\ input' = compacted'
      /\ UNCHANGED <<setting, messages, prefix, called, attempts, turns, settled>>
  BY DEF BelowThreshold
<1>4. Kept = messages /\ Kept' = Kept /\ Open' = Open /\ Open = {}
  BY <1>3 DEF Kept, Open
<1>5. /\ messages \in Seq(MessageSet) /\ Whole \in Seq(MessageSet)
      /\ Within(messages, last_id) /\ Within(Whole, last_id)
  BY <1>2, <1>4, WholeSeq
<1>6. compacted \o Unprocessed = Whole
  BY <1>4, UnprocessedIs DEF Whole
<1>7. /\ last_id \in Nat /\ processed \subseteq -last_id..last_id /\ warned \in BOOLEAN
  BY <1>2 DEF ListsInv
<1>8. \E new : /\ Warned(new) /\ compacted' = Whole \o new /\ warned' \in BOOLEAN
               /\ processed' = processed \cup Ids(messages) \cup Ids(new)
  <2>1. CASE /\ compacted' = compacted \o Unprocessed
             /\ processed' = processed \cup Ids(messages)
             /\ UNCHANGED <<warned, last_id>>
    <3>1. Whole \o <<>> = Whole /\ Ids(<<>>) = {} /\ Warned(<<>>)
      BY <1>5, <2>1 DEF Ids, Warned
    <3> QED BY <1>6, <1>7, <2>1, <3>1
  <2>2. CASE /\ warned' = TRUE
             /\ compacted' = Append(compacted \o Unprocessed, Warning(last_id + 1))
             /\ processed' = processed \cup Ids(messages) \cup {last_id + 1}
             /\ last_id' = last_id + 1
    <3> DEFINE m == Warning(last_id + 1)
    <3>1. m \in MessageSet /\ m.id = last_id + 1
      BY <1>7, PlainMessages
    <3>2. Warned(<<m>>)
      BY <2>2 DEF Warned
    <3>3. compacted' = Append(Whole, m)
      BY <1>6, <2>2
    <3> HIDE DEF m
    <3>4. Append(Whole, m) = Whole \o <<m>>
      BY <1>5, <3>1
    <3>5. Ids(<<m>>) = {last_id + 1}
      BY <3>1 DEF Ids
    <3> QED BY <2>2, <3>2, <3>3, <3>4, <3>5
  <2> QED BY <2>1, <2>2 DEF BelowThreshold
<1>9. PICK new : /\ Warned(new) /\ compacted' = Whole \o new /\ warned' \in BOOLEAN
                 /\ processed' = processed \cup Ids(messages) \cup Ids(new)
  BY <1>8
<1>10. IsStart(prefix) /\ last_id >= Len(prefix) /\ Len(prefix) \in Nat
  BY <1>2, StartIs DEF HistoryInv, ScalarsOK
<1>11. /\ new \in Seq(MessageSet) /\ last_id' \in Nat /\ last_id' >= last_id
       /\ Ids(new) \subseteq last_id + 1..last_id' /\ Within(new, last_id')
  BY <1>7, <1>9, <1>10, WarnedGood
<1>12. \A w : Good(w, {}, last_id) => Good(w \o new, {}, last_id')
  BY <1>7, <1>9, <1>10, WarnedGood
<1>13. Unwarned(Whole \o new) = Unwarned(Whole)
  BY <1>5, <1>7, <1>9, <1>10, WarnedGood
<1>14. Marked(Whole, prefix) /\ Present(Whole, prefix) => Marked(Whole \o new, prefix)
  BY <1>5, <1>7, <1>9, <1>10, WarnedGood
<1>15. compacted' \in Seq(MessageSet) /\ Within(compacted', last_id')
  <2>1. Within(Whole, last_id')
    BY <1>5, <1>7, <1>11, WithinWider
  <2> QED BY <1>5, <1>9, <1>11, <2>1, WithinJoin, Joined
<1>16. HistoryInv'
  <2>1. /\ Good(Kept, Open, last_id) /\ HasInput(Kept) /\ settled <= Len(Kept)
        /\ attempts < setting.attempts /\ prefix = StartOf(setting.handed_off)
    BY <1>2 DEF HistoryInv
  <2>2. Good(Kept', Open', last_id')
    BY <1>4, <1>7, <1>11, <2>1, GoodWider
  <2>3. last_id' >= Len(prefix')
    BY <1>3, <1>7, <1>10, <1>11
  <2> QED BY <1>3, <1>4, <2>1, <2>2, <2>3 DEF HistoryInv
<1>17. ListsInv'
  <2>1. processed' \subseteq -last_id'..last_id'
    <3>1. Ids(messages) \subseteq -last_id..last_id
      BY <1>5, IdsWithin
    <3>2. -last_id..last_id \subseteq -last_id'..last_id'
      BY <1>7, <1>11, Wider
    <3>3. Ids(new) \subseteq -last_id'..last_id'
      BY <1>11, IdsWithin
    <3> QED BY <1>7, <1>9, <3>1, <3>2, <3>3
  <2> QED BY <1>3, <1>9, <1>11, <1>15, <2>1 DEF ListsInv
<1>18. Ids(Kept') \subseteq processed'
  BY <1>4, <1>9
<1>19. Whole' = Whole \o new
  <2>1. compacted' \o UnseenOf(Kept', processed') = compacted'
    BY <1>4, <1>5, <1>15, <1>18, AllSeen
  <2> QED BY <1>9, <2>1 DEF Whole
<1>20. SinceInv /\ (~PrefixEdited => CompactInv)
  BY <1>2, <1>3 DEF CompactedInv
<1>21. SinceInv'
  <2>1. Present(Whole, prefix) /\ EndsWith(Kept, Unwarned(Whole), settled)
    BY <1>20 DEF SinceInv
  <2>2. \A i \in DOMAIN Whole : i \in DOMAIN (Whole \o new) /\ (Whole \o new)[i] = Whole[i]
    BY <1>5, <1>11, Joined
  <2>3. Present(Whole \o new, prefix)
    BY <2>1, <2>2 DEF Present
  <2> QED BY <1>3, <1>4, <1>13, <1>18, <1>19, <2>1, <2>3 DEF SinceInv
<1>22. CompactInv => CompactInv'
  BY <1>3, <1>4, <1>12, <1>14, <1>19, <1>20 DEF CompactInv, SinceInv
<1>23. CompactedInv'
  <2>1. PrefixEdited' <=> PrefixEdited
    BY <1>3 DEF PrefixEdited
  <2> QED BY <1>20, <1>21, <1>22, <2>1 DEF CompactedInv
<1>24. ScalarsOK'
  BY <1>2, <1>3 DEF ScalarsOK
<1> QED BY <1>3, <1>16, <1>17, <1>23, <1>24, GoesOn

(* Compact: what stands for the history is compacted, and all of it has been seen. *)
LEMMA CompactStep ==
  ASSUME Inv, Compact
  PROVE  Inv'
<1>1. Running
  BY DEF Compact, Running, Over
<1>2. ScalarsOK /\ LoopInv /\ HistoryInv /\ ListsInv /\ CompactedInv
  BY <1>1, FromInv
<1>3. /\ pc = "input" /\ pc' = "model" /\ setting.strategy # "none" /\ input' = compacted'
      /\ processed' = processed \cup Ids(compacted) \cup Ids(messages')
      /\ warned' = FALSE /\ settled' = Len(messages')
      /\ UNCHANGED <<setting, prefix, called, attempts, turns>>
  BY DEF Compact
<1>4. PICK c \in Compactions(compacted \o Unprocessed) : compacted' = Preserved(c)
  BY DEF Compact
<1>5. IF setting.strategy = "summary"
      THEN messages' = Append(messages, Summary(last_id + 1)) /\ last_id' = last_id + 1
      ELSE messages' = messages /\ last_id' = last_id
  BY DEF Compact
<1>6. Kept = messages /\ Kept' = messages' /\ Open' = {} /\ Open = {}
  BY <1>3 DEF Kept, Open
<1>7. /\ messages \in Seq(MessageSet) /\ Whole \in Seq(MessageSet)
      /\ Within(messages, last_id) /\ Within(Whole, last_id)
  BY <1>2, <1>6, WholeSeq
<1>8. c \in Compactions(Whole)
  <2>1. compacted \o Unprocessed = Whole
    BY <1>6, UnprocessedIs DEF Whole
  <2> QED BY <1>4, <2>1
<1>9. last_id \in Nat /\ processed \subseteq -last_id..last_id /\ Within(compacted, last_id)
  BY <1>2 DEF ListsInv
<1>10. /\ setting \in Settings /\ setting \in Setting
       /\ setting.strategy \in {"trim", "edit", "edit_calls", "summary"}
  BY <1>2, <1>3, SettingOf DEF ScalarsOK
<1>11. IsStart(prefix) /\ Len(prefix) \in {2, 6} /\ last_id >= Len(prefix)
  BY <1>2, <1>10, StartIs DEF HistoryInv
<1>12. last_id' = NextId /\ last_id' \in Nat /\ last_id' >= last_id
  BY <1>5, <1>9 DEF NextId
<1>13. /\ compacted' \in Seq(MessageSet) /\ Within(compacted', last_id')
       /\ Present(compacted', prefix)
  BY <1>4, <1>7, <1>8, <1>9, <1>10, <1>11, <1>12, CompactedWithin
<1>14. Good(Kept', Open', last_id') /\ HasInput(Kept')
  <2>1. Good(messages, {}, last_id) /\ HasInput(messages)
    BY <1>2, <1>6 DEF HistoryInv
  <2>2. CASE setting.strategy # "summary"
    BY <1>5, <1>6, <2>1, <2>2
  <2>3. CASE setting.strategy = "summary"
    <3> DEFINE m == Summary(last_id + 1)
    <3>1. m \in MessageSet /\ m.id = last_id + 1 /\ m.calls = <<>> /\ m.role # "tool"
      <4>1. m \in MessageSet /\ m.id = last_id + 1 /\ m.calls = <<>> /\ m.call = NoCall
        BY <1>9, PlainMessages
      <4> QED BY <4>1, MessageFields
    <3>2. messages' = Append(messages, m) /\ last_id' = last_id + 1
      BY <1>5, <2>3
    <3> HIDE DEF m
    <3>3. ToSet(m.calls) = {}
      BY <3>1 DEF ToSet
    <3>4. last_id + 1 \in Nat /\ last_id <= last_id + 1 /\ m.id \in last_id + 1..last_id + 1
      BY <1>9, <3>1
    <3>5. Good(Append(messages, m), {} \cup ToSet(m.calls), last_id + 1)
      BY <1>9, <2>1, <3>1, <3>3, <3>4, SaidGood
    <3>6. {} \cup ToSet(m.calls) = {}
      BY <3>3
    <3>7. messages' = messages \o <<m>> /\ <<m>> \in Seq(MessageSet)
      BY <1>7, <3>1, <3>2, FrontAppend
    <3>8. HasInput(messages')
      BY <1>7, <2>1, <3>7, InputKept
    <3> QED BY <1>6, <3>2, <3>5, <3>6, <3>8
  <2> QED BY <2>2, <2>3
<1>15. messages' \in Seq(MessageSet) /\ Within(messages', last_id')
  BY <1>6, <1>14, GoodWithin
<1>16. HistoryInv'
  <2>1. settled' <= Len(Kept')
    BY <1>3, <1>6, <1>15
  <2>2. last_id' >= Len(prefix')
    BY <1>3, <1>9, <1>11, <1>12
  <2>3. attempts' < setting'.attempts /\ prefix' = StartOf(setting'.handed_off)
    BY <1>2, <1>3 DEF HistoryInv
  <2> QED BY <1>3, <1>14, <2>1, <2>2, <2>3 DEF HistoryInv
<1>17. ListsInv'
  <2>1. processed' \subseteq -last_id'..last_id'
    <3>1. Ids(compacted) \subseteq -last_id..last_id /\ Ids(messages') \subseteq -last_id'..last_id'
      BY <1>9, <1>15, IdsWithin
    <3>2. -last_id..last_id \subseteq -last_id'..last_id'
      BY <1>9, <1>12, Wider
    <3> QED BY <1>3, <1>9, <3>1, <3>2
  <2> QED BY <1>3, <1>12, <1>13, <2>1 DEF ListsInv
<1>18. Ids(Kept') \subseteq processed'
  BY <1>3, <1>6
<1>19. Whole' = compacted'
  <2>1. compacted' \o UnseenOf(Kept', processed') = compacted'
    BY <1>6, <1>13, <1>15, <1>18, AllSeen
  <2> QED BY <2>1 DEF Whole
<1>21. SinceInv'
  <2> DEFINE u == Unwarned(compacted')
  <2>1. u \in Seq(MessageSet)
    BY <1>13, AtEnum DEF Unwarned
  <2> HIDE DEF u
  <2>2. EndsWith(messages', u, Len(messages'))
    BY <1>15, <2>1, EndsSelf
  <2> QED BY <1>3, <1>6, <1>13, <1>18, <1>19, <2>2 DEF SinceInv, u
<1>22. ASSUME ~PrefixEdited PROVE CompactInv'
  <2>1. Good(Whole, {}, last_id) /\ Marked(Whole, prefix) /\ Present(Whole, prefix)
    BY <1>2, <1>3, <1>6, <1>22 DEF CompactedInv, SinceInv, CompactInv
  <2>2. setting.strategy \in {"edit", "edit_calls"} \/ (setting.strategy = "trim" /\ setting.memory)
          => Len(prefix) = 2
    BY <1>2, <1>10, <1>22, StartLength
  <2>3. Good(compacted', {}, last_id') /\ Marked(compacted', prefix')
    BY <1>3, <1>4, <1>8, <1>9, <1>10, <1>11, <1>12, <2>1, <2>2, CompactedGood
  <2> QED BY <1>6, <1>19, <2>3 DEF CompactInv
<1>23. CompactedInv'
  <2>1. PrefixEdited' <=> PrefixEdited
    BY <1>3 DEF PrefixEdited
  <2> QED BY <1>21, <1>22, <2>1 DEF CompactedInv
<1>20. ScalarsOK'
  <2>1. settled' \in Nat
    BY <1>3, <1>15
  <2> QED BY <1>2, <1>3, <2>1 DEF ScalarsOK
<1> QED BY <1>3, <1>16, <1>17, <1>20, <1>23, GoesOn

-----------------------------------------------------------------------------
(* The ends of the loop, truncations and the start                         *)

(* A good history may be handed back, whatever the setting. *)
LEMMA EndInv ==
  ASSUME Inv, NEW n \in Nat, NEW m, Good(m, {}, n),
         \A i \in DOMAIN m : m[i].id \in -last_id..last_id + 1, End(m),
         UNCHANGED <<setting, prefix, compactVars, called, turns, last_id>>,
         attempts' \in 0..setting.attempts, settled' \in Nat
  PROVE  Inv'
<1>1. /\ pc' = "done"
      /\ messages' = IF setting.submit = "removed" THEN RemoveSubmit(m, Submit) ELSE m
  BY DEF End
<1>2. m \in Seq(MessageSet)
  BY DEF Good
<1>3. /\ Good(messages', {}, n)
      /\ \A i \in DOMAIN messages' : messages'[i].id \in -last_id..last_id + 1
      /\ setting.submit = "removed" => \A a \in ToSet(messages') :
           a.call.function # Submit /\ \A call \in ToSet(a.calls) : call.function # Submit
  <2>1. CASE setting.submit = "removed"
    <3> DEFINE r == RemoveSubmit(m, Submit)
               f == NoSubmission(m, Submit)
    <3>1. messages' = r
      BY <1>1, <2>1
    <3>2. \E h : Submitless(h, f, r, m)
      BY <1>2, RemoveSubmitEach
    <3> HIDE DEF r, f
    <3>3. PICK h : Submitless(h, f, r, m)
      BY <3>2
    <3>4. \A k \in DOMAIN r : h[k] \in DOMAIN m /\ r[k].id = m[h[k]].id
      BY <3>3 DEF Submitless
    <3>5. \A k \in DOMAIN r : r[k].id \in -last_id..last_id + 1
      BY <3>4
    <3>6. /\ Good(r, {}, n)
          /\ \A a \in ToSet(r) :
               a.call.function # Submit /\ \A call \in ToSet(a.calls) : call.function # Submit
      BY RemoveSubmitGood DEF r
    <3> QED BY <3>1, <3>5, <3>6
  <2>2. CASE setting.submit # "removed"
    BY <1>1, <2>2
  <2> QED BY <2>1, <2>2
<1>4. Valid(messages')
  BY <1>3, GoodValid
<1>5. TypeOK'
  <2>1. TypeOK /\ setting' = setting /\ prefix' = prefix /\ compacted' = compacted
        /\ input' = input /\ called' = called /\ turns' = turns /\ last_id' = last_id
        /\ warned' = warned
    BY DEF Inv, FinalHistory, compactVars
  <2>2. \A list \in {prefix, compacted, input} :
          \A i \in DOMAIN list : list[i].id \in -last_id..last_id + 1
    BY <2>1 DEF TypeOK
  <2>3. \A list \in {messages', prefix', compacted', input'} :
          \A i \in DOMAIN list : list[i].id \in -last_id'..last_id' + 1
    BY <1>3, <2>1, <2>2
  <2>4. /\ setting' \in Settings /\ called' \in BOOLEAN /\ turns' \in 0..MaxTurns
        /\ attempts' \in 0..setting'.attempts /\ warned' \in BOOLEAN
    BY <2>1 DEF TypeOK
  <2> QED BY <1>1, <2>3, <2>4 DEF TypeOK, Over
<1>6. FinalHistory'
  <2>1. setting' = setting
    OBVIOUS
  <2> QED BY <1>3, <1>4, <1>5, <2>1 DEF FinalHistory
<1> QED BY <1>1, <1>6 DEF Inv, Running, Over

(* It is the history as it is that is handed back. *)
LEMMA EndsAsIs ==
  ASSUME Inv, Running, pc \notin {"overflow", "tools"}, End(messages),
         UNCHANGED <<setting, prefix, compactVars, called, turns, last_id, settled>>,
         attempts' \in 0..setting.attempts
  PROVE  Inv'
<1>1. ScalarsOK /\ HistoryInv /\ ListsInv
  BY FromInv
<1>2. last_id \in Nat /\ settled' \in Nat
  BY <1>1 DEF ListsInv, ScalarsOK
<1>3. Good(messages, {}, last_id)
  <2>1. Kept = messages /\ Open = {}
    BY DEF Kept, Open
  <2> QED BY <1>1, <2>1 DEF HistoryInv
<1>4. \A i \in DOMAIN messages : messages[i].id \in -last_id..last_id + 1
  BY DEF Inv, FinalHistory, TypeOK
<1> QED BY <1>2, <1>3, <1>4, EndInv

(* SubmitEnds                                                              *)
LEMMA SubmitEndsStep ==
  ASSUME Inv, SubmitEnds
  PROVE  Inv'
<1>1. Running
  BY DEF SubmitEnds, Running, Over
<1>2. ScalarsOK /\ HistoryInv
  BY <1>1, FromInv
<1>3. /\ pc = "submitted" /\ attempts' = attempts + 1 /\ End(messages)
      /\ UNCHANGED <<setting, prefix, compactVars, called, turns, last_id, settled>>
  BY DEF SubmitEnds
<1>4. attempts' \in 0..setting.attempts
  BY <1>2, <1>3, ReactAssumption DEF ScalarsOK, Setting, HistoryInv
<1> QED BY <1>1, <1>3, <1>4, EndsAsIs

(* Stop                                                                    *)
LEMMA StopStep ==
  ASSUME Inv, Stop
  PROVE  Inv'
<1>1. Running
  BY DEF Stop, Running, Over
<1>2. ScalarsOK
  BY <1>1, FromInv
<1>3. /\ pc = "continue" /\ End(messages)
      /\ UNCHANGED <<setting, prefix, compactVars, called, attempts, turns, last_id, settled>>
  BY DEF Stop
<1>4. attempts' \in 0..setting.attempts
  BY <1>2, <1>3 DEF ScalarsOK
<1> QED BY <1>1, <1>3, <1>4, EndsAsIs

(* A truncation forgets nothing that the compaction has not seen. *)
LEMMA Truncates ==
  ASSUME Inv, pc = "overflow", messages' = Truncated(Front(messages)), pc' = "input",
         settled' = Len(messages'),
         UNCHANGED <<setting, prefix, compactVars, called, attempts, turns, last_id>>
  PROVE  Inv'
<1>1. Running
  BY DEF Running, Over
<1>2. ScalarsOK /\ HistoryInv /\ ListsInv /\ CompactedInv
  BY <1>1, FromInv
<1>3. /\ setting' = setting /\ prefix' = prefix /\ compacted' = compacted /\ warned' = warned
      /\ processed' = processed /\ input' = input /\ last_id' = last_id
  BY DEF compactVars
<1>4. Kept = Front(messages) /\ Kept' = messages' /\ Open = {} /\ Open' = {}
  BY DEF Kept, Open
<1>5. messages' = Trim(Kept, 3) /\ 3 \in 0..10
  BY <1>4 DEF Truncated
<1>6. Good(Kept, {}, last_id) /\ HasInput(Kept) /\ last_id \in Nat
  BY <1>2, <1>4 DEF HistoryInv, ListsInv
<1>7. Good(messages', {}, last_id) /\ HasInput(messages')
  BY <1>5, <1>6, TrimGood
<1>8. Kept \in Seq(MessageSet) /\ messages' \in Seq(MessageSet)
  BY <1>6, <1>7, GoodWithin
<1>9. Len(messages') \in Nat
  BY <1>8
<1>10. HistoryInv'
  <2>1. settled' <= Len(Kept')
    BY <1>4, <1>9
  <2>2. attempts' < setting'.attempts /\ prefix' = StartOf(setting'.handed_off)
        /\ last_id' >= Len(prefix')
    BY <1>2, <1>3 DEF HistoryInv
  <2> QED BY <1>3, <1>4, <1>7, <2>1, <2>2 DEF HistoryInv
<1>11. ListsInv'
  BY <1>2, <1>3 DEF ListsInv
<1>12. ASSUME SinceInv
       PROVE  Whole = compacted /\ Whole' = compacted /\ SinceInv'
  <2>1. /\ Present(Whole, prefix) /\ Ids(Kept) \subseteq processed
    BY <1>12 DEF SinceInv
  <2>2. compacted \in Seq(MessageSet)
    BY <1>2 DEF ListsInv
  <2>3. Whole = compacted
    <3>1. compacted \o UnseenOf(Kept, processed) = compacted
      BY <1>8, <2>1, <2>2, AllSeen
    <3> QED BY <3>1 DEF Whole
  <2>4. Ids(messages') \subseteq processed
    <3>1. Ids(Trim(Kept, 3)) \subseteq Ids(Kept)
      BY <1>5, <1>8, IdsTrim
    <3> QED BY <1>5, <2>1, <3>1
  <2>5. Whole' = compacted
    <3>1. compacted \o UnseenOf(messages', processed) = compacted
      BY <1>8, <2>2, <2>4, AllSeen
    <3> QED BY <1>3, <1>4, <3>1 DEF Whole
  <2>6. EndsWith(messages', Unwarned(compacted), settled')
    <3> DEFINE u == Unwarned(compacted)
    <3>1. u \in Seq(MessageSet)
      BY <2>2, AtEnum DEF Unwarned
    <3> HIDE DEF u
    <3>2. EndsWith(messages', u, settled')
      BY <1>8, <3>1, EndsSelf
    <3> QED BY <3>2 DEF u
  <2>7. Ids(Kept') \subseteq processed'
    BY <1>3, <1>4, <2>4
  <2> QED BY <1>3, <1>4, <2>1, <2>3, <2>5, <2>6, <2>7 DEF SinceInv
<1>13. CompactedInv'
  <2>1. (PrefixEdited' <=> PrefixEdited) /\ setting' = setting
    BY <1>3 DEF PrefixEdited
  <2>2. ASSUME SinceInv, CompactInv PROVE CompactInv'
    <3>1. Whole' = Whole /\ Open' = Open /\ last_id' = last_id /\ prefix' = prefix
      BY <1>3, <1>4, <1>12, <2>2
    <3> QED BY <2>2, <3>1 DEF CompactInv
  <2> QED BY <1>2, <1>12, <2>1, <2>2 DEF CompactedInv
<1>14. ScalarsOK'
  BY <1>2, <1>3, <1>9 DEF ScalarsOK
<1> QED BY <1>3, <1>10, <1>11, <1>13, <1>14, GoesOn

(* HandleOverflow: a truncation, or the end                                *)
LEMMA HandleOverflowStep ==
  ASSUME Inv, HandleOverflow
  PROVE  Inv'
<1>1. Running
  BY DEF HandleOverflow, Running, Over
<1>2. ScalarsOK /\ HistoryInv /\ ListsInv
  BY <1>1, FromInv
<1> DEFINE after == Truncated(Front(messages))
<1>3. /\ pc = "overflow" /\ settled' = Len(messages')
      /\ UNCHANGED <<setting, prefix, compactVars, called, attempts, turns, last_id>>
      /\ \/ End(messages)
         \/ messages' = after /\ pc' = "input"
         \/ End(after)
  BY DEF HandleOverflow
<1>4. Kept = Front(messages) /\ Open = {}
  BY <1>3 DEF Kept, Open
<1>5. Good(Kept, {}, last_id) /\ HasInput(Kept) /\ last_id \in Nat
  BY <1>2, <1>4 DEF HistoryInv, ListsInv
<1>6. attempts' \in 0..setting.attempts
  BY <1>2, <1>3 DEF ScalarsOK
<1>7. \A k : \A m : Good(m, {}, k) /\ End(m) => settled' \in Nat
  <2>1. ASSUME NEW k, NEW m, Good(m, {}, k), End(m) PROVE settled' \in Nat
    <3>1. m \in Seq(MessageSet)
      BY <2>1 DEF Good
    <3>2. RemoveSubmit(m, Submit) \in Seq(MessageSet)
      <4>1. \E h : Submitless(h, NoSubmission(m, Submit), RemoveSubmit(m, Submit), m)
        BY <3>1, RemoveSubmitEach
      <4> QED BY <4>1 DEF Submitless
    <3>3. messages' \in Seq(MessageSet)
      BY <2>1, <3>1, <3>2 DEF End
    <3> QED BY <1>3, <3>3
  <2> QED BY <2>1
<1>8. CASE End(messages)
  <2> DEFINE a == Assistant(last_id + 1, <<>>)
  <2>1. messages = Append(Kept, a)
    BY <1>2, <1>3 DEF HistoryInv
  <2>2. a \in MessageSet /\ a.id = last_id + 1 /\ a.role # "tool" /\ ToSet(a.calls) = {}
    <3>1. <<>> \in Seq(CallSet) /\ last_id + 1 \in Int
      BY <1>5
    <3>2. a \in MessageSet /\ a.id = last_id + 1
      BY <3>1, AssistantMessage
    <3>3. a.role = "assistant"
      BY <3>1, AssistantMessage
    <3>4. a.calls = <<>>
      <4>1. PICK q \in Seq(CallSet) : q = <<>>
        BY <3>1
      <4>2. Assistant(last_id + 1, q).calls = q
        BY <3>1, AssistantMessage
      <4> QED BY <4>1, <4>2
    <3>5. ToSet(a.calls) = {}
      BY <3>4 DEF ToSet
    <3> QED BY <3>2, <3>3, <3>5
  <2> HIDE DEF a
  <2>3. last_id + 1 \in Nat /\ last_id <= last_id + 1 /\ a.id \in last_id + 1..last_id + 1
    BY <1>5, <2>2
  <2>4. Good(Append(Kept, a), {} \cup ToSet(a.calls), last_id + 1)
    BY <1>5, <2>2, <2>3, SaidGood
  <2>5. {} \cup ToSet(a.calls) = {}
    BY <2>2
  <2>6. Good(messages, {}, last_id + 1)
    BY <2>1, <2>4, <2>5
  <2>7. \A i \in DOMAIN messages : messages[i].id \in -last_id..last_id + 1
    BY DEF Inv, FinalHistory, TypeOK
  <2>8. settled' \in Nat
    BY <1>7, <1>8, <2>6
  <2> QED BY <1>3, <1>6, <1>8, <2>3, <2>6, <2>7, <2>8, EndInv
<1>9. CASE messages' = after /\ pc' = "input"
  BY <1>3, <1>9, Truncates
<1>10. CASE End(after)
  <2>1. after = Trim(Kept, 3) /\ 3 \in 0..10
    BY <1>4 DEF Truncated
  <2>2. Good(after, {}, last_id)
    BY <1>5, <2>1, TrimGood
  <2> HIDE DEF after
  <2>3. Within(after, last_id)
    BY <2>2, GoodWithin
  <2>4. \A i \in DOMAIN after : after[i].id \in -last_id..last_id + 1
    <3>1. ASSUME NEW i \in DOMAIN after PROVE after[i].id \in -last_id..last_id + 1
      <4>1. after[i].id \in -last_id..last_id
        BY <2>3 DEF Within
      <4> QED BY <1>5, <4>1
    <3> QED BY <3>1
  <2>5. settled' \in Nat
    BY <1>7, <1>10, <2>2
  <2> QED BY <1>3, <1>5, <1>6, <1>10, <2>2, <2>4, <2>5, EndInv
<1> QED BY <1>3, <1>8, <1>9, <1>10

(* Raise: nothing is asked of an agent that raised but its type.           *)
LEMMA RaiseStep ==
  ASSUME Inv, Raise
  PROVE  Inv'
<1>1. /\ pc' = "raised"
      /\ UNCHANGED <<setting, messages, prefix, compactVars, called, attempts, turns, last_id,
                     settled>>
  BY DEF Raise
<1>2. TypeOK'
  BY <1>1 DEF Inv, FinalHistory, TypeOK, Over, compactVars
<1> QED BY <1>1, <1>2 DEF Inv, FinalHistory, Running, Over

(* The start of a conversation is good.                                    *)
LEMMA StartGood ==
  ASSUME NEW start, IsStart(start)
  PROVE  /\ Good(start, {}, Len(start)) /\ HasInput(start)
         /\ Marked(start, start) /\ Present(start, start)
<1> DEFINE L == Len(start)
           K == Callers(start)
<1>1. /\ start \in Seq(MessageSet) /\ L \in {2, 6} /\ DOMAIN start = 1..L
      /\ \A p \in DOMAIN start : start[p].id = p
      /\ start[1].calls = <<>> /\ start[2].calls = <<>> /\ start[2].origin = "input"
      /\ start[1].role = "system" /\ start[2].role = "user"
  BY StartMessages
<1>2. /\ \A p \in K : Caller(start, p)
      /\ \A p \in DOMAIN start : p \in {1, 2} \/ p \in K \/ p - 1 \in K
  BY StartMessages
<1>3. ASSUME NEW p \in K
      PROVE  /\ p \in 3..5 /\ p \in 1..L /\ p + 1 \in 1..L /\ CallOf(p).id = p
             /\ CallOf(p) # NoCall
             /\ start[p].calls = <<CallOf(p)>> /\ start[p].role = "assistant"
             /\ start[p + 1].calls = <<>> /\ start[p + 1].call = CallOf(p)
  BY <1>1, <1>2 DEF Caller
<1> HIDE DEF K
<1>4. Marked(start, start)
  <2>1. ASSUME NEW p \in K PROVE Paired(start, p)
    <3>1. p \in 1..L /\ p + 1 \in 1..L /\ \A i \in 1..L : start[i].id = i
      BY <1>1, <1>3
    <3> QED BY <1>1, <3>1 DEF Paired
  <2>2. Original(start, start)
    BY <1>1 DEF Original
  <2> QED BY <2>1, <2>2 DEF Marked, K
<1>5. Present(start, start) /\ HasInput(start)
  BY <1>1 DEF Present, HasInput
<1>6. Closed(start, {})
  BY <1>1, <1>4, <1>5, MarkedClosed
<1>7. ASSUME NEW i \in DOMAIN start
      PROVE  /\ \A c \in Concerns(start[i]) : \E p \in K : c = CallOf(p) /\ p <= i
             /\ start[i].call # NoCall => i - 1 \in K /\ start[i].call = CallOf(i - 1)
  <2>1. start[i] \in MessageSet /\ i \in Int
    BY <1>1
  <2>2. start[i].role = "tool" <=> start[i].call # NoCall
    BY <2>1, MessageFields
  <2>3. CASE i \in {1, 2}
    <3>1. start[i].calls = <<>> /\ start[i].call = NoCall
      BY <1>1, <2>2, <2>3
    <3> QED BY <3>1 DEF Concerns, ToSet
  <2>4. CASE i \in K
    <3>1. start[i].calls = <<CallOf(i)>> /\ start[i].call = NoCall
      BY <1>3, <2>2, <2>4
    <3>2. ToSet(<<CallOf(i)>>) = {CallOf(i)}
      BY DEF ToSet
    <3>3. Concerns(start[i]) = {CallOf(i)}
      BY <3>1, <3>2 DEF Concerns
    <3> QED BY <2>1, <2>4, <3>1, <3>3
  <2>5. CASE i - 1 \in K
    <3>1. start[(i - 1) + 1].calls = <<>> /\ start[(i - 1) + 1].call = CallOf(i - 1)
      BY <1>3, <2>5
    <3>2. (i - 1) + 1 = i /\ i - 1 <= i
      BY <2>1
    <3>3. ToSet(<<>>) = {}
      BY DEF ToSet
    <3>4. Concerns(start[i]) \subseteq {CallOf(i - 1)}
      BY <3>1, <3>2, <3>3 DEF Concerns
    <3> QED BY <2>5, <3>1, <3>2, <3>4
  <2> QED BY <1>2, <2>3, <2>4, <2>5
<1>8. Bounded(start, L)
  <2>1. ASSUME NEW i \in DOMAIN start
        PROVE  start[i].id \in -L..L /\ \A d \in Concerns(start[i]) : d.id <= L
    <3>1. start[i].id \in -L..L
      BY <1>1
    <3>2. ASSUME NEW d \in Concerns(start[i]) PROVE d.id <= L
      <4>1. PICK p \in K : d = CallOf(p)
        BY <1>7, <3>2
      <4>2. d.id = p /\ p \in 1..L
        BY <1>3, <4>1
      <4> QED BY <4>2
    <3> QED BY <3>1, <3>2
  <2> QED BY <2>1 DEF Bounded
<1>9. Unique(start)
  <2>1. ASSUME NEW i \in DOMAIN start, NEW j \in DOMAIN start,
               start[i].id \in {start[j].id, -start[j].id}
        PROVE  i = j
    <3>1. start[i].id = i /\ start[j].id = j /\ i \in Nat /\ j \in Nat /\ i > 0 /\ j > 0
      BY <1>1
    <3> QED BY <2>1, <3>1
  <2>2. ASSUME NEW i \in DOMAIN start, NEW j \in DOMAIN start,
               start[i].call # NoCall, start[i].call = start[j].call
        PROVE  i = j
    <3>1. i - 1 \in K /\ j - 1 \in K /\ CallOf(i - 1) = CallOf(j - 1)
      BY <1>7, <2>2
    <3>2. i - 1 = j - 1
      BY <1>3, <3>1
    <3> QED BY <1>1, <3>2
  <2>3. ASSUME NEW i \in DOMAIN start, NEW j \in DOMAIN start,
               NEW d \in Concerns(start[i]), NEW e \in Concerns(start[j]), d.id = e.id
        PROVE  d = e
    <3>1. PICK p \in K : d = CallOf(p)
      BY <1>7
    <3>2. PICK k \in K : e = CallOf(k)
      BY <1>7
    <3>3. p = k
      BY <1>3, <2>3, <3>1, <3>2
    <3> QED BY <3>1, <3>2, <3>3
  <2> QED BY <2>1, <2>2, <2>3 DEF Unique
<1> QED BY <1>1, <1>4, <1>5, <1>6, <1>8, <1>9 DEF Good

-----------------------------------------------------------------------------
(* The theorems                                                            *)

(* The invariant holds at first.                                           *)
LEMMA InvInit ==
  ASSUME Init
  PROVE  Inv
<1>1. /\ setting \in Settings
      /\ prefix = StartOf(setting.handed_off)
      /\ messages = prefix /\ last_id = Len(prefix) /\ pc = "input"
      /\ compacted = <<>> /\ processed = {} /\ input = <<>> /\ called = FALSE
      /\ attempts = 0 /\ turns = 0 /\ settled = 0 /\ warned = FALSE
  BY DEF Init, StartOf
<1>2. IsStart(prefix) /\ Len(prefix) \in {2, 6}
  BY <1>1, StartIs
<1>3. /\ prefix \in Seq(MessageSet) /\ DOMAIN prefix = 1..Len(prefix) /\ last_id \in Nat
      /\ \A p \in DOMAIN prefix : prefix[p].id = p /\ prefix[p].origin # "warning"
  BY <1>1, <1>2, StartMessages
<1>4. /\ Good(prefix, {}, Len(prefix)) /\ HasInput(prefix)
      /\ Marked(prefix, prefix) /\ Present(prefix, prefix)
  BY <1>2, StartGood
<1>5. /\ setting.attempts \in Nat \ {0} /\ MaxTurns \in Nat
  BY <1>1, ReactAssumption DEF Setting
<1>6. Kept = prefix /\ Open = {}
  BY <1>1 DEF Kept, Open
<1>7. HistoryInv
  BY <1>1, <1>3, <1>4, <1>5, <1>6 DEF HistoryInv
<1>8. <<>> \in Seq(MessageSet) /\ Within(<<>>, last_id) /\ {} \subseteq -last_id..last_id
  BY DEF Within
<1>9. ListsInv
  BY <1>1, <1>3, <1>8 DEF ListsInv
<1>10. CompactedInv
  <2>1. Whole = prefix
    <3>1. UnseenOf(prefix, {}) = prefix
      <4> DEFINE I == {i \in DOMAIN prefix : prefix[i].id \notin {}}
      <4>1. DOMAIN prefix \subseteq I
        OBVIOUS
      <4> HIDE DEF I
      <4>2. At(prefix, I) = prefix
        BY <1>3, <4>1, AtAll
      <4> QED BY <4>2 DEF UnseenOf, I
    <3>2. <<>> \o prefix = prefix
      BY <1>3
    <3> QED BY <1>1, <1>6, <3>1, <3>2 DEF Whole
  <2>2. EndsWith(prefix, prefix, 0)
    <3>1. \A k \in 1..Len(prefix) : Len(prefix) - (Len(prefix) - k) = k
      BY <1>2
    <3> QED BY <1>2, <3>1 DEF EndsWith
  <2>3. Unwarned(prefix) = prefix
    <3> DEFINE I == {i \in DOMAIN prefix : prefix[i].origin # "warning"}
    <3>1. DOMAIN prefix \subseteq I
      BY <1>3
    <3> HIDE DEF I
    <3>2. At(prefix, I) = prefix
      BY <1>3, <3>1, AtAll
    <3> QED BY <3>2 DEF Unwarned, I
  <2>4. SinceInv
    BY <1>1, <1>4, <1>6, <2>1, <2>2, <2>3 DEF SinceInv
  <2>5. CompactInv
    BY <1>1, <1>4, <1>6, <2>1 DEF CompactInv
  <2> QED BY <2>4, <2>5 DEF CompactedInv
<1>11. TypeOK
  <2>1. \A list \in {messages, prefix, compacted, input} :
          \A i \in DOMAIN list : list[i].id \in -last_id..last_id + 1
    <3>1. ASSUME NEW i \in DOMAIN prefix PROVE prefix[i].id \in -last_id..last_id + 1
      BY <1>1, <1>3
    <3>2. ASSUME NEW i \in DOMAIN <<>> PROVE <<>>[i].id \in -last_id..last_id + 1
      OBVIOUS
    <3> QED BY <1>1, <3>1, <3>2
  <2>2. attempts \in 0..setting.attempts /\ turns \in 0..MaxTurns
    BY <1>1, <1>5
  <2> QED BY <1>1, <2>1, <2>2 DEF TypeOK
<1> QED BY <1>1, <1>7, <1>9, <1>10, <1>11 DEF Inv, FinalHistory, LoopInv

(* A step of nothing that is modelled                                      *)
LEMMA StutterStep ==
  ASSUME Inv, UNCHANGED vars
  PROVE  Inv'
<1>1. /\ setting' = setting /\ pc' = pc /\ messages' = messages /\ prefix' = prefix
      /\ compacted' = compacted /\ processed' = processed /\ input' = input
      /\ called' = called /\ attempts' = attempts /\ turns' = turns /\ last_id' = last_id
      /\ settled' = settled /\ warned' = warned
  BY DEF vars, compactVars
<1>2. Kept' = Kept /\ Open' = Open /\ Running' = Running
  BY <1>1 DEF Kept, Open, Running
<1>3. Whole' = Whole
  BY <1>1, <1>2 DEF Whole
<1>4. TypeOK => TypeOK'
  BY <1>1 DEF TypeOK
<1>5. FinalHistory => FinalHistory'
  BY <1>1, <1>4 DEF FinalHistory
<1>6. HistoryInv => HistoryInv'
  BY <1>1, <1>2 DEF HistoryInv
<1>7. ListsInv => ListsInv'
  BY <1>1, <1>2 DEF ListsInv
<1>8. CompactInv => CompactInv'
  BY <1>1, <1>2, <1>3 DEF CompactInv
<1>9. SinceInv => SinceInv'
  BY <1>1, <1>2, <1>3 DEF SinceInv
<1>10. PrefixEdited' <=> PrefixEdited
  BY <1>1 DEF PrefixEdited
<1>11. CompactedInv => CompactedInv'
  BY <1>1, <1>8, <1>9, <1>10 DEF CompactedInv
<1> QED BY <1>1, <1>2, <1>5, <1>6, <1>7, <1>11 DEF Inv, LoopInv

(* Inv is inductive. *)
LEMMA InvHolds ==
  Spec => []Inv
<1>1. Init => Inv
  BY InvInit
<1>2. Inv /\ [Next]_vars => Inv'
  <2> SUFFICES ASSUME Inv, [Next]_vars PROVE Inv'
    OBVIOUS
  <2>1. CASE NoCompaction
    BY <2>1, NoCompactionStep
  <2>2. CASE BelowThreshold
    BY <2>2, BelowThresholdStep
  <2>3. CASE Compact
    BY <2>3, CompactStep
  <2>4. CASE Generate
    BY <2>4, GenerateStep
  <2>5. CASE GenerateOverflows
    BY <2>5, GenerateOverflowsStep
  <2>6. CASE HandleOverflow
    BY <2>6, HandleOverflowStep
  <2>7. CASE ExecuteTools
    BY <2>7, ExecuteToolsStep
  <2>8. CASE SubmitEnds
    BY <2>8, SubmitEndsStep
  <2>9. CASE SubmitIncorrect
    BY <2>9, SubmitIncorrectStep
  <2>10. CASE Continue
    BY <2>10, ContinueStep
  <2>11. CASE Stop
    BY <2>11, StopStep
  <2>12. CASE Raise
    BY <2>12, RaiseStep
  <2>13. CASE UNCHANGED vars
    BY <2>13, StutterStep
  <2> QED BY <2>1, <2>2, <2>3, <2>4, <2>5, <2>6, <2>7, <2>8, <2>9, <2>10, <2>11, <2>12, <2>13
          DEF Next, ModelInput
<1> QED BY <1>1, <1>2, PTL DEF Spec

(* In every setting the history of an agent that ends by itself is valid,  *)
(* whatever was truncated; and where submissions are to be removed no call *)
(* of the submit tool is left in it: react(), agent/_react.py.             *)
THEOREM FinalHistoryCorrect ==
  Spec => []FinalHistory
<1>1. Inv => FinalHistory
  BY DEF Inv
<1> QED BY <1>1, InvHolds, PTL

-----------------------------------------------------------------------------
(* A list that grows starts with what it was.                              *)
LEMMA Leads ==
  ASSUME NEW p \in Seq(MessageSet), NEW q \in Seq(MessageSet)
  PROVE  IsPrefix(p, p \o q)
<1> DEFINE r == p \o q
<1>1. /\ r \in Seq(MessageSet) /\ Len(r) = Len(p) + Len(q) /\ Len(p) \in Nat /\ Len(q) \in Nat
      /\ DOMAIN p = 1..Len(p) /\ \A i \in DOMAIN p : r[i] = p[i]
  BY Joined
<1> HIDE DEF r
<1>2. SubSeq(r, 1, Len(p)) = p
  <2>1. SubSeq(r, 1, Len(p)) = [i \in 1..Len(p) |-> r[i]]
    BY <1>1
  <2>2. p = [i \in 1..Len(p) |-> p[i]]
    BY <1>1
  <2> QED BY <1>1, <2>1, <2>2
<1>3. IsPrefix(p, r)
  BY <1>1, <1>2 DEF IsPrefix
<1> QED BY <1>3 DEF r

Retained ==
  \/ IsPrefix(messages, messages')
  \/ setting.truncation = "auto" /\ pc = "overflow"
  \/ /\ pc' = "done"
     /\ \A m \in ToSet(messages) : m.id \in Ids(messages') \/ m.call.function = Submit

(* The messages stay as they are,                                          *)
LEMMA Keeps ==
  ASSUME messages \in Seq(MessageSet), messages' = messages
  PROVE  Retained
<1>1. <<>> \in Seq(MessageSet) /\ messages \o <<>> = messages
  OBVIOUS
<1> QED BY <1>1, Leads DEF Retained

(* or one is appended,                                                     *)
LEMMA Appends ==
  ASSUME messages \in Seq(MessageSet), NEW m \in MessageSet, messages' = Append(messages, m)
  PROVE  Retained
<1>1. messages' = messages \o <<m>> /\ <<m>> \in Seq(MessageSet)
  BY FrontAppend
<1> QED BY <1>1, Leads DEF Retained

(* or the loop ends and only submissions go.                               *)
LEMMA Ends ==
  ASSUME messages \in Seq(MessageSet), End(messages)
  PROVE  Retained
<1>1. CASE setting.submit # "removed"
  BY <1>1, Keeps DEF End
<1>2. CASE setting.submit = "removed"
  <2>1. messages' = RemoveSubmit(messages, Submit) /\ pc' = "done"
    BY <1>2 DEF End
  <2>2. \A m \in ToSet(messages) : m.id \in Ids(messages') \/ m.call.function = Submit
    BY <2>1, RemoveSubmitKeeps
  <2> QED BY <2>1, <2>2 DEF Retained
<1> QED BY <1>1, <1>2

(* The message that Generate appends                                       *)
LEMMA TurnCalls ==
  ASSUME ListsInv, NEW turn \in Turns
  PROVE  Assistant(last_id + 1, [n \in DOMAIN turn |-> Call(last_id + n, turn[n])]) \in MessageSet
<1> DEFINE calls == [n \in DOMAIN turn |-> Call(last_id + n, turn[n])]
<1>1. last_id \in Nat /\ turn \in Seq(STRING) /\ DOMAIN turn = 1..Len(turn) /\ Len(turn) \in Nat
  BY ReactAssumption DEF ListsInv
<1>2. ASSUME NEW n \in DOMAIN turn PROVE Call(last_id + n, turn[n]) \in CallSet
  <2>1. turn[n] \in Functions
    BY DEF Functions, ToSet
  <2>2. last_id + n \in Nat \ {0}
    BY <1>1
  <2> QED BY <2>1, <2>2, CallMade
<1>3. calls \in [1..Len(turn) -> CallSet]
  BY <1>1, <1>2
<1> HIDE DEF calls
<1>4. calls \in Seq(CallSet) /\ last_id + 1 \in Int
  BY <1>1, <1>3
<1>5. Assistant(last_id + 1, calls) \in MessageSet
  BY <1>4, AssistantMessage
<1> QED BY <1>5 DEF calls

(* The messages that ExecuteTools appends                                  *)
LEMMA AnswersMade ==
  ASSUME HistoryInv, ListsInv, pc = "tools"
  PROVE  Answers(Last(messages).calls) \in Seq(MessageSet)
<1> DEFINE calls == Last(messages).calls
<1>1. Kept = messages /\ Open = ToSet(calls)
  BY DEF Kept, Open
<1>2. /\ Good(messages, ToSet(calls), last_id) /\ messages # <<>>
      /\ \A n, k \in DOMAIN calls : calls[n] = calls[k] => n = k
  BY <1>1 DEF HistoryInv
<1>3. messages \in Seq(MessageSet)
  BY <1>2 DEF Good
<1>4. calls \in Seq(CallSet)
  <2>1. Last(messages) \in MessageSet
    BY <1>2, <1>3 DEF Last
  <2> QED BY <2>1, MessageFields
<1> HIDE DEF calls
<1>5. last_id \in Nat
  BY DEF ListsInv
<1>6. Answers(calls) \in Seq(MessageSet)
  BY <1>2, <1>4, <1>5, AnswersGood
<1> QED BY <1>6 DEF calls

(* No step of the agent loses a message otherwise.                         *)
LEMMA StepRetains ==
  ASSUME Inv, Next
  PROVE  Retained
<1>1. Running
  BY DEF Next, ModelInput, Raise, NoCompaction, BelowThreshold, Compact, Generate,
         GenerateOverflows, HandleOverflow, ExecuteTools, SubmitEnds, SubmitIncorrect, Continue,
         Stop, Running, Over
<1>2. ScalarsOK /\ HistoryInv /\ ListsInv
  BY <1>1, FromInv
<1>3. last_id \in Nat
  BY <1>2 DEF ListsInv
<1>4. Assistant(last_id + 1, <<>>) \in MessageSet
  <2>1. <<>> \in Seq(CallSet) /\ last_id + 1 \in Int
    BY <1>3
  <2> QED BY <2>1, AssistantMessage
<1>5. messages \in Seq(MessageSet)
  <2>1. Kept \in Seq(MessageSet)
    BY <1>2, WholeSeq
  <2>2. CASE pc = "overflow"
    <3>1. messages = Append(Kept, Assistant(last_id + 1, <<>>))
      BY <1>2, <2>2 DEF HistoryInv
    <3> QED BY <1>4, <2>1, <3>1, Appended
  <2>3. CASE pc # "overflow"
    BY <2>1, <2>3 DEF Kept
  <2> QED BY <2>2, <2>3
<1>6. \A id \in Int : User(id) \in MessageSet /\ Summary(id) \in MessageSet
  <2>1. ASSUME NEW id \in Int PROVE User(id) \in MessageSet /\ Summary(id) \in MessageSet
    BY PlainMessages
  <2> QED BY <2>1
<1>7. CASE messages' = messages
  BY <1>5, <1>7, Keeps
<1>8. ASSUME SayUser PROVE Retained
  BY <1>3, <1>5, <1>6, <1>8, Appends DEF SayUser
<1>9. ASSUME End(messages) PROVE Retained
  BY <1>5, <1>9, Ends
<1>10. CASE Raise \/ NoCompaction \/ BelowThreshold
  BY <1>7, <1>10 DEF Raise, NoCompaction, BelowThreshold
<1>11. CASE Compact
  <2>1. CASE setting.strategy = "summary"
    <3>1. messages' = Append(messages, Summary(last_id + 1))
      BY <1>11, <2>1 DEF Compact
    <3> QED BY <1>3, <1>5, <1>6, <3>1, Appends
  <2>2. CASE setting.strategy # "summary"
    BY <1>7, <1>11, <2>2 DEF Compact
  <2> QED BY <2>1, <2>2
<1>12. CASE Generate
  <2>1. PICK turn \in Turns :
          messages' = Append(messages,
                        Assistant(last_id + 1, [n \in DOMAIN turn |-> Call(last_id + n, turn[n])]))
    BY <1>12 DEF Generate
  <2>2. Assistant(last_id + 1, [n \in DOMAIN turn |-> Call(last_id + n, turn[n])]) \in MessageSet
    BY <1>2, TurnCalls
  <2> QED BY <1>5, <2>1, <2>2, Appends
<1>13. CASE GenerateOverflows
  BY <1>4, <1>5, <1>13, Appends DEF GenerateOverflows
<1>14. CASE HandleOverflow
  <2>1. CASE setting.truncation = "auto"
    BY <1>14, <2>1 DEF HandleOverflow, Retained
  <2>2. CASE setting.truncation # "auto"
    <3>1. setting.truncation = "disabled"
      BY <1>2, <2>2, ReactAssumption DEF ScalarsOK, Setting
    <3>2. End(messages)
      BY <1>14, <3>1 DEF HandleOverflow
    <3> QED BY <1>9, <3>2
  <2> QED BY <2>1, <2>2
<1>15. CASE ExecuteTools
  <2>1. messages' = messages \o Answers(Last(messages).calls) /\ pc = "tools"
    BY <1>15 DEF ExecuteTools
  <2>2. Answers(Last(messages).calls) \in Seq(MessageSet)
    BY <1>2, <2>1, AnswersMade
  <2> QED BY <1>5, <2>1, <2>2, Leads DEF Retained
<1>16. CASE SubmitEnds \/ Stop
  BY <1>9, <1>16 DEF SubmitEnds, Stop
<1>17. CASE SubmitIncorrect \/ Continue
  BY <1>7, <1>8, <1>17 DEF SubmitIncorrect, Continue
<1> QED BY <1>10, <1>11, <1>12, <1>13, <1>14, <1>15, <1>16, <1>17 DEF Next, ModelInput

(* No message is lost from the history by compaction, by running tools or by *)
(* what is said; only a truncation, and the removal of the submit calls at    *)
(* the end, take some away: react(), agent/_react.py.                         *)
THEOREM HistoryRetainedCorrect ==
  Spec => HistoryRetained
<1>1. Inv /\ [Next]_vars => [Retained]_vars
  BY StepRetains
<1>2. ASSUME [Retained]_vars
      PROVE  [ \/ IsPrefix(messages, messages')
               \/ setting.truncation = "auto" /\ pc = "overflow"
               \/ /\ pc' = "done"
                  /\ \A m \in ToSet(messages) :
                       m.id \in Ids(messages') \/ m.call.function = Submit]_vars
  BY <1>2 DEF Retained
<1> QED BY <1>1, <1>2, InvHolds, PTL DEF Spec, HistoryRetained

-----------------------------------------------------------------------------
(* Reverse, index by index                                                 *)
LEMMA ReverseAt ==
  ASSUME NEW S, NEW s \in Seq(S)
  PROVE  /\ Reverse(s) \in Seq(S) /\ Len(Reverse(s)) = Len(s)
         /\ \A i \in 1..Len(s) : Reverse(s)[i] = s[(Len(s) - i) + 1]
<1> DEFINE n == Len(s)
           r == [i \in 1..n |-> s[(n - i) + 1]]
<1>1. n \in Nat /\ \A i \in 1..n : (n - i) + 1 \in 1..n /\ s[(n - i) + 1] \in S
  OBVIOUS
<1>2. r \in [1..n -> S]
  BY <1>1
<1>3. r \in Seq(S) /\ Len(r) = n
  BY <1>1, <1>2
<1> QED BY <1>3 DEF Reverse

(* IsSuffix, index by index                                                *)
LEMMA SuffixAt ==
  ASSUME NEW S, NEW s \in Seq(S), NEW t \in Seq(S), Len(s) <= Len(t),
         \A i \in 1..Len(s) : s[i] = t[(Len(t) - Len(s)) + i]
  PROVE  IsSuffix(s, t)
<1> DEFINE p == Reverse(s)
           q == Reverse(t)
           n == Len(s)
           k == Len(t)
<1>1. /\ p \in Seq(S) /\ Len(p) = n /\ \A i \in 1..n : p[i] = s[(n - i) + 1]
      /\ q \in Seq(S) /\ Len(q) = k /\ \A i \in 1..k : q[i] = t[(k - i) + 1]
      /\ n \in Nat /\ k \in Nat /\ n <= k
  BY ReverseAt
<1>2. \A i \in 1..n : s[i] = t[(k - n) + i]
  OBVIOUS
<1> HIDE DEF p, q, n, k
<1>3. ASSUME NEW i \in 1..n PROVE p[i] = q[i]
  <2>1. (n - i) + 1 \in 1..n /\ i \in 1..k /\ (k - n) + ((n - i) + 1) = (k - i) + 1
    BY <1>1
  <2>2. s[(n - i) + 1] = t[(k - n) + ((n - i) + 1)]
    BY <1>2, <2>1
  <2> QED BY <1>1, <2>1, <2>2
<1>4. SubSeq(p, 1, n) = SubSeq(q, 1, n)
  <2>1. SubSeq(p, 1, n) = [i \in 1..n |-> p[i]] /\ SubSeq(q, 1, n) = [i \in 1..n |-> q[i]]
    BY <1>1
  <2> QED BY <1>3, <2>1
<1>5. IsPrefix(p, q)
  BY <1>1, <1>4 DEF IsPrefix
<1> QED BY <1>5 DEF IsSuffix, p, q

(* EndsWith is what InputValid says of the end of the input.               *)
LEMMA SuffixEnds ==
  ASSUME NEW kept \in Seq(MessageSet), NEW list \in Seq(MessageSet), NEW n \in Nat,
         n <= Len(kept), EndsWith(kept, list, n)
  PROVE  IsSuffix(SubSeq(kept, n + 1, Len(kept)), list)
<1> DEFINE s == SubSeq(kept, n + 1, Len(kept))
           a == Len(kept)
           b == Len(list)
<1>1. /\ a \in Nat /\ b \in Nat /\ s \in Seq(MessageSet) /\ Len(s) = a - n
      /\ \A i \in 1..a - n : s[i] = kept[n + i]
  OBVIOUS
<1>2. a - n <= b /\ \A k \in n + 1..a : list[b - (a - k)] = kept[k]
  BY DEF EndsWith
<1> HIDE DEF s, a, b
<1>3. ASSUME NEW i \in 1..Len(s) PROVE s[i] = list[(b - Len(s)) + i]
  <2>1. n + i \in n + 1..a /\ (b - Len(s)) + i = b - (a - (n + i)) /\ i \in 1..a - n
    BY <1>1
  <2> QED BY <1>1, <1>2, <2>1
<1>4. Len(s) <= b
  BY <1>1, <1>2
<1>5. IsSuffix(s, list)
  BY <1>1, <1>3, <1>4, SuffixAt DEF b
<1> QED BY <1>5 DEF s, a

(* One message of the list is the one at the start, or an edit of it. *)
LEMMA OneCopy ==
  ASSUME NEW start, IsStart(start), NEW list \in Seq(MessageSet), Unique(list),
         Present(list, start), NEW m \in ToSet(start)
  PROVE  Cardinality(Copies(list, m)) = 1
<1>1. PICK p \in DOMAIN start : m = start[p]
  BY DEF ToSet
<1>2. m.id = p
  BY <1>1, StartMessages
<1>3. PICK i \in DOMAIN list : list[i].id = p
  BY <1>1 DEF Present
<1>4. ASSUME NEW j \in DOMAIN list, list[j].id \in {m.id, -m.id} PROVE j = i
  BY <1>2, <1>3, <1>4 DEF Unique
<1>5. Copies(list, m) = {i}
  BY <1>2, <1>3, <1>4 DEF Copies
<1> QED BY <1>5, FS_Singleton

(* The invariant has what is asked of the input.                           *)
LEMMA InvValid ==
  ASSUME Inv
  PROVE  InputValid
<1> SUFFICES ASSUME pc = "model"
             PROVE  /\ setting.strategy # "none" =>
                         /\ Ids(prefix) \subseteq Ids(input)
                         /\ IsSuffix(SubSeq(messages, settled + 1, Len(messages)), Unwarned(input))
                    /\ ~PrefixEdited =>
                         /\ Valid(input)
                         /\ setting.strategy # "none" =>
                              \A m \in ToSet(prefix) : Cardinality(Copies(input, m)) = 1
  BY DEF InputValid
<1>1. Running
  BY DEF Running, Over
<1>2. ScalarsOK /\ HistoryInv /\ ListsInv /\ CompactedInv
  BY <1>1, FromInv
<1>3. /\ Kept = messages /\ Open = {}
      /\ input = IF setting.strategy = "none" THEN messages ELSE compacted
  BY <1>2 DEF Kept, Open, ListsInv
<1>4. messages \in Seq(MessageSet) /\ Good(messages, {}, last_id)
  BY <1>2, <1>3, GoodWithin DEF HistoryInv
<1>5. CASE setting.strategy = "none"
  <2>1. Valid(messages)
    BY <1>4, GoodValid
  <2> QED BY <1>3, <1>5, <2>1
<1>6. CASE setting.strategy # "none"
  <2>1. SinceInv /\ (~PrefixEdited => CompactInv)
    BY <1>2, <1>6 DEF CompactedInv
  <2>2. /\ Present(Whole, prefix) /\ EndsWith(messages, Unwarned(Whole), settled)
        /\ Ids(messages) \subseteq processed
    BY <1>3, <2>1 DEF SinceInv
  <2>3. input = Whole /\ input \in Seq(MessageSet)
    <3>1. compacted \in Seq(MessageSet)
      BY <1>2 DEF ListsInv
    <3>2. compacted \o UnseenOf(messages, processed) = compacted
      BY <1>4, <2>2, <3>1, AllSeen
    <3> QED BY <1>3, <1>6, <3>1, <3>2 DEF Whole
  <2>4. IsStart(prefix)
    BY <1>2, StartIs DEF HistoryInv, ScalarsOK
  <2>5. Ids(prefix) \subseteq Ids(input)
    <3>1. \A p \in DOMAIN prefix : prefix[p].id = p
      BY <2>4, StartMessages
    <3>2. \A p \in DOMAIN prefix : \E i \in DOMAIN input : input[i].id = p
      BY <2>2, <2>3 DEF Present
    <3> QED BY <3>1, <3>2 DEF Ids
  <2>6. IsSuffix(SubSeq(messages, settled + 1, Len(messages)), Unwarned(input))
    <3> DEFINE u == Unwarned(input)
    <3>1. settled \in Nat /\ settled <= Len(messages)
      BY <1>2, <1>3 DEF ScalarsOK, HistoryInv
    <3>2. u \in Seq(MessageSet)
      BY <2>3, AtEnum DEF Unwarned
    <3>3. EndsWith(messages, u, settled)
      BY <2>2, <2>3
    <3> HIDE DEF u
    <3>4. IsSuffix(SubSeq(messages, settled + 1, Len(messages)), u)
      BY <1>4, <3>1, <3>2, <3>3, SuffixEnds
    <3> QED BY <3>4 DEF u
  <2>7. ASSUME ~PrefixEdited
        PROVE  Valid(input) /\ \A m \in ToSet(prefix) : Cardinality(Copies(input, m)) = 1
    <3>1. Good(input, {}, last_id)
      BY <1>3, <2>1, <2>3, <2>7 DEF CompactInv
    <3>2. Unique(input) /\ Present(input, prefix)
      BY <2>2, <2>3, <3>1 DEF Good
    <3>3. Valid(input)
      BY <3>1, GoodValid
    <3> QED BY <2>3, <2>4, <3>2, <3>3, OneCopy
  <2> QED BY <2>5, <2>6, <2>7
<1> QED BY <1>5, <1>6

(* What a strategy gives the model holds the messages at the start and,    *)
(* but for warnings, ends with what has come since, in every setting; the  *)
(* input is valid and has the start once each, unless an edit reached it:  *)
(* compact_fn() of model/_compaction/_compaction.py.                       *)
THEOREM InputValidCorrect ==
  Spec => []InputValid
<1>1. Inv => InputValid
  BY InvValid
<1> QED BY <1>1, InvHolds, PTL
=============================================================================
