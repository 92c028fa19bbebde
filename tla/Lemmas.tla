--------------------------------- MODULE Lemmas ---------------------------------
(***************************************************************************)
(* Facts that the proofs about more than one module rest on: about the     *)
(* least element of a set, about sequences, about logs that keep their     *)
(* newest entries (push_log of ui/src/state.rs), and about the state one   *)
(* gets by applying the events of a channel one by one.                    *)
(***************************************************************************)
EXTENDS Integers, SequencesExt, SequenceTheorems, FiniteSetTheorems, WellFoundedInduction,
        TLAPS

-----------------------------------------------------------------------------
(***************************************************************************)
(* Sets and sequences.                                                     *)
(***************************************************************************)

\* A set of naturals has a least element.
LEMMA Least ==
  ASSUME NEW I \in SUBSET Nat, I # {} PROVE Min(I) \in I /\ \A j \in I : Min(I) <= j
<1> DEFINE R == OpToRel(<, Nat)
<1>1. R = {p \in Nat \X Nat : p[1] < p[2]}
  BY DEF OpToRel
<1>2. IsWellFoundedOn(R, Nat)
  BY NatLessThanWellFounded
<1> HIDE DEF R
<1>3. PICK i \in I : \A j \in I : <<j, i>> \notin R
  BY <1>2, WFMin
<1>4. \A j \in I : i <= j
  <2> TAKE j \in I
  <2>1. i \in Nat /\ j \in Nat
    OBVIOUS
  <2>2. j < i => <<j, i>> \in R
    BY <1>1, <2>1
  <2>3. ~(j < i)
    BY <1>3, <2>2
  <2> QED BY <2>1, <2>3
<1> QED BY <1>4 DEF Min

\* A slice of a sequence.
LEMMA Slice ==
  ASSUME NEW S, NEW f \in Seq(S), NEW m \in Nat \ {0}, NEW n \in Int, n <= Len(f)
  PROVE  /\ SubSeq(f, m, n) \in Seq(S)
         /\ Len(SubSeq(f, m, n)) = IF m <= n THEN n - m + 1 ELSE 0
         /\ \A i \in 1..n - m + 1 : SubSeq(f, m, n)[i] = f[m + i - 1]
<1>1. \A i \in m..n : f[i] \in S
  BY ElementOfSeq
<1> QED BY <1>1, SubSeqProperties

-----------------------------------------------------------------------------
(***************************************************************************)
(* Logs.                                                                   *)
(***************************************************************************)

\* The newest c elements of s.
LastOf(s, c) == IF Len(s) > c THEN SubSeq(s, Len(s) - c + 1, Len(s)) ELSE s

\* Capping keeps the newest elements.
LEMMA LastOfProperties ==
  ASSUME NEW S, NEW s \in Seq(S), NEW c \in Nat \ {0}
  PROVE  /\ LastOf(s, c) \in Seq(S)
         /\ Len(LastOf(s, c)) = IF Len(s) > c THEN c ELSE Len(s)
         /\ \A i \in 1..Len(LastOf(s, c)) :
              LastOf(s, c)[i] = s[i + Len(s) - Len(LastOf(s, c))]
<1>1. CASE Len(s) > c
  <2> DEFINE m == Len(s) - c + 1
  <2>1. m \in 1..Len(s) /\ Len(s) \in Nat /\ c \in Nat \ {0}
    BY <1>1
  <2>2. \A i \in m..Len(s) : s[i] \in S
    BY <2>1, ElementOfSeq
  <2>3. /\ SubSeq(s, m, Len(s)) \in Seq(S)
        /\ Len(SubSeq(s, m, Len(s))) = c
        /\ \A i \in 1..c : SubSeq(s, m, Len(s))[i] = s[m + i - 1]
    BY <2>1, <2>2, SubSeqProperties
  <2> QED BY <1>1, <2>1, <2>3 DEF LastOf
<1>2. CASE ~(Len(s) > c)
  BY <1>2 DEF LastOf
<1> QED BY <1>1, <1>2

\* h1 is h with e pushed onto it, and capped.
Pushed(h1, h, e, c) ==
  /\ Len(h1) = IF Len(h) + 1 > c THEN c ELSE Len(h) + 1
  /\ \A i \in 1..Len(h1) : h1[i] = IF i = Len(h1) THEN e ELSE h[i + Len(h) + 1 - Len(h1)]

LEMMA LastOfAppend ==
  ASSUME NEW S, NEW h \in Seq(S), NEW e \in S, NEW c \in Nat \ {0}
  PROVE  Pushed(LastOf(Append(h, e), c), h, e, c)
<1> DEFINE s == Append(h, e)
           h1 == LastOf(s, c)
<1>1. /\ s \in Seq(S) /\ Len(h) \in Nat /\ Len(s) = Len(h) + 1
      /\ \A i \in 1..Len(h) : s[i] = h[i]
      /\ s[Len(h) + 1] = e
  BY AppendProperties
<1> HIDE DEF s
<1>2. /\ Len(h1) = IF Len(s) > c THEN c ELSE Len(s)
      /\ \A i \in 1..Len(h1) : h1[i] = s[i + Len(s) - Len(h1)]
  BY <1>1, LastOfProperties
<1> HIDE DEF h1
<1>3. Len(h1) \in Nat /\ Len(h1) <= Len(h) + 1
  BY <1>1, <1>2
<1>4. ASSUME NEW i \in 1..Len(h1)
      PROVE  h1[i] = IF i = Len(h1) THEN e ELSE h[i + Len(h) + 1 - Len(h1)]
  <2>1. Len(h1) \in Nat /\ Len(h1) <= Len(h) + 1 /\ h1[i] = s[i + Len(s) - Len(h1)]
    BY <1>2, <1>3
  <2>2. i + Len(s) - Len(h1) = i + Len(h) + 1 - Len(h1)
    BY <1>1
  <2>3. CASE i = Len(h1)
    <3>1. i + Len(h) + 1 - Len(h1) = Len(h) + 1
      BY <1>1, <2>1, <2>3
    <3> QED BY <1>1, <2>1, <2>2, <2>3, <3>1
  <2>4. CASE i # Len(h1)
    <3>1. i + Len(h) + 1 - Len(h1) \in 1..Len(h)
      BY <1>1, <2>1, <2>4
    <3> QED BY <1>1, <2>1, <2>2, <2>4, <3>1
  <2> QED BY <2>3, <2>4
<1> QED BY <1>1, <1>2, <1>4 DEF Pushed, h1, s

\* Appending and then taking the last element away.
LEMMA FrontOfAppend ==
  ASSUME NEW S, NEW s \in Seq(S), NEW e \in S PROVE Front(Append(s, e)) = s
<1> DEFINE t == Append(s, e)
           n == Len(s)
<1>1. n \in Nat /\ t \in Seq(S) /\ Len(t) = n + 1 /\ \A i \in 1..n : t[i] = s[i]
  BY AppendProperties
<1>2. \A i \in 1..n : t[i] \in S
  BY <1>1, ElementOfSeq
<1> HIDE DEF t
<1>3. Front(t) = SubSeq(t, 1, n)
  BY <1>1 DEF Front
<1> SUFFICES SubSeq(t, 1, n) = s
  BY <1>3 DEF t
<1>4. \A i \in 1..n : 1 + i - 1 = i /\ i \in 1..n - 1 + 1
  BY <1>1
<1>5. n = Len(s) /\ s \in Seq(S)
  OBVIOUS
<1> HIDE DEF n
<1>6. /\ SubSeq(t, 1, n) \in Seq(S)
      /\ Len(SubSeq(t, 1, n)) = IF 1 <= n THEN n - 1 + 1 ELSE 0
      /\ \A i \in 1..n - 1 + 1 : SubSeq(t, 1, n)[i] = t[1 + i - 1]
  BY <1>1, <1>2, SubSeqProperties
<1>7. Len(SubSeq(t, 1, n)) = n /\ \A i \in 1..n : SubSeq(t, 1, n)[i] = s[i]
  BY <1>1, <1>4, <1>6
<1> QED BY <1>5, <1>6, <1>7, SeqEqual

\* Being the last elements of a sequence, one by one, is being its suffix.
LEMMA SuffixElements ==
  ASSUME NEW S, NEW s \in Seq(S), NEW t \in Seq(S), Len(s) <= Len(t),
         \A i \in 1..Len(s) : s[i] = t[Len(t) - Len(s) + i]
  PROVE  IsSuffix(s, t)
<1> DEFINE a == Reverse(s)
           b == Reverse(t)
           n == Len(s)
<1>1. Len(s) \in Nat /\ Len(t) \in Nat
  OBVIOUS
<1>2. /\ Len(a) = Len(s) /\ Len(b) = Len(t)
      /\ \A i \in 1..Len(s) : a[i] = s[(Len(s) - i) + 1]
      /\ \A i \in 1..Len(t) : b[i] = t[(Len(t) - i) + 1]
  BY <1>1 DEF Reverse
<1>3. \A i \in 1..n : a[i] \in S /\ b[i] = a[i]
  <2> SUFFICES ASSUME NEW i \in 1..n PROVE a[i] \in S /\ b[i] = a[i]
    OBVIOUS
  <2> HIDE DEF a, b
  <2>1. (Len(s) - i) + 1 \in 1..Len(s) /\ i \in 1..Len(t)
    BY <1>1
  <2>2. Len(t) - Len(s) + ((Len(s) - i) + 1) = (Len(t) - i) + 1
    BY <1>1
  <2>3. s[(Len(s) - i) + 1] \in S
    BY <2>1, ElementOfSeq
  <2>4. s[(Len(s) - i) + 1] = t[(Len(t) - i) + 1]
    BY <2>1, <2>2
  <2> QED BY <1>2, <2>1, <2>3, <2>4
<1> HIDE DEF a, b
<1>4. n \in Nat /\ n = Len(a) /\ Len(a) <= Len(b)
  BY <1>1, <1>2
<1> HIDE DEF n
<1>5. \A i \in 1..n : a[i] \in S /\ b[i] \in S
  BY <1>3
<1>6. /\ SubSeq(a, 1, n) \in Seq(S)
      /\ Len(SubSeq(a, 1, n)) = IF 1 <= n THEN n - 1 + 1 ELSE 0
      /\ \A i \in 1..n - 1 + 1 : SubSeq(a, 1, n)[i] = a[1 + i - 1]
  BY <1>4, <1>5, SubSeqProperties
<1>7. /\ SubSeq(b, 1, n) \in Seq(S)
      /\ Len(SubSeq(b, 1, n)) = IF 1 <= n THEN n - 1 + 1 ELSE 0
      /\ \A i \in 1..n - 1 + 1 : SubSeq(b, 1, n)[i] = b[1 + i - 1]
  BY <1>4, <1>5, SubSeqProperties
<1>8. Len(SubSeq(a, 1, n)) = n
  BY <1>4, <1>6
<1>9. \A i \in 1..n : 1 + i - 1 = i /\ i \in 1..n - 1 + 1
  BY <1>4
<1>10. \A i \in 1..n : SubSeq(a, 1, n)[i] = SubSeq(b, 1, n)[i]
  BY <1>3, <1>6, <1>7, <1>9
<1>11. SubSeq(a, 1, n) = SubSeq(b, 1, n)
  BY <1>6, <1>7, <1>8, <1>10, SeqEqual
<1> QED BY <1>4, <1>11 DEF IsSuffix, IsPrefix, a, b

-----------------------------------------------------------------------------
(***************************************************************************)
(* Channels.                                                               *)
(***************************************************************************)

\* s1 is s with e sent into it.
Appended(s1, s, e) ==
  /\ Len(s) \in Nat /\ Len(s1) = Len(s) + 1
  /\ DOMAIN s = 1..Len(s) /\ DOMAIN s1 = 1..Len(s) + 1
  /\ \A i \in 1..Len(s) : s1[i] = s[i]
  /\ s1[Len(s) + 1] = e

LEMMA AppendAppends ==
  ASSUME NEW S, NEW s \in Seq(S), NEW e \in S PROVE Appended(Append(s, e), s, e)
<1> DEFINE s1 == Append(s, e)
<1>1. /\ s1 \in Seq(S) /\ Len(s) \in Nat /\ Len(s1) = Len(s) + 1
      /\ \A i \in 1..Len(s) : s1[i] = s[i]
      /\ s1[Len(s) + 1] = e
  BY AppendProperties
<1> HIDE DEF s1
<1>2. DOMAIN s = 1..Len(s) /\ DOMAIN s1 = 1..Len(s1)
  BY <1>1, LenProperties
<1> QED BY <1>1, <1>2 DEF Appended, s1

\* s1 is what is left of s when its first element is taken.
Taken(s1, s) ==
  /\ Len(s) \in Nat \ {0} /\ Len(s1) = Len(s) - 1
  /\ DOMAIN s = 1..Len(s) /\ DOMAIN s1 = 1..Len(s) - 1
  /\ \A i \in 1..Len(s) - 1 : s1[i] = s[i + 1]

LEMMA TailTakes ==
  ASSUME NEW S, NEW s \in Seq(S), s # <<>>
  PROVE  Taken(Tail(s), s) /\ Tail(s) \in Seq(S) /\ Head(s) = s[1] /\ s[1] \in S
<1> DEFINE s1 == Tail(s)
<1>1. Len(s) \in Nat \ {0} /\ DOMAIN s = 1..Len(s)
  BY EmptySeq, LenProperties
<1>2. s1 \in Seq(S) /\ Len(s1) = Len(s) - 1 /\ \A i \in 1..Len(s) - 1 : s1[i] = s[i + 1]
  BY HeadTailProperties
<1> HIDE DEF s1
<1>3. DOMAIN s1 = 1..Len(s) - 1
  BY <1>2, LenProperties
<1>4. Head(s) = s[1] /\ s[1] \in S
  BY <1>1, ElementOfSeq
<1> QED BY <1>1, <1>2, <1>3, <1>4 DEF Taken, s1

\* The last event in q of one of these types, or else the panel itself, has
\* this address.
Latest(last, q, types, ip) ==
  /\ (\A i \in DOMAIN q : q[i].type \notin types) => last = ip
  /\ \A i \in DOMAIN q :
       (q[i].type \in types /\ \A j \in DOMAIN q : j > i => q[j].type \notin types)
         => q[i].ip = ip

\* Sending the address that is the last one now, or an event without one.
LEMMA LatestSend ==
  ASSUME NEW last, NEW q, NEW q1, NEW types, NEW ip, NEW ip1, NEW ev,
         Latest(last, q, types, ip), Appended(q1, q, ev),
         IF ev.type \in types THEN ev.ip = ip1 ELSE ip1 = ip
  PROVE  Latest(last, q1, types, ip1)
<1>1. CASE ev.type \in types
  BY <1>1 DEF Latest, Appended
<1>2. CASE ev.type \notin types
  BY <1>2 DEF Latest, Appended
<1> QED BY <1>1, <1>2

\* Applying the first event of the queue.
LEMMA LatestDrain ==
  ASSUME NEW last, NEW last1, NEW q, NEW q1, NEW types, NEW ip,
         Latest(last, q, types, ip), Taken(q1, q),
         last1 = IF q[1].type \in types THEN q[1].ip ELSE last
  PROVE  Latest(last1, q1, types, ip)
<1>1. \A i \in DOMAIN q1 : i + 1 \in DOMAIN q /\ q1[i] = q[i + 1]
  BY DEF Taken
<1>2. \A j \in DOMAIN q : j > 1 => j - 1 \in DOMAIN q1 /\ q1[j - 1] = q[j]
  BY DEF Taken
<1>3. 1 \in DOMAIN q /\ \A j \in DOMAIN q : j \in Nat /\ j >= 1
  BY DEF Taken
<1>4. ASSUME NEW i \in DOMAIN q1, q1[i].type \in types,
             \A j \in DOMAIN q1 : j > i => q1[j].type \notin types
      PROVE  q1[i].ip = ip
  <2>0. i \in Nat /\ i >= 1
    BY DEF Taken
  <2>1. \A j \in DOMAIN q : j > i + 1 => q[j].type \notin types
    BY <1>2, <1>3, <1>4, <2>0
  <2> QED BY <1>1, <1>4, <2>1 DEF Latest
<1>5. ASSUME \A i \in DOMAIN q1 : q1[i].type \notin types
      PROVE  last1 = ip
  <2>1. \A j \in DOMAIN q : j > 1 => q[j].type \notin types
    BY <1>2, <1>5
  <2>2. CASE q[1].type \in types
    BY <1>3, <2>1, <2>2 DEF Latest
  <2>3. CASE q[1].type \notin types
    <3>1. \A j \in DOMAIN q : q[j].type \notin types
      BY <1>3, <2>1, <2>3
    <3> QED BY <2>3, <3>1 DEF Latest
  <2> QED BY <2>2, <2>3
<1> QED BY <1>4, <1>5 DEF Latest

-----------------------------------------------------------------------------
(***************************************************************************)
(* What comes of the events of one type.                                   *)
(***************************************************************************)

\* h is the newest of the first m elements of r.
Newest(h, r, m, c) ==
  /\ Len(h) = IF m < c THEN m ELSE c
  /\ \A i \in 1..Len(h) : h[i] = r[m - Len(h) + i]

\* h is some of the first m elements of r, the last ones of them.
Trailing(h, r, m) ==
  /\ Len(h) <= m
  /\ \A i \in 1..Len(h) : h[i] = r[m - Len(h) + i]

\* The next element is pushed.
LEMMA TrailingPush ==
  ASSUME NEW h, NEW h1, NEW r, NEW c \in Nat \ {0}, NEW m \in Nat, Len(h) \in Nat,
         Trailing(h, r, m), Pushed(h1, h, r[m + 1], c)
  PROVE  Trailing(h1, r, m + 1)
<1>1. Len(h1) \in Nat /\ Len(h1) <= Len(h) + 1 /\ Len(h) <= m
  BY DEF Pushed, Trailing
<1>2. ASSUME NEW i \in 1..Len(h1) PROVE h1[i] = r[m + 1 - Len(h1) + i]
  <2>1. CASE i = Len(h1)
    <3>1. m + 1 - Len(h1) + i = m + 1
      BY <1>1, <2>1
    <3> QED BY <2>1, <3>1 DEF Pushed
  <2>2. CASE i # Len(h1)
    <3> DEFINE j == i + Len(h) + 1 - Len(h1)
    <3>1. h1[i] = h[j]
      BY <2>2 DEF Pushed
    <3>2. j \in 1..Len(h) /\ m - Len(h) + j = m + 1 - Len(h1) + i
      BY <1>1, <2>2
    <3> HIDE DEF j
    <3> QED BY <3>1, <3>2 DEF Trailing
  <2> QED BY <2>1, <2>2
<1> QED BY <1>1, <1>2 DEF Trailing

\* There are more elements.
LEMMA TrailingMore ==
  ASSUME NEW h, NEW r, NEW r1, NEW e, NEW m \in Nat, Len(h) \in Nat, m <= Len(r),
         Trailing(h, r, m), Appended(r1, r, e)
  PROVE  Trailing(h, r1, m)
<1>1. \A i \in 1..Len(h) : m - Len(h) + i \in 1..Len(r)
  BY DEF Trailing, Appended
<1> QED BY <1>1 DEF Trailing, Appended

\* There are no more.
LEMMA TrailingSuffix ==
  ASSUME NEW S, NEW h \in Seq(S), NEW r \in Seq(S), Trailing(h, r, Len(r))
  PROVE  IsSuffix(h, r)
BY SuffixElements DEF Trailing

\* g says how many of r the panel has been told of when it has applied the
\* first events of q: h is the newest of g[0] of them, and the rest of them
\* come in q, in order, with the events of this type.
Counts(g, h, q, r, c, type) ==
  /\ g \in [0..Len(q) -> 0..Len(r)]
  /\ g[Len(q)] = Len(r)
  /\ Newest(h, r, g[0], c)
  /\ \A i \in 1..Len(q) :
       IF q[i].type = type THEN g[i] = g[i - 1] + 1 /\ q[i].ip = r[g[i]]
                            ELSE g[i] = g[i - 1]

\* Sending an event of another type.
LEMMA CountOther ==
  ASSUME NEW g, NEW h, NEW q, NEW r, NEW q1, NEW ev, NEW c \in Nat, NEW type,
         Counts(g, h, q, r, c, type), Len(r) \in Nat,
         Appended(q1, q, ev), ev.type # type
  PROVE  \E g1 : Counts(g1, h, q1, r, c, type)
<1> USE DEF Appended
<1> DEFINE g1 == [i \in 0..Len(q1) |-> IF i = Len(q) + 1 THEN Len(r) ELSE g[i]]
<1>1. g1 \in [0..Len(q1) -> 0..Len(r)] /\ g1[Len(q1)] = Len(r) /\ g1[0] = g[0]
  BY DEF Counts
<1>2. \A i \in 0..Len(q) : g1[i] = g[i]
  OBVIOUS
<1>3. ASSUME NEW i \in 1..Len(q1)
      PROVE  IF q1[i].type = type THEN g1[i] = g1[i - 1] + 1 /\ q1[i].ip = r[g1[i]]
                                   ELSE g1[i] = g1[i - 1]
  <2>1. CASE i = Len(q) + 1
    <3>1. g[Len(q)] = Len(r) /\ i - 1 = Len(q) /\ Len(q) \in 0..Len(q)
      BY <2>1 DEF Counts
    <3>2. g1[i] = Len(r) /\ g1[i - 1] = Len(r)
      <4>1. g1[i] = Len(r)
        BY <2>1
      <4>2. g1[i - 1] = g[i - 1]
        BY <1>2, <3>1
      <4> QED BY <3>1, <4>1, <4>2
    <3> QED BY <2>1, <3>2
  <2>2. CASE i # Len(q) + 1
    <3>1. i \in 1..Len(q) /\ i - 1 \in 0..Len(q) /\ i \in 0..Len(q)
      BY <2>2
    <3> HIDE DEF g1
    <3> QED BY <1>2, <3>1 DEF Counts
  <2> QED BY <2>1, <2>2
<1> HIDE DEF g1
<1> QED BY <1>1, <1>3 DEF Counts

\* Sending an event of that type.
LEMMA CountReport ==
  ASSUME NEW g, NEW h, NEW q, NEW r, NEW q1, NEW r1, NEW ev, NEW c \in Nat,
         NEW type, Counts(g, h, q, r, c, type),
         Appended(q1, q, ev), Appended(r1, r, ev.ip), ev.type = type
  PROVE  \E g1 : Counts(g1, h, q1, r1, c, type)
<1>0. /\ Len(q) \in Nat /\ Len(q1) = Len(q) + 1 /\ q1[Len(q) + 1] = ev
      /\ \A i \in 1..Len(q) : q1[i] = q[i]
      /\ Len(r) \in Nat /\ Len(r1) = Len(r) + 1 /\ r1[Len(r) + 1] = ev.ip
      /\ \A i \in 1..Len(r) : r1[i] = r[i]
  BY DEF Appended
<1> DEFINE g1 == [i \in 0..Len(q1) |-> IF i = Len(q) + 1 THEN Len(r) + 1 ELSE g[i]]
<1>1. g1 \in [0..Len(q1) -> 0..Len(r1)] /\ g1[Len(q1)] = Len(r1) /\ g1[0] = g[0]
  BY <1>0 DEF Counts
<1>2. \A i \in 0..Len(q) : g1[i] = g[i] /\ g[i] \in 0..Len(r)
  BY <1>0 DEF Counts
<1>3. ASSUME NEW i \in 1..Len(q1)
      PROVE  IF q1[i].type = type THEN g1[i] = g1[i - 1] + 1 /\ q1[i].ip = r1[g1[i]]
                                   ELSE g1[i] = g1[i - 1]
  <2>1. CASE i = Len(q) + 1
    <3>1. g1[i] = Len(r) + 1 /\ g1[i - 1] = Len(r)
      BY <1>0, <1>2, <2>1 DEF Counts
    <3> QED BY <1>0, <2>1, <3>1
  <2>2. CASE i # Len(q) + 1
    <3>1. i \in 1..Len(q) /\ i - 1 \in 0..Len(q) /\ i \in 0..Len(q)
      BY <1>0, <2>2
    <3> HIDE DEF g1
    <3>2. q1[i] = q[i] /\ g1[i] = g[i] /\ g1[i - 1] = g[i - 1]
      BY <1>0, <1>2, <3>1
    <3>3. CASE q[i].type = type
      <4>1. g[i] = g[i - 1] + 1 /\ q[i].ip = r[g[i]]
        BY <3>1, <3>3 DEF Counts
      <4>2. g[i] \in 1..Len(r)
        BY <1>0, <1>2, <3>1, <4>1
      <4> QED BY <1>0, <3>2, <3>3, <4>1, <4>2
    <3>4. CASE q[i].type # type
      BY <3>1, <3>2, <3>4 DEF Counts
    <3> QED BY <3>3, <3>4
  <2> QED BY <2>1, <2>2
<1>4. Newest(h, r1, g1[0], c)
  <2>0. 0 \in 0..Len(q)
    BY <1>0
  <2>1. g[0] \in 0..Len(r)
    BY <1>2, <2>0
  <2>2. Newest(h, r, g[0], c) /\ c \in Nat
    BY DEF Counts
  <2> DEFINE m == g[0]
  <2>3. g1[0] = m /\ m \in 0..Len(r) /\ Newest(h, r, m, c)
    BY <1>1, <2>1, <2>2
  <2> HIDE DEF m, g1
  <2>4. ASSUME NEW i \in 1..Len(h) PROVE h[i] = r1[m - Len(h) + i]
    <3>1. m - Len(h) + i \in 1..Len(r)
      BY <1>0, <2>2, <2>3 DEF Newest
    <3>2. h[i] = r[m - Len(h) + i]
      BY <2>3 DEF Newest
    <3> QED BY <1>0, <3>1, <3>2
  <2> QED BY <2>3, <2>4 DEF Newest
<1> HIDE DEF g1
<1> QED BY <1>1, <1>3, <1>4 DEF Counts

\* h1 is h when ev has been applied.
Applied(h1, h, ev, c, type) ==
  IF ev.type = type THEN Pushed(h1, h, ev.ip, c) ELSE h1 = h

\* Applying the first event of the queue.
LEMMA CountDrain ==
  ASSUME NEW g, NEW h, NEW q, NEW r, NEW q1, NEW h1, NEW c, NEW type,
         c \in Nat \ {0}, Len(h) \in Nat, Len(r) \in Nat,
         Counts(g, h, q, r, c, type), Taken(q1, q), Applied(h1, h, q[1], c, type)
  PROVE  \E g1 : Counts(g1, h1, q1, r, c, type)
<1> USE DEF Taken
<1> DEFINE g1 == [i \in 0..Len(q1) |-> g[i + 1]]
<1>1. g1 \in [0..Len(q1) -> 0..Len(r)] /\ g1[Len(q1)] = Len(r) /\ g1[0] = g[1]
  BY DEF Counts
<1>2. ASSUME NEW i \in 1..Len(q1)
      PROVE  IF q1[i].type = type THEN g1[i] = g1[i - 1] + 1 /\ q1[i].ip = r[g1[i]]
                                   ELSE g1[i] = g1[i - 1]
  <2>1. g1[i] = g[i + 1] /\ g1[i - 1] = g[i] /\ q1[i] = q[i + 1] /\ i + 1 \in 1..Len(q)
    OBVIOUS
  <2> HIDE DEF g1
  <2> QED BY <2>1 DEF Counts
<1> HIDE DEF g1
<1>3. Newest(h1, r, g[1], c)
  <2>1. /\ Newest(h, r, g[0], c)
        /\ g \in [0..Len(q) -> 0..Len(r)]
        /\ 0 \in 0..Len(q) /\ 1 \in 0..Len(q)
        /\ IF q[1].type = type THEN g[1] = g[0] + 1 /\ q[1].ip = r[g[1]] ELSE g[1] = g[0]
    BY DEF Counts
  <2> DEFINE m == g[0]
             n == g[1]
  <2>2. m \in Nat /\ n \in Nat /\ Newest(h, r, m, c)
    BY <2>1
  <2>3. CASE q[1].type # type
    BY <2>1, <2>3 DEF Applied
  <2>4. CASE q[1].type = type
    <3>1. n = m + 1 /\ Pushed(h1, h, r[n], c)
      BY <2>1, <2>4 DEF Applied
    <3> HIDE DEF m, n
    <3>2. Len(h1) = IF n < c THEN n ELSE c
      BY <2>2, <3>1 DEF Newest, Pushed
    <3>3. Len(h1) \in Nat
      BY <2>2, <3>2
    <3>4. ASSUME NEW i \in 1..Len(h1) PROVE h1[i] = r[n - Len(h1) + i]
      <4>1. CASE i = Len(h1)
        <5>1. n - Len(h1) + i = n
          BY <2>2, <3>3, <4>1
        <5> QED BY <3>1, <4>1, <5>1 DEF Pushed
      <4>2. CASE i # Len(h1)
        <5> DEFINE j == i + Len(h) + 1 - Len(h1)
        <5>1. h1[i] = h[j]
          BY <3>1, <4>2 DEF Pushed
        <5>2. Len(h1) <= Len(h) + 1
          BY <3>1 DEF Pushed
        <5>3. j \in 1..Len(h) /\ m - Len(h) + j = n - Len(h1) + i
          BY <2>2, <3>1, <3>3, <4>2, <5>2
        <5> HIDE DEF j
        <5> QED BY <2>2, <5>1, <5>3 DEF Newest
      <4> QED BY <4>1, <4>2
    <3> QED BY <3>2, <3>4 DEF Newest, n
  <2> QED BY <2>3, <2>4
<1> QED BY <1>1, <1>2, <1>3 DEF Counts

\* At first there is nothing to tell.
LEMMA CountNothing ==
  ASSUME NEW q, NEW c \in Nat \ {0}, NEW type, Len(q) \in Nat,
         \A i \in 1..Len(q) : q[i].type # type
  PROVE  \E g : Counts(g, <<>>, q, <<>>, c, type)
<1> DEFINE g == [i \in 0..Len(q) |-> 0]
<1>1. g \in [0..Len(q) -> 0..Len(<<>>)] /\ g[Len(q)] = Len(<<>>) /\ g[0] = 0
  OBVIOUS
<1>2. \A i \in 1..Len(q) : g[i] = 0 /\ g[i - 1] = 0
  OBVIOUS
<1>3. Newest(<<>>, <<>>, 0, c)
  BY DEF Newest
<1> HIDE DEF g
<1> QED BY <1>1, <1>2, <1>3 DEF Counts

\* In the end there is nothing more to tell.
LEMMA CountAll ==
  ASSUME NEW S, NEW g, NEW h \in Seq(S), NEW r \in Seq(S), NEW c \in Nat \ {0}, NEW type,
         Counts(g, h, <<>>, r, c, type)
  PROVE  IsSuffix(h, r) /\ Len(h) = IF Len(r) < c THEN Len(r) ELSE c
<1>1. Newest(h, r, Len(r), c)
  BY DEF Counts
<1>2. Len(h) \in Nat /\ Len(r) \in Nat /\ Len(h) <= Len(r)
  BY <1>1 DEF Newest
<1>3. IsSuffix(h, r)
  BY <1>1, <1>2, SuffixElements DEF Newest
<1> QED BY <1>1, <1>3 DEF Newest

-----------------------------------------------------------------------------
(***************************************************************************)
(* How many events of one type are in a channel.                           *)
(***************************************************************************)

\* The places of the events of one type.
Places(q, type) == {i \in DOMAIN q : q[i].type = type}

LEMMA PlacesFinite ==
  ASSUME NEW q, NEW type, Len(q) \in Nat, DOMAIN q = 1..Len(q)
  PROVE  IsFiniteSet(Places(q, type)) /\ Cardinality(Places(q, type)) \in Nat
<1>1. Places(q, type) \in SUBSET Nat /\ \A i \in Places(q, type) : i <= Len(q)
  BY DEF Places
<1>2. IsFiniteSet(Places(q, type))
  BY <1>1, FS_BoundedSetOfNaturals
<1> QED BY <1>2, FS_CardinalityType

\* There is one more when an event of the type is sent.
LEMMA PlacesAppended ==
  ASSUME NEW q, NEW q1, NEW ev, NEW type, Appended(q1, q, ev)
  PROVE  Cardinality(Places(q1, type))
           = IF ev.type = type THEN Cardinality(Places(q, type)) + 1
                               ELSE Cardinality(Places(q, type))
<1>0. Len(q) \in Nat /\ DOMAIN q = 1..Len(q)
  BY DEF Appended
<1>1. IsFiniteSet(Places(q, type))
  BY <1>0, PlacesFinite
<1>2. CASE ev.type = type
  <2>1. Places(q1, type) = Places(q, type) \cup {Len(q) + 1}
    BY <1>2 DEF Places, Appended
  <2>2. Len(q) + 1 \notin Places(q, type)
    BY <1>0 DEF Places
  <2>3. Cardinality(Places(q, type) \cup {Len(q) + 1}) = Cardinality(Places(q, type)) + 1
    BY ONLY <1>1, <2>2, FS_AddElement
  <2> QED BY <1>2, <2>1, <2>3
<1>3. CASE ev.type # type
  <2>1. Places(q1, type) = Places(q, type)
    BY <1>3 DEF Places, Appended
  <2> QED BY <1>3, <2>1
<1> QED BY <1>2, <1>3

\* There is one less when an event of the type is taken.
LEMMA PlacesTaken ==
  ASSUME NEW q, NEW q1, NEW type, Taken(q1, q)
  PROVE  Cardinality(Places(q1, type))
           = IF q[1].type = type THEN Cardinality(Places(q, type)) - 1
                                 ELSE Cardinality(Places(q, type))
<1> DEFINE P == Places(q, type)
           P1 == Places(q1, type)
           R == P \ {1}
           f == [i \in P1 |-> i + 1]
<1>1. /\ Len(q) \in Nat \ {0} /\ DOMAIN q = 1..Len(q) /\ DOMAIN q1 = 1..Len(q) - 1
      /\ Len(q1) = Len(q) - 1 /\ \A i \in 1..Len(q) - 1 : q1[i] = q[i + 1]
  BY DEF Taken
<1>2. IsFiniteSet(P) /\ IsFiniteSet(P1)
  BY <1>1, PlacesFinite
<1>3. \A i \in P1 : i \in Nat /\ i + 1 \in R
  BY <1>1 DEF Places
<1>4. \A j \in R : j \in Nat /\ j - 1 \in P1 /\ (j - 1) + 1 = j
  BY <1>1 DEF Places
<1>5. 1 \in P <=> q[1].type = type
  BY <1>1 DEF Places
<1> HIDE DEF P, P1
<1>6. f \in [P1 -> R]
  BY <1>3
<1>7. \A i, j \in P1 : f[i] = f[j] => i = j
  BY <1>3
<1>8. \A j \in R : \E i \in P1 : f[i] = j
  BY <1>4
<1>9. f \in Bijection(P1, R)
  BY <1>6, <1>7, <1>8 DEF Bijection, Injection, Surjection, IsInjective
<1>10. Cardinality(R) = Cardinality(P1)
  <2>1. ExistsBijection(P1, R)
    BY <1>9 DEF ExistsBijection
  <2> HIDE DEF R, f
  <2> QED BY <1>2, <2>1, FS_Bijection
<1>11. Cardinality(R) = IF 1 \in P THEN Cardinality(P) - 1 ELSE Cardinality(P)
  BY <1>2, FS_RemoveElement
<1> QED BY <1>5, <1>10, <1>11 DEF P, P1

-----------------------------------------------------------------------------
(***************************************************************************)
(* What is shown at every moment.                                          *)
(***************************************************************************)

\* The nth element of r, or none when there is nothing yet.
At(r, n, none) == IF n = 0 THEN none ELSE r[n]

\* t says how many of r have been told when the first events of q are applied;
\* what is shown now is the last of t[0] of them, and an event that has news,
\* or says the same again, carries the last of those told when it is applied.
Follows(t, shown, q, r, none, news, again) ==
  /\ t \in [0..Len(q) -> 0..Len(r)]
  /\ shown = At(r, t[0], none)
  /\ \A i \in 1..Len(q) :
       /\ t[i] = IF q[i].type = news THEN t[i - 1] + 1 ELSE t[i - 1]
       /\ q[i].type \in {news, again} => t[i] # 0 /\ q[i].ip = r[t[i]]

\* In the end all of r will have been told.
Tells(t, shown, q, r, none, news, again) ==
  Follows(t, shown, q, r, none, news, again) /\ t[Len(q)] = Len(r)

\* Sending an event, when which n of r have been told.
LEMMA FollowsSend ==
  ASSUME NEW t, NEW shown, NEW q, NEW r, NEW none, NEW news, NEW again, NEW q1, NEW ev,
         Follows(t, shown, q, r, none, news, again), Len(r) \in Nat, Appended(q1, q, ev),
         NEW n \in 0..Len(r), n = IF ev.type = news THEN t[Len(q)] + 1 ELSE t[Len(q)],
         ev.type \in {news, again} => n # 0 /\ ev.ip = r[n]
  PROVE  \E u : /\ Follows(u, shown, q1, r, none, news, again)
                /\ u[0] = t[0] /\ u[Len(q1)] = n
<1>0. /\ Len(q) \in Nat /\ Len(q1) = Len(q) + 1 /\ q1[Len(q) + 1] = ev
      /\ \A i \in 1..Len(q) : q1[i] = q[i]
  BY DEF Appended
<1> DEFINE u == [i \in 0..Len(q1) |-> IF i = Len(q) + 1 THEN n ELSE t[i]]
<1>1. u \in [0..Len(q1) -> 0..Len(r)] /\ u[Len(q1)] = n /\ u[0] = t[0]
  BY <1>0 DEF Follows
<1>2. \A i \in 0..Len(q) : u[i] = t[i]
  BY <1>0
<1>3. ASSUME NEW i \in 1..Len(q1)
      PROVE  /\ u[i] = IF q1[i].type = news THEN u[i - 1] + 1 ELSE u[i - 1]
             /\ q1[i].type \in {news, again} => u[i] # 0 /\ q1[i].ip = r[u[i]]
  <2>1. CASE i = Len(q) + 1
    <3>1. u[i] = n /\ u[i - 1] = t[Len(q)] /\ q1[i] = ev
      BY <1>0, <1>2, <2>1
    <3> HIDE DEF u
    <3> QED BY <3>1
  <2>2. CASE i # Len(q) + 1
    <3>1. i \in 1..Len(q) /\ i - 1 \in 0..Len(q) /\ i \in 0..Len(q)
      BY <1>0, <2>2
    <3>2. q1[i] = q[i] /\ u[i] = t[i] /\ u[i - 1] = t[i - 1]
      BY <1>0, <1>2, <3>1
    <3> HIDE DEF u
    <3> QED BY <3>1, <3>2 DEF Follows
  <2> QED BY <2>1, <2>2
<1> HIDE DEF u
<1> QED BY <1>1, <1>3 DEF Follows

\* There is more to tell.
LEMMA FollowsMore ==
  ASSUME NEW t, NEW shown, NEW q, NEW r, NEW r1, NEW e, NEW none, NEW news, NEW again,
         Follows(t, shown, q, r, none, news, again), Appended(r1, r, e), Len(q) \in Nat
  PROVE  Follows(t, shown, q, r1, none, news, again)
<1>1. /\ Len(r) \in Nat /\ Len(r1) = Len(r) + 1
      /\ \A i \in 1..Len(r) : r1[i] = r[i]
  BY DEF Appended
<1>2. \A i \in 0..Len(q) : t[i] \in 0..Len(r) /\ (t[i] # 0 => r1[t[i]] = r[t[i]])
  BY <1>1 DEF Follows
<1>3. t \in [0..Len(q) -> 0..Len(r1)]
  BY <1>1 DEF Follows
<1>4. shown = At(r1, t[0], none)
  BY <1>2 DEF Follows, At
<1>5. \A i \in 1..Len(q) : i \in 0..Len(q)
  OBVIOUS
<1> QED BY <1>2, <1>3, <1>4, <1>5 DEF Follows

\* Applying the first event of the queue.
LEMMA FollowsDrain ==
  ASSUME NEW t, NEW shown, NEW shown1, NEW q, NEW q1, NEW r, NEW none, NEW news, NEW again,
         Follows(t, shown, q, r, none, news, again), Taken(q1, q),
         shown1 = IF q[1].type \in {news, again} THEN q[1].ip ELSE shown
  PROVE  /\ \E u : /\ Follows(u, shown1, q1, r, none, news, again)
                   /\ u[0] = t[1] /\ u[Len(q1)] = t[Len(q)]
         /\ t[0] \in 0..Len(r) /\ t[1] \in 0..Len(r) /\ shown1 = At(r, t[1], none)
         /\ t[1] = IF q[1].type = news THEN t[0] + 1 ELSE t[0]
         /\ q[1].type = news => q[1].ip = r[t[1]]
<1>0. /\ Len(q) \in Nat \ {0} /\ Len(q1) = Len(q) - 1
      /\ \A i \in 1..Len(q) - 1 : q1[i] = q[i + 1]
  BY DEF Taken
<1> DEFINE u == [i \in 0..Len(q1) |-> t[i + 1]]
<1>1. u \in [0..Len(q1) -> 0..Len(r)] /\ u[Len(q1)] = t[Len(q)] /\ u[0] = t[1]
  BY <1>0 DEF Follows
<1>2. ASSUME NEW i \in 1..Len(q1)
      PROVE  /\ u[i] = IF q1[i].type = news THEN u[i - 1] + 1 ELSE u[i - 1]
             /\ q1[i].type \in {news, again} => u[i] # 0 /\ q1[i].ip = r[u[i]]
  <2>1. u[i] = t[i + 1] /\ u[i - 1] = t[i] /\ q1[i] = q[i + 1] /\ i + 1 \in 1..Len(q)
        /\ (i + 1) - 1 = i
    BY <1>0
  <2> HIDE DEF u
  <2> QED BY <2>1 DEF Follows
<1>3. /\ t[0] \in 0..Len(r) /\ t[1] \in 0..Len(r)
      /\ t[1] = IF q[1].type = news THEN t[0] + 1 ELSE t[0]
      /\ q[1].type \in {news, again} => t[1] # 0 /\ q[1].ip = r[t[1]]
      /\ shown = At(r, t[0], none)
  <2>1. 0 \in 0..Len(q) /\ 1 \in 0..Len(q) /\ 1 \in 1..Len(q) /\ 1 - 1 = 0
    BY <1>0
  <2> QED BY <2>1 DEF Follows
<1>4. shown1 = At(r, t[1], none)
  BY <1>3 DEF At
<1> HIDE DEF u
<1>5. Follows(u, shown1, q1, r, none, news, again)
  BY <1>1, <1>2, <1>4 DEF Follows
<1> QED BY <1>1, <1>3, <1>4, <1>5

\* Sending an event without news, when all will have been told.
LEMMA TellsOther ==
  ASSUME NEW t, NEW shown, NEW q, NEW r, NEW none, NEW news, NEW again, NEW q1, NEW ev,
         Tells(t, shown, q, r, none, news, again), Len(r) \in Nat, Appended(q1, q, ev),
         ev.type # news, ev.type = again => Len(r) # 0 /\ ev.ip = r[Len(r)]
  PROVE  \E u : Tells(u, shown, q1, r, none, news, again) /\ u[0] = t[0]
<1> DEFINE n == Len(r)
<1>1. /\ n \in 0..Len(r) /\ n = IF ev.type = news THEN t[Len(q)] + 1 ELSE t[Len(q)]
      /\ ev.type \in {news, again} => n # 0 /\ ev.ip = r[n]
      /\ Follows(t, shown, q, r, none, news, again)
  BY DEF Tells
<1> HIDE DEF n
<1>2. PICK u : Follows(u, shown, q1, r, none, news, again) /\ u[0] = t[0] /\ u[Len(q1)] = n
  BY ONLY <1>1, Len(r) \in Nat, Appended(q1, q, ev), FollowsSend
<1> QED BY <1>2 DEF Tells, n

\* Sending news.
LEMMA TellsNews ==
  ASSUME NEW t, NEW shown, NEW q, NEW r, NEW none, NEW news, NEW again, NEW q1, NEW r1, NEW ev,
         Tells(t, shown, q, r, none, news, again),
         Appended(q1, q, ev), Appended(r1, r, ev.ip), ev.type = news
  PROVE  \E u : Tells(u, shown, q1, r1, none, news, again) /\ u[0] = t[0]
<1> DEFINE n == Len(r1)
<1>0. /\ Len(q) \in Nat /\ Len(r) \in Nat /\ Len(r1) = Len(r) + 1 /\ r1[Len(r1)] = ev.ip
  BY DEF Appended
<1>1. Follows(t, shown, q, r1, none, news, again)
  <2>1. Follows(t, shown, q, r, none, news, again)
    BY DEF Tells
  <2> QED BY ONLY <1>0, <2>1, Appended(r1, r, ev.ip), FollowsMore
<1>2. /\ n \in 0..Len(r1) /\ n = IF ev.type = news THEN t[Len(q)] + 1 ELSE t[Len(q)]
      /\ ev.type \in {news, again} => n # 0 /\ ev.ip = r1[n]
      /\ Len(r1) \in Nat
  BY <1>0 DEF Tells
<1> HIDE DEF n
<1>3. PICK u : Follows(u, shown, q1, r1, none, news, again) /\ u[0] = t[0] /\ u[Len(q1)] = n
  BY ONLY <1>1, <1>2, Appended(q1, q, ev), FollowsSend
<1> QED BY <1>3 DEF Tells, n

\* Applying the first event of the queue.
LEMMA TellsDrain ==
  ASSUME NEW t, NEW shown, NEW shown1, NEW q, NEW q1, NEW r, NEW none, NEW news, NEW again,
         Tells(t, shown, q, r, none, news, again), Taken(q1, q),
         shown1 = IF q[1].type \in {news, again} THEN q[1].ip ELSE shown
  PROVE  /\ \E u : Tells(u, shown1, q1, r, none, news, again) /\ u[0] = t[1]
         /\ t[0] \in 0..Len(r) /\ t[1] \in 0..Len(r) /\ shown1 = At(r, t[1], none)
         /\ t[1] = IF q[1].type = news THEN t[0] + 1 ELSE t[0]
<1>1. Follows(t, shown, q, r, none, news, again) /\ t[Len(q)] = Len(r)
  BY DEF Tells
<1>2. /\ \E u : /\ Follows(u, shown1, q1, r, none, news, again)
                /\ u[0] = t[1] /\ u[Len(q1)] = t[Len(q)]
      /\ t[0] \in 0..Len(r) /\ t[1] \in 0..Len(r) /\ shown1 = At(r, t[1], none)
      /\ t[1] = IF q[1].type = news THEN t[0] + 1 ELSE t[0]
  BY ONLY <1>1, Taken(q1, q),
     shown1 = IF q[1].type \in {news, again} THEN q[1].ip ELSE shown, FollowsDrain
<1> QED BY <1>1, <1>2 DEF Tells
=============================================================================
