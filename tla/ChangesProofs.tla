---------------------------- MODULE ChangesProofs ----------------------------
(***************************************************************************)
(* Proofs about the change feed (Changes): as long as one thread uses the  *)
(* connection, subscribers hear of committed changes only, in the order of *)
(* their commits, and miss those alone whose savepoint was released.       *)
(***************************************************************************)
EXTENDS Changes, OrderLemmas

\* One thread uses the connection, within the bounds.
OneThread == ChangesAssumption /\ \E t : Thread = {t}

Increasing(s) == \A i, j \in DOMAIN s : i < j => s[i] < s[j]

\* A change of the open transaction, which may have passed to a surrounding savepoint.
Covered(p) == \E e \in ToSet(open) : e.change = p.change /\ e.depth <= p.depth

\* What may be pending: such a change, or one whose rollback failed.
Accounted(p) == Covered(p) \/ p.change \in stranded

\* Changes are numbered in the order in which they are made, committed and published.
Ordered ==
  /\ Increasing(committed) /\ Increasing(published)
  /\ Increasing(NamesOf(open)) /\ Increasing(NamesOf(pending))
  /\ \A t \in Thread : Increasing(ready[t])
  /\ \A c \in ToSet(committed) : c <= changes /\ \A e \in ToSet(open) : c < e.change
  /\ \A e \in ToSet(open) \cup ToSet(pending) : e.change <= changes

\* What is published comes before what is pending or ready.
Ahead ==
  \A c \in ToSet(published) :
    /\ \A p \in ToSet(pending) : c < p.change
    /\ \A t \in Thread : \A d \in ToSet(ready[t]) : c < d

Known ==
  /\ ToSet(published) \subseteq ToSet(committed) \cup stranded
  /\ \A t \in Thread : ToSet(ready[t]) \subseteq ToSet(committed) \cup stranded
  /\ \A c \in stranded : c <= changes

Outside == ~ inTx => open = <<>> /\ depth = 0

\* What is pending while thread t is between statements, or has a change to queue.
Resting(t) ==
  call[t].do \in {"none", "queue"} => \A p \in ToSet(pending) : Accounted(p)

\* What the call of thread t has captured still holds when it is carried out.
Queueing(t) ==
  call[t].do = "queue" =>
    LET e == call[t].entry
    IN  /\ call[t].inTx = inTx
        /\ e.change = changes
        /\ \A p \in ToSet(pending) : p.change < changes
        /\ \A c \in ToSet(published) : c < changes
        /\ IF inTx THEN Covered(e) ELSE e.change \in ToSet(committed)

Discarding(t) ==
  call[t].do = "discard" =>
    /\ inTx
    /\ \A p \in ToSet(pending) : p.depth <= call[t].depth => Accounted(p)
    /\ \A e \in ToSet(open) : e.depth <= call[t].depth

Finishing(t) ==
  /\ call[t].do \in {"publish", "drop"} => ~ inTx
  /\ call[t].do = "publish" =>
       ToSet(NamesOf(pending)) \subseteq ToSet(committed) \cup stranded

Releasing(t) == ready[t] # <<>> => call[t] = NoCall /\ pending = <<>>

\* A change of the open transaction is pending, unless its savepoint was released.
Queued(t) ==
  \A e \in ToSet(open) : e.change \notin moved =>
    \/ e \in ToSet(pending)
    \/ call[t].do = "queue" /\ e = call[t].entry

\* A committed change was published, or is about to be.
Underway(t) ==
  \A c \in ToSet(committed) \ moved :
    \/ c \in ToSet(published) \cup ToSet(ready[t])
    \/ call[t].do = "publish" /\ c \in ToSet(NamesOf(pending))
    \/ call[t].do = "queue" /\ ~ inTx /\ c = call[t].entry.change

Step(t) ==
  /\ Resting(t) /\ Queueing(t) /\ Discarding(t) /\ Finishing(t) /\ Releasing(t)
  /\ Queued(t) /\ Underway(t)

IInv == FeedTypeOK /\ Ordered /\ Ahead /\ Known /\ Outside /\ \A t \in Thread : Step(t)

-----------------------------------------------------------------------------
(* Sequences of changes.                                                   *)

\* Appending adds one member.
LEMMA AppendSet ==
  ASSUME NEW S, NEW s \in Seq(S), NEW e \in S
  PROVE  /\ Append(s, e) \in Seq(S)
         /\ ToSet(Append(s, e)) = ToSet(s) \cup {e}
<1>1. /\ Append(s, e) \in Seq(S) /\ Len(Append(s, e)) = Len(s) + 1
      /\ \A i \in 1 .. Len(s) : Append(s, e)[i] = s[i]
      /\ Append(s, e)[Len(s) + 1] = e
  OBVIOUS
<1>2. DOMAIN s = 1 .. Len(s) /\ DOMAIN Append(s, e) = 1 .. Len(s) + 1 /\ Len(s) \in Nat
  BY <1>1, LenProperties
<1>3. QED
  BY <1>1, <1>2 DEF ToSet

\* Concatenation unites the members.
LEMMA ConcatSet ==
  ASSUME NEW S, NEW s \in Seq(S), NEW u \in Seq(S)
  PROVE  s \o u \in Seq(S) /\ ToSet(s \o u) = ToSet(s) \cup ToSet(u)
<1>1. /\ s \o u \in Seq(S) /\ Len(s \o u) = Len(s) + Len(u)
      /\ \A i \in 1 .. Len(s) + Len(u) :
           (s \o u)[i] = IF i <= Len(s) THEN s[i] ELSE u[i - Len(s)]
  BY ConcatProperties
<1>2. /\ DOMAIN s = 1 .. Len(s) /\ DOMAIN u = 1 .. Len(u) /\ Len(s) \in Nat /\ Len(u) \in Nat
      /\ DOMAIN (s \o u) = 1 .. Len(s) + Len(u)
  BY <1>1, LenProperties
<1> DEFINE w == s \o u
<1> HIDE DEF w
<1>3. \A i \in DOMAIN s : i \in DOMAIN w /\ w[i] = s[i]
  BY <1>1, <1>2 DEF w
<1>4. \A i \in DOMAIN u : i + Len(s) \in DOMAIN w /\ w[i + Len(s)] = u[i]
  BY <1>1, <1>2 DEF w
<1>5. \A i \in DOMAIN w :
       \/ i \in DOMAIN s /\ w[i] = s[i]
       \/ i - Len(s) \in DOMAIN u /\ w[i] = u[i - Len(s)]
  BY <1>1, <1>2 DEF w
<1>6. ToSet(w) = ToSet(s) \cup ToSet(u)
  BY <1>3, <1>4, <1>5 DEF ToSet
<1>7. QED
  BY <1>1, <1>6 DEF w

\* The changes that entries name.
LEMMA NamesType ==
  ASSUME NEW s \in Seq(Entry)
  PROVE  /\ NamesOf(s) \in Seq(Change) /\ Len(NamesOf(s)) = Len(s)
         /\ DOMAIN NamesOf(s) = DOMAIN s
         /\ \A i \in DOMAIN s : NamesOf(s)[i] = s[i].change
         /\ \A e \in ToSet(s) : e \in Entry /\ e.change \in ToSet(NamesOf(s))
         /\ \A c \in ToSet(NamesOf(s)) : \E e \in ToSet(s) : c = e.change
<1>1. Len(s) \in Nat /\ DOMAIN s = 1 .. Len(s) /\ \A i \in DOMAIN s : s[i] \in Entry
  BY LenProperties
<1>2. \A i \in DOMAIN s : s[i].change \in Change
  BY <1>1 DEF Entry
<1>3. NamesOf(s) = [i \in 1 .. Len(s) |-> s[i].change]
  BY <1>1 DEF NamesOf
<1>4. NamesOf(s) \in Seq(Change) /\ Len(NamesOf(s)) = Len(s)
  BY <1>1, <1>2, <1>3
<1>5. QED
  BY <1>1, <1>3, <1>4 DEF ToSet

\* Appending an entry appends its name.
LEMMA NamesAppend ==
  ASSUME NEW s \in Seq(Entry), NEW e \in Entry
  PROVE  NamesOf(Append(s, e)) = Append(NamesOf(s), e.change)
<1>1. /\ Append(s, e) \in Seq(Entry) /\ Len(Append(s, e)) = Len(s) + 1 /\ Len(s) \in Nat
      /\ \A i \in 1 .. Len(s) : Append(s, e)[i] = s[i]
      /\ Append(s, e)[Len(s) + 1] = e
  OBVIOUS
<1>2. /\ NamesOf(Append(s, e)) \in Seq(Change) /\ Len(NamesOf(Append(s, e))) = Len(s) + 1
      /\ \A i \in 1 .. Len(s) + 1 : NamesOf(Append(s, e))[i] = Append(s, e)[i].change
  BY <1>1, NamesType, LenProperties
<1>3. /\ NamesOf(s) \in Seq(Change) /\ Len(NamesOf(s)) = Len(s)
      /\ \A i \in 1 .. Len(s) : NamesOf(s)[i] = s[i].change
  BY NamesType, LenProperties
<1>4. e.change \in Change
  BY DEF Entry
<1>5. /\ Append(NamesOf(s), e.change) \in Seq(Change)
      /\ Len(Append(NamesOf(s), e.change)) = Len(s) + 1
      /\ \A i \in 1 .. Len(s) : Append(NamesOf(s), e.change)[i] = NamesOf(s)[i]
      /\ Append(NamesOf(s), e.change)[Len(s) + 1] = e.change
  BY <1>3, <1>4
<1>6. \A i \in 1 .. Len(s) + 1 : i \in 1 .. Len(s) \/ i = Len(s) + 1
  BY <1>1
<1>7. \A i \in 1 .. Len(s) + 1 : NamesOf(Append(s, e))[i] = Append(NamesOf(s), e.change)[i]
  BY <1>1, <1>2, <1>3, <1>5, <1>6
<1>8. QED
  BY <1>2, <1>5, <1>7, SeqEqual

\* A greater number may follow.
LEMMA IncreasingAppend ==
  ASSUME NEW S \in SUBSET Nat, NEW s \in Seq(S), Increasing(s),
         NEW n \in S, \A c \in ToSet(s) : c < n
  PROVE  Increasing(Append(s, n))
<1>1. /\ Append(s, n) \in Seq(S) /\ Len(Append(s, n)) = Len(s) + 1 /\ Len(s) \in Nat
      /\ \A i \in 1 .. Len(s) : Append(s, n)[i] = s[i] /\ s[i] < n
      /\ Append(s, n)[Len(s) + 1] = n
  BY LenProperties DEF ToSet
<1>2. QED
  BY <1>1, LenProperties DEF Increasing

\* So may greater numbers.
LEMMA IncreasingConcat ==
  ASSUME NEW S \in SUBSET Nat, NEW s \in Seq(S), NEW u \in Seq(S), Increasing(s), Increasing(u),
         \A c \in ToSet(s), d \in ToSet(u) : c < d
  PROVE  Increasing(s \o u)
<1>1. /\ s \o u \in Seq(S) /\ Len(s \o u) = Len(s) + Len(u)
      /\ \A i \in 1 .. Len(s) + Len(u) :
           (s \o u)[i] = IF i <= Len(s) THEN s[i] ELSE u[i - Len(s)]
  BY ConcatProperties
<1>2. /\ DOMAIN s = 1 .. Len(s) /\ DOMAIN u = 1 .. Len(u) /\ Len(s) \in Nat /\ Len(u) \in Nat
      /\ DOMAIN (s \o u) = 1 .. Len(s) + Len(u)
  BY <1>1, LenProperties
<1>3. \A i \in 1 .. Len(s), j \in 1 .. Len(u) : s[i] < u[j]
  BY <1>2 DEF ToSet
<1>4. ASSUME NEW i \in 1 .. Len(s) + Len(u), NEW j \in 1 .. Len(s) + Len(u), i < j
      PROVE  (s \o u)[i] < (s \o u)[j]
  <2>1. CASE j <= Len(s)
    BY <1>1, <1>2, <1>4, <2>1 DEF Increasing
  <2>2. CASE i <= Len(s) /\ ~ (j <= Len(s))
    <3>1. i \in 1 .. Len(s) /\ j - Len(s) \in 1 .. Len(u)
      BY <1>2, <2>2
    <3>2. QED
      BY <1>1, <1>3, <2>2, <3>1
  <2>3. CASE ~ (i <= Len(s))
    <3>1. i - Len(s) \in 1 .. Len(u) /\ j - Len(s) \in 1 .. Len(u) /\ i - Len(s) < j - Len(s)
          /\ ~ (j <= Len(s))
      BY <1>2, <1>4, <2>3
    <3>2. QED
      BY <1>1, <1>2, <2>3, <3>1 DEF Increasing
  <2>4. QED
    BY <2>1, <2>2, <2>3
<1>5. QED
  BY <1>2, <1>4 DEF Increasing

\* Those of the first k entries of s that were made with at most d savepoints open.
Picks(r, s, d, k) ==
  /\ \A e \in ToSet(r) : \E j \in 1 .. k : e = s[j] /\ e.depth <= d
  /\ \A j \in 1 .. k : s[j].depth <= d => s[j] \in ToSet(r)
  /\ Increasing(NamesOf(s)) => Increasing(NamesOf(r))

\* One more entry.
LEMMA PicksNext ==
  ASSUME ChangesAssumption, NEW s \in Seq(Entry), NEW d \in Nat, NEW k \in 1 .. Len(s),
         NEW r \in Seq(Entry), Picks(r, s, d, k - 1),
         NEW q, q = IF s[k].depth <= d THEN Append(r, s[k]) ELSE r
  PROVE  q \in Seq(Entry) /\ Picks(q, s, d, k)
<1>1. /\ s[k] \in Entry /\ Len(s) \in Nat /\ k \in Nat
      /\ \A j \in 1 .. k : j \in 1 .. k - 1 \/ j = k
      /\ \A j \in 1 .. k - 1 : j \in 1 .. k
  OBVIOUS
<1>2. CASE ~ (s[k].depth <= d)
  BY <1>1, <1>2 DEF Picks
<1>3. CASE s[k].depth <= d
  <2>1. q = Append(r, s[k])
    BY <1>3
  <2>2. q \in Seq(Entry) /\ ToSet(q) = ToSet(r) \cup {s[k]}
    BY <1>1, <2>1, AppendSet
  <2>3. \A e \in ToSet(q) : \E j \in 1 .. k : e = s[j] /\ e.depth <= d
    BY <1>1, <1>3, <2>2 DEF Picks
  <2>4. \A j \in 1 .. k : s[j].depth <= d => s[j] \in ToSet(q)
    BY <1>1, <2>2 DEF Picks
  <2>5. ASSUME Increasing(NamesOf(s)) PROVE Increasing(NamesOf(q))
    <3>1. NamesOf(q) = Append(NamesOf(r), s[k].change)
      BY <1>1, <2>1, NamesAppend
    <3>2. Increasing(NamesOf(r)) /\ NamesOf(r) \in Seq(Change)
      BY <2>5, NamesType DEF Picks
    <3>3. ASSUME NEW c \in ToSet(NamesOf(r)) PROVE c < s[k].change
      <4>1. PICK e \in ToSet(r) : c = e.change
        BY NamesType
      <4>2. PICK j \in 1 .. k - 1 : e = s[j]
        BY DEF Picks
      <4>3. j \in DOMAIN s /\ k \in DOMAIN s /\ j < k
        BY <1>1, LenProperties
      <4>4. NamesOf(s)[j] < NamesOf(s)[k]
        BY <2>5, <4>3, NamesType DEF Increasing
      <4>5. QED
        BY <4>1, <4>2, <4>3, <4>4, NamesType
    <3>4. s[k].change \in Change /\ Change \in SUBSET Nat
      BY <1>1 DEF Entry, Change, ChangesAssumption
    <3>5. QED
      BY <3>1, <3>2, <3>3, <3>4, IncreasingAppend
  <2>6. QED
    BY <2>2, <2>3, <2>4, <2>5 DEF Picks
<1>4. QED
  BY <1>2, <1>3

\* Vec::retain keeps what it should, in its order.
LEMMA RetainedIs ==
  ASSUME ChangesAssumption, NEW s \in Seq(Entry), NEW d \in Nat
  PROVE  /\ Retained(s, d) \in Seq(Entry)
         /\ ToSet(Retained(s, d)) = {e \in ToSet(s) : e.depth <= d}
         /\ Increasing(NamesOf(s)) => Increasing(NamesOf(Retained(s, d)))
<1> DEFINE N    == Len(s)
           R    == Seq(Entry)
           Kept(r, k) == IF s[k].depth <= d THEN Append(r, s[k]) ELSE r
           X    == [k \in 0 .. N |-> R]
           F    == [k \in 1 .. N |-> [r \in R |-> Kept(r, k)]]
           E(g) == g = [n \in 0 .. N |-> IF n = 0 THEN <<>> ELSE Kept(g[n - 1], n)]
           kept == CHOOSE g : E(g)
<1>1. N \in Nat /\ DOMAIN s = 1 .. N /\ \A k \in 1 .. N : s[k] \in Entry
  BY LenProperties
<1>2. Retained(s, d) = kept[N]
  BY DEF Retained
<1>3. \A k \in 1 .. N, r \in R : Kept(r, k) \in R
  BY <1>1
<1>4. <<>> \in X[0] /\ <<>> \in R
  BY <1>1
<1>5. \A k \in 1 .. N : k - 1 \in 0 .. N /\ k # 0 /\ k \in 0 .. N
  BY <1>1
<1>6. \A k \in 1 .. N : F[k] \in [X[k - 1] -> X[k]]
  <2>1. ASSUME NEW k \in 1 .. N PROVE F[k] \in [X[k - 1] -> X[k]]
    <3>1. X[k - 1] = R /\ X[k] = R /\ F[k] = [r \in R |-> Kept(r, k)]
      BY <1>5
    <3> HIDE DEF X, F, Kept, R
    <3>2. [r \in R |-> Kept(r, k)] \in [R -> R]
      BY <1>3
    <3>3. QED
      BY <3>1, <3>2
  <2>2. QED
    BY <2>1
<1>7. \A k \in 1 .. N, r \in R : F[k][r] = Kept(r, k)
  OBVIOUS
<1>8. \A k \in 0 .. N : X[k] = R
  OBVIOUS
<1> HIDE DEF N, X, F, R, Kept
<1>9. PICK g : Steps(g, N, <<>>, X, F)
  BY <1>1, <1>4, <1>6, StepsExist
<1>10. E(g)
  <2>1. ASSUME NEW n \in 0 .. N
        PROVE  g[n] = IF n = 0 THEN <<>> ELSE Kept(g[n - 1], n)
    <3>1. CASE n = 0
      BY <1>9, <3>1 DEF Steps
    <3>2. CASE n # 0
      <4>1. n \in 1 .. N
        BY <1>1, <3>2
      <4>2. g[n] = F[n][g[n - 1]] /\ g[n - 1] \in R
        BY <1>5, <1>8, <1>9, <4>1 DEF Steps
      <4>3. QED
        BY <1>7, <3>2, <4>1, <4>2
    <3>3. QED
      BY <3>1, <3>2
  <2>2. QED
    BY <1>9, <2>1 DEF Steps
<1>11. E(kept)
  BY <1>10
<1> HIDE DEF kept
<1>12. kept[0] = <<>> /\ \A k \in 1 .. N : kept[k] = Kept(kept[k - 1], k)
  BY <1>1, <1>5, <1>11
<1> DEFINE P == {k \in 0 .. N : kept[k] \in R /\ Picks(kept[k], s, d, k)}
<1>13. 0 \in P
  <2>1. ToSet(<<>>) = {} /\ DOMAIN NamesOf(<<>>) = {}
    BY DEF ToSet, NamesOf
  <2>2. Picks(<<>>, s, d, 0)
    BY <2>1 DEF Picks, Increasing
  <2>3. QED
    BY <1>1, <1>4, <1>12, <2>2
<1>14. ASSUME NEW k \in 1 .. N, k - 1 \in P PROVE k \in P
  <2>1. kept[k - 1] \in Seq(Entry) /\ Picks(kept[k - 1], s, d, k - 1) /\ k \in 1 .. Len(s)
    BY <1>14 DEF N, R
  <2>2. kept[k] = IF s[k].depth <= d THEN Append(kept[k - 1], s[k]) ELSE kept[k - 1]
    BY <1>12 DEF Kept
  <2>3. kept[k] \in Seq(Entry) /\ Picks(kept[k], s, d, k)
    BY <2>1, <2>2, PicksNext
  <2>4. QED
    BY <1>5, <2>3 DEF R
<1>15. 0 .. N \subseteq P
  <2> HIDE DEF P
  <2>1. QED
    BY <1>1, <1>13, <1>14, Climb
<1>16. kept[N] \in Seq(Entry) /\ Picks(kept[N], s, d, N)
  BY <1>1, <1>15 DEF R
<1>17. ToSet(kept[N]) = {e \in ToSet(s) : e.depth <= d}
  BY <1>1, <1>16 DEF Picks, ToSet
<1>18. QED
  BY <1>2, <1>16, <1>17 DEF Picks

\* The entries of a savepoint that is released pass to what surrounds it.
LEMMA LoweredIs ==
  ASSUME ChangesAssumption, NEW s \in Seq(Entry), NEW k \in 1 .. MaxDepth, NEW o,
         o = Lowered(s, k)
  PROVE  /\ o \in Seq(Entry) /\ NamesOf(o) = NamesOf(s)
         /\ \A e \in ToSet(s) : /\ e.depth < k => e \in ToSet(o)
                                /\ \E f \in ToSet(o) : f.change = e.change /\ f.depth <= e.depth
         /\ \A f \in ToSet(o) : \E e \in ToSet(s) :
              f.change = e.change /\ (e.depth < k => f = e)
<1>1. Len(s) \in Nat /\ DOMAIN s = 1 .. Len(s) /\ MaxDepth \in Nat
  BY LenProperties DEF ChangesAssumption
<1>2. ASSUME NEW i \in DOMAIN s
      PROVE  /\ s[i] \in Entry /\ o[i] \in Entry /\ o[i].change = s[i].change
             /\ o[i].depth <= s[i].depth
             /\ s[i].depth < k => o[i] = s[i]
  <2>1. s[i] \in Entry
    BY <1>1
  <2>2. o[i] = [s[i] EXCEPT !.depth = IF s[i].depth < k THEN s[i].depth ELSE k - 1]
    BY DEF Lowered
  <2>3. k - 1 \in 0 .. MaxDepth
    BY <1>1
  <2>4. QED
    BY <1>1, <2>1, <2>2, <2>3 DEF Entry
<1>3. DOMAIN o = DOMAIN s /\ o = [i \in DOMAIN s |-> o[i]]
  BY DEF Lowered
<1>4. o \in Seq(Entry)
  <2>1. o = [i \in 1 .. Len(s) |-> o[i]]
    BY <1>1, <1>3
  <2>2. \A i \in 1 .. Len(s) : o[i] \in Entry
    BY <1>1, <1>2
  <2>3. QED
    BY <1>1, <2>1, <2>2
<1>5. NamesOf(o) = NamesOf(s)
  BY <1>2, <1>3 DEF NamesOf
<1>6. \A e \in ToSet(s) : /\ e.depth < k => e \in ToSet(o)
                          /\ \E f \in ToSet(o) : f.change = e.change /\ f.depth <= e.depth
  BY <1>2, <1>3 DEF ToSet
<1>7. ASSUME NEW f \in ToSet(o)
      PROVE  \E e \in ToSet(s) : f.change = e.change /\ (e.depth < k => f = e)
  <2>1. PICK i \in DOMAIN s : f = o[i]
    BY <1>3 DEF ToSet
  <2>2. s[i] \in ToSet(s)
    BY DEF ToSet
  <2>3. QED
    BY <1>2, <2>1, <2>2
<1>8. QED
  BY <1>4, <1>5, <1>6, <1>7

-----------------------------------------------------------------------------
(* The invariant holds initially, and statements keep it.                  *)

LEMMA Bounds ==
  ASSUME ChangesAssumption
  PROVE  MaxChanges \in Nat /\ MaxDepth \in Nat /\ Change \subseteq Nat
BY DEF ChangesAssumption, Change

LEMMA InitInv ==
  ASSUME ChangesAssumption, FeedInit
  PROVE  IInv
<1>1. \A S : <<>> \in Seq(S)
  BY EmptySeq
<1>2. ToSet(<<>>) = {} /\ NamesOf(<<>>) = <<>> /\ Increasing(<<>>)
  BY DEF ToSet, NamesOf, Increasing
<1>3. FeedTypeOK
  <2>1. NoCall \in Call
    BY DEF Call
  <2>2. inTx \in BOOLEAN
    BY DEF FeedInit
  <2>3. depth \in 0 .. MaxDepth /\ changes \in 0 .. MaxChanges
    BY Bounds DEF FeedInit
  <2>4. call \in [Thread -> Call] /\ ready \in [Thread -> Seq(Change)]
    BY <1>1, <2>1 DEF FeedInit
  <2>5. QED
    BY <1>1, <2>2, <2>3, <2>4 DEF FeedInit, FeedTypeOK
<1>4. Ordered /\ Ahead /\ Known /\ Outside
  BY <1>2 DEF FeedInit, Ordered, Ahead, Known, Outside
<1>5. ASSUME NEW t \in Thread PROVE Step(t)
  <2>1. call[t].do = "none" /\ ready[t] = <<>>
    BY DEF FeedInit, NoCall
  <2>2. QED
    BY <1>2, <2>1 DEF FeedInit, Step, Resting, Queueing, Discarding, Finishing, Releasing, Queued, Underway
<1>6. QED
  BY <1>3, <1>4, <1>5 DEF IInv

\* A thread that starts a statement has nothing left to do from the one before.
LEMMA Starting ==
  ASSUME FeedTypeOK, NEW t, Thread = {t}, NEW c, Then(t, c)
  PROVE  /\ call[t] = NoCall /\ call[t].do = "none" /\ ready[t] = <<>>
         /\ call' = [u \in Thread |-> c] /\ call'[t] = c
         /\ pending' = pending /\ ready' = ready /\ published' = published
<1>1. call \in [Thread -> Call] /\ call' = [call EXCEPT ![t] = c]
  BY DEF FeedTypeOK, Then
<1>2. call' = [u \in Thread |-> c] /\ call'[t] = c
  BY <1>1
<1>3. call[t] = NoCall /\ ready[t] = <<>> /\ UNCHANGED <<pending, ready, published>>
  BY DEF Then, Idle
<1>4. call[t].do = "none"
  BY <1>3 DEF NoCall
<1>5. QED
  BY <1>2, <1>3, <1>4

\* Entries are numbers of changes and of savepoints.
LEMMA EntryNumbers ==
  ASSUME ChangesAssumption, NEW s \in Seq(Entry), NEW e \in ToSet(s)
  PROVE  e \in Entry /\ e.change \in Nat /\ e.depth \in Nat
<1>1. e \in Entry
  BY NamesType
<1>2. e.change \in Change /\ e.depth \in 0 .. MaxDepth
  BY <1>1 DEF Entry
<1>3. QED
  BY <1>1, <1>2, Bounds

\* What holds between statements.
LEMMA AtRest ==
  ASSUME IInv, NEW t, Thread = {t}, call[t] = NoCall
  PROVE  /\ \A p \in ToSet(pending) : Accounted(p)
         /\ \A e \in ToSet(open) : e.change \notin moved => e \in ToSet(pending)
         /\ \A c \in ToSet(committed) \ moved : c \in ToSet(published) \cup ToSet(ready[t])
<1>1. call[t].do = "none" /\ t \in Thread
  BY DEF NoCall
<1>2. QED
  BY <1>1 DEF IInv, Step, Resting, Queued, Underway

\* What is covered has the name of a change of the open transaction.
LEMMA CoveredName ==
  ASSUME NEW p, Covered(p), open \in Seq(Entry)
  PROVE  p.change \in ToSet(NamesOf(open))
BY NamesType DEF Covered

\* The types of the statements' calls.
LEMMA StatementType ==
  ASSUME ChangesAssumption, FeedTypeOK, NEW t, Thread = {t}, NEW c \in Call, Then(t, c),
         inTx' \in BOOLEAN, depth' \in 0 .. MaxDepth, changes' \in 0 .. MaxChanges,
         open' \in Seq(Entry), moved' \subseteq Change, stranded' \subseteq Change,
         committed' \in Seq(Change)
  PROVE  FeedTypeOK'
<1>1. /\ call' = [u \in Thread |-> c]
      /\ pending' = pending /\ ready' = ready /\ published' = published
  BY Starting
<1>2. call' \in [Thread -> Call]
  BY <1>1
<1>3. QED
  BY <1>1, <1>2 DEF FeedTypeOK

LEMMA MutateInv ==
  ASSUME ChangesAssumption, IInv, NEW t, Thread = {t}, Mutate(t)
  PROVE  IInv'
<1>0. PICK n, e, c : /\ n = changes + 1
                     /\ e = [change |-> n, depth |-> depth]
                     /\ c = [do |-> "queue", entry |-> e, inTx |-> inTx]
  OBVIOUS
<1>1. FeedTypeOK /\ Ordered /\ Ahead /\ Known /\ Outside /\ Step(t) /\ t \in Thread
  BY DEF IInv
<1>2. /\ Then(t, c) /\ changes' = n
      /\ inTx' = inTx /\ depth' = depth /\ moved' = moved /\ stranded' = stranded
      /\ open' = IF inTx THEN Append(open, e) ELSE open
      /\ committed' = IF inTx THEN committed ELSE Append(committed, n)
  BY <1>0 DEF Mutate
<1>3. n \in Change /\ n \in 0 .. MaxChanges /\ changes < n /\ changes \in Nat /\ Change \subseteq Nat
  BY <1>0, <1>1, Bounds DEF Mutate, FeedTypeOK, Change
<1>4. e \in Entry /\ e.change = n /\ c \in Call /\ c.do = "queue" /\ c.entry = e /\ c.inTx = inTx
  BY <1>0, <1>1, <1>3 DEF FeedTypeOK, Entry, Call
<1>5. /\ call[t] = NoCall /\ ready[t] = <<>> /\ call'[t] = c
      /\ pending' = pending /\ ready' = ready /\ published' = published
  BY <1>1, <1>2, Starting
<1>6. /\ \A p \in ToSet(pending) : Accounted(p)
      /\ \A x \in ToSet(open) : x.change \notin moved => x \in ToSet(pending)
      /\ \A d \in ToSet(committed) \ moved : d \in ToSet(published)
  BY <1>5, AtRest DEF ToSet
<1>7. /\ open \in Seq(Entry) /\ committed \in Seq(Change) /\ pending \in Seq(Entry)
      /\ published \in Seq(Change)
  BY <1>1 DEF FeedTypeOK
<1>8. /\ \A x \in ToSet(open) \cup ToSet(pending) : x.change < n /\ x.change <= n
      /\ \A d \in ToSet(committed) \cup ToSet(published) : d < n /\ d <= n
      /\ n <= n /\ \A d \in stranded : d <= n
  <2>1. \A x \in ToSet(open) \cup ToSet(pending) : x.change \in Nat
    BY <1>3, <1>7, NamesType DEF Entry
  <2>2. \A d \in ToSet(committed) : d \in Nat
    BY <1>3, <1>7, LenProperties DEF ToSet
  <2>3. \A d \in stranded : d \in Nat /\ d <= n
    BY <1>1, <1>3 DEF FeedTypeOK, Known
  <2>4. ToSet(published) \subseteq ToSet(committed) \cup stranded
    BY <1>1 DEF Known
  <2>5. \A x \in ToSet(open) \cup ToSet(pending) : x.change < n /\ x.change <= n
    BY <1>1, <1>3, <2>1 DEF Ordered, Known
  <2>6. \A d \in ToSet(committed) \cup ToSet(published) : d < n /\ d <= n
    BY <1>1, <1>3, <2>2, <2>3, <2>4 DEF Ordered, Known
  <2>7. QED
    BY <1>3, <2>3, <2>5, <2>6
<1>9. CASE inTx
  <2>1. /\ open' = Append(open, e) /\ open' \in Seq(Entry) /\ ToSet(open') = ToSet(open) \cup {e}
        /\ committed' = committed
    BY <1>2, <1>4, <1>7, <1>9, AppendSet
  <2>2. NamesOf(open') = Append(NamesOf(open), n) /\ Increasing(NamesOf(open'))
    <3>1. NamesOf(open) \in Seq(Change) /\ \A d \in ToSet(NamesOf(open)) : d < n
      BY <1>7, <1>8, NamesType
    <3>2. NamesOf(open') = Append(NamesOf(open), n)
      BY <1>4, <1>7, <2>1, NamesAppend
    <3>3. QED
      BY <1>1, <1>3, <3>1, <3>2, IncreasingAppend DEF Ordered
  <2>3. FeedTypeOK'
    BY <1>1, <1>2, <1>3, <1>4, <2>1, StatementType DEF FeedTypeOK
  <2>4. Ordered'
    BY <1>1, <1>2, <1>4, <1>5, <1>8, <2>1, <2>2 DEF Ordered
  <2>5. Ahead' /\ Known' /\ Outside'
    BY <1>1, <1>2, <1>5, <1>8, <1>9, <2>1 DEF Ahead, Known, Outside
  <2>6. \A p \in ToSet(pending) : Accounted(p)'
    BY <1>2, <1>6, <2>1 DEF Accounted, Covered
  <2>7. Covered(e)'
    <3>1. e \in ToSet(open') /\ e.depth <= e.depth
      BY <1>0, <1>1, <2>1, Bounds DEF FeedTypeOK
    <3>2. QED
      BY <3>1 DEF Covered
  <2>8. Step(t)'
    BY <1>2, <1>4, <1>5, <1>6, <1>8, <1>9, <2>1, <2>6, <2>7
    DEF Step, Resting, Queueing, Discarding, Finishing, Releasing, Queued, Underway
  <2>9. QED
    BY <2>3, <2>4, <2>5, <2>8 DEF IInv
<1>10. CASE ~ inTx
  <2>1. /\ committed' = Append(committed, n) /\ committed' \in Seq(Change)
        /\ ToSet(committed') = ToSet(committed) \cup {n} /\ open' = open
    BY <1>2, <1>3, <1>7, <1>10, AppendSet
  <2>2. open = <<>> /\ ToSet(open) = {}
    BY <1>1, <1>10 DEF Outside, ToSet
  <2>3. Increasing(committed')
    BY <1>1, <1>3, <1>7, <1>8, <2>1, IncreasingAppend DEF Ordered
  <2>4. FeedTypeOK'
    BY <1>1, <1>2, <1>3, <1>4, <2>1, StatementType DEF FeedTypeOK
  <2>5. Ordered'
    BY <1>1, <1>2, <1>5, <1>8, <2>1, <2>2, <2>3 DEF Ordered
  <2>6. Ahead' /\ Known' /\ Outside'
    BY <1>1, <1>2, <1>5, <1>8, <1>10, <2>1 DEF Ahead, Known, Outside
  <2>7. \A p \in ToSet(pending) : Accounted(p)'
    BY <1>2, <1>6, <2>1 DEF Accounted, Covered
  <2>8. Step(t)'
    BY <1>2, <1>4, <1>5, <1>6, <1>8, <1>10, <2>1, <2>2, <2>7
    DEF Step, Resting, Queueing, Discarding, Finishing, Releasing, Queued, Underway
  <2>9. QED
    BY <2>4, <2>5, <2>6, <2>8 DEF IInv
<1>11. QED
  BY <1>9, <1>10

\* BEGIN and SAVEPOINT: a transaction is open, nothing was changed.
LEMMA OpenInv ==
  ASSUME ChangesAssumption, IInv, NEW t, Thread = {t}, Begin(t) \/ Savepoint(t)
  PROVE  IInv'
<1>1. FeedTypeOK /\ Ordered /\ Ahead /\ Known /\ Outside /\ Step(t) /\ t \in Thread
  BY DEF IInv
<1>2. Then(t, NoCall) /\ inTx' = TRUE /\ UNCHANGED <<open, committed, moved, stranded, changes>>
  BY DEF Begin, Savepoint
<1>3. depth' \in 0 .. MaxDepth
  BY <1>1, Bounds DEF Begin, Savepoint, FeedTypeOK
<1>4. /\ call[t] = NoCall /\ call[t].do = "none" /\ ready[t] = <<>> /\ call'[t] = NoCall
      /\ pending' = pending /\ ready' = ready /\ published' = published
  BY <1>1, <1>2, Starting
<1>5. FeedTypeOK'
  <2>1. inTx' \in BOOLEAN /\ NoCall \in Call
    BY <1>2 DEF Call
  <2>2. QED
    BY <1>1, <1>2, <1>3, <2>1, StatementType DEF FeedTypeOK
<1>6. Ordered' /\ Ahead' /\ Known' /\ Outside'
  BY <1>1, <1>2, <1>4 DEF Ordered, Ahead, Known, Outside
<1>7. \A p \in ToSet(pending) : Accounted(p)'
  <2>1. \A p \in ToSet(pending) : Accounted(p)
    BY <1>4, AtRest
  <2>2. QED
    BY <1>2, <2>1 DEF Accounted, Covered
<1>8. Step(t)'
  BY <1>1, <1>2, <1>4, <1>7
  DEF Step, Resting, Queueing, Discarding, Finishing, Releasing, Queued, Underway
<1>9. QED
  BY <1>5, <1>6, <1>8 DEF IInv

\* COMMIT.
LEMMA CommitInv ==
  ASSUME ChangesAssumption, IInv, NEW t, Thread = {t}, CommitTx(t)
  PROVE  IInv'
<1>0. PICK c : c = [do |-> "publish"]
  OBVIOUS
<1>1. FeedTypeOK /\ Ordered /\ Ahead /\ Known /\ Outside /\ Step(t) /\ t \in Thread
  BY DEF IInv
<1>2. /\ Then(t, c) /\ inTx /\ inTx' = FALSE /\ depth' = 0 /\ open' = <<>>
      /\ committed' = committed \o NamesOf(open) /\ moved' = moved /\ changes' = changes
      /\ stranded' = stranded
  BY <1>0 DEF CommitTx
<1>3. c \in Call /\ c.do = "publish"
  BY <1>0 DEF Call
<1>4. /\ call[t] = NoCall /\ call[t].do = "none" /\ ready[t] = <<>> /\ call'[t] = c
      /\ pending' = pending /\ ready' = ready /\ published' = published
  BY <1>1, <1>2, Starting
<1>5. /\ \A p \in ToSet(pending) : Accounted(p)
      /\ \A e \in ToSet(open) : e.change \notin moved => e \in ToSet(pending)
      /\ \A d \in ToSet(committed) \ moved : d \in ToSet(published)
  BY <1>2, <1>4, AtRest DEF ToSet
<1>6. /\ open \in Seq(Entry) /\ committed \in Seq(Change) /\ pending \in Seq(Entry)
      /\ NamesOf(open) \in Seq(Change) /\ changes \in Nat /\ Change \in SUBSET Nat
  BY <1>1, NamesType, Bounds DEF FeedTypeOK
<1>7. /\ committed' \in Seq(Change)
      /\ ToSet(committed') = ToSet(committed) \cup ToSet(NamesOf(open))
  BY <1>2, <1>6, ConcatSet
<1>8. \A d \in ToSet(NamesOf(open)) : d <= changes /\ \A b \in ToSet(committed) : b < d
  BY <1>1, <1>6, NamesType DEF Ordered
<1>9. Increasing(committed')
  BY <1>1, <1>2, <1>6, <1>8, IncreasingConcat DEF Ordered
<1>10. <<>> \in Seq(Entry) /\ ToSet(<<>>) = {} /\ NamesOf(<<>>) = <<>> /\ Increasing(<<>>)
  BY EmptySeq DEF ToSet, NamesOf, Increasing
<1>11. FeedTypeOK'
  <2>1. inTx' \in BOOLEAN
    BY <1>2
  <2>2. depth' \in 0 .. MaxDepth
    BY <1>2, Bounds
  <2>3. QED
    BY <1>1, <1>2, <1>3, <1>7, <1>10, <2>1, <2>2, StatementType DEF FeedTypeOK
<1>12. Ordered' /\ Ahead' /\ Known' /\ Outside'
  BY <1>1, <1>2, <1>4, <1>7, <1>8, <1>9, <1>10 DEF Ordered, Ahead, Known, Outside
<1>13. ToSet(NamesOf(pending)) \subseteq ToSet(committed') \cup stranded
  <2>1. ASSUME NEW d \in ToSet(NamesOf(pending)) PROVE d \in ToSet(NamesOf(open)) \cup stranded
    <3>1. PICK p \in ToSet(pending) : d = p.change
      BY <1>6, NamesType
    <3>2. QED
      BY <1>5, <1>6, <3>1, CoveredName DEF Accounted
  <2>2. QED
    BY <1>7, <2>1
<1>14. ASSUME NEW d \in ToSet(committed') \ moved
       PROVE  d \in ToSet(published) \/ d \in ToSet(NamesOf(pending))
  <2>1. CASE d \in ToSet(committed)
    BY <1>5, <1>14, <2>1
  <2>2. CASE d \in ToSet(NamesOf(open))
    <3>1. PICK e \in ToSet(open) : d = e.change
      BY <1>6, <2>2, NamesType
    <3>2. QED
      BY <1>5, <1>6, <1>14, <3>1, NamesType
  <2>3. QED
    BY <1>7, <1>14, <2>1, <2>2
<1>15. Step(t)'
  BY <1>2, <1>3, <1>4, <1>10, <1>13, <1>14
  DEF Step, Resting, Queueing, Discarding, Finishing, Releasing, Queued, Underway
<1>16. QED
  BY <1>11, <1>12, <1>15 DEF IInv

\* ROLLBACK.
LEMMA RollbackInv ==
  ASSUME ChangesAssumption, IInv, NEW t, Thread = {t}, Rollback(t)
  PROVE  IInv'
<1>0. PICK c : c = [do |-> "drop"]
  OBVIOUS
<1>1. FeedTypeOK /\ Ordered /\ Ahead /\ Known /\ Outside /\ Step(t) /\ t \in Thread
  BY DEF IInv
<1>2. /\ Then(t, c) /\ inTx' = FALSE /\ depth' = 0 /\ open' = <<>>
      /\ committed' = committed /\ moved' = moved /\ changes' = changes /\ stranded' = stranded
  BY <1>0 DEF Rollback
<1>3. c \in Call /\ c.do = "drop"
  BY <1>0 DEF Call
<1>4. /\ call[t] = NoCall /\ call[t].do = "none" /\ ready[t] = <<>> /\ call'[t] = c
      /\ pending' = pending /\ ready' = ready /\ published' = published
  BY <1>1, <1>2, Starting
<1>5. \A d \in ToSet(committed) \ moved : d \in ToSet(published)
  BY <1>4, AtRest DEF ToSet
<1>6. <<>> \in Seq(Entry) /\ ToSet(<<>>) = {} /\ NamesOf(<<>>) = <<>> /\ Increasing(<<>>)
  BY EmptySeq DEF ToSet, NamesOf, Increasing
<1>7. FeedTypeOK'
  <2>1. inTx' \in BOOLEAN
    BY <1>2
  <2>2. depth' \in 0 .. MaxDepth
    BY <1>2, Bounds
  <2>3. QED
    BY <1>1, <1>2, <1>3, <1>6, <2>1, <2>2, StatementType DEF FeedTypeOK
<1>8. Ordered' /\ Ahead' /\ Known' /\ Outside'
  BY <1>1, <1>2, <1>4, <1>6 DEF Ordered, Ahead, Known, Outside
<1>9. Step(t)'
  BY <1>2, <1>3, <1>4, <1>5, <1>6
  DEF Step, Resting, Queueing, Discarding, Finishing, Releasing, Queued, Underway
<1>10. QED
  BY <1>7, <1>8, <1>9 DEF IInv

\* ROLLBACK TO.
LEMMA RollbackToInv ==
  ASSUME ChangesAssumption, IInv, NEW t, Thread = {t}, RollbackTo(t)
  PROVE  IInv'
<1>0. PICK k \in 1 .. depth :
        /\ Then(t, [do |-> "discard", depth |-> k - 1])
        /\ open' = Retained(open, k - 1) /\ depth' = k
        /\ UNCHANGED <<inTx, committed, moved, stranded, changes>>
  BY DEF RollbackTo
<1> DEFINE d == k - 1
           c == [do |-> "discard", depth |-> d]
<1>1. FeedTypeOK /\ Ordered /\ Ahead /\ Known /\ Outside /\ Step(t) /\ t \in Thread
  BY DEF IInv
<1>2. k \in Nat /\ d \in Nat /\ d \in 0 .. MaxDepth /\ k \in 0 .. MaxDepth /\ inTx
  <2>1. depth \in 0 .. MaxDepth /\ MaxDepth \in Nat
    BY <1>1, Bounds DEF FeedTypeOK
  <2>2. depth # 0 /\ k \in Nat /\ d \in Nat /\ d \in 0 .. MaxDepth /\ k \in 0 .. MaxDepth
    BY <2>1
  <2>3. QED
    BY <1>1, <2>2 DEF Outside
<1>3. c \in Call /\ c.do = "discard" /\ c.depth = d
  BY <1>2 DEF Call
<1> HIDE DEF c, d
<1>4. /\ Then(t, c) /\ open' = Retained(open, d) /\ depth' = k
      /\ inTx' = inTx /\ committed' = committed /\ moved' = moved /\ changes' = changes
      /\ stranded' = stranded
  BY <1>0 DEF c, d
<1>5. /\ call[t] = NoCall /\ call[t].do = "none" /\ ready[t] = <<>> /\ call'[t] = c
      /\ pending' = pending /\ ready' = ready /\ published' = published
  BY <1>1, <1>4, Starting
<1>6. /\ \A p \in ToSet(pending) : Accounted(p)
      /\ \A e \in ToSet(open) : e.change \notin moved => e \in ToSet(pending)
      /\ \A b \in ToSet(committed) \ moved : b \in ToSet(published)
  BY <1>2, <1>5, AtRest DEF ToSet
<1>7. open \in Seq(Entry) /\ pending \in Seq(Entry)
  BY <1>1 DEF FeedTypeOK
<1>8. /\ open' \in Seq(Entry) /\ Increasing(NamesOf(open'))
      /\ ToSet(open') = {e \in ToSet(open) : e.depth <= d}
  BY <1>1, <1>2, <1>4, <1>7, RetainedIs DEF Ordered
<1>9. FeedTypeOK'
  BY <1>1, <1>2, <1>3, <1>4, <1>8, StatementType DEF FeedTypeOK
<1>10. Ordered' /\ Ahead' /\ Known' /\ Outside'
  BY <1>1, <1>2, <1>4, <1>5, <1>8 DEF Ordered, Ahead, Known, Outside
<1>11. ASSUME NEW p \in ToSet(pending), p.depth <= d PROVE Accounted(p)'
  <2>1. CASE p.change \in stranded
    BY <1>4, <2>1 DEF Accounted
  <2>2. CASE Covered(p)
    <3>1. PICK e \in ToSet(open) : e.change = p.change /\ e.depth <= p.depth
      BY <2>2 DEF Covered
    <3>2. e.depth \in Nat /\ p.depth \in Nat
      BY <1>7, EntryNumbers
    <3>3. e.depth <= d
      BY <1>2, <1>11, <3>1, <3>2
    <3>4. QED
      BY <1>8, <3>1, <3>3 DEF Accounted, Covered
  <2>3. QED
    BY <1>6, <2>1, <2>2 DEF Accounted
<1>12. Step(t)'
  BY <1>2, <1>3, <1>4, <1>5, <1>6, <1>8, <1>11
  DEF Step, Resting, Queueing, Discarding, Finishing, Releasing, Queued, Underway
<1>13. QED
  BY <1>9, <1>10, <1>12 DEF IInv

\* The changes of savepoints are changes, made before now.
LEMMA SinceType ==
  ASSUME ChangesAssumption, FeedTypeOK, Ordered, Known, NEW k
  PROVE  /\ stranded \cup Since(k) \subseteq Change
         /\ \A c \in stranded \cup Since(k) : c <= changes
<1>1. /\ open \in Seq(Entry) /\ stranded \subseteq Change
      /\ \A c \in stranded : c <= changes
      /\ \A e \in ToSet(open) : e.change <= changes
  BY DEF FeedTypeOK, Known, Ordered
<1>2. \A e \in ToSet(open) : e.change \in Change
  BY <1>1, NamesType DEF Entry
<1>3. QED
  BY <1>1, <1>2 DEF Since

\* ROLLBACK, whose reload fails: all that was pending for the transaction is stranded.
LEMMA RollbackFailsInv ==
  ASSUME ChangesAssumption, IInv, NEW t, Thread = {t}, RollbackFails(t)
  PROVE  IInv'
<1>1. FeedTypeOK /\ Ordered /\ Ahead /\ Known /\ Outside /\ Step(t) /\ t \in Thread
  BY DEF IInv
<1>2. /\ Then(t, NoCall) /\ inTx' = FALSE /\ depth' = 0 /\ open' = <<>>
      /\ committed' = committed /\ moved' = moved /\ changes' = changes
      /\ stranded' = stranded \cup Since(0)
  BY DEF RollbackFails
<1>3. /\ call[t] = NoCall /\ call[t].do = "none" /\ ready[t] = <<>> /\ call'[t] = NoCall
      /\ pending' = pending /\ ready' = ready /\ published' = published
  BY <1>1, <1>2, Starting
<1>4. /\ \A p \in ToSet(pending) : Accounted(p)
      /\ \A d \in ToSet(committed) \ moved : d \in ToSet(published)
  BY <1>3, AtRest DEF ToSet
<1>5. <<>> \in Seq(Entry) /\ ToSet(<<>>) = {} /\ NamesOf(<<>>) = <<>> /\ Increasing(<<>>)
  BY EmptySeq DEF ToSet, NamesOf, Increasing
<1>6. stranded' \subseteq Change /\ (\A c \in stranded' : c <= changes) /\ stranded \subseteq stranded'
  BY <1>1, <1>2, SinceType
<1>7. FeedTypeOK'
  <2>1. inTx' \in BOOLEAN /\ NoCall \in Call
    BY <1>2 DEF Call
  <2>2. depth' \in 0 .. MaxDepth
    BY <1>2, Bounds
  <2>3. QED
    BY <1>1, <1>2, <1>5, <1>6, <2>1, <2>2, StatementType DEF FeedTypeOK
<1>8. Ordered' /\ Ahead' /\ Known' /\ Outside'
  BY <1>1, <1>2, <1>3, <1>5, <1>6 DEF Ordered, Ahead, Known, Outside
<1>9. ASSUME NEW p \in ToSet(pending) PROVE Accounted(p)'
  <2>1. ASSUME Covered(p) PROVE p.change \in Since(0)
    <3>1. PICK e \in ToSet(open) : e.change = p.change
      BY <2>1 DEF Covered
    <3>2. e.depth \in Nat
      BY <1>1, EntryNumbers DEF FeedTypeOK
    <3>3. QED
      BY <3>1, <3>2 DEF Since
  <2>2. QED
    BY <1>2, <1>4, <2>1 DEF Accounted
<1>10. Step(t)'
  BY <1>2, <1>3, <1>4, <1>5, <1>9
  DEF Step, Resting, Queueing, Discarding, Finishing, Releasing, Queued, Underway
<1>11. QED
  BY <1>7, <1>8, <1>10 DEF IInv

\* ROLLBACK TO that fails after savepoints were undone: their changes are stranded.
LEMMA RollbackToFailsInv ==
  ASSUME ChangesAssumption, IInv, NEW t, Thread = {t}, RollbackToFails(t)
  PROVE  IInv'
<1>0. PICK k \in 1 .. depth :
        /\ Then(t, NoCall)
        /\ open' = Retained(open, k - 1) /\ depth' \in {k - 1, k}
        /\ stranded' = stranded \cup Since(k)
        /\ UNCHANGED <<inTx, committed, moved, changes>>
  BY DEF RollbackToFails
<1> DEFINE d == k - 1
<1>1. FeedTypeOK /\ Ordered /\ Ahead /\ Known /\ Outside /\ Step(t) /\ t \in Thread
  BY DEF IInv
<1>2. k \in Nat /\ d \in Nat /\ depth' \in 0 .. MaxDepth /\ inTx
  <2>1. depth \in 0 .. MaxDepth /\ MaxDepth \in Nat
    BY <1>1, Bounds DEF FeedTypeOK
  <2>2. depth # 0 /\ k \in Nat /\ d \in Nat /\ d \in 0 .. MaxDepth /\ k \in 0 .. MaxDepth
    BY <2>1
  <2>3. QED
    BY <1>0, <1>1, <2>2 DEF Outside
<1>3. \A n \in Nat : n <= d \/ n >= k
  BY <1>2
<1>4. open' = Retained(open, d)
  BY <1>0
<1> HIDE DEF d
<1>5. /\ call[t] = NoCall /\ call[t].do = "none" /\ ready[t] = <<>> /\ call'[t] = NoCall
      /\ pending' = pending /\ ready' = ready /\ published' = published
  BY <1>0, <1>1, Starting
<1>6. /\ \A p \in ToSet(pending) : Accounted(p)
      /\ \A e \in ToSet(open) : e.change \notin moved => e \in ToSet(pending)
      /\ \A b \in ToSet(committed) \ moved : b \in ToSet(published)
  BY <1>5, AtRest DEF ToSet
<1>7. open \in Seq(Entry) /\ pending \in Seq(Entry)
  BY <1>1 DEF FeedTypeOK
<1>8. /\ open' \in Seq(Entry) /\ Increasing(NamesOf(open'))
      /\ ToSet(open') = {e \in ToSet(open) : e.depth <= d}
  BY <1>1, <1>2, <1>4, <1>7, RetainedIs DEF Ordered
<1>9. stranded' \subseteq Change /\ (\A c \in stranded' : c <= changes) /\ stranded \subseteq stranded'
  BY <1>0, <1>1, SinceType
<1>10. FeedTypeOK'
  <2>1. NoCall \in Call
    BY DEF Call
  <2>2. QED
    BY <1>0, <1>1, <1>2, <1>8, <1>9, <2>1, StatementType DEF FeedTypeOK
<1>11. Ordered' /\ Ahead' /\ Known' /\ Outside'
  BY <1>0, <1>1, <1>2, <1>5, <1>8, <1>9 DEF Ordered, Ahead, Known, Outside
<1>12. ASSUME NEW p \in ToSet(pending) PROVE Accounted(p)'
  <2>1. CASE p.change \in stranded
    BY <1>9, <2>1 DEF Accounted
  <2>2. CASE Covered(p)
    <3>1. PICK e \in ToSet(open) : e.change = p.change /\ e.depth <= p.depth
      BY <2>2 DEF Covered
    <3>2. e.depth \in Nat
      BY <1>7, EntryNumbers
    <3>3. CASE e.depth <= d
      BY <1>8, <3>1, <3>3 DEF Accounted, Covered
    <3>4. CASE e.depth >= k
      BY <1>0, <3>1, <3>4 DEF Accounted, Since
    <3>5. QED
      BY <1>3, <3>2, <3>3, <3>4
  <2>3. QED
    BY <1>6, <2>1, <2>2 DEF Accounted
<1>13. Step(t)'
  BY <1>0, <1>2, <1>5, <1>6, <1>8, <1>12
  DEF Step, Resting, Queueing, Discarding, Finishing, Releasing, Queued, Underway
<1>14. QED
  BY <1>10, <1>11, <1>13 DEF IInv

\* RELEASE.
LEMMA ReleaseInv ==
  ASSUME ChangesAssumption, IInv, NEW t, Thread = {t}, Release(t)
  PROVE  IInv'
<1>0. PICK k \in 1 .. depth :
        /\ Then(t, NoCall)
        /\ open' = Lowered(open, k)
        /\ moved' = moved \cup Since(k)
        /\ depth' = k - 1
        /\ UNCHANGED <<inTx, committed, stranded, changes>>
  BY DEF Release
<1>1. FeedTypeOK /\ Ordered /\ Ahead /\ Known /\ Outside /\ Step(t) /\ t \in Thread
  BY DEF IInv
<1>2. k \in 1 .. MaxDepth /\ depth' \in 0 .. MaxDepth /\ inTx
  <2>1. depth \in 0 .. MaxDepth /\ MaxDepth \in Nat
    BY <1>1, Bounds DEF FeedTypeOK
  <2>2. depth # 0 /\ k \in 1 .. MaxDepth /\ depth' \in 0 .. MaxDepth
    BY <1>0, <2>1
  <2>3. QED
    BY <1>1, <2>2 DEF Outside
<1>3. /\ call[t] = NoCall /\ call[t].do = "none" /\ ready[t] = <<>> /\ call'[t] = NoCall
      /\ pending' = pending /\ ready' = ready /\ published' = published
  BY <1>0, <1>1, Starting
<1>4. /\ \A p \in ToSet(pending) : Accounted(p)
      /\ \A e \in ToSet(open) : e.change \notin moved => e \in ToSet(pending)
      /\ \A b \in ToSet(committed) \ moved : b \in ToSet(published)
  BY <1>2, <1>3, AtRest DEF ToSet
<1>5. open \in Seq(Entry) /\ pending \in Seq(Entry) /\ moved \subseteq Change
  BY <1>1 DEF FeedTypeOK
<1>6. /\ open' \in Seq(Entry) /\ NamesOf(open') = NamesOf(open)
      /\ \A e \in ToSet(open) :
           /\ e.depth < k => e \in ToSet(open')
           /\ \E f \in ToSet(open') : f.change = e.change /\ f.depth <= e.depth
      /\ \A f \in ToSet(open') : \E e \in ToSet(open) :
           f.change = e.change /\ (e.depth < k => f = e)
  <2>1. open' = Lowered(open, k) /\ k \in 1 .. MaxDepth /\ open \in Seq(Entry)
    BY <1>0, <1>2, <1>5
  <2>2. PICK s, o : s = open /\ o = open'
    OBVIOUS
  <2>3. s \in Seq(Entry) /\ o = Lowered(s, k) /\ k \in 1 .. MaxDepth
    BY <2>1, <2>2
  <2>4. QED
    BY <2>2, <2>3, LoweredIs
<1>7. \A e \in ToSet(open) : e \in Entry /\ e.depth \in Nat /\ k \in Nat
  BY <1>2, <1>5, EntryNumbers
<1>8. \A e \in ToSet(open) : ~ (e.depth < k) => e.change \in moved'
  BY <1>0, <1>7 DEF Since
<1>9. moved' \subseteq Change /\ moved \subseteq moved'
  BY <1>0, <1>5, <1>7 DEF Entry, Since
<1>10. FeedTypeOK'
  <2>1. NoCall \in Call
    BY DEF Call
  <2>2. QED
    BY <1>0, <1>1, <1>2, <1>6, <1>9, <2>1, StatementType DEF FeedTypeOK
<1>11. Ordered' /\ Ahead' /\ Known' /\ Outside'
  <2>1. \A f \in ToSet(open') : f.change <= changes /\ \A b \in ToSet(committed) : b < f.change
    BY <1>1, <1>6 DEF Ordered
  <2>2. QED
    BY <1>0, <1>1, <1>2, <1>3, <1>6, <2>1 DEF Ordered, Ahead, Known, Outside
<1>12. ASSUME NEW p \in ToSet(pending) PROVE Accounted(p)'
  <2>0. SUFFICES ASSUME Covered(p) PROVE Covered(p)'
    BY <1>0, <1>4 DEF Accounted
  <2>1. PICK e \in ToSet(open) : e.change = p.change /\ e.depth <= p.depth
    BY <2>0 DEF Covered
  <2>2. PICK f \in ToSet(open') : f.change = e.change /\ f.depth <= e.depth
    BY <1>6
  <2>3. f.depth <= p.depth
    <3>1. e.depth \in Nat /\ p.depth \in Nat /\ f.depth \in Nat
      BY <1>5, <1>6, EntryNumbers
    <3>2. QED
      BY <2>1, <2>2, <3>1
  <2>4. QED
    BY <2>1, <2>2, <2>3 DEF Covered
<1>13. ASSUME NEW f \in ToSet(open'), f.change \notin moved' PROVE f \in ToSet(pending)
  <2>1. PICK e \in ToSet(open) : f.change = e.change /\ (e.depth < k => f = e)
    BY <1>6
  <2>2. QED
    BY <1>4, <1>8, <1>9, <1>13, <2>1
<1>14. Step(t)'
  BY <1>0, <1>2, <1>3, <1>4, <1>9, <1>12, <1>13
  DEF Step, Resting, Queueing, Discarding, Finishing, Releasing, Queued, Underway
<1>15. QED
  BY <1>10, <1>11, <1>14 DEF IInv

-----------------------------------------------------------------------------
(* What follows a statement keeps it.                                      *)

\* The types of the calls that end.
LEMMA EndedType ==
  ASSUME FeedTypeOK, NEW t, Thread = {t}, UNCHANGED dbVars,
         NEW r \in Seq(Change), ready' = [ready EXCEPT ![t] = r],
         call' = [call EXCEPT ![t] = NoCall], pending' \in Seq(Entry), published' \in Seq(Change)
  PROVE  /\ FeedTypeOK'
         /\ call'[t] = NoCall /\ call'[t].do = "none" /\ ready'[t] = r
         /\ inTx' = inTx /\ depth' = depth /\ open' = open /\ committed' = committed
         /\ moved' = moved /\ stranded' = stranded /\ changes' = changes
<1>1. call \in [Thread -> Call] /\ ready \in [Thread -> Seq(Change)]
  BY DEF FeedTypeOK
<1>2. call'[t] = NoCall /\ ready'[t] = r
  BY <1>1
<1>3. NoCall \in Call /\ NoCall.do = "none"
  BY DEF Call, NoCall
<1>4. call' \in [Thread -> Call] /\ ready' \in [Thread -> Seq(Change)]
  BY <1>1, <1>3
<1>5. QED
  BY <1>2, <1>3, <1>4 DEF FeedTypeOK, dbVars

\* The list of ready events is given again, when it does not change.
LEMMA SameReady ==
  ASSUME FeedTypeOK, NEW t, Thread = {t}, ready' = ready
  PROVE  ready[t] \in Seq(Change) /\ ready' = [ready EXCEPT ![t] = ready[t]]
BY DEF FeedTypeOK

\* What a call has captured.
LEMMA CallFields ==
  ASSUME ChangesAssumption, FeedTypeOK, NEW t, Thread = {t}
  PROVE  /\ call[t].do = "queue" => call[t].entry \in Entry /\ call[t].entry.change \in Change
         /\ call[t].do = "discard" => call[t].depth \in Nat
<1>1. call[t] \in Call
  BY DEF FeedTypeOK
<1>2. ASSUME call[t].do = "queue" PROVE call[t].entry \in Entry
  BY <1>1, <1>2 DEF Call, NoCall
<1>3. ASSUME call[t].do = "discard" PROVE call[t].depth \in 0 .. MaxDepth
  BY <1>1, <1>3 DEF Call, NoCall
<1>4. ASSUME call[t].do = "queue" PROVE call[t].entry.change \in Change
  BY <1>2, <1>4 DEF Entry
<1>5. QED
  BY <1>2, <1>3, <1>4, Bounds

\* A change of the open transaction becomes pending; one that was committed, ready.
LEMMA QueueInv ==
  ASSUME ChangesAssumption, IInv, NEW t, Thread = {t}, Queue(t)
  PROVE  IInv'
<1>1. FeedTypeOK /\ Ordered /\ Ahead /\ Known /\ Outside /\ Step(t) /\ t \in Thread
  BY DEF IInv
<1>2. PICK e : e = call[t].entry
  OBVIOUS
<1>3. /\ call[t].do = "queue" /\ call[t].inTx = inTx /\ ready[t] = <<>>
      /\ e.change = changes /\ e \in Entry /\ changes \in Change
  <2>1. call[t].do = "queue" /\ call[t] # NoCall
    BY DEF Queue, NoCall
  <2>2. QED
    BY <1>1, <1>2, <2>1, CallFields DEF Step, Queueing, Releasing
<1>4. /\ \A p \in ToSet(pending) : p.change < changes
      /\ \A d \in ToSet(published) : d < changes
      /\ \A p \in ToSet(pending) : Accounted(p)
      /\ IF inTx THEN Covered(e) ELSE changes \in ToSet(committed)
      /\ \A x \in ToSet(open) : x.change \notin moved => x \in ToSet(pending) \cup {e}
      /\ \A d \in ToSet(committed) \ moved : d \in ToSet(published) \/ (~ inTx /\ d = changes)
  BY <1>1, <1>2, <1>3 DEF Step, Resting, Queueing, Queued, Underway, ToSet
<1>5. pending \in Seq(Entry) /\ published \in Seq(Change) /\ Change \in SUBSET Nat
  BY <1>1, Bounds DEF FeedTypeOK
<1>6. CASE inTx
  <2>1. /\ pending' = Append(pending, e) /\ ready' = ready /\ published' = published
        /\ call' = [call EXCEPT ![t] = NoCall] /\ UNCHANGED dbVars
    BY <1>2, <1>3, <1>6 DEF Queue
  <2>2. pending' \in Seq(Entry) /\ ToSet(pending') = ToSet(pending) \cup {e}
    BY <1>3, <1>5, <2>1, AppendSet
  <2>3. /\ FeedTypeOK' /\ call'[t] = NoCall /\ call'[t].do = "none" /\ ready'[t] = <<>>
        /\ inTx' = inTx /\ depth' = depth /\ open' = open /\ committed' = committed
        /\ moved' = moved /\ stranded' = stranded /\ changes' = changes
    BY <1>1, <1>3, <1>5, <2>1, <2>2, SameReady, EndedType
  <2>4. Increasing(NamesOf(pending'))
    <3>1. NamesOf(pending') = Append(NamesOf(pending), changes)
      BY <1>3, <1>5, <2>1, NamesAppend
    <3>2. NamesOf(pending) \in Seq(Change) /\ \A d \in ToSet(NamesOf(pending)) : d < changes
      BY <1>4, <1>5, NamesType
    <3>3. QED
      BY <1>1, <1>3, <1>5, <3>1, <3>2, IncreasingAppend DEF Ordered
  <2>5. changes <= changes
    BY <1>3, <1>5
  <2>6. Ordered' /\ Ahead' /\ Known' /\ Outside'
    BY <1>1, <1>3, <1>4, <2>1, <2>2, <2>3, <2>4, <2>5 DEF Ordered, Ahead, Known, Outside
  <2>7. \A p \in ToSet(pending') : Accounted(p)'
    BY <1>4, <1>6, <2>2, <2>3 DEF Accounted, Covered
  <2>8. Step(t)'
    BY <1>4, <1>6, <2>1, <2>2, <2>3, <2>7
    DEF Step, Resting, Queueing, Discarding, Finishing, Releasing, Queued, Underway
  <2>9. QED
    BY <2>3, <2>6, <2>8 DEF IInv
<1>7. CASE ~ inTx
  <2>1. open = <<>> /\ NamesOf(<<>>) = <<>> /\ ToSet(<<>>) = {} /\ Increasing(<<>>)
    BY <1>1, <1>7 DEF Outside, NamesOf, ToSet, Increasing
  <2>2. PICK z, r : z = NamesOf(pending) /\ r = Append(z, changes)
    OBVIOUS
  <2>3. /\ r \in Seq(Change) /\ ToSet(r) = ToSet(z) \cup {changes} /\ Increasing(r)
        /\ ToSet(z) \subseteq stranded
        /\ \A d \in ToSet(published), x \in ToSet(r) : d < x
    <3>1. z \in Seq(Change) /\ \A d \in ToSet(z) : \E p \in ToSet(pending) : d = p.change
      BY <1>5, <2>2, NamesType
    <3>2. r \in Seq(Change) /\ ToSet(r) = ToSet(z) \cup {changes}
      BY <1>3, <2>2, <3>1, AppendSet
    <3>3. \A d \in ToSet(z) : d < changes /\ d \in stranded
      BY <1>4, <2>1, <3>1 DEF Accounted, Covered
    <3>4. Increasing(z)
      BY <1>1, <2>2 DEF Ordered
    <3>5. Increasing(r)
      BY <1>3, <1>5, <2>2, <3>1, <3>3, <3>4, IncreasingAppend
    <3>6. \A d \in ToSet(published), x \in ToSet(r) : d < x
      BY <1>1, <1>4, <3>1, <3>2 DEF Ahead
    <3>7. QED
      BY <3>2, <3>3, <3>5, <3>6
  <2>4. /\ pending' = <<>> /\ ready' = [ready EXCEPT ![t] = r] /\ published' = published
        /\ call' = [call EXCEPT ![t] = NoCall] /\ UNCHANGED dbVars /\ pending' \in Seq(Entry)
    BY <1>2, <1>3, <1>7, <2>2, EmptySeq DEF Queue
  <2>5. /\ FeedTypeOK' /\ call'[t] = NoCall /\ call'[t].do = "none" /\ ready'[t] = r
        /\ inTx' = inTx /\ depth' = depth /\ open' = open /\ committed' = committed
        /\ moved' = moved /\ stranded' = stranded /\ changes' = changes
    BY <1>1, <1>5, <2>3, <2>4, EndedType
  <2>6. Ordered' /\ Ahead' /\ Known' /\ Outside'
    BY <1>1, <1>4, <1>7, <2>1, <2>3, <2>4, <2>5 DEF Ordered, Ahead, Known, Outside
  <2>8. Step(t)'
    BY <1>4, <1>7, <2>1, <2>3, <2>4, <2>5
    DEF Step, Resting, Queueing, Discarding, Finishing, Releasing, Queued, Underway
  <2>9. QED
    BY <2>5, <2>6, <2>8 DEF IInv
<1>8. QED
  BY <1>6, <1>7

\* The changes of savepoints that were undone are dropped.
LEMMA DiscardInv ==
  ASSUME ChangesAssumption, IInv, NEW t, Thread = {t}, Discard(t)
  PROVE  IInv'
<1>1. FeedTypeOK /\ Ordered /\ Ahead /\ Known /\ Outside /\ Step(t) /\ t \in Thread
  BY DEF IInv
<1>2. PICK d : d = call[t].depth
  OBVIOUS
<1>3. /\ call[t].do = "discard" /\ inTx /\ ready[t] = <<>> /\ d \in Nat
      /\ \A p \in ToSet(pending) : p.depth <= d => Accounted(p)
      /\ \A e \in ToSet(open) : e.depth <= d
      /\ \A e \in ToSet(open) : e.change \notin moved => e \in ToSet(pending)
      /\ \A b \in ToSet(committed) \ moved : b \in ToSet(published)
  <2>1. call[t].do = "discard" /\ call[t] # NoCall
    BY DEF Discard, NoCall
  <2>2. ready[t] = <<>> /\ d \in Nat
    BY <1>1, <1>2, <2>1, CallFields DEF Step, Releasing
  <2>3. QED
    BY <1>1, <1>2, <2>1, <2>2 DEF Step, Discarding, Queued, Underway, ToSet
<1>4. pending \in Seq(Entry) /\ published \in Seq(Change)
  BY <1>1 DEF FeedTypeOK
<1>5. /\ pending' = Retained(pending, d) /\ ready' = ready /\ published' = published
      /\ call' = [call EXCEPT ![t] = NoCall] /\ UNCHANGED dbVars
  BY <1>2 DEF Discard
<1>6. /\ pending' \in Seq(Entry) /\ Increasing(NamesOf(pending'))
      /\ ToSet(pending') = {p \in ToSet(pending) : p.depth <= d}
  BY <1>1, <1>3, <1>4, <1>5, RetainedIs DEF Ordered
<1>7. /\ FeedTypeOK' /\ call'[t] = NoCall /\ call'[t].do = "none" /\ ready'[t] = <<>>
      /\ inTx' = inTx /\ depth' = depth /\ open' = open /\ committed' = committed
      /\ moved' = moved /\ stranded' = stranded /\ changes' = changes
  BY <1>1, <1>3, <1>4, <1>5, <1>6, SameReady, EndedType
<1>8. Ordered' /\ Ahead' /\ Known' /\ Outside'
  BY <1>1, <1>5, <1>6, <1>7 DEF Ordered, Ahead, Known, Outside
<1>9. \A p \in ToSet(pending') : Accounted(p)'
  BY <1>3, <1>6, <1>7 DEF Accounted, Covered
<1>10. Step(t)'
  BY <1>3, <1>5, <1>6, <1>7, <1>9
  DEF Step, Resting, Queueing, Discarding, Finishing, Releasing, Queued, Underway
<1>11. QED
  BY <1>7, <1>8, <1>10 DEF IInv

\* Pending changes become ready after a commit, and are dropped after a rollback.
LEMMA FinishInv ==
  ASSUME ChangesAssumption, IInv, NEW t, Thread = {t}, Finish(t)
  PROVE  IInv'
<1>1. FeedTypeOK /\ Ordered /\ Ahead /\ Known /\ Outside /\ Step(t) /\ t \in Thread
  BY DEF IInv
<1>2. PICK r : r = IF call[t].do = "publish" THEN NamesOf(pending) ELSE <<>>
  OBVIOUS
<1>3. NamesOf(<<>>) = <<>> /\ ToSet(<<>>) = {} /\ Increasing(<<>>)
  BY DEF NamesOf, ToSet, Increasing
<1>4. pending \in Seq(Entry) /\ published \in Seq(Change)
  BY <1>1 DEF FeedTypeOK
<1>5. /\ ~ inTx /\ ready[t] = <<>> /\ open = <<>>
      /\ ToSet(r) \subseteq ToSet(committed) \cup stranded
      /\ \A b \in ToSet(committed) \ moved : b \in ToSet(published) \cup ToSet(r)
  <2>1. call[t].do \in {"publish", "drop"} /\ call[t] # NoCall
    BY DEF Finish, NoCall
  <2>2. ready[t] = <<>> /\ ~ inTx /\ open = <<>>
    BY <1>1, <2>1 DEF Step, Releasing, Finishing, Outside
  <2>3. QED
    BY <1>1, <1>2, <1>3, <2>1, <2>2 DEF Step, Finishing, Underway
<1>6. r \in Seq(Change) /\ Increasing(r) /\ \A c \in ToSet(published), b \in ToSet(r) : c < b
  <2>1. CASE call[t].do = "publish"
    <3>1. r = NamesOf(pending)
      BY <1>2, <2>1
    <3>2. QED
      BY <1>1, <1>4, <3>1, NamesType DEF Ordered, Ahead
  <2>2. CASE call[t].do # "publish"
    BY <1>2, <1>3, <2>2, EmptySeq
  <2>3. QED
    BY <2>1, <2>2
<1>7. /\ pending' = <<>> /\ ready' = [ready EXCEPT ![t] = r] /\ published' = published
      /\ call' = [call EXCEPT ![t] = NoCall] /\ UNCHANGED dbVars /\ pending' \in Seq(Entry)
  BY <1>2, EmptySeq DEF Finish
<1>8. /\ FeedTypeOK' /\ call'[t] = NoCall /\ call'[t].do = "none" /\ ready'[t] = r
      /\ inTx' = inTx /\ depth' = depth /\ open' = open /\ committed' = committed
      /\ moved' = moved /\ stranded' = stranded /\ changes' = changes
  BY <1>1, <1>4, <1>6, <1>7, EndedType
<1>9. Ordered' /\ Ahead' /\ Known' /\ Outside'
  BY <1>1, <1>3, <1>5, <1>6, <1>7, <1>8 DEF Ordered, Ahead, Known, Outside
<1>10. Step(t)'
  BY <1>3, <1>5, <1>7, <1>8
  DEF Step, Resting, Queueing, Discarding, Finishing, Releasing, Queued, Underway
<1>11. QED
  BY <1>8, <1>9, <1>10 DEF IInv

\* The first of the ready events is published.
LEMMA PublishInv ==
  ASSUME ChangesAssumption, IInv, NEW t, Thread = {t}, Publish(t)
  PROVE  IInv'
<1>1. FeedTypeOK /\ Ordered /\ Ahead /\ Known /\ Outside /\ Step(t) /\ t \in Thread
  BY DEF IInv
<1>2. PICK h, r : h = Head(ready[t]) /\ r = Tail(ready[t])
  OBVIOUS
<1>3. /\ ready[t] # <<>> /\ ready[t] \in Seq(Change) /\ published \in Seq(Change)
      /\ call[t] = NoCall /\ pending = <<>> /\ Change \in SUBSET Nat
  BY <1>1, Bounds DEF Publish, FeedTypeOK, Step, Releasing
<1>4. /\ published' = Append(published, h) /\ ready' = [ready EXCEPT ![t] = r]
      /\ pending' = pending /\ call' = call /\ UNCHANGED dbVars
  BY <1>2 DEF Publish
<1>5. /\ h \in Change /\ r \in Seq(Change) /\ Len(r) = Len(ready[t]) - 1
      /\ h = ready[t][1]
      /\ \A i \in 1 .. Len(r) : r[i] = ready[t][i + 1]
  BY <1>2, <1>3, HeadTailProperties
<1>6. /\ Len(ready[t]) \in Nat \ {0} /\ DOMAIN ready[t] = 1 .. Len(ready[t])
      /\ DOMAIN r = 1 .. Len(r) /\ Len(r) \in Nat
  BY <1>3, <1>5, LenProperties, EmptySeq
<1>7. ToSet(ready[t]) = ToSet(r) \cup {h}
  <2>1. \A i \in 1 .. Len(ready[t]) : i = 1 \/ (i - 1 \in 1 .. Len(r) /\ ready[t][i] = r[i - 1])
    BY <1>5, <1>6
  <2>2. \A i \in 1 .. Len(r) : i + 1 \in 1 .. Len(ready[t])
    BY <1>5, <1>6
  <2>3. 1 \in 1 .. Len(ready[t])
    BY <1>6
  <2>4. h \in ToSet(ready[t]) /\ \A i \in 1 .. Len(r) : r[i] \in ToSet(ready[t])
    BY <1>5, <1>6, <2>2, <2>3 DEF ToSet
  <2>5. \A i \in 1 .. Len(ready[t]) : ready[t][i] = h \/ ready[t][i] \in ToSet(r)
    BY <1>5, <1>6, <2>1 DEF ToSet
  <2>6. QED
    BY <1>6, <2>4, <2>5 DEF ToSet
<1>8. Increasing(r) /\ \A c \in ToSet(r) : h < c
  <2>1. \A i, j \in 1 .. Len(ready[t]) : i < j => ready[t][i] < ready[t][j]
    BY <1>1, <1>6 DEF Ordered, Increasing
  <2>2. \A i \in 1 .. Len(r) : i + 1 \in 1 .. Len(ready[t]) /\ 1 < i + 1
    BY <1>5, <1>6
  <2>3. 1 \in 1 .. Len(ready[t])
    BY <1>6
  <2>4. \A i \in 1 .. Len(r) : h < r[i]
    BY <1>5, <2>1, <2>2, <2>3
  <2>5. \A i, j \in 1 .. Len(r) : i < j => r[i] < r[j]
    <3>1. \A i, j \in 1 .. Len(r) : i < j => i + 1 < j + 1
      OBVIOUS
    <3>2. QED
      BY <1>5, <2>1, <2>2, <3>1
  <2>6. QED
    BY <1>6, <2>4, <2>5 DEF Increasing, ToSet
<1>9. /\ published' \in Seq(Change) /\ ToSet(published') = ToSet(published) \cup {h}
  BY <1>3, <1>4, <1>5, AppendSet
<1>10. \A c \in ToSet(published) : c < h /\ \A b \in ToSet(r) : c < b
  BY <1>1, <1>7 DEF Ahead
<1>11. Increasing(published')
  BY <1>1, <1>3, <1>4, <1>5, <1>10, IncreasingAppend DEF Ordered
<1>12. /\ call' = [call EXCEPT ![t] = NoCall]
  BY <1>1, <1>3, <1>4 DEF FeedTypeOK
<1>13. pending' \in Seq(Entry)
  BY <1>1, <1>4 DEF FeedTypeOK
<1>14. /\ FeedTypeOK' /\ call'[t] = NoCall /\ call'[t].do = "none" /\ ready'[t] = r
       /\ inTx' = inTx /\ depth' = depth /\ open' = open /\ committed' = committed
       /\ moved' = moved /\ stranded' = stranded /\ changes' = changes
  BY <1>1, <1>4, <1>5, <1>9, <1>12, <1>13, EndedType
<1>15. {h} \cup ToSet(r) \subseteq ToSet(committed) \cup stranded /\ ToSet(pending) = {}
  <2>1. ToSet(ready[t]) \subseteq ToSet(committed) \cup stranded
    BY <1>1 DEF Known
  <2>2. ToSet(pending) = {}
    BY <1>3 DEF ToSet
  <2>3. QED
    BY <1>7, <2>1, <2>2
<1>16. Ordered' /\ Ahead' /\ Known' /\ Outside'
  BY <1>1, <1>3, <1>4, <1>8, <1>9, <1>10, <1>11, <1>14, <1>15 DEF Ordered, Ahead, Known, Outside
<1>17. /\ \A p \in ToSet(pending) : Accounted(p)
       /\ \A e \in ToSet(open) : e.change \notin moved => e \in ToSet(pending)
       /\ \A c \in ToSet(committed) \ moved : c \in ToSet(published) \cup ToSet(ready[t])
  BY <1>3, AtRest
<1>18. \A p \in ToSet(pending) : Accounted(p)'
  BY <1>15
<1>19. Step(t)'
  BY <1>3, <1>4, <1>7, <1>9, <1>14, <1>17, <1>18
  DEF Step, Resting, Queueing, Discarding, Finishing, Releasing, Queued, Underway
<1>20. QED
  BY <1>14, <1>16, <1>19 DEF IInv

\* Every step keeps it.
LEMMA NextInv ==
  ASSUME OneThread, IInv, [FeedNext]_feedVars
  PROVE  IInv'
<1>1. PICK t : Thread = {t}
  BY DEF OneThread
<1>2. ChangesAssumption
  BY DEF OneThread
<1>3. CASE FeedNext
  <2>1. Statement(t) \/ Afterwards(t)
    BY <1>1, <1>3 DEF FeedNext
  <2>2. CASE Mutate(t)
    BY <1>1, <1>2, <2>2, MutateInv
  <2>3. CASE Begin(t) \/ Savepoint(t)
    BY <1>1, <1>2, <2>3, OpenInv
  <2>4. CASE CommitTx(t)
    BY <1>1, <1>2, <2>4, CommitInv
  <2>5. CASE Rollback(t)
    BY <1>1, <1>2, <2>5, RollbackInv
  <2>6. CASE RollbackTo(t)
    BY <1>1, <1>2, <2>6, RollbackToInv
  <2>7. CASE Release(t)
    BY <1>1, <1>2, <2>7, ReleaseInv
  <2>13. CASE RollbackFails(t)
    BY <1>1, <1>2, <2>13, RollbackFailsInv
  <2>14. CASE RollbackToFails(t)
    BY <1>1, <1>2, <2>14, RollbackToFailsInv
  <2>8. CASE Queue(t)
    BY <1>1, <1>2, <2>8, QueueInv
  <2>9. CASE Discard(t)
    BY <1>1, <1>2, <2>9, DiscardInv
  <2>10. CASE Finish(t)
    BY <1>1, <1>2, <2>10, FinishInv
  <2>11. CASE Publish(t)
    BY <1>1, <1>2, <2>11, PublishInv
  <2>12. QED
    BY <2>1, <2>2, <2>3, <2>4, <2>5, <2>6, <2>7, <2>8, <2>9, <2>10, <2>11, <2>13, <2>14
    DEF Statement, Afterwards
<1>4. CASE UNCHANGED feedVars
  BY <1>4 DEF feedVars, dbVars, IInv, FeedTypeOK, Ordered, Ahead, Known, Outside, Step, Resting,
              Queueing, Discarding, Finishing, Releasing, Queued, Underway, Covered, Accounted
<1>5. QED
  BY <1>3, <1>4

-----------------------------------------------------------------------------
(* Theorems.                                                               *)

\* As long as one thread uses a connection (lib.rs, pending_changes and its two locks), what
\* is open, pending, ready and published fits together at every step.
THEOREM InvCorrect ==
  ASSUME OneThread
  PROVE  FeedSpec => []IInv
<1>1. FeedInit => IInv
  BY InitInv DEF OneThread
<1>2. IInv /\ [FeedNext]_feedVars => IInv'
  BY NextInv
<1>3. QED
  BY <1>1, <1>2, PTL DEF FeedSpec

\* Subscribers hear of committed changes only, of each at most once, except for those that a
\* rollback undid before it failed (lib.rs, the early returns of rollback and execute).
THEOREM CommittedCorrect ==
  ASSUME OneThread
  PROVE  FeedSpec => []OnlyCommitted
<1>1. IInv => OnlyCommitted
  <2>1. SUFFICES ASSUME IInv PROVE OnlyCommitted
    OBVIOUS
  <2>2. /\ FeedTypeOK /\ ToSet(published) \subseteq ToSet(committed) \cup stranded
        /\ Increasing(published)
    BY <2>1 DEF IInv, Known, Ordered
  <2>3. /\ Change \subseteq Nat /\ DOMAIN published = 1 .. Len(published) /\ Len(published) \in Nat
        /\ \A i \in DOMAIN published : published[i] \in Change
    BY <2>2, Bounds, LenProperties DEF FeedTypeOK, OneThread
  <2>4. ASSUME NEW i \in DOMAIN published, NEW j \in DOMAIN published, published[i] = published[j]
        PROVE  i = j
    <3>1. i < j \/ j < i \/ i = j
      BY <2>3
    <3>2. published[i] \in Nat
      BY <2>3
    <3>3. ~ (published[i] < published[j]) /\ ~ (published[j] < published[i])
      BY <2>4, <3>2
    <3>4. QED
      BY <2>2, <3>1, <3>3 DEF Increasing
  <2>5. QED
    BY <2>2, <2>4 DEF OnlyCommitted, IsInjective
<1>2. QED
  BY <1>1, InvCorrect, PTL

\* They hear of them in the order of their commits, and miss those alone that were made
\* inside a savepoint that was released (lib.rs, discard_changes_after_savepoint).
THEOREM KeptCorrect ==
  ASSUME OneThread
  PROVE  FeedSpec => []KeptUnlessReleased
<1>1. IInv => KeptUnlessReleased
  <2>1. SUFFICES ASSUME IInv PROVE KeptUnlessReleased
    OBVIOUS
  <2>2. PICK t : Thread = {t}
    BY DEF OneThread
  <2>3. /\ committed \in Seq(Change) /\ Change \subseteq Nat /\ Increasing(committed)
        /\ ToSet(published) \subseteq ToSet(committed) \cup stranded
        /\ Increasing(published) /\ Step(t)
    BY <2>1, <2>2, Bounds DEF IInv, FeedTypeOK, Known, Ordered, OneThread
  <2>4. /\ DOMAIN committed = 1 .. Len(committed) /\ Len(committed) \in Nat
        /\ \A a \in DOMAIN committed : committed[a] \in Nat
    BY <2>3, LenProperties
  <2>5. ASSUME NEW i \in DOMAIN published, NEW j \in DOMAIN published, i < j,
               {published[i], published[j]} \cap stranded = {}
        PROVE  \E a, b \in DOMAIN committed :
                 a < b /\ committed[a] = published[i] /\ committed[b] = published[j]
    <3>0. published[i] \in ToSet(committed) /\ published[j] \in ToSet(committed)
      <4>1. published[i] \in ToSet(published) /\ published[j] \in ToSet(published)
        BY <2>5 DEF ToSet
      <4>2. QED
        BY <2>3, <2>5, <4>1
    <3>1. PICK a \in DOMAIN committed, b \in DOMAIN committed :
            committed[a] = published[i] /\ committed[b] = published[j]
      BY <3>0 DEF ToSet
    <3>2. committed[a] < committed[b]
      BY <2>3, <2>5, <3>1 DEF Increasing
    <3>3. a < b \/ b < a \/ a = b
      BY <2>4
    <3>4. ~ (committed[b] < committed[a]) /\ committed[a] # committed[b]
      BY <2>4, <3>2
    <3>5. a < b
      BY <2>3, <3>3, <3>4 DEF Increasing
    <3>6. QED
      BY <3>1, <3>5
  <2>6. ASSUME Quiet PROVE ToSet(committed) \ moved \subseteq ToSet(published)
    <3>1. call[t] = NoCall /\ ready[t] = <<>>
      BY <2>2, <2>6 DEF Quiet, Idle
    <3>2. ToSet(<<>>) = {}
      BY DEF ToSet
    <3>3. QED
      BY <2>1, <2>2, <3>1, <3>2, AtRest
  <2>7. QED
    BY <2>5, <2>6 DEF KeptUnlessReleased
<1>2. QED
  BY <1>1, InvCorrect, PTL

=============================================================================
