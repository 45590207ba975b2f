----------------------------- MODULE PagerLemmas -----------------------------
(***************************************************************************)
(* Facts about the data of the pager: the order in which pages were used,  *)
(* partial functions on pages, the freelist of a database; and what a      *)
(* transaction and its savepoints can restore, and what each kind of step  *)
(* does to it.  Then the inductive invariant: what is in memory, what      *)
(* every open level can restore and what the next open may find are sound  *)
(* databases; reading, writing, allocating and freeing pages keep it.      *)
(***************************************************************************)
EXTENDS Pager, OrderLemmas, FiniteSetTheorems

-----------------------------------------------------------------------------
(* The types.                                                              *)

Maybe    == Content \cup {None}
Undo     == UNION {[P -> Maybe] : P \in SUBSET Page}
LevelRec == [name : Name \cup {None}, header : Header, undo : Undo, dirty : SUBSET Page,
             owner : [Page -> Owner]]
Memory   == [cache : Pages, lru : Seq(Page), header : Header, levels : Seq(LevelRec)]


\* The contents of some of the pages are a function on them.
LEMMA PagesType ==
  ASSUME NEW f
  PROVE  f \in Pages <=> DOMAIN f \subseteq Page /\ f \in [DOMAIN f -> Content]
BY DEF Pages

\* So is what a level has noted, which may be that a page had no content.
LEMMA UndoType ==
  ASSUME NEW f
  PROVE  f \in Undo <=> DOMAIN f \subseteq Page /\ f \in [DOMAIN f -> Maybe]
BY DEF Undo

\* With changes one page of a function, and keeps its type.
LEMMA WithType ==
  ASSUME NEW f, NEW p \in Page, NEW v
  PROVE  /\ DOMAIN With(f, p, v) = DOMAIN f \cup {p}
         /\ With(f, p, v)[p] = v
         /\ \A q \in DOMAIN f \ {p} : With(f, p, v)[q] = f[q]
         /\ f \in Pages /\ v \in Content => With(f, p, v) \in Pages
         /\ f \in Undo /\ v \in Maybe => With(f, p, v) \in Undo
<1>1. /\ DOMAIN With(f, p, v) = DOMAIN f \cup {p}
      /\ With(f, p, v)[p] = v
      /\ \A q \in DOMAIN f \ {p} : With(f, p, v)[q] = f[q]
  BY DEF With
<1>2. ASSUME f \in Pages, v \in Content PROVE With(f, p, v) \in Pages
  BY <1>2, PagesType DEF With
<1>3. ASSUME f \in Undo, v \in Maybe PROVE With(f, p, v) \in Undo
  BY <1>3, UndoType DEF With
<1>4. QED
  BY <1>1, <1>2, <1>3

\* Front drops the last element, and Last is that element.
LEMMA FrontType ==
  ASSUME NEW s \in Seq(Page), s # <<>>
  PROVE  /\ Front(s) \in Seq(Page) /\ Len(s) \in Nat \ {0}
         /\ DOMAIN Front(s) = 1 .. Len(s) - 1 /\ DOMAIN s = 1 .. Len(s)
         /\ \A i \in 1 .. Len(s) - 1 : Front(s)[i] = s[i]
         /\ Last(s) = s[Len(s)] /\ Last(s) \in Page
<1>1. Len(s) \in Nat \ {0} /\ DOMAIN s = 1 .. Len(s)
  OBVIOUS
<1>2. \A i \in 1 .. Len(s) - 1 : s[i] \in Page
  BY <1>1
<1>3. /\ SubSeq(s, 1, Len(s) - 1) \in Seq(Page)
      /\ Len(SubSeq(s, 1, Len(s) - 1)) = Len(s) - 1
      /\ \A i \in 1 .. Len(s) - 1 : SubSeq(s, 1, Len(s) - 1)[i] = s[i]
  BY <1>1, <1>2
<1>4. QED
  BY <1>1, <1>3 DEF Front, Last

\* The empty sequence is also the function on no page.
LEMMA EmptyPages == <<>> \in Pages /\ DOMAIN <<>> = {}
<1>1. DOMAIN <<>> = {} /\ <<>> \in [{} -> Content]
  OBVIOUS
<1>2. QED
  BY <1>1, PagesType

\* What the pager writes into pages is content, and None is none.
LEMMA ContentType ==
  /\ \A x \in 0 .. MaxWork : Holding(x) \in Content
  /\ \A n \in Page \cup {0}, s \in Seq(Page) : Trunk(n, s) \in Content
  /\ \A c \in Content : c.next \in Page \cup {0} /\ c.slots \in Seq(Page)
  /\ None \notin Content /\ Empty \in Content
<1>1. <<>> \in Seq(Page)
  OBVIOUS
<1>2. QED
  BY <1>1, NoneAssumption, BoundAssumption DEF Content, Holding, Trunk, Empty
------------------------------------------------------------------------

\* The fields of a trunk.
LEMMA TrunkType ==
  ASSUME NEW n \in Page \cup {0}, NEW s \in Seq(Page), NEW c, c = Trunk(n, s)
  PROVE  c \in Content /\ c.next = n /\ c.slots = s
BY BoundAssumption DEF Content, Trunk

\* Front keeps every element but the last where it is.
LEMMA FrontDomain ==
  ASSUME NEW s \in Seq(Page), s # <<>>, NEW f, f = Front(s)
  PROVE  DOMAIN f \subseteq DOMAIN s /\ \A a \in DOMAIN f : f[a] = s[a] /\ a # Len(s)
<1>1. /\ DOMAIN f = 1 .. Len(s) - 1 /\ DOMAIN s = 1 .. Len(s) /\ Len(s) \in Nat
      /\ \A i \in 1 .. Len(s) - 1 : f[i] = s[i]
  BY FrontType
<1>2. QED
  BY <1>1

-----------------------------------------------------------------------------
(* The order in which pages were used.                                     *)

\* Of n indexes one is the k-th, for every k up to n.
LEMMA CountingUp ==
  ASSUME NEW n \in Nat, NEW I, I \subseteq 1 .. n, NEW k \in 1 .. Cardinality(I)
  PROVE  \E i \in I : Cardinality({j \in I : j <= i}) = k
<1> DEFINE Upto(i)  == {j \in I : j <= i}
           count(i) == Cardinality(Upto(i))
           Late     == {i \in 0 .. n : k <= count(i)}
<1>1. \A j \in I : j \in Nat /\ 1 <= j /\ j <= n
  OBVIOUS
<1>2. IsFiniteSet(I)
  <2>1. IsFiniteSet(1 .. n)
    BY FS_Interval
  <2>2. I \in SUBSET (1 .. n)
    OBVIOUS
  <2>3. QED
    BY <2>1, <2>2, FS_Subset
<1>3. \A i : IsFiniteSet(Upto(i)) /\ count(i) \in Nat
  <2>1. \A i : Upto(i) \in SUBSET I
    OBVIOUS
  <2> HIDE DEF Upto
  <2>2. \A i : IsFiniteSet(Upto(i))
    BY <1>2, <2>1, FS_Subset
  <2>3. QED
    BY <2>2, FS_CardinalityType
<1>4. k \in Nat /\ 1 <= k /\ k <= Cardinality(I)
  <2>1. Cardinality(I) \in Nat
    BY <1>2, FS_CardinalityType
  <2>2. QED
    BY <2>1
<1>5. count(n) = Cardinality(I)
  <2>1. Upto(n) = I
    BY <1>1
  <2>2. QED
    BY <2>1
<1>6. count(0) = 0
  <2>1. \A j : j \notin Upto(0)
    <3>1. \A j \in I : ~ (j <= 0)
      BY <1>1
    <3>2. QED
      BY <3>1
  <2> HIDE DEF Upto
  <2>2. Upto(0) = {}
    BY <2>1
  <2>3. QED
    BY <2>2, FS_EmptySet
<1>7. \A i \in 1 .. n : i \notin I => count(i) = count(i - 1)
  <2>1. ASSUME NEW i \in 1 .. n, i \notin I PROVE Upto(i) = Upto(i - 1)
    <3>1. \A j \in I : j <= i <=> j <= i - 1
      BY <1>1, <2>1
    <3>2. QED
      BY <3>1
  <2> HIDE DEF Upto
  <2>2. QED
    BY <2>1
<1>8. \A i \in I : count(i) = count(i - 1) + 1
  <2>1. ASSUME NEW i \in I PROVE Upto(i) = Upto(i - 1) \cup {i} /\ i \notin Upto(i - 1)
    <3>1. \A j \in I : j <= i <=> j <= i - 1 \/ j = i
      BY <1>1
    <3>2. ~ (i <= i - 1)
      BY <1>1
    <3>3. QED
      BY <3>1, <3>2
  <2> HIDE DEF Upto
  <2>2. \A i : IsFiniteSet(Upto(i))
    BY <1>3
  <2>3. QED
    BY <2>1, <2>2, FS_AddElement
<1>9. \A i : count(i) \in Nat
  BY <1>3
<1> HIDE DEF count, Upto
<1>10. PICK m \in Late : \A i \in Late : m <= i
  <2>1. Late \subseteq Nat /\ n \in Late
    BY <1>4, <1>5
  <2> HIDE DEF Late
  <2>2. QED
    BY <2>1, LeastElement, Zenon
<1>11. m \in 1 .. n /\ m - 1 \in 0 .. n /\ k <= count(m)
  BY <1>4, <1>6, <1>10
<1>12. count(m - 1) < k
  <2>1. m - 1 \notin Late
    BY <1>10, <1>11
  <2>2. QED
    BY <1>9, <1>4, <1>11, <2>1
<1>13. m \in I
  BY <1>9, <1>4, <1>7, <1>11, <1>12
<1>14. count(m) = k
  BY <1>9, <1>4, <1>8, <1>11, <1>12, <1>13
<1>15. QED
  BY <1>13, <1>14 DEF count, Upto

\* Only picks members of S, each as often as s has it.
LEMMA OnlyProperties ==
  ASSUME NEW T, NEW s \in Seq(T), NEW S
  PROVE  /\ Only(s, S) \in Seq(T \cap S)
         /\ (\A i, j \in DOMAIN s : i # j => s[i] # s[j]) =>
              \A i, j \in DOMAIN Only(s, S) : i # j => Only(s, S)[i] # Only(s, S)[j]
<1> DEFINE I       == {i \in DOMAIN s : s[i] \in S}
           n       == Cardinality(I)
           Upto(i) == {j \in I : j <= i}
           at(k)   == CHOOSE i \in I : Cardinality(Upto(i)) = k
<1>1. I \subseteq 1 .. Len(s) /\ Len(s) \in Nat
  OBVIOUS
<1>2. n \in Nat
  <2>1. IsFiniteSet(1 .. Len(s)) /\ I \in SUBSET (1 .. Len(s))
    BY <1>1, FS_Interval
  <2> HIDE DEF I
  <2>2. QED
    BY <2>1, FS_Subset, FS_CardinalityType
<1>3. \A k \in 1 .. n : at(k) \in I /\ Cardinality(Upto(at(k))) = k
  <2> HIDE DEF I
  <2>1. \A k \in 1 .. n : \E i \in I : Cardinality(Upto(i)) = k
    BY <1>1, CountingUp
  <2> HIDE DEF n
  <2>2. QED
    BY <2>1
<1>4. Only(s, S) = [k \in 1 .. n |-> s[at(k)]]
  BY DEF Only
<1> HIDE DEF at, n, Upto
<1>5. \A k \in 1 .. n : s[at(k)] \in T \cap S
  BY <1>3
<1>6. Only(s, S) \in Seq(T \cap S)
  BY <1>2, <1>4, <1>5
<1>7. ASSUME \A i, j \in DOMAIN s : i # j => s[i] # s[j],
             NEW i \in 1 .. n, NEW j \in 1 .. n, i # j
      PROVE  s[at(i)] # s[at(j)]
  BY <1>3, <1>7
<1>8. QED
  BY <1>4, <1>6, <1>7

-----------------------------------------------------------------------------
(* A sound database: c maps pages to contents.                             *)

IsFree(q, h, o) == q \in Page /\ o[q] = "free" /\ q <= h.total

\* The trunks are path[n], .., path[1]; trunks and slots are free pages, each with a place
\* of its own.
FreeList(path, place, n, c, h, o) ==
  /\ h.trunk = IF n = 0 THEN 0 ELSE path[n]
  /\ \A i \in 1 .. n :
       /\ IsFree(path[i], h, o) /\ place[path[i]] = <<i, 0>> /\ c[path[i]] \in Content
       /\ c[path[i]].next = IF i = 1 THEN 0 ELSE path[i - 1]
  /\ \A i \in 1 .. n : \A a \in DOMAIN c[path[i]].slots :
       IsFree(c[path[i]].slots[a], h, o) /\ place[c[path[i]].slots[a]] = <<i, a>>

Listed(path, place, n) ==
  n \in Nat /\ path \in [1 .. n -> Page] /\ place \in [Page -> Nat \X Nat]

Owned(c, h, o) ==
  /\ o[1] = "live"
  /\ \A p \in Page : o[p] # "free" => p <= h.total
  /\ \A p \in Page : o[p] = "live" => c[p] # None

Sound(c, h, o) ==
  /\ Owned(c, h, o)
  /\ \E n, path, place : Listed(path, place, n) /\ FreeList(path, place, n, c, h, o)

Database(c, h, o) == c \in [Page -> Maybe] /\ h \in Header /\ o \in [Page -> Owner]

\* c2 has what c has on the pages that count: those in use, or free, and not past the end.
SameBut(S, c, c2, h2, o2) ==
  \A q \in Page : q \notin S /\ q <= h2.total /\ o2[q] # "new" => c2[q] = c[q]

-----------------------------------------------------------------------------
(* What operations on pages do to a sound database.                        *)

\* The page at the head of the freelist is free and can be read.
LEMMA TrunkIsFree ==
  ASSUME NEW c, NEW h, NEW o, Database(c, h, o), Sound(c, h, o), h.trunk # 0
  PROVE  IsFree(h.trunk, h, o) /\ c[h.trunk] \in Content
<1>1. PICK n, path, place : Listed(path, place, n) /\ FreeList(path, place, n, c, h, o)
  BY DEF Sound
<1>2. n \in 1 .. n /\ h.trunk = path[n]
  BY <1>1 DEF FreeList, Listed
<1>3. QED
  BY <1>1, <1>2 DEF FreeList

\* A step that leaves the trunks as they are, and the pages of the freelist free.
LEMMA SoundKept ==
  ASSUME NEW c, NEW c2, NEW h, NEW h2, NEW o, NEW o2, Sound(c, h, o), Owned(c2, h2, o2),
         h2.trunk = h.trunk, \A q : IsFree(q, h, o) => IsFree(q, h2, o2) /\ c2[q] = c[q]
  PROVE  Sound(c2, h2, o2)
<1>1. PICK n, path, place : Listed(path, place, n) /\ FreeList(path, place, n, c, h, o)
  BY DEF Sound
<1>2. \A i \in 1 .. n : c2[path[i]] = c[path[i]] /\ IsFree(path[i], h2, o2)
  BY <1>1 DEF FreeList
<1>3. \A i \in 1 .. n : \A a \in DOMAIN c[path[i]].slots : IsFree(c[path[i]].slots[a], h2, o2)
  BY <1>1 DEF FreeList
<1>4. FreeList(path, place, n, c2, h2, o2)
  <2>1. ASSUME NEW i \in 1 .. n
        PROVE  /\ place[path[i]] = <<i, 0>> /\ c2[path[i]] \in Content
               /\ c2[path[i]].next = IF i = 1 THEN 0 ELSE path[i - 1]
    BY <1>1, <1>2 DEF FreeList
  <2>2. ASSUME NEW i \in 1 .. n, NEW a \in DOMAIN c2[path[i]].slots
        PROVE  /\ IsFree(c2[path[i]].slots[a], h2, o2) /\ place[c2[path[i]].slots[a]] = <<i, a>>
    <3>1. c2[path[i]] = c[path[i]]
      BY <1>2
    <3>2. place[c[path[i]].slots[a]] = <<i, a>>
      BY <1>1, <3>1 DEF FreeList
    <3>3. QED
      BY <1>3, <3>1, <3>2
  <2>3. h2.trunk = IF n = 0 THEN 0 ELSE path[n]
    BY <1>1 DEF FreeList
  <2>4. QED
    BY <1>2, <2>1, <2>2, <2>3 DEF FreeList
<1>5. QED
  BY <1>1, <1>4 DEF Sound

\* Only the pages count that are in use, or free, and not past the end.
LEMMA SoundAgree ==
  ASSUME NEW c, NEW c2, NEW h, NEW h2, NEW o,
         h2.trunk = h.trunk, h2.total = h.total, Sound(c, h, o), SameBut({}, c, c2, h2, o)
  PROVE  Sound(c2, h2, o)
<1>1. \A q : IsFree(q, h, o) => IsFree(q, h2, o) /\ c2[q] = c[q]
  BY DEF IsFree, SameBut
<1>2. Owned(c2, h2, o)
  BY DEF Sound, Owned, SameBut
<1>3. QED
  BY <1>1, <1>2, SoundKept

\* Two steps that change nothing for a caller.
LEMMA SameTwice ==
  ASSUME NEW w, NEW S, NEW T, NEW c1, NEW c2, NEW c3, NEW h, NEW o,
         SameBut(S, c1, c2, h, o), SameBut(T, c2, c3, h, o)
  PROVE  SameBut(S \cup T, c1, c3, h, o)
BY DEF SameBut

\* x is what a caller saw: the content and who had which page.  c is a sound database, and what
\* x was except for pages that nobody had written.
Restores(c, x, h, o) == Sound(c, h, o) /\ x.owner = o /\ SameBut({}, x.content, c, h, o)

\* So is what differs from c in such pages only.
LEMMA RestoresAgree ==
  ASSUME NEW x, NEW c, NEW c2, NEW h, NEW o, Restores(c, x, h, o), SameBut({}, c, c2, h, o)
  PROVE  Restores(c2, x, h, o)
<1>1. Sound(c2, h, o)
  BY SoundAgree DEF Restores
<1>2. SameBut({}, x.content, c2, h, o)
  <2>1. SameBut({} \cup {}, x.content, c2, h, o)
    BY SameTwice DEF Restores
  <2>2. {} \cup {} = {}
    OBVIOUS
  <2>3. QED
    BY <2>1, <2>2
<1>3. QED
  BY <1>1, <1>2 DEF Restores

\* A step that changes page p only, and neither frees nor allocates a page of the list.
LEMMA SoundElsewhere ==
  ASSUME NEW c, NEW c2, NEW h, NEW h2, NEW o, NEW o2, NEW p \in Page,
         Database(c, h, o), Database(c2, h2, o2),
         h2.trunk = h.trunk, h.total <= h2.total, Sound(c, h, o),
         o[p] # "free" \/ p > h.total,
         SameBut({p}, c, c2, h2, o2),
         \A q \in Page \ {p} : o2[q] = o[q],
         p = 1 => o2[p] = "live",
         o2[p] # "free" => p <= h2.total,
         o2[p] = "live" => c2[p] # None
  PROVE  Sound(c2, h2, o2)
<1>1. h.total \in Nat /\ h2.total \in Nat /\ Page \subseteq Nat /\ 1 \in Page
  BY PageAssumption DEF Database, Header
<1>2. \A q : IsFree(q, h, o) => IsFree(q, h2, o2) /\ c2[q] = c[q]
  BY <1>1 DEF IsFree, SameBut
<1>3. Owned(c2, h2, o2)
  BY <1>1 DEF Sound, Owned, SameBut
<1>4. QED
  BY <1>2, <1>3, SoundKept

\* A trunk that loses its last slot.
LEMMA SoundSlotTaken ==
  ASSUME NEW c, NEW c2, NEW h, NEW o, NEW t \in Page,
         Database(c, h, o), Database(c2, h, o), Sound(c, h, o),
         o[t] = "free", c[t] # None, c[t].slots # <<>>,
         c2[t] = Trunk(c[t].next, Front(c[t].slots)), SameBut({t}, c, c2, h, o)
  PROVE  Sound(c2, h, o)
<1>1. PICK n, path, place : Listed(path, place, n) /\ FreeList(path, place, n, c, h, o)
  BY DEF Sound
<1>2. c[t] \in Content /\ c[t].next \in Page \cup {0} /\ c[t].slots \in Seq(Page)
  BY ContentType DEF Database, Maybe
<1>3. c2[t] \in Content /\ c2[t].next = c[t].next /\ c2[t].slots = Front(c[t].slots)
  BY <1>2, TrunkType, FrontType, ZenonT(60)
<1>4. /\ DOMAIN c2[t].slots \subseteq DOMAIN c[t].slots
      /\ \A a \in DOMAIN c2[t].slots : c2[t].slots[a] = c[t].slots[a]
  BY <1>2, <1>3, FrontDomain
<1>5. \A i \in 1 .. n : path[i] # t => c2[path[i]] = c[path[i]]
  BY <1>1 DEF FreeList, SameBut, IsFree
<1>6. FreeList(path, place, n, c2, h, o)
  <2>1. ASSUME NEW i \in 1 .. n
        PROVE  c2[path[i]] \in Content /\ c2[path[i]].next = c[path[i]].next
    BY <1>1, <1>3, <1>5 DEF FreeList
  <2>2. ASSUME NEW i \in 1 .. n, NEW a \in DOMAIN c2[path[i]].slots
        PROVE  a \in DOMAIN c[path[i]].slots /\ c2[path[i]].slots[a] = c[path[i]].slots[a]
    BY <1>4, <1>5
  <2>3. ASSUME NEW i \in 1 .. n, NEW a \in DOMAIN c2[path[i]].slots
        PROVE  IsFree(c2[path[i]].slots[a], h, o) /\ place[c2[path[i]].slots[a]] = <<i, a>>
    <3>1. a \in DOMAIN c[path[i]].slots /\ c2[path[i]].slots[a] = c[path[i]].slots[a]
      BY <2>2
    <3>2. IsFree(c[path[i]].slots[a], h, o) /\ place[c[path[i]].slots[a]] = <<i, a>>
      BY <1>1, <3>1 DEF FreeList
    <3>3. QED
      BY <3>1, <3>2
  <2>4. QED
    BY <1>1, <2>1, <2>3 DEF FreeList
<1>7. Owned(c2, h, o)
  BY DEF Sound, Owned, SameBut
<1>8. QED
  BY <1>1, <1>6, <1>7 DEF Sound

HandedOut(o, id) == [o EXCEPT ![id] = "new"]

\* The last slot of the first trunk is handed out: c becomes c2.
SlotUsed(c, c2, h, h2, o, o2, id) ==
  /\ Database(c, h, o) /\ Database(c2, h2, o2) /\ Sound(c, h, o)
  /\ h2.trunk = h.trunk /\ h2.total = h.total
  /\ h.trunk # 0 /\ c[h.trunk].slots # <<>> /\ id = Last(c[h.trunk].slots)
  /\ c2[h.trunk] = Trunk(c[h.trunk].next, Front(c[h.trunk].slots))
  /\ SameBut({h.trunk, id}, c, c2, h2, o2)
  /\ o2 = HandedOut(o, id)

\* The page that is handed out was free, and the rest of the freelist stays as it is.
LEMMA SoundSlotUsed ==
  ASSUME NEW c, NEW c2, NEW h, NEW h2, NEW o, NEW o2, NEW id,
         SlotUsed(c, c2, h, h2, o, o2, id)
  PROVE  id # h.trunk /\ IsFree(id, h, o) /\ Sound(c2, h2, o2)
<1>0. /\ Database(c, h, o) /\ Database(c2, h2, o2) /\ Sound(c, h, o)
      /\ h2.trunk = h.trunk /\ h2.total = h.total
      /\ h.trunk # 0 /\ c[h.trunk].slots # <<>> /\ id = Last(c[h.trunk].slots)
      /\ c2[h.trunk] = Trunk(c[h.trunk].next, Front(c[h.trunk].slots))
      /\ SameBut({h.trunk, id}, c, c2, h2, o2)
      /\ o2 = HandedOut(o, id)
  BY DEF SlotUsed
<1> DEFINE t == h.trunk
           slots == c[t].slots
<1>1. PICK n, path, place : Listed(path, place, n) /\ FreeList(path, place, n, c, h, o)
  BY <1>0 DEF Sound
<1>2. n \in Nat /\ n \in 1 .. n /\ t = path[n]
  BY <1>0, <1>1 DEF FreeList, Listed
<1>3. IsFree(t, h, o) /\ c[t] \in Content
  BY <1>0, TrunkIsFree
<1>4. c[t].next \in Page \cup {0} /\ slots \in Seq(Page) /\ slots # <<>>
  BY <1>0, <1>3, ContentType
<1>5. Len(slots) \in DOMAIN slots /\ id = slots[Len(slots)] /\ Len(slots) \in Nat \ {0}
  BY <1>0, <1>4, FrontType
<1>6. c2[t] \in Content /\ c2[t].next = c[t].next /\ c2[t].slots = Front(slots)
  <2>1. c2[t] = Trunk(c[t].next, Front(slots)) /\ Front(slots) \in Seq(Page)
    BY <1>0, <1>4, FrontType
  <2> HIDE DEF slots, t
  <2>2. QED
    BY <1>0, <1>4, <2>1, TrunkType
<1>7. /\ DOMAIN c2[t].slots \subseteq DOMAIN slots
      /\ \A a \in DOMAIN c2[t].slots : c2[t].slots[a] = slots[a] /\ a # Len(slots)
  <2> HIDE DEF slots, t
  <2>1. QED
    BY <1>0, <1>4, <1>6, FrontDomain
<1> HIDE DEF t
<1>8. \A i \in 1 .. n : path[i] = t => i = n
  <2>1. \A j \in 1 .. n : place[path[j]] = <<j, 0>>
    BY <1>0, <1>1 DEF FreeList
  <2>2. place[t] = <<n, 0>>
    BY <1>2, <2>1
  <2>3. \A j \in 1 .. n : path[j] = t => <<j, 0>> = <<n, 0>>
    BY <2>1, <2>2
  <2>4. \A j : <<j, 0>> = <<n, 0>> => j = n
    OBVIOUS
  <2>5. QED
    BY <2>3, <2>4
<1>9. IsFree(id, h, o) /\ place[id] = <<n, Len(slots)>>
  <2>1. Len(slots) \in DOMAIN c[path[n]].slots /\ id = c[path[n]].slots[Len(slots)]
    BY <1>0, <1>2, <1>5
  <2> HIDE DEF slots
  <2>2. QED
    BY <1>0, <1>1, <1>2, <2>1 DEF FreeList
<1> HIDE DEF slots
<1>10. \A i \in 1 .. n : path[i] # id
  <2>1. \A i \in 1 .. n : place[path[i]] = <<i, 0>>
    BY <1>0, <1>1 DEF FreeList
  <2>2. QED
    BY <1>0, <1>5, <1>9, <2>1
<1>11. ASSUME NEW i \in 1 .. n, path[i] # t PROVE c2[path[i]] = c[path[i]]
  <2>1. IsFree(path[i], h, o)
    BY <1>0, <1>1 DEF FreeList
  <2>2. path[i] \in Page /\ path[i] <= h2.total /\ o2[path[i]] = o[path[i]] /\ o[path[i]] = "free"
    BY <1>0, <1>10, <2>1 DEF IsFree, Database, HandedOut
  <2>3. QED
    BY <1>0, <1>10, <1>11, <2>2 DEF SameBut, t
<1>12. ASSUME NEW i \in 1 .. n, NEW a \in DOMAIN c2[path[i]].slots
       PROVE  /\ a \in DOMAIN c[path[i]].slots
              /\ c2[path[i]].slots[a] = c[path[i]].slots[a]
              /\ c[path[i]].slots[a] # id
  <2>1. CASE path[i] = t
    <3>1. i = n
      BY <1>8, <2>1
    <3>2. a \in DOMAIN slots /\ a # Len(slots) /\ c2[t].slots[a] = slots[a]
      BY <1>0, <1>7, <2>1
    <3>3. a \in DOMAIN c[path[i]].slots /\ c[path[i]].slots[a] = slots[a]
      BY <1>0, <2>1, <3>2 DEF slots
    <3>4. place[c[path[i]].slots[a]] = <<i, a>>
      BY <1>0, <1>1, <3>3 DEF FreeList
    <3>5. QED
      BY <1>0, <1>9, <2>1, <3>2, <3>3, <3>4
  <2>2. CASE path[i] # t
    <3>1. c2[path[i]] = c[path[i]]
      BY <1>0, <1>11, <2>2
    <3>2. place[c[path[i]].slots[a]] = <<i, a>>
      BY <1>0, <1>1, <3>1 DEF FreeList
    <3>3. i # n
      BY <1>0, <1>2, <2>2
    <3>4. QED
      BY <1>0, <1>9, <3>1, <3>2, <3>3
  <2>3. QED
    BY <1>0, <2>1, <2>2
<1>13. \A q : IsFree(q, h, o) /\ q # id => IsFree(q, h2, o2)
  BY <1>0 DEF IsFree, Database, HandedOut
<1>14. \A i \in 1 .. n : c2[path[i]] \in Content /\ c2[path[i]].next = c[path[i]].next
  <2>1. \A i \in 1 .. n : c[path[i]] \in Content
    BY <1>0, <1>1 DEF FreeList
  <2>2. QED
    BY <1>0, <1>6, <1>11, <2>1
<1>15. FreeList(path, place, n, c2, h2, o2)
  <2>1. ASSUME NEW i \in 1 .. n, NEW a \in DOMAIN c2[path[i]].slots
        PROVE  IsFree(c2[path[i]].slots[a], h2, o2) /\ place[c2[path[i]].slots[a]] = <<i, a>>
    <3>1. IsFree(c[path[i]].slots[a], h, o) /\ place[c[path[i]].slots[a]] = <<i, a>>
      BY <1>0, <1>1, <1>12 DEF FreeList
    <3>2. QED
      BY <1>0, <1>12, <1>13, <3>1
  <2>2. ASSUME NEW i \in 1 .. n
        PROVE  /\ IsFree(path[i], h2, o2) /\ place[path[i]] = <<i, 0>>
               /\ c[path[i]].next = IF i = 1 THEN 0 ELSE path[i - 1]
    BY <1>0, <1>1, <1>10, <1>13 DEF FreeList
  <2>3. h2.trunk = IF n = 0 THEN 0 ELSE path[n]
    BY <1>0, <1>1 DEF FreeList
  <2>4. QED
    BY <1>0, <1>14, <2>1, <2>2, <2>3 DEF FreeList
<1>16. Owned(c2, h2, o2)
  <2>1. id \in Page /\ o[id] = "free" /\ id <= h2.total /\ o2[id] = "new"
    BY <1>0, <1>9 DEF IsFree, Database, HandedOut
  <2>2. \A q \in Page : q # id => o2[q] = o[q]
    BY <1>0 DEF Database, HandedOut
  <2>3. 1 \in Page /\ o[t] = "free"
    BY <1>0, <1>3, PageAssumption DEF IsFree
  <2>4. \A q \in Page : o2[q] # "free" => q <= h2.total
    BY <1>0, <2>1, <2>2 DEF Sound, Owned
  <2>5. \A q \in Page : o2[q] = "live" => c2[q] = c[q]
    BY <1>0, <2>1, <2>2, <2>3, <2>4 DEF SameBut, t
  <2>6. QED
    BY <1>0, <2>1, <2>2, <2>3, <2>4, <2>5 DEF Sound, Owned
<1>17. QED
  <2>1. id # h.trunk
    BY <1>0, <1>2, <1>10 DEF t
  <2>2. QED
    BY <1>0, <1>1, <1>9, <1>15, <1>16, <2>1 DEF Sound

\* The first trunk itself is handed out: c becomes c2.
TrunkUsed(c, c2, h, h2, o, o2) ==
  /\ Database(c, h, o) /\ Database(c2, h2, o2) /\ Sound(c, h, o)
  /\ h.trunk # 0 /\ h2.trunk = c[h.trunk].next /\ h2.total = h.total
  /\ SameBut({h.trunk}, c, c2, h2, o2)
  /\ o2 = HandedOut(o, h.trunk)

\* The freelist goes on with the next trunk.
LEMMA SoundTrunkUsed ==
  ASSUME NEW c, NEW c2, NEW h, NEW h2, NEW o, NEW o2, TrunkUsed(c, c2, h, h2, o, o2)
  PROVE  Sound(c2, h2, o2)
<1>0. /\ Database(c, h, o) /\ Database(c2, h2, o2) /\ Sound(c, h, o)
      /\ h.trunk # 0 /\ h2.trunk = c[h.trunk].next /\ h2.total = h.total
      /\ SameBut({h.trunk}, c, c2, h2, o2)
      /\ o2 = HandedOut(o, h.trunk)
  BY DEF TrunkUsed
<1> DEFINE t == h.trunk
<1>1. PICK n, path, place : Listed(path, place, n) /\ FreeList(path, place, n, c, h, o)
  BY <1>0 DEF Sound
<1> DEFINE m == n - 1
           rest == [i \in 1 .. m |-> path[i]]
<1>2. /\ n \in 1 .. n /\ t = path[n] /\ m \in Nat
      /\ \A i \in 1 .. m : i \in 1 .. n /\ i # n /\ (i # 1 => i - 1 \in 1 .. m)
  BY <1>0, <1>1 DEF FreeList, Listed
<1>3. IsFree(t, h, o) /\ c[t] \in Content /\ place[t] = <<n, 0>>
  BY <1>0, <1>1, <1>2, TrunkIsFree DEF FreeList
<1>4. \A i \in 1 .. m : rest[i] = path[i] /\ path[i] # t
  <2>1. \A i \in 1 .. n : place[path[i]] = <<i, 0>>
    BY <1>0, <1>1 DEF FreeList
  <2>2. QED
    BY <1>0, <1>2, <1>3, <2>1
<1>5. h2.trunk = IF m = 0 THEN 0 ELSE rest[m]
  <2>1. c[path[n]].next = IF n = 1 THEN 0 ELSE path[n - 1]
    BY <1>0, <1>1, <1>2 DEF FreeList
  <2>2. QED
    BY <1>0, <1>1, <1>2, <1>4, <2>1 DEF Listed
<1>6. Listed(rest, place, m)
  BY <1>0, <1>1, <1>2 DEF Listed
<1> HIDE DEF m, rest, t
<1>7. \A q : IsFree(q, h, o) /\ q # t => IsFree(q, h2, o2) /\ c2[q] = c[q]
  BY <1>0 DEF IsFree, Database, SameBut, HandedOut, t
<1>8. FreeList(rest, place, m, c2, h2, o2)
  <2>1. ASSUME NEW i \in 1 .. m
        PROVE  /\ IsFree(rest[i], h2, o2) /\ place[rest[i]] = <<i, 0>> /\ c2[rest[i]] = c[path[i]]
               /\ c[path[i]] \in Content /\ c[path[i]].next = IF i = 1 THEN 0 ELSE rest[i - 1]
    BY <1>0, <1>1, <1>2, <1>4, <1>7 DEF FreeList
  <2>2. ASSUME NEW i \in 1 .. m, NEW a \in DOMAIN c2[rest[i]].slots
        PROVE  IsFree(c2[rest[i]].slots[a], h2, o2) /\ place[c2[rest[i]].slots[a]] = <<i, a>>
    <3> DEFINE q == c[path[i]].slots[a]
    <3>1. c2[rest[i]].slots[a] = q
      BY <1>0, <2>1
    <3>2. a \in DOMAIN c[path[i]].slots /\ i \in 1 .. n
      BY <1>0, <1>2, <2>1
    <3>3. IsFree(q, h, o) /\ place[q] = <<i, a>>
      BY <1>0, <1>1, <3>2 DEF FreeList
    <3>4. i # n
      BY <1>0, <1>2
    <3> HIDE DEF q
    <3>5. q # t
      BY <1>0, <1>3, <3>3, <3>4
    <3>6. QED
      BY <1>0, <1>7, <3>1, <3>3, <3>5
  <2>3. QED
    BY <1>0, <1>5, <2>1, <2>2 DEF FreeList
<1>9. Owned(c2, h2, o2)
  <2>1. t \in Page /\ o[t] = "free" /\ t <= h2.total /\ o2[t] = "new"
    BY <1>0, <1>3 DEF IsFree, Database, HandedOut, t
  <2>2. \A q \in Page : q # t => o2[q] = o[q]
    BY <1>0 DEF Database, HandedOut, t
  <2>3. 1 \in Page
    BY PageAssumption
  <2>4. \A q \in Page : o2[q] # "free" => q <= h2.total
    BY <1>0, <2>1, <2>2 DEF Sound, Owned
  <2>5. \A q \in Page : o2[q] = "live" => c2[q] = c[q]
    BY <1>0, <2>1, <2>2, <2>4 DEF SameBut, t
  <2>6. QED
    BY <1>0, <2>1, <2>2, <2>3, <2>4, <2>5 DEF Sound, Owned
<1>10. QED
  BY <1>0, <1>6, <1>8, <1>9 DEF Sound

Freed(o, o2, p) == o[p] = "live" /\ p # 1 /\ o2 = [o EXCEPT ![p] = "free"]

\* What the owner of page p gives back.
LEMMA GivenBack ==
  ASSUME NEW c, NEW c2, NEW h, NEW h2, NEW o, NEW o2, NEW p \in Page, NEW S,
         Database(c, h, o), Database(c2, h2, o2), Sound(c, h, o),
         h2.total = h.total, Freed(o, o2, p),
         p \in S, \A q \in S : q = p \/ o[q] = "free",
         SameBut(S, c, c2, h2, o2)
  PROVE  /\ Owned(c2, h2, o2) /\ IsFree(p, h2, o2)
         /\ \A q : IsFree(q, h, o) => q # p /\ IsFree(q, h2, o2) /\ (q \notin S => c2[q] = c[q])
<1>1. /\ o2[p] = "free" /\ p <= h2.total /\ 1 \in Page
      /\ \A q \in Page : q # p => o2[q] = o[q]
  BY PageAssumption DEF Sound, Owned, Database, Freed
<1>2. \A q : IsFree(q, h, o) => q # p /\ IsFree(q, h2, o2) /\ (q \notin S => c2[q] = c[q])
  BY <1>1 DEF IsFree, SameBut, Freed
<1>3. \A q \in Page : o2[q] # "free" => q <= h2.total
  BY <1>1 DEF Sound, Owned
<1>4. \A q \in Page : o2[q] = "live" => q \notin S /\ c2[q] = c[q]
  BY <1>1, <1>3 DEF SameBut
<1>5. QED
  BY <1>1, <1>2, <1>3, <1>4 DEF Sound, Owned, IsFree, Freed

\* A page is put in a slot of trunk t, which need not be in the freelist.
LEMMA SoundSlotGiven ==
  ASSUME NEW c, NEW c2, NEW h, NEW h2, NEW o, NEW o2, NEW p \in Page, NEW t \in Page,
         Database(c, h, o), Database(c2, h2, o2), Sound(c, h, o),
         h2.trunk = h.trunk, h2.total = h.total,
         Freed(o, o2, p),
         o[t] = "free", c[t] # None, c2[t] = Trunk(c[t].next, Append(c[t].slots, p)),
         SameBut({p, t}, c, c2, h2, o2)
  PROVE  Sound(c2, h2, o2)
<1> DEFINE slots == c[t].slots
           len   == Len(slots) + 1
<1>1. PICK n, path, place : Listed(path, place, n) /\ FreeList(path, place, n, c, h, o)
  BY DEF Sound
<1>2. c[t].next \in Page \cup {0} /\ slots \in Seq(Page)
  BY ContentType DEF Database, Maybe
<1>3. c2[t] \in Content /\ c2[t].next = c[t].next /\ c2[t].slots = Append(slots, p)
  <2>1. c2[t] = Trunk(c[t].next, Append(slots, p)) /\ Append(slots, p) \in Seq(Page)
    BY <1>2
  <2> HIDE DEF slots
  <2>2. QED
    BY <1>2, <2>1, TrunkType
<1>4. /\ DOMAIN c2[t].slots = DOMAIN slots \cup {len} /\ c2[t].slots[len] = p
      /\ \A a \in DOMAIN slots : c2[t].slots[a] = slots[a] /\ a # len
      /\ len \in Nat
  BY <1>2, <1>3
<1> HIDE DEF slots, len
<1>5. /\ Owned(c2, h2, o2) /\ IsFree(p, h2, o2)
      /\ \A q : IsFree(q, h, o) => q # p /\ IsFree(q, h2, o2) /\ (q # t => c2[q] = c[q])
  <2> DEFINE S == {p, t}
  <2>1. p \in S /\ \A q : q \in S <=> q = p \/ q = t
    OBVIOUS
  <2>2. SameBut(S, c, c2, h2, o2)
    OBVIOUS
  <2> HIDE DEF S
  <2>3. QED
    BY <2>1, <2>2, GivenBack
<1>6. ASSUME NEW i \in 1 .. n
      PROVE  /\ path[i] # p /\ IsFree(path[i], h2, o2) /\ c2[path[i]] \in Content
             /\ c2[path[i]].next = IF i = 1 THEN 0 ELSE path[i - 1]
             /\ (path[i] # t => c2[path[i]] = c[path[i]])
  <2>1. IsFree(path[i], h, o) /\ c[path[i]] \in Content
        /\ c[path[i]].next = IF i = 1 THEN 0 ELSE path[i - 1]
    BY <1>1 DEF FreeList
  <2>2. path[i] # p /\ IsFree(path[i], h2, o2) /\ (path[i] # t => c2[path[i]] = c[path[i]])
    BY <1>5, <2>1
  <2>3. QED
    BY <1>3, <2>1, <2>2
<1>7. h2.trunk = IF n = 0 THEN 0 ELSE path[n]
  BY <1>1 DEF FreeList
<1>8. ASSUME NEW i \in 1 .. n, NEW a \in DOMAIN c[path[i]].slots
      PROVE  /\ c[path[i]].slots[a] # p /\ IsFree(c[path[i]].slots[a], h2, o2)
             /\ place[c[path[i]].slots[a]] = <<i, a>>
  BY <1>1, <1>5 DEF FreeList
<1>9. CASE \A i \in 1 .. n : path[i] # t
  <2>1. FreeList(path, place, n, c2, h2, o2)
    <3>1. ASSUME NEW i \in 1 .. n, NEW a \in DOMAIN c2[path[i]].slots
          PROVE  IsFree(c2[path[i]].slots[a], h2, o2) /\ place[c2[path[i]].slots[a]] = <<i, a>>
      <4>1. c2[path[i]] = c[path[i]]
        BY <1>6, <1>9
      <4>2. QED
        BY <1>8, <4>1
    <3>2. \A i \in 1 .. n : place[path[i]] = <<i, 0>>
      BY <1>1 DEF FreeList
    <3>3. QED
      BY <1>6, <1>7, <3>1, <3>2 DEF FreeList
  <2>2. QED
    BY <1>1, <1>5, <2>1 DEF Sound
<1>10. ASSUME NEW k \in 1 .. n, path[k] = t
       PROVE  Sound(c2, h2, o2)
  <2> DEFINE place2 == [place EXCEPT ![p] = <<k, len>>]
  <2>1. k \in Nat
    BY <1>1 DEF Listed
  <2>2. Listed(path, place2, n)
    BY <1>1, <1>4, <2>1 DEF Listed
  <2>3. place2[p] = <<k, len>> /\ \A q \in Page : q # p => place2[q] = place[q]
    BY <1>1 DEF Listed
  <2> HIDE DEF place2
  <2>4. FreeList(path, place2, n, c2, h2, o2)
    <3>1. ASSUME NEW i \in 1 .. n, NEW a \in DOMAIN c2[path[i]].slots
          PROVE  IsFree(c2[path[i]].slots[a], h2, o2) /\ place2[c2[path[i]].slots[a]] = <<i, a>>
      <4>1. CASE a \in DOMAIN c[path[i]].slots /\ c2[path[i]].slots[a] = c[path[i]].slots[a]
        <5> DEFINE q == c[path[i]].slots[a]
        <5>1. q # p /\ IsFree(q, h2, o2) /\ place[q] = <<i, a>>
          BY <1>8, <4>1
        <5>2. c2[path[i]].slots[a] = q
          BY <4>1
        <5> HIDE DEF q
        <5>3. q \in Page
          BY <5>1 DEF IsFree
        <5>4. QED
          BY <2>3, <5>1, <5>2, <5>3
      <4>2. CASE path[i] # t
        BY <1>6, <4>1, <4>2
      <4>3. CASE path[i] = t /\ a \in DOMAIN slots
        BY <1>4, <4>1, <4>3 DEF slots
      <4>4. CASE path[i] = t /\ a = len
        <5>1. i = k
          <6>1. place[path[i]] = <<i, 0>> /\ place[path[k]] = <<k, 0>>
            BY <1>1 DEF FreeList
          <6>2. QED
            BY <1>10, <4>4, <6>1
        <5>2. c2[path[i]].slots[a] = p
          BY <1>4, <4>4
        <5>3. QED
          BY <1>5, <2>3, <4>4, <5>1, <5>2
      <4>5. QED
        BY <1>4, <4>2, <4>3, <4>4
    <3>2. \A i \in 1 .. n : place2[path[i]] = <<i, 0>>
      <4>1. \A i \in 1 .. n : place[path[i]] = <<i, 0>> /\ path[i] \in Page
        BY <1>1 DEF FreeList, IsFree
      <4>2. QED
        BY <1>6, <2>3, <4>1
    <3>3. QED
      BY <1>6, <1>7, <3>1, <3>2 DEF FreeList
  <2>5. QED
    BY <1>5, <2>2, <2>4 DEF Sound
<1>11. QED
  BY <1>9, <1>10

\* A page becomes the first trunk.
LEMMA SoundTrunkGiven ==
  ASSUME NEW c, NEW c2, NEW h, NEW h2, NEW o, NEW o2, NEW p \in Page,
         Database(c, h, o), Database(c2, h2, o2), Sound(c, h, o),
         h2.trunk = p, h2.total = h.total,
         Freed(o, o2, p),
         c2[p] = Trunk(h.trunk, <<>>), SameBut({p}, c, c2, h2, o2)
  PROVE  Sound(c2, h2, o2)
<1>1. PICK n, path, place : Listed(path, place, n) /\ FreeList(path, place, n, c, h, o)
  BY DEF Sound
<1> DEFINE m == n + 1
           longer == [i \in 1 .. m |-> IF i = m THEN p ELSE path[i]]
           place2 == [place EXCEPT ![p] = <<m, 0>>]
<1>2. n \in Nat /\ m \in Nat /\ m \in 1 .. m /\ \A i \in 1 .. n : i \in 1 .. m /\ i # m
  BY <1>1 DEF Listed
<1>3. \A i \in 1 .. m : i = m \/ i \in 1 .. n
  BY <1>2
<1>4. longer[m] = p /\ \A i \in 1 .. n : longer[i] = path[i]
  BY <1>2
<1>5. place2[p] = <<m, 0>> /\ \A q \in Page : q # p => place2[q] = place[q]
  BY <1>1 DEF Listed
<1>6. Listed(longer, place2, m)
  <2>1. longer \in [1 .. m -> Page]
    BY <1>1, <1>3 DEF Listed
  <2>2. <<m, 0>> \in Nat \X Nat
    BY <1>2
  <2>3. place2 \in [Page -> Nat \X Nat]
    BY <1>1, <2>2 DEF Listed
  <2>4. QED
    BY <1>2, <2>1, <2>3 DEF Listed
<1>7. /\ Owned(c2, h2, o2) /\ IsFree(p, h2, o2)
      /\ \A q : IsFree(q, h, o) => q # p /\ IsFree(q, h2, o2) /\ c2[q] = c[q]
  <2> DEFINE S == {p}
  <2>1. p \in S /\ \A q : q \in S <=> q = p
    OBVIOUS
  <2>2. SameBut(S, c, c2, h2, o2)
    OBVIOUS
  <2> HIDE DEF S
  <2>3. QED
    BY <2>1, <2>2, GivenBack
<1>8. c2[p] \in Content /\ c2[p].next = h.trunk /\ c2[p].slots = <<>>
  <2>1. h.trunk \in Page \cup {0}
    BY TrunkIsFree DEF IsFree
  <2>2. <<>> \in Seq(Page)
    OBVIOUS
  <2>3. QED
    BY <2>1, <2>2, BoundAssumption DEF Content, Trunk
<1> HIDE DEF m, longer, place2
<1>9. FreeList(longer, place2, m, c2, h2, o2)
  <2>1. ASSUME NEW i \in 1 .. n
        PROVE  /\ IsFree(longer[i], h2, o2) /\ place2[longer[i]] = <<i, 0>>
               /\ c2[longer[i]] = c[path[i]] /\ c[path[i]] \in Content
               /\ c[path[i]].next = IF i = 1 THEN 0 ELSE longer[i - 1]
    <3>1. /\ IsFree(path[i], h, o) /\ place[path[i]] = <<i, 0>> /\ c[path[i]] \in Content
          /\ c[path[i]].next = IF i = 1 THEN 0 ELSE path[i - 1]
      BY <1>1 DEF FreeList
    <3>2. path[i] \in Page
      BY <3>1 DEF IsFree
    <3>3. i # 1 => i - 1 \in 1 .. n
      BY <1>2
    <3>4. QED
      BY <1>4, <1>5, <1>7, <3>1, <3>2, <3>3
  <2>2. ASSUME NEW i \in 1 .. n, NEW a \in DOMAIN c2[longer[i]].slots
        PROVE  IsFree(c2[longer[i]].slots[a], h2, o2) /\ place2[c2[longer[i]].slots[a]] = <<i, a>>
    <3> DEFINE q == c[path[i]].slots[a]
    <3>1. c2[longer[i]].slots[a] = q /\ a \in DOMAIN c[path[i]].slots
      BY <2>1
    <3>2. IsFree(q, h, o) /\ place[q] = <<i, a>>
      BY <1>1, <3>1 DEF FreeList
    <3> HIDE DEF q
    <3>3. q \in Page
      BY <3>2 DEF IsFree
    <3>4. QED
      BY <1>5, <1>7, <3>1, <3>2, <3>3
  <2>3. h2.trunk = IF m = 0 THEN 0 ELSE longer[m]
    BY <1>2, <1>4 DEF m
  <2>4. c2[longer[m]].next = IF m = 1 THEN 0 ELSE longer[m - 1]
    <3>1. h.trunk = IF n = 0 THEN 0 ELSE path[n]
      BY <1>1 DEF FreeList
    <3>2. m - 1 = n /\ (m = 1 <=> n = 0) /\ (n # 0 => n \in 1 .. n)
      BY <1>2 DEF m
    <3>3. QED
      BY <1>4, <1>8, <3>1, <3>2
  <2>5. \A i \in 1 .. m : /\ IsFree(longer[i], h2, o2) /\ place2[longer[i]] = <<i, 0>>
                          /\ c2[longer[i]] \in Content
                          /\ c2[longer[i]].next = IF i = 1 THEN 0 ELSE longer[i - 1]
    BY <1>3, <1>4, <1>5, <1>7, <1>8, <2>1, <2>4
  <2>6. DOMAIN c2[longer[m]].slots = {}
    BY <1>4, <1>8
  <2>7. \A i \in 1 .. m : \A a \in DOMAIN c2[longer[i]].slots :
          IsFree(c2[longer[i]].slots[a], h2, o2) /\ place2[c2[longer[i]].slots[a]] = <<i, a>>
    BY <1>3, <2>2, <2>6
  <2>8. QED
    BY <2>3, <2>5, <2>7 DEF FreeList
<1>10. QED
  BY <1>6, <1>7, <1>9 DEF Sound

-----------------------------------------------------------------------------
(* What a caller saw when a level was opened: w[k] for level k.  The point *)
(* after the last level stands for the present.                            *)

Levels(s)        == 1 .. Len(s.levels)
Present(s)       == Len(s.levels) + 1
Points(s)        == 1 .. Len(s.levels) + 1
HeaderAt(s, k)   == IF k \in Levels(s) THEN s.levels[k].header ELSE s.header
OwnerAt(s, o, k) == IF k \in Levels(s) THEN s.levels[k].owner ELSE o

NotedAt(s, k, p)    == p \in DOMAIN s.levels[k].undo
IsFirst(s, k, j, p) == NotedAt(s, j, p) /\ \A i \in k .. j - 1 : ~ NotedAt(s, i, p)
Unnoted(s, p)       == Len(s.levels) = 0 \/ ~ NotedAt(s, 1, p)

InMemory(s, p) == IF p \in DOMAIN s.cache THEN s.cache[p] ELSE None
Below(d, p)    == IF p \in DOMAIN d THEN d[p] ELSE None
View(x, d)     == [p \in Page |-> IF x[p] # None THEN x[p] ELSE Below(d, p)]
Look(s, d)     == [p \in Page |-> IF InMemory(s, p) # None THEN InMemory(s, p) ELSE Below(d, p)]

\* u[k] is the cache that undoing the levels from k on leaves.
Undoing(u, s) ==
  /\ u \in [Points(s) -> [Page -> Maybe]]
  /\ \A p \in Page : u[Present(s)][p] = InMemory(s, p)
  /\ \A k \in Levels(s) : \A p \in Page :
       u[k][p] = IF NotedAt(s, k, p) THEN s.levels[k].undo[p] ELSE u[k + 1][p]

\* Pages are only added.  Since the transaction began, a page that it has not noted can only
\* have been freed, and one that was added has been noted.
Grows(s, o) ==
  /\ \A i, k \in Points(s) : i < k => HeaderAt(s, i).total <= HeaderAt(s, k).total
  /\ \A k \in Points(s), p \in Page : Unnoted(s, p) =>
       /\ \/ OwnerAt(s, o, k)[p] = OwnerAt(s, o, 1)[p]
          \/ OwnerAt(s, o, 1)[p] = "live" /\ OwnerAt(s, o, k)[p] = "free"
       /\ p <= HeaderAt(s, k).total => p <= HeaderAt(s, 1).total

\* The transaction has noted all that its savepoints have, and will write it; a page noted
\* without content was added later.
Notes(s) ==
  \A k \in Levels(s) : \A p \in DOMAIN s.levels[k].undo :
    /\ NotedAt(s, 1, p) /\ p \in s.levels[1].dirty
    /\ s.levels[k].undo[p] = None => p > s.levels[k].header.total
    /\ p \notin DOMAIN s.cache => p > s.header.total

\* The pages in memory are those of the database.
Within(s, u) ==
  /\ 1 \in DOMAIN s.cache
  /\ \A k \in Points(s), p \in Page : u[k][p] # None => p <= HeaderAt(s, k).total

\* A page in memory that the transaction has not written is the one below, unless nobody has
\* written it yet.
Synced(s, u, d, o) ==
  \A p \in Page : u[1][p] # None /\ OwnerAt(s, o, 1)[p] # "new" => Below(d, p) = u[1][p]

\* A database in memory has every page in its cache.
InCache(s, d) == \A p \in DOMAIN d : p \in DOMAIN s.cache /\ p <= HeaderAt(s, 1).total

\* m: the database is in memory.  What undoing the levels from k on leaves is what a caller
\* saw when level k was opened.
Past(s, d, o, m, u, w) ==
  /\ Undoing(u, s) /\ Grows(s, o) /\ Notes(s) /\ Within(s, u)
  /\ IF m THEN InCache(s, d) ELSE Synced(s, u, d, o)
  /\ \A k \in Levels(s) : Restores(View(u[k], d), w[k], s.levels[k].header, s.levels[k].owner)

\* What can be restored is sound.
Restorable(s, d, o, m, w) == \E u : Past(s, d, o, m, u, w)

Typed(s, d, o) == s \in Memory /\ d \in Pages /\ o \in [Page -> Owner]

-----------------------------------------------------------------------------
(* Types.                                                                  *)

\* What the type of memory says of its levels, and of the points between them.
LEMMA LevelTypes ==
  ASSUME NEW s \in Memory
  PROVE  /\ Len(s.levels) \in Nat /\ Present(s) \in Nat \ {0}
         /\ DOMAIN s.levels = Levels(s)
         /\ \A k \in Levels(s) :
              /\ k \in Nat \ {0} /\ k <= Len(s.levels)
              /\ s.levels[k] \in LevelRec
              /\ s.levels[k].header \in Header /\ s.levels[k].owner \in [Page -> Owner]
              /\ s.levels[k].undo \in Undo /\ s.levels[k].dirty \subseteq Page
              /\ DOMAIN s.levels[k].undo \subseteq Page
              /\ \A p \in DOMAIN s.levels[k].undo : s.levels[k].undo[p] \in Maybe
         /\ \A k \in Points(s) : k \in Nat \ {0} /\ (k \in Levels(s) \/ k = Present(s))
         /\ \A k \in Levels(s) : k \in Points(s) /\ k + 1 \in Points(s)
         /\ Present(s) \in Points(s) /\ 1 \in Points(s) /\ Present(s) \notin Levels(s)
         /\ s.header \in Header
<1>1. s.levels \in Seq(LevelRec) /\ s.header \in Header
  BY DEF Memory
<1>2. Len(s.levels) \in Nat /\ DOMAIN s.levels = 1 .. Len(s.levels)
  BY <1>1
<1>3. ASSUME NEW k \in 1 .. Len(s.levels)
      PROVE  /\ s.levels[k] \in LevelRec
             /\ s.levels[k].header \in Header /\ s.levels[k].owner \in [Page -> Owner]
             /\ s.levels[k].undo \in Undo /\ s.levels[k].dirty \subseteq Page
  <2>1. s.levels[k] \in LevelRec
    BY <1>1, <1>2
  <2>2. QED
    BY <2>1 DEF LevelRec
<1>4. ASSUME NEW k \in 1 .. Len(s.levels)
      PROVE  /\ DOMAIN s.levels[k].undo \subseteq Page
             /\ \A p \in DOMAIN s.levels[k].undo : s.levels[k].undo[p] \in Maybe
  BY <1>3, UndoType
<1>5. QED
  BY <1>1, <1>2, <1>3, <1>4 DEF Levels, Points, Present

\* What the type of memory says of its cache.
LEMMA MemoryTypes ==
  ASSUME NEW s \in Memory, NEW p
  PROVE  /\ s.cache \in Pages /\ DOMAIN s.cache \subseteq Page
         /\ InMemory(s, p) \in Maybe /\ (InMemory(s, p) # None <=> p \in DOMAIN s.cache)
<1>1. s.cache \in Pages
  BY DEF Memory
<1>2. DOMAIN s.cache \subseteq Page /\ \A q \in DOMAIN s.cache : s.cache[q] \in Content
  BY <1>1, PagesType
<1>3. QED
  BY <1>1, <1>2, ContentType DEF InMemory, Maybe

\* What is below has content exactly where it has a page.
LEMMA BelowTypes ==
  ASSUME NEW d \in Pages, NEW p
  PROVE  /\ Below(d, p) \in Maybe /\ (Below(d, p) # None <=> p \in DOMAIN d)
         /\ DOMAIN d \subseteq Page
<1>1. DOMAIN d \subseteq Page /\ \A q \in DOMAIN d : d[q] \in Content
  BY PagesType
<1>2. QED
  BY <1>1, ContentType DEF Below, Maybe

\* A cache over what is below is a database's content.
LEMMA ViewTypes ==
  ASSUME NEW d \in Pages, NEW x \in [Page -> Maybe]
  PROVE  /\ View(x, d) \in [Page -> Maybe]
         /\ \A p \in Page : View(x, d)[p] = IF x[p] # None THEN x[p] ELSE Below(d, p)
BY BelowTypes DEF View

\* So is what a caller sees.
LEMMA LookTypes ==
  ASSUME NEW s \in Memory, NEW d \in Pages
  PROVE  /\ Look(s, d) \in [Page -> Maybe]
         /\ \A p \in Page : Look(s, d)[p] = IF InMemory(s, p) # None THEN InMemory(s, p) ELSE Below(d, p)
BY BelowTypes, MemoryTypes DEF Look

\* Every point has a header and owners.
LEMMA PointTypes ==
  ASSUME NEW s, NEW o, s \in Memory, o \in [Page -> Owner]
  PROVE  \A k \in Points(s) : /\ HeaderAt(s, k) \in Header /\ HeaderAt(s, k).total \in Nat
                              /\ OwnerAt(s, o, k) \in [Page -> Owner]
<1>1. \A k \in Points(s) : HeaderAt(s, k) \in Header /\ OwnerAt(s, o, k) \in [Page -> Owner]
  BY LevelTypes DEF HeaderAt, OwnerAt
<1>2. QED
  BY <1>1 DEF Header

-----------------------------------------------------------------------------
(* What undoing restores.                                                  *)

\* Undoing the levels from k on puts back what the first of them noted, if any has.
LEMMA FirstNoted ==
  ASSUME NEW s \in Memory, NEW u, Undoing(u, s), NEW k \in Points(s), NEW p \in Page
  PROVE  \/ (\A j \in k .. Len(s.levels) : ~ NotedAt(s, j, p)) /\ u[k][p] = InMemory(s, p)
         \/ \E j \in k .. Len(s.levels) :
              IsFirst(s, k, j, p) /\ u[k][p] = s.levels[j].undo[p]
<1> DEFINE n == Len(s.levels)
           T == {j \in k .. n + 1 : j = n + 1 \/ NotedAt(s, j, p)}
<1>1. n \in Nat /\ k \in Nat \ {0} /\ k <= n + 1 /\ Present(s) = n + 1
  BY LevelTypes DEF Points, Present
<1>2. PICK m \in T : \A j \in T : m <= j
  <2>1. T \subseteq Nat /\ n + 1 \in T
    BY <1>1
  <2> HIDE DEF T
  <2>2. QED
    BY <2>1, LeastElement, Zenon
<1>3. m \in Nat /\ k <= m /\ m <= n + 1 /\ \A j \in k .. m - 1 : j \in Levels(s) /\ ~ NotedAt(s, j, p)
  <2>1. m \in Nat /\ k <= m /\ m <= n + 1
    BY <1>1, <1>2
  <2>2. ASSUME NEW j \in k .. m - 1 PROVE j \in Levels(s) /\ ~ NotedAt(s, j, p)
    <3>1. j \in k .. n + 1 /\ j < m /\ j \in 1 .. n
      BY <1>1, <2>1
    <3>2. j \notin T
      BY <1>2, <3>1
    <3>3. QED
      BY <3>1, <3>2 DEF Levels
  <2>3. QED
    BY <2>1, <2>2
<1> DEFINE B == {i \in k .. m : u[i][p] # u[m][p]}
<1>4. B = {}
  <2> SUFFICES ASSUME B # {} PROVE FALSE
    OBVIOUS
  <2>1. PICK b \in B : \A i \in B : i <= b
    <3>1. B \subseteq 0 .. m
      BY <1>1, <1>3
    <3> HIDE DEF B
    <3>2. QED
      BY <1>3, <3>1, GreatestElement, Zenon
  <2>2. b \in k .. m - 1 /\ b + 1 \in k .. m
    BY <1>1, <1>3, <2>1
  <2>3. b \in Levels(s) /\ ~ NotedAt(s, b, p)
    BY <1>3, <2>2
  <2>4. u[b][p] = u[b + 1][p]
    BY <2>3 DEF Undoing
  <2>5. b + 1 \notin B
    BY <2>1, <2>2
  <2>6. QED
    BY <2>1, <2>2, <2>4, <2>5
<1>5. u[k][p] = u[m][p]
  BY <1>1, <1>3, <1>4
<1>6. CASE m = n + 1
  <2>1. u[m][p] = InMemory(s, p)
    BY <1>1, <1>6 DEF Undoing
  <2>2. \A j \in k .. n : ~ NotedAt(s, j, p)
    BY <1>1, <1>3, <1>6
  <2>3. QED
    BY <1>5, <2>1, <2>2
<1>7. CASE m # n + 1
  <2>1. m \in k .. n /\ NotedAt(s, m, p) /\ m \in Levels(s)
    BY <1>1, <1>2, <1>3, <1>7 DEF Levels
  <2>2. u[m][p] = s.levels[m].undo[p]
    BY <2>1 DEF Undoing
  <2>3. IsFirst(s, k, m, p)
    BY <1>3, <2>1 DEF IsFirst
  <2>4. QED
    BY <1>5, <2>1, <2>2, <2>3
<1>8. QED
  BY <1>6, <1>7

\* A page that the transaction has not noted is what it is now at every point.
LEMMA NeverNoted ==
  ASSUME NEW s \in Memory, NEW u, Undoing(u, s), Notes(s), NEW p \in Page, Unnoted(s, p)
  PROVE  /\ \A k \in Levels(s) : ~ NotedAt(s, k, p)
         /\ \A k \in Points(s) : u[k][p] = InMemory(s, p)
<1>1. \A k \in Levels(s) : ~ NotedAt(s, k, p)
  <2>1. ASSUME NEW k \in Levels(s) PROVE Len(s.levels) # 0
    BY LevelTypes
  <2>2. QED
    BY <2>1 DEF Notes, NotedAt, Unnoted
<1>2. ASSUME NEW k \in Points(s) PROVE u[k][p] = InMemory(s, p)
  <2>1. \A j \in k .. Len(s.levels) : j \in Levels(s)
    BY LevelTypes DEF Levels
  <2>2. \A j \in k .. Len(s.levels) : ~ IsFirst(s, k, j, p)
    BY <1>1, <2>1 DEF IsFirst
  <2>3. QED
    BY <2>2, FirstNoted
<1>3. QED
  BY <1>1, <1>2

\* Nothing is undone outside a transaction.
Alone(s, d, o, m) ==
  /\ 1 \in DOMAIN s.cache
  /\ \A p \in DOMAIN s.cache : p <= s.header.total
  /\ IF m THEN \A p \in DOMAIN d : p \in DOMAIN s.cache
          ELSE \A p \in DOMAIN s.cache : o[p] # "new" => p \in DOMAIN d /\ d[p] = s.cache[p]

\* Outside a transaction Restorable says only that the cache is the database's.
LEMMA PastAlone ==
  ASSUME NEW w, NEW s \in Memory, NEW d \in Pages, NEW o \in [Page -> Owner], NEW m \in BOOLEAN,
         Len(s.levels) = 0
  PROVE  Restorable(s, d, o, m, w) <=> Alone(s, d, o, m)
<1>1. /\ Levels(s) = {} /\ Points(s) = {1} /\ Present(s) = 1
      /\ \A k : HeaderAt(s, k) = s.header /\ OwnerAt(s, o, k) = o
  BY DEF Levels, Points, Present, HeaderAt, OwnerAt
<1>2. \A p \in Page : (InMemory(s, p) # None <=> p \in DOMAIN s.cache)
                      /\ (p \in DOMAIN s.cache => InMemory(s, p) = s.cache[p])
  BY MemoryTypes DEF InMemory
<1>3. \A p \in Page : (Below(d, p) # None <=> p \in DOMAIN d) /\ (p \in DOMAIN d => Below(d, p) = d[p])
  BY BelowTypes DEF Below
<1>4. DOMAIN s.cache \subseteq Page /\ DOMAIN d \subseteq Page /\ s.header.total \in Nat
  BY MemoryTypes, BelowTypes, LevelTypes DEF Header
<1>5. ASSUME NEW u, Past(s, d, o, m, u, w) PROVE Alone(s, d, o, m)
  <2>1. \A p \in Page : u[1][p] = InMemory(s, p)
    BY <1>1, <1>5 DEF Past, Undoing
  <2>2. 1 \in DOMAIN s.cache /\ \A p \in DOMAIN s.cache : p <= s.header.total
    BY <1>1, <1>2, <1>4, <1>5, <2>1 DEF Past, Within
  <2>3. m => \A p \in DOMAIN d : p \in DOMAIN s.cache
    BY <1>5 DEF Past, InCache
  <2>4. ~ m => \A p \in DOMAIN s.cache : o[p] # "new" => p \in DOMAIN d /\ d[p] = s.cache[p]
    <3>1. ASSUME ~ m PROVE Synced(s, u, d, o)
      BY <1>5, <3>1 DEF Past
    <3>2. QED
      BY <1>1, <1>2, <1>3, <1>4, <2>1, <3>1 DEF Synced
  <2>5. QED
    BY <2>2, <2>3, <2>4 DEF Alone
<1>6. ASSUME Alone(s, d, o, m) PROVE Restorable(s, d, o, m, w)
  <2> DEFINE u == [k \in Points(s) |-> [p \in Page |-> InMemory(s, p)]]
  <2>1. \A p \in Page : u[1][p] = InMemory(s, p)
    BY <1>1
  <2>2. Undoing(u, s)
    BY <1>1, MemoryTypes DEF Undoing
  <2> HIDE DEF u
  <2>3. Grows(s, o) /\ Notes(s)
    BY <1>1 DEF Grows, Notes
  <2>4. Within(s, u)
    BY <1>1, <1>2, <1>6, <2>1 DEF Within, Alone
  <2>5. m => InCache(s, d)
    BY <1>1, <1>6 DEF InCache, Alone
  <2>6. ~ m => Synced(s, u, d, o)
    BY <1>1, <1>2, <1>3, <1>6, <2>1 DEF Synced, Alone
  <2>7. QED
    BY <1>1, <2>2, <2>3, <2>4, <2>5, <2>6 DEF Past, Restorable
<1>7. QED
  BY <1>5, <1>6 DEF Restorable
-----------------------------------------------------------------------------
(* Steps of the cache.                                                     *)

\* Pages are read from below, or leave the cache; those that the transaction has noted stay.
CacheStep(s, s2, d, m) ==
  /\ s2 \in Memory /\ s2.header = s.header /\ s2.levels = s.levels
  /\ \A p \in Page : InMemory(s2, p) # InMemory(s, p) =>
       /\ Unnoted(s, p) /\ p # 1
       /\ \/ InMemory(s, p) = None /\ InMemory(s2, p) = Below(d, p) /\ p <= s.header.total
          \/ InMemory(s2, p) = None /\ ~ m

\* The present does not change for a caller: only pages that nobody has written may.
LEMMA CacheKeeps ==
  ASSUME NEW w, NEW s \in Memory, NEW s2, NEW d \in Pages, NEW o \in [Page -> Owner],
         NEW m \in BOOLEAN,
         Restorable(s, d, o, m, w), CacheStep(s, s2, d, m)
  PROVE  Restorable(s2, d, o, m, w) /\ SameBut({}, Look(s, d), Look(s2, d), s.header, o)
<1>1. PICK u : Past(s, d, o, m, u, w)
  BY DEF Restorable
<1>2. /\ s2 \in Memory /\ Levels(s2) = Levels(s) /\ Points(s2) = Points(s)
      /\ Present(s2) = Present(s) /\ s2.levels = s.levels /\ s2.header = s.header
      /\ \A k : HeaderAt(s2, k) = HeaderAt(s, k) /\ OwnerAt(s2, o, k) = OwnerAt(s, o, k)
      /\ \A k, p : NotedAt(s2, k, p) <=> NotedAt(s, k, p)
      /\ \A p : Unnoted(s2, p) <=> Unnoted(s, p)
  BY DEF CacheStep, Levels, Points, Present, HeaderAt, OwnerAt, NotedAt, Unnoted
<1>3. /\ Undoing(u, s) /\ Grows(s, o) /\ Notes(s) /\ Within(s, u)
      /\ (m => InCache(s, d)) /\ (~ m => Synced(s, u, d, o))
      /\ \A k \in Levels(s) : Restores(View(u[k], d), w[k], s.levels[k].header, s.levels[k].owner)
  BY <1>1 DEF Past
<1> DEFINE u2 == [k \in Points(s) |-> [p \in Page |->
                    IF Unnoted(s, p) THEN InMemory(s2, p) ELSE u[k][p]]]
<1>4. u \in [Points(s) -> [Page -> Maybe]]
  BY <1>3 DEF Undoing
<1>5. u2 \in [Points(s) -> [Page -> Maybe]]
  BY <1>2, <1>4, MemoryTypes
<1>6. \A k \in Points(s), p \in Page : u2[k][p] = IF Unnoted(s, p) THEN InMemory(s2, p) ELSE u[k][p]
  OBVIOUS
<1> HIDE DEF u2
<1>7. \A p \in Page : Unnoted(s, p) =>
        /\ \A k \in Levels(s) : ~ NotedAt(s, k, p)
        /\ \A k \in Points(s) : u[k][p] = InMemory(s, p)
  BY <1>3, NeverNoted
<1>8. \A p \in Page : ~ Unnoted(s, p) => InMemory(s2, p) = InMemory(s, p)
  BY DEF CacheStep
<1>9. \A k \in Levels(s) : k \in Points(s) /\ k + 1 \in Points(s)
  BY LevelTypes
<1>10. Present(s) \in Points(s) /\ 1 \in Points(s)
  BY LevelTypes
<1>11. Undoing(u2, s2)
  <2>1. \A p \in Page : u2[Present(s)][p] = InMemory(s2, p)
    BY <1>3, <1>6, <1>8, <1>10 DEF Undoing
  <2>2. ASSUME NEW k \in Levels(s), NEW p \in Page
        PROVE  u2[k][p] = IF NotedAt(s, k, p) THEN s.levels[k].undo[p] ELSE u2[k + 1][p]
    <3>1. u[k][p] = IF NotedAt(s, k, p) THEN s.levels[k].undo[p] ELSE u[k + 1][p]
      BY <1>3 DEF Undoing
    <3>2. QED
      BY <1>6, <1>7, <1>9, <3>1
  <2>3. QED
    BY <1>2, <1>5, <2>1, <2>2 DEF Undoing
<1>12. Grows(s2, o)
  BY <1>2, <1>3 DEF Grows
<1>13. Notes(s2)
  <2>1. ASSUME NEW k \in Levels(s), NEW p \in DOMAIN s.levels[k].undo
        PROVE  p \in Page /\ (p \in DOMAIN s2.cache <=> p \in DOMAIN s.cache)
    <3>1. p \in Page
      BY LevelTypes
    <3>2. InMemory(s2, p) = InMemory(s, p)
      BY <1>7, <1>8, <3>1 DEF NotedAt
    <3>3. QED
      BY <1>2, <3>1, <3>2, MemoryTypes
  <2>2. QED
    BY <1>2, <1>3, <2>1 DEF Notes
<1>14. Within(s2, u2)
  <2>1. 1 \in DOMAIN s2.cache
    <3>1. 1 \in Page /\ 1 \in DOMAIN s.cache
      BY <1>3, PageAssumption DEF Within
    <3>2. InMemory(s2, 1) = InMemory(s, 1)
      BY <3>1 DEF CacheStep
    <3>3. QED
      BY <1>2, <3>1, <3>2, MemoryTypes
  <2>2. ASSUME NEW k \in Points(s), NEW p \in Page, u2[k][p] # None PROVE p <= HeaderAt(s, k).total
    <3>1. CASE u2[k][p] = u[k][p]
      BY <1>3, <2>2, <3>1 DEF Within
    <3>2. CASE u2[k][p] # u[k][p]
      <4>1. Unnoted(s, p) /\ u2[k][p] = InMemory(s2, p) /\ u[k][p] = InMemory(s, p)
        BY <1>6, <1>7, <3>2
      <4>2. p <= s.header.total
        BY <2>2, <3>2, <4>1 DEF CacheStep
      <4>3. HeaderAt(s, Present(s)) = s.header
        BY LevelTypes DEF HeaderAt
      <4>4. p <= HeaderAt(s, 1).total
        BY <1>3, <1>10, <4>1, <4>2, <4>3 DEF Grows
      <4>5. k = 1 \/ HeaderAt(s, 1).total <= HeaderAt(s, k).total
        <5>1. k \in Nat \ {0}
          BY LevelTypes
        <5>2. QED
          BY <1>3, <1>10, <5>1 DEF Grows
      <4>6. p \in Nat /\ HeaderAt(s, 1).total \in Nat /\ HeaderAt(s, k).total \in Nat
        BY <1>10, PointTypes, PageAssumption
      <4>7. QED
        BY <4>4, <4>5, <4>6
    <3>3. QED
      BY <3>1, <3>2
  <2>3. QED
    BY <1>2, <2>1, <2>2 DEF Within
<1>15. ASSUME ~ m PROVE Synced(s2, u2, d, o)
  <2>1. ASSUME NEW p \in Page, u2[1][p] # None, OwnerAt(s, o, 1)[p] # "new"
        PROVE  Below(d, p) = u2[1][p]
    <3>1. CASE u2[1][p] = u[1][p]
      BY <1>3, <1>15, <2>1, <3>1 DEF Synced
    <3>2. CASE u2[1][p] # u[1][p]
      <4>1. u2[1][p] = InMemory(s2, p) /\ u[1][p] = InMemory(s, p)
        BY <1>6, <1>7, <1>10, <3>2
      <4>2. QED
        BY <2>1, <3>2, <4>1 DEF CacheStep
    <3>3. QED
      BY <3>1, <3>2
  <2>2. QED
    BY <1>2, <2>1 DEF Synced
<1>16. ASSUME m PROVE InCache(s2, d)
  <2>1. ASSUME NEW p \in DOMAIN d PROVE p \in DOMAIN s2.cache
    <3>1. p \in Page /\ p \in DOMAIN s.cache
      BY <1>3, <1>16, BelowTypes DEF InCache
    <3>2. InMemory(s, p) # None
      BY <3>1, MemoryTypes
    <3>3. InMemory(s2, p) = InMemory(s, p)
      BY <1>16, <3>1, <3>2 DEF CacheStep
    <3>4. QED
      BY <1>2, <3>2, <3>3, MemoryTypes
  <2>2. QED
    BY <1>2, <1>3, <1>16, <2>1 DEF InCache
\* What changes is what nobody has written since before the transaction.
<1>17. ASSUME NEW k \in Points(s), NEW p \in Page, OwnerAt(s, o, k)[p] # "new"
       PROVE  View(u2[k], d)[p] = View(u[k], d)[p]
  <2>1. u[k] \in [Page -> Maybe] /\ u2[k] \in [Page -> Maybe]
    BY <1>4, <1>5
  <2>2. /\ View(u[k], d)[p] = IF u[k][p] # None THEN u[k][p] ELSE Below(d, p)
        /\ View(u2[k], d)[p] = IF u2[k][p] # None THEN u2[k][p] ELSE Below(d, p)
    BY <2>1, ViewTypes
  <2>3. CASE u2[k][p] = u[k][p]
    BY <2>2, <2>3
  <2>4. CASE u2[k][p] # u[k][p]
    <3>1. Unnoted(s, p) /\ u2[k][p] = InMemory(s2, p) /\ u[k][p] = InMemory(s, p)
      BY <1>6, <1>7, <2>4
    <3>2. CASE InMemory(s, p) = None /\ InMemory(s2, p) = Below(d, p)
      BY <2>2, <3>1, <3>2
    <3>3. CASE InMemory(s2, p) = None /\ ~ m
      <4>1. u[1][p] = InMemory(s, p) /\ u[1][p] # None
        BY <1>7, <1>10, <2>4, <3>1, <3>3
      <4>2. OwnerAt(s, o, 1)[p] # "new"
        BY <1>3, <1>17, <3>1 DEF Grows
      <4>3. Below(d, p) = u[1][p]
        BY <1>3, <3>3, <4>1, <4>2 DEF Synced
      <4>4. QED
        BY <2>2, <3>1, <3>3, <4>1, <4>3
    <3>4. QED
      BY <2>4, <3>1, <3>2, <3>3 DEF CacheStep
  <2>5. QED
    BY <2>3, <2>4
<1>18. ASSUME NEW k \in Levels(s)
       PROVE  Restores(View(u2[k], d), w[k], s.levels[k].header, s.levels[k].owner)
  <2>1. OwnerAt(s, o, k) = s.levels[k].owner
    BY DEF OwnerAt
  <2>2. SameBut({}, View(u[k], d), View(u2[k], d), s.levels[k].header, s.levels[k].owner)
    BY <1>9, <1>17, <2>1 DEF SameBut
  <2>3. QED
    BY <1>3, <2>2, RestoresAgree
<1>19. SameBut({}, Look(s, d), Look(s2, d), s.header, o)
  <2>1. OwnerAt(s, o, Present(s)) = o
    BY LevelTypes DEF OwnerAt
  <2>2. ASSUME NEW p \in Page, o[p] # "new" PROVE Look(s2, d)[p] = Look(s, d)[p]
    <3>1. View(u2[Present(s)], d)[p] = View(u[Present(s)], d)[p]
      BY <1>10, <1>17, <2>1, <2>2
    <3>2. u[Present(s)][p] = InMemory(s, p) /\ u2[Present(s)][p] = InMemory(s2, p)
      BY <1>2, <1>3, <1>11 DEF Undoing
    <3>3. QED
      BY <1>2, <3>1, <3>2, LookTypes DEF View
  <2>3. QED
    BY <2>2 DEF SameBut
<1>20. QED
  BY <1>2, <1>11, <1>12, <1>13, <1>14, <1>15, <1>16, <1>18, <1>19 DEF Past, Restorable
-----------------------------------------------------------------------------
(* Steps of a transaction.                                                 *)

\* Page p, a page in memory or a new one, is noted and gets content v.
TxWrite(s, s2, p, v) ==
  /\ s2 \in Memory /\ Len(s.levels) # 0 /\ Len(s2.levels) = Len(s.levels)
  /\ s2.cache = With(s.cache, p, v)
  /\ \A k \in Levels(s) :
       /\ s2.levels[k].header = s.levels[k].header /\ s2.levels[k].owner = s.levels[k].owner
       /\ s2.levels[k].undo = IF k \in {1, Len(s.levels)} /\ ~ NotedAt(s, k, p)
                                THEN With(s.levels[k].undo, p, InMemory(s, p))
                                ELSE s.levels[k].undo
  /\ s.levels[1].dirty \cup {p} \subseteq s2.levels[1].dirty
  /\ \/ p \in DOMAIN s.cache /\ s2.header.total = s.header.total
     \/ p = s.header.total + 1 /\ s2.header.total = p

\* The page gets an owner, and no other does.
Writing(s, s2, d, o, o2, m, p, v, w) ==
  /\ s \in Memory /\ d \in Pages /\ o \in [Page -> Owner] /\ o2 \in [Page -> Owner]
  /\ m \in BOOLEAN /\ p \in Page /\ v \in Content
  /\ Restorable(s, d, o, m, w) /\ TxWrite(s, s2, p, v)
  /\ \A q \in Page : q # p => o2[q] = o[q]

\* The present is the write, the past is what it was.
LEMMA TxWriteKeeps ==
  ASSUME NEW s, NEW s2, NEW d, NEW o, NEW o2, NEW m, NEW p, NEW v, NEW w,
         Writing(s, s2, d, o, o2, m, p, v, w)
  PROVE  /\ Restorable(s2, d, o2, m, w)
         /\ Look(s2, d)[p] = v
         /\ \A q \in Page : q # p => Look(s2, d)[q] = Look(s, d)[q]
<1> USE DEF Writing
<1>1. PICK u : Past(s, d, o, m, u, w)
  BY DEF Restorable
<1>2. /\ Undoing(u, s) /\ Grows(s, o) /\ Notes(s) /\ Within(s, u)
      /\ (m => InCache(s, d)) /\ (~ m => Synced(s, u, d, o))
      /\ \A k \in Levels(s) : Restores(View(u[k], d), w[k], s.levels[k].header, s.levels[k].owner)
  BY <1>1 DEF Past
<1>3. /\ s2 \in Memory /\ Levels(s2) = Levels(s) /\ Points(s2) = Points(s)
      /\ Present(s2) = Present(s) /\ Len(s2.levels) = Len(s.levels)
      /\ \A k \in Levels(s) : /\ HeaderAt(s2, k) = HeaderAt(s, k)
                              /\ OwnerAt(s2, o2, k) = OwnerAt(s, o, k)
      /\ HeaderAt(s2, Present(s)) = s2.header /\ HeaderAt(s, Present(s)) = s.header
      /\ OwnerAt(s2, o2, Present(s)) = o2 /\ OwnerAt(s, o, Present(s)) = o
  BY LevelTypes DEF TxWrite, Levels, Points, Present, HeaderAt, OwnerAt
<1>4. /\ Len(s.levels) \in Levels(s) /\ 1 \in Levels(s) /\ Len(s.levels) + 1 = Present(s)
      /\ Present(s) \in Points(s) /\ Present(s) \notin Levels(s) /\ 1 # Present(s)
      /\ \A k \in Levels(s) : k \in Points(s) /\ k + 1 \in Points(s)
                              /\ (k # Len(s.levels) => k + 1 \in Levels(s))
      /\ \A k \in Points(s) : k \in Levels(s) \/ k = Present(s)
  <2>1. Len(s.levels) \in Nat \ {0}
    BY LevelTypes DEF TxWrite
  <2>2. QED
    BY <2>1, LevelTypes DEF Levels, Points, Present
<1>5. s2.cache = With(s.cache, p, v) /\ DOMAIN s2.cache = DOMAIN s.cache \cup {p}
  BY DEF TxWrite, With
<1>6. InMemory(s2, p) = v /\ \A q \in Page : q # p => InMemory(s2, q) = InMemory(s, q)
  BY <1>5 DEF InMemory, With
<1>7. /\ s.header.total \in Nat /\ s2.header.total \in Nat /\ p \in Nat \ {0}
      /\ s.header.total <= s2.header.total /\ p <= s2.header.total
      /\ \A q \in Page : q <= s2.header.total => q <= s.header.total \/ q = p
      /\ (p \in DOMAIN s.cache \/ (p \notin DOMAIN s.cache /\ p = s.header.total + 1))
  <2>1. s.header.total \in Nat /\ s2.header.total \in Nat /\ Page \subseteq Nat \ {0}
    BY <1>3, LevelTypes, PageAssumption DEF Header
  <2>2. p \in DOMAIN s.cache => p <= s.header.total
    <3>1. u[Present(s)][p] = InMemory(s, p)
      BY <1>2 DEF Undoing
    <3>2. p \in DOMAIN s.cache => u[Present(s)][p] # None
      BY <3>1, MemoryTypes
    <3>3. QED
      BY <1>2, <1>3, <1>4, <3>2 DEF Within
  <2>3. QED
    BY <2>1, <2>2 DEF TxWrite
<1>8. \A q : Unnoted(s2, q) => q # p /\ Unnoted(s, q)
  <2>1. ASSUME NEW q, ~ NotedAt(s2, 1, q) PROVE q # p /\ ~ NotedAt(s, 1, q)
    <3>1. s2.levels[1].undo = IF ~ NotedAt(s, 1, p)
                                THEN With(s.levels[1].undo, p, InMemory(s, p))
                                ELSE s.levels[1].undo
      BY <1>4 DEF TxWrite
    <3>2. QED
      BY <2>1, <3>1 DEF NotedAt, With
  <2>2. QED
    BY <1>3, <2>1 DEF Unnoted, TxWrite
<1>9. \A k \in Levels(s), q \in Page :
        /\ NotedAt(s2, k, q) <=> NotedAt(s, k, q) \/ (q = p /\ k \in {1, Len(s.levels)})
        /\ NotedAt(s, k, q) => s2.levels[k].undo[q] = s.levels[k].undo[q]
        /\ NotedAt(s2, k, q) /\ ~ NotedAt(s, k, q) => s2.levels[k].undo[q] = InMemory(s, p)
  <2>1. ASSUME NEW k \in Levels(s), k \in {1, Len(s.levels)} /\ ~ NotedAt(s, k, p)
        PROVE  s2.levels[k].undo = With(s.levels[k].undo, p, InMemory(s, p))
    BY <2>1 DEF TxWrite
  <2>2. ASSUME NEW k \in Levels(s), ~ (k \in {1, Len(s.levels)} /\ ~ NotedAt(s, k, p))
        PROVE  s2.levels[k].undo = s.levels[k].undo
    BY <2>2 DEF TxWrite
  <2>3. ASSUME NEW k \in Levels(s), NEW q \in Page
        PROVE  /\ NotedAt(s2, k, q) <=> NotedAt(s, k, q) \/ (q = p /\ k \in {1, Len(s.levels)})
               /\ NotedAt(s, k, q) => s2.levels[k].undo[q] = s.levels[k].undo[q]
               /\ NotedAt(s2, k, q) /\ ~ NotedAt(s, k, q) => s2.levels[k].undo[q] = InMemory(s, p)
    <3>1. CASE k \in {1, Len(s.levels)} /\ ~ NotedAt(s, k, p)
      <4> DEFINE z == s.levels[k].undo
      <4>1. s2.levels[k].undo = With(z, p, InMemory(s, p))
        BY <2>1, <3>1
      <4>2. /\ DOMAIN With(z, p, InMemory(s, p)) = DOMAIN z \cup {p}
            /\ With(z, p, InMemory(s, p))[p] = InMemory(s, p)
            /\ \A r \in DOMAIN z : r # p => With(z, p, InMemory(s, p))[r] = z[r]
        BY DEF With
      <4> HIDE DEF z
      <4>3. QED
        BY <3>1, <4>1, <4>2 DEF NotedAt, z
    <3>2. CASE ~ (k \in {1, Len(s.levels)} /\ ~ NotedAt(s, k, p))
      BY <2>2, <3>2 DEF NotedAt
    <3>3. QED
      BY <3>1, <3>2
  <2>4. QED
    BY <2>3
<1> DEFINE u2 == [u EXCEPT ![Present(s)] = [@ EXCEPT ![p] = v]]
<1>10. u \in [Points(s) -> [Page -> Maybe]]
  BY <1>2 DEF Undoing
<1>11. /\ u2 \in [Points(s) -> [Page -> Maybe]]
       /\ \A k \in Levels(s) : u2[k] = u[k]
       /\ u2[Present(s)][p] = v /\ \A q \in Page : q # p => u2[Present(s)][q] = u[Present(s)][q]
  BY <1>4, <1>10 DEF Maybe
<1> HIDE DEF u2
<1>12. Undoing(u2, s2)
  <2>1. \A q \in Page : u2[Present(s)][q] = InMemory(s2, q)
    BY <1>2, <1>6, <1>11 DEF Undoing
  <2>2. ASSUME NEW k \in Levels(s), NEW q \in Page
        PROVE  u2[k][q] = IF NotedAt(s2, k, q) THEN s2.levels[k].undo[q] ELSE u2[k + 1][q]
    <3>1. u[k][q] = IF NotedAt(s, k, q) THEN s.levels[k].undo[q] ELSE u[k + 1][q]
      BY <1>2 DEF Undoing
    <3>2. CASE NotedAt(s, k, q)
      BY <1>9, <1>11, <3>1, <3>2
    <3>3. CASE ~ NotedAt(s, k, q) /\ q # p
      <4>1. u2[k + 1][q] = u[k + 1][q]
        BY <1>4, <1>11, <3>3
      <4>2. QED
        BY <1>9, <1>11, <3>1, <3>3, <4>1
    <3>4. CASE ~ NotedAt(s, k, q) /\ q = p /\ k = Len(s.levels)
      <4>1. u[k + 1][q] = InMemory(s, p)
        BY <1>2, <1>4, <3>4 DEF Undoing
      <4>2. QED
        BY <1>9, <1>11, <3>1, <3>4, <4>1
    <3>5. CASE ~ NotedAt(s, k, q) /\ q = p /\ k = 1
      <4>1. Unnoted(s, p)
        BY <3>5 DEF Unnoted
      <4>2. u[1][p] = InMemory(s, p)
        BY <1>2, <1>4, <4>1, NeverNoted
      <4>3. QED
        BY <1>9, <1>11, <3>5, <4>2
    <3>6. CASE ~ NotedAt(s, k, q) /\ k \notin {1, Len(s.levels)}
      BY <1>4, <1>9, <1>11, <3>1, <3>6
    <3>7. QED
      BY <3>2, <3>3, <3>4, <3>5, <3>6
  <2>3. QED
    BY <1>3, <1>11, <2>1, <2>2 DEF Undoing
<1>13. Grows(s2, o2)
  <2>1. \A k \in Points(s) : HeaderAt(s, k).total \in Nat /\ k \in Nat
    BY LevelTypes, PointTypes
  <2>2. ASSUME NEW i \in Points(s), NEW k \in Points(s), i < k
        PROVE  HeaderAt(s2, i).total <= HeaderAt(s2, k).total
    <3>1. i \in Levels(s)
      BY <1>4, <2>1, <2>2, LevelTypes DEF Points, Levels, Present
    <3>2. HeaderAt(s2, i) = HeaderAt(s, i) /\ HeaderAt(s, i).total <= HeaderAt(s, k).total
      BY <1>2, <1>3, <2>2, <3>1 DEF Grows
    <3>3. HeaderAt(s, k).total <= HeaderAt(s2, k).total /\ HeaderAt(s2, k).total \in Nat
      BY <1>3, <1>4, <1>7, <2>1, SMTT(30)
    <3>4. QED
      BY <2>1, <3>2, <3>3
  <2>3. ASSUME NEW k \in Points(s), NEW q \in Page, Unnoted(s2, q)
        PROVE  /\ \/ OwnerAt(s2, o2, k)[q] = OwnerAt(s2, o2, 1)[q]
                  \/ OwnerAt(s2, o2, 1)[q] = "live" /\ OwnerAt(s2, o2, k)[q] = "free"
               /\ q <= HeaderAt(s2, k).total => q <= HeaderAt(s2, 1).total
    <3>1. q # p /\ Unnoted(s, q)
      BY <1>8, <2>3
    <3>2. OwnerAt(s2, o2, k)[q] = OwnerAt(s, o, k)[q] /\ OwnerAt(s2, o2, 1) = OwnerAt(s, o, 1)
      BY <1>3, <1>4, <3>1
    <3>3. q <= HeaderAt(s2, k).total => q <= HeaderAt(s, k).total
      BY <1>3, <1>4, <1>7, <3>1
    <3>4. HeaderAt(s2, 1) = HeaderAt(s, 1)
      BY <1>3, <1>4
    <3>5. QED
      BY <1>2, <3>1, <3>2, <3>3, <3>4 DEF Grows
  <2>4. QED
    BY <1>3, <2>2, <2>3 DEF Grows
<1>14. Notes(s2)
  <2>1. ASSUME NEW k \in Levels(s), NEW q \in Page, NotedAt(s2, k, q)
        PROVE  /\ NotedAt(s2, 1, q) /\ q \in s2.levels[1].dirty
               /\ s2.levels[k].undo[q] = None => q > s2.levels[k].header.total
               /\ q \notin DOMAIN s2.cache => q > s2.header.total
    <3>1. CASE NotedAt(s, k, q)
      <4>1. /\ NotedAt(s, 1, q) /\ q \in s.levels[1].dirty
            /\ s.levels[k].undo[q] = None => q > s.levels[k].header.total
            /\ q \notin DOMAIN s.cache => q > s.header.total
        BY <1>2, <3>1 DEF Notes, NotedAt
      <4>2. s2.levels[k].header = s.levels[k].header /\ q \in s2.levels[1].dirty
        BY <4>1 DEF TxWrite
      <4>3. q \notin DOMAIN s2.cache => q > s2.header.total
        <5>1. q \in Nat
          BY PageAssumption
        <5>2. QED
          BY <1>5, <1>7, <4>1, <5>1
      <4>4. QED
        BY <1>4, <1>9, <3>1, <4>1, <4>2, <4>3
    <3>2. CASE ~ NotedAt(s, k, q)
      <4>1. q = p /\ k \in {1, Len(s.levels)} /\ s2.levels[k].undo[q] = InMemory(s, p)
        BY <1>9, <2>1, <3>2
      <4>2. NotedAt(s2, 1, q) /\ q \in s2.levels[1].dirty
        BY <1>4, <1>9, <4>1 DEF TxWrite
      <4>3. InMemory(s, p) = None => p > s.levels[k].header.total
        <5>1. InMemory(s, p) = None => p = s.header.total + 1
          BY <1>7, MemoryTypes
        <5>2. k < Present(s) /\ k \in Points(s)
          BY <1>4, <4>1, LevelTypes DEF Levels, Present
        <5>3. HeaderAt(s, k).total <= s.header.total
          BY <1>2, <1>3, <1>4, <5>2 DEF Grows
        <5>4. HeaderAt(s, k) = s.levels[k].header /\ HeaderAt(s, k).total \in Nat
          BY <5>2, PointTypes DEF HeaderAt
        <5>5. QED
          BY <1>7, <5>1, <5>3, <5>4
      <4>4. s2.levels[k].header = s.levels[k].header /\ q \in DOMAIN s2.cache
        BY <1>5, <4>1 DEF TxWrite
      <4>5. QED
        BY <4>1, <4>2, <4>3, <4>4
    <3>3. QED
      BY <3>1, <3>2
  <2>2. \A k \in Levels(s) : \A q \in DOMAIN s2.levels[k].undo : q \in Page /\ NotedAt(s2, k, q)
    BY <1>3, LevelTypes DEF NotedAt
  <2>3. QED
    BY <1>3, <2>1, <2>2 DEF Notes
<1>15. Within(s2, u2)
  <2>1. 1 \in DOMAIN s2.cache
    BY <1>2, <1>5 DEF Within
  <2>2. ASSUME NEW k \in Points(s), NEW q \in Page, u2[k][q] # None
        PROVE  q <= HeaderAt(s2, k).total
    <3>1. CASE k \in Levels(s)
      BY <1>2, <1>3, <1>11, <2>2, <3>1 DEF Within
    <3>2. CASE k = Present(s) /\ q = p
      BY <1>3, <1>7, <3>2
    <3>3. CASE k = Present(s) /\ q # p
      <4>1. q <= s.header.total
        BY <1>2, <1>3, <1>11, <2>2, <3>3 DEF Within
      <4>2. q \in Nat
        BY PageAssumption
      <4>3. QED
        BY <1>3, <1>7, <3>3, <4>1, <4>2
    <3>4. QED
      BY <1>4, <3>1, <3>2, <3>3
  <2>3. QED
    BY <1>3, <2>1, <2>2 DEF Within
<1>16. ASSUME ~ m PROVE Synced(s2, u2, d, o2)
  BY <1>2, <1>3, <1>4, <1>11, <1>16 DEF Synced
<1>17. ASSUME m PROVE InCache(s2, d)
  BY <1>2, <1>3, <1>4, <1>5, <1>17 DEF InCache
<1>18. \A k \in Levels(s) : Restores(View(u2[k], d), w[k], s2.levels[k].header, s2.levels[k].owner)
  BY <1>2, <1>11 DEF TxWrite
<1>19. Past(s2, d, o2, m, u2, w)
  BY <1>3, <1>12, <1>13, <1>14, <1>15, <1>16, <1>17, <1>18 DEF Past
<1>20. \A q \in Page : /\ Look(s2, d)[q] = IF InMemory(s2, q) # None THEN InMemory(s2, q) ELSE Below(d, q)
                       /\ Look(s, d)[q] = IF InMemory(s, q) # None THEN InMemory(s, q) ELSE Below(d, q)
  BY <1>3, LookTypes
<1>21. v # None
  BY ContentType
<1>22. QED
  BY <1>6, <1>19, <1>20, <1>21 DEF Restorable

\* The freelist in the header is not among what can be restored.
HeaderStep(s, s2) ==
  /\ s2 \in Memory /\ s2.cache = s.cache /\ s2.levels = s.levels
  /\ s2.header.total = s.header.total

\* A change of the freelist in the header keeps what can be restored.
LEMMA HeaderKeeps ==
  ASSUME NEW w, NEW s \in Memory, NEW s2, NEW d \in Pages, NEW o \in [Page -> Owner],
         NEW m \in BOOLEAN,
         Restorable(s, d, o, m, w), HeaderStep(s, s2)
  PROVE  Restorable(s2, d, o, m, w) /\ Look(s2, d) = Look(s, d)
<1>1. PICK u : Past(s, d, o, m, u, w)
  BY DEF Restorable
<1>2. /\ Levels(s2) = Levels(s) /\ Points(s2) = Points(s) /\ Present(s2) = Present(s)
      /\ s2.levels = s.levels /\ s2.cache = s.cache
      /\ \A k : HeaderAt(s2, k).total = HeaderAt(s, k).total
      /\ \A k : OwnerAt(s2, o, k) = OwnerAt(s, o, k)
      /\ \A k, p : NotedAt(s2, k, p) <=> NotedAt(s, k, p)
      /\ \A p : Unnoted(s2, p) <=> Unnoted(s, p)
      /\ \A p : InMemory(s2, p) = InMemory(s, p)
      /\ s2.header.total = s.header.total
  BY DEF HeaderStep, Levels, Points, Present, HeaderAt, OwnerAt, NotedAt, Unnoted, InMemory
<1>3. Undoing(u, s2)
  BY <1>1, <1>2 DEF Past, Undoing
<1>4. Grows(s2, o)
  BY <1>1, <1>2 DEF Past, Grows
<1>5. Notes(s2)
  BY <1>1, <1>2 DEF Past, Notes
<1>6. Within(s2, u) /\ IF m THEN InCache(s2, d) ELSE Synced(s2, u, d, o)
  BY <1>1, <1>2 DEF Past, Within, InCache, Synced
<1>7. \A k \in Levels(s2) : Restores(View(u[k], d), w[k], s2.levels[k].header, s2.levels[k].owner)
  BY <1>1, <1>2 DEF Past
<1>8. QED
  BY <1>2, <1>3, <1>4, <1>5, <1>6, <1>7 DEF Past, Restorable, Look

\* Nor is it lost when a page is given back.
LEMMA FreedKeeps ==
  ASSUME NEW w, NEW s \in Memory, NEW d \in Pages, NEW o \in [Page -> Owner], NEW m \in BOOLEAN,
         NEW o2, NEW p \in Page, Restorable(s, d, o, m, w), Freed(o, o2, p)
  PROVE  Restorable(s, d, o2, m, w)
<1>1. PICK u : Past(s, d, o, m, u, w)
  BY DEF Restorable
<1>2. o[p] = "live" /\ o2[p] = "free" /\ \A q \in Page : q # p => o2[q] = o[q]
  BY DEF Freed
<1>3. \A k : k \in Levels(s) => OwnerAt(s, o2, k) = OwnerAt(s, o, k)
  BY DEF OwnerAt
<1>4. \A k : k \notin Levels(s) => OwnerAt(s, o2, k) = o2 /\ OwnerAt(s, o, k) = o
  BY DEF OwnerAt
<1>5. Grows(s, o2)
  <2>1. Grows(s, o)
    BY <1>1 DEF Past
  <2>2. ASSUME NEW k \in Points(s), NEW q \in Page, Unnoted(s, q)
        PROVE  \/ OwnerAt(s, o2, k)[q] = OwnerAt(s, o2, 1)[q]
               \/ OwnerAt(s, o2, 1)[q] = "live" /\ OwnerAt(s, o2, k)[q] = "free"
    <3>1. \/ OwnerAt(s, o, k)[q] = OwnerAt(s, o, 1)[q]
          \/ OwnerAt(s, o, 1)[q] = "live" /\ OwnerAt(s, o, k)[q] = "free"
      BY <2>1, <2>2 DEF Grows
    <3>2. CASE 1 \in Levels(s)
      BY <1>2, <1>3, <1>4, <3>1, <3>2
    <3>3. CASE 1 \notin Levels(s)
      <4>1. k \notin Levels(s)
        BY <3>3, LevelTypes DEF Levels
      <4>2. QED
        BY <1>4, <3>3, <4>1
    <3>4. QED
      BY <3>2, <3>3
  <2>3. QED
    BY <2>1, <2>2 DEF Grows
<1>6. IF m THEN InCache(s, d) ELSE Synced(s, u, d, o2)
  BY <1>1, <1>2, <1>3, <1>4 DEF Past, Synced
<1>7. QED
  BY <1>1, <1>5, <1>6 DEF Past, Restorable
-----------------------------------------------------------------------------
(* A level is opened, undone or merged with the one around it.             *)

Opened(s, s2, o, l) ==
  /\ s2 \in Memory /\ s2.cache = s.cache /\ s2.header = s.header
  /\ s2.levels = Append(s.levels, l)
  /\ l.header = s.header /\ l.undo = <<>> /\ l.owner = o

Opening(s, s2, d, o, m, l, w) ==
  /\ s \in Memory /\ d \in Pages /\ o \in [Page -> Owner] /\ m \in BOOLEAN /\ l \in LevelRec
  /\ Restorable(s, d, o, m, w) /\ Opened(s, s2, o, l)
  /\ Restores(Look(s, d), w[Present(s)], s.header, o)

\* A new level can restore the present, the others what they could before.
LEMMA OpenedKeeps ==
  ASSUME NEW s, NEW s2, NEW d, NEW o, NEW m, NEW l, NEW w, Opening(s, s2, d, o, m, l, w)
  PROVE  Restorable(s2, d, o, m, w) /\ Look(s2, d) = Look(s, d)
<1> USE DEF Opening
<1> DEFINE n == Len(s.levels)
<1>1. PICK u : Past(s, d, o, m, u, w)
  BY DEF Restorable
<1>2. /\ Undoing(u, s) /\ Grows(s, o) /\ Notes(s) /\ Within(s, u)
      /\ (m => InCache(s, d)) /\ (~ m => Synced(s, u, d, o))
      /\ \A k \in Levels(s) : Restores(View(u[k], d), w[k], s.levels[k].header, s.levels[k].owner)
  BY <1>1 DEF Past
<1>3. s.levels \in Seq(LevelRec) /\ n \in Nat
  BY LevelTypes DEF Memory
<1>4. /\ Len(s2.levels) = n + 1 /\ s2.levels[n + 1] = l
      /\ \A k \in 1 .. n : s2.levels[k] = s.levels[k]
  BY <1>3 DEF Opened
<1>5. /\ Levels(s) = 1 .. n /\ Points(s) = 1 .. n + 1 /\ Present(s) = n + 1
      /\ Levels(s2) = 1 .. n + 1 /\ Points(s2) = 1 .. n + 2 /\ Present(s2) = n + 2
  BY <1>3, <1>4 DEF Levels, Points, Present
<1>6. /\ \A k \in 1 .. n + 1 : k \in 1 .. n \/ k = n + 1
      /\ \A k \in 1 .. n + 2 : k \in 1 .. n + 1 \/ k = n + 2
      /\ \A k \in 1 .. n : k + 1 \in 1 .. n + 1 /\ k \in 1 .. n + 1 /\ k # n + 1
      /\ \A k \in 1 .. n + 1 : k \in 1 .. n + 2 /\ k # n + 2
      /\ n + 1 \in 1 .. n + 1 /\ n + 2 \in 1 .. n + 2 /\ 1 \in 1 .. n + 1 /\ n + 1 + 1 = n + 2
  BY <1>3
<1> HIDE DEF n
<1>7. /\ \A k \in 1 .. n + 1 : HeaderAt(s2, k) = HeaderAt(s, k) /\ OwnerAt(s2, o, k) = OwnerAt(s, o, k)
      /\ HeaderAt(s2, n + 2) = s.header /\ HeaderAt(s, n + 1) = s.header
      /\ OwnerAt(s2, o, n + 2) = o /\ OwnerAt(s, o, n + 1) = o
  BY <1>4, <1>5, <1>6 DEF HeaderAt, OwnerAt, Opened
<1>8. /\ \A k \in 1 .. n : \A p : NotedAt(s2, k, p) <=> NotedAt(s, k, p)
      /\ \A p : ~ NotedAt(s2, n + 1, p)
      /\ \A p : InMemory(s2, p) = InMemory(s, p)
  BY <1>4, EmptyPages DEF NotedAt, Opened, InMemory
<1>9. \A p : Unnoted(s2, p) <=> Unnoted(s, p)
  <2>1. Len(s2.levels) # 0 /\ (n = 0 \/ 1 \in 1 .. n) /\ Len(s.levels) = n
    BY <1>3, <1>4 DEF n
  <2>2. QED
    BY <1>8, <2>1 DEF Unnoted
<1> DEFINE u2 == [k \in 1 .. n + 2 |-> IF k = n + 2 THEN u[n + 1] ELSE u[k]]
<1>10. u \in [1 .. n + 1 -> [Page -> Maybe]]
  BY <1>2, <1>5 DEF Undoing
<1>11. /\ u2 \in [1 .. n + 2 -> [Page -> Maybe]] /\ u2[n + 2] = u[n + 1]
       /\ \A k \in 1 .. n + 1 : u2[k] = u[k]
  BY <1>6, <1>10
<1> HIDE DEF u2
<1>12. Undoing(u2, s2)
  <2>1. \A p \in Page : u2[n + 2][p] = InMemory(s2, p)
    BY <1>2, <1>5, <1>8, <1>11 DEF Undoing
  <2>2. \A k \in 1 .. n, p \in Page :
          u2[k][p] = IF NotedAt(s2, k, p) THEN s2.levels[k].undo[p] ELSE u2[k + 1][p]
    <3>1. ASSUME NEW k \in 1 .. n, NEW p \in Page
          PROVE  u2[k][p] = IF NotedAt(s2, k, p) THEN s2.levels[k].undo[p] ELSE u2[k + 1][p]
      <4>1. u[k][p] = IF NotedAt(s, k, p) THEN s.levels[k].undo[p] ELSE u[k + 1][p]
        BY <1>2, <1>5 DEF Undoing
      <4>2. u2[k] = u[k] /\ u2[k + 1] = u[k + 1]
        BY <1>6, <1>11
      <4>3. QED
        BY <1>4, <1>8, <4>1, <4>2
    <3>2. QED
      BY <3>1
  <2>3. \A p \in Page : ~ NotedAt(s2, n + 1, p) /\ u2[n + 1][p] = u2[n + 1 + 1][p]
    BY <1>6, <1>8, <1>11
  <2>4. QED
    BY <1>5, <1>6, <1>11, <2>1, <2>2, <2>3 DEF Undoing
<1>13. Grows(s2, o)
  <2>1. \A k \in 1 .. n + 1 : HeaderAt(s, k).total \in Nat
    BY <1>5, PointTypes
  <2>2. ASSUME NEW i \in 1 .. n + 2, NEW k \in 1 .. n + 2, i < k
        PROVE  HeaderAt(s2, i).total <= HeaderAt(s2, k).total
    <3>1. i \in 1 .. n + 1
      BY <1>3, <2>2
    <3>2. CASE k \in 1 .. n + 1
      BY <1>2, <1>5, <1>7, <2>2, <3>1, <3>2 DEF Grows
    <3>3. CASE k = n + 2 /\ i = n + 1
      BY <1>6, <1>7, <2>1, <3>3
    <3>4. CASE k = n + 2 /\ i # n + 1
      <4>1. i < n + 1
        BY <1>3, <3>1, <3>4
      <4>2. QED
        BY <1>2, <1>5, <1>6, <1>7, <3>1, <3>4, <4>1 DEF Grows
    <3>5. QED
      BY <1>6, <3>2, <3>3, <3>4
  <2>3. ASSUME NEW k \in 1 .. n + 2, NEW p \in Page, Unnoted(s2, p)
        PROVE  /\ \/ OwnerAt(s2, o, k)[p] = OwnerAt(s2, o, 1)[p]
                  \/ OwnerAt(s2, o, 1)[p] = "live" /\ OwnerAt(s2, o, k)[p] = "free"
               /\ p <= HeaderAt(s2, k).total => p <= HeaderAt(s2, 1).total
    <3>1. PICK j \in 1 .. n + 1 : HeaderAt(s2, k) = HeaderAt(s, j) /\ OwnerAt(s2, o, k) = OwnerAt(s, o, j)
      BY <1>6, <1>7
    <3>2. HeaderAt(s2, 1) = HeaderAt(s, 1) /\ OwnerAt(s2, o, 1) = OwnerAt(s, o, 1)
      BY <1>6, <1>7
    <3>3. QED
      BY <1>2, <1>5, <1>9, <2>3, <3>1, <3>2 DEF Grows
  <2>4. QED
    BY <1>5, <2>2, <2>3 DEF Grows
<1>14. Notes(s2)
  <2>1. ASSUME NEW k \in 1 .. n, NEW p \in DOMAIN s2.levels[k].undo
        PROVE  /\ NotedAt(s2, 1, p) /\ p \in s2.levels[1].dirty
               /\ s2.levels[k].undo[p] = None => p > s2.levels[k].header.total
               /\ p \notin DOMAIN s2.cache => p > s2.header.total
    <3>1. 1 \in 1 .. n
      BY <1>3
    <3>2. p \in DOMAIN s.levels[k].undo /\ s2.levels[k] = s.levels[k] /\ s2.levels[1] = s.levels[1]
      BY <1>4, <3>1
    <3>3. QED
      BY <1>2, <1>5, <3>2 DEF Notes, NotedAt, Opened
  <2>2. \A p : p \notin DOMAIN s2.levels[n + 1].undo
    BY <1>8 DEF NotedAt
  <2>3. QED
    BY <1>5, <1>6, <2>1, <2>2 DEF Notes
<1>15. Within(s2, u2)
  <2>1. \A k \in 1 .. n + 2, p \in Page : u2[k][p] # None => p <= HeaderAt(s2, k).total
    BY <1>2, <1>5, <1>6, <1>7, <1>11 DEF Within
  <2>2. QED
    BY <1>2, <1>5, <2>1 DEF Within, Opened
<1>16. IF m THEN InCache(s2, d) ELSE Synced(s2, u2, d, o)
  <2>1. m => InCache(s2, d)
    BY <1>2, <1>6, <1>7 DEF InCache, Opened
  <2>2. ~ m => Synced(s2, u2, d, o)
    BY <1>2, <1>6, <1>7, <1>11 DEF Synced
  <2>3. QED
    BY <2>1, <2>2
<1>17. Look(s2, d) = Look(s, d)
  BY <1>8 DEF Look
<1>18. ASSUME NEW k \in Levels(s2)
       PROVE  Restores(View(u2[k], d), w[k], s2.levels[k].header, s2.levels[k].owner)
  <2>1. CASE k \in 1 .. n
    BY <1>2, <1>4, <1>5, <1>6, <1>11, <2>1
  <2>2. CASE k = n + 1
    <3>1. \A p \in Page : u2[k][p] = InMemory(s, p)
      BY <1>2, <1>5, <1>6, <1>11, <2>2 DEF Undoing
    <3>2. View(u2[k], d) = Look(s, d)
      BY <3>1 DEF View, Look
    <3>3. QED
      BY <1>4, <1>5, <2>2, <3>2 DEF Opened
  <2>3. QED
    BY <1>5, <1>6, <2>1, <2>2
<1>19. QED
  BY <1>12, <1>13, <1>14, <1>15, <1>16, <1>17, <1>18 DEF Past, Restorable

\* The levels from k on are undone: u[k] is the cache that this leaves.
Cut(s, s2, k, u) ==
  /\ s2 \in Memory /\ s2.levels = SubSeq(s.levels, 1, k - 1)
  /\ s2.header = s.levels[k].header
  /\ \A p \in Page : InMemory(s2, p) = u[k][p]

\* Undoing the levels from k on restores the sound database at which level k was opened.
LEMMA CutKeeps ==
  ASSUME NEW w, NEW s \in Memory, NEW s2, NEW d \in Pages, NEW o \in [Page -> Owner],
         NEW m \in BOOLEAN,
         NEW k \in Levels(s), NEW u, Past(s, d, o, m, u, w), Cut(s, s2, k, u)
  PROVE  /\ Restorable(s2, d, s.levels[k].owner, m, w)
         /\ Look(s2, d) = View(u[k], d)
         /\ Restores(Look(s2, d), w[k], s2.header, s.levels[k].owner)
<1>0. \A p \in Page : InMemory(s2, p) = u[k][p]
  BY DEF Cut
<1> DEFINE o2 == s.levels[k].owner
<1>1. /\ Undoing(u, s) /\ Grows(s, o) /\ Notes(s) /\ Within(s, u)
      /\ (m => InCache(s, d)) /\ (~ m => Synced(s, u, d, o))
      /\ \A j \in Levels(s) : Restores(View(u[j], d), w[j], s.levels[j].header, s.levels[j].owner)
  BY DEF Past
<1>2. s.levels \in Seq(LevelRec) /\ Len(s.levels) \in Nat /\ k \in 1 .. Len(s.levels) /\ s2 \in Memory
  BY LevelTypes DEF Memory, Levels, Cut
<1>3. Len(s2.levels) = k - 1 /\ \A j \in 1 .. k - 1 : s2.levels[j] = s.levels[j]
  <2>1. k - 1 \in 0 .. Len(s.levels)
    BY <1>2
  <2>2. QED
    BY <1>2, <2>1, PrefixOfSeq DEF Cut
<1>4. /\ Levels(s2) = 1 .. k - 1 /\ Points(s2) = 1 .. k /\ Present(s2) = k
      /\ \A j \in 1 .. k - 1 : j \in 1 .. k /\ j + 1 \in 1 .. k /\ j # k
      /\ \A j \in 1 .. k : j \in Levels(s) /\ j \in Points(s) /\ (j \in 1 .. k - 1 \/ j = k)
      /\ 1 \in 1 .. k /\ k \in 1 .. k
  BY <1>2, <1>3 DEF Levels, Points, Present
<1>5. \A j \in 1 .. k : HeaderAt(s2, j) = HeaderAt(s, j) /\ OwnerAt(s2, o2, j) = OwnerAt(s, o, j)
  BY <1>3, <1>4 DEF HeaderAt, OwnerAt, Cut
<1>6. \A j \in 1 .. k - 1 : \A p : NotedAt(s2, j, p) <=> NotedAt(s, j, p)
  BY <1>3 DEF NotedAt
<1> HIDE DEF o2
<1>7. k = 1 \/ \A p : Unnoted(s2, p) => Unnoted(s, p)
  <2>1. k # 1 => 1 \in 1 .. k - 1 /\ Len(s2.levels) # 0
    BY <1>2, <1>3
  <2>2. QED
    BY <1>6, <2>1 DEF Unnoted
<1> DEFINE u2 == [j \in 1 .. k |-> u[j]]
<1>8. u \in [Points(s) -> [Page -> Maybe]]
  BY <1>1 DEF Undoing
<1>9. u2 \in [1 .. k -> [Page -> Maybe]] /\ \A j \in 1 .. k : u2[j] = u[j]
  BY <1>4, <1>8
<1> HIDE DEF u2
<1>10. Undoing(u2, s2)
  <2>1. ASSUME NEW j \in 1 .. k - 1, NEW p \in Page
        PROVE  u2[j][p] = IF NotedAt(s2, j, p) THEN s2.levels[j].undo[p] ELSE u2[j + 1][p]
    <3>1. NotedAt(s2, j, p) <=> NotedAt(s, j, p)
      BY <1>6
    <3>2. u[j][p] = IF NotedAt(s, j, p) THEN s.levels[j].undo[p] ELSE u[j + 1][p]
      BY <1>1, <1>4 DEF Undoing
    <3>3. QED
      BY <1>3, <1>4, <1>9, <3>1, <3>2
  <2>2. QED
    BY <1>0, <1>4, <1>9, <2>1 DEF Undoing
\* What undoing takes out of memory was added later.
<1>11. ASSUME NEW p \in Page, u[k][p] = None, NEW j \in 1 .. k,
              p \in DOMAIN s.cache \/ (\E i \in Levels(s) : NotedAt(s, i, p))
       PROVE  p > HeaderAt(s, j).total
  <2>1. \A i \in Points(s) : HeaderAt(s, i).total \in Nat /\ i \in Nat
    BY LevelTypes, PointTypes
  <2>2. p \in Nat
    BY PageAssumption
  <2>3. CASE u[k][p] = InMemory(s, p)
    <3>1. p \notin DOMAIN s.cache
      BY <1>11, <2>3, MemoryTypes
    <3>2. PICK i \in Levels(s) : NotedAt(s, i, p)
      BY <1>11, <3>1
    <3>3. p > s.header.total
      BY <1>1, <3>1, <3>2 DEF Notes, NotedAt
    <3>4. HeaderAt(s, Present(s)) = s.header /\ Present(s) \in Points(s) /\ j < Present(s)
      BY <1>2, <1>4, LevelTypes, SMTT(30) DEF HeaderAt, Present
    <3>5. HeaderAt(s, j).total <= s.header.total
      BY <1>1, <1>4, <3>4 DEF Grows
    <3>6. QED
      BY <1>4, <2>1, <2>2, <3>3, <3>4, <3>5
  <2>4. CASE \E i \in k .. Len(s.levels) : IsFirst(s, k, i, p) /\ u[k][p] = s.levels[i].undo[p]
    <3>1. PICK i \in k .. Len(s.levels) : IsFirst(s, k, i, p) /\ u[k][p] = s.levels[i].undo[p]
      BY <2>4
    <3>2. i \in Levels(s) /\ i \in Points(s) /\ (j < i \/ j = i)
      BY <1>2 DEF Levels, Points
    <3>3. p > HeaderAt(s, i).total
      BY <1>1, <1>11, <3>1, <3>2 DEF Notes, IsFirst, NotedAt, HeaderAt
    <3>4. HeaderAt(s, j).total <= HeaderAt(s, i).total
      BY <1>1, <1>4, <2>1, <3>2 DEF Grows
    <3>5. QED
      BY <1>4, <2>1, <2>2, <3>2, <3>3, <3>4
  <2>5. QED
    BY <1>1, <1>4, <2>3, <2>4, FirstNoted
<1>12. Grows(s2, o2)
  <2>1. \A i, j \in 1 .. k : i < j => HeaderAt(s2, i).total <= HeaderAt(s2, j).total
    BY <1>1, <1>4, <1>5 DEF Grows
  <2>2. ASSUME NEW j \in 1 .. k, NEW p \in Page, Unnoted(s2, p)
        PROVE  /\ \/ OwnerAt(s2, o2, j)[p] = OwnerAt(s2, o2, 1)[p]
                  \/ OwnerAt(s2, o2, 1)[p] = "live" /\ OwnerAt(s2, o2, j)[p] = "free"
               /\ p <= HeaderAt(s2, j).total => p <= HeaderAt(s2, 1).total
    <3>1. CASE k = 1
      <4>1. j = 1
        BY <3>1
      <4>2. QED
        BY <4>1
    <3>2. CASE k # 1
      BY <1>1, <1>4, <1>5, <1>7, <2>2, <3>2 DEF Grows
    <3>3. QED
      BY <3>1, <3>2
  <2>3. QED
    BY <1>4, <2>1, <2>2 DEF Grows
<1>13. Notes(s2)
  <2>1. ASSUME NEW j \in 1 .. k - 1, NEW p \in DOMAIN s2.levels[j].undo
        PROVE  /\ NotedAt(s2, 1, p) /\ p \in s2.levels[1].dirty
               /\ s2.levels[j].undo[p] = None => p > s2.levels[j].header.total
               /\ p \notin DOMAIN s2.cache => p > s2.header.total
    <3>1. 1 \in 1 .. k - 1 /\ j \in Levels(s)
      BY <1>2, <1>4
    <3>2. s2.levels[j] = s.levels[j] /\ s2.levels[1] = s.levels[1] /\ NotedAt(s, j, p)
      BY <1>3, <3>1 DEF NotedAt
    <3>3. p \in Page
      BY <3>1, <3>2, LevelTypes
    <3>4. p \notin DOMAIN s2.cache => p > s2.header.total
      <4>1. s2.header = HeaderAt(s, k)
        BY DEF HeaderAt, Cut
      <4>2. p \notin DOMAIN s2.cache => u[k][p] = None
        BY <1>0, <1>2, <3>3, MemoryTypes
      <4>3. QED
        BY <1>4, <1>11, <3>1, <3>2, <3>3, <4>1, <4>2
    <3>5. QED
      BY <1>1, <3>1, <3>2, <3>4 DEF Notes, NotedAt
  <2>2. QED
    BY <1>4, <2>1 DEF Notes
<1>14. Within(s2, u2)
  <2>1. 1 \in Page /\ 1 \in DOMAIN s.cache
    BY <1>1, PageAssumption DEF Within
  <2>2. 1 <= HeaderAt(s, k).total /\ HeaderAt(s, k).total \in Nat
    <3>1. Owned(View(u[k], d), s.levels[k].header, s.levels[k].owner)
      BY <1>1 DEF Sound, Restores
    <3>2. QED
      BY <1>4, <2>1, <3>1, PointTypes DEF Owned, HeaderAt
  <2>3. u[k][1] # None
    BY <1>4, <1>11, <2>1, <2>2
  <2>4. 1 \in DOMAIN s2.cache
    BY <1>0, <1>2, <2>1, <2>3, MemoryTypes
  <2>5. QED
    BY <1>1, <1>4, <1>5, <1>9, <2>4 DEF Within
<1>15. IF m THEN InCache(s2, d) ELSE Synced(s2, u2, d, o2)
  <2>1. ~ m => Synced(s2, u2, d, o2)
    BY <1>1, <1>4, <1>5, <1>9 DEF Synced
  <2>2. ASSUME m, NEW p \in DOMAIN d PROVE p \in DOMAIN s2.cache /\ p <= HeaderAt(s2, 1).total
    <3>1. p \in Page /\ p \in DOMAIN s.cache /\ p <= HeaderAt(s, 1).total
      BY <1>1, <2>2, BelowTypes DEF InCache
    <3>2. p \in Nat /\ HeaderAt(s, 1).total \in Nat
      BY <1>4, <3>1, PointTypes, PageAssumption
    <3>3. u[k][p] # None
      BY <1>4, <1>11, <3>1, <3>2
    <3>4. QED
      BY <1>0, <1>2, <1>4, <1>5, <3>1, <3>3, MemoryTypes
  <2>3. QED
    BY <2>1, <2>2 DEF InCache
<1>16. \A j \in Levels(s2) : Restores(View(u2[j], d), w[j], s2.levels[j].header, s2.levels[j].owner)
  BY <1>1, <1>3, <1>4, <1>9
<1>17. Look(s2, d) = View(u[k], d)
  BY <1>0 DEF Look, View
<1>18. Restores(Look(s2, d), w[k], s2.header, o2)
  BY <1>1, <1>17 DEF Cut, o2
<1>19. QED
  BY <1>10, <1>12, <1>13, <1>14, <1>15, <1>16, <1>17, <1>18 DEF Past, Restorable, o2

\* The levels from k on become part of the one before them.
Merged(s, s2, k) ==
  /\ s2 \in Memory /\ s2.cache = s.cache /\ s2.header = s.header
  /\ Len(s2.levels) = k - 1 /\ k - 1 \in Levels(s) /\ k \in Levels(s)
  /\ \A j \in 1 .. k - 1 :
       /\ s2.levels[j].header = s.levels[j].header /\ s2.levels[j].owner = s.levels[j].owner
       /\ s.levels[j].dirty \subseteq s2.levels[j].dirty
       /\ j # k - 1 => s2.levels[j].undo = s.levels[j].undo
  /\ \A p : NotedAt(s2, k - 1, p) <=> \E j \in k - 1 .. Len(s.levels) : NotedAt(s, j, p)
  /\ \A p, j : IsFirst(s, k - 1, j, p) /\ j \in k - 1 .. Len(s.levels) =>
       s2.levels[k - 1].undo[p] = s.levels[j].undo[p]

\* Releasing a savepoint keeps what the levels around it can restore.
LEMMA MergedKeeps ==
  ASSUME NEW w, NEW s \in Memory, NEW s2, NEW d \in Pages, NEW o \in [Page -> Owner],
         NEW m \in BOOLEAN,
         NEW k, Restorable(s, d, o, m, w), Merged(s, s2, k)
  PROVE  Restorable(s2, d, o, m, w) /\ Look(s2, d) = Look(s, d)
<1> DEFINE n == Len(s.levels)
           i == k - 1
<1>1. PICK u : Past(s, d, o, m, u, w)
  BY DEF Restorable
<1>2. /\ Undoing(u, s) /\ Grows(s, o) /\ Notes(s) /\ Within(s, u)
      /\ (m => InCache(s, d)) /\ (~ m => Synced(s, u, d, o))
      /\ \A j \in Levels(s) : Restores(View(u[j], d), w[j], s.levels[j].header, s.levels[j].owner)
  BY <1>1 DEF Past
<1>3. n \in Nat /\ k \in 1 .. n /\ i \in 1 .. n /\ i \in Nat \ {0} /\ k = i + 1 /\ s2 \in Memory
  BY LevelTypes DEF Levels, Merged
<1>4. /\ Levels(s2) = 1 .. i /\ Points(s2) = 1 .. k /\ Present(s2) = k
      /\ Levels(s) = 1 .. n /\ Points(s) = 1 .. n + 1 /\ Present(s) = n + 1
      /\ \A j \in 1 .. i : j \in Levels(s) /\ j \in Points(s) /\ j # k /\ j \in 1 .. k
                           /\ j + 1 \in 1 .. k /\ (j # i => j + 1 \in 1 .. i) /\ j < n + 1
      /\ \A j \in 1 .. k : j \in 1 .. i \/ j = k
      /\ 1 \in 1 .. i /\ i \in 1 .. i /\ k \in 1 .. k /\ n + 1 \in Points(s) /\ n + 1 \notin Levels(s)
  BY <1>3 DEF Levels, Points, Present, Merged
<1>5. /\ s2.cache = s.cache /\ s2.header = s.header
      /\ \A p : InMemory(s2, p) = InMemory(s, p)
      /\ \A j \in 1 .. i :
          /\ s2.levels[j].header = s.levels[j].header /\ s2.levels[j].owner = s.levels[j].owner
          /\ s.levels[j].dirty \subseteq s2.levels[j].dirty
          /\ j # i => s2.levels[j].undo = s.levels[j].undo
      /\ \A p : NotedAt(s2, i, p) <=> \E j \in i .. n : NotedAt(s, j, p)
      /\ \A p, j : IsFirst(s, i, j, p) /\ j \in i .. n => s2.levels[i].undo[p] = s.levels[j].undo[p]
  BY DEF Merged, InMemory
<1>6. /\ \A j \in 1 .. i : HeaderAt(s2, j) = HeaderAt(s, j) /\ OwnerAt(s2, o, j) = OwnerAt(s, o, j)
      /\ HeaderAt(s2, k) = HeaderAt(s, n + 1) /\ OwnerAt(s2, o, k) = OwnerAt(s, o, n + 1)
  <2>1. k \notin 1 .. i
    BY <1>3
  <2>2. QED
    BY <1>4, <1>5, <2>1 DEF HeaderAt, OwnerAt
<1>7. \A j \in 1 .. i : \A p : j # i => (NotedAt(s2, j, p) <=> NotedAt(s, j, p))
  BY <1>5 DEF NotedAt
<1>8. \A p : NotedAt(s2, 1, p) <=> NotedAt(s, 1, p)
  <2>1. CASE i = 1
    <3>1. \A j \in 1 .. n : \A p : NotedAt(s, j, p) => NotedAt(s, 1, p)
      BY <1>2, <1>4 DEF Notes, NotedAt
    <3>2. 1 \in 1 .. n
      BY <1>3
    <3>3. QED
      BY <1>5, <2>1, <3>1, <3>2
  <2>2. CASE i # 1
    BY <1>4, <1>7, <2>2
  <2>3. QED
    BY <2>1, <2>2
<1>9. \A p : Unnoted(s2, p) <=> Unnoted(s, p)
  <2>1. Len(s2.levels) # 0 /\ Len(s.levels) # 0
    BY <1>3 DEF Merged
  <2>2. QED
    BY <1>8, <2>1 DEF Unnoted
<1> DEFINE u2 == [j \in 1 .. k |-> IF j = k THEN u[n + 1] ELSE u[j]]
<1>10. u \in [Points(s) -> [Page -> Maybe]]
  BY <1>2 DEF Undoing
<1>11. /\ u2 \in [1 .. k -> [Page -> Maybe]] /\ u2[k] = u[n + 1]
       /\ \A j \in 1 .. i : u2[j] = u[j]
  BY <1>4, <1>10
<1>12. \A p \in Page : u[n + 1][p] = InMemory(s, p)
  BY <1>2, <1>4 DEF Undoing
\* The level before k notes what the levels from there on have noted first.
<1>13. ASSUME NEW p \in Page
       PROVE  \/ ~ NotedAt(s2, i, p) /\ u[i][p] = InMemory(s, p)
              \/ \E j \in i .. n : /\ NotedAt(s2, i, p) /\ IsFirst(s, i, j, p) /\ j \in Levels(s)
                                   /\ s2.levels[i].undo[p] = s.levels[j].undo[p]
                                   /\ u[i][p] = s.levels[j].undo[p]
  <2>1. \/ (\A j \in i .. n : ~ NotedAt(s, j, p)) /\ u[i][p] = InMemory(s, p)
        \/ \E j \in i .. n : IsFirst(s, i, j, p) /\ u[i][p] = s.levels[j].undo[p]
    BY <1>2, <1>4, FirstNoted
  <2>2. \A j \in i .. n : j \in Levels(s)
    BY <1>3, <1>4
  <2>3. \A j \in i .. n : IsFirst(s, i, j, p) => NotedAt(s, j, p)
    BY DEF IsFirst
  <2>4. QED
    BY <1>5, <2>1, <2>2, <2>3
<1> HIDE DEF u2, n, i
<1>14. Undoing(u2, s2)
  <2>1. \A p \in Page : u2[k][p] = InMemory(s2, p)
    BY <1>5, <1>11, <1>12
  <2>2. ASSUME NEW j \in 1 .. i, NEW p \in Page
        PROVE  u2[j][p] = IF NotedAt(s2, j, p) THEN s2.levels[j].undo[p] ELSE u2[j + 1][p]
    <3>1. CASE j # i
      <4>1. u[j][p] = IF NotedAt(s, j, p) THEN s.levels[j].undo[p] ELSE u[j + 1][p]
        BY <1>2, <1>4 DEF Undoing
      <4>2. u2[j] = u[j] /\ u2[j + 1] = u[j + 1]
        BY <1>4, <1>11, <3>1
      <4>3. QED
        BY <1>5, <1>7, <3>1, <4>1, <4>2
    <3>2. CASE j = i
      <4>1. u2[j] = u[i] /\ u2[j + 1][p] = InMemory(s, p)
        BY <1>3, <1>4, <1>11, <1>12, <3>2
      <4>2. QED
        BY <1>13, <3>2, <4>1
    <3>3. QED
      BY <3>1, <3>2
  <2>3. QED
    BY <1>4, <1>11, <2>1, <2>2 DEF Undoing
<1>15. Grows(s2, o)
  <2>1. ASSUME NEW a \in 1 .. k, NEW b \in 1 .. k, a < b
        PROVE  HeaderAt(s2, a).total <= HeaderAt(s2, b).total
    <3>1. a \in 1 .. i
      BY <1>3, <2>1
    <3>2. CASE b \in 1 .. i
      BY <1>2, <1>4, <1>6, <2>1, <3>1, <3>2 DEF Grows
    <3>3. CASE b = k
      BY <1>2, <1>4, <1>6, <3>1, <3>3 DEF Grows
    <3>4. QED
      BY <1>4, <3>2, <3>3
  <2>2. ASSUME NEW j \in 1 .. k, NEW p \in Page, Unnoted(s2, p)
        PROVE  /\ \/ OwnerAt(s2, o, j)[p] = OwnerAt(s2, o, 1)[p]
                  \/ OwnerAt(s2, o, 1)[p] = "live" /\ OwnerAt(s2, o, j)[p] = "free"
               /\ p <= HeaderAt(s2, j).total => p <= HeaderAt(s2, 1).total
    <3>1. PICK q \in Points(s) : HeaderAt(s2, j) = HeaderAt(s, q) /\ OwnerAt(s2, o, j) = OwnerAt(s, o, q)
      BY <1>4, <1>6
    <3>2. HeaderAt(s2, 1) = HeaderAt(s, 1) /\ OwnerAt(s2, o, 1) = OwnerAt(s, o, 1)
      BY <1>4, <1>6
    <3>3. QED
      BY <1>2, <1>9, <2>2, <3>1, <3>2 DEF Grows
  <2>3. QED
    BY <1>4, <2>1, <2>2 DEF Grows
<1>16. Notes(s2)
  <2>1. ASSUME NEW j \in 1 .. i, NEW p \in DOMAIN s2.levels[j].undo
        PROVE  /\ NotedAt(s2, 1, p) /\ p \in s2.levels[1].dirty
               /\ s2.levels[j].undo[p] = None => p > s2.levels[j].header.total
               /\ p \notin DOMAIN s2.cache => p > s2.header.total
    <3>1. p \in Page
      BY <1>3, <1>4, LevelTypes
    <3>2. CASE j # i
      <4>1. p \in DOMAIN s.levels[j].undo /\ s2.levels[j].undo = s.levels[j].undo
        BY <1>5, <3>2
      <4>2. QED
        BY <1>2, <1>4, <1>5, <1>8, <4>1 DEF Notes
    <3>3. CASE j = i
      <4>1. PICK q \in i .. n : /\ IsFirst(s, i, q, p) /\ q \in Levels(s)
                                /\ s2.levels[i].undo[p] = s.levels[q].undo[p]
        BY <1>13, <2>1, <3>1, <3>3 DEF NotedAt
      <4>2. p \in DOMAIN s.levels[q].undo
        BY <4>1 DEF IsFirst, NotedAt
      <4>3. s2.levels[i].undo[p] = None => p > s.levels[q].header.total
        BY <1>2, <4>1, <4>2 DEF Notes
      <4>4. HeaderAt(s, i).total <= HeaderAt(s, q).total /\ HeaderAt(s, i).total \in Nat
            /\ HeaderAt(s, q).total \in Nat
        <5>1. q \in Points(s) /\ i \in Points(s) /\ (i < q \/ i = q)
          BY <1>3, <1>4, <4>1, LevelTypes
        <5>2. HeaderAt(s, i).total \in Nat /\ HeaderAt(s, q).total \in Nat
          BY <5>1, PointTypes
        <5>3. QED
          BY <1>2, <5>1, <5>2 DEF Grows
      <4>5. HeaderAt(s, q) = s.levels[q].header /\ HeaderAt(s, i) = s2.levels[i].header
        BY <1>4, <1>5, <4>1 DEF HeaderAt
      <4>6. p \in Nat
        BY <3>1, PageAssumption
      <4>7. s2.levels[i].undo[p] = None => p > s2.levels[i].header.total
        BY <4>3, <4>4, <4>5, <4>6
      <4>8. QED
        BY <1>2, <1>4, <1>5, <1>8, <3>3, <4>1, <4>2, <4>7 DEF Notes
    <3>4. QED
      BY <3>2, <3>3
  <2>2. QED
    BY <1>4, <2>1 DEF Notes
<1>17. Within(s2, u2)
  BY <1>2, <1>4, <1>5, <1>6, <1>11 DEF Within
<1>18. IF m THEN InCache(s2, d) ELSE Synced(s2, u2, d, o)
  <2>1. m => InCache(s2, d)
    BY <1>2, <1>4, <1>5, <1>6 DEF InCache
  <2>2. ~ m => Synced(s2, u2, d, o)
    BY <1>2, <1>4, <1>6, <1>11 DEF Synced
  <2>3. QED
    BY <2>1, <2>2
<1>19. \A j \in Levels(s2) : Restores(View(u2[j], d), w[j], s2.levels[j].header, s2.levels[j].owner)
  BY <1>2, <1>4, <1>5, <1>11
<1>20. QED
  BY <1>5, <1>14, <1>15, <1>16, <1>17, <1>18, <1>19 DEF Past, Restorable, Look

-----------------------------------------------------------------------------
(* Steps of what is below.                                                 *)

\* A database in memory has all that its log gives up.
LEMMA AbsorbKeeps ==
  ASSUME NEW w, NEW s \in Memory, NEW d \in Pages, NEW o \in [Page -> Owner],
         Restorable(s, d, o, TRUE, w)
  PROVE  /\ Restorable(s, <<>>, o, TRUE, w) /\ Look(s, <<>>) = Look(s, d)
         /\ DOMAIN d \subseteq DOMAIN s.cache
<1>1. PICK u : Past(s, d, o, TRUE, u, w)
  BY DEF Restorable
<1>2. /\ Undoing(u, s) /\ Grows(s, o) /\ Notes(s) /\ Within(s, u) /\ InCache(s, d)
      /\ \A j \in Levels(s) : Restores(View(u[j], d), w[j], s.levels[j].header, s.levels[j].owner)
  BY <1>1 DEF Past
<1>3. \A p : Below(<<>>, p) = None
  BY EmptyPages DEF Below
<1>4. u \in [Points(s) -> [Page -> Maybe]]
  BY <1>2 DEF Undoing
<1>5. ASSUME NEW k \in Points(s), NEW p \in DOMAIN d PROVE u[k][p] # None
  <2>1. p \in Page /\ p \in DOMAIN s.cache /\ p <= HeaderAt(s, 1).total
    BY <1>2, BelowTypes DEF InCache
  <2>2. p \in Nat /\ \A j \in Points(s) : HeaderAt(s, j).total \in Nat /\ j \in Nat \ {0}
    BY <2>1, LevelTypes, PointTypes, PageAssumption
  <2>3. InMemory(s, p) # None
    BY <2>1, MemoryTypes
  <2>4. ASSUME NEW j \in k .. Len(s.levels), IsFirst(s, k, j, p) PROVE s.levels[j].undo[p] # None
    <3>1. j \in Levels(s) /\ j \in Points(s) /\ 1 \in Points(s) /\ (1 < j \/ 1 = j)
      BY <2>2, LevelTypes DEF Levels, Points
    <3>2. HeaderAt(s, 1).total <= HeaderAt(s, j).total
      BY <1>2, <2>2, <3>1 DEF Grows
    <3>3. s.levels[j].undo[p] = None => p > HeaderAt(s, j).total
      BY <1>2, <2>4, <3>1 DEF Notes, IsFirst, NotedAt, HeaderAt
    <3>4. QED
      BY <2>1, <2>2, <3>1, <3>2, <3>3
  <2>5. QED
    BY <1>2, <2>1, <2>3, <2>4, FirstNoted
<1>6. \A k \in Points(s) : View(u[k], <<>>) = View(u[k], d)
  <2>1. \A k \in Points(s), p \in Page : u[k][p] = None => Below(d, p) = None
    BY <1>5 DEF Below
  <2>2. QED
    BY <1>3, <2>1 DEF View
<1>7. Look(s, <<>>) = Look(s, d)
  <2>1. \A p \in Page : InMemory(s, p) = None => Below(d, p) = None
    BY <1>2, MemoryTypes, BelowTypes DEF InCache
  <2>2. QED
    BY <1>3, <2>1 DEF Look
<1>8. InCache(s, <<>>)
  BY EmptyPages DEF InCache
<1>9. \A k \in Levels(s) : Restores(View(u[k], <<>>), w[k], s.levels[k].header, s.levels[k].owner)
  BY <1>2, <1>6, LevelTypes
<1>10. QED
  BY <1>2, <1>7, <1>8, <1>9 DEF Past, Restorable, InCache

\* Outside a transaction, what is below is the database.
LEMMA BelowFollows ==
  ASSUME NEW s \in Memory, NEW d \in Pages, NEW o \in [Page -> Owner],
         Alone(s, d, o, FALSE), Sound(Look(s, d), s.header, o)
  PROVE  Sound([p \in Page |-> Below(d, p)], s.header, o)
<1>1. \A p \in Page : o[p] # "new" => Below(d, p) = Look(s, d)[p]
  <2>1. \A p \in Page : Look(s, d)[p] = IF InMemory(s, p) # None THEN InMemory(s, p) ELSE Below(d, p)
    BY LookTypes
  <2>2. \A p \in Page : InMemory(s, p) # None => p \in DOMAIN s.cache /\ InMemory(s, p) = s.cache[p]
    BY MemoryTypes DEF InMemory
  <2>3. QED
    BY <2>1, <2>2 DEF Alone, Below
<1>2. SameBut({}, Look(s, d), [p \in Page |-> Below(d, p)], s.header, o)
  BY <1>1 DEF SameBut
<1>3. QED
  BY <1>2, SoundAgree

-----------------------------------------------------------------------------
(* The invariant.                                                          *)

\* A database in memory has room in its cache for every page.
Roomy == \A opt \in Options : opt.inMemory => Cardinality(Page) <= opt.capacity

Tracked(s) ==
  s.lru \in Seq(DOMAIN s.cache) /\ \A i, j \in DOMAIN s.lru : i # j => s.lru[i] # s.lru[j]

State(s) == s \in Memory /\ Tracked(s)

ContentOf(d) == [p \in Page |-> Below(d, p)]

Steady(s, d, o, m, w) == Restorable(s, d, o, m, w) /\ Sound(Look(s, d), s.header, o)

Types ==
  /\ State(Now) /\ durable \in Pages /\ owner \in [Page -> Owner]
  /\ durableHeader \in Header /\ options \in Options /\ doubt \in Doubt \cup {None}
  /\ ioFailed \in BOOLEAN /\ work \in 0 .. MaxWork

Flags == (ioFailed <=> doubt # None) /\ (options.inMemory => ~ ioFailed)

\* Below is the database as the transaction found it.
OnBase(s, d, h, o, m) == ~ m => Sound(ContentOf(d), h, OwnerAt(s, o, 1))

InDoubt(x) == x # None => Sound(ContentOf(x.durable), x.header, x.owner)

\* w[k] is what a caller saw when level k was opened.
IAt(w) ==
  /\ Types /\ Flags
  /\ Len(levels) # 0 \/ ~ ioFailed => Steady(Now, durable, owner, options.inMemory, w)
  /\ OnBase(Now, durable, durableHeader, owner, options.inMemory)
  /\ InDoubt(doubt)

IInv == \E w : IAt(w)

\* What a caller sees, and who has which page.
Seen == [content |-> Look(Now, durable), owner |-> owner]

\* The step leaves what x was.
BackTo(x) == Restores(Look(Now', durable'), x, header', owner')

-----------------------------------------------------------------------------
(* The operations of the cache.                                            *)

\* A page that is not in the list of uses can be put at its end.
LEMMA TrackedAppend ==
  ASSUME NEW D, NEW p \in D, NEW s \in Seq(D \ {p}),
         \A i, j \in DOMAIN s : i # j => s[i] # s[j]
  PROVE  /\ Append(s, p) \in Seq(D)
         /\ \A i, j \in DOMAIN Append(s, p) : i # j => Append(s, p)[i] # Append(s, p)[j]
<1> DEFINE t == Append(s, p)
           n == Len(s)
<1>1. s \in Seq(D) /\ n \in Nat /\ DOMAIN s = 1 .. n /\ \A i \in 1 .. n : s[i] \in D /\ s[i] # p
  <2>1. n \in Nat /\ DOMAIN s = 1 .. n /\ \A i \in 1 .. n : s[i] \in D \ {p}
    OBVIOUS
  <2>2. s \in Seq(D)
    BY <2>1
  <2>3. QED
    BY <2>1, <2>2
<1>2. t \in Seq(D) /\ DOMAIN t = 1 .. n + 1 /\ t[n + 1] = p /\ \A i \in 1 .. n : t[i] = s[i]
  BY <1>1
<1>3. \A i \in 1 .. n + 1 : i \in 1 .. n \/ i = n + 1
  BY <1>1
<1> HIDE DEF t, n
<1>4. \A i, j \in 1 .. n + 1 : i # j => t[i] # t[j]
  BY <1>1, <1>2, <1>3
<1>5. QED
  BY <1>2, <1>4 DEF t

\* A step that leaves x in memory makes x the present.
LEMMA NowRecord ==
  ASSUME NEW x \in Memory
  PROVE  /\ x = [cache |-> x.cache, lru |-> x.lru, header |-> x.header, levels |-> x.levels]
         /\ (Become(x) => Now' = x /\ options' = options)
  <1>1. x = [cache |-> x.cache, lru |-> x.lru, header |-> x.header, levels |-> x.levels]
    BY DEF Memory
  <1>2. QED
    BY <1>1 DEF Become, Now

\* Each field of the memory can be replaced by one of its type.
LEMMA MemoryFields ==
  ASSUME NEW s \in Memory
  PROVE  /\ \A c \in Pages : [s EXCEPT !.cache = c] \in Memory
         /\ \A l \in Seq(Page) : [s EXCEPT !.lru = l] \in Memory
         /\ \A h \in Header : [s EXCEPT !.header = h] \in Memory
         /\ \A l \in Seq(LevelRec) : [s EXCEPT !.levels = l] \in Memory
         /\ s.cache \in Pages /\ s.lru \in Seq(Page) /\ s.header \in Header
         /\ s.levels \in Seq(LevelRec)
BY DEF Memory

\* touch_lru changes the order of use only.
LEMMA TouchFields ==
  ASSUME NEW s, State(s), NEW p \in DOMAIN s.cache
  PROVE  /\ State(Touch(s, p)) /\ Touch(s, p).cache = s.cache
         /\ Touch(s, p).header = s.header /\ Touch(s, p).levels = s.levels
<1> DEFINE l == Only(s.lru, Page \ {p})
           D == DOMAIN s.cache
<1>1. s \in Memory /\ D \subseteq Page /\ s.lru \in Seq(D)
      /\ \A i, j \in DOMAIN s.lru : i # j => s.lru[i] # s.lru[j]
  BY MemoryTypes DEF State, Tracked
<1>2. /\ l \in Seq(D \cap (Page \ {p}))
      /\ \A i, j \in DOMAIN l : i # j => l[i] # l[j]
  <2> HIDE DEF D
  <2>1. QED
    BY <1>1, OnlyProperties
<1>3. D \cap (Page \ {p}) = D \ {p}
  BY <1>1
<1> HIDE DEF l
<1>4. /\ Append(l, p) \in Seq(D)
      /\ \A i, j \in DOMAIN Append(l, p) : i # j => Append(l, p)[i] # Append(l, p)[j]
  BY <1>2, <1>3, TrackedAppend
<1>5. Append(l, p) \in Seq(Page)
  <2> DEFINE a == Append(l, p)
  <2> HIDE DEF a
  <2>1. a \in Seq(D)
    BY <1>4 DEF a
  <2>2. a \in Seq(Page)
    <3>1. Len(a) \in Nat /\ DOMAIN a = 1 .. Len(a) /\ \A i \in 1 .. Len(a) : a[i] \in D
      BY <2>1
    <3>2. QED
      BY <1>1, <2>1, <3>1
  <2>3. QED
    BY <2>2 DEF a
<1>6. Touch(s, p) = [s EXCEPT !.lru = Append(l, p)]
  BY DEF Touch, l
<1>7. Touch(s, p) \in Memory
  BY <1>1, <1>5, <1>6, MemoryFields
<1>8. /\ Touch(s, p).lru = Append(l, p) /\ Touch(s, p).cache = s.cache
      /\ Touch(s, p).header = s.header /\ Touch(s, p).levels = s.levels
  BY <1>1, <1>6 DEF Memory
<1>9. QED
  BY <1>4, <1>7, <1>8 DEF State, Tracked

\* A page that is put in the cache is there, and nothing else changes.
LEMMA InsertFields ==
  ASSUME NEW s, State(s), NEW p \in Page, NEW v \in Content
  PROVE  /\ State(Insert(s, p, v)) /\ Insert(s, p, v).cache = With(s.cache, p, v)
         /\ Insert(s, p, v).header = s.header /\ Insert(s, p, v).levels = s.levels
         /\ p \in DOMAIN Insert(s, p, v).cache
<1>1. s \in Memory /\ s.cache \in Pages /\ s.lru \in Seq(DOMAIN s.cache)
      /\ \A i, j \in DOMAIN s.lru : i # j => s.lru[i] # s.lru[j]
  BY MemoryTypes DEF State, Tracked
<1>2. With(s.cache, p, v) \in Pages /\ DOMAIN With(s.cache, p, v) = DOMAIN s.cache \cup {p}
  BY <1>1, WithType, ZenonT(60)
<1>3. s.lru \in Seq(DOMAIN s.cache \cup {p})
  <2> DEFINE a == s.lru
             D == DOMAIN s.cache
  <2>1. a \in Seq(D)
    BY <1>1
  <2> HIDE DEF a, D
  <2>2. Len(a) \in Nat /\ DOMAIN a = 1 .. Len(a) /\ \A i \in 1 .. Len(a) : a[i] \in D
    BY <2>1
  <2>3. a \in Seq(D \cup {p})
    BY <2>1, <2>2
  <2>4. QED
    BY <2>3 DEF a, D
<1>4. Insert(s, p, v) = [s EXCEPT !.cache = With(s.cache, p, v)]
  BY DEF Insert
<1>5. Insert(s, p, v) \in Memory
  BY <1>1, <1>2, <1>4, MemoryFields
<1>6. /\ Insert(s, p, v).cache = With(s.cache, p, v) /\ Insert(s, p, v).lru = s.lru
      /\ Insert(s, p, v).header = s.header /\ Insert(s, p, v).levels = s.levels
  BY <1>1, <1>4 DEF Memory
<1>7. QED
  BY <1>1, <1>2, <1>3, <1>5, <1>6 DEF State, Tracked

\* Only pages that can be read again are evicted, and page 1 never is.
LEMMA VictimProperties ==
  ASSUME NEW s, State(s), Roomy, options \in Options, NEW p \in Victims(s)
  PROVE  /\ p \in DOMAIN s.cache /\ p # 1 /\ Unnoted(s, p) /\ ~ options.inMemory
         /\ Len(s.levels) # 0 => p \notin s.levels[1].dirty
<1> DEFINE D == DOMAIN s.cache
           K == Page \ ({1} \cup Protected(s))
           order == Only(s.lru, K)
           excess == Cardinality(D) - options.capacity
<1>1. s \in Memory /\ D \subseteq Page /\ s.lru \in Seq(D)
  BY MemoryTypes DEF State, Tracked
<1>2. order \in Seq(D \cap K)
  <2> HIDE DEF D, K
  <2>1. QED
    BY <1>1, OnlyProperties DEF order
<1>3. PICK j \in 1 .. Len(order) : j <= excess /\ p = order[j]
  BY DEF Victims, order, excess, K, D
<1>4. order[j] \in D \cap K
  <2> HIDE DEF order, D, K
  <2>1. QED
    BY <1>2, <1>3
<1>5. p \in D /\ p # 1 /\ p \notin Protected(s)
  BY <1>3, <1>4
<1>6. Len(s.levels) # 0 => ~ NotedAt(s, 1, p) /\ p \notin s.levels[1].dirty
  BY <1>1, <1>5 DEF Protected, InTx, Memory, NotedAt
<1>7. ~ options.inMemory
  <2>1. SUFFICES ASSUME options.inMemory PROVE FALSE
    OBVIOUS
  <2>2. Cardinality(Page) <= options.capacity /\ options.capacity \in Nat
    BY <2>1, OptionsAssumption DEF Roomy
  <2>3. Cardinality(D) <= Cardinality(Page) /\ Cardinality(D) \in Nat /\ Cardinality(Page) \in Nat
    BY <1>1, PageAssumption, FS_Subset, FS_CardinalityType
  <2>4. j >= 1 /\ j \in Int
    <3> HIDE DEF order
    <3>1. QED
      BY <1>2, <1>3
  <2> HIDE DEF D
  <2>5. QED
    BY <1>3, <2>2, <2>3, <2>4 DEF excess
<1>8. QED
  BY <1>5, <1>6, <1>7 DEF Unnoted

\* Eviction takes the victims out of the cache and out of the list.
LEMMA EvictFields ==
  ASSUME NEW s, State(s)
  PROVE  /\ State(Evict(s)) /\ Evict(s).cache = Without(s.cache, Victims(s))
         /\ Evict(s).header = s.header /\ Evict(s).levels = s.levels
<1> DEFINE V == Victims(s)
           D == DOMAIN s.cache
           c == Without(s.cache, V)
           l == Only(s.lru, Page \ V)
<1>1. s \in Memory /\ D \subseteq Page /\ s.lru \in Seq(D) /\ s.cache \in Pages
      /\ \A i, j \in DOMAIN s.lru : i # j => s.lru[i] # s.lru[j]
  BY MemoryTypes DEF State, Tracked
<1>2. c \in Pages /\ DOMAIN c = D \ V
  <2>1. DOMAIN c = D \ V /\ c \in [D \ V -> Content]
    <3>1. s.cache \in [D -> Content]
      BY <1>1, PagesType
    <3>2. QED
      BY <3>1 DEF Without
  <2>2. QED
    BY <1>1, <2>1, PagesType
<1>3. /\ l \in Seq(D \cap (Page \ V))
      /\ \A i, j \in DOMAIN l : i # j => l[i] # l[j]
  <2> HIDE DEF V, D
  <2>1. QED
    BY <1>1, OnlyProperties DEF l
<1>4. D \cap (Page \ V) = D \ V
  BY <1>1
<1>5. l \in Seq(Page)
  <2> HIDE DEF l, V, D
  <2>1. Len(l) \in Nat /\ DOMAIN l = 1 .. Len(l) /\ \A i \in 1 .. Len(l) : l[i] \in Page
    BY <1>3
  <2>2. QED
    BY <1>3, <2>1
<1>6. Evict(s) = [s EXCEPT !.cache = c, !.lru = l]
  BY DEF Evict, c, l, V
<1> HIDE DEF c, l, V, D
<1>7. /\ Evict(s) \in Memory /\ Evict(s).cache = c /\ Evict(s).lru = l
      /\ Evict(s).header = s.header /\ Evict(s).levels = s.levels
  BY <1>1, <1>2, <1>5, <1>6 DEF Memory
<1>8. QED
  BY <1>2, <1>3, <1>4, <1>7 DEF State, Tracked, c, V

\* Eviction takes nothing from memory that is not below.
LEMMA EvictStep ==
  ASSUME NEW s, State(s), Roomy, options \in Options, NEW d
  PROVE  /\ CacheStep(s, Evict(s), d, options.inMemory)
         /\ \A p \in Page : InMemory(Evict(s), p) # InMemory(s, p) =>
              p \in Victims(s) /\ p \in DOMAIN s.cache /\ InMemory(Evict(s), p) = None
<1>1. State(Evict(s)) /\ Evict(s).cache = Without(s.cache, Victims(s))
      /\ Evict(s).header = s.header /\ Evict(s).levels = s.levels
  BY EvictFields
<1>2. \A p \in Page : InMemory(Evict(s), p) # InMemory(s, p) =>
         p \in Victims(s) /\ p \in DOMAIN s.cache /\ InMemory(Evict(s), p) = None
  BY <1>1 DEF Without, InMemory
<1>3. QED
  BY <1>1, <1>2, VictimProperties DEF CacheStep, State

-----------------------------------------------------------------------------
(* The operations on levels.                                               *)

\* A function on 1 .. n with values in S is a sequence of n of them.
LEMMA SeqMap ==
  ASSUME NEW S, NEW n \in Nat, NEW f, DOMAIN f = 1 .. n, f = [i \in 1 .. n |-> f[i]],
         \A i \in 1 .. n : f[i] \in S
  PROVE  f \in Seq(S) /\ Len(f) = n
<1>1. f \in [1 .. n -> S]
  OBVIOUS
<1>2. QED
  BY <1>1

\* The transaction and the innermost savepoint note the page, unless they have already.
LEMMA NoteFields ==
  ASSUME NEW s, State(s), NEW p \in Page, NEW b \in Maybe
  PROVE  /\ State(NoteUndo(s, p, b)) /\ NoteUndo(s, p, b).cache = s.cache
         /\ NoteUndo(s, p, b).header = s.header
         /\ Len(NoteUndo(s, p, b).levels) = Len(s.levels)
         /\ \A k \in Levels(s) :
              /\ NoteUndo(s, p, b).levels[k].header = s.levels[k].header
              /\ NoteUndo(s, p, b).levels[k].owner = s.levels[k].owner
              /\ NoteUndo(s, p, b).levels[k].dirty = s.levels[k].dirty
              /\ NoteUndo(s, p, b).levels[k].undo =
                   IF k \in {1, Len(s.levels)} /\ ~ NotedAt(s, k, p)
                     THEN With(s.levels[k].undo, p, b) ELSE s.levels[k].undo
<1> DEFINE n == Len(s.levels)
           f == [i \in DOMAIN s.levels |->
                  IF i \in {1, Len(s.levels)} /\ p \notin DOMAIN s.levels[i].undo
                    THEN [s.levels[i] EXCEPT !.undo = With(@, p, b)]
                    ELSE s.levels[i]]
<1>1. s \in Memory /\ s.lru \in Seq(DOMAIN s.cache)
      /\ \A i, j \in DOMAIN s.lru : i # j => s.lru[i] # s.lru[j]
  BY DEF State, Tracked
<1>2. n \in Nat /\ DOMAIN s.levels = 1 .. n /\ \A k \in 1 .. n : s.levels[k] \in LevelRec
  BY <1>1, LevelTypes DEF Levels
<1>3. DOMAIN f = 1 .. n /\ f = [i \in 1 .. n |-> f[i]]
  BY <1>2
<1>4. ASSUME NEW k \in 1 .. n
      PROVE  /\ f[k] \in LevelRec /\ f[k].header = s.levels[k].header
             /\ f[k].owner = s.levels[k].owner /\ f[k].dirty = s.levels[k].dirty
             /\ f[k].undo = IF k \in {1, n} /\ ~ NotedAt(s, k, p)
                              THEN With(s.levels[k].undo, p, b) ELSE s.levels[k].undo
  <2> DEFINE l == s.levels[k]
             w == With(l.undo, p, b)
  <2>1. l \in LevelRec /\ k \in DOMAIN s.levels
    BY <1>2
  <2>2. w \in Undo
    BY <2>1, WithType DEF LevelRec
  <2>3. CASE k \in {1, n} /\ ~ NotedAt(s, k, p)
    <3>1. f[k] = [l EXCEPT !.undo = w]
      BY <2>1, <2>3 DEF NotedAt
    <3> HIDE DEF f, l, w
    <3>2. /\ f[k] \in LevelRec /\ f[k].header = l.header /\ f[k].owner = l.owner
          /\ f[k].dirty = l.dirty /\ f[k].undo = w
      BY <2>1, <2>2, <3>1 DEF LevelRec
    <3>3. QED
      BY <2>3, <3>2 DEF l, w
  <2>4. CASE ~ (k \in {1, n} /\ ~ NotedAt(s, k, p))
    <3>1. f[k] = l
      BY <2>1, <2>4 DEF NotedAt
    <3>2. QED
      BY <2>1, <2>4, <3>1
  <2>5. QED
    BY <2>3, <2>4
<1>5. NoteUndo(s, p, b) = [s EXCEPT !.levels = f]
  BY DEF NoteUndo, f
<1> HIDE DEF f
<1>6. f \in Seq(LevelRec) /\ Len(f) = n
  BY <1>2, <1>3, <1>4, SeqMap
<1>7. /\ NoteUndo(s, p, b) \in Memory /\ NoteUndo(s, p, b).levels = f
      /\ NoteUndo(s, p, b).cache = s.cache /\ NoteUndo(s, p, b).lru = s.lru
      /\ NoteUndo(s, p, b).header = s.header
  BY <1>1, <1>5, <1>6 DEF Memory
<1>8. State(NoteUndo(s, p, b))
  BY <1>1, <1>7 DEF State, Tracked
<1>9. QED
  BY <1>4, <1>6, <1>7, <1>8 DEF Levels

\* Marking pages as dirty changes no other part of a level.
LEMMA DirtyFields ==
  ASSUME NEW s, State(s), NEW S \in SUBSET Page
  PROVE  /\ State(MarkDirty(s, S)) /\ MarkDirty(s, S).cache = s.cache
         /\ MarkDirty(s, S).header = s.header
         /\ Len(MarkDirty(s, S).levels) = Len(s.levels)
         /\ \A k \in Levels(s) :
              /\ MarkDirty(s, S).levels[k].header = s.levels[k].header
              /\ MarkDirty(s, S).levels[k].owner = s.levels[k].owner
              /\ MarkDirty(s, S).levels[k].undo = s.levels[k].undo
              /\ s.levels[k].dirty \subseteq MarkDirty(s, S).levels[k].dirty
              /\ k = 1 => S \subseteq MarkDirty(s, S).levels[k].dirty
<1> DEFINE n == Len(s.levels)
           f == [i \in DOMAIN s.levels |->
                  IF i \in {1, Len(s.levels)} THEN [s.levels[i] EXCEPT !.dirty = @ \cup S]
                                             ELSE s.levels[i]]
<1>1. s \in Memory /\ s.lru \in Seq(DOMAIN s.cache)
      /\ \A i, j \in DOMAIN s.lru : i # j => s.lru[i] # s.lru[j]
  BY DEF State, Tracked
<1>2. n \in Nat /\ DOMAIN s.levels = 1 .. n /\ \A k \in 1 .. n : s.levels[k] \in LevelRec
  BY <1>1, LevelTypes DEF Levels
<1>3. DOMAIN f = 1 .. n /\ f = [i \in 1 .. n |-> f[i]]
  BY <1>2
<1>4. ASSUME NEW k \in 1 .. n
      PROVE  /\ f[k] \in LevelRec /\ f[k].header = s.levels[k].header
             /\ f[k].owner = s.levels[k].owner /\ f[k].undo = s.levels[k].undo
             /\ s.levels[k].dirty \subseteq f[k].dirty
             /\ k = 1 => S \subseteq f[k].dirty
  <2> DEFINE l == s.levels[k]
             w == l.dirty \cup S
  <2>1. l \in LevelRec /\ k \in DOMAIN s.levels /\ l.dirty \subseteq Page
    BY <1>2 DEF LevelRec
  <2>2. w \subseteq Page
    BY <2>1
  <2>3. CASE k \in {1, n}
    <3>1. f[k] = [l EXCEPT !.dirty = w]
      BY <2>1, <2>3
    <3> HIDE DEF f, l
    <3>2. /\ f[k] \in LevelRec /\ f[k].header = l.header /\ f[k].owner = l.owner
          /\ f[k].dirty = w /\ f[k].undo = l.undo
      <4> HIDE DEF w
      <4>1. QED
        BY <2>1, <2>2, <3>1 DEF LevelRec
    <3>3. QED
      BY <2>3, <3>2 DEF l
  <2>4. CASE k \notin {1, n}
    <3>1. f[k] = l
      BY <2>1, <2>4
    <3>2. QED
      BY <2>1, <2>4, <3>1
  <2>5. QED
    BY <2>3, <2>4
<1>5. MarkDirty(s, S) = [s EXCEPT !.levels = f]
  BY DEF MarkDirty, f
<1> HIDE DEF f
<1>6. f \in Seq(LevelRec) /\ Len(f) = n
  BY <1>2, <1>3, <1>4, SeqMap
<1>7. /\ MarkDirty(s, S) \in Memory /\ MarkDirty(s, S).levels = f
      /\ MarkDirty(s, S).cache = s.cache /\ MarkDirty(s, S).lru = s.lru
      /\ MarkDirty(s, S).header = s.header
  BY <1>1, <1>5, <1>6 DEF Memory
<1>8. State(MarkDirty(s, S))
  BY <1>1, <1>7 DEF State, Tracked
<1>9. QED
  BY <1>4, <1>6, <1>7, <1>8 DEF Levels

-----------------------------------------------------------------------------
(* Reading.                                                                *)

\* read_page leaves header and levels alone, and a page in the cache where it is.
LEMMA FetchFields ==
  ASSUME NEW s, State(s), NEW p \in Page, durable \in Pages,
         p \in DOMAIN s.cache \cup DOMAIN durable
  PROVE  /\ State(Fetch(s, p)) /\ Fetch(s, p).header = s.header /\ Fetch(s, p).levels = s.levels
         /\ p \in DOMAIN s.cache => Fetch(s, p).cache = s.cache
<1>1. CASE p \in DOMAIN s.cache
  BY <1>1, TouchFields DEF Fetch
<1>2. CASE p \notin DOMAIN s.cache
  <2>1. durable[p] \in Content
    BY <1>2, PagesType
  <2> DEFINE x == Insert(s, p, durable[p])
             y == Touch(x, p)
  <2>2. State(x) /\ x.header = s.header /\ x.levels = s.levels /\ p \in DOMAIN x.cache
    BY <2>1, InsertFields
  <2> HIDE DEF x
  <2>3. State(y) /\ y.header = s.header /\ y.levels = s.levels
    BY <2>2, TouchFields
  <2>4. Fetch(s, p) = Evict(y)
    BY <1>2 DEF Fetch, x
  <2> HIDE DEF y
  <2>5. QED
    BY <1>2, <2>3, <2>4, EvictFields
<1>3. QED
  BY <1>1, <1>2

\* A page is read from below into memory.
LEMMA LoadStep ==
  ASSUME NEW w, NEW s, State(s), NEW d \in Pages, NEW o \in [Page -> Owner], NEW m \in BOOLEAN,
         Restorable(s, d, o, m, w), NEW p \in DOMAIN d, p <= s.header.total,
         InMemory(s, p) \in {None, d[p]}
  PROVE  CacheStep(s, Insert(s, p, d[p]), d, m)
<1>1. d[p] \in Content /\ p \in Page
  BY PagesType
<1> DEFINE x == Insert(s, p, d[p])
<1>2. State(x) /\ x.cache = With(s.cache, p, d[p]) /\ x.header = s.header /\ x.levels = s.levels
  BY <1>1, InsertFields
<1> HIDE DEF x
<1>3. ASSUME NEW q \in Page, InMemory(x, q) # InMemory(s, q)
      PROVE  q = p /\ InMemory(s, q) = None /\ InMemory(x, q) = Below(d, q) /\ q \notin DOMAIN s.cache
  <2>1. q = p /\ InMemory(x, q) = d[p]
    BY <1>2, <1>3 DEF With, InMemory
  <2>2. InMemory(s, q) = None
    BY <1>3, <2>1
  <2>3. s \in Memory
    BY DEF State
  <2>4. q \notin DOMAIN s.cache
    BY <2>2, <2>3, MemoryTypes
  <2>5. QED
    BY <2>1, <2>2, <2>4 DEF Below
<1>4. p \notin DOMAIN s.cache => Unnoted(s, p) /\ p # 1
  <2>1. PICK u : Past(s, d, o, m, u, w)
    BY DEF Restorable
  <2>2. Notes(s) /\ 1 \in DOMAIN s.cache
    BY <2>1 DEF Past, Within
  <2>3. s \in Memory /\ s.header.total \in Nat /\ p \in Nat
    <3>1. s \in Memory
      BY DEF State
    <3>2. QED
      BY <1>1, <3>1, LevelTypes, PageAssumption DEF Header
  <2>4. Len(s.levels) \in Nat
    BY <2>3, LevelTypes
  <2>5. QED
    BY <2>2, <2>3, <2>4 DEF Notes, Unnoted, NotedAt, Levels
<1>5. QED
  BY <1>2, <1>3, <1>4 DEF CacheStep, State, x

\* read_page changes nothing for a caller.
LEMMA FetchKeeps ==
  ASSUME NEW w, NEW s, State(s), durable \in Pages, NEW d \in Pages, NEW o \in [Page -> Owner],
         options \in Options, Roomy,
         Restorable(s, d, o, options.inMemory, w), NEW p \in Page, p <= s.header.total,
         p \in DOMAIN s.cache \cup DOMAIN durable, Below(d, p) = Below(durable, p)
  PROVE  /\ Restorable(Fetch(s, p), d, o, options.inMemory, w)
         /\ SameBut({}, Look(s, d), Look(Fetch(s, p), d), s.header, o)
         /\ InMemory(Fetch(s, p), p) \in {None, Look(s, d)[p]}
<1> DEFINE m == options.inMemory
<1>0. s \in Memory /\ d \in Pages /\ m \in BOOLEAN /\ Look(s, d)[p] = (IF InMemory(s, p) # None THEN InMemory(s, p) ELSE Below(d, p))
  BY OptionsAssumption, LookTypes DEF State
<1>1. CASE p \in DOMAIN s.cache
  <2>1. Fetch(s, p) = Touch(s, p)
    BY <1>1 DEF Fetch
  <2>2. State(Touch(s, p)) /\ Touch(s, p).cache = s.cache /\ Touch(s, p).header = s.header
        /\ Touch(s, p).levels = s.levels
    BY <1>1, TouchFields
  <2>3. CacheStep(s, Touch(s, p), d, m) /\ InMemory(Touch(s, p), p) = InMemory(s, p)
    BY <2>2 DEF CacheStep, State, InMemory
  <2>4. /\ Restorable(Touch(s, p), d, o, m, w)
        /\ SameBut({}, Look(s, d), Look(Touch(s, p), d), s.header, o)
    BY <1>0, <2>3, CacheKeeps
  <2>5. QED
    BY <1>0, <2>1, <2>3, <2>4
<1>2. CASE p \notin DOMAIN s.cache
  <2> DEFINE x == Insert(s, p, durable[p])
             y == Touch(x, p)
  <2>1. durable[p] \in Content /\ InMemory(s, p) = None /\ p \in DOMAIN d /\ d[p] = durable[p]
    <3>1. durable[p] \in Content /\ InMemory(s, p) = None /\ p \in DOMAIN durable
      BY <1>2, PagesType DEF InMemory
    <3>2. Below(d, p) = durable[p] /\ durable[p] # None
      BY <3>1, ContentType DEF Below
    <3>3. QED
      BY <3>1, <3>2 DEF Below
  <2>2. State(x) /\ x.header = s.header /\ x.levels = s.levels /\ p \in DOMAIN x.cache
        /\ x.cache = With(s.cache, p, durable[p])
    BY <2>1, InsertFields
  <2>3. CacheStep(s, x, d, m)
    BY <1>0, <2>1, LoadStep
  <2> HIDE DEF x
  <2>4. State(y) /\ y.cache = x.cache /\ y.header = x.header /\ y.levels = x.levels
    BY <2>2, TouchFields
  <2>5. Fetch(s, p) = Evict(y)
    BY <1>2 DEF Fetch, x
  <2> HIDE DEF y
  <2>6. CacheStep(s, y, d, m) /\ InMemory(y, p) = d[p]
    BY <2>1, <2>2, <2>3, <2>4 DEF CacheStep, State, InMemory, With
  <2>7. /\ Restorable(y, d, o, m, w) /\ SameBut({}, Look(s, d), Look(y, d), s.header, o)
    BY <1>0, <2>6, CacheKeeps
  <2>8. CacheStep(y, Evict(y), d, m) /\ (InMemory(Evict(y), p) # InMemory(y, p) => InMemory(Evict(y), p) = None)
    BY <2>4, EvictStep
  <2>9. y \in Memory /\ y.header = s.header
    BY <2>2, <2>4 DEF State
  <2>10. /\ Restorable(Evict(y), d, o, m, w) /\ SameBut({}, Look(y, d), Look(Evict(y), d), s.header, o)
    BY <1>0, <2>7, <2>8, <2>9, CacheKeeps
  <2>11. SameBut({}, Look(s, d), Look(Evict(y), d), s.header, o)
    BY <2>7, <2>10 DEF SameBut
  <2>12. InMemory(Evict(y), p) \in {None, Look(s, d)[p]}
    BY <1>0, <2>1, <2>6, <2>8 DEF Below
  <2>13. QED
    BY <2>5, <2>10, <2>11, <2>12
<1>3. QED
  BY <1>1, <1>2

\* What read_page returns is what a caller sees.
LEMMA LookupLook ==
  ASSUME NEW s \in Memory, durable \in Pages, NEW p \in Page
  PROVE  /\ Lookup(s, p) = Look(s, durable)[p]
         /\ p \in DOMAIN s.cache => Lookup(s, p) = s.cache[p] /\ InMemory(s, p) = s.cache[p]
         /\ p \in DOMAIN s.cache \cup DOMAIN durable => Lookup(s, p) \in Content
<1>1. InMemory(s, p) # None <=> p \in DOMAIN s.cache
  BY MemoryTypes
<1>2. Lookup(s, p) = IF InMemory(s, p) # None THEN InMemory(s, p) ELSE Below(durable, p)
  BY <1>1 DEF Lookup, Stable, InMemory, Below
<1>3. /\ p \in DOMAIN s.cache => s.cache[p] \in Content
      /\ p \in DOMAIN durable => durable[p] \in Content
  BY MemoryTypes, PagesType
<1>4. QED
  BY <1>2, <1>3, LookTypes DEF Lookup, Stable, InMemory

\* Reading a page again finds the same.
LEMMA FetchLookup ==
  ASSUME NEW s, State(s), durable \in Pages, options \in Options, Roomy, NEW p \in Page,
         p \in DOMAIN s.cache \cup DOMAIN durable
  PROVE  /\ Lookup(Fetch(s, p), p) = Lookup(s, p)
         /\ p \in DOMAIN Fetch(s, p).cache \cup DOMAIN durable
         /\ p \notin DOMAIN s.cache => InMemory(Fetch(s, p), p) \in {None, durable[p]}
<1>1. CASE p \in DOMAIN s.cache
  BY <1>1, FetchFields DEF Lookup
<1>2. CASE p \notin DOMAIN s.cache
  <2> DEFINE x == Insert(s, p, durable[p])
             y == Touch(x, p)
  <2>1. durable[p] \in Content
    BY <1>2, PagesType
  <2>2. State(x) /\ p \in DOMAIN x.cache /\ x.cache = With(s.cache, p, durable[p])
    BY <2>1, InsertFields
  <2> HIDE DEF x
  <2>3. State(y) /\ y.cache = x.cache
    BY <2>2, TouchFields
  <2>4. Fetch(s, p) = Evict(y)
    BY <1>2 DEF Fetch, x
  <2> HIDE DEF y
  <2>5. Evict(y).cache = Without(y.cache, Victims(y))
    BY <2>3, EvictFields
  <2>6. p \in DOMAIN Evict(y).cache => Evict(y).cache[p] = durable[p]
    BY <2>2, <2>3, <2>5 DEF With, Without
  <2>7. QED
    BY <1>2, <2>4, <2>6 DEF Lookup, Stable, InMemory
<1>3. QED
  BY <1>1, <1>2

-----------------------------------------------------------------------------
(* Writing in a transaction.                                               *)

\* The levels that marking pages leaves depend on the levels only.
LEMMA DirtyLevels ==
  ASSUME NEW s \in Memory, NEW s2 \in Memory, s2.levels = s.levels, NEW S
  PROVE  MarkDirty(s2, S).levels = MarkDirty(s, S).levels
<1>1. /\ MarkDirty(s, S).levels =
           [i \in DOMAIN s.levels |->
              IF i \in {1, Len(s.levels)} THEN [s.levels[i] EXCEPT !.dirty = @ \cup S]
                                          ELSE s.levels[i]]
      /\ MarkDirty(s2, S).levels =
           [i \in DOMAIN s2.levels |->
              IF i \in {1, Len(s2.levels)} THEN [s2.levels[i] EXCEPT !.dirty = @ \cup S]
                                           ELSE s2.levels[i]]
  BY DEF MarkDirty, Memory
<1>2. QED
  BY <1>1

\* Page p is noted with b, its content in x, and written.
Writes(x, s, p, b) ==
  /\ x \in Memory /\ x.levels = s.levels /\ InMemory(x, p) = b
  /\ With(x.cache, p, Empty) = With(s.cache, p, Empty)
  /\ \/ p \in DOMAIN x.cache /\ s.header.total = x.header.total
     \/ p = x.header.total + 1 /\ s.header.total = p

\* Noting, inserting and marking a page is a write of the transaction.
LEMMA NotedWrite ==
  ASSUME NEW s, State(s), Len(s.levels) # 0, NEW p \in Page, NEW v \in Content, NEW b \in Maybe,
         NEW S \in SUBSET Page, p \in S, NEW x, Writes(x, s, p, b),
         NEW r, r = MarkDirty(Insert(NoteUndo(s, p, b), p, v), S)
  PROVE  State(r) /\ r.header = s.header /\ Len(r.levels) = Len(s.levels) /\ TxWrite(x, r, p, v)
<1> DEFINE y == NoteUndo(s, p, b)
           z == Insert(y, p, v)
<1>1. /\ State(y) /\ y.cache = s.cache /\ y.header = s.header /\ Len(y.levels) = Len(s.levels)
      /\ \A k \in Levels(s) :
              /\ y.levels[k].header = s.levels[k].header
              /\ y.levels[k].owner = s.levels[k].owner
              /\ y.levels[k].dirty = s.levels[k].dirty
              /\ y.levels[k].undo =
                   IF k \in {1, Len(s.levels)} /\ ~ NotedAt(s, k, p)
                     THEN With(s.levels[k].undo, p, b) ELSE s.levels[k].undo
  BY NoteFields
<1> HIDE DEF y
<1>2. State(z) /\ z.cache = With(y.cache, p, v) /\ z.header = y.header /\ z.levels = y.levels
  BY <1>1, InsertFields
<1>3. r = MarkDirty(z, S)
  BY DEF y, z
<1> HIDE DEF z
<1>4. Levels(z) = Levels(s) /\ Levels(x) = Levels(s) /\ 1 \in Levels(s)
  <2>1. Len(s.levels) \in Nat
    BY LevelTypes DEF State
  <2>2. QED
    BY <1>1, <1>2, <2>1 DEF Levels, Writes
<1>5. /\ State(r) /\ r.cache = z.cache /\ r.header = z.header /\ Len(r.levels) = Len(z.levels)
      /\ \A k \in Levels(s) :
              /\ r.levels[k].header = z.levels[k].header
              /\ r.levels[k].owner = z.levels[k].owner
              /\ r.levels[k].undo = z.levels[k].undo
              /\ z.levels[k].dirty \subseteq r.levels[k].dirty
              /\ k = 1 => S \subseteq r.levels[k].dirty
  BY <1>2, <1>3, <1>4, DirtyFields
<1>6. With(x.cache, p, v) = With(s.cache, p, v)
  <2>1. /\ DOMAIN x.cache \cup {p} = DOMAIN s.cache \cup {p}
        /\ \A q \in DOMAIN x.cache \cup {p} : q # p => x.cache[q] = s.cache[q]
    <3>1. With(x.cache, p, Empty) = With(s.cache, p, Empty)
      BY DEF Writes
    <3>2. DOMAIN With(x.cache, p, Empty) = DOMAIN x.cache \cup {p}
          /\ DOMAIN With(s.cache, p, Empty) = DOMAIN s.cache \cup {p}
      BY DEF With
    <3>3. ASSUME NEW q \in DOMAIN x.cache \cup {p}, q # p
          PROVE  x.cache[q] = s.cache[q]
      <4>1. With(x.cache, p, Empty)[q] = x.cache[q]
        BY <3>3 DEF With
      <4>2. q \in DOMAIN s.cache \cup {p}
        BY <3>1, <3>2
      <4>3. With(s.cache, p, Empty)[q] = s.cache[q]
        BY <3>3, <4>2 DEF With
      <4>4. QED
        BY <3>1, <4>1, <4>3
    <3>4. QED
      BY <3>1, <3>2, <3>3
  <2>2. QED
    BY <2>1 DEF With
<1>7. Len(x.levels) = Len(s.levels)
  BY DEF Writes
<1>8. \A k \in Levels(x) :
        /\ r.levels[k].header = x.levels[k].header /\ r.levels[k].owner = x.levels[k].owner
        /\ r.levels[k].undo = IF k \in {1, Len(x.levels)} /\ ~ NotedAt(x, k, p)
                                THEN With(x.levels[k].undo, p, InMemory(x, p))
                                ELSE x.levels[k].undo
  BY <1>1, <1>2, <1>4, <1>5, <1>7 DEF Writes, NotedAt
<1>9. QED
  BY <1>1, <1>2, <1>4, <1>5, <1>6, <1>7, <1>8 DEF TxWrite, State, Writes

\* The second write of a page is the one that counts.
LEMMA WithTwice ==
  ASSUME NEW f, NEW p, NEW v, NEW w
  PROVE  With(With(f, p, v), p, w) = With(f, p, w)
BY DEF With

\* A page that is not in memory has to be read before it is written.
LEMMA ReadBeforeWrite ==
  ASSUME NEW w, NEW s \in Memory, NEW d, NEW o, NEW m, Restorable(s, d, o, m, w), Len(s.levels) # 0,
         NEW p \in Page, p <= s.header.total, p \notin DOMAIN s.cache
  PROVE  MustRead(s, p)
<1>1. PICK u : Grows(s, o) /\ Notes(s)
  BY DEF Restorable, Past
<1>2. Len(s.levels) \in Nat /\ s.header.total \in Nat /\ p \in Nat /\ 1 \in Levels(s)
      /\ Present(s) \in Points(s) /\ Present(s) \notin Levels(s)
  <2>1. Len(s.levels) \in Nat /\ s.header.total \in Nat
    BY LevelTypes DEF Header
  <2>2. QED
    BY <2>1, LevelTypes, PageAssumption DEF Levels
<1>3. ~ NotedAt(s, 1, p)
  BY <1>1, <1>2 DEF Notes, NotedAt
<1>4. p <= HeaderAt(s, 1).total
  <2>1. HeaderAt(s, Present(s)) = s.header
    BY <1>2 DEF HeaderAt
  <2>2. QED
    BY <1>1, <1>2, <1>3, <2>1 DEF Grows, Unnoted
<1>5. QED
  BY <1>2, <1>3, <1>4 DEF MustRead, NotedAt, HeaderAt

\* A page that is read is in memory for the code that reads it.
Loaded(s, p) == Insert(Fetch(s, p), p, Lookup(s, p))

\* A page that is read before it is written is noted with the content below.
LEMMA LoadedKeeps ==
  ASSUME NEW w, NEW s, State(s), durable \in Pages, NEW o \in [Page -> Owner],
         options \in Options, Roomy,
         Restorable(s, durable, o, options.inMemory, w), NEW p \in Page, p <= s.header.total,
         p \in DOMAIN s.cache \cup DOMAIN durable
  PROVE  /\ Restorable(Loaded(s, p), durable, o, options.inMemory, w)
         /\ SameBut({}, Look(s, durable), Look(Loaded(s, p), durable), s.header, o)
         /\ Writes(Loaded(s, p), Fetch(s, p), p, Lookup(s, p))
<1> DEFINE m == options.inMemory
           b == Lookup(s, p)
           l == Fetch(s, p)
           x == Insert(l, p, b)
<1>0. s \in Memory /\ m \in BOOLEAN
  BY OptionsAssumption DEF State
<1>1. b \in Content
  BY <1>0, LookupLook
<1>2. /\ State(l) /\ l.header = s.header /\ l.levels = s.levels
      /\ (p \in DOMAIN s.cache => l.cache = s.cache)
  BY FetchFields
<1>3. /\ Restorable(l, durable, o, m, w) /\ SameBut({}, Look(s, durable), Look(l, durable), s.header, o)
  BY FetchKeeps
<1>4. InMemory(l, p) \in {None, b} /\ (p \in DOMAIN s.cache => InMemory(l, p) = b)
  <2>1. CASE p \in DOMAIN s.cache
    <3>1. b = s.cache[p] /\ l.cache = s.cache
      BY <1>2, <2>1 DEF Lookup
    <3>2. QED
      BY <2>1, <3>1 DEF InMemory
  <2>2. CASE p \notin DOMAIN s.cache
    <3>1. b = durable[p] /\ InMemory(l, p) \in {None, durable[p]}
      BY <2>2, FetchLookup DEF Lookup, Stable
    <3>2. QED
      BY <2>2, <3>1
  <2>3. QED
    BY <2>1, <2>2
<1>5. p \notin DOMAIN s.cache => p \in DOMAIN durable /\ b = durable[p]
  BY DEF Lookup, Stable
<1>6. p <= l.header.total
  BY <1>2
<1>7. Loaded(s, p) = x
  BY DEF Loaded
<1> HIDE DEF l, b
<1>8. /\ State(x) /\ x.cache = With(l.cache, p, b) /\ x.header = s.header /\ x.levels = s.levels
      /\ p \in DOMAIN x.cache
  BY <1>1, <1>2, InsertFields
<1>9. CacheStep(l, x, durable, m)
  <2>1. CASE p \in DOMAIN s.cache
    <3>1. \A q \in Page : InMemory(x, q) = InMemory(l, q)
      BY <1>4, <1>8, <2>1 DEF InMemory, With
    <3>2. QED
      BY <1>2, <1>8, <3>1 DEF CacheStep, State
  <2>2. CASE p \notin DOMAIN s.cache
    BY <1>0, <1>2, <1>3, <1>4, <1>5, <1>6, <2>2, LoadStep
  <2>3. QED
    BY <2>1, <2>2
<1> HIDE DEF x
<1>10. Restorable(x, durable, o, m, w) /\ SameBut({}, Look(l, durable), Look(x, durable), l.header, o)
  <2>1. l \in Memory
    BY <1>2 DEF State
  <2>2. QED
    BY <1>0, <1>3, <1>9, <2>1, CacheKeeps
<1>11. SameBut({}, Look(s, durable), Look(x, durable), s.header, o)
  BY <1>2, <1>3, <1>10 DEF SameBut
<1>12. Writes(x, l, p, b)
  <2>1. InMemory(x, p) = b
    BY <1>8 DEF InMemory, With
  <2>2. With(x.cache, p, Empty) = With(l.cache, p, Empty)
    BY <1>8, WithTwice
  <2>3. QED
    BY <1>2, <1>8, <2>1, <2>2 DEF Writes, State
<1>13. QED
  BY <1>7, <1>10, <1>11, <1>12 DEF l, b

\* A page in the cache is noted with its content there.
LEMMA LoadedCached ==
  ASSUME NEW s, State(s), durable \in Pages, NEW p \in DOMAIN s.cache
  PROVE  Writes(s, s, p, Lookup(s, p)) /\ Lookup(s, p) \in Content
<1>1. s \in Memory /\ p \in Page
  BY MemoryTypes DEF State
<1>2. InMemory(s, p) = Lookup(s, p)
  BY DEF InMemory, Lookup
<1>3. QED
  BY <1>1, <1>2, LookupLook DEF Writes

\* r comes from s in one transaction.
Follows(r, s) ==
  /\ State(r) /\ r.header = s.header /\ Len(r.levels) = Len(s.levels)
  /\ r.levels[1].owner = s.levels[1].owner

Shows(s, d, p, v) == Look(s, d)[p] = v

\* write_page in a transaction changes the page, and nothing else for a caller.
TxPut(s, p, v, o, o2) ==
  /\ State(s) /\ Len(s.levels) # 0 /\ p \in Page /\ p <= s.header.total /\ v \in Content
  /\ o \in [Page -> Owner] /\ o2 \in [Page -> Owner] /\ \A q \in Page : q # p => o2[q] = o[q]
  /\ MustRead(s, p) => p \in DOMAIN durable

\* write_page in a transaction shows the new content and keeps what can be restored.
LEMMA PutInTxKeeps ==
  ASSUME NEW w, NEW s, NEW p, NEW v, NEW o, NEW o2, TxPut(s, p, v, o, o2),
         durable \in Pages, options \in Options, Roomy,
         Restorable(s, durable, o, options.inMemory, w)
  PROVE  /\ Follows(PutInTx(s, p, v), s)
         /\ Restorable(PutInTx(s, p, v), durable, o2, options.inMemory, w)
         /\ Shows(PutInTx(s, p, v), durable, p, v)
         /\ SameBut({p}, Look(s, durable), Look(PutInTx(s, p, v), durable), s.header, o2)
<1> DEFINE r == PutInTx(s, p, v)
           m == options.inMemory
           d == durable
           b == Lookup(s, p)
           l == IF p \in DOMAIN s.cache THEN s ELSE Fetch(s, p)
           x == IF p \in DOMAIN s.cache THEN s ELSE Loaded(s, p)
<1>0. /\ s \in Memory /\ d \in Pages /\ m \in BOOLEAN
      /\ State(s) /\ Len(s.levels) # 0 /\ p \in Page /\ p <= s.header.total /\ v \in Content
      /\ o \in [Page -> Owner] /\ o2 \in [Page -> Owner] /\ \A q \in Page : q # p => o2[q] = o[q]
      /\ MustRead(s, p) => p \in DOMAIN durable
  BY OptionsAssumption DEF State, TxPut
<1>1. p \notin DOMAIN s.cache => MustRead(s, p) /\ p \in DOMAIN d
  BY <1>0, ReadBeforeWrite
<1>2. p \in DOMAIN s.cache => ~ MustRead(s, p)
  BY DEF MustRead
<1>3. r = MarkDirty(Insert(NoteUndo(l, p, b), p, v), {p})
  <2>1. CASE p \in DOMAIN s.cache
    BY <1>2, <2>1 DEF PutInTx, Lookup
  <2>2. CASE p \notin DOMAIN s.cache
    BY <1>1, <2>2 DEF PutInTx, Lookup, Stable
  <2>3. QED
    BY <2>1, <2>2
<1> HIDE DEF r
<1>4. b \in Maybe
  BY <1>0, <1>1, LookupLook DEF Maybe
<1>5. /\ State(l) /\ l.header = s.header /\ l.levels = s.levels /\ Writes(x, l, p, b)
      /\ Restorable(x, d, o, m, w) /\ SameBut({}, Look(s, d), Look(x, d), s.header, o)
  <2>1. CASE p \in DOMAIN s.cache
    <3>1. l = s /\ x = s
      BY <2>1
    <3>2. QED
      BY <1>0, <2>1, <3>1, LoadedCached DEF SameBut
  <2>2. CASE p \notin DOMAIN s.cache
    <3>1. l = Fetch(s, p) /\ x = Loaded(s, p)
      BY <2>2
    <3>2. State(l) /\ l.header = s.header /\ l.levels = s.levels
      BY <1>0, <1>1, <2>2, <3>1, FetchFields
    <3>3. /\ Writes(x, l, p, b)
          /\ Restorable(x, d, o, m, w) /\ SameBut({}, Look(s, d), Look(x, d), s.header, o)
      BY <1>0, <1>1, <2>2, <3>1, LoadedKeeps
    <3>4. QED
      BY <3>2, <3>3
  <2>3. QED
    BY <2>1, <2>2
<1> HIDE DEF l, b, x
<1>6. State(r) /\ r.header = l.header /\ Len(r.levels) = Len(l.levels) /\ TxWrite(x, r, p, v)
  <2>1. Len(l.levels) # 0 /\ {p} \in SUBSET Page /\ p \in {p}
    BY <1>0, <1>5
  <2>2. QED
    BY <1>0, <1>3, <1>4, <1>5, <2>1, NotedWrite
<1>7. x \in Memory /\ x.levels = s.levels
  BY <1>5 DEF Writes
<1>8. /\ Restorable(r, d, o2, m, w) /\ Look(r, d)[p] = v
      /\ \A q \in Page : q # p => Look(r, d)[q] = Look(x, d)[q]
  <2>1. /\ d \in Pages /\ m \in BOOLEAN /\ o \in [Page -> Owner] /\ o2 \in [Page -> Owner]
        /\ p \in Page /\ v \in Content /\ \A q \in Page : q # p => o2[q] = o[q]
    BY <1>0
  <2>2. Restorable(x, d, o, m, w)
    BY <1>5
  <2> HIDE DEF d, m
  <2>3. QED
    <3>1. Writing(x, r, d, o, o2, m, p, v, w)
      BY <1>6, <1>7, <2>1, <2>2 DEF Writing
    <3>2. QED
      BY <3>1, TxWriteKeeps
<1>9. SameBut({p}, Look(s, d), Look(r, d), s.header, o2)
  <2> HIDE DEF d
  <2>1. ASSUME NEW q \in Page, q \notin {p}, q <= s.header.total, o2[q] # "new"
        PROVE  Look(r, d)[q] = Look(s, d)[q]
    <3>1. q # p /\ o[q] # "new"
      BY <1>0, <2>1
    <3>2. Look(x, d)[q] = Look(s, d)[q]
      BY <1>5, <2>1, <3>1 DEF SameBut
    <3>3. QED
      BY <1>8, <3>1, <3>2
  <2>2. QED
    BY <2>1 DEF SameBut
<1>10. r.levels[1].owner = s.levels[1].owner
  <2>1. 1 \in Levels(x)
    <3>1. Len(s.levels) \in Nat
      BY <1>0, LevelTypes
    <3>2. QED
      BY <1>0, <1>7, <3>1 DEF Levels
  <2>2. QED
    BY <1>6, <1>7, <2>1 DEF TxWrite
<1>11. QED
  BY <1>5, <1>6, <1>8, <1>9, <1>10 DEF Follows, Shows, r

\* The end of allocate_page in a transaction.
TxAllocate(x, s, p, b, o, o2) ==
  /\ State(s) /\ Len(s.levels) # 0 /\ p \in Page /\ b \in Maybe /\ Writes(x, s, p, b)
  /\ o \in [Page -> Owner] /\ o2 \in [Page -> Owner] /\ \A q \in Page : q # p => o2[q] = o[q]

\* So does allocate_page, which zeroes the page.
LEMMA AllocatedKeeps ==
  ASSUME NEW w, NEW x, NEW s, NEW p, NEW b, NEW o, NEW o2, TxAllocate(x, s, p, b, o, o2),
         durable \in Pages, options \in Options, Roomy,
         Restorable(x, durable, o, options.inMemory, w)
  PROVE  /\ Follows(Allocated(s, p, b), s)
         /\ Restorable(Allocated(s, p, b), durable, o2, options.inMemory, w)
         /\ SameBut({p}, Look(x, durable), Look(Allocated(s, p, b), durable), s.header, o2)
<1> DEFINE r == Allocated(s, p, b)
           m == options.inMemory
           d == durable
           S == {1, p}
           n == NoteUndo(s, p, b)
           y == Insert(n, p, Empty)
           t == Touch(y, p)
           e == Evict(t)
           z == MarkDirty(y, S)
<1>0. s \in Memory /\ d \in Pages /\ m \in BOOLEAN /\ Empty \in Content /\ S \in SUBSET Page /\ p \in S
      /\ x \in Memory /\ State(s) /\ Len(s.levels) # 0 /\ p \in Page /\ b \in Maybe
      /\ Writes(x, s, p, b) /\ o \in [Page -> Owner] /\ o2 \in [Page -> Owner]
      /\ \A q \in Page : q # p => o2[q] = o[q]
  BY OptionsAssumption, ContentType, PageAssumption DEF State, Writes, TxAllocate
<1>1. r = MarkDirty(e, S)
  <2>1. InTx(s)
    BY <1>0, LevelTypes DEF InTx
  <2>2. QED
    BY <2>1 DEF Allocated
<1> HIDE DEF r
<1>2. State(z) /\ z.header = s.header /\ Len(z.levels) = Len(s.levels) /\ TxWrite(x, z, p, Empty)
  BY <1>0, NotedWrite
<1>3. State(n)
  BY <1>0, NoteFields
<1>4. State(y) /\ p \in DOMAIN y.cache
  BY <1>0, <1>3, InsertFields
<1> HIDE DEF n, y
<1>5. State(t) /\ t.cache = y.cache /\ t.header = y.header /\ t.levels = y.levels
  BY <1>4, TouchFields
<1> HIDE DEF t
<1>6. /\ State(e) /\ e.header = t.header /\ e.levels = t.levels
      /\ \A q \in Page : InMemory(e, q) # InMemory(t, q) =>
           /\ InMemory(e, q) = None /\ Unnoted(t, q) /\ q # 1 /\ ~ m
  <2>1. State(e) /\ e.header = t.header /\ e.levels = t.levels
    BY <1>5, EvictFields
  <2>2. \A q \in Page : InMemory(e, q) # InMemory(t, q) => q \in Victims(t) /\ InMemory(e, q) = None
    BY <1>5, EvictStep
  <2>3. \A q \in Victims(t) : q # 1 /\ Unnoted(t, q) /\ ~ m
    BY <1>5, VictimProperties
  <2>4. QED
    BY <2>1, <2>2, <2>3
<1> HIDE DEF e
<1>7. /\ State(r) /\ r.cache = e.cache /\ r.header = e.header
  BY <1>0, <1>1, <1>6, DirtyFields
<1>8. r.levels = z.levels
  <2>1. e \in Memory /\ y \in Memory
    BY <1>4, <1>6 DEF State
  <2>2. QED
    BY <1>1, <1>5, <1>6, <2>1, DirtyLevels
<1>9. /\ z.cache = y.cache /\ z.header = y.header /\ Len(z.levels) = Len(y.levels)
      /\ \A k \in Levels(y) : z.levels[k].undo = y.levels[k].undo
  BY <1>0, <1>4, DirtyFields
<1> HIDE DEF z
<1>10. \A q \in Page : Unnoted(t, q) => Unnoted(z, q)
  <2>1. 1 \in Levels(y) \/ Len(y.levels) = 0
    <3>1. Len(y.levels) \in Nat
      BY <1>4, LevelTypes DEF State
    <3>2. QED
      BY <3>1 DEF Levels
  <2>2. QED
    BY <1>5, <1>9, <2>1 DEF Unnoted, NotedAt
<1>11. CacheStep(z, r, d, m)
  <2>1. r.header = z.header
    BY <1>5, <1>6, <1>7, <1>9
  <2>2. \A q \in Page : InMemory(r, q) = InMemory(e, q) /\ InMemory(z, q) = InMemory(t, q)
    BY <1>5, <1>7, <1>9 DEF InMemory
  <2>3. QED
    BY <1>6, <1>7, <1>8, <1>10, <2>1, <2>2 DEF CacheStep, State
<1>12. /\ Restorable(z, d, o2, m, w)
       /\ \A q \in Page : q # p => Look(z, d)[q] = Look(x, d)[q]
  <2>1. z \in Memory /\ TxWrite(x, z, p, Empty) /\ x \in Memory /\ Restorable(x, d, o, m, w)
    BY <1>0, <1>2 DEF State, Writes
  <2>2. /\ d \in Pages /\ m \in BOOLEAN /\ o \in [Page -> Owner] /\ o2 \in [Page -> Owner]
        /\ p \in Page /\ Empty \in Content /\ \A q \in Page : q # p => o2[q] = o[q]
    BY <1>0
  <2> HIDE DEF d, m
  <2>3. QED
    <3>1. Writing(x, z, d, o, o2, m, p, Empty, w)
      BY <2>1, <2>2 DEF Writing
    <3>2. QED
      BY <3>1, TxWriteKeeps
<1>13. Restorable(r, d, o2, m, w) /\ SameBut({}, Look(z, d), Look(r, d), z.header, o2)
  <2>1. z \in Memory
    BY <1>2 DEF State
  <2>2. d \in Pages /\ m \in BOOLEAN /\ Restorable(z, d, o2, m, w) /\ o2 \in [Page -> Owner]
    BY <1>0, <1>12
  <2> HIDE DEF d, m, S
  <2>3. QED
    BY <1>11, <2>1, <2>2, CacheKeeps
<1>14. SameBut({p}, Look(x, d), Look(r, d), s.header, o2)
  <2>1. z.header = s.header
    BY <1>2
  <2> HIDE DEF d
  <2>2. QED
    BY <1>12, <1>13, <2>1 DEF SameBut
<1>15. r.levels[1].owner = s.levels[1].owner
  <2>1. 1 \in Levels(x) /\ x.levels = s.levels
    <3>1. Len(s.levels) \in Nat
      BY <1>0, LevelTypes
    <3>2. QED
      BY <1>0, <3>1 DEF Levels, Writes
  <2>2. QED
    BY <1>2, <1>8, <2>1 DEF TxWrite
<1>16. QED
  BY <1>2, <1>7, <1>8, <1>13, <1>14, <1>15, <1>11 DEF CacheStep, Follows, r

-----------------------------------------------------------------------------
(* Writing outside a transaction.                                          *)

\* Outside a transaction, a page that is written in memory and below stays the same in both.
LEMMA AloneInsert ==
  ASSUME NEW s \in Memory, NEW s2 \in Memory, NEW d \in Pages, NEW d2 \in Pages,
         NEW o \in [Page -> Owner], NEW o2 \in [Page -> Owner], NEW m \in BOOLEAN,
         NEW p \in Page, NEW v \in Content,
         Alone(s, d, o, m), s2.cache = With(s.cache, p, v),
         s.header.total <= s2.header.total, p <= s2.header.total,
         d2 = With(d, p, v) \/ (d2 = d /\ o2[p] = "new"),
         \A q \in Page : q # p => o2[q] = o[q]
  PROVE  /\ Alone(s2, d2, o2, m) /\ Look(s2, d2)[p] = v
         /\ \A q \in Page : q # p => Look(s2, d2)[q] = Look(s, d)[q]
<1>1. /\ DOMAIN s.cache \subseteq Page /\ DOMAIN s2.cache = DOMAIN s.cache \cup {p}
      /\ s2.cache[p] = v /\ \A q \in DOMAIN s.cache : q # p => s2.cache[q] = s.cache[q]
  BY MemoryTypes DEF With
<1>2. /\ d2 = With(d, p, v) => p \in DOMAIN d2 /\ d2[p] = v
      /\ \A q : q # p => ((q \in DOMAIN d2) = (q \in DOMAIN d)) /\ (q \in DOMAIN d => d2[q] = d[q])
  BY DEF With
<1>3. s.header.total \in Nat /\ s2.header.total \in Nat /\ \A q \in Page : q \in Nat
  BY LevelTypes, PageAssumption DEF Header
<1>4. 1 \in DOMAIN s2.cache
  BY <1>1 DEF Alone
<1>5. \A q \in DOMAIN s2.cache : q <= s2.header.total
  BY <1>1, <1>3 DEF Alone
<1>6. ASSUME m PROVE Alone(s2, d2, o2, m)
  <2>1. DOMAIN d2 \subseteq DOMAIN s2.cache
    BY <1>1, <1>2, <1>6 DEF Alone
  <2>2. QED
    BY <1>4, <1>5, <1>6, <2>1 DEF Alone
<1>7. ASSUME ~ m PROVE Alone(s2, d2, o2, m)
  <2>1. ASSUME NEW q \in DOMAIN s2.cache, o2[q] # "new"
        PROVE  q \in DOMAIN d2 /\ d2[q] = s2.cache[q]
    <3>1. CASE q = p
      BY <1>1, <1>2, <2>1, <3>1
    <3>2. CASE q # p
      BY <1>1, <1>2, <1>7, <2>1, <3>2 DEF Alone
    <3>3. QED
      BY <3>1, <3>2
  <2>2. QED
    BY <1>4, <1>5, <1>7, <2>1 DEF Alone
<1>8. InMemory(s2, p) = v /\ v # None
  BY <1>1, ContentType DEF InMemory
<1>9. \A q \in Page : q # p => InMemory(s2, q) = InMemory(s, q) /\ Below(d2, q) = Below(d, q)
  BY <1>1, <1>2 DEF InMemory, Below
<1>10. Look(s2, d2)[p] = v /\ \A q \in Page : q # p => Look(s2, d2)[q] = Look(s, d)[q]
  BY <1>8, <1>9, LookTypes
<1>11. Alone(s2, d2, o2, m)
  BY <1>6, <1>7
<1>12. QED
  BY <1>10, <1>11

\* write_page outside a transaction changes the cache only.
LEMMA PutAloneFields ==
  ASSUME NEW s, State(s), NEW p \in Page, NEW v \in Content
  PROVE  /\ State(PutAlone(s, p, v)) /\ PutAlone(s, p, v).header = s.header
         /\ PutAlone(s, p, v).levels = s.levels
<1> DEFINE x == Insert(s, p, v)
           y == Touch(x, p)
<1>1. State(x) /\ x.header = s.header /\ x.levels = s.levels /\ p \in DOMAIN x.cache
  BY InsertFields
<1> HIDE DEF x
<1>2. State(y) /\ y.header = x.header /\ y.levels = x.levels
  BY <1>1, TouchFields
<1>3. PutAlone(s, p, v) = Evict(y)
  BY DEF PutAlone, y, x
<1> HIDE DEF y
<1>4. QED
  BY <1>1, <1>2, <1>3, EvictFields

IsNew(o, p) == o[p] = "new"

\* A page is written, below as well unless it has only been allocated.  x and s differ in
\* the header.
AloneWrite(x, s, d, d2, o, o2, p, v) ==
  /\ x \in Memory /\ State(s) /\ Len(s.levels) = 0
  /\ x.cache = s.cache /\ x.levels = s.levels /\ x.header.total <= s.header.total
  /\ d \in Pages /\ d2 \in Pages /\ o \in [Page -> Owner] /\ o2 \in [Page -> Owner]
  /\ p \in Page /\ p <= s.header.total /\ v \in Content
  /\ (d2 = With(d, p, v) /\ o2[p] # "new") \/ (d2 = d /\ o2[p] = "new")
  /\ \A q \in Page : q # p => o2[q] = o[q]

\* write_page outside a transaction shows the new content and keeps memory and what is below alike.
LEMMA PutAloneKeeps ==
  ASSUME NEW w, NEW s, NEW x, NEW d, NEW d2, NEW o, NEW o2, NEW p, NEW v,
         AloneWrite(x, s, d, d2, o, o2, p, v), options \in Options, Roomy,
         Restorable(x, d, o, options.inMemory, w)
  PROVE  /\ State(PutAlone(s, p, v)) /\ PutAlone(s, p, v).header = s.header
         /\ PutAlone(s, p, v).levels = s.levels
         /\ Restorable(PutAlone(s, p, v), d2, o2, options.inMemory, w)
         /\ SameBut({p}, Look(x, d), Look(PutAlone(s, p, v), d2), s.header, o2)
         /\ ~ IsNew(o2, p) => Shows(PutAlone(s, p, v), d2, p, v)
<1> DEFINE r == PutAlone(s, p, v)
<1> DEFINE m == options.inMemory
           y == Insert(s, p, v)
           z == Touch(y, p)
<1>0. /\ s \in Memory /\ m \in BOOLEAN /\ x \in Memory /\ State(s) /\ Len(s.levels) = 0
      /\ x.cache = s.cache /\ x.levels = s.levels /\ x.header.total <= s.header.total
      /\ d \in Pages /\ d2 \in Pages /\ o \in [Page -> Owner] /\ o2 \in [Page -> Owner]
      /\ p \in Page /\ p <= s.header.total /\ v \in Content
      /\ (d2 = With(d, p, v) /\ o2[p] # "new") \/ (d2 = d /\ o2[p] = "new")
      /\ \A q \in Page : q # p => o2[q] = o[q]
  BY OptionsAssumption DEF State, AloneWrite
<1>1. State(y) /\ y.header = s.header /\ y.levels = s.levels /\ p \in DOMAIN y.cache
      /\ y.cache = With(s.cache, p, v)
  BY <1>0, InsertFields
<1>2. r = Evict(z)
  BY DEF PutAlone
<1> HIDE DEF y, r
<1>3. State(z) /\ z.header = s.header /\ z.levels = s.levels /\ z.cache = y.cache
  BY <1>1, TouchFields
<1> HIDE DEF z
<1>4. State(r) /\ r.header = s.header /\ r.levels = s.levels
  BY <1>2, <1>3, EvictFields
<1>5. Alone(x, d, o, m)
  BY <1>0, PastAlone
<1>6. z \in Memory /\ Len(z.levels) = 0 /\ z.cache = With(x.cache, p, v)
      /\ x.header.total <= z.header.total /\ p <= z.header.total
  BY <1>0, <1>1, <1>3 DEF State
<1>7. /\ Alone(z, d2, o2, m) /\ Look(z, d2)[p] = v
      /\ \A q \in Page : q # p => Look(z, d2)[q] = Look(x, d)[q]
  <2> HIDE DEF m
  <2>1. d2 = With(d, p, v) \/ (d2 = d /\ o2[p] = "new")
    BY <1>0
  <2>2. QED
    BY <1>0, <1>5, <1>6, <2>1, AloneInsert
<1>8. Restorable(z, d2, o2, m, w)
  BY <1>0, <1>6, <1>7, PastAlone
<1>9. CacheStep(z, r, d2, m)
  BY <1>2, <1>3, EvictStep
<1>10. Restorable(r, d2, o2, m, w) /\ SameBut({}, Look(z, d2), Look(r, d2), z.header, o2)
  <2>1. z \in Memory /\ m \in BOOLEAN /\ d2 \in Pages /\ o2 \in [Page -> Owner]
    BY <1>0, <1>6
  <2> HIDE DEF m
  <2>2. QED
    BY <1>8, <1>9, <2>1, CacheKeeps
<1>11. z.header = s.header
  BY <1>3
<1> HIDE DEF m
<1>12. SameBut({p}, Look(x, d), Look(r, d2), s.header, o2)
  BY <1>7, <1>10, <1>11 DEF SameBut
<1>13. ~ IsNew(o2, p) => Shows(r, d2, p, v)
  BY <1>0, <1>7, <1>10, <1>11 DEF SameBut, IsNew, Shows
<1>14. QED
  BY <1>4, <1>10, <1>12, <1>13 DEF m, r

\* Page 1 goes below, for its header.
LEMMA FirstPageKeeps ==
  ASSUME NEW w, NEW s \in Memory, Len(s.levels) = 0, NEW d \in Pages, NEW o \in [Page -> Owner],
         NEW m \in BOOLEAN, Restorable(s, d, o, m, w)
  PROVE  /\ 1 \in DOMAIN s.cache /\ Lookup(s, 1) = s.cache[1] /\ s.cache[1] \in Content
         /\ With(d, 1, Lookup(s, 1)) \in Pages
         /\ Restorable(s, With(d, 1, Lookup(s, 1)), o, m, w)
         /\ Look(s, With(d, 1, Lookup(s, 1))) = Look(s, d)
<1> DEFINE v == s.cache[1]
           e == With(d, 1, v)
<1>1. Alone(s, d, o, m)
  BY PastAlone
<1>2. 1 \in DOMAIN s.cache /\ Lookup(s, 1) = v
  BY <1>1 DEF Alone, Lookup
<1>3. v \in Content
  BY <1>2, MemoryTypes, PagesType
<1>4. e \in Pages
  BY <1>3, PageAssumption, WithType
<1>5. Alone(s, e, o, m)
  BY <1>1, <1>2 DEF Alone, With
<1>6. \A q \in Page : Look(s, e)[q] = Look(s, d)[q]
  <2>1. \A q \in Page : InMemory(s, q) = None => q # 1
    BY <1>2, <1>3, ContentType DEF InMemory
  <2>2. \A q \in Page : q # 1 => Below(e, q) = Below(d, q)
    BY DEF Below, With
  <2>3. QED
    BY <1>4, <2>1, <2>2, LookTypes
<1>7. Look(s, e) = Look(s, d)
  BY <1>4, <1>6, LookTypes
<1>8. Restorable(s, e, o, m, w)
  BY <1>4, <1>5, PastAlone
<1>9. QED
  BY <1>2, <1>3, <1>4, <1>7, <1>8

-----------------------------------------------------------------------------
(* What a step has to keep, and what it does for a caller.                 *)

\* Of the pages in use, the step from c to c2 changes page p only.
OnlyPage(p, c, c2, o, o2) ==
  \A q \in Page : q # p =>
    /\ o2[q] = "live" <=> o[q] = "live"
    /\ o2[q] = "live" => c2[q] = c[q]

\* A step that changes p, and pages that are not in use.
LEMMA OnlyPageFrom ==
  ASSUME NEW S, NEW p, NEW c, NEW c2, NEW h, NEW o, NEW o2,
         SameBut(S, c, c2, h, o2), Sound(c2, h, o2),
         \A q \in Page : q # p => (o2[q] = "live" <=> o[q] = "live"),
         \A q \in S : q = p \/ o2[q] # "live"
  PROVE  OnlyPage(p, c, c2, o, o2)
<1>1. \A q \in Page : o2[q] = "live" => o2[q] # "new" /\ q <= h.total
  BY DEF Sound, Owned
<1>2. QED
  BY <1>1 DEF OnlyPage, SameBut

\* A page that is written in a transaction, allocated or freed is seen at once.
InTxEffect ==
  /\ Len(levels) # 0 /\ Len(levels') = Len(levels)
  /\ UNCHANGED <<options, durable, doubt>>
  /\ \E p \in Page : OnlyPage(p, Look(Now, durable), Look(Now', durable'), owner, owner')

\* Outside a transaction it is as well.
AutoOkEffect ==
  /\ Len(levels) = 0 /\ Len(levels') = 0 /\ ~ ioFailed
  /\ UNCHANGED <<options, ioFailed, doubt>>
  /\ \E p \in Page : OnlyPage(p, Look(Now, durable), Look(Now', durable'), owner, owner')

\* When that fails, memory has the page, and storage may have it after the next open.
AutoFailsEffect ==
  /\ Len(levels) = 0 /\ Len(levels') = 0 /\ ~ options.inMemory
  /\ UNCHANGED <<options, owner>>
  /\ \A p \in Live(owner) : Below(durable', p) = Below(durable, p)
  /\ \/ ioFailed /\ doubt' = doubt
     \/ /\ ~ ioFailed /\ doubt' # None
        /\ \E p \in Page : OnlyPage(p, Look(Now, durable), Look(Now', durable'), owner, owner)
        /\ \E p \in Page : OnlyPage(p, ContentOf(durable), ContentOf(doubt'.durable),
                                    owner, doubt'.owner)

Effect == InTxEffect \/ AutoOkEffect \/ AutoFailsEffect

\* Nothing changes for a caller.
SameSeen == \A p \in Live(owner) : Look(Now', durable')[p] = Look(Now, durable)[p]

\* Nor does what can be restored, or found after a crash.
Quiet ==
  /\ SameSeen /\ Len(levels') = Len(levels)
  /\ UNCHANGED <<options, ioFailed, doubt, owner>>
  /\ ~ options.inMemory => durable' = durable

\* A step inside a transaction keeps the invariant if the new memory is sound.
LEMMA InTxStepKeeps ==
  ASSUME NEW w, IAt(w), Len(levels) # 0, NEW s, State(s), Len(s.levels) = Len(levels),
         NEW o \in [Page -> Owner],
         Steady(s, durable, o, options.inMemory, w), s.levels[1].owner = levels[1].owner,
         InTxStep(s, o), work' \in 0 .. MaxWork,
         NEW p \in Page, OnlyPage(p, Look(Now, durable), Look(s, durable), owner, o)
  PROVE  IAt(w)' /\ Effect
<1>1. Now' = s /\ options' = options /\ levels' = s.levels /\ owner' = o
      /\ durable' = durable /\ durableHeader' = durableHeader /\ ioFailed' = ioFailed
      /\ doubt' = doubt
  BY NowRecord DEF InTxStep, Become, State, durableVars
<1>2. Types' /\ Flags'
  BY <1>1 DEF IAt, Types, Flags
<1>3. OnBase(Now, durable, durableHeader, owner, options.inMemory)'
  <2>1. 1 \in Levels(Now) /\ 1 \in Levels(s)
    <3>1. Len(Now.levels) \in Nat /\ Len(s.levels) \in Nat /\ Now.levels = levels
      BY LevelTypes DEF IAt, Types, State, Now
    <3>2. QED
      BY <3>1 DEF Levels
  <2>2. OwnerAt(s, o, 1) = OwnerAt(Now, owner, 1)
    BY <2>1 DEF OwnerAt, Now
  <2>3. QED
    BY <1>1, <2>2 DEF IAt, OnBase
<1>4. IAt(w)'
  BY <1>1, <1>2, <1>3 DEF IAt
<1>5. InTxEffect
  <2>1. OnlyPage(p, Look(Now, durable), Look(Now', durable'), owner, owner')
    BY <1>1
  <2>2. QED
    BY <1>1, <2>1 DEF InTxEffect
<1>6. QED
  BY <1>4, <1>5 DEF Effect

\* What the log of a database in memory gives up is in the cache already.
LEMMA AbsorbSame ==
  ASSUME NEW w, NEW s \in Memory, NEW d, d.durable \in Pages, NEW o \in [Page -> Owner],
         Steady(s, d.durable, o, TRUE, w)
  PROVE  /\ Absorb(s, d) = s /\ Steady(s, <<>>, o, TRUE, w)
         /\ Look(s, <<>>) = Look(s, d.durable)
<1>1. /\ Restorable(s, <<>>, o, TRUE, w) /\ Look(s, <<>>) = Look(s, d.durable)
      /\ DOMAIN d.durable \subseteq DOMAIN s.cache
  <2>1. PICK y \in Pages : y = d.durable
    OBVIOUS
  <2>2. Restorable(s, y, o, TRUE, w)
    BY <2>1 DEF Steady
  <2>3. /\ Restorable(s, <<>>, o, TRUE, w) /\ Look(s, <<>>) = Look(s, y)
        /\ DOMAIN y \subseteq DOMAIN s.cache
    BY <2>2, AbsorbKeeps
  <2>4. QED
    BY <2>1, <2>3
<1>2. [p \in DOMAIN s.cache \cup DOMAIN d.durable |->
          IF p \in DOMAIN s.cache THEN s.cache[p] ELSE d.durable[p]] = s.cache
  <2>1. s.cache \in [DOMAIN s.cache -> Content]
    BY PagesType, MemoryTypes
  <2>2. DOMAIN s.cache \cup DOMAIN d.durable = DOMAIN s.cache
    BY <1>1
  <2>3. QED
    BY <2>1, <2>2
<1>3. Absorb(s, d) = [s EXCEPT !.cache = s.cache]
  BY <1>2 DEF Absorb
<1>4. QED
  BY <1>1, <1>3 DEF Memory, Steady

\* So does a write outside a transaction that succeeds, if what it leaves below is sound as well.
LEMMA AutoOkKeeps ==
  ASSUME NEW w, IAt(w), Len(levels) = 0, NEW s, State(s), Len(s.levels) = 0,
         NEW o \in [Page -> Owner],
         NEW d, d = [durable |-> d.durable, header |-> d.header],
         d.durable \in Pages, d.header \in Header,
         Steady(s, d.durable, o, options.inMemory, w),
         ~ options.inMemory => Sound(ContentOf(d.durable), d.header, o),
         AutoOk(s, d, o), work' \in 0 .. MaxWork,
         NEW p \in Page, OnlyPage(p, Look(Now, durable), Look(s, d.durable), owner, o)
  PROVE  IAt(w)' /\ Effect
<1> DEFINE m == options.inMemory
<1>0. m \in BOOLEAN /\ s \in Memory
  BY OptionsAssumption DEF IAt, Types, State
<1>1. owner' = o /\ ~ ioFailed /\ ioFailed' = ioFailed /\ doubt' = doubt /\ Settle(s, d)
  BY DEF AutoOk
<1>2. PICK e \in Pages : /\ Now' = s /\ options' = options /\ levels' = s.levels
                         /\ durable' = e /\ durableHeader' = d.header
                         /\ Steady(s, e, o, m, w) /\ (e = d.durable \/ m)
                         /\ Look(s, e) = Look(s, d.durable)
  <2>1. CASE Become(s) /\ Persist(d)
    <3>1. Now' = s /\ options' = options /\ levels' = s.levels
      BY <1>0, <2>1, NowRecord DEF Become
    <3>2. QED
      BY <2>1, <3>1 DEF Persist
  <2>2. CASE m /\ Become(Absorb(s, d)) /\ Persist([d EXCEPT !.durable = <<>>])
    <3>1. m = TRUE
      BY <1>0, <2>2
    <3>2. Steady(s, d.durable, o, TRUE, w)
      BY <3>1
    <3>3. /\ Absorb(s, d) = s /\ Steady(s, <<>>, o, TRUE, w)
          /\ Look(s, <<>>) = Look(s, d.durable)
      BY <1>0, <3>2, AbsorbSame
    <3>4. Now' = s /\ options' = options /\ levels' = s.levels
      BY <1>0, <2>2, <3>3, NowRecord DEF Become
    <3>5. durable' = <<>> /\ durableHeader' = d.header
      BY <2>2 DEF Persist
    <3>6. QED
      BY <2>2, <3>1, <3>3, <3>4, <3>5, EmptyPages
  <2>3. QED
    BY <1>1, <2>1, <2>2 DEF Settle
<1>3. Types' /\ Flags'
  BY <1>1, <1>2 DEF IAt, Types, Flags
<1>4. OnBase(Now, durable, durableHeader, owner, options.inMemory)'
  <2>1. OwnerAt(s, o, 1) = o
    BY DEF OwnerAt, Levels
  <2>2. QED
    BY <1>1, <1>2, <2>1 DEF OnBase
<1>5. InDoubt(doubt)'
  BY <1>1 DEF IAt
<1>6. IAt(w)'
  BY <1>1, <1>2, <1>3, <1>4, <1>5 DEF IAt
<1>7. AutoOkEffect
  <2>1. OnlyPage(p, Look(Now, durable), Look(Now', durable'), owner, owner')
    BY <1>1, <1>2
  <2>2. Len(levels') = 0
    BY <1>2
  <2>3. QED
    BY <1>1, <1>2, <2>1, <2>2 DEF AutoOkEffect
<1>8. QED
  BY <1>6, <1>7 DEF Effect

\* And one that fails, if each of the databases that the next open may find is sound.
LEMMA AutoFailsKeeps ==
  ASSUME NEW w, IAt(w), Len(levels) = 0, NEW s, State(s), Len(s.levels) = 0,
         NEW o \in [Page -> Owner],
         NEW d, NEW e, d.durable \in Pages, d.header \in Header,
         ~ ioFailed => e.durable \in Pages /\ e.header \in Header,
         ~ options.inMemory => Sound(ContentOf(d.durable), d.header, owner),
         ~ options.inMemory /\ ~ ioFailed => Sound(ContentOf(e.durable), e.header, o),
         AutoFails(s, d, e, o), work' \in 0 .. MaxWork,
         \A q \in Live(owner) : Below(d.durable, q) = Below(durable, q),
         ~ ioFailed =>
           /\ \E p \in Page : OnlyPage(p, Look(Now, durable), Look(s, d.durable), owner, owner)
           /\ \E p \in Page : OnlyPage(p, ContentOf(durable), ContentOf(e.durable), owner, o)
  PROVE  IAt(w)' /\ Effect
<1>0. s \in Memory
  BY DEF State
<1>1. /\ ~ options.inMemory /\ durable' = d.durable /\ durableHeader' = d.header
      /\ ioFailed' = TRUE /\ owner' = owner
      /\ Now' = s /\ options' = options /\ levels' = s.levels
  BY <1>0, NowRecord DEF AutoFails, Persist, Become
<1> DEFINE f == [durable |-> e.durable, header |-> e.header, owner |-> o]
<1>2. ~ ioFailed => f \in Doubt
  BY DEF Doubt
<1>3. doubt' = IF ioFailed THEN doubt ELSE f
  BY DEF AutoFails
<1>4. f.durable = e.durable /\ f.header = e.header /\ f.owner = o
  OBVIOUS
<1> HIDE DEF f
<1>5. ~ ioFailed => f # None
  BY <1>2, NoneAssumption
<1>6. doubt' \in Doubt \cup {None} /\ doubt' # None /\ InDoubt(doubt')
  <2>1. CASE ioFailed
    BY <1>3, <2>1 DEF IAt, Flags, Types
  <2>2. CASE ~ ioFailed
    <3>1. Sound(ContentOf(f.durable), f.header, f.owner)
      BY <1>1, <1>4, <2>2
    <3>2. QED
      BY <1>2, <1>3, <1>5, <2>2, <3>1 DEF InDoubt
  <2>3. QED
    BY <2>1, <2>2
<1>7. Types' /\ Flags'
  BY <1>1, <1>6 DEF IAt, Types, Flags
<1>8. OnBase(Now, durable, durableHeader, owner, options.inMemory)'
  <2>1. OwnerAt(s, owner, 1) = owner
    BY DEF OwnerAt, Levels
  <2>2. QED
    BY <1>1, <2>1 DEF OnBase
<1>9. IAt(w)'
  BY <1>1, <1>6, <1>7, <1>8 DEF IAt
<1>10. AutoFailsEffect
  <2>1. Len(levels') = 0 /\ \A q \in Live(owner) : Below(durable', q) = Below(durable, q)
    BY <1>1
  <2>2. ASSUME ~ ioFailed
        PROVE  /\ doubt' # None /\ doubt'.durable = e.durable /\ doubt'.owner = o
               /\ Look(Now', durable') = Look(s, d.durable)
    BY <1>1, <1>3, <1>4, <1>6, <2>2
  <2>3. ioFailed => doubt' = doubt
    BY <1>3
  <2>4. CASE ioFailed
    BY <1>1, <2>1, <2>3, <2>4 DEF AutoFailsEffect
  <2>5. CASE ~ ioFailed
    <3>1. \E p \in Page : OnlyPage(p, Look(Now, durable), Look(Now', durable'), owner, owner)
      BY <2>2, <2>5
    <3>2. \E p \in Page : OnlyPage(p, ContentOf(durable), ContentOf(doubt'.durable),
                                   owner, doubt'.owner)
      BY <2>2, <2>5
    <3>3. QED
      BY <1>1, <2>1, <2>2, <2>5, <3>1, <3>2 DEF AutoFailsEffect
  <2>6. QED
    BY <2>4, <2>5
<1>11. QED
  BY <1>9, <1>10 DEF Effect

\* What the invariant says of the variables as they are.
LEMMA NowFacts ==
  ASSUME NEW w, IAt(w)
  PROVE  /\ State(Now) /\ Now \in Memory /\ durable \in Pages /\ owner \in [Page -> Owner]
         /\ options \in Options /\ options.inMemory \in BOOLEAN
         /\ Now.cache = cache /\ Now.lru = lru /\ Now.header = header /\ Now.levels = levels
         /\ Len(levels) \in Nat /\ (InTx(Now) <=> Len(levels) # 0)
         /\ header \in Header /\ durableHeader \in Header /\ work \in 0 .. MaxWork
         /\ Database(Look(Now, durable), header, owner)
<1>1. Now.cache = cache /\ Now.lru = lru /\ Now.header = header /\ Now.levels = levels
  BY DEF Now
<1>2. State(Now) /\ Now \in Memory /\ durable \in Pages /\ owner \in [Page -> Owner]
      /\ options \in Options /\ options.inMemory \in BOOLEAN /\ durableHeader \in Header
      /\ work \in 0 .. MaxWork
  BY OptionsAssumption DEF IAt, Types, State
<1>3. Len(levels) \in Nat /\ header \in Header /\ levels \in Seq(LevelRec)
  BY <1>1, <1>2, LevelTypes, MemoryFields
<1>4. InTx(Now) <=> Len(levels) # 0
  BY <1>1, <1>3 DEF InTx
<1>5. Database(Look(Now, durable), header, owner)
  BY <1>2, <1>3, LookTypes DEF Database
<1>6. QED
  BY <1>1, <1>2, <1>3, <1>4, <1>5

\* The bound on the work is kept, and what is written has a name of its own.
LEMMA WorkedType ==
  ASSUME Worked, work \in 0 .. MaxWork
  PROVE  work' \in 0 .. MaxWork /\ work + 1 \in 0 .. MaxWork /\ Holding(work + 1) \in Content
BY BoundAssumption, ContentType DEF Worked

\* A step that only moves pages in and out of the cache keeps the invariant.
LEMMA CacheStepKeeps ==
  ASSUME NEW w, IAt(w), Steady(Now, durable, owner, options.inMemory, w), NEW s, State(s),
         s.header = header, s.levels = levels,
         Restorable(s, durable, owner, options.inMemory, w),
         SameBut({}, Look(Now, durable), Look(s, durable), header, owner),
         Become(s), UNCHANGED <<durableVars, ioFailed, doubt, work, owner>>
  PROVE  IAt(w)' /\ Quiet
<1>1. Now' = s /\ options' = options /\ levels' = s.levels /\ owner' = owner /\ work' = work
      /\ durable' = durable /\ durableHeader' = durableHeader /\ ioFailed' = ioFailed
      /\ doubt' = doubt
  BY NowRecord DEF Become, State, durableVars
<1>2. Types' /\ Flags'
  BY <1>1 DEF IAt, Types, Flags
<1>3. OwnerAt(s, owner, 1) = OwnerAt(Now, owner, 1)
  BY NowFacts DEF OwnerAt, Levels
<1>4. OnBase(Now, durable, durableHeader, owner, options.inMemory)'
  BY <1>1, <1>3 DEF IAt, OnBase
<1>5. Sound(Look(s, durable), s.header, owner)
  <2>1. Sound(Look(Now, durable), header, owner)
    BY NowFacts DEF Steady
  <2> DEFINE c == Look(Now, durable)
             c2 == Look(s, durable)
  <2>2. Sound(c, header, owner) /\ SameBut({}, c, c2, header, owner)
    BY <2>1
  <2> HIDE DEF c, c2
  <2>3. Sound(c2, header, owner)
    BY <2>2, SoundAgree DEF SameBut
  <2>4. QED
    BY <2>3 DEF c2
<1>6. IAt(w)'
  BY <1>1, <1>2, <1>4, <1>5 DEF IAt, Steady
<1>7. SameSeen
  <2>1. ASSUME NEW q \in Live(owner) PROVE q \in Page /\ q <= header.total /\ owner[q] # "new"
    BY <2>1, NowFacts DEF Steady, Sound, Owned, Live
  <2>2. \A q \in Live(owner) : Look(s, durable)[q] = Look(Now, durable)[q]
    BY <2>1 DEF SameBut
  <2>3. QED
    BY <1>1, <2>2 DEF SameSeen
<1>8. Quiet
  BY <1>1, <1>7 DEF Quiet
<1>9. QED
  BY <1>6, <1>8

\* read_page and with_page keep the invariant.
LEMMA ReadKeeps ==
  ASSUME NEW w, IAt(w), Roomy, NEW p \in Page, Read(p)
  PROVE  IAt(w)' /\ Quiet
<1> DEFINE m == options.inMemory
           d == durable
           f == Fetch(Now, p)
           g == Insert(f, p, durable[p])
<1>1. ~ ioFailed /\ owner[p] = "live" /\ p \in DOMAIN Now.cache \cup DOMAIN d
      /\ UNCHANGED <<durableVars, ioFailed, doubt, work, owner>>
  BY DEF Read, Readable
<1>2. Steady(Now, d, owner, m, w)
  BY <1>1 DEF IAt
<1>3. p <= Now.header.total
  BY <1>1, <1>2 DEF Steady, Sound, Owned
<1>4. State(f) /\ f.header = header /\ f.levels = levels
  BY <1>1, NowFacts, FetchFields
<1>5. /\ Restorable(f, d, owner, m, w) /\ SameBut({}, Look(Now, d), Look(f, d), header, owner)
      /\ InMemory(f, p) \in {None, Look(Now, d)[p]}
  BY <1>1, <1>2, <1>3, NowFacts, FetchKeeps DEF Steady
<1>6. CASE Become(f)
  BY <1>1, <1>2, <1>4, <1>5, <1>6, CacheStepKeeps
<1>7. CASE p \notin DOMAIN cache /\ Become(g)
  <2>1. p \in DOMAIN d /\ durable[p] \in Content /\ Look(Now, d)[p] = d[p]
    <3>1. p \in DOMAIN d /\ p \notin DOMAIN Now.cache
      BY <1>1, <1>7, NowFacts
    <3>2. Look(Now, d)[p] = d[p]
      BY <3>1, NowFacts, LookTypes DEF InMemory, Below
    <3>3. QED
      BY <3>1, <3>2, NowFacts, PagesType
  <2>2. State(g) /\ g.header = header /\ g.levels = levels
    BY <1>4, <2>1, InsertFields
  <2>3. p <= f.header.total
    BY <1>3, <1>4, NowFacts
  <2>4. CacheStep(f, g, d, m)
    BY <1>4, <1>5, <2>1, <2>3, LoadStep, NowFacts
  <2> HIDE DEF g, f, d
  <2>5. f \in Memory
    BY <1>4 DEF State
  <2>6. Restorable(g, d, owner, m, w) /\ SameBut({}, Look(f, d), Look(g, d), header, owner)
    <3>1. durable \in Pages /\ owner \in [Page -> Owner] /\ options.inMemory \in BOOLEAN
      BY NowFacts
    <3> HIDE DEF m
    <3>2. m \in BOOLEAN /\ d \in Pages
      BY <3>1 DEF m, d
    <3>3. QED
      BY <1>4, <1>5, <2>4, <2>5, <3>1, <3>2, CacheKeeps
  <2>7. SameBut({}, Look(Now, d), Look(g, d), header, owner)
    BY <1>5, <2>6 DEF SameBut
  <2>8. QED
    BY <1>1, <1>2, <1>7, <2>2, <2>6, <2>7, CacheStepKeeps DEF d
<1>8. QED
  BY <1>6, <1>7 DEF Read

-----------------------------------------------------------------------------
(* What is below.                                                          *)

\* The content of what is below, page by page.
LEMMA ContentTypes ==
  ASSUME NEW d \in Pages
  PROVE  ContentOf(d) \in [Page -> Maybe] /\ \A p \in Page : ContentOf(d)[p] = Below(d, p)
BY BelowTypes DEF ContentOf

\* A page that is written below gets its content, the others keep theirs.
LEMMA ContentWith ==
  ASSUME NEW d \in Pages, NEW p \in Page, NEW v \in Content
  PROVE  /\ With(d, p, v) \in Pages /\ ContentOf(With(d, p, v))[p] = v
         /\ \A q \in Page : q # p => ContentOf(With(d, p, v))[q] = ContentOf(d)[q]
         /\ \A h, o : SameBut({p}, ContentOf(d), ContentOf(With(d, p, v)), h, o)
<1>1. With(d, p, v) \in Pages
  BY WithType
<1>2. Below(With(d, p, v), p) = v
  BY DEF Below, With
<1>3. \A q : q # p => Below(With(d, p, v), q) = Below(d, q)
  BY DEF Below, With
<1>4. /\ ContentOf(With(d, p, v))[p] = v
      /\ \A q \in Page : q # p => ContentOf(With(d, p, v))[q] = ContentOf(d)[q]
  BY <1>1, <1>2, <1>3, ContentTypes
<1>5. QED
  BY <1>1, <1>4 DEF SameBut

\* Outside a transaction what is below is a sound database.
LEMMA BelowSound ==
  ASSUME NEW w, NEW s \in Memory, Len(s.levels) = 0, NEW d \in Pages, NEW o \in [Page -> Owner],
         Steady(s, d, o, FALSE, w)
  PROVE  Sound(ContentOf(d), s.header, o)
<1>1. Alone(s, d, o, FALSE)
  BY PastAlone DEF Steady
<1>2. Sound([p \in Page |-> Below(d, p)], s.header, o)
  BY <1>1, BelowFollows DEF Steady
<1>3. QED
  BY <1>2 DEF ContentOf

\* That holds even after an I/O failure, when memory may be ahead of it.
LEMMA BaseSound ==
  ASSUME NEW w, IAt(w), Len(levels) = 0, ~ options.inMemory
  PROVE  /\ Sound(ContentOf(durable), durableHeader, owner)
         /\ Database(ContentOf(durable), durableHeader, owner)
<1>1. OwnerAt(Now, owner, 1) = owner
  BY NowFacts DEF OwnerAt, Levels
<1>2. QED
  BY <1>1, NowFacts, ContentTypes DEF IAt, OnBase, Database

\* A page that is stored is below, with the header when it is page 1.
LEMMA StoredFields ==
  ASSUME NEW d, NEW h, NEW p, NEW v
  PROVE  /\ Stored(d, h, p, v) = [durable |-> Stored(d, h, p, v).durable,
                                  header |-> Stored(d, h, p, v).header]
         /\ Stored(d, h, p, v).durable = With(d.durable, p, v)
         /\ Stored(d, h, p, v).header = IF p = 1 THEN h ELSE d.header
         /\ OnDisk = [durable |-> OnDisk.durable, header |-> OnDisk.header]
         /\ OnDisk.durable = durable /\ OnDisk.header = durableHeader
BY DEF Stored, OnDisk

-----------------------------------------------------------------------------
(* write_page.                                                             *)

\* A page in use gets some content.
LEMMA SoundWritten ==
  ASSUME NEW c, NEW c2, NEW h, NEW o, NEW o2, NEW p \in Page,
         Database(c, h, o), Database(c2, h, o2), Sound(c, h, o),
         o[p] # "free", o2 = [o EXCEPT ![p] = "live"], SameBut({p}, c, c2, h, o2), c2[p] # None
  PROVE  Sound(c2, h, o2)
<1>1. o2[p] = "live" /\ \A q \in Page \ {p} : o2[q] = o[q]
  BY DEF Database
<1>2. p <= h.total /\ h.total <= h.total
  BY DEF Sound, Owned, Database, Header
<1>3. QED
  BY <1>1, <1>2, SoundElsewhere

\* write_page in a transaction keeps the invariant.
LEMMA WriteInTxKeeps ==
  ASSUME NEW w, IAt(w), Roomy, NEW p \in Page, Write(p), InTx(Now)
  PROVE  IAt(w)' /\ Effect
<1> DEFINE m == options.inMemory
           d == durable
           v == Holding(work + 1)
           o == [owner EXCEPT ![p] = "live"]
           r == PutInTx(Now, p, v)
<1>1. /\ Worked /\ owner[p] # "free" /\ (MustRead(Now, p) => CanRead(p)) /\ InTxStep(r, o)
  BY DEF Write
<1>2. Len(levels) # 0 /\ Len(Now.levels) # 0
  BY NowFacts
<1>3. Steady(Now, d, owner, m, w)
  BY <1>2 DEF IAt
<1>4. p <= Now.header.total
  BY <1>1, <1>3 DEF Steady, Sound, Owned
<1>5. MustRead(Now, p) => p \in DOMAIN durable
  BY <1>1, NowFacts DEF MustRead, CanRead
<1>6. /\ o \in [Page -> Owner] /\ \A q \in Page : q # p => o[q] = owner[q]
      /\ v \in Content /\ work' \in 0 .. MaxWork
  BY <1>1, NowFacts, WorkedType DEF Owner
<1> HIDE DEF r, v, o
<1>7. /\ State(r) /\ r.header = Now.header /\ Len(r.levels) = Len(Now.levels)
      /\ r.levels[1].owner = Now.levels[1].owner
      /\ Restorable(r, d, o, m, w) /\ Look(r, d)[p] = v
      /\ SameBut({p}, Look(Now, d), Look(r, d), Now.header, o)
  <2>1. TxPut(Now, p, v, owner, o)
    BY <1>2, <1>4, <1>5, <1>6, NowFacts DEF TxPut
  <2>2. /\ Follows(r, Now) /\ Restorable(r, d, o, m, w) /\ Shows(r, d, p, v)
        /\ SameBut({p}, Look(Now, d), Look(r, d), Now.header, o)
    BY <1>3, <2>1, NowFacts, PutInTxKeeps DEF Steady, r
  <2>3. QED
    BY <2>2 DEF Follows, Shows
<1>8. Sound(Look(r, d), r.header, o)
  <2>1. Database(Look(r, d), header, o)
    BY <1>6, <1>7, NowFacts, LookTypes DEF Database, State
  <2> DEFINE c == Look(Now, d)
             c2 == Look(r, d)
  <2>2. Sound(c, header, owner) /\ Database(c, header, owner) /\ Database(c2, header, o)
        /\ SameBut({p}, c, c2, header, o) /\ c2[p] # None
    BY <1>3, <1>6, <1>7, <2>1, NowFacts, ContentType DEF Steady
  <2> HIDE DEF c, c2
  <2>3. Sound(c2, header, o)
    BY <1>1, <2>2, SoundWritten DEF o
  <2>4. QED
    BY <1>7, <2>3, NowFacts DEF c2
<1>9. OnlyPage(p, Look(Now, d), Look(r, d), owner, o)
  <2>1. SameBut({p}, Look(Now, d), Look(r, d), r.header, o)
    BY <1>7
  <2>2. QED
    BY <1>6, <1>8, <2>1, OnlyPageFrom
<1>10. QED
  <2>1. Steady(r, d, o, m, w) /\ Len(r.levels) = Len(levels) /\ r.levels[1].owner = levels[1].owner
    BY <1>7, <1>8, NowFacts DEF Steady
  <2>2. QED
    BY <1>1, <1>2, <1>6, <1>7, <1>9, <2>1, InTxStepKeeps

\* Writing one page below changes nothing else for a caller.
LEMMA LookElsewhere ==
  ASSUME NEW s \in Memory, NEW d \in Pages, NEW p \in Page, NEW v \in Content
  PROVE  \A q \in Page : q # p => Look(s, With(d, p, v))[q] = Look(s, d)[q]
<1>1. With(d, p, v) \in Pages
  BY WithType
<1>2. \A q \in Page : q # p => Below(With(d, p, v), q) = Below(d, q)
  BY DEF Below, With
<1>3. QED
  BY <1>1, <1>2, LookTypes

\* write_page outside a transaction keeps it, whether it succeeds or fails.
LEMMA WriteAloneKeeps ==
  ASSUME NEW w, IAt(w), Roomy, NEW p \in Page, Write(p), ~ InTx(Now)
  PROVE  IAt(w)' /\ Effect
<1> DEFINE m == options.inMemory
           v == Holding(work + 1)
           o == [owner EXCEPT ![p] = "live"]
           r == PutAlone(Now, p, v)
           s == Stored(OnDisk, header, p, v)
           d == With(durable, p, v)
<1>1. /\ Worked /\ owner[p] # "free"
      /\ AutoOk(r, s, o) \/ AutoFails(r, OnDisk, s, o)
  BY DEF Write
<1>2. Len(levels) = 0 /\ Len(Now.levels) = 0
  BY NowFacts
<1>3. /\ o \in [Page -> Owner] /\ \A q \in Page : q # p => o[q] = owner[q]
      /\ o[p] = "live" /\ v \in Content /\ work' \in 0 .. MaxWork
  BY <1>1, NowFacts, WorkedType DEF Owner
<1>4. d \in Pages
  BY <1>3, NowFacts, ContentWith
<1>5. /\ s = [durable |-> s.durable, header |-> s.header]
      /\ s.durable = d /\ s.header = IF p = 1 THEN header ELSE durableHeader
      /\ OnDisk.durable = durable /\ OnDisk.header = durableHeader
  BY StoredFields
<1>6. s.header \in Header
  BY <1>5, NowFacts
<1> HIDE DEF r, v, s, d
<1>7. State(r) /\ r.header = header /\ r.levels = levels
  BY <1>3, NowFacts, PutAloneFields DEF r
<1>8. ASSUME ~ ioFailed
      PROVE  Steady(r, d, o, m, w) /\ OnlyPage(p, Look(Now, durable), Look(r, d), owner, o)
  <2>1. Steady(Now, durable, owner, m, w)
    BY <1>8 DEF IAt
  <2>2. p <= Now.header.total /\ Now.header.total <= Now.header.total
    BY <1>1, <2>1, NowFacts DEF Steady, Sound, Owned, Header
  <2>3. /\ Restorable(r, d, o, m, w) /\ SameBut({p}, Look(Now, durable), Look(r, d), header, o)
        /\ Look(r, d)[p] = v
    <3>1. AloneWrite(Now, Now, durable, d, owner, o, p, v)
      BY <1>2, <1>3, <1>4, <2>2, NowFacts DEF AloneWrite, d
    <3>2. Restorable(Now, durable, owner, m, w) /\ options \in Options
      BY <2>1, NowFacts DEF Steady
    <3> HIDE DEF o
    <3>3. /\ Restorable(r, d, o, m, w) /\ Look(r, d)[p] = v
          /\ SameBut({p}, Look(Now, durable), Look(r, d), Now.header, o)
      <4>1. Restorable(r, d, o, m, w)
        BY <3>1, <3>2, PutAloneKeeps DEF r
      <4>2. Look(r, d)[p] = v
        <5>1. ~ IsNew(o, p)
          BY <1>3 DEF IsNew
        <5>2. Shows(r, d, p, v)
          BY <3>1, <3>2, <5>1, PutAloneKeeps DEF r
        <5>3. QED
          BY <5>2 DEF Shows
      <4>3. SameBut({p}, Look(Now, durable), Look(r, d), Now.header, o)
        BY <3>1, <3>2, PutAloneKeeps DEF r
      <4>4. QED
        BY <4>1, <4>2, <4>3
    <3>4. QED
      BY <1>3, <3>3, NowFacts
  <2>4. Database(Look(r, d), header, o)
    BY <1>3, <1>4, <1>7, NowFacts, LookTypes DEF Database, State
  <2> DEFINE c == Look(Now, durable)
             c2 == Look(r, d)
  <2>5. Sound(c, header, owner) /\ Database(c, header, owner) /\ Database(c2, header, o)
        /\ SameBut({p}, c, c2, header, o) /\ c2[p] # None
    BY <1>3, <2>1, <2>3, <2>4, NowFacts, ContentType DEF Steady
  <2> HIDE DEF c, c2
  <2>6. Sound(c2, header, o)
    BY <1>1, <2>5, SoundWritten
  <2>7. OnlyPage(p, c, c2, owner, o)
    <3> HIDE DEF o
    <3>1. \A q \in Page : q # p => (o[q] = "live" <=> owner[q] = "live")
      BY <1>3
    <3>2. QED
      BY <2>5, <2>6, <3>1, OnlyPageFrom
  <2>8. QED
    BY <1>7, <2>3, <2>6, <2>7 DEF Steady, c, c2
<1>9. ASSUME ~ m, ~ ioFailed PROVE Sound(ContentOf(d), s.header, o)
  <2>1. CASE p = 1
    <3>1. Steady(r, d, o, FALSE, w) /\ r \in Memory /\ Len(r.levels) = 0
      <4>1. m = FALSE
        BY <1>9, NowFacts
      <4>2. QED
        BY <1>2, <1>7, <1>8, <1>9, <4>1 DEF State
    <3>2. Sound(ContentOf(d), r.header, o)
      BY <1>3, <1>4, <3>1, BelowSound
    <3>3. QED
      BY <1>5, <1>7, <2>1, <3>2
  <2>2. CASE p # 1
    <3> DEFINE c == ContentOf(durable)
               c2 == ContentOf(d)
               h == durableHeader
    <3>1. Sound(c, h, owner) /\ Database(c, h, owner)
      BY <1>2, <1>9, BaseSound
    <3>2. SameBut({p}, c, c2, h, o) /\ c2[p] # None
      <4>1. c2[p] = v /\ \A q \in Page : q # p => c2[q] = c[q]
        <5>1. durable \in Pages /\ c2 = ContentOf(With(durable, p, v)) /\ v \in Content
          BY <1>3, NowFacts DEF d
        <5> HIDE DEF c2, o, m, h
        <5>2. QED
          BY <5>1, ContentWith, ZenonT(60)
      <4>2. v # None
        BY <1>3, ContentType
      <4> HIDE DEF c, c2
      <4>3. QED
        BY <4>1, <4>2 DEF SameBut
    <3>3. Database(c2, h, o)
      BY <1>3, <1>4, NowFacts, ContentTypes DEF Database
    <3> HIDE DEF c, c2
    <3>4. Sound(c2, h, o)
      BY <1>1, <3>1, <3>2, <3>3, SoundWritten
    <3>5. QED
      BY <1>5, <2>2, <3>4 DEF c2
  <2>3. QED
    BY <2>1, <2>2
<1>10. CASE AutoOk(r, s, o)
  <2>1. ~ ioFailed
    BY <1>10 DEF AutoOk
  <2>2. Steady(r, s.durable, o, m, w) /\ (~ m => Sound(ContentOf(s.durable), s.header, o))
    BY <1>5, <1>8, <1>9, <2>1
  <2>3. State(r) /\ Len(r.levels) = 0 /\ s.durable \in Pages
    BY <1>2, <1>4, <1>5, <1>7
  <2> HIDE DEF o
  <2>4. OnlyPage(p, Look(Now, durable), Look(r, s.durable), owner, o)
    BY <1>5, <1>8, <2>1
  <2>5. QED
    BY <1>2, <1>3, <1>5, <1>6, <1>10, <2>2, <2>3, <2>4, AutoOkKeeps
<1>11. CASE AutoFails(r, OnDisk, s, o)
  <2>1. /\ ~ m => Sound(ContentOf(OnDisk.durable), OnDisk.header, owner)
        /\ ~ m /\ ~ ioFailed => Sound(ContentOf(s.durable), s.header, o)
    BY <1>2, <1>5, <1>9, BaseSound
  <2>2. State(r) /\ Len(r.levels) = 0 /\ s.durable \in Pages
        /\ OnDisk.durable \in Pages /\ OnDisk.header \in Header
    BY <1>2, <1>4, <1>5, <1>7, NowFacts
  <2> HIDE DEF o
  <2>3. ASSUME ~ ioFailed
        PROVE  /\ OnlyPage(p, Look(Now, durable), Look(r, OnDisk.durable), owner, owner)
               /\ OnlyPage(p, ContentOf(durable), ContentOf(s.durable), owner, o)
    <3>1. \A q \in Page : q # p => /\ Look(r, With(durable, p, v))[q] = Look(r, durable)[q]
                                  /\ ContentOf(With(durable, p, v))[q] = ContentOf(durable)[q]
      <4>1. r \in Memory /\ durable \in Pages /\ v \in Content
        BY <1>3, <1>7, NowFacts DEF State
      <4>2. \A q \in Page : q # p => Look(r, With(durable, p, v))[q] = Look(r, durable)[q]
        BY <4>1, LookElsewhere
      <4>3. \A q \in Page : q # p => ContentOf(With(durable, p, v))[q] = ContentOf(durable)[q]
        BY <4>1, ContentWith
      <4>4. QED
        BY <4>2, <4>3
    <3>2. \A q \in Page : q # p => /\ Look(r, s.durable)[q] = Look(r, OnDisk.durable)[q]
                                  /\ ContentOf(s.durable)[q] = ContentOf(durable)[q]
      BY <1>5, <3>1 DEF d
    <3>3. OnlyPage(p, Look(Now, durable), Look(r, s.durable), owner, o)
      BY <1>5, <1>8, <2>3
    <3>4. QED
      BY <1>3, <3>2, <3>3 DEF OnlyPage
  <2>4. \A q \in Live(owner) : Below(OnDisk.durable, q) = Below(durable, q)
    BY <1>5
  <2>5. QED
    BY <1>2, <1>3, <1>6, <1>11, <2>1, <2>2, <2>3, <2>4, AutoFailsKeeps
<1>12. QED
  BY <1>1, <1>10, <1>11

-----------------------------------------------------------------------------
(* allocate_page.                                                          *)

\* Whatever content page id gets, the database with it handed out is sound.
Allocable(c, h, o, id) ==
  \A c2 : Database(c2, h, o) /\ SameBut({id}, c, c2, h, o) => Sound(c2, h, o)

\* Of the pages in use, memory x over d shows what a caller sees now.
SeenLike(x, d) == \A q \in Live(owner) : Look(x, d)[q] = Look(Now, durable)[q]

\* A step from there that changes page p changes that page only.
LEMMA OnlyPageSeen ==
  ASSUME NEW x, NEW r, NEW d, NEW h, NEW p, NEW o,
         SeenLike(x, d), SameBut({p}, Look(x, d), Look(r, d), h, o), Sound(Look(r, d), h, o),
         \A q \in Page : q # p => o[q] = owner[q]
  PROVE  OnlyPage(p, Look(Now, durable), Look(r, d), owner, o)
<1>1. OnlyPage(p, Look(x, d), Look(r, d), owner, o)
  BY OnlyPageFrom
<1>2. QED
  BY <1>1 DEF OnlyPage, SeenLike, Live

\* So is one that changes pages that are not in use.
LEMMA SeenLikeFrom ==
  ASSUME NEW w, IAt(w), Steady(Now, durable, owner, options.inMemory, w),
         NEW x, NEW d, NEW S, SameBut(S, Look(Now, durable), Look(x, d), header, owner),
         \A q \in S : owner[q] # "live"
  PROVE  SeenLike(x, d)
<1>1. \A q \in Live(owner) : q \in Page /\ q \notin S /\ q <= header.total /\ owner[q] # "new"
  BY NowFacts DEF Steady, Sound, Owned, Live
<1>2. QED
  BY <1>1 DEF SameBut, SeenLike

AllocateInTx(x, s, id, b, w) ==
  /\ State(s) /\ Len(s.levels) = Len(levels) /\ s.levels[1].owner = levels[1].owner
  /\ id \in Page /\ b \in Maybe /\ Writes(x, s, id, b) /\ SeenLike(x, durable)
  /\ Restorable(x, durable, owner, options.inMemory, w)

\* The end of allocate_page in a transaction, for a page that may be handed out.
LEMMA AllocateInTxKeeps ==
  ASSUME NEW w, IAt(w), Roomy, Len(levels) # 0, NEW x, NEW s, NEW d, NEW id, NEW b,
         AllocateInTx(x, s, id, b, w),
         NEW o, o = HandedOut(owner, id), Allocable(Look(x, durable), s.header, o, id),
         Allocate(s, d, id, b), work' \in 0 .. MaxWork
  PROVE  IAt(w)' /\ Effect
<1> DEFINE r == Allocated(s, id, b)
           m == options.inMemory
<1>1. /\ State(s) /\ Len(s.levels) = Len(levels) /\ Len(s.levels) # 0
      /\ s.levels[1].owner = levels[1].owner
      /\ id \in Page /\ b \in Maybe /\ Writes(x, s, id, b) /\ Restorable(x, durable, owner, m, w)
      /\ s \in Memory /\ SeenLike(x, durable)
  BY DEF AllocateInTx, State
<1>2. InTx(s)
  BY <1>1, LevelTypes DEF InTx
<1>3. InTxStep(r, o)
  BY <1>2 DEF Allocate, HandedOut
<1>4. o \in [Page -> Owner] /\ \A q \in Page : q # id => o[q] = owner[q]
  BY <1>1, NowFacts DEF Owner, HandedOut
<1> HIDE DEF r
<1>5. /\ State(r) /\ r.header = s.header /\ Len(r.levels) = Len(s.levels)
      /\ r.levels[1].owner = s.levels[1].owner
      /\ Restorable(r, durable, o, m, w)
      /\ SameBut({id}, Look(x, durable), Look(r, durable), s.header, o)
  <2>1. TxAllocate(x, s, id, b, owner, o)
    BY <1>1, <1>4, NowFacts DEF TxAllocate
  <2>2. durable \in Pages /\ options \in Options
    BY NowFacts
  <2>3. /\ Follows(r, s) /\ Restorable(r, durable, o, m, w)
        /\ SameBut({id}, Look(x, durable), Look(r, durable), s.header, o)
    BY <1>1, <2>1, <2>2, AllocatedKeeps DEF r
  <2>4. QED
    BY <2>3 DEF Follows
<1>6. Database(Look(r, durable), s.header, o)
  <2>1. r \in Memory /\ s.header \in Header
    BY <1>1, <1>5, LevelTypes DEF State
  <2>2. QED
    BY <1>4, <2>1, NowFacts, LookTypes DEF Database
<1>7. Sound(Look(r, durable), s.header, o)
  BY <1>5, <1>6 DEF Allocable
<1>8. QED
  <2>1. Steady(r, durable, o, m, w)
    BY <1>5, <1>7 DEF Steady
  <2>2. Len(r.levels) = Len(levels) /\ r.levels[1].owner = levels[1].owner
    BY <1>1, <1>5
  <2>3. OnlyPage(id, Look(Now, durable), Look(r, durable), owner, o)
    BY <1>1, <1>4, <1>5, <1>7, OnlyPageSeen
  <2>4. QED
    BY <1>1, <1>3, <1>4, <1>5, <2>1, <2>2, <2>3, InTxStepKeeps

AllocateAlone(x, s, d, id) ==
  /\ x \in Memory /\ State(s) /\ Len(s.levels) = 0
  /\ x.cache = s.cache /\ x.levels = s.levels /\ x.header.total <= s.header.total
  /\ d.durable \in Pages /\ d.header \in Header /\ id \in Page /\ id <= s.header.total
  /\ \A q \in Live(owner) : Below(d.durable, q) = Below(durable, q)

\* The end of allocate_page outside a transaction, which writes page 1 and may fail.
LEMMA AllocateAloneKeeps ==
  ASSUME NEW w, IAt(w), Roomy, Len(levels) = 0, NEW x, NEW s, NEW d, NEW id, NEW b,
         AllocateAlone(x, s, d, id),
         NEW o, o = HandedOut(owner, id),
         ~ ioFailed => Restorable(x, d.durable, owner, options.inMemory, w)
                       /\ Allocable(Look(x, d.durable), s.header, o, id)
                       /\ SeenLike(x, d.durable) /\ owner[id] # "live",
         ~ options.inMemory => Sound(ContentOf(d.durable), d.header, owner),
         Allocate(s, d, id, b), work' \in 0 .. MaxWork
  PROVE  IAt(w)' /\ Effect
<1> DEFINE r == Allocated(s, id, b)
           m == options.inMemory
           e == Stored(d, r.header, 1, Lookup(r, 1))
           z == With(d.durable, 1, Lookup(r, 1))
<1>1. /\ x \in Memory /\ State(s) /\ s \in Memory /\ Len(s.levels) = 0 /\ s.header \in Header
      /\ d.durable \in Pages /\ d.header \in Header /\ id \in Page
  BY LevelTypes DEF AllocateAlone, State
<1>2. ~ InTx(s)
  BY <1>1 DEF InTx, Memory
<1>3. r = PutAlone(s, id, Empty)
  BY <1>2 DEF Allocated, PutAlone
<1>4. AutoOk(r, e, o) \/ AutoFails(r, d, e, o)
  BY <1>2 DEF Allocate, HandedOut
<1>5. /\ e = [durable |-> e.durable, header |-> e.header] /\ e.durable = z /\ e.header = r.header
  BY StoredFields
<1> HIDE DEF r, e, z
<1>6. /\ o \in [Page -> Owner] /\ \A q \in Page : q # id => o[q] = owner[q]
      /\ o[id] = "new" /\ owner \in [Page -> Owner] /\ m \in BOOLEAN /\ options \in Options
  BY <1>1, NowFacts DEF Owner, HandedOut
<1>7. State(r) /\ r.header = s.header /\ r.levels = s.levels
  BY <1>1, <1>3, ContentType, PutAloneFields
<1>8. ASSUME ~ ioFailed
      PROVE  /\ Steady(r, z, o, m, w) /\ z \in Pages /\ Look(r, z) = Look(r, d.durable)
             /\ OnlyPage(id, Look(Now, durable), Look(r, d.durable), owner, o)
  <2>1. AloneWrite(x, s, d.durable, d.durable, owner, o, id, Empty)
    BY <1>1, <1>6, ContentType DEF AllocateAlone, AloneWrite
  <2> HIDE DEF m
  <2>2. /\ Restorable(r, d.durable, o, m, w)
        /\ SameBut({id}, Look(x, d.durable), Look(r, d.durable), s.header, o)
    BY <1>3, <1>6, <1>8, <2>1, PutAloneKeeps DEF m
  <2>3. Database(Look(r, d.durable), s.header, o)
    BY <1>1, <1>6, <1>7, LookTypes DEF Database, State
  <2>4. Sound(Look(r, d.durable), s.header, o)
    BY <1>8, <2>2, <2>3 DEF Allocable
  <2>5. r \in Memory /\ Len(r.levels) = 0
    BY <1>1, <1>7 DEF State
  <2>6. Restorable(r, z, o, m, w) /\ Look(r, z) = Look(r, d.durable) /\ z \in Pages
    <3> DEFINE f == With(d.durable, 1, Lookup(r, 1))
    <3>1. /\ r \in Memory /\ Len(r.levels) = 0 /\ d.durable \in Pages
          /\ o \in [Page -> Owner] /\ m \in BOOLEAN /\ Restorable(r, d.durable, o, m, w)
      BY <1>1, <1>6, <2>2, <2>5
    <3>2. Restorable(r, f, o, m, w) /\ Look(r, f) = Look(r, d.durable) /\ f \in Pages
      <4> PICK y : y = d.durable
        OBVIOUS
      <4>1. /\ r \in Memory /\ Len(r.levels) = 0 /\ y \in Pages
            /\ o \in [Page -> Owner] /\ m \in BOOLEAN /\ Restorable(r, y, o, m, w)
        BY <3>1
      <4>2. /\ Restorable(r, With(y, 1, Lookup(r, 1)), o, m, w)
            /\ With(y, 1, Lookup(r, 1)) \in Pages
            /\ Look(r, With(y, 1, Lookup(r, 1))) = Look(r, y)
        BY <4>1, FirstPageKeeps
      <4>3. QED
        BY <4>2
    <3>3. QED
      BY <3>2 DEF z
  <2>7. OnlyPage(id, Look(Now, durable), Look(r, d.durable), owner, o)
    BY <1>6, <1>8, <2>2, <2>4, OnlyPageSeen
  <2>8. QED
    BY <1>7, <2>4, <2>6, <2>7 DEF Steady
<1>9. ASSUME ~ ioFailed, ~ m PROVE Sound(ContentOf(z), e.header, o)
  <2>1. m = FALSE
    BY <1>6, <1>9
  <2>2. Steady(r, z, o, FALSE, w) /\ z \in Pages /\ r \in Memory /\ Len(r.levels) = 0
    BY <1>1, <1>7, <1>8, <1>9, <2>1 DEF State
  <2>3. QED
    BY <1>5, <1>6, <2>2, BelowSound
<1>10. Len(r.levels) = 0 /\ e.header \in Header
  BY <1>1, <1>5, <1>7
<1>11. CASE AutoOk(r, e, o)
  <2>1. ~ ioFailed
    BY <1>11 DEF AutoOk
  <2>2. Steady(r, e.durable, o, m, w) /\ e.durable \in Pages
        /\ (~ m => Sound(ContentOf(e.durable), e.header, o))
        /\ OnlyPage(id, Look(Now, durable), Look(r, e.durable), owner, o)
    BY <1>5, <1>8, <1>9, <2>1
  <2>3. QED
    BY <1>1, <1>5, <1>6, <1>7, <1>10, <1>11, <2>2, AutoOkKeeps
<1>12. CASE AutoFails(r, d, e, o)
  <2>1. (~ m /\ ~ ioFailed => Sound(ContentOf(e.durable), e.header, o))
        /\ (~ ioFailed => e.durable \in Pages /\ e.header \in Header)
    BY <1>5, <1>8, <1>9, <1>10
  <2>2. \A q \in Live(owner) : Below(d.durable, q) = Below(durable, q)
    BY DEF AllocateAlone
  <2>3. ASSUME ~ ioFailed
        PROVE  /\ OnlyPage(id, Look(Now, durable), Look(r, d.durable), owner, owner)
               /\ OnlyPage(1, ContentOf(durable), ContentOf(e.durable), owner, o)
    <3>1. OnlyPage(id, Look(Now, durable), Look(r, d.durable), owner, owner)
      BY <1>6, <1>8, <2>3 DEF OnlyPage
    <3>2. \A q \in Page : q # 1 => Below(z, q) = Below(d.durable, q)
      BY DEF Below, With, z
    <3>3. \A q \in Live(owner) : q # 1 => ContentOf(z)[q] = ContentOf(durable)[q]
      BY <2>2, <3>2 DEF ContentOf, Live
    <3>4. \A q \in Page : o[q] = "live" <=> owner[q] = "live"
      BY <1>6, <2>3
    <3>5. QED
      BY <1>5, <3>1, <3>3, <3>4 DEF OnlyPage, Live
  <2>4. QED
    BY <1>1, <1>6, <1>7, <1>10, <1>12, <2>1, <2>2, <2>3, PageAssumption, AutoFailsKeeps
<1>13. QED
  BY <1>4, <1>11, <1>12

\* Setting the header in memory changes nothing else.
LEMMA HeaderFields ==
  ASSUME NEW s, State(s), NEW h \in Header, NEW s2, s2 = [s EXCEPT !.header = h]
  PROVE  /\ State(s2) /\ s2.cache = s.cache /\ s2.lru = s.lru /\ s2.levels = s.levels /\ s2.header = h
         /\ s2 \in Memory
<1>1. s \in Memory /\ s2 \in Memory
  BY MemoryFields DEF State
<1>2. s2.cache = s.cache /\ s2.lru = s.lru /\ s2.levels = s.levels /\ s2.header = h
  BY <1>1 DEF Memory
<1>3. QED
  BY <1>1, <1>2 DEF State, Tracked

\* A new page past the end.
LEMMA AllocableNew ==
  ASSUME NEW c, NEW h, NEW h2, NEW o, NEW o2, Database(c, h, o), Sound(c, h, o),
         NEW id \in Page, id = h.total + 1, h2 \in Header, h2.trunk = h.trunk, h2.total = id,
         o2 = HandedOut(o, id)
  PROVE  Allocable(c, h2, o2, id)
<1>1. /\ h.total \in Nat /\ h.total <= h2.total /\ id > h.total /\ id <= h2.total
      /\ o \in [Page -> Owner]
  BY DEF Database, Header
<1>2. o2[id] = "new" /\ \A q \in Page \ {id} : o2[q] = o[q]
  BY <1>1 DEF HandedOut
<1>3. id # 1
  <2>1. 1 <= h.total
    BY PageAssumption DEF Sound, Owned
  <2>2. QED
    BY <1>1, <2>1
<1>4. ASSUME NEW c2, Database(c2, h2, o2), SameBut({id}, c, c2, h2, o2)
      PROVE  Sound(c2, h2, o2)
  BY <1>1, <1>2, <1>3, <1>4, SoundElsewhere
<1>5. QED
  BY <1>4 DEF Allocable

\* allocate_page at the end of the file keeps the invariant.
LEMMA AllocateNewKeeps ==
  ASSUME NEW w, IAt(w), Roomy, AllocateNew
  PROVE  IAt(w)' /\ Effect
<1> DEFINE id == header.total + 1
           h == [header EXCEPT !.total = id]
           s == [Now EXCEPT !.header.total = id]
           o == HandedOut(owner, id)
           m == options.inMemory
<1>1. Worked /\ id \in Page /\ Allocate(s, OnDisk, id, None)
  BY DEF AllocateNew
<1>2. work' \in 0 .. MaxWork
  BY <1>1, NowFacts, WorkedType
<1>3. h \in Header /\ h.total = id /\ h.trunk = header.trunk /\ header.total \in Nat
      /\ header.total <= id /\ id <= id
  BY NowFacts DEF Header
<1>4. s = [Now EXCEPT !.header = h]
  BY NowFacts
<1> HIDE DEF s, h
<1>5. /\ State(s) /\ s.cache = Now.cache /\ s.levels = Now.levels /\ s.header = h
  BY <1>3, <1>4, NowFacts, HeaderFields
<1>6. OnDisk.durable = durable /\ OnDisk.header = durableHeader
  BY DEF OnDisk
<1>7. ASSUME Steady(Now, durable, owner, m, w)
      PROVE  Allocable(Look(Now, durable), s.header, o, id)
  <2> DEFINE c == Look(Now, durable)
  <2>1. Database(c, header, owner) /\ Sound(c, header, owner) /\ h \in Header
        /\ h.trunk = header.trunk /\ h.total = id /\ id = header.total + 1
    BY <1>3, <1>7, NowFacts DEF Steady
  <2> HIDE DEF c, id
  <2>2. Allocable(c, h, o, id)
    BY <1>1, <2>1, AllocableNew
  <2>3. QED
    BY <1>5, <2>2 DEF c
<1>11. SeenLike(Now, durable)
  BY DEF SeenLike
<1>8. CASE Len(levels) # 0
  <2>1. Steady(Now, durable, owner, m, w)
    BY <1>8 DEF IAt
  <2>2. InMemory(Now, id) = None
    <3>1. PICK u : Past(Now, durable, owner, m, u, w)
      BY <2>1 DEF Steady, Restorable
    <3>2. Undoing(u, Now) /\ Within(Now, u)
      BY <3>1 DEF Past
    <3>3. Present(Now) \in Points(Now) /\ Present(Now) \notin Levels(Now)
      BY NowFacts, LevelTypes
    <3>4. u[Present(Now)][id] = InMemory(Now, id) /\ HeaderAt(Now, Present(Now)) = header
      BY <1>1, <3>2, <3>3, NowFacts DEF Undoing, HeaderAt
    <3>5. ~ (id <= header.total)
      BY <1>3
    <3> HIDE DEF id
    <3>6. QED
      BY <1>1, <3>2, <3>3, <3>4, <3>5 DEF Within
  <2>3. Writes(Now, s, id, None)
    BY <1>3, <1>5, <2>2, NowFacts DEF Writes
  <2>4. AllocateInTx(Now, s, id, None, w)
    <3> HIDE DEF id
    <3>1. QED
      BY <1>1, <1>5, <1>8, <1>11, <2>1, <2>3, NowFacts DEF AllocateInTx, Maybe, Steady
  <2> HIDE DEF id, o
  <2>5. QED
    BY <1>1, <1>2, <1>7, <1>8, <2>1, <2>4, AllocateInTxKeeps DEF o
<1>9. CASE Len(levels) = 0
  <2>1. AllocateAlone(Now, s, OnDisk, id)
    BY <1>1, <1>3, <1>5, <1>6, <1>9, NowFacts DEF AllocateAlone
  <2>2. ASSUME ~ ioFailed
        PROVE  /\ Restorable(Now, OnDisk.durable, owner, options.inMemory, w)
               /\ Allocable(Look(Now, OnDisk.durable), s.header, o, id)
               /\ SeenLike(Now, OnDisk.durable) /\ owner[id] # "live"
    <3>1. Steady(Now, durable, owner, m, w)
      BY <2>2 DEF IAt
    <3>2. Restorable(Now, durable, owner, m, w) /\ Sound(Look(Now, durable), header, owner)
      BY <3>1, NowFacts DEF Steady
    <3>3. ~ (id <= header.total)
      BY <1>3
    <3> HIDE DEF id, o
    <3>4. owner[id] # "live"
      BY <1>1, <3>2, <3>3 DEF Sound, Owned
    <3>5. QED
      BY <1>6, <1>7, <1>11, <3>1, <3>2, <3>4
  <2>3. ~ m => Sound(ContentOf(OnDisk.durable), OnDisk.header, owner)
    BY <1>6, <1>9, BaseSound
  <2> HIDE DEF id, o
  <2>4. o = HandedOut(owner, id)
    BY DEF o
  <2>5. QED
    BY <1>1, <1>2, <1>9, <2>1, <2>2, <2>3, <2>4, AllocateAloneKeeps
<1>10. QED
  BY <1>8, <1>9, NowFacts

\* The trunk itself is handed out.
LEMMA AllocableTrunk ==
  ASSUME NEW c, NEW c1, NEW h, NEW h2, NEW o, NEW o2, Database(c, h, o), Sound(c, h, o),
         h.trunk # 0, h2 \in Header, h2.trunk = c[h.trunk].next, h2.total = h.total,
         SameBut({}, c, c1, h, o), o2 = HandedOut(o, h.trunk)
  PROVE  Allocable(c1, h2, o2, h.trunk)
<1> DEFINE t == h.trunk
<1>1. t \in Page
  BY TrunkIsFree DEF IsFree
<1>2. \A q \in Page : q # t => o2[q] = o[q]
  BY DEF HandedOut, Database
<1>3. ASSUME NEW c2, Database(c2, h2, o2), SameBut({t}, c1, c2, h2, o2)
      PROVE  Sound(c2, h2, o2)
  <2>1. SameBut({t}, c, c2, h2, o2)
    BY <1>2, <1>3 DEF SameBut
  <2>2. TrunkUsed(c, c2, h, h2, o, o2)
    BY <1>3, <2>1 DEF TrunkUsed
  <2>3. QED
    BY <2>2, SoundTrunkUsed
<1>4. QED
  BY <1>3 DEF Allocable

\* allocate_page that takes an empty trunk keeps the invariant.
LEMMA AllocateTrunkKeeps ==
  ASSUME NEW w, IAt(w), Roomy, AllocateTrunk
  PROVE  IAt(w)' /\ Effect
<1> DEFINE t  == header.trunk
           s0 == Fetch(Now, t)
           tr == Lookup(Now, t)
           h  == [header EXCEPT !.trunk = tr.next, !.free = header.free - 1]
           s1 == [s0 EXCEPT !.header.trunk = tr.next, !.header.free = @ - 1]
           s  == Fetch(s1, t)
           o  == HandedOut(owner, t)
           m  == options.inMemory
           x  == IF Len(levels) # 0 THEN Loaded(s1, t) ELSE s
<1>1. /\ Worked /\ FreeTrunk /\ CanRead(t) /\ ~ ioFailed /\ Allocate(s, OnDisk, t, tr)
  BY DEF AllocateTrunk
<1>2. work' \in 0 .. MaxWork
  BY <1>1, NowFacts, WorkedType
<1>3. Steady(Now, durable, owner, m, w)
  BY <1>1 DEF IAt
<1>4. t # 0 /\ IsFree(t, header, owner) /\ t \in Page /\ t <= Now.header.total
      /\ Look(Now, durable)[t] \in Content
  <2> DEFINE c == Look(Now, durable)
  <2>1. Database(c, header, owner) /\ Sound(c, header, owner) /\ header.trunk # 0
    BY <1>1, <1>3, NowFacts DEF Steady, FreeTrunk, Header
  <2> HIDE DEF c
  <2>2. IsFree(header.trunk, header, owner) /\ c[header.trunk] \in Content
    BY <2>1, TrunkIsFree
  <2>3. QED
    BY <2>1, <2>2, NowFacts DEF IsFree, c
<1>5. t \in DOMAIN Now.cache \cup DOMAIN durable
  BY <1>1, NowFacts DEF CanRead
<1>6. tr = Look(Now, durable)[t] /\ tr \in Content /\ tr.next \in Page \cup {0}
  BY <1>4, <1>5, NowFacts, LookupLook, ContentType
<1>7. h \in Header /\ h.total = header.total /\ h.trunk = tr.next
  <2> DEFINE n == tr.next
             k == header.free - 1
  <2>1. n \in Nat
    <3>1. \A q \in Page \cup {0} : q \in Nat
      BY PageAssumption
    <3> HIDE DEF tr
    <3>2. QED
      BY <1>6, <3>1
  <2>2. header \in Header /\ k \in Nat
    BY <1>1, NowFacts DEF FreeTrunk, Header
  <2> HIDE DEF n, k
  <2>3. [header EXCEPT !.trunk = n, !.free = k] \in Header
        /\ [header EXCEPT !.trunk = n, !.free = k].total = header.total
        /\ [header EXCEPT !.trunk = n, !.free = k].trunk = n
    BY <2>1, <2>2 DEF Header
  <2>4. QED
    BY <2>3 DEF n, k
<1>8. /\ State(s0) /\ s0.header = header /\ s0.levels = levels
      /\ Restorable(s0, durable, owner, m, w)
      /\ SameBut({}, Look(Now, durable), Look(s0, durable), header, owner)
      /\ Lookup(s0, t) = tr /\ t \in DOMAIN s0.cache \cup DOMAIN durable
  <2>1. State(s0) /\ s0.header = header /\ s0.levels = levels
    BY <1>4, <1>5, NowFacts, FetchFields
  <2>2. /\ Restorable(s0, durable, owner, m, w)
        /\ SameBut({}, Look(Now, durable), Look(s0, durable), Now.header, owner)
    BY <1>3, <1>4, <1>5, NowFacts, FetchKeeps DEF Steady
  <2>3. Lookup(s0, t) = tr /\ t \in DOMAIN s0.cache \cup DOMAIN durable
    BY <1>4, <1>5, NowFacts, FetchLookup
  <2>4. QED
    BY <2>1, <2>2, <2>3, NowFacts
<1>9. s1 = [s0 EXCEPT !.header = h]
  BY <1>8, NowFacts DEF State, Memory, Header
<1> HIDE DEF s0, s1, h, tr
<1>10. /\ State(s1) /\ s1.cache = s0.cache /\ s1.levels = levels /\ s1.header = h
       /\ s1 \in Memory
  BY <1>7, <1>8, <1>9, HeaderFields
<1>11. /\ Restorable(s1, durable, owner, m, w) /\ Look(s1, durable) = Look(s0, durable)
  <2>1. HeaderStep(s0, s1) /\ s0 \in Memory
    BY <1>7, <1>8, <1>10 DEF HeaderStep, State
  <2>2. QED
    BY <1>8, <2>1, NowFacts, HeaderKeeps
<1>12. Lookup(s1, t) = tr /\ t \in DOMAIN s1.cache \cup DOMAIN durable /\ t <= s1.header.total
  BY <1>4, <1>7, <1>8, <1>10, NowFacts DEF Lookup
<1>13. State(s) /\ s.header = h /\ s.levels = levels
  BY <1>4, <1>10, <1>12, NowFacts, FetchFields
<1>14. /\ Restorable(x, durable, owner, m, w)
       /\ SameBut({}, Look(s1, durable), Look(x, durable), h, owner)
       /\ Len(levels) # 0 => Writes(x, s, t, tr)
  <2>1. CASE Len(levels) # 0
    <3>1. x = Loaded(s1, t)
      BY <2>1
    <3>2. /\ Restorable(Loaded(s1, t), durable, owner, m, w)
          /\ SameBut({}, Look(s1, durable), Look(Loaded(s1, t), durable), s1.header, owner)
          /\ Writes(Loaded(s1, t), s, t, Lookup(s1, t))
      BY <1>4, <1>10, <1>11, <1>12, NowFacts, LoadedKeeps
    <3>3. QED
      BY <1>10, <1>12, <3>1, <3>2
  <2>2. CASE Len(levels) = 0
    <3>1. x = s
      BY <2>2
    <3>2. /\ Restorable(s, durable, owner, m, w)
          /\ SameBut({}, Look(s1, durable), Look(s, durable), s1.header, owner)
      BY <1>4, <1>10, <1>11, <1>12, NowFacts, FetchKeeps
    <3>3. QED
      BY <1>10, <2>2, <3>1, <3>2
  <2>3. QED
    BY <2>1, <2>2, NowFacts
<1> HIDE DEF s, x
<1>15. Allocable(Look(x, durable), s.header, o, t)
  <2> DEFINE c == Look(Now, durable)
             c1 == Look(x, durable)
  <2>1. SameBut({}, c, c1, header, owner)
    BY <1>7, <1>8, <1>11, <1>14 DEF SameBut
  <2>2. Database(c, header, owner) /\ Sound(c, header, owner) /\ h.trunk = c[header.trunk].next
    BY <1>3, <1>6, <1>7, NowFacts DEF Steady
  <2> HIDE DEF c, c1
  <2>3. Allocable(c1, h, o, header.trunk)
    BY <1>4, <1>7, <2>1, <2>2, AllocableTrunk
  <2>4. QED
    BY <1>13, <2>3 DEF c1
<1>16. OnDisk.durable = durable /\ OnDisk.header = durableHeader
  BY DEF OnDisk
<1>20. SeenLike(x, durable) /\ owner[t] # "live"
  <2>1. SameBut({}, Look(Now, durable), Look(x, durable), header, owner)
    BY <1>7, <1>8, <1>11, <1>14 DEF SameBut
  <2>2. SeenLike(x, durable)
    BY <1>3, <2>1, SeenLikeFrom
  <2>3. QED
    BY <1>4, <2>2 DEF IsFree
<1> HIDE DEF o, t
<1>17. CASE Len(levels) # 0
  <2>1. AllocateInTx(x, s, t, tr, w)
    BY <1>4, <1>6, <1>13, <1>14, <1>17, <1>20, NowFacts DEF AllocateInTx, Maybe
  <2>2. QED
    BY <1>1, <1>2, <1>15, <1>17, <2>1, AllocateInTxKeeps DEF o
<1>18. CASE Len(levels) = 0
  <2>1. x = s
    BY <1>18 DEF x
  <2>2. AllocateAlone(x, s, OnDisk, t)
    BY <1>4, <1>7, <1>13, <1>16, <1>18, <2>1, NowFacts DEF AllocateAlone, State, Header
  <2>3. ~ ioFailed => Restorable(x, OnDisk.durable, owner, options.inMemory, w)
                       /\ Allocable(Look(x, OnDisk.durable), s.header, o, t)
                       /\ SeenLike(x, OnDisk.durable) /\ owner[t] # "live"
    BY <1>14, <1>15, <1>16, <1>20
  <2>4. ~ m => Sound(ContentOf(OnDisk.durable), OnDisk.header, owner)
    BY <1>16, <1>18, BaseSound
  <2>5. o = HandedOut(owner, t)
    BY DEF o
  <2>6. QED
    BY <1>1, <1>2, <1>18, <2>2, <2>3, <2>4, <2>5, AllocateAloneKeeps
<1>19. QED
  BY <1>17, <1>18, NowFacts

\* The last slot of the first trunk holds a free page, which is not the trunk.
LEMMA SlotIsFree ==
  ASSUME NEW c, NEW h, NEW o, Database(c, h, o), Sound(c, h, o), h.trunk # 0,
         c[h.trunk].slots # <<>>
  PROVE  Last(c[h.trunk].slots) # h.trunk /\ IsFree(Last(c[h.trunk].slots), h, o)
<1> DEFINE t == h.trunk
           id == Last(c[t].slots)
           v == Trunk(c[t].next, Front(c[t].slots))
           c2 == [c EXCEPT ![t] = v]
           o2 == HandedOut(o, id)
<1>1. t \in Page /\ c[t] \in Content /\ c \in [Page -> Maybe] /\ o \in [Page -> Owner] /\ h \in Header
  BY TrunkIsFree DEF IsFree, Database
<1>2. c[t].next \in Page \cup {0} /\ c[t].slots \in Seq(Page)
  BY <1>1, ContentType
<1>3. v \in Content
  <2>1. Front(c[t].slots) \in Seq(Page)
    BY <1>2, FrontType
  <2>2. QED
    BY <1>2, <2>1, ContentType
<1> HIDE DEF v
<1>4. Database(c2, h, o2)
  BY <1>1, <1>3 DEF Database, Maybe, Owner, HandedOut
<1>5. c2[t] = v /\ \A q \in Page : q # t => c2[q] = c[q]
  BY <1>1
<1>6. SameBut({t, id}, c, c2, h, o2)
  BY <1>5 DEF SameBut
<1> HIDE DEF c2, o2
<1>7. QED
  <2>1. SlotUsed(c, c2, h, h, o, o2, id)
    BY <1>4, <1>5, <1>6 DEF SlotUsed, v, o2
  <2> HIDE DEF id
  <2>2. QED
    BY <2>1, SoundSlotUsed DEF id

\* The page in the last slot can be handed out once the trunk has lost the slot.
LEMMA AllocableSlot ==
  ASSUME NEW c, NEW c1, NEW h, NEW h2, NEW o, NEW o2, NEW id,
         Database(c, h, o), Sound(c, h, o), h.trunk # 0,
         c[h.trunk].slots # <<>>, id = Last(c[h.trunk].slots),
         h2.trunk = h.trunk, h2.total = h.total,
         SameBut({h.trunk}, c, c1, h, o),
         c1[h.trunk] = Trunk(c[h.trunk].next, Front(c[h.trunk].slots)),
         o2 = HandedOut(o, id)
  PROVE  Allocable(c1, h2, o2, id)
<1> DEFINE t == h.trunk
<1>1. t \in Page /\ o[t] = "free" /\ t <= h.total
  BY TrunkIsFree DEF IsFree
<1>2. id # t /\ id \in Page
  BY SlotIsFree DEF IsFree
<1>3. \A q \in Page : q # id => o2[q] = o[q]
  BY <1>2 DEF HandedOut, Database
<1>4. ASSUME NEW c2, Database(c2, h2, o2), SameBut({id}, c1, c2, h2, o2)
      PROVE  Sound(c2, h2, o2)
  <2>1. SameBut({t, id}, c, c2, h2, o2)
    BY <1>3, <1>4 DEF SameBut
  <2>2. c2[t] = c1[t]
    <3>1. o2[t] # "new" /\ t <= h2.total /\ t \notin {id}
      BY <1>1, <1>2, <1>3
    <3>2. QED
      BY <1>1, <1>4, <3>1 DEF SameBut
  <2>3. c2[h.trunk] = Trunk(c[h.trunk].next, Front(c[h.trunk].slots))
        /\ SameBut({h.trunk, id}, c, c2, h2, o2)
    BY <2>1, <2>2
  <2>4. SlotUsed(c, c2, h, h2, o, o2, id)
    BY <1>4, <2>3 DEF SlotUsed
  <2>5. QED
    BY <2>4, SoundSlotUsed
<1>5. QED
  BY <1>4 DEF Allocable

\* The trunk at the head of the freelist is read.
TrunkRead(t, tr, s, w) ==
  /\ t = header.trunk /\ t \in Page /\ t # 1 /\ t <= header.total /\ owner[t] = "free"
  /\ tr = Look(Now, durable)[t] /\ tr \in Content /\ tr = Lookup(Now, t)
  /\ State(s) /\ s.header = header /\ s.levels = levels
  /\ Restorable(s, durable, owner, options.inMemory, w)
  /\ SameBut({}, Look(Now, durable), Look(s, durable), header, owner)
  /\ t \in DOMAIN s.cache \cup DOMAIN durable

\* The trunk at the head of the freelist is a free page with content, and can be read.
LEMMA TrunkIsRead ==
  ASSUME NEW w, IAt(w), Roomy, header.trunk # 0, CanRead(header.trunk),
         Steady(Now, durable, owner, options.inMemory, w)
  PROVE  TrunkRead(header.trunk, Lookup(Now, header.trunk), Fetch(Now, header.trunk), w)
<1> DEFINE t  == header.trunk
           s0 == Fetch(Now, t)
           tr == Lookup(Now, t)
           m  == options.inMemory
<1>4. IsFree(t, header, owner) /\ t \in Page /\ t <= Now.header.total
      /\ Look(Now, durable)[t] \in Content
  <2> DEFINE c == Look(Now, durable)
  <2>1. Database(c, header, owner) /\ Sound(c, header, owner) /\ header.trunk # 0
    BY NowFacts DEF Steady
  <2> HIDE DEF c
  <2>2. IsFree(header.trunk, header, owner) /\ c[header.trunk] \in Content
    BY <2>1, TrunkIsFree
  <2>3. QED
    BY <2>1, <2>2, NowFacts DEF IsFree, c
<1>5. t \in DOMAIN Now.cache \cup DOMAIN durable
  BY NowFacts DEF CanRead
<1>6. tr = Look(Now, durable)[t] /\ tr \in Content
  BY <1>4, <1>5, NowFacts, LookupLook
<1>7. t # 1 /\ owner[t] = "free" /\ t <= header.total
  BY <1>4, NowFacts DEF IsFree, Steady, Sound, Owned
<1>8. State(s0) /\ s0.header = header /\ s0.levels = levels
  BY <1>4, <1>5, NowFacts, FetchFields
<1>9. /\ Restorable(s0, durable, owner, m, w)
      /\ SameBut({}, Look(Now, durable), Look(s0, durable), Now.header, owner)
  BY <1>4, <1>5, NowFacts, FetchKeeps DEF Steady
<1>10. t \in DOMAIN s0.cache \cup DOMAIN durable
  BY <1>4, <1>5, NowFacts, FetchLookup
<1>11. QED
  BY <1>4, <1>6, <1>7, <1>8, <1>9, <1>10, NowFacts DEF TrunkRead

\* A trunk is written: s becomes r, and what is below becomes d.
TrunkPut(t, v, r, d, w) ==
  /\ State(r) /\ r.header = header /\ Len(r.levels) = Len(levels)
  /\ (Len(levels) # 0 => r.levels[1].owner = levels[1].owner /\ d = durable)
  /\ (Len(levels) = 0 => d = With(durable, t, v))
  /\ d \in Pages /\ Restorable(r, d, owner, options.inMemory, w)
  /\ SameBut({t}, Look(Now, durable), Look(r, d), header, owner)
  /\ Look(r, d)[t] = v

\* Writing a trunk changes that page only, for a caller and below.
LEMMA TrunkIsPut ==
  ASSUME NEW w, IAt(w), Roomy, NEW t, NEW tr, NEW s, TrunkRead(t, tr, s, w), NEW v \in Content
  PROVE  TrunkPut(t, v, Put(s, t, v), IF InTx(Now) THEN durable ELSE With(durable, t, v), w)
<1> DEFINE r == Put(s, t, v)
           m == options.inMemory
<1>1. /\ t \in Page /\ t <= s.header.total /\ owner[t] = "free"
      /\ State(s) /\ s \in Memory /\ s.header = header /\ s.levels = levels
      /\ Restorable(s, durable, owner, m, w)
      /\ SameBut({}, Look(Now, durable), Look(s, durable), header, owner)
      /\ t \in DOMAIN s.cache \cup DOMAIN durable
  BY DEF TrunkRead, State
<1>2. InTx(s) = InTx(Now)
  BY <1>1, NowFacts DEF InTx
<1>3. CASE InTx(Now)
  <2>1. r = PutInTx(s, t, v) /\ Len(levels) # 0
    BY <1>2, <1>3, NowFacts DEF Put
  <2>2. MustRead(s, t) => t \in DOMAIN durable
    BY <1>1 DEF MustRead
  <2> HIDE DEF r
  <2>3. TxPut(s, t, v, owner, owner)
    BY <1>1, <2>1, <2>2, NowFacts DEF TxPut
  <2>4. /\ Follows(r, s) /\ Restorable(r, durable, owner, m, w) /\ Shows(r, durable, t, v)
        /\ SameBut({t}, Look(s, durable), Look(r, durable), s.header, owner)
    BY <1>1, <2>1, <2>3, NowFacts, PutInTxKeeps
  <2>5. SameBut({t}, Look(Now, durable), Look(r, durable), header, owner)
    BY <1>1, <2>4 DEF SameBut
  <2>6. QED
    BY <1>1, <1>3, <2>1, <2>4, <2>5, NowFacts DEF TrunkPut, Follows, Shows, r
<1>4. CASE ~ InTx(Now)
  <2> DEFINE d == With(durable, t, v)
  <2>1. r = PutAlone(s, t, v) /\ Len(levels) = 0
    BY <1>2, <1>4, NowFacts DEF Put
  <2>2. d \in Pages
    BY <1>1, NowFacts, WithType
  <2> HIDE DEF r, d
  <2>3. AloneWrite(s, s, durable, d, owner, owner, t, v)
    BY <1>1, <2>1, <2>2, NowFacts DEF AloneWrite, d, Header
  <2>4. ~ IsNew(owner, t)
    BY <1>1 DEF IsNew
  <2>5. /\ Restorable(r, d, owner, m, w) /\ Shows(r, d, t, v)
        /\ SameBut({t}, Look(s, durable), Look(r, d), s.header, owner)
    BY <1>1, <2>1, <2>3, <2>4, NowFacts, PutAloneKeeps
  <2>6. State(r) /\ r.header = s.header /\ r.levels = s.levels
    BY <1>1, <2>1, PutAloneFields
  <2>7. SameBut({t}, Look(Now, durable), Look(r, d), header, owner)
    BY <1>1, <2>5 DEF SameBut
  <2>8. QED
    BY <1>1, <1>4, <2>1, <2>2, <2>5, <2>6, <2>7, NowFacts DEF TrunkPut, r, d, Shows
<1>5. QED
  BY <1>3, <1>4

\* Outside a transaction, what a caller sees of a page that has been written is below.
LEMMA AloneBelow ==
  ASSUME NEW w, IAt(w), Len(levels) = 0, ~ options.inMemory,
         Steady(Now, durable, owner, options.inMemory, w),
         NEW p \in Page, owner[p] # "new"
  PROVE  ContentOf(durable)[p] = Look(Now, durable)[p]
<1>1. Alone(Now, durable, owner, options.inMemory)
  BY NowFacts, PastAlone DEF Steady
<1>2. p \in DOMAIN Now.cache => p \in DOMAIN durable /\ durable[p] = Now.cache[p]
  BY <1>1 DEF Alone
<1>3. QED
  BY <1>2, NowFacts, ContentTypes, LookTypes DEF Below, InMemory

\* The rest of a header stays.
LEMMA FreeCount ==
  ASSUME NEW h \in Header, NEW n \in Nat
  PROVE  /\ [h EXCEPT !.free = n] \in Header
         /\ [h EXCEPT !.free = n].total = h.total /\ [h EXCEPT !.free = n].trunk = h.trunk
BY DEF Header

\* allocate_page that takes the last slot of a trunk keeps the invariant.
LEMMA AllocateSlotKeeps ==
  ASSUME NEW w, IAt(w), Roomy, AllocateSlot
  PROVE  IAt(w)' /\ Effect
<1> DEFINE t  == header.trunk
           tr == Lookup(Now, t)
           s0 == Fetch(Now, t)
           v  == Trunk(tr.next, Front(tr.slots))
           s1 == Put(s0, t, v)
           d  == IF InTx(Now) THEN OnDisk ELSE Stored(OnDisk, header, t, v)
           D  == IF InTx(Now) THEN durable ELSE With(durable, t, v)
           id == Last(tr.slots)
           y  == [s1 EXCEPT !.header.free = @ - 1]
           h  == [header EXCEPT !.free = header.free - 1]
           s  == Fetch(y, id)
           o  == HandedOut(owner, id)
           m  == options.inMemory
           b  == Lookup(s1, id)
           x  == IF Len(levels) # 0 THEN Loaded(y, id) ELSE s
<1>1. /\ Worked /\ FreeTrunk /\ CanRead(t) /\ ~ ioFailed /\ tr.slots # <<>>
      /\ id \in DOMAIN s1.cache \cup DOMAIN durable
      /\ Allocate(s, d, id, b) \/ (~ InTx(Now) /\ AutoFails(s1, OnDisk, d, owner))
  BY DEF AllocateSlot
<1>2. work' \in 0 .. MaxWork
  BY <1>1, NowFacts, WorkedType
<1>3. /\ Steady(Now, durable, owner, m, w) /\ Sound(Look(Now, durable), header, owner)
      /\ t # 0 /\ m \in BOOLEAN
  BY <1>1, NowFacts DEF IAt, Steady, FreeTrunk, Header
<1>4. TrunkRead(t, tr, s0, w)
  BY <1>1, <1>3, TrunkIsRead
<1>5. /\ t \in Page /\ t # 1 /\ t <= header.total /\ owner[t] = "free"
      /\ tr = Look(Now, durable)[t] /\ tr \in Content
  BY <1>4 DEF TrunkRead
<1>6. v \in Content
  <2>1. tr.next \in Page \cup {0} /\ tr.slots \in Seq(Page)
    BY <1>5, ContentType
  <2>2. Front(tr.slots) \in Seq(Page)
    BY <1>1, <2>1, FrontType
  <2>3. QED
    BY <2>1, <2>2, ContentType
<1>7. id # t /\ IsFree(id, header, owner)
  <2> DEFINE c == Look(Now, durable)
  <2>1. c[header.trunk] = tr
    BY <1>5
  <2> HIDE DEF tr, c
  <2>2. Database(c, header, owner) /\ Sound(c, header, owner) /\ header.trunk # 0
        /\ c[header.trunk].slots # <<>>
    BY <1>1, <1>3, <2>1, NowFacts DEF c
  <2>3. Last(c[header.trunk].slots) # header.trunk
        /\ IsFree(Last(c[header.trunk].slots), header, owner)
    BY <2>2, SlotIsFree
  <2>4. QED
    BY <2>1, <2>3
<1> HIDE DEF s0, tr
<1>8. TrunkPut(t, v, s1, D, w)
  BY <1>4, <1>6, TrunkIsPut
<1> HIDE DEF v, s1
<1>9. /\ State(s1) /\ s1 \in Memory /\ s1.header = header /\ Len(s1.levels) = Len(levels)
      /\ Len(levels) # 0 => s1.levels[1].owner = levels[1].owner /\ D = durable
      /\ Len(levels) = 0 => D = With(durable, t, v)
      /\ D \in Pages /\ Restorable(s1, D, owner, m, w)
      /\ SameBut({t}, Look(Now, durable), Look(s1, D), header, owner)
      /\ Look(s1, D)[t] = v
  BY <1>8 DEF TrunkPut, State
<1>10. d.durable = D /\ d.header = durableHeader
  BY <1>5, StoredFields
<1>11. h \in Header /\ h.total = header.total /\ h.trunk = t
  <2>1. header.free - 1 \in Nat /\ header \in Header
    BY <1>1, NowFacts DEF FreeTrunk, Header
  <2>2. QED
    BY <2>1, FreeCount
<1>12. y = [s1 EXCEPT !.header = h]
  BY <1>9
<1> HIDE DEF y, h, D, d, id
<1>13. /\ State(y) /\ y \in Memory /\ y.cache = s1.cache /\ y.levels = s1.levels /\ y.header = h
  BY <1>9, <1>11, <1>12, HeaderFields
<1>14. Restorable(y, D, owner, m, w) /\ Look(y, D) = Look(s1, D)
  <2>1. HeaderStep(s1, y)
    BY <1>9, <1>11, <1>13 DEF HeaderStep
  <2>2. QED
    BY <1>3, <1>9, <2>1, NowFacts, HeaderKeeps
<1>15. /\ id \in Page /\ id <= y.header.total /\ owner[id] = "free"
       /\ Lookup(y, id) = b /\ id \in DOMAIN y.cache \cup DOMAIN durable
  BY <1>1, <1>7, <1>11, <1>13 DEF IsFree, Lookup
<1>16. Below(D, id) = Below(durable, id)
  BY <1>7, <1>9, NowFacts DEF Below, With
<1>17. State(s) /\ s.header = h /\ s.levels = s1.levels
  BY <1>13, <1>15, NowFacts, FetchFields
<1>18. b \in Content
  BY <1>13, <1>15, NowFacts, LookupLook
<1> HIDE DEF b
<1>19. /\ Restorable(x, D, owner, m, w)
       /\ SameBut({}, Look(y, D), Look(x, D), h, owner)
       /\ Len(levels) # 0 => Writes(x, s, id, b)
  <2>1. CASE Len(levels) # 0
    <3>1. x = Loaded(y, id) /\ D = durable
      BY <1>9, <2>1
    <3>2. Restorable(y, durable, owner, m, w)
      BY <1>14, <3>1
    <3>3. /\ Restorable(Loaded(y, id), durable, owner, m, w)
          /\ SameBut({}, Look(y, durable), Look(Loaded(y, id), durable), y.header, owner)
          /\ Writes(Loaded(y, id), s, id, Lookup(y, id))
      BY <1>13, <1>15, <3>2, NowFacts, LoadedKeeps
    <3>4. QED
      BY <1>13, <1>15, <3>1, <3>3
  <2>2. CASE Len(levels) = 0
    <3>1. x = s
      BY <2>2
    <3>2. /\ Restorable(s, D, owner, m, w)
          /\ SameBut({}, Look(y, D), Look(s, D), y.header, owner)
      BY <1>9, <1>13, <1>14, <1>15, <1>16, NowFacts, FetchKeeps
    <3>3. QED
      BY <1>13, <2>2, <3>1, <3>2
  <2>3. QED
    BY <2>1, <2>2, NowFacts
<1> HIDE DEF s, x
<1>20. Allocable(Look(x, D), s.header, o, id)
  <2> DEFINE c == Look(Now, durable)
             c1 == Look(x, D)
  <2>1. SameBut({t}, c, c1, header, owner)
    BY <1>9, <1>11, <1>14, <1>19 DEF SameBut
  <2>2. c1[t] = v
    BY <1>5, <1>9, <1>11, <1>14, <1>19 DEF SameBut
  <2>3. /\ Database(c, header, owner) /\ Sound(c, header, owner)
        /\ c[header.trunk] = tr /\ header.trunk # 0
    BY <1>3, <1>5, NowFacts
  <2> HIDE DEF c, c1
  <2>4. /\ c[header.trunk].slots # <<>> /\ id = Last(c[header.trunk].slots)
        /\ c1[header.trunk] = Trunk(c[header.trunk].next, Front(c[header.trunk].slots))
    BY <1>1, <2>2, <2>3 DEF id, v
  <2>5. /\ h.trunk = header.trunk /\ h.total = header.total
        /\ SameBut({header.trunk}, c, c1, header, owner)
    BY <1>11, <2>1
  <2> HIDE DEF o, t
  <2>6. Allocable(c1, h, o, id)
    BY <2>3, <2>4, <2>5, AllocableSlot DEF o
  <2>7. QED
    BY <1>17, <2>6 DEF c1
<1>21. Len(levels) = 0 /\ ~ m => Sound(ContentOf(D), durableHeader, owner)
  <2> SUFFICES ASSUME Len(levels) = 0, ~ m PROVE Sound(ContentOf(D), durableHeader, owner)
    OBVIOUS
  <2> DEFINE c == ContentOf(durable)
             c2 == ContentOf(D)
  <2>1. c[t] = tr
    BY <1>3, <1>5, AloneBelow
  <2>2. Sound(c, durableHeader, owner) /\ Database(c, durableHeader, owner)
    BY BaseSound
  <2>3. c2[t] = v /\ SameBut({t}, c, c2, durableHeader, owner)
    <3>1. D = With(durable, t, v)
      BY <1>9
    <3>2. /\ ContentOf(With(durable, t, v))[t] = v
          /\ SameBut({t}, ContentOf(durable), ContentOf(With(durable, t, v)), durableHeader, owner)
      <4>1. durable \in Pages /\ t \in Page /\ v \in Content
        BY <1>5, <1>6, NowFacts
      <4>2. QED
        BY <4>1, ContentWith
    <3>3. QED
      BY <3>1, <3>2
  <2>4. Database(c2, durableHeader, owner)
    BY <1>9, NowFacts, ContentTypes DEF Database
  <2> HIDE DEF c, c2
  <2>5. c[t] # None
    BY <1>5, <2>1, ContentType
  <2>6. QED
    BY <1>1, <1>5, <2>1, <2>2, <2>3, <2>4, <2>5, SoundSlotTaken DEF c2, v
<1>25. SeenLike(x, D) /\ SeenLike(s1, D)
  <2>1. SameBut({t}, Look(Now, durable), Look(x, D), header, owner)
    BY <1>9, <1>11, <1>14, <1>19 DEF SameBut
  <2>2. \A q \in {t} : owner[q] # "live"
    BY <1>5
  <2>3. QED
    BY <1>3, <1>9, <2>1, <2>2, SeenLikeFrom
<1>26. \A q \in Page : q # t => /\ Below(D, q) = Below(durable, q)
                              /\ Look(s1, D)[q] = Look(s1, durable)[q]
  <2>1. \A q : q # t => Below(With(durable, t, v), q) = Below(durable, q)
    BY DEF Below, With
  <2>2. \A q : q # t => Below(D, q) = Below(durable, q)
    BY <1>9, <2>1, NowFacts
  <2>3. QED
    BY <1>9, <2>2, NowFacts, LookTypes
<1>27. \A q \in Live(owner) : q \in Page /\ q # t
  BY <1>5 DEF Live
<1> HIDE DEF o, t
<1>22. CASE Len(levels) # 0
  <2>1. AllocateInTx(x, s, id, b, w)
    BY <1>9, <1>15, <1>17, <1>18, <1>19, <1>22, <1>25 DEF AllocateInTx, Maybe
  <2>2. Allocable(Look(x, durable), s.header, o, id) /\ Allocate(s, d, id, b)
    BY <1>1, <1>9, <1>20, <1>22, NowFacts
  <2>3. QED
    BY <1>2, <1>22, <2>1, <2>2, AllocateInTxKeeps DEF o
<1>23. CASE Len(levels) = 0
  <2>1. CASE Allocate(s, d, id, b)
    <3>1. x = s
      BY <1>23 DEF x
    <3>2. AllocateAlone(x, s, d, id)
      <4>1. /\ x \in Memory /\ State(s) /\ Len(s.levels) = 0 /\ x.cache = s.cache
            /\ x.levels = s.levels
        BY <1>9, <1>17, <1>23, <3>1 DEF State
      <4>2. x.header.total <= s.header.total /\ id <= s.header.total /\ id \in Page
        BY <1>11, <1>13, <1>15, <1>17, <3>1 DEF Header
      <4>3. d.durable \in Pages /\ d.header \in Header
        BY <1>9, <1>10, NowFacts
      <4>4. \A q \in Live(owner) : Below(d.durable, q) = Below(durable, q)
        BY <1>10, <1>26, <1>27
      <4>5. QED
        BY <4>1, <4>2, <4>3, <4>4 DEF AllocateAlone
    <3>3. /\ Restorable(x, d.durable, owner, options.inMemory, w)
          /\ Allocable(Look(x, d.durable), s.header, o, id)
          /\ SeenLike(x, d.durable) /\ owner[id] # "live"
      BY <1>10, <1>15, <1>19, <1>20, <1>25
    <3>4. ~ m => Sound(ContentOf(d.durable), d.header, owner)
      BY <1>10, <1>21, <1>23
    <3>5. o = HandedOut(owner, id)
      BY DEF o
    <3>6. QED
      BY <1>2, <1>23, <2>1, <3>2, <3>3, <3>4, <3>5, AllocateAloneKeeps
  <2>2. CASE AutoFails(s1, OnDisk, d, owner)
    <3>1. OnDisk.durable = durable /\ OnDisk.header = durableHeader
      BY StoredFields
    <3>2. OnDisk.durable \in Pages /\ OnDisk.header \in Header
          /\ d.durable \in Pages /\ d.header \in Header
      BY <1>9, <1>10, <3>1, NowFacts
    <3>3. /\ ~ m => Sound(ContentOf(OnDisk.durable), OnDisk.header, owner)
          /\ ~ m => Sound(ContentOf(d.durable), d.header, owner)
      BY <1>10, <1>21, <1>23, <3>1, BaseSound
    <3>4. State(s1) /\ Len(s1.levels) = 0 /\ owner \in [Page -> Owner]
      BY <1>9, <1>23, NowFacts
    <3>5. /\ OnlyPage(t, Look(Now, durable), Look(s1, OnDisk.durable), owner, owner)
          /\ OnlyPage(t, ContentOf(durable), ContentOf(d.durable), owner, owner)
      <4>1. \A q \in Live(owner) : /\ Look(s1, durable)[q] = Look(Now, durable)[q]
                                  /\ ContentOf(D)[q] = ContentOf(durable)[q]
        BY <1>25, <1>26, <1>27 DEF SeenLike, ContentOf
      <4>2. QED
        BY <1>10, <3>1, <4>1 DEF OnlyPage, Live
    <3>6. \A q \in Live(owner) : Below(OnDisk.durable, q) = Below(durable, q)
      BY <3>1
    <3>7. t \in Page
      BY <1>5
    <3>8. QED
      BY <1>2, <1>23, <2>2, <3>2, <3>3, <3>4, <3>5, <3>6, <3>7, AutoFailsKeeps
  <2>3. QED
    BY <1>1, <2>1, <2>2
<1>24. QED
  BY <1>22, <1>23, NowFacts

-----------------------------------------------------------------------------
(* free_page.                                                              *)

\* Page p is given back: page q, trunk t or p itself, gets content v.  The header is the one
\* that counts the page, or what is below, where it may be stale.
PutBack(c, c2, h, h2, o, o2, p, t, q, v) ==
  /\ Database(c, h, o) /\ Database(c2, h2, o2) /\ Sound(c, h, o)
  /\ p \in Page /\ Freed(o, o2, p)
  /\ c2[q] = v /\ SameBut({q}, c, c2, h2, o2)
  /\ h2.total = h.total /\ (h2.trunk = h.trunk \/ (t = h.trunk /\ h2.trunk = q))
  /\ \/ /\ q = t /\ t \in Page /\ o[t] = "free" /\ c[t] # None
        /\ v = Trunk(c[t].next, Append(c[t].slots, p))
     \/ q = p /\ v = Trunk(t, <<>>)

\* Either way the freelist is sound.
LEMMA SoundPutBack ==
  ASSUME NEW c, NEW c2, NEW h, NEW h2, NEW o, NEW o2, NEW p, NEW t, NEW q, NEW v,
         PutBack(c, c2, h, h2, o, o2, p, t, q, v)
  PROVE  Sound(c2, h2, o2)
<1>1. /\ Database(c, h, o) /\ Database(c2, h2, o2) /\ Sound(c, h, o)
      /\ p \in Page /\ Freed(o, o2, p)
      /\ c2[q] = v /\ SameBut({q}, c, c2, h2, o2) /\ h2.total = h.total
  BY DEF PutBack
<1>2. CASE /\ q = t /\ t \in Page /\ o[t] = "free" /\ c[t] # None
           /\ v = Trunk(c[t].next, Append(c[t].slots, p))
  <2>1. h2.trunk = h.trunk
    BY <1>2 DEF PutBack
  <2>2. SameBut({p, t}, c, c2, h2, o2)
    BY <1>1, <1>2 DEF SameBut
  <2>3. QED
    BY <1>1, <1>2, <2>1, <2>2, SoundSlotGiven
<1>3. CASE q = p /\ v = Trunk(t, <<>>)
  <2>1. SameBut({p}, c, c2, h2, o2) /\ c2[p] = Trunk(t, <<>>)
    BY <1>1, <1>3
  <2>2. CASE t = h.trunk /\ h2.trunk = q
    BY <1>1, <1>3, <2>1, <2>2, SoundTrunkGiven
  <2>3. CASE h2.trunk = h.trunk
    <3>1. \A r \in Page \ {p} : o2[r] = o[r]
      BY <1>1 DEF Freed, Database
    <3>2. o[p] = "live" /\ p # 1 /\ o2[p] = "free"
      BY <1>1 DEF Freed, Database
    <3>3. h.total <= h2.total
      BY <1>1 DEF Database, Header
    <3>4. QED
      BY <1>1, <2>1, <2>3, <3>1, <3>2, <3>3, SoundElsewhere, ZenonT(60)
  <2>4. QED
    BY <2>2, <2>3 DEF PutBack
<1>4. QED
  BY <1>2, <1>3 DEF PutBack

\* The content that free_page writes is a page of the freelist.
LEMMA PutBackContent ==
  ASSUME NEW n \in Page \cup {0}, NEW s \in Seq(Page), NEW p \in Page
  PROVE  Trunk(n, Append(s, p)) \in Content /\ Trunk(n, <<>>) \in Content
<1>1. Append(s, p) \in Seq(Page) /\ <<>> \in Seq(Page)
  OBVIOUS
<1>2. QED
  BY <1>1, ContentType

\* What free_page has in hand: s is the memory once the trunk has been read.
Giving(p, t, q, v, s, w) ==
  /\ p \in Page /\ p # 1 /\ p <= header.total /\ Freed(owner, [owner EXCEPT ![p] = "free"], p)
  /\ q \in Page /\ q # 1 /\ q <= header.total /\ (q = p \/ owner[q] = "free") /\ v \in Content
  /\ t = header.trunk
  /\ \/ /\ q = t /\ t \in Page /\ owner[t] = "free" /\ Look(Now, durable)[t] # None
        /\ v = Trunk(Look(Now, durable)[t].next, Append(Look(Now, durable)[t].slots, p))
     \/ q = p /\ v = Trunk(t, <<>>)
  /\ State(s) /\ s.header = header /\ s.levels = levels
  /\ Restorable(s, durable, owner, options.inMemory, w)
  /\ SameBut({}, Look(Now, durable), Look(s, durable), header, owner)
  /\ q \in DOMAIN s.cache \cup DOMAIN durable

\* free_page reads the trunk first, if there is one.
LEMMA GivingIsReady ==
  ASSUME NEW w, IAt(w), Roomy, NEW p \in Page, p # 1, owner[p] = "live",
         Steady(Now, durable, owner, options.inMemory, w),
         header.trunk # 0 => CanRead(header.trunk),
         NEW slot \in BOOLEAN, slot => header.trunk # 0
  PROVE  Giving(p, header.trunk, IF slot THEN header.trunk ELSE p,
                IF slot THEN Trunk(Lookup(Now, header.trunk).next,
                                   Append(Lookup(Now, header.trunk).slots, p))
                        ELSE Trunk(header.trunk, <<>>),
                IF header.trunk # 0 THEN Fetch(Now, header.trunk) ELSE Now, w)
<1> DEFINE t  == header.trunk
           tr == Lookup(Now, t)
           s  == IF t # 0 THEN Fetch(Now, t) ELSE Now
           q  == IF slot THEN t ELSE p
           v  == IF slot THEN Trunk(tr.next, Append(tr.slots, p)) ELSE Trunk(t, <<>>)
           m  == options.inMemory
           c  == Look(Now, durable)
<1>1. /\ Sound(c, header, owner) /\ Restorable(Now, durable, owner, m, w)
      /\ p <= header.total /\ c[p] # None /\ owner[1] = "live" /\ 1 \in Page
      /\ Database(c, header, owner)
  BY NowFacts, PageAssumption DEF Steady, Sound, Owned
<1>2. t # 0 => TrunkRead(t, tr, Fetch(Now, t), w)
  BY TrunkIsRead
<1>3. t # 0 => /\ t \in Page /\ t # 1 /\ t <= header.total /\ owner[t] = "free"
               /\ tr = c[t] /\ tr \in Content
  BY <1>2 DEF TrunkRead
<1>4. /\ State(s) /\ s.header = header /\ s.levels = levels
      /\ Restorable(s, durable, owner, m, w) /\ SameBut({}, c, Look(s, durable), header, owner)
      /\ t # 0 => t \in DOMAIN s.cache \cup DOMAIN durable
  <2>1. CASE t # 0
    BY <1>2, <2>1 DEF TrunkRead
  <2>2. CASE t = 0
    BY <1>1, <2>2, NowFacts DEF SameBut
  <2>3. QED
    BY <2>1, <2>2
<1> HIDE DEF s, tr
<1>5. p \in DOMAIN s.cache \cup DOMAIN durable
  <2>1. Look(s, durable)[p] # None
    BY <1>1, <1>4 DEF SameBut
  <2>2. s \in Memory
    BY <1>4 DEF State
  <2>3. InMemory(s, p) # None \/ Below(durable, p) # None
    BY <2>1, <2>2, NowFacts, LookTypes
  <2>4. QED
    BY <2>3 DEF InMemory, Below
<1>6. Freed(owner, [owner EXCEPT ![p] = "free"], p)
  BY DEF Freed
<1>7. v \in Content
  <2>1. CASE slot
    <3>1. tr.next \in Page \cup {0} /\ tr.slots \in Seq(Page)
      BY <1>3, <2>1, ContentType
    <3>2. QED
      BY <2>1, <3>1, PutBackContent
  <2>2. CASE ~ slot
    <3>1. t \in Page \cup {0}
      BY <1>3
    <3>2. <<>> \in Seq(Page)
      OBVIOUS
    <3>3. QED
      BY <2>2, <3>1, <3>2, PutBackContent
  <2>3. QED
    BY <2>1, <2>2
<1>8. /\ q \in Page /\ q # 1 /\ q <= header.total /\ (q = p \/ owner[q] = "free")
      /\ q \in DOMAIN s.cache \cup DOMAIN durable
  BY <1>1, <1>3, <1>4, <1>5
<1>9. \/ /\ q = t /\ t \in Page /\ owner[t] = "free" /\ c[t] # None
         /\ v = Trunk(c[t].next, Append(c[t].slots, p))
      \/ q = p /\ v = Trunk(t, <<>>)
  BY <1>3, ContentType
<1> HIDE DEF v, q
<1>10. Giving(p, t, q, v, s, w)
  BY <1>1, <1>4, <1>6, <1>7, <1>8, <1>9 DEF Giving
<1>11. QED
  BY <1>10 DEF v, q, s, tr

\* The header that counts one page more, with q at the head of the freelist.
GivenBy(o, p) == [o EXCEPT ![p] = "free"]
HeaderSet(s, h) == [s EXCEPT !.header = h]
Counted(h, t, q) == [h EXCEPT !.free = IF t = 0 THEN 1 ELSE @ + 1, !.trunk = q]

\* The header that counts a page has it at the head of the freelist.
LEMMA CountedFields ==
  ASSUME NEW h \in Header, NEW t, NEW q \in Page
  PROVE  /\ Counted(h, t, q) \in Header /\ Counted(h, t, q).total = h.total
         /\ Counted(h, t, q).trunk = q
<1>1. q \in Nat /\ (IF t = 0 THEN 1 ELSE h.free + 1) \in Nat
  BY PageAssumption DEF Header
<1>2. QED
  BY <1>1 DEF Counted, Header

\* Only the header of the freelist changes.
LEMMA HeaderSetKeeps ==
  ASSUME NEW w, NEW s, State(s), NEW h \in Header, h.total = s.header.total,
         NEW d \in Pages, NEW o \in [Page -> Owner], NEW m \in BOOLEAN, Restorable(s, d, o, m, w)
  PROVE  /\ State(HeaderSet(s, h)) /\ HeaderSet(s, h).levels = s.levels
         /\ HeaderSet(s, h).header = h
         /\ Restorable(HeaderSet(s, h), d, o, m, w) /\ Look(HeaderSet(s, h), d) = Look(s, d)
<1> DEFINE s2 == HeaderSet(s, h)
<1>1. s2 = [s EXCEPT !.header = h]
  BY DEF HeaderSet
<1> HIDE DEF s2
<1>2. /\ State(s2) /\ s2 \in Memory /\ s2.cache = s.cache /\ s2.levels = s.levels
      /\ s2.header = h
  BY <1>1, HeaderFields
<1>3. HeaderStep(s, s2) /\ s \in Memory
  BY <1>2 DEF HeaderStep, State
<1>4. Restorable(s2, d, o, m, w) /\ Look(s2, d) = Look(s, d)
  BY <1>3, HeaderKeeps
<1>5. QED
  BY <1>2, <1>4 DEF s2

\* The memory that the write of the page leaves, before the header counts it.
GivingDone(p, t, q, v, r, d, o, w) ==
  /\ State(r) /\ r.header = header /\ Len(r.levels) = Len(levels)
  /\ d \in Pages /\ Restorable(r, d, o, options.inMemory, w)
  /\ SameBut({q}, Look(Now, durable), Look(r, d), header, o)
  /\ Look(r, d)[q] = v

\* The header makes the freelist sound again.
LEMMA GivingIsCounted ==
  ASSUME NEW w, IAt(w), Steady(Now, durable, owner, options.inMemory, w),
         NEW p, NEW t, NEW q, NEW v, NEW s, Giving(p, t, q, v, s, w), NEW r, NEW d,
         GivingDone(p, t, q, v, r, d, GivenBy(owner, p), w),
         NEW r2, r2 = HeaderSet(r, Counted(header, t, q))
  PROVE  /\ State(r2) /\ r2.levels = r.levels
         /\ Steady(r2, d, GivenBy(owner, p), options.inMemory, w)
         /\ OnlyPage(p, Look(Now, durable), Look(r2, d), owner, GivenBy(owner, p))
<1> DEFINE o == GivenBy(owner, p)
           m == options.inMemory
           c == Look(Now, durable)
           h == Counted(header, t, q)
<1>1. /\ p \in Page /\ Freed(owner, o, p) /\ q \in Page /\ t = header.trunk
      /\ \/ /\ q = t /\ t \in Page /\ owner[t] = "free" /\ c[t] # None
            /\ v = Trunk(c[t].next, Append(c[t].slots, p))
         \/ q = p /\ v = Trunk(t, <<>>)
      /\ q = p \/ owner[q] = "free"
  BY DEF Giving, GivenBy
<1>2. /\ State(r) /\ r \in Memory /\ r.header = header
      /\ d \in Pages /\ Restorable(r, d, o, m, w)
      /\ SameBut({q}, c, Look(r, d), header, o) /\ Look(r, d)[q] = v
  BY DEF GivingDone, State
<1>3. Database(c, header, owner) /\ Sound(c, header, owner) /\ header \in Header /\ m \in BOOLEAN
      /\ o \in [Page -> Owner]
  BY NowFacts DEF Steady, Owner, GivenBy
<1>4. h \in Header /\ h.total = header.total /\ h.trunk = q
  BY <1>1, <1>3, CountedFields
<1> HIDE DEF o
<1>5. /\ State(r2) /\ r2.levels = r.levels /\ r2.header = h
      /\ Restorable(r2, d, o, m, w) /\ Look(r2, d) = Look(r, d)
  <2>1. /\ State(r) /\ header \in Header /\ r.header = header /\ q \in Page
        /\ d \in Pages /\ o \in [Page -> Owner] /\ m \in BOOLEAN /\ Restorable(r, d, o, m, w)
        /\ r2 = HeaderSet(r, h) /\ h \in Header /\ h.total = r.header.total
    BY <1>1, <1>2, <1>3, <1>4
  <2> HIDE DEF m, h
  <2>2. QED
    BY <2>1, HeaderSetKeeps
<1>6. Sound(Look(r, d), h, o) /\ OnlyPage(p, c, Look(r, d), owner, o)
  <2> DEFINE c2 == Look(r, d)
  <2>1. Database(c2, h, o)
    BY <1>2, <1>3, <1>4, LookTypes DEF Database
  <2>2. SameBut({q}, c, c2, h, o)
    BY <1>2, <1>4 DEF SameBut
  <2>3. c2[q] = v
    BY <1>2
  <2> HIDE DEF c, c2, h
  <2>4. PutBack(c, c2, header, h, owner, o, p, t, q, v)
    BY <1>1, <1>3, <1>4, <2>1, <2>2, <2>3 DEF PutBack
  <2>5. Sound(c2, h, o)
    BY <2>4, SoundPutBack
  <2>6. /\ \A x \in Page : x # p => (o[x] = "live" <=> owner[x] = "live")
        /\ \A x \in {q} : x = p \/ o[x] # "live"
    BY <1>1 DEF Freed
  <2>7. OnlyPage(p, c, c2, owner, o)
    BY <2>2, <2>5, <2>6, OnlyPageFrom
  <2>8. QED
    BY <2>5, <2>7 DEF c2
<1>7. QED
  BY <1>5, <1>6 DEF Steady, o

\* free_page in a transaction keeps the invariant.
LEMMA FreeInTxKeeps ==
  ASSUME NEW w, IAt(w), Roomy, NEW p \in Page, Free(p), InTx(Now)
  PROVE  IAt(w)' /\ Effect
<1> DEFINE t    == header.trunk
           tr   == Lookup(Now, t)
           slot == t # 0 /\ Len(tr.slots) < SlotsPerTrunk
           s0   == IF t # 0 THEN Fetch(Now, t) ELSE Now
           q    == IF slot THEN t ELSE p
           v    == IF slot THEN Trunk(tr.next, Append(tr.slots, p)) ELSE Trunk(t, <<>>)
           s1   == Put(s0, q, v)
           s2   == [s1 EXCEPT !.header.free = IF t = 0 THEN 1 ELSE @ + 1, !.header.trunk = q]
           o    == [owner EXCEPT ![p] = "free"]
           m    == options.inMemory
<1>1. /\ Worked /\ p # 1 /\ owner[p] = "live" /\ (t # 0 => CanRead(t)) /\ InTxStep(s2, o)
  BY DEF Free
<1>2. work' \in 0 .. MaxWork /\ Len(levels) # 0
  BY <1>1, NowFacts, WorkedType
<1>3. Steady(Now, durable, owner, m, w) /\ m \in BOOLEAN /\ o \in [Page -> Owner]
  BY <1>2, NowFacts DEF IAt, Owner
<1>4. Giving(p, t, q, v, s0, w)
  <2>1. slot \in BOOLEAN /\ (slot => t # 0)
    OBVIOUS
  <2> HIDE DEF slot
  <2>2. QED
    BY <1>1, <1>3, <2>1, GivingIsReady
<1> HIDE DEF s0, q, v
<1>5. /\ q \in Page /\ q <= header.total /\ v \in Content /\ Freed(owner, o, p)
      /\ State(s0) /\ s0 \in Memory /\ s0.header = header /\ s0.levels = levels
      /\ Restorable(s0, durable, owner, m, w) /\ q \in DOMAIN s0.cache \cup DOMAIN durable
      /\ SameBut({}, Look(Now, durable), Look(s0, durable), header, owner)
  BY <1>4 DEF Giving, State
<1>6. Restorable(s0, durable, o, m, w)
  BY <1>3, <1>5, NowFacts, FreedKeeps
<1>7. s1 = PutInTx(s0, q, v)
  BY <1>2, <1>5 DEF Put, InTx
<1> HIDE DEF s1
<1>8. TxPut(s0, q, v, o, o)
  BY <1>2, <1>3, <1>5 DEF TxPut, MustRead
<1>9. /\ Follows(s1, s0) /\ Restorable(s1, durable, o, m, w) /\ Shows(s1, durable, q, v)
      /\ SameBut({q}, Look(s0, durable), Look(s1, durable), s0.header, o)
  <2> HIDE DEF o
  <2>1. QED
    BY <1>6, <1>7, <1>8, NowFacts, PutInTxKeeps
<1>10. GivingDone(p, t, q, v, s1, durable, o, w)
  <2>1. o[p] # "new" /\ owner[p] # "new" /\ \A x \in Page : x # p => o[x] = owner[x]
    BY <1>1, NowFacts
  <2>2. SameBut({q}, Look(Now, durable), Look(s1, durable), header, o)
    BY <1>5, <1>9, <2>1 DEF SameBut
  <2> HIDE DEF o
  <2>3. QED
    BY <1>5, <1>9, <2>2, NowFacts DEF GivingDone, Follows, Shows
<1>11. s1.header = header /\ s1.levels[1].owner = levels[1].owner /\ Len(s1.levels) = Len(levels)
       /\ s1 \in Memory
  BY <1>5, <1>9 DEF Follows, State
<1>12. s2 = HeaderSet(s1, Counted(header, t, q)) /\ o = GivenBy(owner, p)
  BY <1>11 DEF Counted, HeaderSet, GivenBy, Memory, Header
<1> HIDE DEF s2
<1>13. /\ State(s2) /\ s2.levels = s1.levels /\ Steady(s2, durable, o, m, w)
       /\ OnlyPage(p, Look(Now, durable), Look(s2, durable), owner, o)
  <2> HIDE DEF o
  <2>1. QED
    BY <1>3, <1>4, <1>10, <1>12, GivingIsCounted
<1>14. QED
  <2> HIDE DEF o
  <2>1. QED
    BY <1>1, <1>2, <1>3, <1>11, <1>13, InTxStepKeeps

\* free_page outside a transaction keeps it, whether its write succeeds or fails.
LEMMA FreeAloneKeeps ==
  ASSUME NEW w, IAt(w), Roomy, NEW p \in Page, Free(p), ~ InTx(Now), ~ ioFailed
  PROVE  IAt(w)' /\ Effect
<1> DEFINE t    == header.trunk
           tr   == Lookup(Now, t)
           slot == t # 0 /\ Len(tr.slots) < SlotsPerTrunk
           s0   == IF t # 0 THEN Fetch(Now, t) ELSE Now
           q    == IF slot THEN t ELSE p
           v    == IF slot THEN Trunk(tr.next, Append(tr.slots, p)) ELSE Trunk(t, <<>>)
           s1   == Put(s0, q, v)
           s2   == [s1 EXCEPT !.header.free = IF t = 0 THEN 1 ELSE @ + 1, !.header.trunk = q]
           o    == [owner EXCEPT ![p] = "free"]
           d    == Stored(OnDisk, header, q, v)
           D    == With(durable, q, v)
           m    == options.inMemory
<1>1. /\ Worked /\ p # 1 /\ owner[p] = "live" /\ (t # 0 => CanRead(t))
      /\ AutoOk(s2, d, o) \/ AutoFails(s1, OnDisk, d, o)
  BY DEF Free
<1>2. work' \in 0 .. MaxWork /\ Len(levels) = 0
  BY <1>1, NowFacts, WorkedType
<1>3. Steady(Now, durable, owner, m, w) /\ m \in BOOLEAN /\ o \in [Page -> Owner]
  BY <1>2, NowFacts DEF IAt, Owner
<1>4. Giving(p, t, q, v, s0, w)
  <2>1. slot \in BOOLEAN /\ (slot => t # 0)
    OBVIOUS
  <2> HIDE DEF slot
  <2>2. QED
    BY <1>1, <1>3, <2>1, GivingIsReady
<1> HIDE DEF s0, q, v
<1>5. /\ q \in Page /\ q # 1 /\ q <= header.total /\ v \in Content /\ Freed(owner, o, p)
      /\ State(s0) /\ s0 \in Memory /\ s0.header = header /\ s0.levels = levels
      /\ Restorable(s0, durable, owner, m, w) /\ (q = p \/ owner[q] = "free")
      /\ SameBut({}, Look(Now, durable), Look(s0, durable), header, owner)
      /\ \/ /\ q = t /\ t \in Page /\ owner[t] = "free" /\ Look(Now, durable)[t] # None
            /\ v = Trunk(Look(Now, durable)[t].next, Append(Look(Now, durable)[t].slots, p))
         \/ q = p /\ v = Trunk(t, <<>>)
  BY <1>4 DEF Giving, State
<1>6. Restorable(s0, durable, o, m, w)
  BY <1>3, <1>5, NowFacts, FreedKeeps
<1>7. s1 = PutAlone(s0, q, v) /\ Len(s0.levels) = 0
  BY <1>2, <1>5, NowFacts DEF Put, InTx
<1> HIDE DEF s1
<1>8. D \in Pages /\ o[q] = "free"
  BY <1>5, NowFacts, WithType
<1>9. AloneWrite(s0, s0, durable, D, o, o, q, v)
  BY <1>3, <1>5, <1>7, <1>8, NowFacts DEF AloneWrite, Header
<1>10. ~ IsNew(o, q)
  BY <1>8 DEF IsNew
<1> HIDE DEF D
<1>11. /\ State(s1) /\ s1.header = header /\ s1.levels = levels
       /\ Restorable(s1, D, o, m, w) /\ Shows(s1, D, q, v)
       /\ SameBut({q}, Look(s0, durable), Look(s1, D), header, o)
  <2> HIDE DEF o
  <2>1. /\ Restorable(s1, D, o, m, w) /\ Shows(s1, D, q, v)
        /\ SameBut({q}, Look(s0, durable), Look(s1, D), s0.header, o)
    BY <1>6, <1>7, <1>9, <1>10, NowFacts, PutAloneKeeps
  <2>2. State(s1) /\ s1.header = s0.header /\ s1.levels = s0.levels
    BY <1>5, <1>7, PutAloneFields
  <2>3. QED
    BY <1>5, <2>1, <2>2
<1>12. \A x \in Page : o[x] # "new" => owner[x] # "new"
  BY <1>1, NowFacts
<1>13. GivingDone(p, t, q, v, s1, D, o, w)
  <2>1. SameBut({q}, Look(Now, durable), Look(s1, D), header, o)
    BY <1>5, <1>11, <1>12 DEF SameBut
  <2> HIDE DEF o
  <2>2. QED
    BY <1>8, <1>11, <2>1, NowFacts DEF GivingDone, Shows
<1>14. s2 = HeaderSet(s1, Counted(header, t, q)) /\ o = GivenBy(owner, p)
  BY <1>11 DEF Counted, HeaderSet, GivenBy, State, Memory, Header
<1> HIDE DEF s2
<1>15. /\ State(s2) /\ Len(s2.levels) = 0 /\ Steady(s2, D, o, m, w)
       /\ OnlyPage(p, Look(Now, durable), Look(s2, D), owner, o)
  <2> HIDE DEF o
  <2>1. /\ State(s2) /\ s2.levels = s1.levels /\ Steady(s2, D, o, m, w)
        /\ OnlyPage(p, Look(Now, durable), Look(s2, D), owner, o)
    BY <1>3, <1>4, <1>13, <1>14, GivingIsCounted
  <2>2. QED
    BY <1>2, <1>11, <2>1, NowFacts
<1>16. d = [durable |-> d.durable, header |-> d.header] /\ d.durable = D /\ d.header = durableHeader
       /\ OnDisk.durable = durable /\ OnDisk.header = durableHeader
  BY <1>5, StoredFields DEF D
<1>17. ~ m => Sound(ContentOf(D), durableHeader, o)
  <2> SUFFICES ASSUME ~ m PROVE Sound(ContentOf(D), durableHeader, o)
    OBVIOUS
  <2> DEFINE c  == ContentOf(durable)
             c2 == ContentOf(D)
             h  == durableHeader
  <2>1. Sound(c, h, owner) /\ Database(c, h, owner)
    BY <1>2, BaseSound
  <2>2. c2[q] = v /\ SameBut({q}, c, c2, h, o)
    <3>1. /\ ContentOf(With(durable, q, v))[q] = v
          /\ SameBut({q}, ContentOf(durable), ContentOf(With(durable, q, v)), h, o)
      BY <1>5, NowFacts, ContentWith, ZenonT(60)
    <3>2. QED
      BY <3>1 DEF D
  <2>3. Database(c2, h, o)
    BY <1>3, <1>8, NowFacts, ContentTypes DEF Database
  <2>4. t \in Page /\ owner[t] = "free" => c[t] = Look(Now, durable)[t]
    <3>1. owner[t] = "free" => owner[t] # "new"
      OBVIOUS
    <3>2. QED
      BY <1>2, <1>3, <3>1, AloneBelow
  <2> HIDE DEF c, c2, o, t, h
  <2>5. PutBack(c, c2, h, h, owner, o, p, t, q, v)
    BY <1>5, <2>1, <2>2, <2>3, <2>4 DEF PutBack
  <2>6. QED
    BY <2>5, SoundPutBack DEF c2, h
<1>21. \A x \in Page : x # q => /\ Below(D, x) = Below(durable, x)
                              /\ Look(s1, D)[x] = Look(s1, durable)[x]
  <2>1. \A x : x # q => Below(With(durable, q, v), x) = Below(durable, x)
    BY DEF Below, With
  <2>2. \A x : x # q => Below(D, x) = Below(durable, x)
    BY <2>1 DEF D
  <2>3. s1 \in Memory
    BY <1>11 DEF State
  <2>4. QED
    BY <1>8, <2>2, <2>3, NowFacts, LookTypes
<1>22. /\ OnlyPage(q, Look(Now, durable), Look(s1, durable), owner, owner)
       /\ OnlyPage(p, ContentOf(durable), ContentOf(D), owner, o)
  <2>1. \A x \in Live(owner) : x \in Page /\ x <= header.total /\ o[x] # "new"
    <3>1. Sound(Look(Now, durable), header, owner)
      BY <1>3, NowFacts DEF Steady
    <3>2. QED
      BY <1>1, <3>1, NowFacts DEF Sound, Owned, Live
  <2>2. SameBut({q}, Look(Now, durable), Look(s1, D), header, o)
    BY <1>13 DEF GivingDone
  <2>3. \A x \in Live(owner) : x # q => Look(s1, durable)[x] = Look(Now, durable)[x]
    BY <1>21, <2>1, <2>2 DEF SameBut
  <2>4. \A x \in Page : x # p => o[x] = owner[x]
    BY <1>1, NowFacts
  <2>5. \A x \in Live(owner) : x # p => ContentOf(D)[x] = ContentOf(durable)[x]
    BY <1>5, <1>21 DEF Live, ContentOf
  <2> HIDE DEF o
  <2>6. QED
    BY <2>3, <2>4, <2>5 DEF OnlyPage, Live
<1> HIDE DEF o, d
<1>18. CASE AutoOk(s2, d, o)
  <2>1. OnlyPage(p, Look(Now, durable), Look(s2, d.durable), owner, o)
    BY <1>15, <1>16
  <2>2. /\ d.durable \in Pages /\ d.header \in Header
        /\ Steady(s2, d.durable, o, m, w)
        /\ ~ m => Sound(ContentOf(d.durable), d.header, o)
    BY <1>8, <1>15, <1>16, <1>17, NowFacts
  <2>3. QED
    BY <1>2, <1>3, <1>15, <1>16, <1>18, <2>1, <2>2, AutoOkKeeps
<1>19. CASE AutoFails(s1, OnDisk, d, o)
  <2>1. State(s1) /\ Len(s1.levels) = 0
    BY <1>2, <1>11, NowFacts
  <2>2. /\ OnDisk.durable \in Pages /\ OnDisk.header \in Header
        /\ ~ ioFailed => d.durable \in Pages /\ d.header \in Header
        /\ ~ m => Sound(ContentOf(OnDisk.durable), OnDisk.header, owner)
        /\ ~ m /\ ~ ioFailed => Sound(ContentOf(d.durable), d.header, o)
    BY <1>2, <1>8, <1>16, <1>17, NowFacts, BaseSound
  <2>3. \A x \in Live(owner) : Below(OnDisk.durable, x) = Below(durable, x)
    BY <1>16
  <2>4. /\ OnlyPage(q, Look(Now, durable), Look(s1, OnDisk.durable), owner, owner)
        /\ OnlyPage(p, ContentOf(durable), ContentOf(d.durable), owner, o)
    BY <1>16, <1>22
  <2>5. QED
    BY <1>2, <1>3, <1>5, <1>19, <2>1, <2>2, <2>3, <2>4, AutoFailsKeeps
<1>20. QED
  BY <1>1, <1>18, <1>19

\* After an I/O failure outside a transaction only a first trunk can be made, and the write
\* fails again.
LEMMA FreeFailedKeeps ==
  ASSUME NEW w, IAt(w), Roomy, NEW p \in Page, Free(p), ~ InTx(Now), ioFailed
  PROVE  IAt(w)' /\ Effect
<1> DEFINE v == Trunk(0, <<>>)
           s == PutAlone(Now, p, v)
           o == [owner EXCEPT ![p] = "free"]
           d == Stored(OnDisk, header, p, v)
<1>1. header.trunk = 0 /\ Worked
  BY DEF Free
<1>2. AutoFails(s, OnDisk, d, o)
  BY <1>1 DEF Free, AutoOk, Put
<1>3. work' \in 0 .. MaxWork /\ Len(levels) = 0 /\ o \in [Page -> Owner]
  BY <1>1, NowFacts, WorkedType DEF Owner
<1>4. v \in Content
  <2>1. <<>> \in Seq(Page) /\ 0 \in Page \cup {0}
    OBVIOUS
  <2>2. QED
    BY <2>1, ContentType
<1> HIDE DEF v
<1>5. State(s) /\ Len(s.levels) = 0
  BY <1>3, <1>4, NowFacts, PutAloneFields
<1>6. /\ OnDisk.durable \in Pages /\ OnDisk.header \in Header
      /\ ~ options.inMemory => Sound(ContentOf(OnDisk.durable), OnDisk.header, owner)
  BY <1>3, NowFacts, BaseSound DEF OnDisk
<1>7. \A x \in Live(owner) : Below(OnDisk.durable, x) = Below(durable, x)
  BY StoredFields
<1> HIDE DEF s, d, o
<1>8. QED
  BY <1>2, <1>3, <1>5, <1>6, <1>7, AutoFailsKeeps

\* free_page keeps the invariant.
LEMMA FreeKeeps ==
  ASSUME NEW w, IAt(w), Roomy, NEW p \in Page, Free(p)
  PROVE  IAt(w)' /\ Effect
BY FreeInTxKeeps, FreeAloneKeeps, FreeFailedKeeps
=============================================================================
