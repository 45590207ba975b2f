----------------------------- MODULE PagerProofs -----------------------------
(***************************************************************************)
(* Proofs about Pager, for every set of pages and every bound: begin,      *)
(* savepoints, commit, rollback and crashes keep the invariant of          *)
(* PagerLemmas, no page that somebody has written is lost, none is handed  *)
(* out twice, and the pager implements the transactional store of          *)
(* PageStore.                                                              *)
(***************************************************************************)
EXTENDS PagerLemmas

-----------------------------------------------------------------------------
(* Levels are opened.                                                      *)

\* A step that changes the levels only.
LEMMA LevelsStepKeeps ==
  ASSUME NEW w, IAt(w), NEW s, s = [Now EXCEPT !.levels = levels'], levels' \in Seq(LevelRec),
         Steady(s, durable, owner, options.inMemory, w),
         OwnerAt(s, owner, 1) = OwnerAt(Now, owner, 1),
         UNCHANGED <<options, cache, lru, header, durableVars, ioFailed, doubt, work, owner>>
  PROVE  IAt(w)'
<1>1. /\ s \in Memory /\ s.cache = cache /\ s.lru = lru /\ s.header = header /\ s.levels = levels'
  BY NowFacts, MemoryFields DEF Memory, Now
<1>2. State(s)
  BY <1>1, NowFacts DEF State, Tracked
<1>3. /\ Now' = s /\ options' = options /\ owner' = owner /\ work' = work
      /\ durable' = durable /\ durableHeader' = durableHeader /\ ioFailed' = ioFailed
      /\ doubt' = doubt
  BY <1>1, NowFacts DEF Now, durableVars
<1>4. Types' /\ Flags'
  BY <1>2, <1>3 DEF IAt, Types, Flags
<1>5. OnBase(Now, durable, durableHeader, owner, options.inMemory)'
  BY <1>3 DEF IAt, OnBase
<1>6. QED
  BY <1>3, <1>4, <1>5 DEF IAt

\* A new level has the header and the owners of now, and has noted nothing.
LEMMA NewLevelType ==
  ASSUME NEW s \in Memory, NEW name \in Name \cup {None}, owner \in [Page -> Owner]
  PROVE  /\ NewLevel(name, s) \in LevelRec /\ NewLevel(name, s).header = s.header
         /\ NewLevel(name, s).undo = <<>> /\ NewLevel(name, s).owner = owner
<1>1. <<>> \in Undo
  <2>1. <<>> \in [DOMAIN <<>> -> Content] /\ DOMAIN <<>> \subseteq Page
    BY EmptyPages, PagesType
  <2>2. <<>> \in [DOMAIN <<>> -> Maybe]
    BY <2>1 DEF Maybe
  <2>3. QED
    BY <2>1, <2>2, UndoType
<1>2. s.header \in Header
  BY MemoryFields
<1>3. QED
  BY <1>1, <1>2 DEF NewLevel, LevelRec

Deeper(s, name) == [s EXCEPT !.levels = Append(s.levels, NewLevel(name, s))]

\* Opening a level keeps what can be restored, and the owners at the first.
LEMMA NewLevelKeeps ==
  ASSUME NEW w, NEW s \in Memory, NEW d \in Pages, owner \in [Page -> Owner], NEW m \in BOOLEAN,
         Steady(s, d, owner, m, w), Restores(Look(s, d), w[Present(s)], s.header, owner),
         NEW name \in Name \cup {None}, NEW s2, s2 = Deeper(s, name)
  PROVE  /\ s2 \in Memory /\ s2.levels = Append(s.levels, NewLevel(name, s))
         /\ s2.header = s.header /\ s2.cache = s.cache /\ s2.lru = s.lru
         /\ Look(s2, d) = Look(s, d)
         /\ Steady(s2, d, owner, m, w) /\ OwnerAt(s2, owner, 1) = OwnerAt(s, owner, 1)
<1> DEFINE l == NewLevel(name, s)
<1>1. l \in LevelRec /\ l.header = s.header /\ l.undo = <<>> /\ l.owner = owner
  BY NewLevelType
<1> HIDE DEF l
<1>2. s.levels \in Seq(LevelRec) /\ Append(s.levels, l) \in Seq(LevelRec)
  BY <1>1, MemoryFields
<1>3. s2 = [s EXCEPT !.levels = Append(s.levels, l)]
  BY DEF Deeper, l
<1>4. /\ s2 \in Memory /\ s2.levels = Append(s.levels, l)
      /\ s2.header = s.header /\ s2.cache = s.cache /\ s2.lru = s.lru
  BY <1>2, <1>3, MemoryFields DEF Memory
<1>5. Opened(s, s2, owner, l)
  BY <1>1, <1>4 DEF Opened
<1>6. Restorable(s2, d, owner, m, w) /\ Look(s2, d) = Look(s, d)
  <2>1. Restorable(s, d, owner, m, w)
    BY DEF Steady
  <2>2. QED
    <3>1. Opening(s, s2, d, owner, m, l, w)
      BY <1>1, <1>5, <2>1 DEF Opening
    <3>2. QED
      BY <3>1, OpenedKeeps
<1>7. OwnerAt(s2, owner, 1) = OwnerAt(s, owner, 1)
  <2>1. Len(s.levels) \in Nat /\ Len(s2.levels) = Len(s.levels) + 1
    BY <1>2, <1>4
  <2>2. CASE Len(s.levels) = 0
    <3>1. s2.levels[1] = l
      BY <1>2, <1>4, <2>2
    <3>2. QED
      BY <1>1, <2>1, <2>2, <3>1 DEF OwnerAt, Levels
  <2>3. CASE Len(s.levels) # 0
    <3>1. s2.levels[1] = s.levels[1]
      BY <1>2, <1>4, <2>1, <2>3
    <3>2. QED
      BY <2>1, <2>3, <3>1 DEF OwnerAt, Levels
  <2>4. QED
    BY <2>2, <2>3
<1>8. QED
  BY <1>4, <1>6, <1>7 DEF Steady, l

\* The first element of a sequence.
LEMMA AppendEmpty ==
  ASSUME NEW x
  PROVE  Append(<<>>, x) = <<x>>
OBVIOUS

\* begin_transaction keeps the invariant.
LEMMA BeginKeeps ==
  ASSUME NEW w, IAt(w), Begin, w[1] = Seen
  PROVE  IAt(w)'
<1> DEFINE m  == options.inMemory
           s  == Deeper(Now, None)
<1>0. Seen.content = Look(Now, durable) /\ Seen.owner = owner
  BY DEF Seen
<1>1. /\ Len(levels) = 0 /\ levels = <<>> /\ ~ ioFailed /\ levels' = <<NewLevel(None, Now)>>
      /\ UNCHANGED <<options, cache, lru, header, durableVars, ioFailed, doubt, work, owner>>
  BY NowFacts DEF Begin, InTx
<1>2. Steady(Now, durable, owner, m, w) /\ m \in BOOLEAN
  BY <1>1, NowFacts DEF IAt
<1>3. Append(Now.levels, NewLevel(None, Now)) = levels'
  <2>1. Now.levels = <<>>
    BY <1>1, NowFacts
  <2>2. QED
    BY <1>1, <2>1, AppendEmpty
<1>4. s = [Now EXCEPT !.levels = levels']
  BY <1>3, NowFacts DEF Deeper
<1> HIDE DEF s
<1>5. /\ s \in Memory /\ s.levels = Append(Now.levels, NewLevel(None, Now))
      /\ Steady(s, durable, owner, m, w) /\ OwnerAt(s, owner, 1) = OwnerAt(Now, owner, 1)
  <2>1. Present(Now) = 1 /\ Now.header = header
    BY <1>1, NowFacts DEF Present
  <2>2. Restores(Look(Now, durable), w[Present(Now)], Now.header, owner)
    BY <1>0, <1>2, <2>1 DEF Restores, Steady, SameBut
  <2>3. QED
    BY <1>2, <2>2, NowFacts, NewLevelKeeps DEF s
<1>6. levels' \in Seq(LevelRec)
  BY <1>3, <1>5, NowFacts, MemoryFields
<1>7. QED
  BY <1>1, <1>4, <1>5, <1>6, LevelsStepKeeps

\* create_savepoint keeps it, with a transaction or without one.
LEMMA CreateSavepointKeeps ==
  ASSUME NEW w, IAt(w), NEW name \in Name, CreateSavepoint(name),
         w[Len(levels) + 1] = Seen, Len(levels) = 0 => w[2] = Seen
  PROVE  IAt(w)'
<1> DEFINE m  == options.inMemory
           x  == IF InTx(Now) THEN Now
                 ELSE Deeper(Now, None)
           s  == Deeper(x, name)
<1>0. Seen.content = Look(Now, durable) /\ Seen.owner = owner
  BY DEF Seen
<1>1. /\ Len(levels) # 0 \/ (~ ioFailed /\ levels = <<>>)
      /\ UNCHANGED <<options, cache, lru, header, durableVars, ioFailed, doubt, work, owner>>
      /\ levels' = (IF InTx(Now) THEN levels ELSE <<NewLevel(None, Now)>>) \o <<NewLevel(name, Now)>>
  BY NowFacts DEF CreateSavepoint, InTx
<1>2. Steady(Now, durable, owner, m, w) /\ m \in BOOLEAN
  BY <1>1, NowFacts DEF IAt
<1>3. /\ x \in Memory /\ x.cache = cache /\ x.lru = lru /\ x.header = header
      /\ x.levels = IF InTx(Now) THEN levels ELSE <<NewLevel(None, Now)>>
      /\ Steady(x, durable, owner, m, w) /\ OwnerAt(x, owner, 1) = OwnerAt(Now, owner, 1)
      /\ Look(x, durable) = Look(Now, durable)
  <2>1. CASE InTx(Now)
    BY <1>2, <2>1, NowFacts
  <2>2. CASE ~ InTx(Now)
    <3>1. x = Deeper(Now, None)
      BY <2>2
    <3> HIDE DEF x
    <3>2. /\ x \in Memory /\ x.levels = Append(Now.levels, NewLevel(None, Now))
          /\ x.cache = cache /\ x.lru = lru /\ x.header = header
          /\ Steady(x, durable, owner, m, w) /\ OwnerAt(x, owner, 1) = OwnerAt(Now, owner, 1)
          /\ Look(x, durable) = Look(Now, durable)
      <4>1. Present(Now) = 1 /\ w[1] = Seen /\ Now.header = header
        BY <2>2, NowFacts DEF Present
      <4>2. Restores(Look(Now, durable), w[Present(Now)], Now.header, owner)
        BY <1>0, <1>2, <4>1 DEF Restores, Steady, SameBut
      <4>3. QED
        BY <1>2, <3>1, <4>2, NowFacts, NewLevelKeeps
    <3>3. Append(Now.levels, NewLevel(None, Now)) = <<NewLevel(None, Now)>>
      <4>1. Now.levels = <<>>
        BY <2>2 DEF InTx
      <4>2. QED
        BY <4>1, AppendEmpty
    <3>4. QED
      BY <2>2, <3>2, <3>3
  <2>3. QED
    BY <2>1, <2>2
<1> HIDE DEF x
<1>4. NewLevel(name, x) = NewLevel(name, Now)
  BY <1>3, NowFacts DEF NewLevel
<1>5. /\ s \in Memory /\ s.levels = Append(x.levels, NewLevel(name, x))
      /\ s.cache = cache /\ s.lru = lru /\ s.header = header
      /\ Steady(s, durable, owner, m, w) /\ OwnerAt(s, owner, 1) = OwnerAt(x, owner, 1)
  <2>1. name \in Name \cup {None}
    OBVIOUS
  <2>2. s = Deeper(x, name)
    OBVIOUS
  <2> HIDE DEF s, m
  <2>3. /\ x \in Memory /\ durable \in Pages /\ owner \in [Page -> Owner] /\ m \in BOOLEAN
        /\ Steady(x, durable, owner, m, w) /\ x.header = header
        /\ Look(x, durable) = Look(Now, durable)
    BY <1>2, <1>3, NowFacts
  <2>4. /\ s \in Memory /\ s.levels = Append(x.levels, NewLevel(name, x))
        /\ s.header = x.header /\ s.cache = x.cache /\ s.lru = x.lru
        /\ Steady(s, durable, owner, m, w) /\ OwnerAt(s, owner, 1) = OwnerAt(x, owner, 1)
    <3>1. Len(levels) \in Nat /\ Len(x.levels) = IF InTx(Now) THEN Len(levels) ELSE 1
      BY <1>3, NowFacts
    <3>2. w[Present(x)] = Seen
      BY <3>1, NowFacts DEF Present
    <3>3. Restores(Look(x, durable), w[Present(x)], x.header, owner)
      BY <1>0, <2>3, <3>2 DEF Restores, Steady, SameBut
    <3>4. QED
      BY <2>1, <2>2, <2>3, <3>3, NewLevelKeeps
  <2>5. QED
    BY <1>3, <2>4
<1>6. s.levels = levels'
  <2>1. x.levels \in Seq(LevelRec) /\ NewLevel(name, x) \in LevelRec
    BY <1>3, NowFacts, MemoryFields, NewLevelType
  <2>2. levels' = x.levels \o <<NewLevel(name, x)>>
    BY <1>1, <1>3, <1>4
  <2> HIDE DEF s
  <2>3. QED
    BY <1>5, <2>1, <2>2
<1> HIDE DEF s
<1>7. s = [Now EXCEPT !.levels = levels'] /\ levels' \in Seq(LevelRec)
  BY <1>5, <1>6, NowFacts DEF Memory
<1>8. QED
  BY <1>1, <1>3, <1>5, <1>7, LevelsStepKeeps

-----------------------------------------------------------------------------
(* Commit.                                                                 *)

\* The commit writes all that is not below yet.
LEMMA CommittedKeeps ==
  ASSUME NEW w, IAt(w), Len(levels) # 0, NEW s, s = [Now EXCEPT !.levels = <<>>]
  PROVE  /\ State(s) /\ s.levels = <<>> /\ s.header = header
         /\ Committed(Now).durable \in Pages /\ Committed(Now).header = header
         /\ Steady(s, Committed(Now).durable, owner, options.inMemory, w)
         /\ Look(s, Committed(Now).durable) = Look(Now, durable)
         /\ ~ options.inMemory =>
              /\ Sound(ContentOf(Committed(Now).durable), header, owner)
              /\ \A p \in Live(owner) :
                   Below(Committed(Now).durable, p) = Look(Now, durable)[p]
<1> DEFINE m == options.inMemory
           D == Committed(Now).durable
           d == durable
           W == ToWrite(Now)
<1>1. Steady(Now, d, owner, m, w) /\ m \in BOOLEAN
  BY NowFacts DEF IAt
<1>2. PICK u : Past(Now, d, owner, m, u, w)
  BY <1>1 DEF Steady, Restorable
<1>3. <<>> \in Seq(LevelRec)
  OBVIOUS
<1>4. /\ s \in Memory /\ s.cache = cache /\ s.lru = lru /\ s.header = header /\ s.levels = <<>>
  BY <1>3, NowFacts, MemoryFields DEF Memory
<1>5. State(s) /\ Len(s.levels) = 0
  BY <1>4, NowFacts DEF State, Tracked
<1>6. W \subseteq DOMAIN cache /\ W \subseteq Page
  BY NowFacts, MemoryTypes DEF ToWrite
<1>7. D = [p \in DOMAIN d \cup W |-> IF p \in W THEN cache[p] ELSE d[p]]
  BY NowFacts DEF Committed
<1>8. Committed(Now).header = header
  BY NowFacts DEF Committed
<1> HIDE DEF W, D
<1>9. D \in Pages
  <2>1. DOMAIN D \subseteq Page
    BY <1>6, <1>7, NowFacts, PagesType
  <2>2. \A p \in DOMAIN D : D[p] \in Content
    BY <1>6, <1>7, NowFacts, PagesType, MemoryTypes
  <2>3. D \in [DOMAIN D -> Content]
    BY <1>7, <2>2
  <2>4. QED
    BY <2>1, <2>3, PagesType
<1>10. \A p \in Page : Below(D, p) = IF p \in W THEN cache[p] ELSE Below(d, p)
  BY <1>6, <1>7 DEF Below
<1>11. Len(levels) \in Nat /\ 1 \in Levels(Now) /\ 1 \in Points(Now) /\ Present(Now) \in Points(Now)
       /\ Present(Now) \notin Levels(Now)
  BY NowFacts, LevelTypes DEF Levels
<1>12. /\ Undoing(u, Now) /\ Grows(Now, owner) /\ Notes(Now) /\ Within(Now, u)
       /\ m => InCache(Now, d)
       /\ ~ m => Synced(Now, u, d, owner)
  BY <1>2 DEF Past
<1>13. \A p \in DOMAIN cache : p \in Page /\ p <= header.total
  <2>1. ASSUME NEW p \in DOMAIN cache PROVE p \in Page /\ p <= header.total
    <3>1. p \in Page /\ InMemory(Now, p) # None
      BY NowFacts, MemoryTypes
    <3>2. u[Present(Now)][p] # None
      BY <1>12, <3>1 DEF Undoing
    <3>3. p <= HeaderAt(Now, Present(Now)).total
      BY <1>11, <1>12, <3>1, <3>2 DEF Within
    <3>4. QED
      BY <1>11, <3>1, <3>3, NowFacts DEF HeaderAt
  <2>2. QED
    BY <2>1
<1>14. ASSUME ~ m, NEW p \in DOMAIN cache, owner[p] # "new"
       PROVE  p \in DOMAIN D /\ D[p] = cache[p]
  <2>1. p \in Page /\ InMemory(Now, p) = cache[p] /\ cache[p] # None
    BY <1>13, NowFacts, MemoryTypes DEF InMemory
  <2>2. CASE p \in W
    BY <1>7, <2>2
  <2>3. CASE p \notin W
    <3>1. p \notin levels[1].dirty
      BY <1>13, <2>3, NowFacts DEF ToWrite, W
    <3>2. ~ NotedAt(Now, 1, p)
      BY <1>11, <1>12, <3>1, NowFacts DEF Notes, NotedAt
    <3>3. Unnoted(Now, p)
      BY <3>2 DEF Unnoted
    <3>4. u[1][p] = cache[p]
      BY <1>11, <1>12, <2>1, <3>3, NowFacts, NeverNoted
    <3>5. OwnerAt(Now, owner, 1)[p] # "new"
      <4>1. OwnerAt(Now, owner, Present(Now)) = owner
        BY <1>11 DEF OwnerAt
      <4>2. \/ owner[p] = OwnerAt(Now, owner, 1)[p]
            \/ OwnerAt(Now, owner, 1)[p] = "live"
        BY <1>11, <1>12, <2>1, <3>3, <4>1 DEF Grows
      <4>3. QED
        BY <1>14, <4>2
    <3>6. Below(d, p) = cache[p]
      BY <1>12, <1>14, <2>1, <3>4, <3>5 DEF Synced
    <3>7. p \in DOMAIN d
      BY <2>1, <3>6 DEF Below
    <3>8. QED
      BY <1>7, <2>3, <3>6, <3>7 DEF Below
  <2>4. QED
    BY <2>2, <2>3
<1>15. Alone(s, D, owner, m)
  <2>1. 1 \in DOMAIN s.cache /\ \A p \in DOMAIN s.cache : p <= s.header.total
    BY <1>4, <1>12, <1>13, NowFacts DEF Within
  <2>2. m => \A p \in DOMAIN D : p \in DOMAIN s.cache
    BY <1>4, <1>6, <1>7, <1>12, NowFacts DEF InCache
  <2>3. ~ m => \A p \in DOMAIN s.cache : owner[p] # "new" => p \in DOMAIN D /\ D[p] = s.cache[p]
    BY <1>4, <1>14
  <2>4. QED
    BY <2>1, <2>2, <2>3 DEF Alone
<1>16. Restorable(s, D, owner, m, w)
  BY <1>1, <1>4, <1>5, <1>9, <1>15, NowFacts, PastAlone
<1>17. Look(s, D) = Look(Now, d)
  <2>1. \A p \in Page : InMemory(s, p) = InMemory(Now, p)
    BY <1>4, NowFacts DEF InMemory
  <2>2. \A p \in Page : InMemory(Now, p) # None <=> p \in DOMAIN cache
    BY NowFacts, MemoryTypes
  <2>3. \A p \in Page : p \notin DOMAIN cache => Below(D, p) = Below(d, p)
    BY <1>6, <1>10
  <2>4. QED
    BY <2>1, <2>2, <2>3 DEF Look
<1>18. Steady(s, D, owner, m, w)
  BY <1>1, <1>4, <1>16, <1>17, NowFacts DEF Steady
<1>19. ~ m => Sound(ContentOf(D), header, owner)
  <2> SUFFICES ASSUME ~ m PROVE Sound(ContentOf(D), header, owner)
    OBVIOUS
  <2>1. m = FALSE
    BY <1>1
  <2>2. Steady(s, D, owner, FALSE, w)
    BY <1>18, <2>1
  <2>3. QED
    BY <1>4, <1>5, <1>9, <2>2, NowFacts, BelowSound
<1>20. ASSUME ~ m, NEW p \in Live(owner) PROVE Below(D, p) = Look(Now, d)[p]
  <2>1. p \in Page /\ owner[p] = "live" /\ Look(s, D)[p] = Look(Now, d)[p]
    BY <1>17, <1>20 DEF Live
  <2>2. Look(s, D)[p] = IF InMemory(s, p) # None THEN InMemory(s, p) ELSE Below(D, p)
    BY <1>4, <1>9, <2>1, LookTypes
  <2>3. ASSUME InMemory(s, p) # None PROVE Below(D, p) = InMemory(s, p)
    BY <1>4, <1>14, <1>20, <2>1, <2>3 DEF InMemory, Below
  <2>4. QED
    BY <2>1, <2>2, <2>3
<1>21. QED
  BY <1>4, <1>5, <1>8, <1>9, <1>17, <1>18, <1>19, <1>20 DEF D

\* Eviction changes nothing for a caller.
LEMMA EvictKeeps ==
  ASSUME NEW w, NEW s, State(s), Roomy, options \in Options, NEW d \in Pages,
         NEW o \in [Page -> Owner],
         Steady(s, d, o, options.inMemory, w)
  PROVE  /\ State(Evict(s)) /\ Evict(s).header = s.header /\ Evict(s).levels = s.levels
         /\ Steady(Evict(s), d, o, options.inMemory, w)
         /\ \A p \in Live(o) : Look(Evict(s), d)[p] = Look(s, d)[p]
<1> DEFINE m == options.inMemory
           r == Evict(s)
<1>1. /\ State(r) /\ r.header = s.header /\ r.levels = s.levels
  BY EvictFields
<1>2. CacheStep(s, r, d, m) /\ m \in BOOLEAN /\ s \in Memory
  BY EvictStep, OptionsAssumption DEF State
<1> HIDE DEF r
<1>3. Restorable(r, d, o, m, w) /\ SameBut({}, Look(s, d), Look(r, d), s.header, o)
  BY <1>2, CacheKeeps DEF Steady
<1>4. Sound(Look(r, d), s.header, o)
  <2> DEFINE c == Look(s, d)
             c2 == Look(r, d)
             h == s.header
  <2>1. Sound(c, h, o) /\ SameBut({}, c, c2, h, o)
    BY <1>3 DEF Steady
  <2> HIDE DEF c, c2, h
  <2>2. Sound(c2, h, o)
    BY <2>1, SoundAgree
  <2>3. QED
    BY <2>2 DEF c2, h
<1>5. \A p \in Live(o) : Look(r, d)[p] = Look(s, d)[p]
  <2>1. ASSUME NEW p \in Live(o) PROVE p \in Page /\ p <= s.header.total /\ o[p] # "new"
    BY <1>4, <2>1 DEF Sound, Owned, Live
  <2>2. QED
    BY <1>3, <2>1 DEF SameBut
<1>6. QED
  BY <1>1, <1>3, <1>4, <1>5 DEF Steady, r

\* What a step that leaves no level open has to keep.
LEMMA EndKeeps ==
  ASSUME NEW w, IAt(w), NEW s, State(s), Len(s.levels) = 0, Become(s),
         durable' \in Pages, durableHeader' \in Header, owner' \in [Page -> Owner],
         Steady(s, durable', owner', options.inMemory, w),
         ~ options.inMemory => Sound(ContentOf(durable'), durableHeader', owner'),
         \/ ioFailed' = ioFailed /\ doubt' = doubt
         \/ ioFailed' = FALSE /\ doubt' = None,
         work' = work
  PROVE  IAt(w)'
<1>1. Now' = s /\ options' = options /\ levels' = s.levels
  BY NowRecord DEF Become, State
<1>2. Types' /\ Flags'
  <2>1. /\ doubt' \in Doubt \cup {None} /\ ioFailed' \in BOOLEAN /\ (ioFailed' <=> doubt' # None)
        /\ options.inMemory => ~ ioFailed'
    <3>1. CASE ioFailed' = ioFailed /\ doubt' = doubt
      <4>1. /\ doubt \in Doubt \cup {None} /\ ioFailed \in BOOLEAN /\ (ioFailed <=> doubt # None)
            /\ options.inMemory => ~ ioFailed
        BY DEF IAt, Types, Flags
      <4>2. QED
        BY <3>1, <4>1
    <3>2. CASE ioFailed' = FALSE /\ doubt' = None
      BY <3>2
    <3>3. QED
      BY <3>1, <3>2
  <2>2. work' \in 0 .. MaxWork /\ options \in Options
    BY DEF IAt, Types
  <2>3. QED
    BY <1>1, <2>1, <2>2 DEF Types, Flags
<1>3. OwnerAt(s, owner', 1) = owner'
  BY DEF OwnerAt, Levels
<1>4. OnBase(Now, durable, durableHeader, owner, options.inMemory)'
  BY <1>1, <1>3 DEF OnBase
<1>5. InDoubt(doubt)'
  BY DEF IAt, InDoubt
<1>6. QED
  BY <1>1, <1>2, <1>4, <1>5 DEF IAt

\* A caller of commit sees what he saw, and no level is open.
CommitEffect ==
  /\ SameSeen /\ Len(levels) # 0 /\ Len(levels') = 0 /\ ~ ioFailed
  /\ UNCHANGED <<options, ioFailed, doubt, owner>>

\* commit_transaction keeps the invariant, whether it checkpoints the log or not.
LEMMA CommitKeeps ==
  ASSUME NEW w, IAt(w), Roomy, Commit
  PROVE  IAt(w)' /\ CommitEffect
<1> DEFINE m == options.inMemory
           d == Committed(Now)
           s == [Now EXCEPT !.levels = <<>>]
<1>1. /\ Len(levels) # 0 /\ ~ ioFailed /\ m \in BOOLEAN
      /\ ioFailed' = ioFailed /\ doubt' = doubt /\ work' = work /\ owner' = owner
      /\ \/ Become(Evict(s)) /\ Persist(d)
         \/ m /\ Become(Evict(Absorb(s, d))) /\ Persist([d EXCEPT !.durable = <<>>])
  BY NowFacts DEF Commit
<1> HIDE DEF s
<1>2. /\ State(s) /\ s \in Memory /\ s.levels = <<>> /\ s.header = header
      /\ d.durable \in Pages /\ d.header = header
      /\ Steady(s, d.durable, owner, m, w)
      /\ Look(s, d.durable) = Look(Now, durable)
      /\ ~ m => Sound(ContentOf(d.durable), header, owner)
  <2>1. s = [Now EXCEPT !.levels = <<>>]
    BY DEF s
  <2>2. QED
    BY <1>1, <2>1, CommittedKeeps DEF State
<1> DEFINE r == Evict(s)
<1>3. PICK e \in Pages : /\ Become(r) /\ durable' = e /\ durableHeader' = header
                         /\ Steady(s, e, owner, m, w) /\ (e = d.durable \/ m)
                         /\ Look(s, e) = Look(Now, durable)
  <2>1. CASE Become(r) /\ Persist(d)
    <3> HIDE DEF r, d
    <3>1. QED
      BY <1>2, <2>1 DEF Persist
  <2>2. CASE m /\ Become(Evict(Absorb(s, d))) /\ Persist([d EXCEPT !.durable = <<>>])
    <3>1. /\ Absorb(s, d) = s /\ Steady(s, <<>>, owner, m, w)
          /\ Look(s, <<>>) = Look(s, d.durable)
      <4>1. m = TRUE
        BY <1>1, <2>2
      <4>2. Steady(s, d.durable, owner, TRUE, w)
        BY <1>2, <4>1
      <4>3. QED
        BY <1>2, <4>1, <4>2, NowFacts, AbsorbSame
    <3>2. durable' = <<>> /\ durableHeader' = header
      BY <1>2, <2>2 DEF Persist, Committed
    <3>3. Become(r) /\ Look(s, <<>>) = Look(Now, durable)
      BY <1>2, <2>2, <3>1
    <3> HIDE DEF r
    <3>4. QED
      BY <2>2, <3>1, <3>2, <3>3, EmptyPages
  <2>3. \/ Become(r) /\ Persist(d)
        \/ m /\ Become(Evict(Absorb(s, d))) /\ Persist([d EXCEPT !.durable = <<>>])
    BY <1>1
  <2> HIDE DEF r, d, m
  <2>4. QED
    BY <2>1, <2>2, <2>3
<1>4. /\ State(r) /\ r.levels = <<>> /\ Steady(r, e, owner, m, w)
      /\ \A p \in Live(owner) : Look(r, e)[p] = Look(s, e)[p]
  <2>1. /\ State(s) /\ options \in Options /\ e \in Pages /\ owner \in [Page -> Owner]
        /\ Steady(s, e, owner, options.inMemory, w)
    BY <1>2, <1>3, NowFacts
  <2>2. /\ State(Evict(s)) /\ Evict(s).levels = s.levels
        /\ Steady(Evict(s), e, owner, options.inMemory, w)
        /\ \A p \in Live(owner) : Look(Evict(s), e)[p] = Look(s, e)[p]
    BY <2>1, EvictKeeps
  <2>3. QED
    BY <1>2, <2>2
<1> HIDE DEF r, d
<1>5. ~ m => Sound(ContentOf(e), header, owner)
  BY <1>2, <1>3
<1>6. Len(r.levels) = 0
  BY <1>4
<1>7. IAt(w)'
  BY <1>1, <1>3, <1>4, <1>5, <1>6, NowFacts, EndKeeps
<1>8. Now' = r /\ options' = options /\ levels' = <<>>
  BY <1>3, <1>4, NowRecord DEF State, Become
<1>9. SameSeen
  BY <1>3, <1>4, <1>8 DEF SameSeen
<1>10. QED
  BY <1>1, <1>7, <1>8, <1>9 DEF CommitEffect

\* So does a checkpoint of a database in memory, inside a transaction as well.
LEMMA CheckpointKeeps ==
  ASSUME NEW w, IAt(w), Checkpoint
  PROVE  IAt(w)' /\ Quiet
<1> DEFINE m == options.inMemory
<1>1. /\ m /\ m \in BOOLEAN /\ ~ ioFailed /\ Become(Absorb(Now, OnDisk))
      /\ Persist([OnDisk EXCEPT !.durable = <<>>])
      /\ ioFailed' = ioFailed /\ doubt' = doubt /\ work' = work /\ owner' = owner
  BY NowFacts DEF Checkpoint, IAt, Flags
<1>2. Steady(Now, durable, owner, m, w)
  BY <1>1 DEF IAt
<1>3. OnDisk.durable = durable
  BY DEF OnDisk
<1>4. /\ Absorb(Now, OnDisk) = Now /\ Steady(Now, <<>>, owner, m, w)
      /\ Look(Now, <<>>) = Look(Now, durable)
  <2>1. m = TRUE
    BY <1>1
  <2>2. Steady(Now, OnDisk.durable, owner, TRUE, w) /\ OnDisk.durable \in Pages
    BY <1>2, <1>3, <2>1, NowFacts
  <2>3. QED
    BY <1>3, <2>1, <2>2, NowFacts, AbsorbSame
<1>5. Now' = Now /\ options' = options /\ levels' = levels
  BY <1>1, <1>4, NowFacts, NowRecord DEF Become
<1>6. durable' = <<>> /\ durableHeader' = durableHeader
  BY <1>1 DEF Persist, OnDisk
<1>7. Types' /\ Flags'
  BY <1>1, <1>5, <1>6, EmptyPages DEF IAt, Types, Flags
<1>8. IAt(w)'
  BY <1>1, <1>4, <1>5, <1>6, <1>7 DEF IAt, OnBase
<1>9. Quiet
  BY <1>1, <1>4, <1>5, <1>6 DEF Quiet, SameSeen
<1>10. QED
  BY <1>8, <1>9

\* The transaction may write more pages than it has noted.
Dirtier(s, s2) ==
  /\ s2 \in Memory /\ s2.cache = s.cache /\ s2.header = s.header
  /\ Len(s2.levels) = Len(s.levels)
  /\ \A k \in Levels(s) :
       /\ s2.levels[k].header = s.levels[k].header /\ s2.levels[k].owner = s.levels[k].owner
       /\ s2.levels[k].undo = s.levels[k].undo /\ s.levels[k].dirty \subseteq s2.levels[k].dirty

\* What can be restored does not depend on which pages will be written.
LEMMA DirtierKeeps ==
  ASSUME NEW w, NEW s \in Memory, NEW s2, NEW d \in Pages, NEW o \in [Page -> Owner],
         NEW m \in BOOLEAN,
         Steady(s, d, o, m, w), Dirtier(s, s2)
  PROVE  Steady(s2, d, o, m, w)
<1>1. PICK u : Past(s, d, o, m, u, w)
  BY DEF Steady, Restorable
<1>2. /\ Undoing(u, s) /\ Grows(s, o) /\ Notes(s) /\ Within(s, u)
      /\ m => InCache(s, d)
      /\ ~ m => Synced(s, u, d, o)
      /\ \A k \in Levels(s) : Restores(View(u[k], d), w[k], s.levels[k].header, s.levels[k].owner)
  BY <1>1 DEF Past
<1>3. /\ Levels(s2) = Levels(s) /\ Points(s2) = Points(s) /\ Present(s2) = Present(s)
      /\ s2.cache = s.cache /\ s2.header = s.header
  BY DEF Dirtier, Levels, Points, Present
<1>4. \A k \in Levels(s) :
        /\ s2.levels[k].header = s.levels[k].header /\ s2.levels[k].owner = s.levels[k].owner
        /\ s2.levels[k].undo = s.levels[k].undo
        /\ \A p : NotedAt(s2, k, p) = NotedAt(s, k, p)
  BY DEF Dirtier, NotedAt
<1>5. /\ \A p : InMemory(s2, p) = InMemory(s, p)
      /\ \A k \in Points(s) : HeaderAt(s2, k) = HeaderAt(s, k) /\ OwnerAt(s2, o, k) = OwnerAt(s, o, k)
  BY <1>3, <1>4 DEF InMemory, HeaderAt, OwnerAt
<1>6. Len(s.levels) \in Nat /\ Len(s2.levels) = Len(s.levels) /\ (Len(s.levels) # 0 => 1 \in Levels(s))
      /\ 1 \in Points(s)
  BY LevelTypes DEF Levels, Dirtier
<1>7. \A p : Unnoted(s2, p) = Unnoted(s, p)
  BY <1>4, <1>6 DEF Unnoted
<1>8. Undoing(u, s2)
  BY <1>2, <1>3, <1>4, <1>5 DEF Undoing
<1>9. Grows(s2, o)
  BY <1>2, <1>3, <1>5, <1>6, <1>7 DEF Grows
<1>10. Notes(s2)
  <2>1. ASSUME NEW k \in Levels(s), NEW p \in DOMAIN s.levels[k].undo
        PROVE  /\ NotedAt(s2, 1, p) /\ p \in s2.levels[1].dirty
               /\ s2.levels[k].undo[p] = None => p > s2.levels[k].header.total
               /\ p \notin DOMAIN s2.cache => p > s2.header.total
    <3>1. 1 \in Levels(s) /\ s.levels[1].dirty \subseteq s2.levels[1].dirty
      BY <1>6 DEF Dirtier, Levels
    <3>2. /\ NotedAt(s, 1, p) /\ p \in s.levels[1].dirty
          /\ s.levels[k].undo[p] = None => p > s.levels[k].header.total
          /\ p \notin DOMAIN s.cache => p > s.header.total
      BY <1>2 DEF Notes
    <3>3. QED
      BY <1>3, <1>4, <3>1, <3>2
  <2>2. QED
    BY <1>3, <1>4, <2>1 DEF Notes
<1>11. Within(s2, u)
  BY <1>2, <1>3, <1>5 DEF Within
<1>12. IF m THEN InCache(s2, d) ELSE Synced(s2, u, d, o)
  BY <1>2, <1>3, <1>5, <1>6 DEF InCache, Synced
<1>13. \A k \in Levels(s2) : Restores(View(u[k], d), w[k], s2.levels[k].header, s2.levels[k].owner)
  BY <1>2, <1>3, <1>4
<1>14. Look(s2, d) = Look(s, d)
  BY <1>5 DEF Look
<1>15. QED
  BY <1>3, <1>8, <1>9, <1>10, <1>11, <1>12, <1>13, <1>14 DEF Past, Restorable, Steady

\* A caller of a commit that fails sees what he saw, and so may the next open.
CommitFailsEffect ==
  /\ SameSeen /\ Len(levels) # 0 /\ Len(levels') = Len(levels)
  /\ UNCHANGED <<options, durable, owner>>
  /\ \/ doubt' = None
     \/ doubt' = doubt
     \/ /\ doubt = None /\ doubt' # None /\ doubt'.owner = owner
        /\ \A p \in Live(owner) : Below(doubt'.durable, p) = Look(Now, durable)[p]

\* A commit that fails keeps the invariant: what the next open may find in its place is sound.
LEMMA CommitFailsKeeps ==
  ASSUME NEW w, IAt(w), CommitFails
  PROVE  IAt(w)' /\ CommitFailsEffect
<1> DEFINE m == options.inMemory
           D == Committed(Now).durable
           f == [durable |-> D, header |-> header, owner |-> owner]
           l == [levels EXCEPT ![1].dirty = levels[1].dirty \cup {1}]
           s == [Now EXCEPT !.levels = l]
<1>1. /\ Len(levels) # 0 /\ m = FALSE /\ ioFailed' \in BOOLEAN
      /\ doubt' = IF ~ ioFailed' THEN None ELSE IF ioFailed THEN doubt ELSE f
      /\ durable' = durable /\ durableHeader' = durableHeader /\ work' = work /\ owner' = owner
  BY NowFacts DEF CommitFails, durableVars
<1>2. Become(s)
  BY NowFacts DEF CommitFails, Now
<1>3. Steady(Now, durable, owner, m, w)
  BY <1>1 DEF IAt
<1>4. levels \in Seq(LevelRec) /\ 1 \in DOMAIN levels /\ Len(levels) \in Nat /\ 1 \in Page
      /\ 1 \in Levels(Now) /\ DOMAIN levels = 1 .. Len(levels)
  BY <1>1, NowFacts, MemoryFields, PageAssumption DEF Levels
<1>5. /\ l \in Seq(LevelRec) /\ Len(l) = Len(levels)
      /\ l[1].dirty = levels[1].dirty \cup {1}
      /\ l[1].header = levels[1].header /\ l[1].owner = levels[1].owner
      /\ l[1].undo = levels[1].undo
      /\ \A k \in DOMAIN levels : k # 1 => l[k] = levels[k]
  <2>1. levels[1] \in LevelRec
    BY <1>4
  <2> DEFINE x == [levels[1] EXCEPT !.dirty = levels[1].dirty \cup {1}]
  <2>2. /\ x \in LevelRec /\ x.dirty = levels[1].dirty \cup {1}
        /\ x.header = levels[1].header /\ x.owner = levels[1].owner /\ x.undo = levels[1].undo
    BY <1>4, <2>1 DEF LevelRec
  <2>3. l = [levels EXCEPT ![1] = x]
    OBVIOUS
  <2> HIDE DEF x, l
  <2>4. QED
    BY <1>4, <2>2, <2>3
<1> HIDE DEF l, f
<1>6. s \in Memory /\ s.cache = cache /\ s.lru = lru /\ s.header = header /\ s.levels = l
  BY <1>5, NowFacts, MemoryFields DEF Memory
<1> HIDE DEF s
<1>7. State(s)
  BY <1>6, NowFacts DEF State, Tracked
<1>8. Dirtier(Now, s)
  <2>1. ASSUME NEW k \in Levels(Now)
        PROVE  /\ s.levels[k].header = levels[k].header /\ s.levels[k].owner = levels[k].owner
               /\ s.levels[k].undo = levels[k].undo /\ levels[k].dirty \subseteq s.levels[k].dirty
    <3>1. k \in DOMAIN levels
      BY <1>4, NowFacts DEF Levels
    <3>2. CASE k = 1
      BY <1>5, <1>6, <3>2
    <3>3. CASE k # 1
      BY <1>5, <1>6, <3>1, <3>3
    <3>4. QED
      BY <3>2, <3>3
  <2>2. QED
    BY <1>5, <1>6, <2>1, NowFacts DEF Dirtier
<1>9. Steady(s, durable, owner, m, w)
  BY <1>3, <1>8, NowFacts, DirtierKeeps
<1>10. OwnerAt(s, owner, 1) = OwnerAt(Now, owner, 1)
  BY <1>4, <1>5, <1>6, NowFacts DEF OwnerAt, Levels
<1>11. /\ f \in Doubt /\ f # None /\ InDoubt(f) /\ f.owner = owner
       /\ \A p \in Live(owner) : Below(f.durable, p) = Look(Now, durable)[p]
  <2>1. /\ D \in Pages /\ Sound(ContentOf(D), header, owner)
        /\ \A p \in Live(owner) : Below(D, p) = Look(Now, durable)[p]
    BY <1>1, CommittedKeeps
  <2>2. f.durable = D /\ f.header = header /\ f.owner = owner
    BY DEF f
  <2>3. f \in Doubt
    BY <2>1, NowFacts DEF Doubt, f
  <2>4. QED
    BY <2>1, <2>2, <2>3, NoneAssumption DEF InDoubt
<1>12. /\ doubt' \in Doubt \cup {None} /\ InDoubt(doubt') /\ (ioFailed' <=> doubt' # None)
  BY <1>1, <1>11 DEF IAt, Types, Flags, InDoubt
<1>13. Now' = s /\ options' = options /\ levels' = l
  BY <1>2, <1>6, NowRecord DEF Become
<1>14. Types' /\ Flags'
  BY <1>1, <1>7, <1>12, <1>13 DEF IAt, Types, Flags
<1>15. OnBase(Now, durable, durableHeader, owner, options.inMemory)'
  BY <1>1, <1>10, <1>13 DEF IAt, OnBase
<1>16. IAt(w)'
  BY <1>1, <1>9, <1>12, <1>13, <1>14, <1>15 DEF IAt
<1>17. SameSeen
  <2>1. Look(s, durable) = Look(Now, durable)
    BY <1>6, NowFacts DEF Look, InMemory
  <2>2. QED
    BY <1>1, <1>13, <2>1 DEF SameSeen
<1>18. \/ doubt' = None
       \/ doubt' = doubt
       \/ /\ doubt = None /\ doubt' # None /\ doubt'.owner = owner
          /\ \A p \in Live(owner) : Below(doubt'.durable, p) = Look(Now, durable)[p]
  BY <1>1, <1>11 DEF IAt, Flags
<1>19. QED
  BY <1>1, <1>5, <1>13, <1>16, <1>17, <1>18 DEF CommitFailsEffect

-----------------------------------------------------------------------------
(* Levels are undone.                                                      *)

\* An order has every page that is put back once.
LEMMA OrderProperties ==
  ASSUME NEW u \in Undo, NEW order \in Orders(u)
  PROVE  /\ order \in Seq({p \in DOMAIN u : u[p] # None})
         /\ \A i, j \in DOMAIN order : i # j => order[i] # order[j]
<1> DEFINE S == {p \in DOMAIN u : u[p] # None}
<1>1. S \subseteq Page
  BY UndoType
<1>2. IsFiniteSet(S)
  BY <1>1, PageAssumption, FS_Subset
<1>3. Cardinality(S) \in Nat
  BY <1>2, FS_CardinalityType
<1> HIDE DEF S
<1>4. order \in [1 .. Cardinality(S) -> S] /\ \A i, j \in DOMAIN order : i # j => order[i] # order[j]
  BY DEF Orders, SetToSeqs, S
<1>5. order \in Seq(S)
  BY <1>3, <1>4
<1>6. QED
  BY <1>4, <1>5 DEF S

\* Two lists of different pages make one list.
LEMMA TrackedConcat ==
  ASSUME NEW D, NEW A, NEW B, A \subseteq D, B \subseteq D, A \cap B = {},
         NEW s \in Seq(A), NEW t \in Seq(B),
         \A i, j \in DOMAIN s : i # j => s[i] # s[j], \A i, j \in DOMAIN t : i # j => t[i] # t[j]
  PROVE  /\ s \o t \in Seq(D)
         /\ \A i, j \in DOMAIN (s \o t) : i # j => (s \o t)[i] # (s \o t)[j]
<1>1. /\ Len(s \o t) = Len(s) + Len(t) /\ Len(s) \in Nat /\ Len(t) \in Nat
      /\ DOMAIN (s \o t) = 1 .. Len(s) + Len(t) /\ DOMAIN s = 1 .. Len(s) /\ DOMAIN t = 1 .. Len(t)
  OBVIOUS
<1>2. \A i \in 1 .. Len(s) : (s \o t)[i] = s[i] /\ s[i] \in A
  OBVIOUS
<1>3. \A i \in Len(s) + 1 .. Len(s) + Len(t) :
        (s \o t)[i] = t[i - Len(s)] /\ i - Len(s) \in 1 .. Len(t) /\ t[i - Len(s)] \in B
  BY <1>1
<1>4. s \o t \in Seq(D)
  <2>1. s \in Seq(D) /\ t \in Seq(D)
    BY <1>1
  <2>2. QED
    BY <2>1
<1>5. ASSUME NEW i \in 1 .. Len(s) + Len(t), NEW j \in 1 .. Len(s) + Len(t), i < j
      PROVE  (s \o t)[i] # (s \o t)[j]
  <2>1. CASE j <= Len(s)
    BY <1>1, <1>2, <1>5, <2>1
  <2>2. CASE i > Len(s)
    <3>1. i - Len(s) # j - Len(s)
      BY <1>1, <1>5
    <3>2. i \in Len(s) + 1 .. Len(s) + Len(t) /\ j \in Len(s) + 1 .. Len(s) + Len(t)
      BY <1>1, <1>5, <2>2
    <3>3. QED
      BY <1>1, <1>3, <3>1, <3>2
  <2>3. CASE i <= Len(s) /\ j > Len(s)
    <3>1. i \in 1 .. Len(s) /\ j \in Len(s) + 1 .. Len(s) + Len(t)
      BY <1>1, <2>3
    <3>2. QED
      BY <1>2, <1>3, <3>1
  <2>4. QED
    BY <1>1, <1>5, <2>1, <2>2, <2>3
<1>6. ASSUME NEW i \in 1 .. Len(s) + Len(t), NEW j \in 1 .. Len(s) + Len(t), i # j
      PROVE  (s \o t)[i] # (s \o t)[j]
  <2>1. CASE i < j
    BY <1>5, <2>1
  <2>2. CASE j < i
    BY <1>5, <2>2
  <2>3. QED
    BY <1>1, <1>6, <2>1, <2>2
<1>7. QED
  BY <1>1, <1>4, <1>6

\* The pages that have been noted are put back.
LEMMA RestoredFields ==
  ASSUME NEW s, State(s), NEW u \in Undo, NEW order \in Orders(u)
  PROVE  /\ State(Restored(s, u, order)) /\ Restored(s, u, order).header = s.header
         /\ Restored(s, u, order).levels = s.levels
         /\ \A p \in Page : InMemory(Restored(s, u, order), p) =
                              IF p \in DOMAIN u THEN u[p] ELSE InMemory(s, p)
<1> DEFINE gone == {p \in DOMAIN u : u[p] = None}
           c == [p \in (DOMAIN s.cache \cup DOMAIN u) \ gone |->
                   IF p \in DOMAIN u THEN u[p] ELSE s.cache[p]]
           kept == Only(s.lru, Page \ DOMAIN u)
           l == kept \o order
           r == Restored(s, u, order)
           S == {p \in DOMAIN u : u[p] # None}
<1>1. /\ s \in Memory /\ DOMAIN s.cache \subseteq Page /\ s.cache \in Pages
      /\ DOMAIN u \subseteq Page /\ \A p \in DOMAIN u : u[p] \in Maybe
  BY MemoryTypes, UndoType DEF State
<1>2. DOMAIN c = (DOMAIN s.cache \cup DOMAIN u) \ gone
  OBVIOUS
<1>3. c \in Pages
  <2>1. \A p \in DOMAIN s.cache : s.cache[p] \in Content
    BY <1>1, PagesType
  <2>2. \A p \in DOMAIN c : c[p] \in Content
    BY <1>1, <2>1 DEF Maybe
  <2>3. c \in [DOMAIN c -> Content] /\ DOMAIN c \subseteq Page
    BY <1>1, <1>2, <2>2
  <2> HIDE DEF c
  <2>4. QED
    BY <2>3, PagesType
<1>4. /\ kept \in Seq(DOMAIN s.cache \cap (Page \ DOMAIN u))
      /\ \A i, j \in DOMAIN kept : i # j => kept[i] # kept[j]
  BY OnlyProperties DEF State, Tracked
<1>5. order \in Seq(S) /\ \A i, j \in DOMAIN order : i # j => order[i] # order[j]
  BY OrderProperties
<1>6. l \in Seq(DOMAIN c) /\ \A i, j \in DOMAIN l : i # j => l[i] # l[j]
  <2>1. DOMAIN s.cache \cap (Page \ DOMAIN u) \subseteq DOMAIN c /\ S \subseteq DOMAIN c
        /\ (DOMAIN s.cache \cap (Page \ DOMAIN u)) \cap S = {}
    BY <1>2
  <2> HIDE DEF c, kept, S
  <2>2. QED
    BY <1>4, <1>5, <2>1, TrackedConcat
<1>7. r = [s EXCEPT !.cache = c, !.lru = l]
  BY DEF Restored
<1>8. \A p \in Page : (IF p \in DOMAIN c THEN c[p] ELSE None) =
                        IF p \in DOMAIN u THEN u[p] ELSE InMemory(s, p)
  BY DEF InMemory
<1> HIDE DEF c, l, r
<1>9. l \in Seq(Page)
  <2>1. DOMAIN c \subseteq Page
    BY <1>3, PagesType
  <2>2. QED
    BY <1>6, <2>1
<1>10. /\ r \in Memory /\ r.cache = c /\ r.lru = l /\ r.header = s.header /\ r.levels = s.levels
  BY <1>1, <1>3, <1>7, <1>9 DEF Memory
<1>11. QED
  BY <1>6, <1>8, <1>10 DEF State, Tracked, InMemory, r

\* Rolling back to level k: memory r, with the header of that level and the levels before it.
Reset(r, s, k) == [r EXCEPT !.header = s.levels[k].header, !.levels = SubSeq(s.levels, 1, k - 1)]

\* x is what undoing the levels from k on restores.
Resetting(s, r, d, o, m, k, u, x, order, w) ==
  /\ State(s) /\ d \in Pages /\ o \in [Page -> Owner] /\ m \in BOOLEAN
  /\ k \in Levels(s) /\ Past(s, d, o, m, u, w) /\ x \in Undo /\ order \in Orders(x)
  /\ \A p \in Page : u[k][p] = IF p \in DOMAIN x THEN x[p] ELSE InMemory(s, p)
  /\ r = Reset(Restored(s, x, order), s, k)

\* Then the caller sees what the level restores.
LEMMA ResetKeeps ==
  ASSUME NEW s, NEW r, NEW d, NEW o, NEW m, NEW k, NEW u, NEW x, NEW order, NEW w,
         Resetting(s, r, d, o, m, k, u, x, order, w)
  PROVE  /\ State(r) /\ r.header = s.levels[k].header /\ r.levels = SubSeq(s.levels, 1, k - 1)
         /\ Steady(r, d, s.levels[k].owner, m, w)
         /\ Restores(Look(r, d), w[k], r.header, s.levels[k].owner)
<1> USE DEF Resetting
<1> DEFINE y == Restored(s, x, order)
           l == SubSeq(s.levels, 1, k - 1)
           h == s.levels[k].header
<1>1. /\ State(y) /\ y \in Memory
      /\ \A p \in Page : InMemory(y, p) = IF p \in DOMAIN x THEN x[p] ELSE InMemory(s, p)
  BY RestoredFields DEF State
<1>2. s \in Memory /\ h \in Header /\ l \in Seq(LevelRec)
  <2>1. s \in Memory
    BY DEF State
  <2>2. /\ k \in Nat /\ k <= Len(s.levels) /\ Len(s.levels) \in Nat /\ k # 0 /\ h \in Header
        /\ s.levels \in Seq(LevelRec)
    BY <2>1, LevelTypes, MemoryFields
  <2>3. QED
    BY <2>1, <2>2
<1> HIDE DEF y, l, h
<1>3. r = [y EXCEPT !.header = h, !.levels = l]
  BY DEF Reset, y, l, h
<1>4. /\ r \in Memory /\ r.cache = y.cache /\ r.lru = y.lru /\ r.header = h /\ r.levels = l
  BY <1>1, <1>2, <1>3 DEF Memory
<1>5. State(r)
  BY <1>1, <1>4 DEF State, Tracked
<1>6. \A p \in Page : InMemory(r, p) = u[k][p]
  BY <1>1, <1>4 DEF InMemory
<1>7. Cut(s, r, k, u)
  BY <1>4, <1>6 DEF Cut, l, h
<1>8. /\ Restorable(r, d, s.levels[k].owner, m, w)
      /\ Restores(Look(r, d), w[k], r.header, s.levels[k].owner)
  BY <1>2, <1>7, CutKeeps
<1>9. QED
  BY <1>4, <1>5, <1>8 DEF Steady, Restores, l, h

\* What the transaction has noted is all that undoing it changes.
LEMMA FirstLevelUndone ==
  ASSUME NEW s \in Memory, NEW u, Undoing(u, s), Notes(s), 1 \in Levels(s), NEW p \in Page
  PROVE  u[1][p] = IF p \in DOMAIN s.levels[1].undo THEN s.levels[1].undo[p] ELSE InMemory(s, p)
<1>1. 1 \in Points(s)
  BY LevelTypes
<1>2. CASE NotedAt(s, 1, p)
  BY <1>1, <1>2 DEF Undoing, NotedAt
<1>3. CASE ~ NotedAt(s, 1, p)
  BY <1>1, <1>3, NeverNoted DEF Unnoted, NotedAt
<1>4. QED
  BY <1>2, <1>3

\* The innermost level restores what it has noted.
LEMMA LastLevelUndone ==
  ASSUME NEW s \in Memory, NEW u, Undoing(u, s), Len(s.levels) # 0,
         NEW n, n = Len(s.levels), NEW p \in Page
  PROVE  /\ n \in Levels(s)
         /\ u[n][p] = IF p \in DOMAIN s.levels[n].undo THEN s.levels[n].undo[p] ELSE InMemory(s, p)
<1>1. n \in Nat /\ n \in Levels(s) /\ n + 1 = Present(s)
  BY LevelTypes DEF Levels, Present
<1>2. QED
  BY <1>1 DEF Undoing, NotedAt

\* rollback_transaction keeps the invariant, even when the log cannot be truncated.
LEMMA RollbackKeeps ==
  ASSUME NEW w, IAt(w), Rollback
  PROVE  IAt(w)' /\ BackTo(w[1]) /\ levels' = <<>>
<1> DEFINE m == options.inMemory
           x == levels[1].undo
<1>1. /\ Len(levels) # 0 /\ Len(levels) \in Nat /\ m \in BOOLEAN /\ LogTruncated
      /\ owner' = levels[1].owner /\ durable' = durable /\ durableHeader' = durableHeader
      /\ work' = work
  BY NowFacts DEF Rollback, durableVars
<1>2. PICK order \in Orders(x) :
        Become([Restored(Now, x, order) EXCEPT !.header = levels[1].header, !.levels = <<>>])
  BY DEF Rollback
<1> DEFINE s == Reset(Restored(Now, x, order), Now, 1)
<1>3. 1 \in Levels(Now) /\ levels[1] \in LevelRec /\ x \in Undo /\ levels[1].owner \in [Page -> Owner]
  <2>1. 1 \in Levels(Now)
    BY <1>1, NowFacts DEF Levels
  <2>2. QED
    BY <2>1, NowFacts, LevelTypes
<1>4. Become(s)
  <2> DEFINE y == Restored(Now, x, order)
  <2>1. SubSeq(Now.levels, 1, 1 - 1) = <<>> /\ Now.levels = levels
    BY NowFacts
  <2> HIDE DEF y
  <2>2. Reset(y, Now, 1) = [y EXCEPT !.header = levels[1].header, !.levels = <<>>]
    BY <2>1 DEF Reset
  <2>3. QED
    BY <1>2, <2>2 DEF y
<1>5. Steady(Now, durable, owner, m, w)
  BY <1>1 DEF IAt
<1>6. PICK u : Past(Now, durable, owner, m, u, w)
  BY <1>5 DEF Steady, Restorable
<1>7. \A p \in Page : u[1][p] = IF p \in DOMAIN x THEN x[p] ELSE InMemory(Now, p)
  <2>1. Now \in Memory /\ Now.levels = levels /\ Undoing(u, Now) /\ Notes(Now)
    BY <1>6, NowFacts DEF Past
  <2>2. QED
    BY <1>3, <2>1, FirstLevelUndone
<1> HIDE DEF s, x
<1>8. /\ State(s) /\ s.header = Now.levels[1].header /\ s.levels = SubSeq(Now.levels, 1, 1 - 1)
      /\ Steady(s, durable, Now.levels[1].owner, m, w)
      /\ Restores(Look(s, durable), w[1], s.header, Now.levels[1].owner)
  <2>1. State(Now) /\ durable \in Pages /\ owner \in [Page -> Owner]
    BY NowFacts
  <2>2. s = Reset(Restored(Now, x, order), Now, 1) /\ order \in Orders(x)
    BY DEF s
  <2> HIDE DEF m
  <2>3. Resetting(Now, s, durable, owner, m, 1, u, x, order, w)
    BY <1>1, <1>3, <1>6, <1>7, <2>1, <2>2 DEF Resetting
  <2>4. QED
    BY <2>3, ResetKeeps
<1>9. Len(s.levels) = 0
  BY <1>3, <1>8, NowFacts
<1>10. ~ m => Sound(ContentOf(durable), durableHeader, levels[1].owner)
  BY <1>3, NowFacts DEF IAt, OnBase, OwnerAt
<1>11. \/ ioFailed' = ioFailed /\ doubt' = doubt
       \/ ioFailed' = FALSE /\ doubt' = None
  BY <1>1 DEF LogTruncated
<1>12. IAt(w)'
  BY <1>1, <1>3, <1>4, <1>8, <1>9, <1>10, <1>11, NowFacts, EndKeeps
<1>13. /\ Now' = s /\ header' = s.header /\ levels' = s.levels
       /\ Now.levels = levels /\ levels' = <<>>
  <2>1. s \in Memory
    BY <1>8 DEF State
  <2>2. header' = s.header /\ levels' = s.levels
    BY <1>4 DEF Become
  <2>3. Now.levels = levels /\ SubSeq(Now.levels, 1, 1 - 1) = <<>>
    BY NowFacts
  <2>4. QED
    BY <1>4, <1>8, <2>1, <2>2, <2>3, NowRecord
<1>14. BackTo(w[1])
  <2>1. Restores(Look(s, durable), w[1], s.header, levels[1].owner)
    BY <1>8, <1>13
  <2>2. QED
    BY <1>1, <1>13, <2>1 DEF BackTo
<1>15. QED
  BY <1>12, <1>13, <1>14

-----------------------------------------------------------------------------
(* Savepoints.                                                             *)

\* Undone restores, of each page, what the first level from k on has noted.
LEMMA UndoneFields ==
  ASSUME NEW s \in Memory, NEW k \in Levels(s), NEW n, n = Len(s.levels)
  PROVE  /\ Undone(s, k, n) \in Undo
         /\ \A p : p \in DOMAIN Undone(s, k, n) <=> \E j \in k .. n : NotedAt(s, j, p)
         /\ \A p, j : j \in k .. n /\ IsFirst(s, k, j, p) => Undone(s, k, n)[p] = s.levels[j].undo[p]
<1> DEFINE x == Undone(s, k, n)
           pages == UNION {DOMAIN s.levels[j].undo : j \in k .. n}
           first(p) == CHOOSE j \in k .. n :
                         /\ p \in DOMAIN s.levels[j].undo
                         /\ \A i \in k .. j - 1 : p \notin DOMAIN s.levels[i].undo
<1>1. n \in Nat /\ k \in Nat \ {0} /\ k <= n /\ \A j \in k .. n : j \in Levels(s)
  BY LevelTypes DEF Levels
<1>2. x = [p \in pages |-> s.levels[first(p)].undo[p]]
  BY DEF Undone
<1>3. \A p : p \in pages <=> \E j \in k .. n : NotedAt(s, j, p)
  BY DEF NotedAt
<1>4. ASSUME NEW p, NEW j \in k .. n, IsFirst(s, k, j, p)
      PROVE  first(p) = j
  <2>1. p \in DOMAIN s.levels[j].undo /\ \A i \in k .. j - 1 : p \notin DOMAIN s.levels[i].undo
    BY <1>4 DEF IsFirst, NotedAt
  <2>2. \A i \in k .. n : p \in DOMAIN s.levels[i].undo
                          /\ (\A h \in k .. i - 1 : p \notin DOMAIN s.levels[h].undo) => i = j
    <3>1. ASSUME NEW i \in k .. n, p \in DOMAIN s.levels[i].undo,
                 \A h \in k .. i - 1 : p \notin DOMAIN s.levels[h].undo
          PROVE  i = j
      BY <1>1, <2>1, <3>1
    <3>2. QED
      BY <3>1
  <2>3. QED
    BY <2>1, <2>2
<1>5. ASSUME NEW p \in pages
      PROVE  \E j \in k .. n : IsFirst(s, k, j, p)
  <2> DEFINE J == {j \in k .. n : NotedAt(s, j, p)}
  <2>0. \E j \in k .. n : NotedAt(s, j, p)
    BY <1>3, <1>5
  <2>1. J \subseteq Nat /\ J # {}
    BY <1>1, <2>0
  <2>2. PICK j \in J : \A i \in J : j <= i
    BY <2>1, LeastElement
  <2>3. j \in k .. n /\ \A i \in k .. j - 1 : ~ NotedAt(s, i, p)
    BY <1>1, <2>2
  <2>4. QED
    BY <2>2, <2>3 DEF IsFirst
<1> HIDE DEF x, pages, first
<1>6. \A p, j : j \in k .. n /\ IsFirst(s, k, j, p) => p \in pages /\ x[p] = s.levels[j].undo[p]
  BY <1>2, <1>3, <1>4 DEF IsFirst
<1>7. DOMAIN x = pages
  BY <1>2
<1>8. ASSUME NEW p \in pages PROVE p \in Page /\ x[p] \in Maybe
  <2>1. PICK j \in k .. n : IsFirst(s, k, j, p)
    BY <1>5, <1>8
  <2>2. p \in DOMAIN s.levels[j].undo /\ x[p] = s.levels[j].undo[p] /\ j \in Levels(s)
    BY <1>1, <1>6, <2>1 DEF IsFirst, NotedAt
  <2>3. QED
    BY <2>2, LevelTypes
<1>9. x \in Undo
  <2>1. DOMAIN x \subseteq Page /\ x \in [DOMAIN x -> Maybe]
    BY <1>2, <1>7, <1>8
  <2>2. QED
    BY <2>1, UndoType
<1>10. QED
  BY <1>3, <1>6, <1>7, <1>9 DEF x

\* Undoing the levels from k on restores what Undone says.
LEMMA LevelsUndone ==
  ASSUME NEW s \in Memory, NEW u, Undoing(u, s), NEW k \in Levels(s), NEW x,
         x = Undone(s, k, Len(s.levels)), NEW p \in Page
  PROVE  u[k][p] = IF p \in DOMAIN x THEN x[p] ELSE InMemory(s, p)
<1>1. k \in Points(s)
  BY LevelTypes
<1>2. \/ (\A j \in k .. Len(s.levels) : ~ NotedAt(s, j, p)) /\ u[k][p] = InMemory(s, p)
      \/ \E j \in k .. Len(s.levels) :
              IsFirst(s, k, j, p) /\ u[k][p] = s.levels[j].undo[p]
  BY <1>1, FirstNoted
<1>3. CASE (\A j \in k .. Len(s.levels) : ~ NotedAt(s, j, p)) /\ u[k][p] = InMemory(s, p)
  BY <1>3, UndoneFields
<1>4. ASSUME NEW j \in k .. Len(s.levels), IsFirst(s, k, j, p), u[k][p] = s.levels[j].undo[p]
      PROVE  p \in DOMAIN x /\ u[k][p] = x[p]
  BY <1>4, UndoneFields DEF IsFirst
<1>5. QED
  BY <1>2, <1>3, <1>4

\* The level that a savepoint's name stands for is not the transaction.
LEMMA NamedLevel ==
  ASSUME NEW w, IAt(w), NEW name, NEW k, Named(name, k)
  PROVE  /\ k \in Levels(Now) /\ k - 1 \in Levels(Now) /\ k \in 2 .. Len(levels) /\ Len(levels) # 0
         /\ 1 \in Levels(Now) /\ levels[k] \in LevelRec /\ levels \in Seq(LevelRec)
         /\ levels[1].owner \in [Page -> Owner] /\ levels[k].owner \in [Page -> Owner]
<1>1. /\ Len(levels) \in Nat /\ Now.levels = levels /\ k \in 2 .. Len(levels)
      /\ levels \in Seq(LevelRec)
  BY NowFacts, MemoryFields DEF Named
<1>2. k \in Levels(Now) /\ k - 1 \in Levels(Now) /\ 1 \in Levels(Now) /\ Len(levels) # 0
  BY <1>1 DEF Levels
<1>3. QED
  BY <1>1, <1>2, NowFacts, LevelTypes

\* A step that undoes levels, but not the transaction.
LEMMA SavepointStepKeeps ==
  ASSUME NEW w, IAt(w), NEW s, State(s), Become(s), owner' \in [Page -> Owner], Len(levels) # 0,
         Steady(s, durable, owner', options.inMemory, w), UNCHANGED <<durableVars, work>>,
         1 \in Levels(s), s.levels[1].owner = levels[1].owner,
         \/ ioFailed' = ioFailed /\ doubt' = doubt
         \/ ioFailed' = FALSE /\ doubt' = None
  PROVE  IAt(w)'
<1>1. /\ Now' = s /\ options' = options /\ levels' = s.levels
      /\ durable' = durable /\ durableHeader' = durableHeader /\ work' = work
  BY NowRecord DEF Become, State, durableVars
<1>2. Types' /\ Flags'
  <2>1. /\ doubt' \in Doubt \cup {None} /\ ioFailed' \in BOOLEAN /\ (ioFailed' <=> doubt' # None)
        /\ options.inMemory => ~ ioFailed'
    <3>1. CASE ioFailed' = ioFailed /\ doubt' = doubt
      <4>1. /\ doubt \in Doubt \cup {None} /\ ioFailed \in BOOLEAN /\ (ioFailed <=> doubt # None)
            /\ options.inMemory => ~ ioFailed
        BY DEF IAt, Types, Flags
      <4>2. QED
        BY <3>1, <4>1
    <3>2. CASE ioFailed' = FALSE /\ doubt' = None
      BY <3>2
    <3>3. QED
      BY <3>1, <3>2
  <2>2. QED
    BY <1>1, <2>1 DEF IAt, Types, Flags
<1>3. OwnerAt(s, owner', 1) = OwnerAt(Now, owner, 1)
  <2>1. 1 \in Levels(Now)
    BY NowFacts DEF Levels
  <2>2. QED
    BY <2>1, NowFacts DEF OwnerAt
<1>4. OnBase(Now, durable, durableHeader, owner, options.inMemory)'
  BY <1>1, <1>3 DEF IAt, OnBase
<1>5. InDoubt(doubt)'
  BY DEF IAt, InDoubt
<1>6. QED
  BY <1>1, <1>2, <1>4, <1>5 DEF IAt

\* rollback_to_savepoint that fails has undone the innermost savepoint, and keeps the invariant.
LEMMA RollbackToFailsKeeps ==
  ASSUME NEW w, IAt(w), NEW name, RollbackToFails(name)
  PROVE  /\ IAt(w)' /\ BackTo(w[Len(levels)])
         /\ Len(levels) \in Nat \ {0, 1} /\ Len(levels') = Len(levels) - 1
<1> DEFINE m == options.inMemory
           n == Len(levels)
           x == levels[n].undo
<1>1. /\ owner' = levels[n].owner /\ UNCHANGED <<durableVars, work>> /\ \E k : Named(name, k)
      /\ ioFailed' = ioFailed /\ doubt' = doubt
  BY DEF RollbackToFails
<1>2. PICK order \in Orders(x) :
        Become([Restored(Now, x, order) EXCEPT !.header = levels[n].header, !.levels = Front(levels)])
  BY DEF RollbackToFails
<1> DEFINE s == Reset(Restored(Now, x, order), Now, n)
<1>3. n \in Nat /\ n >= 2 /\ Now.levels = levels /\ levels \in Seq(LevelRec) /\ m \in BOOLEAN
  <2>1. PICK k : Named(name, k)
    BY <1>1
  <2>2. k \in 2 .. Len(levels)
    BY <2>1, NamedLevel
  <2>3. QED
    BY <2>2, NowFacts, MemoryFields
<1>4. n \in Levels(Now) /\ 1 \in Levels(Now) /\ levels[n] \in LevelRec /\ x \in Undo
      /\ levels[n].owner \in [Page -> Owner]
  <2>1. n \in Levels(Now) /\ 1 \in Levels(Now)
    BY <1>3 DEF Levels
  <2>2. QED
    BY <1>3, <2>1, NowFacts, LevelTypes
<1>5. Become(s)
  <2> DEFINE y == Restored(Now, x, order)
  <2>1. SubSeq(Now.levels, 1, n - 1) = Front(levels)
    BY <1>3 DEF Front
  <2> HIDE DEF y, n
  <2>2. Reset(y, Now, n) = [y EXCEPT !.header = levels[n].header, !.levels = Front(levels)]
    BY <1>3, <2>1 DEF Reset
  <2>3. QED
    BY <1>2, <2>2 DEF y
<1>6. Steady(Now, durable, owner, m, w)
  BY <1>3 DEF IAt
<1>7. PICK u : Past(Now, durable, owner, m, u, w)
  BY <1>6 DEF Steady, Restorable
<1>8. \A p \in Page : u[n][p] = IF p \in DOMAIN x THEN x[p] ELSE InMemory(Now, p)
  <2>1. Now \in Memory /\ Undoing(u, Now)
    BY <1>7, NowFacts DEF Past
  <2>2. QED
    BY <1>3, <2>1, LastLevelUndone
<1> HIDE DEF s, x, n
<1>9. /\ State(s) /\ s.levels = SubSeq(Now.levels, 1, n - 1)
      /\ Steady(s, durable, Now.levels[n].owner, m, w)
      /\ Restores(Look(s, durable), w[n], s.header, Now.levels[n].owner)
  <2>1. State(Now) /\ durable \in Pages /\ owner \in [Page -> Owner]
    BY NowFacts
  <2> HIDE DEF m
  <2>2. QED
    <3>1. s = Reset(Restored(Now, x, order), Now, n) /\ order \in Orders(x)
      BY DEF s
    <3>2. Resetting(Now, s, durable, owner, m, n, u, x, order, w)
      BY <1>3, <1>4, <1>7, <1>8, <2>1, <3>1 DEF Resetting
    <3>3. QED
      BY <3>2, ResetKeeps
<1>10. 1 \in Levels(s) /\ s.levels[1] = levels[1]
  <2>1. Len(s.levels) = n - 1 /\ s.levels[1] = levels[1]
    BY <1>3, <1>9 DEF n
  <2>2. QED
    BY <1>3, <2>1 DEF Levels
<1>11. Len(levels) # 0
  BY <1>3 DEF n
<1>12. IAt(w)'
  BY <1>1, <1>3, <1>4, <1>5, <1>9, <1>10, <1>11, SavepointStepKeeps
<1>13. Now' = s /\ header' = s.header /\ levels' = s.levels /\ durable' = durable
  BY <1>1, <1>5, <1>9, NowRecord DEF Become, State, durableVars
<1>14. BackTo(w[n])
  BY <1>1, <1>3, <1>9, <1>13 DEF BackTo
<1>15. n \in Nat \ {0, 1} /\ Len(levels') = n - 1
  BY <1>3, <1>9, <1>13 DEF n
<1>16. QED
  BY <1>12, <1>14, <1>15 DEF n

\* rollback_to_savepoint keeps the invariant.
LEMMA RollbackToKeeps ==
  ASSUME NEW w, IAt(w), NEW name, RollbackTo(name)
  PROVE  IAt(w)' /\ \E k \in 2 .. Len(levels) : BackTo(w[k]) /\ Len(levels') = k
<1> DEFINE m == options.inMemory
<1>1. /\ ioFailed' = FALSE /\ doubt' = None /\ UNCHANGED <<durableVars, work>>
  BY DEF RollbackTo
<1>2. PICK k \in DOMAIN levels :
        /\ Named(name, k) /\ owner' = levels[k].owner
        /\ \E order \in Orders(Undone(Now, k, Len(levels))) :
             Become([Restored(Now, Undone(Now, k, Len(levels)), order) EXCEPT
                      !.header = levels[k].header,
                      !.levels = Append(SubSeq(levels, 1, k - 1),
                                        [levels[k] EXCEPT !.undo = <<>>, !.dirty = {}])])
  BY DEF RollbackTo
<1> DEFINE x  == Undone(Now, k, Len(levels))
           at == [levels[k] EXCEPT !.undo = <<>>, !.dirty = {}]
           l  == SubSeq(levels, 1, k - 1)
<1>3. PICK order \in Orders(x) :
        Become([Restored(Now, x, order) EXCEPT !.header = levels[k].header, !.levels = Append(l, at)])
  BY <1>2
<1> DEFINE y == Restored(Now, x, order)
           r == Reset(y, Now, k)
           s == [r EXCEPT !.levels = Append(l, at)]
<1>4. /\ k \in Levels(Now) /\ k \in 2 .. Len(levels) /\ Len(levels) # 0
      /\ levels[k] \in LevelRec /\ levels \in Seq(LevelRec) /\ m \in BOOLEAN
      /\ levels[1].owner \in [Page -> Owner] /\ levels[k].owner \in [Page -> Owner]
      /\ Len(levels) \in Nat /\ Now.levels = levels
  BY <1>2, NowFacts, NamedLevel
<1>5. Steady(Now, durable, owner, m, w)
  BY <1>4 DEF IAt
<1>6. PICK u : Past(Now, durable, owner, m, u, w)
  BY <1>5 DEF Steady, Restorable
<1>7. x \in Undo
  BY <1>4, NowFacts, UndoneFields
<1>8. \A p \in Page : u[k][p] = IF p \in DOMAIN x THEN x[p] ELSE InMemory(Now, p)
  <2>1. Now \in Memory /\ x = Undone(Now, k, Len(Now.levels)) /\ Undoing(u, Now)
    BY <1>4, <1>6, NowFacts DEF Past
  <2> HIDE DEF x, m
  <2>2. QED
    BY <1>4, <1>6, <2>1, LevelsUndone
<1>9. /\ at \in LevelRec /\ at.header = levels[k].header /\ at.undo = <<>>
      /\ at.owner = levels[k].owner
  <2>1. <<>> \in Undo
    <3>1. <<>> \in [DOMAIN <<>> -> Content] /\ DOMAIN <<>> \subseteq Page
      BY EmptyPages, PagesType
    <3>2. <<>> \in [DOMAIN <<>> -> Maybe]
      BY <3>1 DEF Maybe
    <3>3. QED
      BY <3>1, <3>2, UndoType
  <2>2. QED
    BY <1>4, <2>1 DEF LevelRec
<1>10. /\ l \in Seq(LevelRec) /\ Len(l) = k - 1 /\ l[1] = levels[1]
       /\ Append(l, at) \in Seq(LevelRec) /\ Len(Append(l, at)) = k /\ Append(l, at)[1] = levels[1]
  <2>1. l \in Seq(LevelRec) /\ Len(l) = k - 1 /\ l[1] = levels[1]
    BY <1>4
  <2> HIDE DEF l, at
  <2>2. QED
    BY <1>4, <1>9, <2>1
<1> HIDE DEF x, at
<1>11. /\ State(r) /\ r.header = levels[k].header /\ r.levels = l
       /\ Steady(r, durable, levels[k].owner, m, w) /\ r \in Memory
       /\ Restores(Look(r, durable), w[k], r.header, levels[k].owner)
  <2>1. r = Reset(Restored(Now, x, order), Now, k)
    OBVIOUS
  <2> HIDE DEF r, y, l
  <2>2. /\ State(r) /\ r.header = Now.levels[k].header /\ r.levels = SubSeq(Now.levels, 1, k - 1)
        /\ Steady(r, durable, Now.levels[k].owner, m, w)
        /\ Restores(Look(r, durable), w[k], r.header, Now.levels[k].owner)
    <3>1. State(Now) /\ durable \in Pages /\ owner \in [Page -> Owner] /\ m \in BOOLEAN
      BY <1>4, NowFacts
    <3> HIDE DEF m
    <3>2. Resetting(Now, r, durable, owner, m, k, u, x, order, w)
      BY <1>4, <1>6, <1>7, <1>8, <2>1, <3>1 DEF Resetting
    <3>3. QED
      BY <3>2, ResetKeeps
  <2>3. QED
    BY <1>4, <2>2 DEF State, l
<1> HIDE DEF y, l
<1>12. s = [y EXCEPT !.header = levels[k].header, !.levels = Append(l, at)]
  <2>1. r = [y EXCEPT !.header = levels[k].header, !.levels = l]
    BY <1>4 DEF Reset, l
  <2>2. y \in Memory
    <3>1. State(y)
      BY <1>7, NowFacts, RestoredFields DEF y
    <3>2. QED
      BY <3>1 DEF State
  <2> HIDE DEF r
  <2>3. QED
    BY <2>1, <2>2 DEF Memory
<1>13. Become(s)
  <2> HIDE DEF s
  <2>1. QED
    BY <1>3, <1>12 DEF y
<1> HIDE DEF r
<1>14. /\ s \in Memory /\ s.cache = r.cache /\ s.lru = r.lru /\ s.header = levels[k].header
       /\ s.levels = Append(l, at)
  BY <1>10, <1>11 DEF Memory
<1> HIDE DEF s
<1>15. State(s)
  BY <1>11, <1>14 DEF State, Tracked
<1>16. Opened(r, s, levels[k].owner, at)
  BY <1>9, <1>11, <1>14 DEF Opened
<1>17. Restorable(s, durable, levels[k].owner, m, w) /\ Look(s, durable) = Look(r, durable)
  <2> DEFINE o == levels[k].owner
  <2>0. Present(r) = k
    BY <1>4, <1>10, <1>11 DEF Present
  <2>1. /\ r \in Memory /\ durable \in Pages /\ o \in [Page -> Owner] /\ m \in BOOLEAN
        /\ at \in LevelRec /\ Opened(r, s, o, at)
        /\ Restorable(r, durable, o, m, w) /\ Restores(Look(r, durable), w[Present(r)], r.header, o)
    BY <1>4, <1>9, <1>11, <1>16, <2>0, NowFacts DEF Steady
  <2> HIDE DEF o, m
  <2>2. Restorable(s, durable, o, m, w) /\ Look(s, durable) = Look(r, durable)
    <3>1. Opening(r, s, durable, o, m, at, w)
      BY <2>1 DEF Opening
    <3>2. QED
      BY <3>1, OpenedKeeps
  <2>3. QED
    BY <2>2 DEF o
<1>18. Steady(s, durable, levels[k].owner, m, w)
  BY <1>11, <1>14, <1>17 DEF Steady
<1>19. 1 \in Levels(s) /\ s.levels[1] = levels[1]
  BY <1>4, <1>10, <1>14 DEF Levels
<1>20. IAt(w)'
  BY <1>1, <1>2, <1>4, <1>13, <1>15, <1>18, <1>19, SavepointStepKeeps
<1>21. Now' = s /\ header' = s.header /\ levels' = s.levels /\ durable' = durable
  BY <1>1, <1>13, <1>14, NowRecord DEF Become, durableVars
<1>22. BackTo(w[k])
  BY <1>2, <1>11, <1>14, <1>17, <1>21 DEF BackTo
<1>23. Len(levels') = k
  BY <1>10, <1>14, <1>21
<1>24. QED
  BY <1>4, <1>20, <1>22, <1>23

\* release_savepoint keeps the invariant.
LEMMA ReleaseKeeps ==
  ASSUME NEW w, IAt(w), NEW name, Release(name)
  PROVE  /\ IAt(w)' /\ \E k \in 2 .. Len(levels) : Len(levels') = k - 1
         /\ UNCHANGED <<options, cache, lru, header, durableVars, ioFailed, doubt, work, owner>>
<1> DEFINE m == options.inMemory
<1>1. UNCHANGED <<options, cache, lru, header, durableVars, ioFailed, doubt, work, owner>>
  BY DEF Release
<1>2. PICK k \in DOMAIN levels :
        /\ Named(name, k)
        /\ levels' = IF k = 2 THEN SubSeq(levels, 1, k - 1)
                     ELSE [SubSeq(levels, 1, k - 1) EXCEPT
                             ![k - 1].undo = Undone(Now, k - 1, Len(levels)),
                             ![k - 1].dirty = UNION {levels[j].dirty : j \in k - 1 .. Len(levels)}]
  BY DEF Release
<1> DEFINE n     == Len(levels)
           outer == SubSeq(levels, 1, k - 1)
           x     == Undone(Now, k - 1, n)
           D     == UNION {levels[j].dirty : j \in k - 1 .. n}
           at    == [outer[k - 1] EXCEPT !.undo = x, !.dirty = D]
           s     == [Now EXCEPT !.levels = levels']
<1>3. /\ k \in Levels(Now) /\ k - 1 \in Levels(Now) /\ k \in 2 .. n /\ n # 0 /\ n \in Nat
      /\ levels \in Seq(LevelRec) /\ m \in BOOLEAN /\ Now.levels = levels /\ 1 \in Levels(Now)
  BY <1>2, NowFacts, NamedLevel
<1>4. PICK u : Past(Now, durable, owner, m, u, w)
  BY <1>3 DEF IAt, Steady, Restorable
<1>5. Notes(Now)
  BY <1>4 DEF Past
<1>6. /\ outer \in Seq(LevelRec) /\ Len(outer) = k - 1 /\ DOMAIN outer = 1 .. k - 1
      /\ \A j \in 1 .. k - 1 : outer[j] = levels[j] /\ outer[j] \in LevelRec /\ j \in Levels(Now)
  BY <1>3 DEF Levels
<1>7. /\ x \in Undo
      /\ \A p : p \in DOMAIN x <=> \E j \in k - 1 .. n : NotedAt(Now, j, p)
      /\ \A p, j : j \in k - 1 .. n /\ IsFirst(Now, k - 1, j, p) => x[p] = levels[j].undo[p]
  BY <1>3, NowFacts, UndoneFields
<1>8. D \subseteq Page /\ levels[k - 1].dirty \subseteq D
  <2>1. \A j \in k - 1 .. n : j \in Levels(Now)
    BY <1>3 DEF Levels
  <2>2. \A j \in k - 1 .. n : levels[j].dirty \subseteq Page
    BY <1>3, <2>1, NowFacts, LevelTypes
  <2>3. k - 1 \in k - 1 .. n
    BY <1>3
  <2>4. QED
    BY <2>2, <2>3
<1>9. /\ at \in LevelRec /\ at.header = levels[k - 1].header /\ at.owner = levels[k - 1].owner
      /\ at.undo = x /\ at.dirty = D
  <2>1. outer[k - 1] = levels[k - 1] /\ outer[k - 1] \in LevelRec
    BY <1>3, <1>6
  <2> HIDE DEF x, D, outer
  <2>2. QED
    BY <1>7, <1>8, <2>1 DEF LevelRec
<1>10. levels' = IF k = 2 THEN outer ELSE [outer EXCEPT ![k - 1] = at]
  <2>1. CASE k = 2
    BY <1>2, <2>1
  <2>2. CASE k # 2
    <3>1. levels' = [outer EXCEPT ![k - 1].undo = x, ![k - 1].dirty = D]
      BY <1>2, <2>2
    <3>2. outer[k - 1] \in LevelRec /\ k - 1 \in DOMAIN outer /\ outer \in Seq(LevelRec)
      BY <1>3, <1>6
    <3> HIDE DEF x, D, outer
    <3>3. [outer EXCEPT ![k - 1].undo = x, ![k - 1].dirty = D] = [outer EXCEPT ![k - 1] = at]
      BY <3>2 DEF LevelRec
    <3>4. QED
      BY <2>2, <3>1, <3>3
  <2>3. QED
    BY <2>1, <2>2
<1> HIDE DEF at, outer, x, D
<1>11. /\ levels' \in Seq(LevelRec) /\ Len(levels') = k - 1
       /\ \A j \in 1 .. k - 1 : levels'[j] = IF j = k - 1 /\ k # 2 THEN at ELSE levels[j]
  <2>1. CASE k = 2
    BY <1>3, <1>6, <1>10, <2>1
  <2>2. CASE k # 2
    BY <1>3, <1>6, <1>9, <1>10, <2>2
  <2>3. QED
    BY <2>1, <2>2
<1>12. s \in Memory /\ s.cache = cache /\ s.header = header /\ s.levels = levels'
  BY <1>11, NowFacts, MemoryFields DEF Memory
<1> HIDE DEF s
<1>13. \A p : NotedAt(s, k - 1, p) <=> \E j \in k - 1 .. n : NotedAt(Now, j, p)
  <2>1. CASE k = 2
    <3>1. \A p : NotedAt(s, 1, p) <=> NotedAt(Now, 1, p)
      BY <1>3, <1>11, <1>12, <2>1 DEF NotedAt
    <3>2. ASSUME NEW p, NEW j \in 1 .. n, NotedAt(Now, j, p) PROVE NotedAt(Now, 1, p)
      <4>1. j \in Levels(Now)
        BY <1>3 DEF Levels
      <4>2. QED
        BY <1>5, <3>2, <4>1 DEF Notes, NotedAt
    <3>3. k - 1 = 1 /\ 1 \in 1 .. n
      BY <1>3, <2>1
    <3>4. QED
      BY <3>1, <3>2, <3>3
  <2>2. CASE k # 2
    <3>1. s.levels[k - 1].undo = x
      BY <1>3, <1>9, <1>11, <1>12, <2>2
    <3>2. QED
      BY <1>7, <3>1 DEF NotedAt
  <2>3. QED
    BY <2>1, <2>2
<1>14. ASSUME NEW p, NEW j, IsFirst(Now, k - 1, j, p), j \in k - 1 .. n
       PROVE  s.levels[k - 1].undo[p] = levels[j].undo[p]
  <2>1. CASE k = 2
    <3>1. j \in Levels(Now) /\ k - 1 = 1 /\ j \in Nat /\ j >= 1
      BY <1>3, <1>14, <2>1 DEF Levels
    <3>2. NotedAt(Now, 1, p)
      BY <1>3, <1>5, <1>14, <3>1 DEF Notes, NotedAt, IsFirst
    <3>3. j = 1
      BY <1>14, <3>1, <3>2 DEF IsFirst
    <3>4. QED
      BY <1>3, <1>11, <1>12, <2>1, <3>3
  <2>2. CASE k # 2
    <3>1. s.levels[k - 1].undo = x
      BY <1>3, <1>9, <1>11, <1>12, <2>2
    <3>2. QED
      BY <1>7, <1>14, <3>1
  <2>3. QED
    BY <2>1, <2>2
<1>15. ASSUME NEW j \in 1 .. k - 1
       PROVE  /\ s.levels[j].header = levels[j].header /\ s.levels[j].owner = levels[j].owner
              /\ levels[j].dirty \subseteq s.levels[j].dirty
              /\ j # k - 1 => s.levels[j].undo = levels[j].undo
  BY <1>8, <1>9, <1>11, <1>12
<1>16. Merged(Now, s, k)
  <2>1. s \in Memory /\ s.cache = Now.cache /\ s.header = Now.header /\ Len(s.levels) = k - 1
    BY <1>11, <1>12, NowFacts
  <2>2. QED
    BY <1>3, <1>13, <1>14, <1>15, <2>1 DEF Merged
<1>17. Steady(s, durable, owner, m, w)
  <2>1. Steady(Now, durable, owner, m, w)
    BY <1>3 DEF IAt
  <2>2. Restorable(s, durable, owner, m, w) /\ Look(s, durable) = Look(Now, durable)
    BY <1>3, <1>16, <2>1, NowFacts, MergedKeeps DEF Steady
  <2>3. QED
    BY <1>12, <2>1, <2>2, NowFacts DEF Steady
<1>18. OwnerAt(s, owner, 1) = OwnerAt(Now, owner, 1)
  <2>1. 1 \in 1 .. k - 1 /\ 1 \in Levels(s)
    BY <1>3, <1>11, <1>12 DEF Levels
  <2>2. s.levels[1].owner = levels[1].owner
    BY <1>15, <2>1
  <2>3. QED
    BY <1>3, <2>1, <2>2 DEF OwnerAt
<1>19. s = [Now EXCEPT !.levels = levels']
  BY DEF s
<1>20. IAt(w)'
  BY <1>1, <1>11, <1>17, <1>18, <1>19, LevelsStepKeeps
<1>21. QED
  BY <1>1, <1>3, <1>11, <1>20

-----------------------------------------------------------------------------
(* Opening a database.                                                     *)

\* The LRU list of a database that is open with page 1 alone.
OnlyFirst == <<1>>

\* A memory that holds page 1 alone, or all pages of a database in memory, shows what is below.
LEMMA OpenKeeps ==
  ASSUME NEW w, NEW s, s \in Memory, s.levels = <<>>, NEW d \in Pages, NEW o \in [Page -> Owner],
         NEW m \in BOOLEAN, s.lru = OnlyFirst, NEW v \in Content, s.cache = [p \in {1} |-> v],
         Sound(Look(s, d), s.header, o),
         IF m THEN d = <<>> ELSE 1 \in DOMAIN d /\ d[1] = v
  PROVE  State(s) /\ Steady(s, d, o, m, w)
<1>1. 1 \in Page /\ DOMAIN s.cache = {1} /\ s.cache[1] = v /\ s.header \in Header
  BY PageAssumption, MemoryFields
<1>2. Tracked(s)
  BY <1>1 DEF Tracked, OnlyFirst
<1>3. o[1] = "live" /\ 1 <= s.header.total
  BY <1>1 DEF Sound, Owned
<1>4. Alone(s, d, o, m)
  <2>1. CASE m
    BY <1>1, <1>3, <2>1, EmptyPages DEF Alone
  <2>2. CASE ~ m
    BY <1>1, <1>3, <2>2 DEF Alone
  <2>3. QED
    BY <2>1, <2>2
<1>5. Len(s.levels) = 0
  OBVIOUS
<1>6. Restorable(s, d, o, m, w)
  BY <1>4, <1>5, PastAlone
<1>7. QED
  BY <1>2, <1>6 DEF State, Steady

\* What a crash leaves is what the log and the base file hold, or the write in doubt.
LEMMA CrashKeeps ==
  ASSUME NEW w, IAt(w), Crash
  PROVE  IAt(w)'
<1> DEFINE m == options.inMemory
           here == [durable |-> durable, header |-> durableHeader,
                    owner |-> IF InTx(Now) THEN levels[1].owner ELSE owner]
<1>1. /\ m = FALSE /\ ioFailed' = FALSE /\ doubt' = None /\ work' = work
  BY NowFacts DEF Crash
<1>2. PICK x \in {here, doubt} \ {None} :
        /\ Persist([durable |-> x.durable, header |-> x.header])
        /\ Become([cache |-> [p \in {1} |-> x.durable[1]], lru |-> <<1>>,
                   header |-> x.header, levels |-> <<>>])
        /\ owner' = x.owner
  BY DEF Crash
<1>3. here.owner = OwnerAt(Now, owner, 1) /\ here.durable = durable /\ here.header = durableHeader
  <2>1. InTx(Now) <=> 1 \in Levels(Now)
    BY NowFacts DEF Levels
  <2>2. QED
    BY <2>1, NowFacts DEF OwnerAt
<1>4. OwnerAt(Now, owner, 1) \in [Page -> Owner]
  <2>1. 1 \in Points(Now)
    BY NowFacts, LevelTypes
  <2>2. QED
    BY <2>1, NowFacts, PointTypes
<1> HIDE DEF here
<1>5. /\ x.durable \in Pages /\ x.header \in Header /\ x.owner \in [Page -> Owner]
      /\ Sound(ContentOf(x.durable), x.header, x.owner)
  <2>1. CASE x = here
    BY <1>1, <1>3, <1>4, <2>1, NowFacts DEF IAt, OnBase
  <2>2. CASE x = doubt
    <3>1. x \in Doubt /\ x # None
      BY <1>2, <2>2 DEF IAt, Types
    <3>2. QED
      BY <2>2, <3>1 DEF IAt, InDoubt, Doubt
  <2>3. QED
    BY <1>2, <2>1, <2>2
<1> DEFINE D == x.durable
           h == x.header
           o == x.owner
           v == D[1]
           s == [cache |-> [p \in {1} |-> v], lru |-> <<1>>, header |-> h, levels |-> <<>>]
<1>6. /\ durable' = D /\ durableHeader' = h /\ owner' = o /\ Become(s)
  BY <1>2 DEF Persist
<1>7. 1 \in Page /\ 1 \in DOMAIN D /\ v \in Content
  <2>1. 1 \in Page
    BY PageAssumption
  <2>2. o[1] = "live" /\ ContentOf(D)[1] # None
    BY <1>5, <2>1 DEF Sound, Owned
  <2>3. 1 \in DOMAIN D
    BY <2>1, <2>2 DEF ContentOf, Below
  <2>4. QED
    BY <1>5, <2>1, <2>3, PagesType
<1> HIDE DEF D, h, o, v
<1>8. s \in Memory
  <2>1. [p \in {1} |-> v] \in Pages
    <3>1. DOMAIN [p \in {1} |-> v] = {1} /\ [p \in {1} |-> v] \in [{1} -> Content]
      BY <1>7
    <3>2. QED
      BY <1>7, <3>1, PagesType
  <2>2. <<1>> \in Seq(Page) /\ <<>> \in Seq(LevelRec) /\ h \in Header
    BY <1>5, <1>7 DEF h
  <2>3. QED
    BY <2>1, <2>2 DEF Memory
<1>9. s.cache = [p \in {1} |-> v] /\ s.lru = <<1>> /\ s.header = h /\ s.levels = <<>>
  OBVIOUS
<1> HIDE DEF s
<1>10. Look(s, D) = ContentOf(D)
  <2>1. \A p \in Page : InMemory(s, p) = IF p = 1 THEN v ELSE None
    BY <1>9 DEF InMemory
  <2>2. Below(D, 1) = v /\ v # None
    BY <1>7, ContentType DEF Below, v
  <2>3. \A p \in Page : (IF InMemory(s, p) # None THEN InMemory(s, p) ELSE Below(D, p)) = Below(D, p)
    BY <2>1, <2>2
  <2>4. QED
    BY <2>3 DEF Look, ContentOf
<1>11. State(s) /\ Steady(s, D, o, m, w)
  <2>1. /\ D \in Pages /\ o \in [Page -> Owner] /\ m \in BOOLEAN /\ m = FALSE
        /\ Sound(Look(s, D), s.header, o) /\ 1 \in DOMAIN D /\ D[1] = v
    BY <1>1, <1>5, <1>7, <1>9, <1>10 DEF D, h, o, v
  <2> HIDE DEF m
  <2>2. QED
    BY <1>7, <1>8, <1>9, <2>1, OpenKeeps DEF OnlyFirst
<1>12. Len(s.levels) = 0
  BY <1>9
<1>13. /\ durable' \in Pages /\ durableHeader' \in Header /\ owner' \in [Page -> Owner]
       /\ Steady(s, durable', owner', m, w) /\ Sound(ContentOf(durable'), durableHeader', owner')
  BY <1>5, <1>6, <1>11 DEF D, h, o
<1>14. QED
  BY <1>1, <1>6, <1>11, <1>12, <1>13, EndKeeps

\* A new database satisfies the invariant.
LEMMA InitKeeps ==
  ASSUME NEW w, Init
  PROVE  IAt(w)
<1> DEFINE m == options.inMemory
           n == options.pages
<1>1. /\ options \in Options /\ cache = [p \in {1} |-> Empty] /\ lru = <<1>>
      /\ header = [total |-> n, trunk |-> 0, free |-> 0] /\ levels = <<>>
      /\ durable = (IF m THEN <<>> ELSE [p \in 1 .. n |-> Empty])
      /\ durableHeader = header /\ ioFailed = FALSE /\ doubt = None /\ work = 0
      /\ owner = [p \in Page |-> IF p <= n THEN "live" ELSE "free"]
  BY DEF Init
<1>2. m \in BOOLEAN /\ n \in Page /\ n \in Nat /\ 1 <= n /\ 1 .. n \subseteq Page /\ (m => n = 1)
  BY <1>1, OptionsAssumption, PageAssumption
<1>3. header \in Header /\ header.total = n /\ header.trunk = 0 /\ Empty \in Content /\ Empty # None
      /\ 1 \in Page
  BY <1>1, <1>2, ContentType, PageAssumption DEF Header
<1>4. owner \in [Page -> Owner] /\ owner[1] = "live"
      /\ \A p \in Page : (owner[p] # "free" <=> p <= n) /\ (owner[p] = "live" <=> p <= n)
  BY <1>1, <1>2, <1>3 DEF Owner
<1>5. /\ durable \in Pages /\ (~ m => 1 \in DOMAIN durable /\ durable[1] = Empty) /\ (m => durable = <<>>)
      /\ ~ m => \A p \in Page : p <= n => Below(durable, p) = Empty
  <2>1. CASE m
    BY <1>1, <2>1, EmptyPages
  <2>2. CASE ~ m
    <3>1. durable \in [1 .. n -> Content] /\ DOMAIN durable = 1 .. n
      BY <1>1, <1>3, <2>2
    <3>2. durable \in Pages
      BY <1>2, <3>1, PagesType
    <3>3. \A p \in Page : p <= n => p \in 1 .. n
      BY <1>2, PageAssumption
    <3>4. QED
      BY <1>1, <1>2, <2>2, <3>2, <3>3 DEF Below
  <2>3. QED
    BY <2>1, <2>2
<1>6. Now \in Memory /\ Now.cache = [p \in {1} |-> Empty] /\ Now.lru = <<1>>
      /\ Now.header = header /\ Now.levels = <<>>
  <2>1. [p \in {1} |-> Empty] \in Pages
    <3>1. DOMAIN [p \in {1} |-> Empty] = {1} /\ [p \in {1} |-> Empty] \in [{1} -> Content]
      BY <1>3
    <3>2. QED
      BY <1>3, <3>1, PagesType
  <2>2. <<1>> \in Seq(Page) /\ <<>> \in Seq(LevelRec)
    BY <1>3
  <2>3. QED
    BY <1>1, <1>3, <2>1, <2>2 DEF Memory, Now
<1>7. \A p \in Page : InMemory(Now, p) = IF p = 1 THEN Empty ELSE None
  BY <1>6 DEF InMemory
<1>8. Sound(Look(Now, durable), header, owner) /\ (~ m => Sound(ContentOf(durable), header, owner))
  <2> DEFINE place == [p \in Page |-> <<0, 0>>]
             path == [i \in 1 .. 0 |-> 1]
  <2>1. Listed(path, place, 0)
    BY DEF Listed
  <2>2. \A c : FreeList(path, place, 0, c, header, owner)
    BY <1>3 DEF FreeList
  <2>3. ASSUME NEW c, \A p \in Page : p <= n => c[p] # None
        PROVE  Sound(c, header, owner)
    BY <1>3, <1>4, <2>1, <2>2, <2>3 DEF Sound, Owned
  <2>4. \A p \in Page : p <= n => Look(Now, durable)[p] # None
    <3>1. ASSUME NEW p \in Page, p <= n PROVE Look(Now, durable)[p] # None
      <4>1. CASE m
        <5>1. p = 1
          BY <1>2, <3>1, <4>1, PageAssumption
        <5>2. QED
          BY <1>3, <1>5, <1>6, <1>7, <5>1, LookTypes
      <4>2. CASE ~ m
        BY <1>3, <1>5, <1>6, <1>7, <3>1, <4>2, LookTypes
      <4>3. QED
        BY <4>1, <4>2
    <3>2. QED
      BY <3>1
  <2>5. ~ m => \A p \in Page : p <= n => ContentOf(durable)[p] # None
    BY <1>3, <1>5, ContentTypes
  <2>6. QED
    BY <2>3, <2>4, <2>5
<1>9. State(Now) /\ Steady(Now, durable, owner, m, w)
  <2> DEFINE s == Now
             v == Empty
  <2>1. /\ s \in Memory /\ s.levels = <<>> /\ durable \in Pages /\ owner \in [Page -> Owner]
        /\ m \in BOOLEAN /\ s.lru = OnlyFirst /\ v \in Content /\ s.cache = [p \in {1} |-> v]
        /\ Sound(Look(s, durable), s.header, owner)
        /\ IF m THEN durable = <<>> ELSE 1 \in DOMAIN durable /\ durable[1] = v
    BY <1>2, <1>3, <1>4, <1>5, <1>6, <1>8 DEF OnlyFirst
  <2> HIDE DEF s, v, m
  <2>2. State(s) /\ Steady(s, durable, owner, m, w)
    BY <2>1, OpenKeeps
  <2>3. QED
    BY <2>2 DEF s
<1>10. OwnerAt(Now, owner, 1) = owner
  BY <1>6 DEF OwnerAt, Levels
<1>11. Types /\ Flags
  <2>1. work \in 0 .. MaxWork
    BY <1>1, BoundAssumption
  <2>2. durable \in Pages /\ owner \in [Page -> Owner] /\ durableHeader \in Header
        /\ options \in Options /\ State(Now)
    BY <1>1, <1>3, <1>4, <1>5, <1>9
  <2>3. doubt = None /\ ioFailed = FALSE
    BY <1>1
  <2>4. Types
    BY <2>1, <2>2, <2>3 DEF Types
  <2>5. QED
    BY <2>3, <2>4 DEF Flags
<1>12. QED
  BY <1>1, <1>8, <1>9, <1>10, <1>11 DEF IAt, OnBase, InDoubt

-----------------------------------------------------------------------------
(* The theorems.                                                           *)

\* A step that changes nothing.
LEMMA StutterKeeps ==
  ASSUME NEW w, IAt(w), UNCHANGED vars
  PROVE  IAt(w)'
<1>1. /\ options' = options /\ cache' = cache /\ lru' = lru /\ header' = header /\ levels' = levels
      /\ durable' = durable /\ durableHeader' = durableHeader /\ ioFailed' = ioFailed
      /\ doubt' = doubt /\ work' = work /\ owner' = owner
  BY DEF vars, memVars, durableVars
<1>2. Now' = Now
  BY <1>1 DEF Now
<1>3. Types' /\ Flags'
  BY <1>1, <1>2 DEF IAt, Types, Flags
<1>4. (Len(levels) # 0 \/ ~ ioFailed => Steady(Now, durable, owner, options.inMemory, w))'
  BY <1>1, <1>2 DEF IAt
<1>5. OnBase(Now, durable, durableHeader, owner, options.inMemory)' /\ InDoubt(doubt)'
  BY <1>1, <1>2 DEF IAt
<1>6. QED
  BY <1>3, <1>4, <1>5 DEF IAt

\* What was seen counts for the open levels only.
LEMMA OldLevels ==
  ASSUME NEW w, IAt(w), NEW w2, \A k \in Levels(Now) : w2[k] = w[k]
  PROVE  IAt(w2)
<1>1. ASSUME Steady(Now, durable, owner, options.inMemory, w)
      PROVE  Steady(Now, durable, owner, options.inMemory, w2)
  <2>1. PICK u : Past(Now, durable, owner, options.inMemory, u, w)
    BY <1>1 DEF Steady, Restorable
  <2>2. Past(Now, durable, owner, options.inMemory, u, w2)
    BY <2>1 DEF Past
  <2>3. QED
    BY <1>1, <2>2 DEF Steady, Restorable
<1>2. QED
  BY <1>1 DEF IAt

\* What is seen now can be remembered for the levels that are opened.
LEMMA Remembered ==
  ASSUME NEW w, IAt(w)
  PROVE  \E w2 : /\ IAt(w2) /\ \A k \in Levels(Now) : w2[k] = w[k]
                 /\ w2[Len(levels) + 1] = Seen /\ (Len(levels) = 0 => w2[2] = Seen)
<1>1. Len(levels) \in Nat /\ Now.levels = levels
  BY NowFacts
<1>2. PICK z : z = Seen
  OBVIOUS
<1>3. PICK w2 : w2 = [k \in 1 .. Len(levels) + 2 |-> IF k \in Levels(Now) THEN w[k] ELSE z]
  OBVIOUS
<1>4. /\ \A k \in Levels(Now) : w2[k] = w[k]
      /\ w2[Len(levels) + 1] = z /\ (Len(levels) = 0 => w2[2] = z)
  BY <1>1, <1>3 DEF Levels
<1>5. QED
  BY <1>2, <1>4, OldLevels

\* Every operation of the pager, and every way it fails, keeps the invariant.
LEMMA NextKeeps ==
  ASSUME NEW w, IAt(w), Roomy, Next
  PROVE  IInv'
<1>1. ASSUME NEW p \in Page, Read(p) PROVE IInv'
  BY <1>1, ReadKeeps DEF IInv
<1>2. ASSUME NEW p \in Page, Write(p) PROVE IInv'
  BY <1>2, WriteInTxKeeps, WriteAloneKeeps DEF IInv
<1>3. ASSUME NEW p \in Page, Free(p) PROVE IInv'
  BY <1>3, FreeKeeps DEF IInv
<1>4. CASE AllocateNew \/ AllocateSlot \/ AllocateTrunk
  BY <1>4, AllocateNewKeeps, AllocateSlotKeeps, AllocateTrunkKeeps DEF IInv
<1>5. PICK w2 : IAt(w2) /\ w2[Len(levels) + 1] = Seen /\ (Len(levels) = 0 => w2[2] = Seen)
  BY Remembered
<1>6. CASE Begin
  <2>1. Len(levels) = 0
    BY <1>6, NowFacts DEF Begin
  <2>2. QED
    BY <1>5, <1>6, <2>1, BeginKeeps DEF IInv
<1>7. CASE Commit \/ CommitFails \/ Rollback
  BY <1>7, CommitKeeps, CommitFailsKeeps, RollbackKeeps DEF IInv
<1>8. ASSUME NEW name \in Name, CreateSavepoint(name) PROVE IInv'
  BY <1>5, <1>8, CreateSavepointKeeps DEF IInv
<1>9. ASSUME NEW name \in Name, RollbackTo(name) \/ RollbackToFails(name) \/ Release(name)
      PROVE  IInv'
  BY <1>9, RollbackToKeeps, RollbackToFailsKeeps, ReleaseKeeps DEF IInv
<1>10. CASE Checkpoint \/ Crash
  BY <1>10, CheckpointKeeps, CrashKeeps DEF IInv
<1>11. QED
  BY <1>1, <1>2, <1>3, <1>4, <1>6, <1>7, <1>8, <1>9, <1>10 DEF Next

\* At every point what is in memory, what every open level restores and what the next open may
\* find are sound databases: whatever was rolled back, released, evicted, or failed.
THEOREM InvCorrect ==
  ASSUME Roomy
  PROVE  Spec => []IInv
<1>1. Init => IInv
  BY InitKeeps DEF IInv
<1>2. IInv /\ [Next]_vars => IInv'
  <2>1. ASSUME NEW w, IAt(w), [Next]_vars PROVE IInv'
    BY <2>1, NextKeeps, StutterKeeps DEF IInv
  <2>2. QED
    BY <2>1 DEF IInv
<1>3. QED
  BY <1>1, <1>2, PTL DEF Spec

\* No rollback, eviction, failure or crash loses a page that somebody has written.
THEOREM LiveCorrect ==
  ASSUME Roomy
  PROVE  Spec => []LivePagesReadable
<1>1. IInv => LivePagesReadable
  <2>1. SUFFICES ASSUME NEW w, IAt(w), NEW p \in Page, owner[p] = "live" PROVE Readable(Now, p)
    BY DEF IInv, LivePagesReadable, Live
  <2>2. Now \in Memory /\ durable \in Pages /\ Now.levels = levels
    BY <2>1, NowFacts
  <2>3. CASE Len(levels) # 0 \/ ~ ioFailed
    <3>1. Look(Now, durable)[p] # None
      BY <2>1, <2>3 DEF IAt, Steady, Sound, Owned
    <3>2. InMemory(Now, p) # None \/ Below(durable, p) # None
      BY <2>2, <3>1, LookTypes
    <3>3. QED
      BY <2>2, <3>2 DEF InMemory, Below, Readable
  <2>4. CASE Len(levels) = 0 /\ ioFailed
    <3>1. ~ options.inMemory
      BY <2>1, <2>4 DEF IAt, Flags
    <3>2. Sound(ContentOf(durable), durableHeader, owner)
      BY <2>1, <2>4, <3>1, BaseSound
    <3>3. ContentOf(durable)[p] # None
      BY <2>1, <3>2 DEF Sound, Owned
    <3>4. QED
      BY <2>2, <3>3, ContentTypes DEF Below, Readable
  <2>5. QED
    BY <2>3, <2>4
<1>2. QED
  BY <1>1, InvCorrect, PTL

-----------------------------------------------------------------------------
(* The freelist as allocate_page walks it.                                 *)

\* One step along the list of trunks: f has the trunks before the i-th.
Along(f, i) ==
  IF i = 1 THEN header.trunk
  ELSE IF f[i - 1] = 0 \/ ~ Readable(Now, f[i - 1]) THEN 0
  ELSE Lookup(Now, f[i - 1]).next

Walk(f, N) == f = [i \in 1 .. N |-> Along(f, i)]

\* Two walks of the same length pass the same trunks.
LEMMA OneWalk ==
  ASSUME NEW N \in Nat, NEW f, NEW g, Walk(f, N), Walk(g, N)
  PROVE  /\ DOMAIN f = 1 .. N /\ \A i \in 1 .. N : f[i] = g[i]
<1>1. DOMAIN f = 1 .. N /\ \A i \in 1 .. N : f[i] = Along(f, i) /\ g[i] = Along(g, i)
  BY DEF Walk
<1> DEFINE B == {i \in 1 .. N : f[i] # g[i]}
<1>2. SUFFICES ASSUME B # {} PROVE FALSE
  BY <1>1
<1>3. B \subseteq Nat
  OBVIOUS
<1>4. PICK i \in B : \A j \in B : i <= j
  <2> HIDE DEF B
  <2>1. QED
    BY <1>2, <1>3, LeastElement
<1>5. i \in 1 .. N /\ i \in Int /\ f[i] # g[i]
  BY <1>4
<1>6. i # 1
  BY <1>1, <1>5 DEF Along
<1>7. i - 1 \in 1 .. N /\ i - 1 \notin B
  BY <1>4, <1>5, <1>6
<1>8. f[i - 1] = g[i - 1]
  BY <1>7
<1>9. Along(f, i) = Along(g, i)
  BY <1>6, <1>8 DEF Along
<1>10. QED
  BY <1>1, <1>5, <1>9

\* The walk passes the trunks of a sound freelist, first to last.
LEMMA TrunksAreWalked ==
  ASSUME NEW w, IAt(w), NEW n, NEW path, NEW place, Listed(path, place, n),
         FreeList(path, place, n, Look(Now, durable), header, owner)
  PROVE  /\ DOMAIN TrunkAt = 1 .. Cardinality(Page)
         /\ \A i \in 1 .. Cardinality(Page) : TrunkAt[i] = IF i <= n THEN path[n + 1 - i] ELSE 0
<1> DEFINE N == Cardinality(Page)
           c == Look(Now, durable)
           f == [i \in 1 .. N |-> IF i <= n THEN path[n + 1 - i] ELSE 0]
<1>1. N \in Nat /\ n \in Nat /\ Now \in Memory /\ durable \in Pages
  BY PageAssumption, FS_CardinalityType, NowFacts DEF Listed
<1>2. \A i \in 1 .. n : /\ path[i] \in Page /\ path[i] # 0 /\ c[path[i]] \in Content
                        /\ c[path[i]].next = IF i = 1 THEN 0 ELSE path[i - 1]
  BY PageAssumption DEF Listed, FreeList
<1>3. header.trunk = IF n = 0 THEN 0 ELSE path[n]
  BY DEF FreeList
<1>4. \A q \in Page : c[q] # None => Readable(Now, q) /\ Lookup(Now, q) = c[q]
  <2>1. ASSUME NEW q \in Page, c[q] # None PROVE Readable(Now, q) /\ Lookup(Now, q) = c[q]
    <3>1. InMemory(Now, q) # None \/ Below(durable, q) # None
      BY <1>1, <2>1, LookTypes
    <3>2. QED
      BY <1>1, <3>1, LookupLook DEF InMemory, Below, Readable
  <2>2. QED
    BY <2>1
<1> HIDE DEF c, N
<1>5. ASSUME NEW i \in 1 .. N PROVE f[i] = Along(f, i)
  <2>1. i \in Int /\ 1 <= i /\ f[i] = IF i <= n THEN path[n + 1 - i] ELSE 0
    BY <1>1
  <2>2. CASE i = 1
    BY <1>1, <1>3, <2>1, <2>2 DEF Along
  <2>3. CASE i # 1 /\ i - 1 <= n
    <3> DEFINE k == n + 2 - i
    <3>1. k \in 1 .. n /\ i - 1 \in 1 .. N /\ n + 1 - (i - 1) = k
      BY <1>1, <2>1, <2>3
    <3>2. f[i - 1] = path[k]
      BY <2>3, <3>1
    <3>3. c[path[k]] # None /\ path[k] \in Page /\ path[k] # 0
      BY <1>2, <3>1, ContentType
    <3>4. Along(f, i) = c[path[k]].next
      <4> HIDE DEF f, k
      <4>1. QED
        BY <1>4, <2>3, <3>2, <3>3 DEF Along
    <3>5. c[path[k]].next = IF k = 1 THEN 0 ELSE path[k - 1]
      BY <1>2, <3>1
    <3>6. (k = 1 <=> ~ (i <= n)) /\ k - 1 = n + 1 - i
      BY <1>1, <2>1, <2>3
    <3> HIDE DEF k, f
    <3>7. QED
      BY <2>1, <3>4, <3>5, <3>6
  <2>4. CASE i # 1 /\ ~ (i - 1 <= n)
    <3>1. i - 1 \in 1 .. N /\ f[i - 1] = 0 /\ ~ (i <= n)
      BY <1>1, <2>1, <2>4
    <3> HIDE DEF f
    <3>2. QED
      BY <2>1, <2>4, <3>1 DEF Along
  <2>5. QED
    BY <2>2, <2>3, <2>4
<1>6. Walk(f, N)
  BY <1>5 DEF Walk
<1>7. Walk(TrunkAt, N)
  <2>1. \E g : Walk(g, N)
    BY <1>6
  <2>2. TrunkAt = CHOOSE g : Walk(g, N)
    BY DEF TrunkAt, Walk, Along, N
  <2>3. QED
    BY <2>1, <2>2
<1>8. DOMAIN TrunkAt = 1 .. N /\ \A i \in 1 .. N : TrunkAt[i] = f[i]
  <2> HIDE DEF f
  <2>1. QED
    BY <1>1, <1>6, <1>7, OneWalk
<1>9. QED
  BY <1>8 DEF N

\* Each place in the freelist offers the free page that has it.
LEMMA OfferedPlaces ==
  ASSUME NEW w, IAt(w), NEW n, NEW path, NEW place, Listed(path, place, n),
         FreeList(path, place, n, Look(Now, durable), header, owner),
         NEW x \in Offers
  PROVE  /\ IsFree(Offered(x), header, owner) /\ x = <<x[1], x[2]>>
         /\ x[1] \in Int /\ place[Offered(x)] = <<n + 1 - x[1], x[2]>>
<1> DEFINE c == Look(Now, durable)
           N == Cardinality(Page)
<1>1. PICK i \in Trunks : x \in {i} \X (0 .. Len(Slots(i)))
  BY DEF Offers
<1> DEFINE a == x[2]
           t == TrunkAt[i]
           k == n + 1 - i
<1>2. x = <<i, a>> /\ a \in 0 .. Len(Slots(i)) /\ x[1] = i
  BY <1>1
<1>3. n \in Nat /\ N \in Nat /\ durable \in Pages /\ Now \in Memory
  BY PageAssumption, FS_CardinalityType, NowFacts DEF Listed
<1>4. i \in 1 .. N /\ t # 0 /\ i \in Int
  <2>1. i \in DOMAIN TrunkAt /\ t # 0
    BY <1>1 DEF Trunks
  <2> HIDE DEF t
  <2>2. QED
    BY <1>3, <2>1, TrunksAreWalked
<1>5. i <= n /\ t = path[k]
  <2>1. t = IF i <= n THEN path[k] ELSE 0
    BY <1>4, TrunksAreWalked
  <2> HIDE DEF t, k
  <2>2. QED
    BY <1>4, <2>1
<1>6. k \in 1 .. n
  BY <1>3, <1>4, <1>5
<1> HIDE DEF k, t, a
<1>7. /\ IsFree(t, header, owner) /\ place[t] = <<k, 0>> /\ c[t] \in Content
      /\ \A b \in DOMAIN c[t].slots :
           IsFree(c[t].slots[b], header, owner) /\ place[c[t].slots[b]] = <<k, b>>
  BY <1>5, <1>6 DEF FreeList
<1>8. Slots(i) = c[t].slots /\ c[t].slots \in Seq(Page)
  <2>1. t \in Page
    BY <1>7 DEF IsFree
  <2>2. Lookup(Now, t) = c[t]
    BY <1>3, <2>1, LookupLook
  <2>3. QED
    BY <1>7, <2>2, ContentType DEF Slots, t
<1>9. Offered(x) = IF a = 0 THEN t ELSE c[t].slots[a]
  BY <1>2, <1>8 DEF Offered, a, t
<1>10. a # 0 => a \in DOMAIN c[t].slots
  BY <1>2, <1>8
<1>11. IsFree(Offered(x), header, owner) /\ place[Offered(x)] = <<k, a>>
  BY <1>7, <1>9, <1>10
<1>12. QED
  BY <1>2, <1>4, <1>11 DEF k, a

\* What the invariant says of the types.
LEMMA TypesSound ==
  ASSUME NEW w, IAt(w)
  PROVE  TypeOK
<1>1. /\ State(Now) /\ Now \in Memory /\ durable \in Pages /\ owner \in [Page -> Owner]
      /\ options \in Options /\ Now.cache = cache /\ Now.lru = lru /\ Now.levels = levels
      /\ header \in Header /\ durableHeader \in Header /\ work \in 0 .. MaxWork
  BY NowFacts
<1>2. ioFailed \in BOOLEAN
  BY DEF IAt, Types
<1>3. lru \in Seq(DOMAIN cache) /\ \A i, j \in DOMAIN lru : i # j => lru[i] # lru[j]
  BY <1>1 DEF State, Tracked
<1>4. DOMAIN cache \subseteq Page /\ \A p \in DOMAIN cache : cache[p] \in Content
  <2>1. cache \in Pages
    BY <1>1, MemoryTypes
  <2>2. QED
    BY <2>1, PagesType
<1>5. DOMAIN durable \subseteq Page /\ \A p \in DOMAIN durable : durable[p] \in Content
  BY <1>1, PagesType
<1>6. \A i \in DOMAIN levels :
        /\ levels[i].header \in Header /\ levels[i].dirty \subseteq Page
        /\ DOMAIN levels[i].undo \subseteq Page
        /\ \A p \in DOMAIN levels[i].undo : levels[i].undo[p] \in Content \cup {None}
  BY <1>1, LevelTypes DEF Maybe
<1>7. QED
  BY <1>1, <1>2, <1>3, <1>4, <1>5, <1>6 DEF TypeOK

\* allocate_page cannot hand out a page twice: the freelist offers each page at most once, and
\* never one that somebody has, whatever was rolled back.
THEOREM AllocationCorrect ==
  ASSUME Roomy
  PROVE  Spec => []NoDoubleAllocation
<1>1. ASSUME NEW w, IAt(w), ~ ioFailed
      PROVE  /\ \A i \in DOMAIN TrunkAt : TrunkAt[i] = 0 \/ i \in Trunks
             /\ \A x, y \in Offers : Offered(x) = Offered(y) => x = y
             /\ \A x \in Offers : owner[Offered(x)] = "free" /\ Offered(x) <= header.total
             /\ \A p \in Page : owner[p] # "free" => p <= header.total
  <2> DEFINE c == Look(Now, durable)
  <2>1. Owned(c, header, owner) /\
        \E n, path, place : Listed(path, place, n) /\ FreeList(path, place, n, c, header, owner)
    <3>1. Sound(c, Now.header, owner)
      BY <1>1 DEF IAt, Steady
    <3>2. QED
      BY <1>1, <3>1, NowFacts DEF Sound
  <2>2. PICK n, path, place :
           Listed(path, place, n) /\ FreeList(path, place, n, c, header, owner)
    BY <2>1
  <2>3. ASSUME NEW i \in DOMAIN TrunkAt, TrunkAt[i] # 0 PROVE i \in Trunks
    <3>1. n \in Nat /\ Cardinality(Page) \in Nat /\ i \in 1 .. Cardinality(Page)
          /\ TrunkAt[i] = IF i <= n THEN path[n + 1 - i] ELSE 0
      BY <1>1, <2>2, <2>3, PageAssumption, FS_CardinalityType, TrunksAreWalked DEF Listed
    <3>2. i <= n /\ n + 1 - i \in 1 .. n /\ TrunkAt[i] = path[n + 1 - i]
      BY <2>3, <3>1
    <3>3. c[TrunkAt[i]] \in Content /\ TrunkAt[i] \in Page
      BY <2>2, <3>2 DEF FreeList, IsFree
    <3>4. Readable(Now, TrunkAt[i])
      <4>1. c[TrunkAt[i]] # None /\ Now \in Memory /\ durable \in Pages
        BY <1>1, <3>3, ContentType, NowFacts
      <4> DEFINE t == TrunkAt[i]
      <4> HIDE DEF t
      <4>2. InMemory(Now, t) # None \/ Below(durable, t) # None
        BY <3>3, <4>1, LookTypes DEF t
      <4>3. QED
        BY <4>1, <4>2 DEF InMemory, Below, Readable, t
    <3>5. QED
      BY <2>3, <3>4 DEF Trunks
  <2>4. ASSUME NEW x \in Offers, NEW y \in Offers, Offered(x) = Offered(y) PROVE x = y
    <3>1. /\ x = <<x[1], x[2]>> /\ x[1] \in Int /\ place[Offered(x)] = <<n + 1 - x[1], x[2]>>
          /\ y = <<y[1], y[2]>> /\ y[1] \in Int /\ place[Offered(x)] = <<n + 1 - y[1], y[2]>>
      BY <1>1, <2>2, <2>4, OfferedPlaces
    <3>2. n + 1 - x[1] = n + 1 - y[1] /\ x[2] = y[2] /\ n \in Int
      BY <2>2, <3>1 DEF Listed
    <3>3. x[1] = y[1]
      BY <3>1, <3>2
    <3>4. QED
      BY <3>1, <3>2, <3>3
  <2>5. \A x \in Offers : owner[Offered(x)] = "free" /\ Offered(x) <= header.total
    BY <1>1, <2>2, OfferedPlaces DEF IsFree
  <2>6. QED
    BY <2>1, <2>3, <2>4, <2>5 DEF Owned
<1>2. IInv => NoDoubleAllocation
  BY <1>1, TypesSound DEF IInv, NoDoubleAllocation
<1>3. QED
  BY <1>2, InvCorrect, PTL
-----------------------------------------------------------------------------
(* The store that the pager implements.                                    *)

\* The pages in use, as x was seen.
Shown(x)      == [p \in Live(x.owner) |-> x.content[p]]
SavedAs(w, n) == [k \in 1 .. n |-> Shown(w[k])]
Base(w)       == IF Len(levels) = 0 THEN owner ELSE w[1].owner
StoredAs(w) ==
  IF ~ options.inMemory THEN [p \in Live(Base(w)) |-> Below(durable, p)]
  ELSE IF Len(levels) = 0 THEN Shown(Seen) ELSE Shown(w[1])
DoubtedAs ==
  IF doubt = None THEN {} ELSE {[p \in Live(doubt.owner) |-> Below(doubt.durable, p)]}

\* The variables of PageStore, in terms of what was seen.
Reading(w) ==
  /\ Len(levels) \in Nat /\ options.inMemory \in BOOLEAN /\ (ioFailed <=> doubt # None)
  /\ PagesSeen = Shown(Seen) /\ PagesSaved = SavedAs(w, Len(levels))
  /\ PagesStored = StoredAs(w) /\ PagesDoubted = DoubtedAs
  /\ Len(levels) = 0 /\ ~ ioFailed => PagesStored = PagesSeen

Reads == \A w : IAt(w) => Reading(w)

\* What a level restores is what a caller saw when it was opened.
LEMMA BeforeIs ==
  ASSUME NEW w, IAt(w), NEW k \in Levels(Now)
  PROVE  /\ levels[k].owner = w[k].owner
         /\ \A p \in Live(w[k].owner) : p \in Page /\ Before(k, p) = w[k].content[p]
<1>1. /\ Now \in Memory /\ durable \in Pages /\ Now.levels = levels /\ Len(levels) \in Nat
      /\ Now.cache = cache
  BY NowFacts
<1>2. Len(levels) # 0
  BY <1>1 DEF Levels
<1>3. PICK u : Past(Now, durable, owner, options.inMemory, u, w)
  BY <1>2 DEF IAt, Steady, Restorable
<1>4. Undoing(u, Now) /\ Restores(View(u[k], durable), w[k], levels[k].header, levels[k].owner)
  BY <1>1, <1>3 DEF Past
<1> DEFINE x == Undone(Now, k, Len(levels))
           c == View(u[k], durable)
<1>5. /\ w[k].owner = levels[k].owner
      /\ SameBut({}, w[k].content, c, levels[k].header, levels[k].owner)
      /\ Sound(c, levels[k].header, levels[k].owner)
  BY <1>4 DEF Restores
<1>6. u[k] \in [Page -> Maybe]
  BY <1>1, <1>4, LevelTypes DEF Undoing
<1>7. ASSUME NEW p \in Live(w[k].owner)
      PROVE  p \in Page /\ Before(k, p) = w[k].content[p]
  <2>1. p \in Page /\ levels[k].owner[p] = "live"
    BY <1>5, <1>7 DEF Live
  <2>2. c[p] = w[k].content[p]
    <3> HIDE DEF c
    <3>1. QED
      BY <1>5, <2>1 DEF SameBut, Sound, Owned
  <2>3. c[p] = IF u[k][p] # None THEN u[k][p] ELSE Below(durable, p)
    BY <1>1, <1>6, <2>1, ViewTypes
  <2>4. u[k][p] = IF p \in DOMAIN x THEN x[p] ELSE InMemory(Now, p)
    BY <1>1, <1>4, <2>1, LevelsUndone
  <2>5. /\ Lookup(Now, p) = IF InMemory(Now, p) # None THEN InMemory(Now, p) ELSE Below(durable, p)
        /\ Stable(p) = Below(durable, p)
    BY <1>1, <2>1, LookupLook, LookTypes DEF Stable, Below
  <2>6. Before(k, p) = IF p \in DOMAIN x THEN (IF x[p] = None THEN Stable(p) ELSE x[p])
                       ELSE Lookup(Now, p)
    BY DEF Before
  <2> HIDE DEF x, c
  <2>7. QED
    BY <2>1, <2>2, <2>3, <2>4, <2>5, <2>6
<1>8. QED
  BY <1>5, <1>7

\* Under the invariant the variables of PageStore are what was seen.
LEMMA ReadingHolds ==
  ASSUME NEW w, IAt(w)
  PROVE  Reading(w)
<1>1. /\ Now \in Memory /\ durable \in Pages /\ Now.levels = levels /\ Len(levels) \in Nat
      /\ options.inMemory \in BOOLEAN /\ (InTx(Now) <=> Len(levels) # 0)
      /\ levels \in Seq(LevelRec)
  BY NowFacts, MemoryFields
<1>2. (ioFailed <=> doubt # None) /\ (options.inMemory => ~ ioFailed)
  BY DEF IAt, Flags
<1>3. \A p \in Live(owner) : p \in Page /\ owner[p] # "new" /\ Lookup(Now, p) = Look(Now, durable)[p]
  BY <1>1, LookupLook DEF Live
<1>4. PagesSeen = Shown(Seen)
  BY <1>3 DEF PagesSeen, Shown, Seen
<1>5. PagesSaved = SavedAs(w, Len(levels))
  <2>1. DOMAIN levels = 1 .. Len(levels) /\ Levels(Now) = 1 .. Len(levels)
    BY <1>1 DEF Levels
  <2>2. ASSUME NEW k \in 1 .. Len(levels)
        PROVE  [p \in Live(levels[k].owner) |-> Before(k, p)] = Shown(w[k])
    BY <2>1, BeforeIs DEF Shown
  <2>3. QED
    BY <2>1, <2>2 DEF PagesSaved, SavedAs
<1>6. \A p : Stable(p) = Below(durable, p)
  BY DEF Stable, Below
<1>7. Len(levels) # 0 => /\ levels[1].owner = w[1].owner
                         /\ \A p \in Live(w[1].owner) : Before(1, p) = w[1].content[p]
  <2>1. Len(levels) # 0 => 1 \in Levels(Now)
    BY <1>1 DEF Levels
  <2>2. QED
    BY <2>1, BeforeIs
<1>8. PagesStored = StoredAs(w)
  <2>1. CASE ~ options.inMemory
    BY <1>1, <1>6, <1>7, <2>1 DEF PagesStored, StoredAs, Base
  <2>2. CASE options.inMemory /\ Len(levels) = 0
    BY <1>1, <1>3, <2>2 DEF PagesStored, StoredAs, Shown, Seen
  <2>3. CASE options.inMemory /\ Len(levels) # 0
    BY <1>1, <1>7, <2>3 DEF PagesStored, StoredAs, Shown
  <2>4. QED
    BY <2>1, <2>2, <2>3
<1>9. PagesDoubted = DoubtedAs
  <2>1. CASE doubt = None
    BY <2>1 DEF PagesDoubted, DoubtedAs
  <2>2. CASE doubt # None
    <3>1. Sound(ContentOf(doubt.durable), doubt.header, doubt.owner)
      BY <2>2 DEF IAt, InDoubt
    <3>2. \A p \in Live(doubt.owner) : Below(doubt.durable, p) = doubt.durable[p]
      <4>1. \A p \in Live(doubt.owner) : Below(doubt.durable, p) # None
        BY <3>1 DEF Sound, Owned, Live, ContentOf
      <4>2. QED
        BY <4>1 DEF Below
    <3>3. QED
      BY <2>2, <3>2 DEF PagesDoubted, DoubtedAs
  <2>3. QED
    BY <2>1, <2>2
<1>10. Len(levels) = 0 /\ ~ ioFailed => PagesStored = PagesSeen
  <2> SUFFICES ASSUME Len(levels) = 0, ~ ioFailed PROVE PagesStored = PagesSeen
    OBVIOUS
  <2>1. Steady(Now, durable, owner, options.inMemory, w)
    BY DEF IAt
  <2>2. CASE options.inMemory
    BY <1>4, <1>8, <2>2 DEF StoredAs
  <2>3. CASE ~ options.inMemory
    <3>1. \A p \in Live(owner) : ContentOf(durable)[p] = Look(Now, durable)[p]
      BY <1>3, <2>1, <2>3, AloneBelow
    <3>2. \A p \in Live(owner) : ContentOf(durable)[p] = Below(durable, p)
      BY <1>3 DEF ContentOf
    <3>3. QED
      BY <1>4, <1>8, <2>3, <3>1, <3>2 DEF StoredAs, Base, Shown, Seen
  <2>4. QED
    BY <2>2, <2>3
<1>11. QED
  BY <1>1, <1>2, <1>4, <1>5, <1>8, <1>9, <1>10 DEF Reading

\* What was seen when the levels were opened, as a sequence.
LEMMA SavedFacts ==
  ASSUME NEW w, NEW n \in Nat
  PROVE  /\ Len(SavedAs(w, n)) = n /\ (SavedAs(w, n) = <<>> <=> n = 0)
         /\ \A k \in 1 .. n : SavedAs(w, n)[k] = Shown(w[k])
         /\ \A k \in 0 .. n : SubSeq(SavedAs(w, n), 1, k) = SavedAs(w, k)
         /\ Append(SavedAs(w, n), Shown(w[n + 1])) = SavedAs(w, n + 1)
<1> DEFINE S == {Shown(w[k]) : k \in 1 .. n + 1}
           f == SavedAs(w, n)
           g == SavedAs(w, n + 1)
<1>1. /\ DOMAIN f = 1 .. n /\ f = [i \in 1 .. n |-> f[i]] /\ \A k \in 1 .. n : f[k] = Shown(w[k])
      /\ \A k \in 1 .. n : f[k] \in S
  BY DEF SavedAs
<1>2. /\ DOMAIN g = 1 .. n + 1 /\ g = [i \in 1 .. n + 1 |-> g[i]]
      /\ \A k \in 1 .. n + 1 : g[k] = Shown(w[k]) /\ g[k] \in S
  BY DEF SavedAs
<1>3. Shown(w[n + 1]) \in S
  OBVIOUS
<1> HIDE DEF S
<1>4. f \in Seq(S) /\ Len(f) = n
  <2> HIDE DEF f
  <2>1. QED
    BY <1>1, SeqMap
<1>5. g \in Seq(S) /\ Len(g) = n + 1
  <2> HIDE DEF g
  <2>1. n + 1 \in Nat
    OBVIOUS
  <2>2. QED
    BY <1>2, <2>1, SeqMap
<1>6. ASSUME NEW k \in 0 .. n PROVE SubSeq(f, 1, k) = SavedAs(w, k)
  <2>1. SubSeq(f, 1, k) = [i \in 1 .. k |-> f[i]]
    <3> HIDE DEF f
    <3>1. QED
      BY <1>4
  <2>2. \A i \in 1 .. k : f[i] = Shown(w[i])
    BY <1>1
  <2>3. QED
    BY <2>1, <2>2 DEF SavedAs
<1>7. Append(f, Shown(w[n + 1])) = g
  <2> PICK x \in S : x = Shown(w[n + 1])
    BY <1>3
  <2> HIDE DEF f, g
  <2>1. Append(f, x) \in Seq(S) /\ Len(Append(f, x)) = n + 1
        /\ \A i \in 1 .. n : Append(f, x)[i] = f[i]
        /\ Append(f, x)[n + 1] = x
    BY <1>4
  <2>2. \A i \in 1 .. n + 1 : Append(f, x)[i] = g[i]
    <3>1. \A i \in 1 .. n + 1 : i \in 1 .. n \/ i = n + 1
      OBVIOUS
    <3>2. QED
      BY <1>1, <1>2, <2>1, <3>1
  <2>3. QED
    BY <1>5, <2>1, <2>2
<1>8. f = <<>> <=> n = 0
  <2> HIDE DEF f
  <2>1. QED
    BY <1>4
<1>9. QED
  BY <1>1, <1>4, <1>6, <1>7, <1>8

\* None, one and two levels.
LEMMA SavedFew ==
  ASSUME NEW w
  PROVE  /\ SavedAs(w, 0) = <<>> /\ SavedAs(w, 1) = <<Shown(w[1])>>
         /\ SavedAs(w, 2) = <<Shown(w[1]), Shown(w[2])>>
<1>1. SavedAs(w, 0) = <<>>
  BY SavedFacts
<1>2. SavedAs(w, 1) = <<Shown(w[1])>>
  BY DEF SavedAs
<1>3. SavedAs(w, 2) = <<Shown(w[1]), Shown(w[2])>>
  BY DEF SavedAs
<1>4. QED
  BY <1>1, <1>2, <1>3

\* So it is for the levels that are open.
LEMMA SavedNow ==
  ASSUME NEW w, Reading(w), NEW n, n = Len(levels)
  PROVE  /\ n \in Nat /\ Len(PagesSaved) = n /\ (PagesSaved = <<>> <=> n = 0)
         /\ \A k \in 1 .. n : PagesSaved[k] = Shown(w[k])
         /\ \A k \in 0 .. n : SubSeq(PagesSaved, 1, k) = SavedAs(w, k)
         /\ Append(PagesSaved, Shown(w[n + 1])) = SavedAs(w, n + 1)
<1>1. n \in Nat /\ PagesSaved = SavedAs(w, n)
  BY DEF Reading
<1>2. /\ Len(SavedAs(w, n)) = n /\ (SavedAs(w, n) = <<>> <=> n = 0)
      /\ \A k \in 1 .. n : SavedAs(w, n)[k] = Shown(w[k])
  BY <1>1, SavedFacts
<1>3. \A k \in 0 .. n : SubSeq(SavedAs(w, n), 1, k) = SavedAs(w, k)
  BY <1>1, SavedFacts
<1>4. Append(SavedAs(w, n), Shown(w[n + 1])) = SavedAs(w, n + 1)
  BY <1>1, SavedFacts
<1>5. QED
  BY <1>1, <1>2, <1>3, <1>4

\* A step that changes one page in use, as PageStore sees it.
LEMMA ShownApart ==
  ASSUME NEW c, NEW c2, NEW o, NEW o2, \E p \in Page : OnlyPage(p, c, c2, o, o2),
         NEW v, v = [q \in Live(o) |-> c[q]], NEW v2, v2 = [q \in Live(o2) |-> c2[q]]
  PROVE  Abstract!OnePageApart(v, v2)
<1>1. PICK p \in Page : OnlyPage(p, c, c2, o, o2)
  OBVIOUS
<1>2. ASSUME NEW q \in Page \ {p}
      PROVE  /\ q \in DOMAIN v <=> q \in DOMAIN v2
             /\ q \in DOMAIN v => v[q] = v2[q]
  BY <1>1 DEF OnlyPage, Live
<1>3. QED
  BY <1>2 DEF Abstract!OnePageApart

\* A step that changes nothing that is seen, nor where the levels are, leaves PageStore as it is.
LEMMA SameMaps ==
  ASSUME NEW w, Reading(w), Reading(w)', SameSeen, Len(levels') = Len(levels),
         UNCHANGED <<options, owner>>, ~ options.inMemory => durable' = durable
  PROVE  UNCHANGED <<PagesSeen, PagesStored, PagesSaved>>
<1>1. Shown(Seen)' = Shown(Seen)
  BY DEF SameSeen, Shown, Seen
<1>2. StoredAs(w)' = StoredAs(w)
  <2>1. CASE ~ options.inMemory
    BY <2>1 DEF StoredAs, Base
  <2>2. CASE options.inMemory
    BY <1>1, <2>2 DEF StoredAs
  <2>3. QED
    BY <2>1, <2>2
<1>3. QED
  BY <1>1, <1>2 DEF Reading

-----------------------------------------------------------------------------
(* Each step of the pager is one of the store, or none.                    *)

\* read_page and a checkpoint are none.
LEMMA QuietMaps ==
  ASSUME NEW w, Reading(w), Reading(w)', Quiet
  PROVE  UNCHANGED Abstract!vars
<1>1. UNCHANGED <<PagesSeen, PagesStored, PagesSaved>>
  BY SameMaps DEF Quiet
<1>2. UNCHANGED PagesDoubted
  BY DEF Quiet, PagesDoubted
<1>3. QED
  BY <1>1, <1>2 DEF Abstract!vars

\* A page that is written, allocated or freed in a transaction changes what is read.
LEMMA WorkMaps ==
  ASSUME NEW w, Reading(w), Reading(w)', InTxEffect
  PROVE  Abstract!Work
<1>1. Abstract!OnePageApart(Shown(Seen), Shown(Seen)')
  <2>1. /\ Shown(Seen) = [q \in Live(owner) |-> Look(Now, durable)[q]]
        /\ Shown(Seen)' = [q \in Live(owner') |-> Look(Now', durable')[q]]
    BY DEF Shown, Seen
  <2>2. \E p \in Page : OnlyPage(p, Look(Now, durable), Look(Now', durable'), owner, owner')
    BY DEF InTxEffect
  <2>3. QED
    BY <2>1, <2>2, ShownApart
<1>2. StoredAs(w)' = StoredAs(w) /\ DoubtedAs' = DoubtedAs
  BY DEF InTxEffect, StoredAs, Base, DoubtedAs
<1>3. PagesSaved # <<>> /\ PagesSaved' = PagesSaved
  BY SavedFacts DEF Reading, InTxEffect
<1>4. Abstract!OnePageApart(PagesSeen, PagesSeen')
  BY <1>1 DEF Reading
<1>5. QED
  BY <1>2, <1>3, <1>4 DEF Abstract!Work, Reading

\* Outside one it changes what is stored as well.
LEMMA AutoWorkMaps ==
  ASSUME NEW w, Reading(w), Reading(w)', AutoOkEffect
  PROVE  Abstract!AutoWork
<1>1. Abstract!OnePageApart(Shown(Seen), Shown(Seen)')
  <2>1. /\ Shown(Seen) = [q \in Live(owner) |-> Look(Now, durable)[q]]
        /\ Shown(Seen)' = [q \in Live(owner') |-> Look(Now', durable')[q]]
    BY DEF Shown, Seen
  <2>2. \E p \in Page : OnlyPage(p, Look(Now, durable), Look(Now', durable'), owner, owner')
    BY DEF AutoOkEffect
  <2>3. QED
    BY <2>1, <2>2, ShownApart
<1>2. PagesDoubted = {} /\ PagesDoubted' = {} /\ PagesStored' = PagesSeen'
  BY DEF Reading, AutoOkEffect, DoubtedAs
<1>3. PagesSaved = <<>> /\ PagesSaved' = <<>>
  BY SavedFacts DEF Reading, AutoOkEffect
<1>4. Abstract!OnePageApart(PagesSeen, PagesSeen')
  BY <1>1 DEF Reading
<1>5. QED
  BY <1>2, <1>3, <1>4 DEF Abstract!AutoWork

\* When it fails, the next open decides; after that nothing is promised of what is read.
LEMMA AutoFailsMaps ==
  ASSUME NEW w, Reading(w), Reading(w)', AutoFailsEffect
  PROVE  Abstract!AutoWorkFails \/ Abstract!Unreliable
<1>1. PagesSaved = <<>> /\ PagesSaved' = <<>>
  BY SavedFacts DEF Reading, AutoFailsEffect
<1>2. /\ PagesStored = [q \in Live(owner) |-> Below(durable, q)]
      /\ PagesStored' = [q \in Live(owner') |-> Below(durable', q)]
  BY DEF Reading, AutoFailsEffect, StoredAs, Base
<1>3. PagesStored' = PagesStored
  BY <1>2 DEF AutoFailsEffect
<1>4. CASE ioFailed /\ doubt' = doubt
  <2>1. PagesDoubted # {} /\ PagesDoubted' = PagesDoubted
    BY <1>4 DEF Reading, DoubtedAs
  <2>2. QED
    BY <1>1, <1>3, <2>1 DEF Abstract!Unreliable
<1>5. CASE /\ ~ ioFailed /\ doubt' # None
           /\ \E p \in Page : OnlyPage(p, Look(Now, durable), Look(Now', durable'), owner, owner)
           /\ \E p \in Page : OnlyPage(p, ContentOf(durable), ContentOf(doubt'.durable),
                                       owner, doubt'.owner)
  <2>1. Abstract!OnePageApart(PagesSeen, PagesSeen')
    <3>1. /\ PagesSeen = [q \in Live(owner) |-> Look(Now, durable)[q]]
          /\ PagesSeen' = [q \in Live(owner) |-> Look(Now', durable')[q]]
      BY DEF Reading, Shown, Seen, AutoFailsEffect
    <3>2. QED
      BY <1>5, <3>1, ShownApart
  <2> DEFINE v == [q \in Live(doubt'.owner) |-> Below(doubt'.durable, q)]
  <2>2. PagesDoubted = {} /\ PagesDoubted' = {v}
    BY <1>5 DEF Reading, DoubtedAs
  <2>3. Abstract!OnePageApart(PagesStored, v)
    <3>1. /\ PagesStored = [q \in Live(owner) |-> ContentOf(durable)[q]]
          /\ v = [q \in Live(doubt'.owner) |-> ContentOf(doubt'.durable)[q]]
      BY <1>2 DEF ContentOf, Live
    <3> HIDE DEF v
    <3>2. QED
      BY <1>5, <3>1, ShownApart
  <2> HIDE DEF v
  <2>4. QED
    BY <1>1, <1>3, <2>1, <2>2, <2>3 DEF Abstract!AutoWorkFails
<1>6. QED
  BY <1>4, <1>5 DEF AutoFailsEffect

\* write_page, allocate_page and free_page.
LEMMA EffectMaps ==
  ASSUME NEW w, Reading(w), Reading(w)', Effect
  PROVE  Abstract!Work \/ Abstract!AutoWork \/ Abstract!AutoWorkFails \/ Abstract!Unreliable
BY WorkMaps, AutoWorkMaps, AutoFailsMaps DEF Effect

\* commit_transaction stores what is read.
LEMMA CommitMaps ==
  ASSUME NEW w, Reading(w), Reading(w)', CommitEffect
  PROVE  Abstract!Commit
<1>1. PagesSeen' = PagesSeen
  BY DEF Reading, CommitEffect, SameSeen, Shown, Seen
<1>2. PagesSaved # <<>> /\ PagesSaved' = <<>>
  BY SavedFacts DEF Reading, CommitEffect
<1>3. PagesDoubted = {} /\ PagesDoubted' = {} /\ PagesStored' = PagesSeen'
  BY DEF Reading, CommitEffect, DoubtedAs
<1>4. QED
  BY <1>1, <1>2, <1>3 DEF Abstract!Commit

\* One that fails leaves the transaction open, and perhaps what is read for the next open.
LEMMA CommitFailsMaps ==
  ASSUME NEW w, Reading(w), Reading(w)', CommitFailsEffect
  PROVE  Abstract!CommitFails \/ UNCHANGED Abstract!vars
<1>1. UNCHANGED <<PagesSeen, PagesStored, PagesSaved>>
  BY SameMaps DEF CommitFailsEffect
<1>2. PagesSaved # <<>>
  BY SavedFacts DEF Reading, CommitFailsEffect
<1>3. CASE doubt' = None
  <2>1. PagesDoubted' = {}
    BY <1>3 DEF Reading, DoubtedAs
  <2>2. QED
    BY <1>1, <1>2, <2>1 DEF Abstract!CommitFails
<1>4. CASE doubt' = doubt
  <2>1. PagesDoubted' = PagesDoubted
    BY <1>4 DEF PagesDoubted
  <2>2. QED
    BY <1>1, <2>1 DEF Abstract!vars
<1>5. CASE /\ doubt = None /\ doubt' # None /\ doubt'.owner = owner
           /\ \A p \in Live(owner) : Below(doubt'.durable, p) = Look(Now, durable)[p]
  <2>1. PagesDoubted = {} /\ PagesDoubted' = {PagesSeen}
    BY <1>5 DEF Reading, DoubtedAs, Shown, Seen
  <2>2. QED
    BY <1>1, <1>2, <2>1 DEF Abstract!CommitFails
<1>6. QED
  BY <1>3, <1>4, <1>5 DEF CommitFailsEffect

\* Going back to level k reads what was read when it was opened, and stores nothing.
LEMMA BackMaps ==
  ASSUME NEW w, NEW k, Reading(w), Reading(w)', k \in 1 .. Len(levels), BackTo(w[k]),
         UNCHANGED <<options, durable>>, Len(levels') # 0 \/ k = 1
  PROVE  PagesSeen' = PagesSaved[k] /\ PagesStored' = PagesStored
<1>1. /\ Len(levels) \in Nat /\ Len(levels) # 0 /\ PagesSaved[k] = Shown(w[k])
      /\ PagesSeen' = Shown(Seen)'
  <2>1. Len(levels) \in Nat /\ Len(levels) # 0 /\ PagesSeen' = Shown(Seen)'
    BY DEF Reading
  <2>2. PagesSaved[k] = Shown(w[k])
    BY SavedNow
  <2>3. QED
    BY <2>1, <2>2
<1>2. /\ w[k].owner = owner'
      /\ \A q \in Live(owner') : Look(Now', durable')[q] = w[k].content[q]
  BY DEF BackTo, Restores, SameBut, Sound, Owned, Live
<1>3. Shown(Seen)' = Shown(w[k])
  BY <1>2 DEF Shown, Seen
<1>4. StoredAs(w)' = StoredAs(w)
  <2>1. CASE ~ options.inMemory
    BY <1>1, <1>2, <2>1 DEF StoredAs, Base
  <2>2. CASE options.inMemory
    BY <1>1, <1>3, <2>2 DEF StoredAs
  <2>3. QED
    BY <2>1, <2>2
<1>5. QED
  BY <1>1, <1>3, <1>4 DEF Reading

\* rollback_transaction
LEMMA RollbackMaps ==
  ASSUME NEW w, IAt(w), Reading(w), Reading(w)', Rollback, BackTo(w[1]), levels' = <<>>
  PROVE  Abstract!Rollback
<1>1. /\ Len(levels) # 0 /\ Len(levels) \in Nat /\ durable' = durable
      /\ doubt' \in {None, doubt}
  BY NowFacts DEF Rollback, durableVars, LogTruncated
<1>2. options' = options
  BY DEF Rollback, Become
<1>3. PagesSeen' = PagesSaved[1] /\ PagesStored' = PagesStored
  BY <1>1, <1>2, BackMaps
<1>4. PagesSaved # <<>> /\ PagesSaved' = <<>>
  BY <1>1, SavedFacts DEF Reading
<1>5. PagesDoubted' \in {{}, PagesDoubted}
  BY <1>1 DEF PagesDoubted
<1>6. QED
  BY <1>3, <1>4, <1>5 DEF Abstract!Rollback

\* rollback_to_savepoint
LEMMA RollbackToMaps ==
  ASSUME NEW w, Reading(w), Reading(w)', NEW name, RollbackTo(name),
         NEW k \in 2 .. Len(levels), BackTo(w[k]), Len(levels') = k
  PROVE  Abstract!RollbackTo
<1>1. durable' = durable /\ doubt' = None
  BY DEF RollbackTo, durableVars
<1>2. options' = options
  BY DEF RollbackTo, Become
<1>3. Len(levels) \in Nat /\ k \in 1 .. Len(levels) /\ k \in 0 .. Len(levels) /\ k # 0
  BY DEF Reading
<1>4. PagesSeen' = PagesSaved[k] /\ PagesStored' = PagesStored
  BY <1>1, <1>2, <1>3, BackMaps
<1>5. Len(PagesSaved) = Len(levels) /\ PagesSaved' = SubSeq(PagesSaved, 1, k)
  <2>1. PagesSaved' = SavedAs(w, k)
    BY DEF Reading
  <2>2. Len(PagesSaved) = Len(levels) /\ SubSeq(PagesSaved, 1, k) = SavedAs(w, k)
    BY <1>3, SavedNow
  <2>3. QED
    BY <2>1, <2>2
<1>6. PagesDoubted' = {}
  BY <1>1 DEF PagesDoubted
<1>7. k \in 2 .. Len(PagesSaved)
  BY <1>5
<1>8. QED
  BY <1>4, <1>5, <1>6, <1>7 DEF Abstract!RollbackTo

\* One that fails has gone back to the innermost savepoint.
LEMMA RollbackToFailsMaps ==
  ASSUME NEW w, Reading(w), Reading(w)', NEW name, RollbackToFails(name),
         BackTo(w[Len(levels)]), Len(levels) \in Nat \ {0, 1}, Len(levels') = Len(levels) - 1
  PROVE  Abstract!RollbackTo
<1>1. durable' = durable /\ doubt' = doubt
  BY DEF RollbackToFails, durableVars
<1>2. options' = options
  BY DEF RollbackToFails, Become
<1> DEFINE n == Len(levels)
<1>3. n \in 1 .. n /\ n \in 2 .. n /\ n - 1 \in 0 .. n /\ Len(levels') # 0
  OBVIOUS
<1>4. PagesSeen' = PagesSaved[n] /\ PagesStored' = PagesStored
  BY <1>1, <1>2, <1>3, BackMaps
<1>5. Len(PagesSaved) = n /\ PagesSaved' = SubSeq(PagesSaved, 1, n - 1)
  <2>1. PagesSaved' = SavedAs(w, n - 1)
    BY DEF Reading
  <2>2. Len(PagesSaved) = n /\ SubSeq(PagesSaved, 1, n - 1) = SavedAs(w, n - 1)
    BY <1>3, SavedNow
  <2>3. QED
    BY <2>1, <2>2
<1>6. PagesDoubted' = PagesDoubted
  BY <1>1 DEF PagesDoubted
<1>7. n \in 2 .. Len(PagesSaved)
  BY <1>3, <1>5
<1> HIDE DEF n
<1>8. QED
  BY <1>4, <1>5, <1>6, <1>7 DEF Abstract!RollbackTo

\* Opening levels, or releasing some but the first, changes nothing that is read or stored.
LEMMA LevelsMaps ==
  ASSUME NEW w, Reading(w), Reading(w)', UNCHANGED <<options, cache, durable, doubt, owner>>,
         Len(levels') # 0, Len(levels) = 0 => w[1] = Seen
  PROVE  UNCHANGED <<PagesSeen, PagesStored, PagesDoubted>>
<1>1. Seen' = Seen
  BY DEF Seen, Look, InMemory, Now
<1>2. Shown(Seen)' = Shown(Seen) /\ Seen.owner = owner
  BY <1>1 DEF Shown, Seen
<1>3. StoredAs(w)' = StoredAs(w)
  <2>1. CASE ~ options.inMemory
    BY <1>2, <2>1 DEF StoredAs, Base
  <2>2. CASE options.inMemory
    BY <1>2, <2>2 DEF StoredAs
  <2>3. QED
    BY <2>1, <2>2
<1>4. PagesDoubted' = PagesDoubted
  BY DEF PagesDoubted
<1>5. QED
  BY <1>2, <1>3, <1>4 DEF Reading

\* begin_transaction
LEMMA BeginMaps ==
  ASSUME NEW w, IAt(w), Reading(w), Reading(w)', Begin, w[1] = Seen
  PROVE  Abstract!Begin
<1>1. /\ Len(levels) = 0 /\ UNCHANGED <<options, cache, durable, doubt, owner>>
      /\ Len(levels') = 1
  BY NowFacts DEF Begin, durableVars
<1>2. UNCHANGED <<PagesSeen, PagesStored, PagesDoubted>>
  BY <1>1, LevelsMaps
<1>3. PagesSaved = <<>> /\ PagesSaved' = <<PagesSeen>>
  BY <1>1, SavedFew DEF Reading
<1>4. QED
  BY <1>2, <1>3 DEF Abstract!Begin

\* create_savepoint
LEMMA CreateSavepointMaps ==
  ASSUME NEW w, IAt(w), Reading(w), Reading(w)', NEW name, CreateSavepoint(name),
         w[Len(levels) + 1] = Seen, Len(levels) = 0 => w[2] = Seen
  PROVE  Abstract!Savepoint
<1>1. UNCHANGED <<options, cache, durable, doubt, owner>>
  BY DEF CreateSavepoint, durableVars
<1>2. Len(levels) \in Nat /\ Len(levels') = IF Len(levels) = 0 THEN 2 ELSE Len(levels) + 1
  <2>1. levels \in Seq(LevelRec) /\ Len(levels) \in Nat /\ (InTx(Now) <=> Len(levels) # 0)
        /\ Now \in Memory /\ owner \in [Page -> Owner]
    BY NowFacts, MemoryFields
  <2>2. CASE Len(levels) = 0
    <3>1. levels' = <<NewLevel(None, Now)>> \o <<NewLevel(name, Now)>>
      BY <2>1, <2>2 DEF CreateSavepoint
    <3>2. QED
      BY <2>2, <3>1
  <2>3. CASE Len(levels) # 0
    <3>1. levels' = levels \o <<NewLevel(name, Now)>>
      BY <2>1, <2>3 DEF CreateSavepoint
    <3> PICK l : l = NewLevel(name, Now)
      OBVIOUS
    <3>2. Len(levels \o <<l>>) = Len(levels) + 1
      BY <2>1
    <3>3. QED
      BY <2>3, <3>1, <3>2
  <2>4. QED
    BY <2>1, <2>2, <2>3
<1>3. UNCHANGED <<PagesSeen, PagesStored, PagesDoubted>>
  BY <1>1, <1>2, LevelsMaps
<1>4. PagesSaved' = IF PagesSaved = <<>> THEN <<PagesSeen, PagesSeen>>
                    ELSE Append(PagesSaved, PagesSeen)
  <2>1. PagesSaved' = SavedAs(w, Len(levels')) /\ PagesSeen = Shown(Seen)
    BY DEF Reading
  <2>2. PagesSaved = <<>> <=> Len(levels) = 0
    BY SavedNow
  <2>3. CASE Len(levels) = 0
    <3>1. w[1] = Seen /\ w[2] = Seen /\ Len(levels') = 2
      BY <1>2, <2>3
    <3>2. SavedAs(w, 2) = <<Shown(w[1]), Shown(w[2])>>
      BY SavedFew
    <3>3. QED
      BY <2>1, <2>2, <2>3, <3>1, <3>2
  <2>4. CASE Len(levels) # 0
    <3>1. Append(PagesSaved, Shown(w[Len(levels) + 1])) = SavedAs(w, Len(levels) + 1)
      BY SavedNow
    <3>2. QED
      BY <1>2, <2>1, <2>2, <2>4, <3>1
  <2>5. QED
    BY <2>3, <2>4
<1>5. QED
  BY <1>3, <1>4 DEF Abstract!Savepoint

\* release_savepoint
LEMMA ReleaseMaps ==
  ASSUME NEW w, Reading(w), Reading(w)', NEW k \in 2 .. Len(levels), Len(levels') = k - 1,
         UNCHANGED <<options, cache, durable, doubt, owner>>
  PROVE  Abstract!Release
<1>1. Len(levels) \in Nat /\ Len(levels) # 0 /\ Len(levels') # 0 /\ k - 1 \in 0 .. Len(levels)
  BY DEF Reading
<1>2. UNCHANGED <<PagesSeen, PagesStored, PagesDoubted>>
  BY <1>1, LevelsMaps
<1>3. Len(PagesSaved) = Len(levels) /\ PagesSaved' = SubSeq(PagesSaved, 1, k - 1)
  <2>1. PagesSaved' = SavedAs(w, k - 1)
    BY DEF Reading
  <2>2. Len(PagesSaved) = Len(levels) /\ SubSeq(PagesSaved, 1, k - 1) = SavedAs(w, k - 1)
    BY <1>1, SavedNow
  <2>3. QED
    BY <2>1, <2>2
<1>4. k \in 2 .. Len(PagesSaved)
  BY <1>3
<1>5. QED
  BY <1>2, <1>3, <1>4 DEF Abstract!Release

\* After a crash the next open finds what is stored, or what was in doubt.
LEMMA CrashMaps ==
  ASSUME NEW w, IAt(w), Reading(w), Reading(w)', Crash
  PROVE  Abstract!Crash
<1> DEFINE here == [durable |-> durable, header |-> durableHeader,
                    owner |-> IF InTx(Now) THEN levels[1].owner ELSE owner]
<1>1. PICK d \in {here, doubt} \ {None} :
        /\ Persist([durable |-> d.durable, header |-> d.header])
        /\ Become([cache |-> [p \in {1} |-> d.durable[1]], lru |-> <<1>>,
                   header |-> d.header, levels |-> <<>>])
        /\ owner' = d.owner
  BY DEF Crash
<1>2. /\ durable' = d.durable /\ owner' = d.owner /\ levels' = <<>> /\ options' = options
      /\ ioFailed' = FALSE /\ doubt' = None /\ ~ options.inMemory
  BY <1>1 DEF Crash, Persist, Become
<1>3. /\ PagesStored' = PagesSeen' /\ PagesSaved' = <<>> /\ PagesDoubted' = {}
      /\ PagesStored' = [q \in Live(d.owner) |-> Below(d.durable, q)]
  BY <1>2, SavedFacts DEF Reading, StoredAs, Base, DoubtedAs
<1>4. CASE d = here
  <2>1. PagesStored = [q \in Live(d.owner) |-> Below(d.durable, q)]
    BY <1>2, <1>4 DEF PagesStored, Stable, Below
  <2>2. QED
    BY <1>3, <2>1 DEF Abstract!Crash
<1>5. CASE d = doubt /\ doubt # None
  <2>1. PagesDoubted = {[q \in Live(d.owner) |-> Below(d.durable, q)]}
    BY <1>5 DEF Reading, DoubtedAs
  <2>2. QED
    BY <1>3, <2>1 DEF Abstract!Crash
<1>6. QED
  BY <1>1, <1>4, <1>5

\* A new database is a store in its initial state.
LEMMA InitMaps == Init => Abstract!Init
<1> SUFFICES ASSUME Init PROVE Abstract!Init
  OBVIOUS
<1>1. PICK w : w = <<>>
  OBVIOUS
<1>2. Reading(w)
  BY InitKeeps, ReadingHolds
<1>3. Len(levels) = 0 /\ ~ ioFailed /\ doubt = None
  BY DEF Init
<1>4. PagesSaved = <<>> /\ PagesDoubted = {} /\ PagesStored = PagesSeen
  BY <1>2, <1>3, SavedFacts DEF Reading, DoubtedAs
<1>5. DOMAIN PagesSeen \subseteq Page
  BY DEF PagesSeen, Live
<1>6. QED
  BY <1>4, <1>5 DEF Abstract!Init

-----------------------------------------------------------------------------
(* Every step.                                                             *)

\* Opening levels and crashing.
LEMMA OtherMaps ==
  ASSUME NEW w, IAt(w), Roomy, Reads, Reads',
         Begin \/ Crash \/ \E name \in Name : CreateSavepoint(name)
  PROVE  Abstract!Next
<1>1. PICK w2 : /\ IAt(w2) /\ w2[Len(levels) + 1] = Seen /\ (Len(levels) = 0 => w2[2] = Seen)
  BY Remembered
<1>2. CASE Begin
  <2>1. Len(levels) = 0
    BY <1>2, NowFacts DEF Begin
  <2>2. w2[1] = Seen
    BY <1>1, <2>1
  <2>3. IAt(w2)'
    BY <1>1, <1>2, <2>2, BeginKeeps
  <2>4. Reading(w2) /\ Reading(w2)'
    BY <1>1, <2>3 DEF Reads
  <2>5. Abstract!Begin
    BY <1>1, <1>2, <2>2, <2>4, BeginMaps
  <2>6. QED
    BY <2>5 DEF Abstract!Next
<1>3. ASSUME NEW name \in Name, CreateSavepoint(name)
      PROVE  Abstract!Next
  <2>1. IAt(w2)'
    BY <1>1, <1>3, CreateSavepointKeeps
  <2>2. Reading(w2) /\ Reading(w2)'
    BY <1>1, <2>1 DEF Reads
  <2>3. Abstract!Savepoint
    BY <1>1, <1>3, <2>2, CreateSavepointMaps
  <2>4. QED
    BY <2>3 DEF Abstract!Next
<1>4. CASE Crash
  <2>1. IAt(w)'
    BY <1>4, CrashKeeps
  <2>2. Reading(w) /\ Reading(w)'
    BY <2>1 DEF Reads
  <2>3. Abstract!Crash
    BY <1>4, <2>2, CrashMaps
  <2>4. QED
    BY <2>3 DEF Abstract!Next
<1>5. QED
  BY <1>2, <1>3, <1>4

\* Pages that are written, allocated or freed.
LEMMA PageMaps ==
  ASSUME NEW w, IAt(w), Roomy, Reads, Reads',
         AllocateNew \/ AllocateSlot \/ AllocateTrunk \/ \E p \in Page : Write(p) \/ Free(p)
  PROVE  Abstract!Next
<1>1. IAt(w)' /\ Effect
  <2>1. ASSUME NEW p \in Page, Write(p) PROVE IAt(w)' /\ Effect
    BY <2>1, WriteInTxKeeps, WriteAloneKeeps
  <2>2. ASSUME NEW p \in Page, Free(p) PROVE IAt(w)' /\ Effect
    BY <2>2, FreeKeeps
  <2>3. QED
    BY <2>1, <2>2, AllocateNewKeeps, AllocateSlotKeeps, AllocateTrunkKeeps
<1>2. Reading(w) /\ Reading(w)'
  BY <1>1 DEF Reads
<1>3. Abstract!Work \/ Abstract!AutoWork \/ Abstract!AutoWorkFails \/ Abstract!Unreliable
  BY <1>1, <1>2, EffectMaps
<1>4. QED
  BY <1>3 DEF Abstract!Next

\* The ends of transactions and savepoints.
LEMMA EndMaps ==
  ASSUME NEW w, IAt(w), Roomy, Reads, Reads',
         \/ Commit \/ CommitFails \/ Rollback
         \/ \E name \in Name : RollbackTo(name) \/ RollbackToFails(name) \/ Release(name)
  PROVE  Abstract!Next \/ UNCHANGED Abstract!vars
<1>1. Reading(w)
  BY DEF Reads
<1>2. CASE Commit
  <2>1. IAt(w)' /\ CommitEffect
    BY <1>2, CommitKeeps
  <2>2. Abstract!Commit
    BY <1>1, <2>1, CommitMaps DEF Reads
  <2>3. QED
    BY <2>2 DEF Abstract!Next
<1>3. CASE CommitFails
  <2>1. IAt(w)' /\ CommitFailsEffect
    BY <1>3, CommitFailsKeeps
  <2>2. Abstract!CommitFails \/ UNCHANGED Abstract!vars
    BY <1>1, <2>1, CommitFailsMaps DEF Reads
  <2>3. QED
    BY <2>2 DEF Abstract!Next
<1>4. CASE Rollback
  <2>1. IAt(w)' /\ BackTo(w[1]) /\ levels' = <<>>
    BY <1>4, RollbackKeeps
  <2>2. Reading(w)'
    BY <2>1 DEF Reads
  <2>3. Abstract!Rollback
    BY <1>1, <1>4, <2>1, <2>2, RollbackMaps
  <2>4. QED
    BY <2>3 DEF Abstract!Next
<1>5. ASSUME NEW name \in Name, RollbackTo(name)
      PROVE  Abstract!Next
  <2>1. IAt(w)' /\ \E k \in 2 .. Len(levels) : BackTo(w[k]) /\ Len(levels') = k
    BY <1>5, RollbackToKeeps
  <2>2. Reading(w)'
    BY <2>1 DEF Reads
  <2>3. Abstract!RollbackTo
    BY <1>1, <1>5, <2>1, <2>2, RollbackToMaps
  <2>4. QED
    BY <2>3 DEF Abstract!Next
<1>6. ASSUME NEW name \in Name, RollbackToFails(name)
      PROVE  Abstract!Next
  <2>1. /\ IAt(w)' /\ BackTo(w[Len(levels)])
        /\ Len(levels) \in Nat \ {0, 1} /\ Len(levels') = Len(levels) - 1
    BY <1>6, RollbackToFailsKeeps
  <2>2. Reading(w)'
    BY <2>1 DEF Reads
  <2>3. Abstract!RollbackTo
    BY <1>1, <1>6, <2>1, <2>2, RollbackToFailsMaps
  <2>4. QED
    BY <2>3 DEF Abstract!Next
<1>7. ASSUME NEW name \in Name, Release(name)
      PROVE  Abstract!Next
  <2>1. /\ IAt(w)' /\ \E k \in 2 .. Len(levels) : Len(levels') = k - 1
        /\ UNCHANGED <<options, cache, lru, header, durableVars, ioFailed, doubt, work, owner>>
    BY <1>7, ReleaseKeeps
  <2>2. Reading(w)' /\ UNCHANGED <<options, cache, durable, doubt, owner>>
    BY <2>1 DEF Reads, durableVars
  <2>3. Abstract!Release
    BY <1>1, <2>1, <2>2, ReleaseMaps
  <2>4. QED
    BY <2>3 DEF Abstract!Next
<1>8. QED
  BY <1>2, <1>3, <1>4, <1>5, <1>6, <1>7

\* Steps that change nothing for a caller.
LEMMA IdleMaps ==
  ASSUME NEW w, IAt(w), Roomy, Reads, Reads',
         UNCHANGED vars \/ Checkpoint \/ \E p \in Page : Read(p)
  PROVE  UNCHANGED Abstract!vars
<1>1. CASE UNCHANGED vars
  <2>1. IAt(w)'
    BY <1>1, StutterKeeps
  <2>2. /\ UNCHANGED <<options, ioFailed, doubt, owner, levels, durable>> /\ Now' = Now
    BY <1>1 DEF vars, memVars, durableVars, Now
  <2>3. Quiet
    BY <2>2 DEF Quiet, SameSeen
  <2>4. QED
    BY <2>1, <2>3, QuietMaps DEF Reads
<1>2. CASE Checkpoint
  <2>1. IAt(w)' /\ Quiet
    BY <1>2, CheckpointKeeps
  <2>2. QED
    BY <2>1, QuietMaps DEF Reads
<1>3. ASSUME NEW p \in Page, Read(p)
      PROVE  UNCHANGED Abstract!vars
  <2>1. IAt(w)' /\ Quiet
    BY <1>3, ReadKeeps
  <2>2. QED
    BY <2>1, QuietMaps DEF Reads
<1>4. QED
  BY <1>1, <1>2, <1>3

\* Every step of the pager is a step of the store, or none.
LEMMA StepMaps ==
  ASSUME IInv, Roomy, Reads, Reads', [Next]_vars
  PROVE  [Abstract!Next]_(Abstract!vars)
<1>1. PICK w : IAt(w)
  BY DEF IInv
<1>2. \/ Begin \/ Crash \/ \E name \in Name : CreateSavepoint(name)
      \/ AllocateNew \/ AllocateSlot \/ AllocateTrunk \/ \E p \in Page : Write(p) \/ Free(p)
      \/ Commit \/ CommitFails \/ Rollback
      \/ \E name \in Name : RollbackTo(name) \/ RollbackToFails(name) \/ Release(name)
      \/ UNCHANGED vars \/ Checkpoint \/ \E p \in Page : Read(p)
  BY DEF Next
<1>3. CASE Begin \/ Crash \/ \E name \in Name : CreateSavepoint(name)
  BY <1>1, <1>3, OtherMaps
<1>4. CASE AllocateNew \/ AllocateSlot \/ AllocateTrunk \/ \E p \in Page : Write(p) \/ Free(p)
  BY <1>1, <1>4, PageMaps
<1>5. CASE \/ Commit \/ CommitFails \/ Rollback
           \/ \E name \in Name : RollbackTo(name) \/ RollbackToFails(name) \/ Release(name)
  BY <1>1, <1>5, EndMaps
<1>6. CASE UNCHANGED vars \/ Checkpoint \/ \E p \in Page : Read(p)
  BY <1>1, <1>6, IdleMaps
<1>7. QED
  BY <1>2, <1>3, <1>4, <1>5, <1>6

\* The pager implements the store with nested savepoints: a read returns what was written last,
\* a rollback restores what was read when its level was opened, a commit stores what is read, and a
\* crash leaves what is stored or, after a write that failed, what that write would have stored;
\* for every set of pages and every number of levels.
THEOREM PageStoreCorrect ==
  ASSUME Roomy
  PROVE  Spec => ImplementsPageStore
<1>1. Spec => []IInv
  BY InvCorrect
<1>2. Reads
  BY ReadingHolds DEF Reads
<1>3. IInv /\ Reads /\ Reads' /\ [Next]_vars => [Abstract!Next]_(Abstract!vars)
  BY StepMaps
<1>4. QED
  BY <1>1, <1>2, <1>3, InitMaps, PTL DEF Spec, ImplementsPageStore, Abstract!Spec

=============================================================================
