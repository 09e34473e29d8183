---------------------------- MODULE Cache_proofs ----------------------------
(***************************************************************************)
(* Proofs about Cache, for all configurations, addresses, traces and       *)
(* widths of the timestamp: types, no block twice, dirty bits, cycles, and *)
(* the order of evictions until the timestamps wrap.                       *)
(***************************************************************************)
EXTENDS Cache, FiniteSetTheorems, WellFoundedInduction, TLAPS

\* The smallest of some natural numbers is one of them.
LEMMA MinOfNats ==
    ASSUME NEW S \in SUBSET Nat, S # {}
    PROVE  Min(S) \in S /\ \A y \in S : Min(S) <= y
<1> DEFINE Less == {ss \in Nat \X Nat : ss[1] < ss[2]}
<1>1. IsWellFoundedOn(Less, Nat)
    BY NatLessThanWellFounded DEF OpToRel
<1>2. \E x \in S : \A y \in S : <<y, x>> \notin Less
    BY <1>1, WFMin
<1>3. PICK x \in S : \A y \in S : <<y, x>> \notin Less
    BY <1>2
<1>4. ASSUME NEW y \in S PROVE x <= y
  <2>1. x \in Nat /\ y \in Nat /\ <<y, x>> \notin Less
    BY <1>3
  <2>2. ~ y < x
    BY <2>1, Zenon
  <2> QED BY <2>1, <2>2
<1> QED
    BY <1>4 DEF Min

\* What main's validation leaves of the arguments.
LEMMA ConfigFacts ==
    ASSUME CacheInv, status # "failed"
    PROVE  /\ config.num_sets \in Nat /\ config.num_sets > 0
           /\ config.num_blocks \in Nat
           /\ config.block_size \in Nat /\ config.block_size >= 4
           /\ config.write_through \in BOOLEAN
           /\ config.write_allocate \in BOOLEAN
           /\ config.lru_eviction \in BOOLEAN
           /\ config.write_allocate \/ config.write_through
<1>1. config \in Arguments
    BY ConfigurationsAssumption DEF CacheInv, TypeOK
<1>2. ~Rejected(config)
    BY DEF CacheInv, Accepted
<1> QED
    BY <1>1, <1>2 DEF Arguments, Rejected, IsPowerOfTwo

\* The quotient of two natural numbers is one, and the remainder is small.
LEMMA DivisionFacts ==
    ASSUME NEW a \in Nat, NEW b \in Nat, b > 0
    PROVE  a \div b \in Nat /\ a % b \in 0 .. b - 1
OBVIOUS

\* An address has a set, and a tag in it.
LEMMA AddressFacts ==
    ASSUME CacheInv, status = "running", NEW a \in Addresses
    PROVE  SetIndex(a) \in SetIndexes /\ Tag(a) \in Nat
<1>1. /\ config.num_sets \in Nat /\ config.num_sets > 0
      /\ config.block_size \in Nat /\ config.block_size > 0
    BY ConfigFacts
<1>2. a \in Nat
    BY AddressesAssumption
<1>3. a \div config.block_size \in Nat
    BY <1>1, <1>2, DivisionFacts
<1> QED
    BY <1>1, <1>3, DivisionFacts DEF SetIndex, Tag, SetIndexes

\* The clock stays below its size.
LEMMA TickFacts ==
    ASSUME CacheInv
    PROVE  Tick \in 0 .. TimestampSize - 1
<1>1. timestamp + 1 \in Nat /\ TimestampSize \in Nat /\ TimestampSize > 0
    BY TimestampAssumption DEF CacheInv, TypeOK
<1> QED
    BY <1>1, DivisionFacts DEF Tick

\* A new block goes to a place that exists: an empty one, or the evicted block's.
LEMMA PlaceFacts ==
    ASSUME CacheInv, status = "running", Ways # {}, NEW s \in SetIndexes
    PROVE  /\ EvictIndex(s) \in Ways
           /\ \A j \in Ways : Stamp(sets[s][EvictIndex(s)]) <= Stamp(sets[s][j])
           /\ PlaceFor(s) \in Ways
           /\ Empty(s) # {} => ~sets[s][PlaceFor(s)].valid
           /\ Empty(s) = {} => PlaceFor(s) = EvictIndex(s)
<1>1. Ways \subseteq Nat /\ Ways # {}
    BY ConfigFacts DEF Ways
<1>2. \A i \in Ways : Stamp(sets[s][i]) \in Nat
  <2>1. \A i \in Ways : sets[s][i] \in Blocks
    BY DEF CacheInv, TypeOK
  <2> QED BY <2>1, TimestampAssumption DEF Blocks, Stamp
<1> DEFINE stamps == {Stamp(sets[s][i]) : i \in Ways}
<1>3. stamps \subseteq Nat /\ stamps # {}
    BY <1>1, <1>2
<1>4. Min(stamps) \in stamps /\ \A y \in stamps : Min(stamps) <= y
  <2> HIDE DEF stamps
  <2> QED BY <1>3, MinOfNats
<1> DEFINE due == {i \in Ways : \A j \in Ways :
                      Stamp(sets[s][i]) <= Stamp(sets[s][j])}
<1>5. due \subseteq Nat /\ due # {}
  <2>1. PICK i \in Ways : Stamp(sets[s][i]) = Min(stamps)
      BY <1>4
  <2>2. \A j \in Ways : Min(stamps) <= Stamp(sets[s][j])
      BY <1>4
  <2>3. i \in due
      BY <2>1, <2>2
  <2> QED BY <1>1, <2>3
<1>6. Min(due) \in due
  <2> HIDE DEF due
  <2> QED BY <1>5, MinOfNats
<1>7. /\ EvictIndex(s) \in Ways
      /\ \A j \in Ways : Stamp(sets[s][EvictIndex(s)]) <= Stamp(sets[s][j])
    BY <1>6 DEF EvictIndex
<1>8. Empty(s) # {} => Min(Empty(s)) \in Empty(s)
  <2>1. Empty(s) \in SUBSET Nat
    BY <1>1 DEF Empty
  <2> QED BY <2>1, MinOfNats
<1>9. PlaceFor(s) = IF Empty(s) # {} THEN Min(Empty(s)) ELSE EvictIndex(s)
    BY DEF PlaceFor
<1>10. \A i \in Empty(s) : i \in Ways /\ ~sets[s][i].valid
    BY DEF Empty
<1> QED
    BY <1>7, <1>8, <1>9, <1>10

\* A hit finds a valid block with the tag.
LEMMA HitFacts ==
    ASSUME CacheInv, status = "running", NEW a \in Addresses, Present(a)
    PROVE  /\ HitIndex(a) \in Ways
           /\ sets[SetIndex(a)][HitIndex(a)].valid
           /\ sets[SetIndex(a)][HitIndex(a)].tag = Tag(a)
<1> DEFINE H == Holding(SetIndex(a), Tag(a))
<1>1. H \in SUBSET Nat /\ H # {}
    BY ConfigFacts DEF Holding, Ways, Present
<1>2. Min(H) \in H
  <2> HIDE DEF H
  <2> QED BY <1>1, MinOfNats
<1> QED
    BY <1>2 DEF HitIndex, Holding

\* What a hit changes: a stamp, and a dirty bit if it is a store's.
LEMMA TouchFacts ==
    ASSUME CacheInv, NEW s \in SetIndexes, NEW i \in Ways, NEW d \in BOOLEAN,
           Touch(s, i, d), UNCHANGED <<config, status>>
    PROVE  /\ sets' \in [SetIndexes -> [Ways -> Blocks]]
           /\ latest' \in SetIndexes \X Nat
           /\ \A r \in SetIndexes, j \in Ways :
                 /\ sets'[r][j].tag = sets[r][j].tag
                 /\ sets'[r][j].valid = sets[r][j].valid
                 /\ sets'[r][j].dirty <=> (sets[r][j].dirty \/ (r = s /\ j = i /\ d))
<1>1. sets \in [SetIndexes -> [Ways -> Blocks]]
    BY DEF CacheInv, TypeOK
<1>2. Tick \in 0 .. TimestampSize - 1
    BY TickFacts
<1> DEFINE old == sets[s][i]
           new == Touched(old, d)
<1>3. old \in Blocks
    BY <1>1
<1>4. /\ new \in Blocks /\ new.tag = old.tag /\ new.valid = old.valid
      /\ new.dirty <=> old.dirty \/ d
    BY <1>2, <1>3 DEF Blocks, Touched
<1>5. sets' = [sets EXCEPT ![s][i] = new]
    BY DEF Touch
<1>6. \A r \in SetIndexes, j \in Ways :
          sets'[r][j] = IF r = s /\ j = i THEN new ELSE sets[r][j]
  <2> HIDE DEF new
  <2> QED BY <1>1, <1>5
<1>7. sets' \in [SetIndexes -> [Ways -> Blocks]]
  <2> HIDE DEF new
  <2> QED BY <1>1, <1>4, <1>5
<1>8. latest' \in SetIndexes \X Nat
    BY <1>3 DEF Touch, BlockIn, Blocks
<1>9. \A r \in SetIndexes, j \in Ways :
          /\ sets'[r][j].tag = sets[r][j].tag
          /\ sets'[r][j].valid = sets[r][j].valid
          /\ sets'[r][j].dirty <=> (sets[r][j].dirty \/ (r = s /\ j = i /\ d))
  <2> HIDE DEF new
  <2> QED BY <1>4, <1>6
<1> HIDE DEF old, new
<1> QED
    BY <1>7, <1>8, <1>9

\* What a miss that allocates changes: one place, as a whole.
LEMMA InstallFacts ==
    ASSUME CacheInv, status = "running", NEW s \in SetIndexes, NEW t \in Nat,
           NEW d \in BOOLEAN, Install(s, t, d), UNCHANGED <<config, status>>
    PROVE  /\ sets' \in [SetIndexes -> [Ways -> Blocks]]
           /\ latest' \in SetIndexes \X Nat
           /\ sets'[s][PlaceFor(s)].tag = t
           /\ sets'[s][PlaceFor(s)].valid
           /\ sets'[s][PlaceFor(s)].dirty = d
           /\ \A r \in SetIndexes, j \in Ways :
                 r # s \/ j # PlaceFor(s) => sets'[r][j] = sets[r][j]
<1>1. sets \in [SetIndexes -> [Ways -> Blocks]]
    BY DEF CacheInv, TypeOK
<1>2. Tick \in 0 .. TimestampSize - 1
    BY TickFacts
<1> DEFINE new == [tag |-> t, valid |-> TRUE, dirty |-> d,
                   load_ts |-> Tick, access_ts |-> Tick]
<1>3. new \in Blocks
    BY <1>2 DEF Blocks
<1>4. sets' = [sets EXCEPT ![s][PlaceFor(s)] = new] /\ latest' = <<s, t>>
    BY DEF Install
<1>5. PlaceFor(s) \in Ways
    BY PlaceFacts DEF Install
<1>6. new.tag = t /\ new.valid /\ new.dirty = d
    OBVIOUS
<1> HIDE DEF new
<1>7. \A r \in SetIndexes, j \in Ways :
          sets'[r][j] = IF r = s /\ j = PlaceFor(s) THEN new ELSE sets[r][j]
    BY <1>1, <1>4, <1>5
<1>8. sets' \in [SetIndexes -> [Ways -> Blocks]]
    BY <1>1, <1>3, <1>4, <1>5
<1> QED
    BY <1>4, <1>5, <1>6, <1>7, <1>8

\* DirtyIsUnwritten, block by block.
DirtyBlocksAreUnwritten ==
    \A r \in SetIndexes, j \in Ways :
        sets[r][j].dirty => sets[r][j].valid /\ <<r, sets[r][j].tag>> \in unwritten
UnwrittenBlocksAreDirty ==
    \A b \in unwritten : \E r \in SetIndexes, j \in Ways :
        sets[r][j].dirty /\ b = <<r, sets[r][j].tag>>

LEMMA DirtyForm ==
    DirtyIsUnwritten <=> DirtyBlocksAreUnwritten /\ UnwrittenBlocksAreDirty
<1>1. \A p \in Dirty : /\ p[1] \in SetIndexes /\ p[2] \in Ways
                       /\ p = <<p[1], p[2]>> /\ sets[p[1]][p[2]].dirty
    BY DEF Dirty
<1>2. \A r \in SetIndexes, j \in Ways :
          sets[r][j].dirty => <<r, j>> \in Dirty /\ <<r, j>>[1] = r /\ <<r, j>>[2] = j
    BY DEF Dirty
<1>3. ASSUME DirtyIsUnwritten
      PROVE  DirtyBlocksAreUnwritten /\ UnwrittenBlocksAreDirty
  <2>1. ASSUME NEW r \in SetIndexes, NEW j \in Ways, sets[r][j].dirty
        PROVE  sets[r][j].valid /\ <<r, sets[r][j].tag>> \in unwritten
    <3> DEFINE p == <<r, j>>
    <3>1. p \in Dirty /\ p[1] = r /\ p[2] = j
        BY <1>2, <2>1
    <3> HIDE DEF p
    <3>2. BlockIn(p[1], p[2]) \in unwritten /\ sets[p[1]][p[2]].valid
        BY <1>3, <3>1 DEF DirtyIsUnwritten
    <3> QED BY <3>1, <3>2 DEF BlockIn
  <2>2. ASSUME NEW b \in unwritten
        PROVE  \E r \in SetIndexes, j \in Ways :
                   sets[r][j].dirty /\ b = <<r, sets[r][j].tag>>
    <3>1. PICK p \in Dirty : b = BlockIn(p[1], p[2])
        BY <1>3 DEF DirtyIsUnwritten
    <3> QED BY <1>1, <3>1 DEF BlockIn
  <2> QED BY <2>1, <2>2 DEF DirtyBlocksAreUnwritten, UnwrittenBlocksAreDirty
<1>4. ASSUME DirtyBlocksAreUnwritten, UnwrittenBlocksAreDirty
      PROVE  DirtyIsUnwritten
  <2>1. \A p \in Dirty : sets[p[1]][p[2]].valid
      BY <1>1, <1>4 DEF DirtyBlocksAreUnwritten
  <2>2. {BlockIn(p[1], p[2]) : p \in Dirty} \subseteq unwritten
      BY <1>1, <1>4 DEF DirtyBlocksAreUnwritten, BlockIn
  <2>3. ASSUME NEW b \in unwritten
        PROVE  b \in {BlockIn(p[1], p[2]) : p \in Dirty}
    <3>1. PICK r \in SetIndexes, j \in Ways :
              sets[r][j].dirty /\ b = <<r, sets[r][j].tag>>
        BY <1>4 DEF UnwrittenBlocksAreDirty
    <3> DEFINE p == <<r, j>>
    <3>2. p \in Dirty /\ p[1] = r /\ p[2] = j
        BY <1>2, <3>1
    <3>3. b = BlockIn(p[1], p[2])
        BY <3>1, <3>2 DEF BlockIn
    <3> HIDE DEF p
    <3> QED BY <3>2, <3>3
  <2> QED BY <2>1, <2>2, <2>3 DEF DirtyIsUnwritten
<1> QED
    BY <1>3, <1>4

\* The same of ThroughStaysClean.
LEMMA CleanForm ==
    ThroughStaysClean <=> (config.write_through =>
        \A r \in SetIndexes, j \in Ways : ~sets[r][j].dirty)
<1>1. Dirty = {} <=> \A r \in SetIndexes, j \in Ways : ~sets[r][j].dirty
  <2>1. \A r \in SetIndexes, j \in Ways :
            sets[r][j].dirty => <<r, j>> \in Dirty
      BY DEF Dirty
  <2>2. \A p \in Dirty : /\ p[1] \in SetIndexes /\ p[2] \in Ways
                         /\ sets[p[1]][p[2]].dirty
      BY DEF Dirty
  <2> QED BY <2>1, <2>2
<1> QED
    BY <1>1 DEF ThroughStaysClean

\* Both forms hold in every state, the next one included.
LEMMA DirtyFormNext ==
    (DirtyBlocksAreUnwritten /\ UnwrittenBlocksAreDirty)' => DirtyIsUnwritten'
BY DirtyForm, PTL

LEMMA CleanFormNext ==
    (config.write_through =>
        \A r \in SetIndexes, j \in Ways : ~sets[r][j].dirty)' => ThroughStaysClean'
BY CleanForm, PTL

\* The part of the invariant that is about the blocks.
BlocksInv == /\ sets \in [SetIndexes -> [Ways -> Blocks]]
             /\ latest \in (SetIndexes \X Nat) \union {<<>>}
             /\ unwritten \subseteq SetIndexes \X Nat
             /\ NoDuplicates
             /\ DirtyIsUnwritten
             /\ ThroughStaysClean

\* A hit keeps it: only a store to a write-back cache makes a block dirty.
LEMMA HitKeeps ==
    ASSUME CacheInv, status = "running", NEW a \in Addresses, Present(a),
           NEW d \in BOOLEAN, d => ~config.write_through,
           Touch(SetIndex(a), HitIndex(a), d), UNCHANGED <<config, status>>,
           unwritten' = IF d THEN unwritten \union {BlockOf(a)} ELSE unwritten
    PROVE  BlocksInv'
<1> DEFINE s == SetIndex(a)
           i == HitIndex(a)
<1>1. /\ s \in SetIndexes /\ i \in Ways /\ Tag(a) \in Nat
      /\ sets[s][i].valid /\ sets[s][i].tag = Tag(a)
    BY AddressFacts, HitFacts
<1>2. SetIndexes' = SetIndexes /\ Ways' = Ways /\ config' = config
    BY DEF SetIndexes, Ways
<1>3. BlockOf(a) = <<s, Tag(a)>>
    BY DEF BlockOf
<1> HIDE DEF s, i
<1>4. /\ sets' \in [SetIndexes -> [Ways -> Blocks]]
      /\ latest' \in SetIndexes \X Nat
      /\ \A r \in SetIndexes, j \in Ways :
            /\ sets'[r][j].tag = sets[r][j].tag
            /\ sets'[r][j].valid = sets[r][j].valid
            /\ sets'[r][j].dirty <=> (sets[r][j].dirty \/ (r = s /\ j = i /\ d))
    BY <1>1, TouchFacts DEF s, i
<1>5. NoDuplicates'
    BY <1>2, <1>4 DEF NoDuplicates, CacheInv
<1>6. DirtyBlocksAreUnwritten /\ UnwrittenBlocksAreDirty
    BY DirtyForm DEF CacheInv
<1>7. DirtyBlocksAreUnwritten'
  <2>1. ASSUME NEW r \in SetIndexes, NEW j \in Ways, sets'[r][j].dirty
        PROVE  sets'[r][j].valid /\ <<r, sets'[r][j].tag>> \in unwritten'
    <3>1. CASE sets[r][j].dirty
      <4>1. sets[r][j].valid /\ <<r, sets[r][j].tag>> \in unwritten
          BY <1>6, <3>1 DEF DirtyBlocksAreUnwritten
      <4> QED BY <1>4, <4>1
    <3>2. CASE r = s /\ j = i /\ d
        BY <1>1, <1>3, <1>4, <3>2
    <3> QED BY <1>4, <2>1, <3>1, <3>2
  <2> QED BY <1>2, <2>1 DEF DirtyBlocksAreUnwritten
<1>8. UnwrittenBlocksAreDirty'
  <2>1. ASSUME NEW b \in unwritten'
        PROVE  \E r \in SetIndexes, j \in Ways :
                   sets'[r][j].dirty /\ b = <<r, sets'[r][j].tag>>
    <3>1. CASE b \in unwritten
        BY <1>4, <1>6, <3>1 DEF UnwrittenBlocksAreDirty
    <3>2. CASE d /\ b = BlockOf(a)
        BY <1>1, <1>3, <1>4, <3>2
    <3> QED BY <3>1, <3>2
  <2> QED BY <1>2, <2>1 DEF UnwrittenBlocksAreDirty
<1>9. ThroughStaysClean'
    BY <1>2, <1>4, CleanForm, CleanFormNext DEF CacheInv
<1>10. unwritten' \subseteq SetIndexes \X Nat
    BY <1>1, <1>3 DEF CacheInv, TypeOK
<1> QED
    BY <1>2, <1>4, <1>5, <1>7, <1>8, <1>9, <1>10, DirtyFormNext DEF BlocksInv

\* A miss that allocates keeps it: the block that leaves is written back if it is
\* dirty, and the new one was nowhere before.
LEMMA MissKeeps ==
    ASSUME CacheInv, status = "running", NEW a \in Addresses, ~Present(a),
           NEW d \in BOOLEAN, d => ~config.write_through,
           Install(SetIndex(a), Tag(a), d), UNCHANGED <<config, status>>,
           unwritten' = (unwritten \ WrittenBack(SetIndex(a)))
                        \union (IF d THEN {BlockOf(a)} ELSE {})
    PROVE  BlocksInv'
<1> DEFINE s == SetIndex(a)
           t == Tag(a)
           p == PlaceFor(s)
<1>1. s \in SetIndexes /\ t \in Nat /\ Ways # {}
    BY AddressFacts DEF Install
<1>2. SetIndexes' = SetIndexes /\ Ways' = Ways /\ config' = config
    BY DEF SetIndexes, Ways
<1>3. BlockOf(a) = <<s, t>>
    BY DEF BlockOf
<1>4. \A j \in Ways : sets[s][j].valid => sets[s][j].tag # t
    BY DEF Present, Holding
<1>5. /\ p \in Ways
      /\ sets[s][p].dirty => sets[s][p].valid
      /\ WrittenBack(s) = IF sets[s][p].dirty THEN {<<s, sets[s][p].tag>>} ELSE {}
  <2>1. \A j \in Ways : sets[s][j].dirty => sets[s][j].valid
      BY <1>1, DirtyForm DEF CacheInv, DirtyBlocksAreUnwritten
  <2> QED BY <1>1, <2>1, PlaceFacts DEF WrittenBack, BlockIn
<1>6. /\ sets' \in [SetIndexes -> [Ways -> Blocks]]
      /\ latest' \in SetIndexes \X Nat
      /\ sets'[s][p].tag = t
      /\ sets'[s][p].valid
      /\ sets'[s][p].dirty = d
      /\ \A r \in SetIndexes, j \in Ways :
            r # s \/ j # p => sets'[r][j] = sets[r][j]
    BY <1>1, InstallFacts
<1>7. unwritten' = (unwritten \ WrittenBack(s))
                   \union (IF d THEN {<<s, t>>} ELSE {})
    BY <1>3
<1> HIDE DEF s, t, p
<1>8. NoDuplicates'
    BY <1>1, <1>2, <1>4, <1>5, <1>6 DEF NoDuplicates, CacheInv
<1>9. DirtyBlocksAreUnwritten /\ UnwrittenBlocksAreDirty
    BY DirtyForm DEF CacheInv
<1>10. DirtyBlocksAreUnwritten'
  <2>1. ASSUME NEW r \in SetIndexes, NEW j \in Ways, sets'[r][j].dirty
        PROVE  sets'[r][j].valid /\ <<r, sets'[r][j].tag>> \in unwritten'
    <3>1. CASE r = s /\ j = p
        BY <1>6, <1>7, <2>1, <3>1
    <3>2. CASE r # s \/ j # p
      <4>1. sets'[r][j] = sets[r][j]
          BY <1>6, <3>2
      <4>2. sets[r][j].valid /\ <<r, sets[r][j].tag>> \in unwritten
          BY <1>9, <2>1, <4>1 DEF DirtyBlocksAreUnwritten
      <4>3. <<r, sets[r][j].tag>> \notin WrittenBack(s)
          BY <1>1, <1>5, <3>2, <4>2 DEF NoDuplicates, CacheInv
      <4> QED BY <1>7, <4>1, <4>2, <4>3
    <3> QED BY <3>1, <3>2
  <2> QED BY <1>2, <2>1 DEF DirtyBlocksAreUnwritten
<1>11. UnwrittenBlocksAreDirty'
  <2>1. ASSUME NEW b \in unwritten'
        PROVE  \E r \in SetIndexes, j \in Ways :
                   sets'[r][j].dirty /\ b = <<r, sets'[r][j].tag>>
    <3>1. CASE b \in unwritten /\ b \notin WrittenBack(s)
      <4>1. PICK r \in SetIndexes, j \in Ways :
                sets[r][j].dirty /\ b = <<r, sets[r][j].tag>>
          BY <1>9, <3>1 DEF UnwrittenBlocksAreDirty
      <4>2. r # s \/ j # p
          BY <1>5, <3>1, <4>1
      <4> QED BY <1>6, <4>1, <4>2
    <3>2. CASE d /\ b = <<s, t>>
        BY <1>1, <1>5, <1>6, <3>2
    <3> QED BY <1>7, <3>1, <3>2
  <2> QED BY <1>2, <2>1 DEF UnwrittenBlocksAreDirty
<1>12. ThroughStaysClean'
  <2>1. config.write_through =>
            \A r \in SetIndexes, j \in Ways : ~sets'[r][j].dirty
    <3>1. config.write_through =>
              \A r \in SetIndexes, j \in Ways : ~sets[r][j].dirty
        BY CleanForm DEF CacheInv
    <3> QED BY <1>6, <3>1
  <2> QED BY <1>2, <2>1, CleanFormNext
<1>13. unwritten' \subseteq SetIndexes \X Nat
    BY <1>1, <1>7 DEF CacheInv, TypeOK
<1> QED
    BY <1>2, <1>6, <1>8, <1>10, <1>11, <1>12, <1>13, DirtyFormNext DEF BlocksInv

\* A write-through cache has nothing the memory has not seen.
LEMMA ThroughMeansWritten ==
    ASSUME CacheInv, config.write_through
    PROVE  unwritten = {}
<1>1. \A r \in SetIndexes, j \in Ways : ~sets[r][j].dirty
    BY CleanForm DEF CacheInv
<1>2. UnwrittenBlocksAreDirty
    BY DirtyForm DEF CacheInv
<1> QED
    BY <1>1, <1>2 DEF UnwrittenBlocksAreDirty

\* Nothing the invariant says of the blocks mentions more than these.
LEMMA BlocksStay ==
    ASSUME CacheInv, status = "running",
           UNCHANGED <<config, sets, latest, unwritten>>,
           status' # "failed"
    PROVE  BlocksInv'
<1>1. SetIndexes' = SetIndexes /\ Ways' = Ways
    BY DEF SetIndexes, Ways
<1>2. NoDuplicates'
    BY <1>1 DEF CacheInv, NoDuplicates
<1>3. DirtyIsUnwritten' /\ ThroughStaysClean'
    BY <1>1 DEF CacheInv, DirtyIsUnwritten, ThroughStaysClean, Dirty, BlockIn
<1>4. sets' \in [SetIndexes' -> [Ways' -> Blocks]]
    BY <1>1 DEF CacheInv, TypeOK
<1>5. latest' \in (SetIndexes' \X Nat) \union {<<>>} /\ unwritten' \subseteq SetIndexes' \X Nat
    BY <1>1 DEF CacheInv, TypeOK
<1> QED
    BY <1>2, <1>3, <1>4, <1>5 DEF BlocksInv

\* The costs are numbers.
LEMMA CostFacts ==
    ASSUME CacheInv, status = "running"
    PROVE  /\ StoreCost \in Nat
           /\ \A s \in SetIndexes : FetchCost(s) \in Nat
<1>1. StoreCost \in Nat
    BY DEF StoreCost
<1>2. TransferCost \in Nat
    BY ConfigFacts DEF TransferCost
<1>3. ASSUME NEW s \in SetIndexes
      PROVE  FetchCost(s) \in Nat
  <2> DEFINE b == BlockIn(s, EvictIndex(s))
  <2>1. WrittenBack(s) = {b} \/ WrittenBack(s) = {}
      BY DEF WrittenBack
  <2>2. Cardinality({b}) = 1 /\ Cardinality({}) = 0
      BY FS_Singleton, FS_EmptySet
  <2> HIDE DEF b
  <2>3. Cardinality(WrittenBack(s)) \in Nat
      BY <2>1, <2>2
  <2> QED BY <1>2, <2>3 DEF FetchCost
<1> QED
    BY <1>1, <1>3

\* The counters and the clock.
CountersInv == {load_hits, load_misses, store_hits, store_misses,
                total_loads, total_stores, total_cycles} \subseteq Nat

LEMMA LoadKeeps ==
    ASSUME CacheInv, status = "running", NEW a \in Addresses, Load(a),
           UNCHANGED <<config, status>>
    PROVE  BlocksInv' /\ CountersInv'
<1>1. SetIndex(a) \in SetIndexes
    BY AddressFacts
<1>2. CountersInv
    BY DEF CacheInv, TypeOK, CountersInv
<1>3. CASE Present(a)
  <2>1. Touch(SetIndex(a), HitIndex(a), FALSE) /\ unwritten' = unwritten
      BY <1>3 DEF Load
  <2>2. BlocksInv'
      BY <1>3, <2>1, HitKeeps
  <2>3. CountersInv'
      BY <1>2, <1>3 DEF Load, CountersInv
  <2> QED BY <2>2, <2>3
<1>4. CASE ~Present(a)
  <2>1. /\ Install(SetIndex(a), Tag(a), FALSE)
        /\ unwritten' = unwritten \ WrittenBack(SetIndex(a))
      BY <1>4 DEF Load
  <2>2. BlocksInv'
      BY <1>4, <2>1, MissKeeps
  <2>3. FetchCost(SetIndex(a)) \in Nat
      BY <1>1, CostFacts
  <2>4. /\ total_loads' = total_loads + 1 /\ load_misses' = load_misses + 1
        /\ total_cycles' = total_cycles + FetchCost(SetIndex(a)) + 1
        /\ UNCHANGED <<load_hits, store_hits, store_misses, total_stores>>
      BY <1>4 DEF Load
  <2>5. total_loads' \in Nat /\ load_misses' \in Nat /\ total_cycles' \in Nat
      BY <1>2, <2>3, <2>4 DEF CountersInv
  <2>6. CountersInv'
      BY <1>2, <2>4, <2>5 DEF CountersInv
  <2> QED BY <2>2, <2>6
<1> QED
    BY <1>3, <1>4

LEMMA StoreKeeps ==
    ASSUME CacheInv, status = "running", NEW a \in Addresses, Store(a),
           UNCHANGED <<config, status>>
    PROVE  BlocksInv' /\ CountersInv'
<1>1. SetIndex(a) \in SetIndexes
    BY AddressFacts
<1>2. CountersInv
    BY DEF CacheInv, TypeOK, CountersInv
<1>3. config.write_through \in BOOLEAN /\ config.write_allocate \in BOOLEAN
    BY ConfigurationsAssumption DEF CacheInv, TypeOK, Arguments
<1>4. config.write_through => unwritten = {}
    BY ThroughMeansWritten
<1> DEFINE d == ~config.write_through
<1>5. CASE StoreHit(a)
  <2>1. Present(a) /\ Touch(SetIndex(a), HitIndex(a), d)
      BY <1>5 DEF StoreHit
  <2>2. unwritten' = IF d THEN unwritten \union {BlockOf(a)} ELSE unwritten
      BY <1>3, <1>4, <1>5 DEF StoreHit, Stored
  <2>3. BlocksInv'
      BY <1>3, <2>1, <2>2, HitKeeps
  <2>4. CountersInv'
      BY <1>2, <1>5, CostFacts DEF Store, StoreHit, CountersInv
  <2> QED BY <2>3, <2>4
<1>6. CASE StoreAllocate(a)
  <2>1. ~Present(a) /\ Install(SetIndex(a), Tag(a), d)
      BY <1>6 DEF StoreAllocate
  <2>2. unwritten' = (unwritten \ WrittenBack(SetIndex(a)))
                     \union (IF d THEN {BlockOf(a)} ELSE {})
      BY <1>3, <1>4, <1>6 DEF StoreAllocate, Stored
  <2>3. BlocksInv'
      BY <1>3, <2>1, <2>2, MissKeeps
  <2>4. CountersInv'
      BY <1>1, <1>2, <1>6, CostFacts DEF Store, StoreAllocate, CountersInv
  <2> QED BY <2>3, <2>4
<1>7. CASE StoreAround(a)
  <2>1. config.write_through
      BY <1>3, <1>7 DEF StoreAround, CacheInv, Accepted, Rejected
  <2>2. unwritten' = unwritten /\ sets' = sets /\ latest' = latest
      BY <1>4, <1>7, <2>1 DEF StoreAround
  <2>3. BlocksInv'
      BY <2>2, BlocksStay
  <2>4. CountersInv'
      BY <1>2, <1>7 DEF Store, StoreAround, CountersInv
  <2> QED BY <2>3, <2>4
<1> QED
    BY <1>5, <1>6, <1>7 DEF Store

\* TypeOK names the counters and the blocks together.
LEMMA InvariantForm ==
    /\ config \in Configurations
    /\ status \in {"running", "done", "failed", "undefined"}
    /\ timestamp \in 0 .. TimestampSize - 1
    /\ Accepted /\ BlocksInv /\ CountersInv
    => CacheInv
BY DEF CacheInv, TypeOK, BlocksInv, CountersInv

LEMMA InvariantFormNext ==
    (/\ config \in Configurations
     /\ status \in {"running", "done", "failed", "undefined"}
     /\ timestamp \in 0 .. TimestampSize - 1
     /\ Accepted /\ BlocksInv /\ CountersInv)'
    => CacheInv'
BY InvariantForm, PTL

\* At the start every place is empty.
LEMMA CacheInit == Init => CacheInv
<1> SUFFICES ASSUME Init PROVE CacheInv
    OBVIOUS
<1>1. /\ config \in Configurations /\ status \in {"running", "done", "failed", "undefined"}
      /\ Accepted
    BY DEF Init, Accepted
<1>2. timestamp \in 0 .. TimestampSize - 1 /\ CountersInv
    BY TimestampAssumption DEF Init, CountersInv
<1>3. EmptyBlock \in Blocks /\ ~EmptyBlock.valid /\ ~EmptyBlock.dirty
    BY TimestampAssumption DEF EmptyBlock, Blocks
<1>4. \A r \in SetIndexes, j \in Ways : sets[r][j] = EmptyBlock
    BY DEF Init
<1>5. sets \in [SetIndexes -> [Ways -> Blocks]]
    BY <1>3 DEF Init
<1>6. NoDuplicates
    BY <1>3, <1>4 DEF NoDuplicates
<1>7. DirtyBlocksAreUnwritten /\ UnwrittenBlocksAreDirty
    BY <1>3, <1>4 DEF DirtyBlocksAreUnwritten, UnwrittenBlocksAreDirty, Init
<1>8. DirtyIsUnwritten /\ ThroughStaysClean
    BY <1>3, <1>4, <1>7, DirtyForm, CleanForm
<1>9. unwritten = {} /\ latest = <<>>
    BY DEF Init
<1>10. BlocksInv
    BY <1>5, <1>6, <1>8, <1>9 DEF BlocksInv
<1> QED
    BY <1>1, <1>2, <1>10, InvariantForm

\* Every step keeps the invariant.
LEMMA CacheStep == CacheInv /\ [Next]_vars => CacheInv'
<1> SUFFICES ASSUME CacheInv, [Next]_vars PROVE CacheInv'
    OBVIOUS
<1>1. /\ config \in Configurations /\ status \in {"running", "done", "failed", "undefined"}
      /\ timestamp \in 0 .. TimestampSize - 1
      /\ Accepted /\ CountersInv
    BY DEF CacheInv, TypeOK, CountersInv
<1>2. ASSUME NEW a \in Addresses, ReadLine(a)
      PROVE  CacheInv'
  <2>1. status = "running" /\ UNCHANGED <<config, status>> /\ timestamp' = Tick
      BY <1>2 DEF ReadLine
  <2>2. timestamp' \in 0 .. TimestampSize - 1
      BY <2>1, TickFacts
  <2>3. Accepted'
      BY <1>1, <2>1 DEF Accepted, Rejected
  <2>4. BlocksInv' /\ CountersInv'
      BY <1>2, <2>1, LoadKeeps, StoreKeeps DEF ReadLine
  <2> QED BY <1>1, <2>1, <2>2, <2>3, <2>4, InvariantFormNext
<1>3. CASE EndOfTrace \/ ReadUndefined
  <2>1. /\ status = "running" /\ status' \in {"done", "undefined"}
        /\ UNCHANGED <<config, sets, timestamp, counters, unwritten, latest>>
      BY <1>3 DEF EndOfTrace, ReadUndefined
  <2>2. BlocksInv'
      BY <2>1, BlocksStay
  <2>3. CountersInv'
      BY <1>1, <2>1 DEF CountersInv, counters
  <2>4. Accepted'
      BY <1>1, <2>1 DEF Accepted, Rejected
  <2> QED BY <1>1, <2>1, <2>2, <2>3, <2>4, InvariantFormNext
<1>4. CASE UNCHANGED vars
  <2>1. UNCHANGED <<config, status, sets, timestamp, counters, unwritten, latest>>
      BY <1>4 DEF vars
  <2>2. SetIndexes' = SetIndexes /\ Ways' = Ways
      BY <2>1 DEF SetIndexes, Ways
  <2>3. TypeOK' /\ Accepted' /\ NoDuplicates'
      BY <2>1, <2>2 DEF counters, CacheInv, TypeOK, Accepted, NoDuplicates
  <2>4. DirtyIsUnwritten' /\ ThroughStaysClean'
      BY <2>1, <2>2 DEF CacheInv, DirtyIsUnwritten, ThroughStaysClean, Dirty, BlockIn
  <2> QED BY <2>3, <2>4 DEF CacheInv
<1> QED
    BY <1>2, <1>3, <1>4 DEF Next, Exited

\* Every state of the simulator satisfies the invariant, whatever the arguments,
\* the trace and the width of the timestamps (main.cpp:98-286).
THEOREM CacheInvariant == Spec => []CacheInv
BY CacheInit, CacheStep, PTL DEF Spec

\* The stamps stay within uint32_t, the places within the vectors that main
\* built, and the counters are numbers (main.cpp:8-31).
THEOREM Types == Spec => []TypeOK
<1>1. CacheInv => TypeOK
    BY DEF CacheInv
<1> QED
    BY <1>1, CacheInvariant, PTL

\* No memory block is ever in two places of its set: which of them the search
\* of load and store would find does not matter (main.cpp:98-109, 192-202).
THEOREM NoBlockTwice == Spec => []NoDuplicates
<1>1. CacheInv => NoDuplicates
    BY DEF CacheInv
<1> QED
    BY <1>1, CacheInvariant, PTL

\* The write-backs that load and store charge for are those of the blocks that
\* memory has not seen the last store to (main.cpp:136, 241).
THEOREM DirtyBitsAreRight == Spec => []DirtyIsUnwritten
<1>1. CacheInv => DirtyIsUnwritten
    BY DEF CacheInv
<1> QED
    BY <1>1, CacheInvariant, PTL
-----------------------------------------------------------------------------
(* What the cycles are made of *)

LEMMA Products ==
    ASSUME NEW t \in Nat, NEW a \in Nat, NEW b \in Nat
    PROVE  /\ t * a \in Nat /\ t * (a + b) = t * a + t * b
           /\ t * 0 = 0 /\ t * 1 = t
OBVIOUS

\* The dirty bits can be counted.
LEMMA DirtyFacts ==
    ASSUME CacheInv
    PROVE  IsFiniteSet(Dirty) /\ Cardinality(Dirty) \in Nat
<1>1. config.num_sets - 1 \in Int /\ config.num_blocks - 1 \in Int
    BY ConfigurationsAssumption DEF CacheInv, TypeOK, Arguments
<1>2. IsFiniteSet(0 .. config.num_sets - 1) /\ IsFiniteSet(0 .. config.num_blocks - 1)
    BY <1>1, FS_Interval
<1>3. IsFiniteSet(SetIndexes) /\ IsFiniteSet(Ways)
    BY <1>2, FS_EmptySet DEF SetIndexes, Ways
<1>4. IsFiniteSet(Dirty)
    BY <1>3, FS_Product, FS_Subset DEF Dirty
<1> QED
    BY <1>4, FS_CardinalityType

\* A hit makes one block dirty, at most.
LEMMA HitDirties ==
    ASSUME CacheInv, status = "running", NEW a \in Addresses, Present(a),
           NEW d \in BOOLEAN, Touch(SetIndex(a), HitIndex(a), d),
           UNCHANGED <<config, status>>
    PROVE  IF d THEN \E q : Dirty' \subseteq Dirty \union {q} ELSE Dirty' = Dirty
<1> DEFINE s == SetIndex(a)
           i == HitIndex(a)
<1>1. s \in SetIndexes /\ i \in Ways
    BY AddressFacts, HitFacts
<1>2. SetIndexes' = SetIndexes /\ Ways' = Ways
    BY DEF SetIndexes, Ways
<1>3. \A r \in SetIndexes, j \in Ways :
          sets'[r][j].dirty <=> (sets[r][j].dirty \/ (r = s /\ j = i /\ d))
    BY <1>1, TouchFacts
<1> HIDE DEF s, i
<1>4. \A q \in SetIndexes \X Ways : q \in Dirty' => q \in Dirty \/ (q = <<s, i>> /\ d)
    BY <1>2, <1>3 DEF Dirty
<1>5. \A q \in SetIndexes \X Ways : q \in Dirty => q \in Dirty'
    BY <1>2, <1>3 DEF Dirty
<1>6. Dirty \subseteq SetIndexes \X Ways /\ Dirty' \subseteq SetIndexes \X Ways
    BY <1>2 DEF Dirty
<1> QED
    BY <1>4, <1>5, <1>6

\* A miss that allocates writes back the dirty block whose place it takes.
LEMMA MissDirties ==
    ASSUME CacheInv, status = "running", NEW a \in Addresses, NEW d \in BOOLEAN,
           Install(SetIndex(a), Tag(a), d), UNCHANGED <<config, status>>
    PROVE  \E q : /\ IF d THEN Dirty' = (Dirty \ {q}) \union {q} ELSE Dirty' = Dirty \ {q}
                  /\ Cardinality(WrittenBack(SetIndex(a))) = IF q \in Dirty THEN 1 ELSE 0
<1> DEFINE s == SetIndex(a)
           i == PlaceFor(s)
<1>1. s \in SetIndexes /\ Tag(a) \in Nat /\ Ways # {} /\ i \in Ways
    BY AddressFacts, PlaceFacts DEF Install
<1>2. SetIndexes' = SetIndexes /\ Ways' = Ways
    BY DEF SetIndexes, Ways
<1>3. /\ sets'[s][i].dirty = d
      /\ \A r \in SetIndexes, j \in Ways : r # s \/ j # i => sets'[r][j] = sets[r][j]
    BY <1>1, InstallFacts
<1>4. Cardinality(WrittenBack(s)) = IF sets[s][i].dirty THEN 1 ELSE 0
  <2>1. \A j \in Ways : sets[s][j].dirty => sets[s][j].valid
      BY <1>1, DirtyForm DEF CacheInv, DirtyBlocksAreUnwritten
  <2>2. IF sets[s][i].dirty THEN WrittenBack(s) = {BlockIn(s, i)} ELSE WrittenBack(s) = {}
      BY <1>1, <2>1, PlaceFacts DEF WrittenBack
  <2> QED BY <2>2, FS_Singleton, FS_EmptySet
<1> HIDE DEF s, i
<1> DEFINE q == <<s, i>>
<1>5. q \in SetIndexes \X Ways /\ q[1] = s /\ q[2] = i
    BY <1>1
<1>6. /\ q \in Dirty <=> sets[s][i].dirty
      /\ q \in Dirty' <=> d
    BY <1>2, <1>3, <1>5 DEF Dirty
<1>7. \A u \in SetIndexes \X Ways : u # q => (u \in Dirty' <=> u \in Dirty)
    BY <1>2, <1>3, <1>5 DEF Dirty
<1>8. Dirty \subseteq SetIndexes \X Ways /\ Dirty' \subseteq SetIndexes \X Ways
    BY <1>2 DEF Dirty
<1> HIDE DEF q
<1>9. IF d THEN Dirty' = (Dirty \ {q}) \union {q} ELSE Dirty' = Dirty \ {q}
    BY <1>5, <1>6, <1>7, <1>8
<1> QED
    BY <1>4, <1>6, <1>9 DEF s

\* In numbers: a miss writes back the dirty block that it replaces.
LEMMA MissCounts ==
    ASSUME CacheInv, status = "running", NEW a \in Addresses, NEW d \in BOOLEAN,
           Install(SetIndex(a), Tag(a), d), UNCHANGED <<config, status>>
    PROVE  /\ Cardinality(WrittenBack(SetIndex(a))) \in Nat
           /\ Cardinality(Dirty)' \in Nat
           /\ Cardinality(Dirty)' + Cardinality(WrittenBack(SetIndex(a)))
                  <= Cardinality(Dirty) + IF d THEN 1 ELSE 0
<1>1. PICK q : /\ IF d THEN Dirty' = (Dirty \ {q}) \union {q} ELSE Dirty' = Dirty \ {q}
               /\ Cardinality(WrittenBack(SetIndex(a))) = IF q \in Dirty THEN 1 ELSE 0
    BY MissDirties
<1> DEFINE w == Cardinality(WrittenBack(SetIndex(a)))
           D == Dirty
           D1 == Dirty'
<1>2. IsFiniteSet(D) /\ Cardinality(D) \in Nat
    BY DirtyFacts
<1>3. IF d THEN D1 = (D \ {q}) \union {q} ELSE D1 = D \ {q}
    BY <1>1
<1>4. w = IF q \in D THEN 1 ELSE 0
    BY <1>1
<1> HIDE DEF w, D, D1
<1>5. /\ IsFiniteSet(D \ {q})
      /\ Cardinality(D \ {q}) = IF q \in D THEN Cardinality(D) - 1 ELSE Cardinality(D)
    BY <1>2, FS_RemoveElement
<1>6. Cardinality((D \ {q}) \union {q}) = Cardinality(D \ {q}) + 1
    BY <1>5, FS_AddElement
<1>7. Cardinality(D \ {q}) \in Nat
    BY <1>5, FS_CardinalityType
<1>8. /\ w \in Nat /\ Cardinality(D1) \in Nat
      /\ Cardinality(D1) + w <= Cardinality(D) + IF d THEN 1 ELSE 0
  <2>1. CASE d
    <3>1. Cardinality(D1) = Cardinality(D \ {q}) + 1
        BY <1>3, <1>6, <2>1
    <3> QED BY <1>2, <1>4, <1>5, <1>7, <2>1, <3>1
  <2>2. CASE ~d
    <3>1. Cardinality(D1) = Cardinality(D \ {q})
        BY <1>3, <2>2
    <3> QED BY <1>2, <1>4, <1>5, <1>7, <2>2, <3>1
  <2> QED BY <2>1, <2>2
<1> QED
    BY <1>8 DEF w, D, D1

LEMMA HitCounts ==
    ASSUME CacheInv, status = "running", NEW a \in Addresses, Present(a),
           NEW d \in BOOLEAN, Touch(SetIndex(a), HitIndex(a), d),
           UNCHANGED <<config, status>>
    PROVE  /\ Cardinality(Dirty)' \in Nat
           /\ Cardinality(Dirty)' <= Cardinality(Dirty) + 1
<1>1. PICK q : Dirty' \subseteq Dirty \union {q}
    BY HitDirties
<1> DEFINE D == Dirty
           D1 == Dirty'
<1>2. IsFiniteSet(D) /\ Cardinality(D) \in Nat
    BY DirtyFacts
<1>3. D1 \subseteq D \union {q}
    BY <1>1
<1> HIDE DEF D, D1
<1>4. /\ IsFiniteSet(D \union {q})
      /\ Cardinality(D \union {q}) = IF q \in D THEN Cardinality(D) ELSE Cardinality(D) + 1
    BY <1>2, FS_AddElement
<1>5. IsFiniteSet(D1) /\ Cardinality(D1) <= Cardinality(D \union {q})
    BY <1>3, <1>4, FS_Subset
<1>6. Cardinality(D1) \in Nat
    BY <1>5, FS_CardinalityType
<1>7. Cardinality(D1) <= Cardinality(D) + 1
    BY <1>2, <1>4, <1>5, <1>6
<1> QED
    BY <1>6, <1>7 DEF D, D1

\* The cycles that the code counts for all but the write-backs: one for each
\* access, and one more for each store that hits.
CountedCycles ==
    total_loads + total_stores + store_hits
    + TransferCost * (load_misses
                      + IF config.write_allocate THEN store_misses ELSE 0)
    + StoreCost * total_stores

\* The inductive form of CyclesAreExplained, with k write-backs.
Explained(k) ==
    /\ total_loads = load_hits + load_misses
    /\ total_stores = store_hits + store_misses
    /\ total_cycles = CountedCycles + TransferCost * k
    /\ k + Cardinality(Dirty) <= total_stores
    /\ config.write_through => k = 0

\* With write-through no block that leaves is dirty.
LEMMA NothingToWriteBack ==
    ASSUME CacheInv, status = "running", NEW s \in SetIndexes, Ways # {},
           config.write_through
    PROVE  Cardinality(WrittenBack(s)) = 0
<1>1. ~sets[s][EvictIndex(s)].dirty
    BY PlaceFacts, CleanForm DEF CacheInv
<1>2. WrittenBack(s) = {}
    BY <1>1 DEF WrittenBack
<1> QED
    BY <1>2, FS_EmptySet

LEMMA LoadExplained ==
    ASSUME CacheInv, status = "running", NEW a \in Addresses, Load(a),
           UNCHANGED <<config, status>>, NEW k \in Nat, Explained(k)
    PROVE  \E m \in Nat : Explained(m)'
<1>1. CountersInv
    BY DEF CacheInv, TypeOK, CountersInv
<1> DEFINE t == TransferCost
           sc == StoreCost
           n == load_misses + IF config.write_allocate THEN store_misses ELSE 0
<1>2. t \in Nat /\ sc \in Nat /\ t' = t /\ sc' = sc /\ n \in Nat
    BY <1>1, ConfigFacts, CostFacts DEF TransferCost, StoreCost, CountersInv
<1>3. /\ total_cycles = total_loads + total_stores + store_hits + t * n
                         + sc * total_stores + t * k
      /\ CountedCycles' = total_loads' + total_stores' + store_hits' + t * n'
                         + sc * total_stores'
    BY <1>2 DEF Explained, CountedCycles
<1>4. Cardinality(Dirty) \in Nat
    BY DirtyFacts
<1>5. CASE Present(a)
  <2>1. /\ Touch(SetIndex(a), HitIndex(a), FALSE)
        /\ total_loads' = total_loads + 1 /\ load_hits' = load_hits + 1
        /\ total_cycles' = total_cycles + 1
        /\ UNCHANGED <<load_misses, store_hits, store_misses, total_stores>>
      BY <1>5 DEF Load
  <2>2. Dirty' = Dirty
      BY <1>5, <2>1, HitDirties
  <2>3. n' = n
      BY <2>1
  <2>4. t * n \in Nat /\ t * k \in Nat /\ sc * total_stores \in Nat
      BY <1>1, <1>2, Products DEF CountersInv
  <2> HIDE DEF n, t, sc
  <2>5. total_cycles' = CountedCycles' + t * k
      BY <1>1, <1>2, <1>3, <2>1, <2>3, <2>4 DEF CountersInv
  <2>6. Explained(k)'
      BY <1>1, <1>2, <2>1, <2>2, <2>5 DEF Explained, CountersInv, t
  <2> QED BY <2>6
<1>6. CASE ~Present(a)
  <2>1. /\ Install(SetIndex(a), Tag(a), FALSE)
        /\ total_loads' = total_loads + 1 /\ load_misses' = load_misses + 1
        /\ total_cycles' = total_cycles
                            + t * (1 + Cardinality(WrittenBack(SetIndex(a)))) + 1
        /\ UNCHANGED <<load_hits, store_hits, store_misses, total_stores>>
      BY <1>6 DEF Load, FetchCost
  <2>2. PICK w \in Nat : /\ w = Cardinality(WrittenBack(SetIndex(a)))
                         /\ Cardinality(Dirty)' + w <= Cardinality(Dirty)
                         /\ Cardinality(Dirty)' \in Nat
                         /\ config.write_through => w = 0
    <3> DEFINE wb == Cardinality(WrittenBack(SetIndex(a)))
    <3>1. /\ wb \in Nat /\ Cardinality(Dirty)' \in Nat
          /\ Cardinality(Dirty)' + wb <= Cardinality(Dirty) + 0
        BY <2>1, MissCounts
    <3> HIDE DEF wb
    <3>2. Cardinality(Dirty)' + wb <= Cardinality(Dirty)
        BY <1>4, <3>1
    <3>3. wb \in Nat /\ Cardinality(Dirty)' \in Nat
        BY <3>1
    <3>4. config.write_through => wb = 0
        BY <2>1, AddressFacts, NothingToWriteBack DEF Install, wb
    <3> QED BY <3>2, <3>3, <3>4 DEF wb
  <2>3. total_cycles' = total_cycles + t * (1 + w) + 1
      BY <2>1, <2>2
  <2>4. n' = n + 1
      BY <1>1, <2>1 DEF CountersInv
  <2> HIDE DEF n, t, sc
  <2>5. /\ t * n' = t * n + t /\ t * (1 + w) = t + t * w /\ t * (k + w) = t * k + t * w
        /\ t * n \in Nat /\ t * w \in Nat /\ t * k \in Nat /\ sc * total_stores \in Nat
    <3>1. t * (n + 1) = t * n + t * 1 /\ t * (1 + w) = t * 1 + t * w
        BY <1>2, <2>2, Products
    <3> QED BY <1>1, <1>2, <2>2, <2>4, <3>1, Products DEF CountersInv
  <2>6. total_cycles' = CountedCycles' + t * (k + w)
      BY <1>1, <1>2, <1>3, <2>1, <2>2, <2>3, <2>5 DEF CountersInv
  <2>7. k + w + Cardinality(Dirty)' <= total_stores'
      BY <1>1, <1>4, <2>1, <2>2 DEF Explained, CountersInv
  <2>8. Explained(k + w)'
      BY <1>1, <1>2, <2>1, <2>2, <2>6, <2>7 DEF Explained, CountersInv, t
  <2> QED BY <2>2, <2>8
<1> QED
    BY <1>5, <1>6

LEMMA StoreExplained ==
    ASSUME CacheInv, status = "running", NEW a \in Addresses, Store(a),
           UNCHANGED <<config, status>>, NEW k \in Nat, Explained(k)
    PROVE  \E m \in Nat : Explained(m)'
<1>1. CountersInv
    BY DEF CacheInv, TypeOK, CountersInv
<1> DEFINE t == TransferCost
           sc == StoreCost
           n == load_misses + IF config.write_allocate THEN store_misses ELSE 0
<1>2. t \in Nat /\ sc \in Nat /\ t' = t /\ sc' = sc /\ n \in Nat
    BY <1>1, ConfigFacts, CostFacts DEF TransferCost, StoreCost, CountersInv
<1>3. /\ total_cycles = total_loads + total_stores + store_hits + t * n
                         + sc * total_stores + t * k
      /\ CountedCycles' = total_loads' + total_stores' + store_hits' + t * n'
                         + sc * total_stores'
    BY <1>2 DEF Explained, CountedCycles
<1>4. Cardinality(Dirty) \in Nat
    BY DirtyFacts
<1>5. /\ total_stores' = total_stores + 1
      /\ UNCHANGED <<load_hits, load_misses, total_loads>>
    BY DEF Store
<1>6. /\ sc * total_stores' = sc * total_stores + sc
      /\ sc * total_stores \in Nat /\ t * n \in Nat /\ t * k \in Nat
  <2>1. sc * (total_stores + 1) = sc * total_stores + sc * 1
      BY <1>1, <1>2, Products DEF CountersInv
  <2> QED BY <1>1, <1>2, <1>5, <2>1, Products DEF CountersInv
<1>7. CASE StoreHit(a)
  <2>1. /\ Present(a) /\ Touch(SetIndex(a), HitIndex(a), ~config.write_through)
        /\ total_cycles' = total_cycles + 1 + sc + 1
        /\ store_hits' = store_hits + 1 /\ store_misses' = store_misses
      BY <1>7 DEF StoreHit
  <2>2. Cardinality(Dirty)' <= Cardinality(Dirty) + 1 /\ Cardinality(Dirty)' \in Nat
      BY <2>1, HitCounts, ConfigFacts
  <2>3. n' = n
      BY <1>5, <2>1
  <2> HIDE DEF n, t, sc
  <2>4. total_cycles' = CountedCycles' + t * k
      BY <1>1, <1>2, <1>3, <1>5, <1>6, <2>1, <2>3 DEF CountersInv
  <2>5. k + Cardinality(Dirty)' <= total_stores'
      BY <1>1, <1>4, <1>5, <2>2 DEF Explained, CountersInv
  <2>6. Explained(k)'
      BY <1>1, <1>2, <1>5, <2>1, <2>4, <2>5 DEF Explained, CountersInv, t
  <2> QED BY <2>6
<1>8. CASE StoreAllocate(a)
  <2>1. /\ Install(SetIndex(a), Tag(a), ~config.write_through)
        /\ total_cycles' = total_cycles
                            + t * (1 + Cardinality(WrittenBack(SetIndex(a)))) + sc + 1
        /\ store_misses' = store_misses + 1 /\ store_hits' = store_hits
        /\ config.write_allocate
      BY <1>8 DEF StoreAllocate, FetchCost
  <2>2. PICK w \in Nat : /\ w = Cardinality(WrittenBack(SetIndex(a)))
                         /\ Cardinality(Dirty)' + w <= Cardinality(Dirty) + 1
                         /\ Cardinality(Dirty)' \in Nat
                         /\ config.write_through => w = 0
    <3> DEFINE wb == Cardinality(WrittenBack(SetIndex(a)))
               d == ~config.write_through
    <3>1. d \in BOOLEAN
        OBVIOUS
    <3>2. /\ wb \in Nat /\ Cardinality(Dirty)' \in Nat
          /\ Cardinality(Dirty)' + wb <= Cardinality(Dirty) + IF d THEN 1 ELSE 0
        BY <2>1, <3>1, MissCounts
    <3> HIDE DEF wb, d
    <3>3. Cardinality(Dirty)' + wb <= Cardinality(Dirty) + 1
        BY <1>4, <3>2
    <3>4. wb \in Nat /\ Cardinality(Dirty)' \in Nat
        BY <3>2
    <3>5. config.write_through => wb = 0
        BY <2>1, AddressFacts, NothingToWriteBack DEF Install, wb
    <3> QED BY <3>3, <3>4, <3>5 DEF wb
  <2>3. total_cycles' = total_cycles + t * (1 + w) + sc + 1
      BY <2>1, <2>2
  <2>4. n' = n + 1
      BY <1>1, <1>5, <2>1 DEF CountersInv
  <2> HIDE DEF n, t, sc
  <2>5. /\ t * n' = t * n + t /\ t * (1 + w) = t + t * w /\ t * (k + w) = t * k + t * w
        /\ t * w \in Nat
    <3>1. t * (n + 1) = t * n + t * 1 /\ t * (1 + w) = t * 1 + t * w
        BY <1>2, <2>2, Products
    <3> QED BY <1>2, <2>2, <2>4, <3>1, Products
  <2>6. total_cycles' = CountedCycles' + t * (k + w)
      BY <1>1, <1>2, <1>3, <1>5, <1>6, <2>1, <2>2, <2>3, <2>5 DEF CountersInv
  <2>7. k + w + Cardinality(Dirty)' <= total_stores'
      BY <1>1, <1>4, <1>5, <2>2 DEF Explained, CountersInv
  <2>8. Explained(k + w)'
      BY <1>1, <1>2, <1>5, <2>1, <2>2, <2>6, <2>7 DEF Explained, CountersInv, t
  <2> QED BY <2>2, <2>8
<1>9. CASE StoreAround(a)
  <2>1. /\ ~config.write_allocate /\ sets' = sets
        /\ total_cycles' = total_cycles + 100 + 1
        /\ store_misses' = store_misses + 1 /\ store_hits' = store_hits
      BY <1>9 DEF StoreAround
  <2>2. sc = 100
      BY <2>1 DEF CacheInv, Accepted, Rejected, StoreCost
  <2>3. Dirty' = Dirty
      BY <2>1 DEF Dirty, SetIndexes, Ways
  <2>4. n' = n
      BY <1>5, <2>1
  <2> HIDE DEF n, t, sc
  <2>5. total_cycles' = CountedCycles' + t * k
      BY <1>1, <1>2, <1>3, <1>5, <1>6, <2>1, <2>2, <2>4 DEF CountersInv
  <2>6. k + Cardinality(Dirty)' <= total_stores'
      BY <1>1, <1>4, <1>5, <2>3 DEF Explained, CountersInv
  <2>7. Explained(k)'
      BY <1>1, <1>2, <1>5, <2>1, <2>5, <2>6 DEF Explained, CountersInv, t
  <2> QED BY <2>7
<1> QED
    BY <1>7, <1>8, <1>9 DEF Store

LEMMA ExplainedInit == Init => Explained(0)
<1> SUFFICES ASSUME Init PROVE Explained(0)
    OBVIOUS
<1>1. Dirty = {}
    BY DEF Init, Dirty, EmptyBlock
<1>2. Cardinality(Dirty) = 0
    BY <1>1, FS_EmptySet
<1>3. TransferCost \in Nat /\ StoreCost \in Nat
    BY ConfigurationsAssumption DEF Init, TransferCost, StoreCost, Arguments
<1>4. TransferCost * 0 = 0 /\ StoreCost * 0 = 0
    BY <1>3
<1>5. CountedCycles = 0
    BY <1>4 DEF Init, CountedCycles
<1> QED
    BY <1>2, <1>4, <1>5 DEF Init, Explained

\* The write-backs can be counted in every state.
CyclesInv == \E m \in Nat : Explained(m)

LEMMA CyclesStep == CacheInv /\ CyclesInv /\ [Next]_vars => CyclesInv'
<1> SUFFICES ASSUME CacheInv, CyclesInv, [Next]_vars PROVE CyclesInv'
    OBVIOUS
<1>1. PICK k \in Nat : Explained(k)
    BY DEF CyclesInv
<1>2. ASSUME NEW a \in Addresses, ReadLine(a)
      PROVE  CyclesInv'
    BY <1>1, <1>2, LoadExplained, StoreExplained DEF ReadLine, CyclesInv
<1>3. CASE EndOfTrace \/ ReadUndefined \/ UNCHANGED vars
  <2>1. UNCHANGED <<config, sets, counters>>
      BY <1>3 DEF EndOfTrace, ReadUndefined, vars
  <2>2. Dirty' = Dirty
    <3>1. (status' # "failed" /\ status # "failed") \/ status' = status
        BY <1>3 DEF EndOfTrace, ReadUndefined, vars
    <3> QED BY <2>1, <3>1 DEF Dirty, SetIndexes, Ways
  <2>3. CountedCycles' = CountedCycles /\ TransferCost' = TransferCost
      BY <2>1 DEF CountedCycles, TransferCost, StoreCost, counters
  <2>4. Explained(k)'
      BY <1>1, <2>1, <2>2, <2>3 DEF Explained, counters
  <2> QED BY <2>4 DEF CyclesInv
<1> QED
    BY <1>2, <1>3 DEF Next, Exited

\* Whatever the arguments and the trace, the cycles that main prints are those
\* of the accesses and of write-backs that a store each can be held against, and
\* one more for some of the stores (main.cpp:136, 209, 241, 273).
THEOREM CyclesAreRight == Spec => []CyclesAreExplained
<1>1. Init => CyclesInv
    BY ExplainedInit DEF CyclesInv
<1>2. CacheInv /\ CyclesInv => CyclesAreExplained
  <2> SUFFICES ASSUME CacheInv, CyclesInv PROVE CyclesAreExplained
      OBVIOUS
  <2>1. PICK k \in Nat : Explained(k)
      BY DEF CyclesInv
  <2>2. IsFiniteSet(Dirty) /\ CountersInv
      BY DirtyFacts DEF CacheInv, TypeOK, CountersInv
  <2>3. Cardinality(Dirty) \in Nat
      BY <2>2, FS_CardinalityType
  <2>4. k \in 0 .. total_stores
      BY <2>1, <2>2, <2>3 DEF Explained, CountersInv
  <2> DEFINE n == load_misses + IF config.write_allocate THEN store_misses ELSE 0
             transfers == TransferCost * n
             through == StoreCost * total_stores
             backs == TransferCost * k
  <2>5. transfers \in Nat /\ through \in Nat /\ backs \in Nat
    <3>1. TransferCost \in Nat /\ StoreCost \in Nat /\ n \in Nat
        BY <2>2, ConfigurationsAssumption
           DEF CacheInv, TypeOK, Arguments, TransferCost, StoreCost, CountersInv
    <3> HIDE DEF n
    <3> QED BY <2>2, <3>1, Products DEF CountersInv
  <2>6. /\ CountedCycles = total_loads + total_stores + store_hits + transfers + through
        /\ AccessCycles = total_loads + store_hits + through
                          + (IF config.write_allocate THEN store_misses ELSE 0)
                          + transfers
      BY DEF CountedCycles, AccessCycles
  <2>7. /\ total_cycles = CountedCycles + backs
        /\ total_stores = store_hits + store_misses
      BY <2>1 DEF Explained
  <2> HIDE DEF n, transfers, through, backs
  <2>8. /\ AccessCycles + backs <= total_cycles
        /\ total_cycles <= AccessCycles + backs + total_stores
      BY <2>2, <2>5, <2>6, <2>7 DEF CountersInv
  <2> QED BY <2>1, <2>4, <2>8 DEF Explained, CyclesAreExplained, backs
<1> QED
    BY <1>1, <1>2, CyclesStep, CacheInvariant, PTL DEF Spec

-----------------------------------------------------------------------------
(* The stamps of a set's blocks order them as the queue of the policy does *)

\* While the clock has not wrapped it counts the accesses, no block's stamp is ahead
\* of it, and no two blocks of a set have the same.
ClockCounts == timestamp = total_loads + total_stores
StampsApart ==
    \A s \in SetIndexes : \A i \in Valid(s) :
        /\ Stamp(sets[s][i]) <= timestamp
        /\ \A j \in Valid(s) : Stamp(sets[s][i]) = Stamp(sets[s][j]) => i = j
StampsInv == NotWrapped => ClockCounts /\ StampsApart

\* An access that gives the block at place k of set s a new stamp.
Renews(s, k, t) ==
    /\ sets'[s][k].valid /\ sets'[s][k].tag = t /\ Stamp(sets[s][k])' = Tick
    /\ \A r \in SetIndexes, j \in Ways :
           r # s \/ j # k => sets'[r][j] = sets[r][j]

\* An access that leaves tags and stamps as they are.
KeepsStamps ==
    \A r \in SetIndexes, j \in Ways :
        /\ sets'[r][j].valid = sets[r][j].valid
        /\ sets'[r][j].tag = sets[r][j].tag
        /\ Stamp(sets[r][j])' = Stamp(sets[r][j])

LEMMA StampsAreNumbers ==
    ASSUME CacheInv
    PROVE  /\ \A r \in SetIndexes, j \in Ways : Stamp(sets[r][j]) \in Nat
           /\ timestamp \in Nat
<1>1. \A r \in SetIndexes, j \in Ways : sets[r][j] \in Blocks
    BY DEF CacheInv, TypeOK
<1> QED
    BY <1>1, TimestampAssumption DEF CacheInv, TypeOK, Blocks, Stamp

\* Until it wraps, a tick is one more.
LEMMA TickCounts ==
    ASSUME CacheInv, StampsInv, total_loads' + total_stores' < TimestampSize,
           total_loads' + total_stores' = total_loads + total_stores + 1
    PROVE  ClockCounts /\ StampsApart /\ Tick = timestamp + 1
<1>1. /\ total_loads \in Nat /\ total_stores \in Nat
      /\ TimestampSize \in Nat /\ timestamp \in Nat
    BY StampsAreNumbers, TimestampAssumption DEF CacheInv, TypeOK
<1>2. ClockCounts /\ StampsApart
    BY <1>1 DEF StampsInv, NotWrapped
<1>3. timestamp + 1 < TimestampSize
    BY <1>1, <1>2 DEF ClockCounts
<1> QED
    BY <1>1, <1>2, <1>3 DEF Tick

LEMMA TouchRenews ==
    ASSUME CacheInv, NEW s \in SetIndexes, NEW k \in Ways, NEW d \in BOOLEAN,
           sets[s][k].valid, Touch(s, k, d), UNCHANGED <<config, status>>
    PROVE  /\ config.lru_eviction => Renews(s, k, sets[s][k].tag)
           /\ ~config.lru_eviction => KeepsStamps
<1>1. sets \in [SetIndexes -> [Ways -> Blocks]]
    BY DEF CacheInv, TypeOK
<1> DEFINE old == sets[s][k]
           new == Touched(old, d)
<1>2. old \in Blocks
    BY <1>1
<1>3. /\ new.valid = old.valid /\ new.tag = old.tag
      /\ config.lru_eviction => new.access_ts = Tick
      /\ new.load_ts = old.load_ts
    BY <1>2 DEF Blocks, Touched
<1>4. sets' = [sets EXCEPT ![s][k] = new]
    BY DEF Touch
<1> HIDE DEF new
<1>5. \A r \in SetIndexes, j \in Ways :
          sets'[r][j] = IF r = s /\ j = k THEN new ELSE sets[r][j]
    BY <1>1, <1>4
<1>6. \A b : Stamp(b)' = IF config.lru_eviction THEN b.access_ts ELSE b.load_ts
    BY DEF Stamp
<1>7. \A b : Stamp(b) = IF config.lru_eviction THEN b.access_ts ELSE b.load_ts
    BY DEF Stamp
<1> QED
    BY <1>3, <1>5, <1>6, <1>7 DEF Renews, KeepsStamps, Stamp

LEMMA InstallRenews ==
    ASSUME CacheInv, status = "running", NEW s \in SetIndexes, NEW t \in Nat,
           NEW d \in BOOLEAN, Install(s, t, d), UNCHANGED <<config, status>>
    PROVE  \E k \in Ways : k = PlaceFor(s) /\ Renews(s, k, t)
<1>1. sets \in [SetIndexes -> [Ways -> Blocks]]
    BY DEF CacheInv, TypeOK
<1> DEFINE new == [tag |-> t, valid |-> TRUE, dirty |-> d,
                   load_ts |-> Tick, access_ts |-> Tick]
<1>2. PICK k \in Ways : k = PlaceFor(s)
    BY PlaceFacts DEF Install
<1>3. new.valid /\ new.tag = t /\ new.access_ts = Tick /\ new.load_ts = Tick
    OBVIOUS
<1>4. sets' = [sets EXCEPT ![s][k] = new]
    BY <1>2 DEF Install
<1> HIDE DEF new
<1>5. \A r \in SetIndexes, j \in Ways :
          sets'[r][j] = IF r = s /\ j = k THEN new ELSE sets[r][j]
    BY <1>1, <1>4
<1>6. Renews(s, k, t)
    BY <1>3, <1>5 DEF Renews, Stamp
<1> QED
    BY <1>2, <1>6

\* A new stamp is greater than all others of the set.
LEMMA RenewedStamps ==
    ASSUME CacheInv, StampsApart, Tick = timestamp + 1, timestamp' = Tick,
           UNCHANGED <<config, status>>,
           NEW s \in SetIndexes, NEW k \in Ways, NEW t, Renews(s, k, t)
    PROVE  StampsApart'
<1>1. SetIndexes' = SetIndexes /\ Ways' = Ways /\ config' = config
    BY DEF SetIndexes, Ways
<1>2. /\ \A r \in SetIndexes, j \in Ways : Stamp(sets[r][j]) \in Nat
      /\ timestamp \in Nat
    BY StampsAreNumbers
<1>3. ASSUME NEW r \in SetIndexes, NEW j \in Ways, r # s \/ j # k
      PROVE  /\ sets'[r][j].valid = sets[r][j].valid
             /\ Stamp(sets[r][j])' = Stamp(sets[r][j])
    BY <1>1, <1>3 DEF Renews, Stamp
<1>4. Stamp(sets[s][k])' = timestamp + 1
    BY DEF Renews
<1>5. ASSUME NEW r \in SetIndexes, NEW i \in Ways, sets'[r][i].valid
      PROVE  /\ Stamp(sets[r][i])' \in Nat /\ Stamp(sets[r][i])' <= timestamp + 1
             /\ r # s \/ i # k => Stamp(sets[r][i])' <= timestamp
  <2>1. CASE r = s /\ i = k
      BY <1>2, <1>4, <2>1
  <2>2. CASE r # s \/ i # k
    <3>1. sets[r][i].valid /\ Stamp(sets[r][i])' = Stamp(sets[r][i])
        BY <1>3, <1>5, <2>2
    <3>2. Stamp(sets[r][i]) <= timestamp
        BY <3>1 DEF StampsApart, Valid
    <3> QED BY <1>2, <2>2, <3>1, <3>2
  <2> QED BY <2>1, <2>2
<1>6. ASSUME NEW r \in SetIndexes, NEW i \in Ways, sets'[r][i].valid,
             NEW j \in Ways, sets'[r][j].valid,
             Stamp(sets[r][i])' = Stamp(sets[r][j])'
      PROVE  i = j
  <2>1. CASE (r = s /\ i = k) \/ (r = s /\ j = k)
      BY <1>2, <1>4, <1>5, <1>6, <2>1
  <2>2. CASE (r # s \/ i # k) /\ (r # s \/ j # k)
    <3>1. /\ sets[r][i].valid /\ Stamp(sets[r][i])' = Stamp(sets[r][i])
          /\ sets[r][j].valid /\ Stamp(sets[r][j])' = Stamp(sets[r][j])
        BY <1>3, <1>6, <2>2
    <3> QED BY <1>6, <3>1 DEF StampsApart, Valid
  <2> QED BY <2>1, <2>2
<1> QED
    BY <1>1, <1>5, <1>6 DEF StampsApart, Valid

LEMMA KeptStamps ==
    ASSUME CacheInv, StampsApart, Tick = timestamp + 1, timestamp' = Tick,
           UNCHANGED <<config, status>>, KeepsStamps
    PROVE  StampsApart'
<1>1. SetIndexes' = SetIndexes /\ Ways' = Ways
    BY DEF SetIndexes, Ways
<1>2. /\ \A r \in SetIndexes, j \in Ways : Stamp(sets[r][j]) \in Nat
      /\ timestamp \in Nat
    BY StampsAreNumbers
<1>3. ASSUME NEW r \in SetIndexes, NEW i \in Ways, sets'[r][i].valid
      PROVE  /\ sets[r][i].valid /\ Stamp(sets[r][i])' = Stamp(sets[r][i])
             /\ Stamp(sets[r][i])' <= timestamp + 1
  <2>1. sets[r][i].valid /\ Stamp(sets[r][i])' = Stamp(sets[r][i])
      BY <1>3 DEF KeepsStamps
  <2>2. Stamp(sets[r][i]) <= timestamp
      BY <2>1 DEF StampsApart, Valid
  <2> QED BY <1>2, <2>1, <2>2
<1>4. ASSUME NEW r \in SetIndexes, NEW i \in Ways, sets'[r][i].valid,
             NEW j \in Ways, sets'[r][j].valid,
             Stamp(sets[r][i])' = Stamp(sets[r][j])'
      PROVE  i = j
    BY <1>3, <1>4 DEF StampsApart, Valid
<1> QED
    BY <1>1, <1>3, <1>4 DEF StampsApart, Valid

\* The blocks of a set at other places than k.
Others(s, k) == {sets[s][j].tag : j \in Valid(s) \ {k}}

\* Under a new stamp a block stands behind the others of its set, and everything
\* else stays in its order.
LEMMA RenewedQueue ==
    ASSUME CacheInv, StampsApart, Tick = timestamp + 1, UNCHANGED <<config, status>>,
           NEW s \in SetIndexes, NEW k \in Ways, NEW t, Renews(s, k, t),
           NEW others, others = Others(s, k)
    PROVE  /\ Resident(s)' = others \union {t}
           /\ Before(s)' = (Before(s) \intersect (others \X others))
                           \union (others \X {t})
           /\ \A r \in SetIndexes : r # s => /\ Resident(r)' = Resident(r)
                                             /\ Before(r)' = Before(r)
<1>1. Ways' = Ways /\ config' = config
    BY DEF Ways
<1>2. /\ \A r \in SetIndexes, j \in Ways : Stamp(sets[r][j]) \in Nat
      /\ timestamp \in Nat
    BY StampsAreNumbers
<1>3. ASSUME NEW r \in SetIndexes, NEW j \in Ways, r # s \/ j # k
      PROVE  /\ sets'[r][j].valid = sets[r][j].valid
             /\ sets'[r][j].tag = sets[r][j].tag
             /\ Stamp(sets[r][j])' = Stamp(sets[r][j])
    BY <1>1, <1>3 DEF Renews, Stamp
<1>4. /\ sets'[s][k].valid /\ sets'[s][k].tag = t
      /\ Stamp(sets[s][k])' = timestamp + 1
    BY DEF Renews
<1>5. \A j \in Ways : sets[s][j].valid => Stamp(sets[s][j]) <= timestamp
    BY DEF StampsApart, Valid
<1>6. \A i, j \in Ways : /\ sets[s][i].valid /\ sets[s][j].valid
                         /\ sets[s][i].tag = sets[s][j].tag
                         => i = j
    BY DEF CacheInv, NoDuplicates
<1>7. \A x : x \in others <=>
          \E j \in Ways : j # k /\ sets[s][j].valid /\ x = sets[s][j].tag
    BY DEF Others, Valid
<1>8. \A x : x \in Resident(s)' <=>
          \E j \in Ways : sets'[s][j].valid /\ x = sets'[s][j].tag
    BY <1>1 DEF Resident, Valid
<1>9. Resident(s)' = others \union {t}
  <2>1. ASSUME NEW x PROVE x \in Resident(s)' <=> x \in others \/ x = t
      BY <1>3, <1>4, <1>7, <1>8
  <2> QED BY <2>1
<1>10. \A x, y : <<x, y>> \in Before(s) <=>
          \E i, j \in Ways : /\ sets[s][i].valid /\ sets[s][j].valid
                             /\ x = sets[s][i].tag /\ y = sets[s][j].tag
                             /\ Stamp(sets[s][i]) < Stamp(sets[s][j])
    BY DEF Before, Resident, Valid
<1>11. \A x, y : <<x, y>> \in Before(s)' <=>
          \E i, j \in Ways : /\ sets'[s][i].valid /\ sets'[s][j].valid
                             /\ x = sets'[s][i].tag /\ y = sets'[s][j].tag
                             /\ Stamp(sets[s][i])' < Stamp(sets[s][j])'
    BY <1>1 DEF Before, Resident, Valid
<1>12. ASSUME NEW x, NEW y, <<x, y>> \in Before(s)'
       PROVE  x \in others /\ (y = t \/ (y \in others /\ <<x, y>> \in Before(s)))
  <2>1. PICK i \in Ways, j \in Ways :
            /\ sets'[s][i].valid /\ sets'[s][j].valid
            /\ x = sets'[s][i].tag /\ y = sets'[s][j].tag
            /\ Stamp(sets[s][i])' < Stamp(sets[s][j])'
      BY <1>11, <1>12
  <2>2. i # k
    <3> SUFFICES ASSUME i = k PROVE FALSE
        OBVIOUS
    <3>1. j # k
        BY <1>2, <1>4, <2>1
    <3>2. Stamp(sets[s][j])' <= timestamp /\ Stamp(sets[s][j])' \in Nat
        BY <1>2, <1>3, <1>5, <2>1, <3>1
    <3> QED BY <1>2, <1>4, <2>1, <3>2
  <2>3. /\ sets[s][i].valid /\ x = sets[s][i].tag
        /\ Stamp(sets[s][i])' = Stamp(sets[s][i])
      BY <1>3, <2>1, <2>2
  <2>4. x \in others
      BY <1>7, <2>2, <2>3
  <2>5. CASE j = k
      BY <1>4, <2>1, <2>4, <2>5
  <2>6. CASE j # k
    <3>1. /\ sets[s][j].valid /\ y = sets[s][j].tag
          /\ Stamp(sets[s][j])' = Stamp(sets[s][j])
        BY <1>3, <2>1, <2>6
    <3>2. y \in others
        BY <1>7, <2>6, <3>1
    <3>3. <<x, y>> \in Before(s)
        BY <1>10, <2>1, <2>3, <3>1
    <3> QED BY <2>4, <3>2, <3>3
  <2> QED BY <2>5, <2>6
<1>13. ASSUME NEW x \in others PROVE <<x, t>> \in Before(s)'
  <2>1. PICK j \in Ways : j # k /\ sets[s][j].valid /\ x = sets[s][j].tag
      BY <1>7
  <2>2. /\ sets'[s][j].valid /\ x = sets'[s][j].tag
        /\ Stamp(sets[s][j])' = Stamp(sets[s][j])
      BY <1>3, <2>1
  <2>3. Stamp(sets[s][j])' < Stamp(sets[s][k])'
      BY <1>2, <1>4, <1>5, <2>1, <2>2
  <2> QED BY <1>4, <1>11, <2>2, <2>3
<1>14. ASSUME NEW x \in others, NEW y \in others, <<x, y>> \in Before(s)
       PROVE  <<x, y>> \in Before(s)'
  <2>1. PICK i \in Ways, j \in Ways :
            /\ sets[s][i].valid /\ sets[s][j].valid
            /\ x = sets[s][i].tag /\ y = sets[s][j].tag
            /\ Stamp(sets[s][i]) < Stamp(sets[s][j])
      BY <1>10, <1>14
  <2>2. i # k /\ j # k
      BY <1>6, <1>7, <2>1
  <2>3. /\ sets'[s][i].valid /\ sets'[s][j].valid
        /\ x = sets'[s][i].tag /\ y = sets'[s][j].tag
        /\ Stamp(sets[s][i])' < Stamp(sets[s][j])'
      BY <1>3, <2>1, <2>2
  <2> QED BY <1>11, <2>3
<1>15. Before(s)' = (Before(s) \intersect (others \X others)) \union (others \X {t})
  <2>1. \A p \in Before(s)' : \E x, y : p = <<x, y>>
      BY DEF Before
  <2>2. \A p \in Before(s)' : p \in (Before(s) \intersect (others \X others))
                                   \union (others \X {t})
      BY <1>12, <2>1
  <2>3. ASSUME NEW p \in (Before(s) \intersect (others \X others)) \union (others \X {t})
        PROVE  p \in Before(s)'
    <3>1. CASE p \in Before(s) /\ p \in others \X others
      <4>1. PICK x \in others, y \in others : p = <<x, y>>
          BY <3>1
      <4> QED BY <1>14, <3>1, <4>1
    <3>2. CASE p \in others \X {t}
      <4>1. PICK x \in others : p = <<x, t>>
          BY <3>2
      <4> QED BY <1>13, <4>1
    <3> QED BY <3>1, <3>2
  <2> QED BY <2>2, <2>3
<1>16. ASSUME NEW r \in SetIndexes, r # s
       PROVE  Resident(r)' = Resident(r) /\ Before(r)' = Before(r)
  <2>1. \A j \in Ways : sets'[r][j] = sets[r][j]
      BY <1>16 DEF Renews
  <2>2. Valid(r)' = Valid(r)
      BY <1>1, <2>1 DEF Valid
  <2>3. Resident(r)' = Resident(r)
      BY <2>1, <2>2 DEF Resident, Valid
  <2>4. \A j \in Valid(r) : Stamp(sets[r][j])' = Stamp(sets[r][j])
      BY <1>3, <1>16 DEF Valid
  <2> QED BY <2>1, <2>2, <2>3, <2>4 DEF Before, Valid
<1> QED
    BY <1>9, <1>15, <1>16

LEMMA KeptQueue ==
    ASSUME KeepsStamps, UNCHANGED <<config, status>>
    PROVE  \A r \in SetIndexes : Resident(r)' = Resident(r) /\ Before(r)' = Before(r)
<1>1. Ways' = Ways
    BY DEF Ways
<1> SUFFICES ASSUME NEW r \in SetIndexes
             PROVE  Resident(r)' = Resident(r) /\ Before(r)' = Before(r)
    OBVIOUS
<1>2. \A j \in Ways : /\ sets'[r][j].valid = sets[r][j].valid
                      /\ sets'[r][j].tag = sets[r][j].tag
                      /\ Stamp(sets[r][j])' = Stamp(sets[r][j])
    BY DEF KeepsStamps
<1>3. Valid(r)' = Valid(r) /\ \A j \in Valid(r) : j \in Ways
    BY <1>1, <1>2 DEF Valid
<1>4. Resident(r)' = Resident(r)
    BY <1>2, <1>3 DEF Resident
<1> QED
    BY <1>2, <1>3, <1>4 DEF Before

\* There are as many blocks in a set as valid places.
LEMMA SetIsFull ==
    ASSUME CacheInv, status = "running", Ways # {}, NEW s \in SetIndexes
    PROVE  Cardinality(Resident(s)) < config.num_blocks <=> Empty(s) # {}
<1>1. config.num_blocks \in Nat /\ config.num_blocks > 0
    BY ConfigFacts DEF Ways
<1>2. IsFiniteSet(Ways) /\ Cardinality(Ways) = config.num_blocks
  <2>1. config.num_blocks - 1 \in Int /\ ~(0 > config.num_blocks - 1) /\ 0 \in Int
      BY <1>1
  <2>2. config.num_blocks - 1 - 0 + 1 = config.num_blocks
      BY <1>1
  <2> QED BY <2>1, <2>2, FS_Interval DEF Ways
<1>3. Valid(s) \subseteq Ways
    BY DEF Valid
<1>4. /\ IsFiniteSet(Valid(s)) /\ Cardinality(Valid(s)) <= config.num_blocks
      /\ Cardinality(Valid(s)) = config.num_blocks => Valid(s) = Ways
    BY <1>2, <1>3, FS_Subset
<1>5. Cardinality(Valid(s)) \in Nat
    BY <1>4, FS_CardinalityType
<1> DEFINE f == [i \in Valid(s) |-> sets[s][i].tag]
<1>6. f \in Surjection(Valid(s), Resident(s))
    BY DEF Surjection, Resident
<1>7. f \in Injection(Valid(s), Resident(s))
  <2>1. ASSUME NEW i \in Valid(s), NEW j \in Valid(s), f[i] = f[j] PROVE i = j
      BY <2>1 DEF Valid, CacheInv, NoDuplicates
  <2> QED BY <1>6, <2>1 DEF Injection, IsInjective, Surjection
<1> HIDE DEF f
<1>8. Cardinality(Resident(s)) = Cardinality(Valid(s))
    BY <1>4, <1>6, <1>7, FS_Surjection
<1>9. Valid(s) = Ways <=> Empty(s) = {}
    BY DEF Valid, Empty
<1>10. Cardinality(Valid(s)) < config.num_blocks <=> Valid(s) # Ways
    BY <1>1, <1>2, <1>4, <1>5
<1> QED
    BY <1>8, <1>9, <1>10

\* Of a full set, the block that leaves is the first of the queue.
LEMMA FirstIsEvicted ==
    ASSUME CacheInv, StampsApart, status = "running", NEW s \in SetIndexes,
           Empty(s) = {}, NEW k \in Ways, k = EvictIndex(s)
    PROVE  {t \in Resident(s) : \A u \in Resident(s) \ {t} : <<t, u>> \in Before(s)}
               = {sets[s][k].tag}
<1>1. \A j \in Ways : sets[s][j].valid
    BY DEF Empty
<1>2. \A j \in Ways : Stamp(sets[s][j]) \in Nat
    BY StampsAreNumbers
<1>3. \A i, j \in Ways : /\ sets[s][i].tag = sets[s][j].tag => i = j
                         /\ Stamp(sets[s][i]) = Stamp(sets[s][j]) => i = j
    BY <1>1 DEF CacheInv, NoDuplicates, StampsApart, Valid
<1>4. \A j \in Ways : j # k => Stamp(sets[s][k]) < Stamp(sets[s][j])
  <2>1. \A j \in Ways : Stamp(sets[s][k]) <= Stamp(sets[s][j])
      BY PlaceFacts
  <2> QED BY <1>2, <1>3, <2>1
<1>5. \A x : x \in Resident(s) <=> \E j \in Ways : x = sets[s][j].tag
    BY <1>1 DEF Resident, Valid
<1>6. \A x, y : <<x, y>> \in Before(s) <=>
          \E i, j \in Ways : /\ x = sets[s][i].tag /\ y = sets[s][j].tag
                             /\ Stamp(sets[s][i]) < Stamp(sets[s][j])
    BY <1>1 DEF Before, Resident, Valid
<1> DEFINE first == sets[s][k].tag
           IsFirst(t) == \A u \in Resident(s) \ {t} : <<t, u>> \in Before(s)
<1>7. first \in Resident(s)
    BY <1>5
<1>8. IsFirst(first)
  <2>1. ASSUME NEW u \in Resident(s) \ {first} PROVE <<first, u>> \in Before(s)
    <3>1. PICK j \in Ways : u = sets[s][j].tag
        BY <1>5
    <3>2. Stamp(sets[s][k]) < Stamp(sets[s][j])
        BY <1>4, <3>1
    <3> QED BY <1>6, <3>1, <3>2
  <2> QED BY <2>1
<1>9. ASSUME NEW t \in Resident(s), IsFirst(t), t # first PROVE FALSE
  <2>1. <<t, first>> \in Before(s)
      BY <1>7, <1>9
  <2>2. PICK i \in Ways, j \in Ways : /\ t = sets[s][i].tag /\ first = sets[s][j].tag
                                      /\ Stamp(sets[s][i]) < Stamp(sets[s][j])
      BY <1>6, <2>1
  <2>3. j = k /\ i # k
      BY <1>3, <1>9, <2>2
  <2> QED BY <1>2, <1>4, <2>2, <2>3
<1> QED
    BY <1>7, <1>8, <1>9
-----------------------------------------------------------------------------
(* Every access is a step of the queue                                     *)

LEMMA QuotientIsSmaller ==
    ASSUME NEW a \in Nat, NEW b \in Nat, b > 0
    PROVE  a \div b <= a
<1>1. a \div b \in Nat /\ a % b \in Nat /\ a = b * (a \div b) + (a % b)
    OBVIOUS
<1> DEFINE q == a \div b
<1>2. b * q >= q
  <2>1. q \in Nat
      BY <1>1
  <2> HIDE DEF q
  <2> QED BY <2>1
<1> QED
    BY <1>1, <1>2

\* ReplacementQueue counts like FiniteSets.
LEMMA CardinalityOfQueue ==
    ASSUME NEW S PROVE Replacement!Cardinality(S) = Cardinality(S)
BY DEF Cardinality, Replacement!Cardinality

LEMMA TagIsInRange ==
    ASSUME CacheInv, status = "running", NEW a \in Addresses
    PROVE  Tag(a) \in UNION {0 .. b : b \in Addresses}
<1>1. /\ config.num_sets \in Nat /\ config.num_sets > 0
      /\ config.block_size \in Nat /\ config.block_size > 0 /\ a \in Nat
    BY ConfigFacts, AddressesAssumption
<1>2. a \div config.block_size \in Nat /\ a \div config.block_size <= a
    BY <1>1, DivisionFacts, QuotientIsSmaller
<1>3. Tag(a) \in Nat /\ Tag(a) <= a \div config.block_size
    BY <1>1, <1>2, DivisionFacts, QuotientIsSmaller DEF Tag
<1>4. Tag(a) \in 0 .. a
    BY <1>1, <1>2, <1>3
<1> QED
    BY <1>4

\* What the queue of a set sees of a renewed stamp.
LEMMA RenewedJoins ==
    ASSUME CacheInv, status = "running", StampsApart, Tick = timestamp + 1,
           UNCHANGED <<config, status>>,
           NEW s \in SetIndexes, NEW k \in Ways, NEW t, Renews(s, k, t),
           NEW others, others = Others(s, k)
    PROVE  Replacement!Joins(s, others, t)
<1>1. SetIndexes' = SetIndexes
    BY DEF SetIndexes
<1>2. /\ Resident(s)' = others \union {t}
      /\ Before(s)' = (Before(s) \intersect (others \X others)) \union (others \X {t})
      /\ \A r \in SetIndexes : r # s => /\ Resident(r)' = Resident(r)
                                        /\ Before(r)' = Before(r)
    BY RenewedQueue
<1>3. [r \in SetIndexes |-> Resident(r)]' =
          [[r \in SetIndexes |-> Resident(r)] EXCEPT ![s] = others \union {t}]
    BY <1>1, <1>2
<1>4. [r \in SetIndexes |-> Before(r)]' =
          [[r \in SetIndexes |-> Before(r)] EXCEPT
              ![s] = (Before(s) \intersect (others \X others)) \union (others \X {t})]
    BY <1>1, <1>2
<1> QED
    BY <1>3, <1>4 DEF Replacement!Joins

LEMMA HitIsAStep ==
    ASSUME CacheInv, status = "running", StampsApart, Tick = timestamp + 1,
           UNCHANGED <<config, status>>, NEW a \in Addresses, Present(a),
           NEW d \in BOOLEAN, Touch(SetIndex(a), HitIndex(a), d)
    PROVE  Replacement!Next
<1>1. PICK s \in SetIndexes : s = SetIndex(a)
    BY AddressFacts
<1>2. PICK k \in Ways : /\ k = HitIndex(a)
                        /\ sets[s][k].valid /\ sets[s][k].tag = Tag(a)
    BY <1>1, HitFacts
<1>3. PICK t \in UNION {0 .. b : b \in Addresses} : t = Tag(a)
    BY TagIsInRange
<1>4. Touch(s, k, d) /\ latest' = <<s, t>>
    BY <1>1, <1>2, <1>3 DEF Touch, BlockIn
<1>5. t \in Resident(s)
    BY <1>2, <1>3 DEF Resident, Valid
<1>6. UNCHANGED <<config.num_blocks, config.lru_eviction>>
    OBVIOUS
<1>7. CASE config.lru_eviction
  <2>1. PICK others : others = Others(s, k)
      OBVIOUS
  <2>2. Replacement!Joins(s, others, t)
      BY <1>2, <1>3, <1>4, <1>7, <2>1, TouchRenews, RenewedJoins
  <2>3. others = Resident(s) \ {t}
      BY <1>2, <1>3, <2>1 DEF Others, Resident, Valid, CacheInv, NoDuplicates
  <2>4. Replacement!Hit(s, t)
      BY <1>4, <1>5, <1>6, <1>7, <2>2, <2>3 DEF Replacement!Hit
  <2> QED BY <1>3, <2>4 DEF Replacement!Next
<1>8. CASE ~config.lru_eviction
  <2>1. KeepsStamps
      BY <1>2, <1>4, <1>8, TouchRenews
  <2>2. \A r \in SetIndexes : Resident(r)' = Resident(r) /\ Before(r)' = Before(r)
      BY <2>1, KeptQueue
  <2>3. SetIndexes' = SetIndexes
      BY DEF SetIndexes
  <2>4. UNCHANGED <<[r \in SetIndexes |-> Resident(r)], [r \in SetIndexes |-> Before(r)]>>
      BY <2>2, <2>3
  <2>5. Replacement!Hit(s, t)
      BY <1>4, <1>5, <1>6, <1>8, <2>4 DEF Replacement!Hit
  <2> QED BY <1>3, <2>5 DEF Replacement!Next
<1> QED
    BY <1>7, <1>8

LEMMA MissIsAStep ==
    ASSUME CacheInv, status = "running", StampsApart, Tick = timestamp + 1,
           UNCHANGED <<config, status>>, NEW a \in Addresses, ~Present(a),
           NEW d \in BOOLEAN, Install(SetIndex(a), Tag(a), d)
    PROVE  Replacement!Next
<1>1. PICK s \in SetIndexes : s = SetIndex(a)
    BY AddressFacts
<1>2. PICK t \in UNION {0 .. b : b \in Addresses} : t = Tag(a)
    BY TagIsInRange
<1>3. Install(s, t, d) /\ latest' = <<s, t>> /\ t \in Nat
    BY <1>1, <1>2, AddressFacts DEF Install
<1>4. PICK k \in Ways : k = PlaceFor(s) /\ Renews(s, k, t)
    BY <1>3, InstallRenews
<1>5. PICK others : others = Others(s, k)
    OBVIOUS
<1>6. Replacement!Joins(s, others, t)
    BY <1>4, <1>5, RenewedJoins
<1>7. t \notin Resident(s)
    BY <1>1, <1>2 DEF Present, Holding, Resident, Valid
<1>8. others = Resident(s) \ Replacement!Leaving(s)
  <2> DEFINE R == [r \in SetIndexes |-> Resident(r)]
  <2>1. R[s] = Resident(s)
      OBVIOUS
  <2>2. Cardinality(R[s]) < config.num_blocks <=> Empty(s) # {}
      BY <2>1, SetIsFull, Zenon
  <2>3. Replacement!Leaving(s) = IF Cardinality(R[s]) < config.num_blocks
                                 THEN {} ELSE Replacement!First(s)
      BY CardinalityOfQueue DEF Replacement!Leaving
  <2> HIDE DEF R
  <2>4. CASE Empty(s) # {}
    <3>1. Replacement!Leaving(s) = {}
        BY <2>2, <2>4, <2>3
    <3>2. ~sets[s][k].valid
        BY <1>4, <2>4, PlaceFacts
    <3> QED BY <1>5, <3>1, <3>2 DEF Others, Resident, Valid
  <2>5. CASE Empty(s) = {}
    <3>1. k = EvictIndex(s) /\ sets[s][k].valid
        BY <1>4, <2>5, PlaceFacts DEF Empty
    <3>2. Replacement!First(s) = {sets[s][k].tag}
        BY <2>5, <3>1, FirstIsEvicted DEF Replacement!First
    <3>3. Replacement!Leaving(s) = {sets[s][k].tag}
        BY <2>2, <2>5, <2>3, <3>2
    <3> QED BY <1>5, <3>1, <3>3 DEF Others, Resident, Valid, CacheInv, NoDuplicates
  <2> QED BY <2>4, <2>5
<1>9. UNCHANGED <<config.num_blocks, config.lru_eviction>>
    OBVIOUS
<1>10. Replacement!Fetch(s, t)
    BY <1>3, <1>6, <1>7, <1>8, <1>9 DEF Replacement!Fetch
<1> QED
    BY <1>2, <1>10 DEF Replacement!Next

\* What ReadLine does to the totals, and to the stamps.
LEMMA ReadLineCounts ==
    ASSUME CacheInv, NEW a \in Addresses, ReadLine(a)
    PROVE  /\ status = "running" /\ UNCHANGED <<config, status>> /\ timestamp' = Tick
           /\ total_loads' + total_stores' = total_loads + total_stores + 1
<1>1. total_loads \in Nat /\ total_stores \in Nat
    BY DEF CacheInv, TypeOK
<1>2. /\ Load(a) => total_loads' = total_loads + 1 /\ total_stores' = total_stores
      /\ Store(a) => total_stores' = total_stores + 1 /\ total_loads' = total_loads
    BY DEF Load, Store
<1> QED
    BY <1>1, <1>2 DEF ReadLine

\* A load or a store touches a block, installs one, or goes around the cache.
LEMMA ReadLineCases ==
    ASSUME NEW a \in Addresses, CacheInv, ReadLine(a)
    PROVE  \/ /\ Present(a)
              /\ \E d \in BOOLEAN : Touch(SetIndex(a), HitIndex(a), d)
           \/ /\ ~Present(a)
              /\ \E d \in BOOLEAN : Install(SetIndex(a), Tag(a), d)
           \/ UNCHANGED <<sets, latest>>
<1>1. CASE Load(a)
    BY <1>1 DEF Load
<1>2. CASE Store(a)
  <2>1. (~config.write_through) \in BOOLEAN
      OBVIOUS
  <2> QED BY <1>2, <2>1 DEF Store, StoreHit, StoreAllocate, StoreAround
<1> QED
    BY <1>1, <1>2 DEF ReadLine

LEMMA StampsStayApart ==
    ASSUME CacheInv, StampsInv, NEW a \in Addresses, ReadLine(a), NotWrapped'
    PROVE  ClockCounts' /\ StampsApart'
<1>1. /\ status = "running" /\ UNCHANGED <<config, status>> /\ timestamp' = Tick
      /\ total_loads' + total_stores' = total_loads + total_stores + 1
    BY ReadLineCounts
<1>2. ClockCounts /\ StampsApart /\ Tick = timestamp + 1
    BY <1>1, TickCounts DEF NotWrapped
<1>3. ClockCounts'
    BY <1>1, <1>2 DEF ClockCounts
<1>4. SetIndex(a) \in SetIndexes /\ Tag(a) \in Nat
    BY <1>1, AddressFacts
<1>5. ASSUME Present(a), NEW d \in BOOLEAN, Touch(SetIndex(a), HitIndex(a), d)
      PROVE  StampsApart'
  <2>1. PICK s \in SetIndexes, k \in Ways :
            s = SetIndex(a) /\ k = HitIndex(a) /\ sets[s][k].valid
      BY <1>1, <1>4, <1>5, HitFacts
  <2>2. PICK t : t = sets[s][k].tag
      OBVIOUS
  <2>3. Renews(s, k, t) \/ KeepsStamps
      BY <1>1, <1>5, <2>1, <2>2, TouchRenews
  <2> QED BY <1>1, <1>2, <2>3, RenewedStamps, KeptStamps
<1>6. ASSUME ~Present(a), NEW d \in BOOLEAN, Install(SetIndex(a), Tag(a), d)
      PROVE  StampsApart'
  <2>1. PICK s \in SetIndexes, t \in Nat : s = SetIndex(a) /\ t = Tag(a)
      BY <1>4
  <2>2. PICK k \in Ways : Renews(s, k, t)
      BY <1>1, <1>6, <2>1, InstallRenews
  <2> QED BY <1>1, <1>2, <2>2, RenewedStamps
<1>7. ASSUME UNCHANGED <<sets, latest>> PROVE StampsApart'
  <2>1. KeepsStamps
      BY <1>1, <1>7 DEF KeepsStamps, Stamp
  <2> QED BY <1>1, <1>2, <2>1, KeptStamps
<1> QED
    BY <1>3, <1>5, <1>6, <1>7, ReadLineCases

\* Everything else leaves sets, clock and counters alone.
LEMMA QueueRests ==
    ASSUME EndOfTrace \/ ReadUndefined \/ UNCHANGED vars
    PROVE  /\ UNCHANGED <<config, sets, timestamp, counters, latest>>
           /\ SetIndexes' = SetIndexes
<1>1. UNCHANGED <<config, sets, timestamp, counters, latest>>
    BY DEF EndOfTrace, ReadUndefined, vars
<1>2. (status # "failed" /\ status' # "failed") \/ status' = status
    BY DEF EndOfTrace, ReadUndefined, vars
<1> QED
    BY <1>1, <1>2 DEF SetIndexes

LEMMA StampsStep == CacheInv /\ StampsInv /\ [Next]_vars => StampsInv'
<1> SUFFICES ASSUME CacheInv, StampsInv, [Next]_vars, NotWrapped'
             PROVE  ClockCounts' /\ StampsApart'
    BY DEF StampsInv
<1>1. ASSUME NEW a \in Addresses, ReadLine(a)
      PROVE  ClockCounts' /\ StampsApart'
    BY <1>1, StampsStayApart
<1>2. CASE EndOfTrace \/ ReadUndefined \/ UNCHANGED vars
  <2>1. UNCHANGED <<config, sets, timestamp, counters>> /\ SetIndexes' = SetIndexes
      BY <1>2, QueueRests
  <2>2. ClockCounts /\ StampsApart
      BY <2>1 DEF StampsInv, NotWrapped, counters
  <2>3. ClockCounts'
      BY <2>1, <2>2 DEF ClockCounts, counters
  <2>4. StampsApart'
      BY <2>1, <2>2 DEF StampsApart, Valid, Ways, Stamp
  <2> QED BY <2>3, <2>4
<1> QED
    BY <1>1, <1>2 DEF Next, Exited

\* At the start every queue is empty.
LEMMA QueueInit == Init => StampsInv /\ Replacement!Init
<1> SUFFICES ASSUME Init PROVE StampsInv /\ Replacement!Init
    OBVIOUS
<1>1. \A s \in SetIndexes : Valid(s) = {}
  <2>1. \A s \in SetIndexes, i \in Ways : ~sets[s][i].valid
      BY DEF Init, EmptyBlock
  <2> QED BY <2>1 DEF Valid
<1>2. \A s \in SetIndexes : Resident(s) = {} /\ Before(s) = {}
    BY <1>1 DEF Resident, Before
<1>3. StampsInv
    BY <1>1 DEF StampsInv, ClockCounts, StampsApart, Init
<1>4. config.num_blocks \in Nat /\ config.lru_eviction \in BOOLEAN
    BY ConfigurationsAssumption DEF Init, Arguments
<1>5. Replacement!Init
    BY <1>2, <1>4 DEF Replacement!Init, Init
<1> QED
    BY <1>3, <1>5

LEMMA QueueStep ==
    CacheInv /\ StampsInv /\ [Next]_vars
        => [NotWrapped' => Replacement!Next]_(Replacement!vars)
<1> SUFFICES ASSUME CacheInv, StampsInv, [Next]_vars
             PROVE  (NotWrapped' => Replacement!Next) \/ UNCHANGED Replacement!vars
    OBVIOUS
<1>1. ASSUME NEW a \in Addresses, ReadLine(a), NotWrapped'
      PROVE  Replacement!Next \/ UNCHANGED Replacement!vars
  <2>1. /\ status = "running" /\ UNCHANGED <<config, status>>
        /\ total_loads' + total_stores' = total_loads + total_stores + 1
      BY <1>1, ReadLineCounts
  <2>2. StampsApart /\ Tick = timestamp + 1
      BY <1>1, <2>1, TickCounts DEF NotWrapped
  <2>3. ASSUME UNCHANGED <<sets, latest>> PROVE UNCHANGED Replacement!vars
    <3>1. SetIndexes' = SetIndexes
        BY <2>1 DEF SetIndexes
    <3>2. \A s \in SetIndexes : Resident(s)' = Resident(s) /\ Before(s)' = Before(s)
        BY <2>1, <2>3 DEF Resident, Before, Valid, Ways, Stamp
    <3> QED BY <2>1, <2>3, <3>1, <3>2 DEF Replacement!vars
  <2> QED BY <1>1, <2>1, <2>2, <2>3, ReadLineCases, HitIsAStep, MissIsAStep
<1>2. CASE EndOfTrace \/ ReadUndefined \/ UNCHANGED vars
  <2>1. UNCHANGED <<config, sets, latest>> /\ SetIndexes' = SetIndexes
      BY <1>2, QueueRests
  <2>2. \A s \in SetIndexes : Resident(s)' = Resident(s) /\ Before(s)' = Before(s)
      BY <2>1 DEF Resident, Before, Valid, Ways, Stamp
  <2> QED BY <2>1, <2>2 DEF Replacement!vars
<1> QED
    BY <1>1, <1>2 DEF Next, Exited

\* Until the clock wraps, the cache evicts in the order that its policy promises,
\* for every geometry and trace and wherever blocks have their places
\* (main.cpp:122-132).
THEOREM EvictsInOrder == Spec => ImplementsQueue
<1>1. Init => StampsInv /\ Replacement!Init
    BY QueueInit
<1>2. CacheInv /\ StampsInv /\ [Next]_vars => StampsInv'
    BY StampsStep
<1>3. CacheInv /\ StampsInv /\ [Next]_vars
          => [NotWrapped' => Replacement!Next]_(Replacement!vars)
    BY QueueStep
<1> QED
    BY <1>1, <1>2, <1>3, CacheInvariant, PTL DEF Spec, ImplementsQueue

=============================================================================
