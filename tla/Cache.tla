-------------------------------- MODULE Cache --------------------------------
(***************************************************************************)
(* The cache simulator (csf_assign03/main.cpp): one cache that is read and *)
(* written by the lines of a trace.  Addresses stand for themselves; the   *)
(* shifts and masks that take them apart are division and remainder, as    *)
(* main only lets powers of two through.  Widths: AddressSize and          *)
(* TimestampSize are 2^32 in the program (uint32_t).  The counters are int *)
(* there and unbounded here, and no argument is negative.  A trace is at   *)
(* most MaxAccesses accesses long.                                         *)
(*                                                                         *)
(* A line of the trace without an operation (an empty one) leaves main's   *)
(* op and address uninitialized: the builds find the previous line's       *)
(* values in them and repeat the access.  Any access may follow any other  *)
(* here, the repeated one included.                                        *)
(***************************************************************************)
EXTENDS Naturals, FiniteSets, FiniteSetsExt

CONSTANTS Configurations, \* the command lines: records of the six arguments
          AddressSize,    \* an address is below this number
          Addresses,      \* the addresses a trace may use
          TimestampSize,  \* the timestamps wrap at this number
          MaxAccesses     \* bound on the length of a trace

VARIABLES config,         \* the command line
          status,         \* "running", "done", "failed" (rejected) or "undefined"
          sets,           \* sets[s][i]: block i of set s
          timestamp,
          load_hits, load_misses, store_hits, store_misses,
          total_loads, total_stores, total_cycles,
          unwritten,      \* history: memory blocks older than the cache's copy
          latest          \* history: the block hit or brought in last

counters == <<load_hits, load_misses, store_hits, store_misses,
              total_loads, total_stores, total_cycles>>
vars == <<config, status, sets, timestamp, counters, unwritten, latest>>

Arguments == [num_sets: Nat, num_blocks: Nat, block_size: Nat,
              write_allocate: BOOLEAN, write_through: BOOLEAN,
              lru_eviction: BOOLEAN]

ASSUME ConfigurationsAssumption == Configurations \subseteq Arguments
ASSUME AddressesAssumption == /\ AddressSize \in Nat
                              /\ Addresses \subseteq 0 .. AddressSize - 1
ASSUME TimestampAssumption == TimestampSize \in Nat \ {0}
ASSUME AccessesAssumption == MaxAccesses \in Nat
-----------------------------------------------------------------------------
(* Start: the arguments are validated and the cache is built.              *)

IsPowerOfTwo(x) == x > 0 /\ \E k \in 0 .. x : x = 2 ^ k

Rejected(c) == \/ ~IsPowerOfTwo(c.num_sets)
               \/ ~IsPowerOfTwo(c.block_size)
               \/ c.block_size < 4
               \/ ~c.write_allocate /\ ~c.write_through

EmptyBlock == [tag |-> 0, valid |-> FALSE, dirty |-> FALSE,
               load_ts |-> 0, access_ts |-> 0]

SetIndexes == IF status = "failed" THEN {} ELSE 0 .. config.num_sets - 1
Ways == 0 .. config.num_blocks - 1

Init == /\ config \in Configurations
        /\ status = IF Rejected(config) THEN "failed" ELSE "running"
        /\ sets = [s \in SetIndexes |-> [i \in Ways |-> EmptyBlock]]
        /\ timestamp = 0
        /\ load_hits = 0 /\ load_misses = 0 /\ total_loads = 0
        /\ store_hits = 0 /\ store_misses = 0 /\ total_stores = 0
        /\ total_cycles = 0
        /\ unwritten = {}
        /\ latest = <<>>
-----------------------------------------------------------------------------
(* Looking a block up, and choosing the place of a new one.                *)

\* The tag is found by a shift of log2(num_sets) + log2(block_size) places,
\* which is defined as long as it is less than the width of an address.
TagIsDefined == config.num_sets * config.block_size < AddressSize

Tag(address) == (address \div config.block_size) \div config.num_sets
SetIndex(address) == (address \div config.block_size) % config.num_sets

\* The memory block an address is in.
BlockOf(address) == <<SetIndex(address), Tag(address)>>
BlockIn(s, i) == <<s, sets[s][i].tag>>

\* Mutant: the search stops before the last block.
HoldingButLast(s, t) == {i \in Ways : /\ i + 1 < config.num_blocks
                                      /\ sets[s][i].valid
                                      /\ sets[s][i].tag = t}

Holding(s, t) == {i \in Ways : sets[s][i].valid /\ sets[s][i].tag = t}

Present(address) == Holding(SetIndex(address), Tag(address)) # {}
HitIndex(address) == Min(Holding(SetIndex(address), Tag(address)))

Empty(s) == {i \in Ways : ~sets[s][i].valid}

\* Mutant: the time of the load decides under LRU too.
LoadStamp(block) == block.load_ts

Stamp(block) == IF config.lru_eviction THEN block.access_ts
                                       ELSE block.load_ts

\* The first of the blocks with the smallest stamp.
EvictIndex(s) == Min({i \in Ways : \A j \in Ways :
                         Stamp(sets[s][i]) <= Stamp(sets[s][j])})

\* Where a missing block goes: the first empty place, or the evicted block's.
PlaceFor(s) == IF Empty(s) # {} THEN Min(Empty(s)) ELSE EvictIndex(s)

\* The memory blocks that bringing a block into set s writes back first.
WrittenBack(s) == IF Empty(s) = {} /\ sets[s][EvictIndex(s)].dirty
                  THEN {BlockIn(s, EvictIndex(s))} ELSE {}
-----------------------------------------------------------------------------
(* What an access does to the cache.                                       *)

Tick == (timestamp + 1) % TimestampSize

Touched(block, dirtied) ==
    [block EXCEPT !.access_ts = IF config.lru_eviction THEN Tick ELSE @,
                  !.dirty = @ \/ dirtied]

Touch(s, i, dirtied) ==
    /\ latest' = BlockIn(s, i)
    /\ sets' = [sets EXCEPT ![s][i] = Touched(@, dirtied)]

\* Mutant: the block keeps the evicted block's dirty bit.
InstallOver(s, t, dirtied) ==
    /\ Ways # {}
    /\ latest' = <<s, t>>
    /\ sets' = [sets EXCEPT ![s][PlaceFor(s)] =
                   [tag |-> t, valid |-> TRUE, dirty |-> @.dirty \/ dirtied,
                    load_ts |-> Tick, access_ts |-> Tick]]

\* The set has a place: main does not validate num_blocks.
Install(s, t, dirtied) ==
    /\ Ways # {}
    /\ latest' = <<s, t>>
    /\ sets' = [sets EXCEPT ![s][PlaceFor(s)] =
                   [tag |-> t, valid |-> TRUE, dirty |-> dirtied,
                    load_ts |-> Tick, access_ts |-> Tick]]

TransferCost == 25 * config.block_size

\* Bringing a block into set s: the write-back of a dirty one, and the fetch.
FetchCost(s) == TransferCost * (1 + Cardinality(WrittenBack(s)))

\* A store that the memory sees as well, or not.
StoreCost == IF config.write_through THEN 100 ELSE 0
Stored(stale, b) == IF config.write_through THEN stale \ {b}
                                            ELSE stale \union {b}
-----------------------------------------------------------------------------
(* Cache::load and Cache::store, called by main for one line of the trace. *)

Load(address) ==
    /\ total_loads' = total_loads + 1
    /\ \/ /\ Present(address)
          /\ load_hits' = load_hits + 1
          /\ Touch(SetIndex(address), HitIndex(address), FALSE)
          /\ total_cycles' = total_cycles + 1
          /\ UNCHANGED <<load_misses, unwritten>>
       \/ /\ ~Present(address)
          /\ load_misses' = load_misses + 1
          /\ Install(SetIndex(address), Tag(address), FALSE)
          /\ total_cycles' = total_cycles + FetchCost(SetIndex(address)) + 1
          /\ unwritten' = unwritten \ WrittenBack(SetIndex(address))
          /\ UNCHANGED load_hits
    /\ UNCHANGED <<store_hits, store_misses, total_stores>>

StoreHit(address) ==
    /\ Present(address)
    /\ store_hits' = store_hits + 1
    /\ Touch(SetIndex(address), HitIndex(address), ~config.write_through)
    /\ total_cycles' = total_cycles + 1 + StoreCost + 1
    /\ unwritten' = Stored(unwritten, BlockOf(address))
    /\ UNCHANGED store_misses

\* Mutant: a store that misses is not charged for the block it brings in.
FreeStoreAllocate(address) ==
    /\ ~Present(address) /\ config.write_allocate
    /\ store_misses' = store_misses + 1
    /\ Install(SetIndex(address), Tag(address), ~config.write_through)
    /\ total_cycles' = total_cycles + StoreCost + 1
    /\ unwritten' = Stored(unwritten \ WrittenBack(SetIndex(address)),
                           BlockOf(address))
    /\ UNCHANGED store_hits

StoreAllocate(address) ==
    /\ ~Present(address) /\ config.write_allocate
    /\ store_misses' = store_misses + 1
    /\ Install(SetIndex(address), Tag(address), ~config.write_through)
    /\ total_cycles' = total_cycles + FetchCost(SetIndex(address))
                                    + StoreCost + 1
    /\ unwritten' = Stored(unwritten \ WrittenBack(SetIndex(address)),
                           BlockOf(address))
    /\ UNCHANGED store_hits

StoreAround(address) ==
    /\ ~Present(address) /\ ~config.write_allocate
    /\ store_misses' = store_misses + 1
    /\ total_cycles' = total_cycles + 100 + 1
    /\ unwritten' = unwritten \ {BlockOf(address)}
    /\ UNCHANGED <<sets, store_hits, latest>>

Store(address) ==
    /\ total_stores' = total_stores + 1
    /\ StoreHit(address) \/ StoreAllocate(address) \/ StoreAround(address)
    /\ UNCHANGED <<load_hits, load_misses, total_loads>>

ReadLine(address) ==
    /\ status = "running"
    /\ total_loads + total_stores < MaxAccesses
    /\ TagIsDefined
    /\ timestamp' = Tick
    /\ Load(address) \/ Store(address)
    /\ UNCHANGED <<config, status>>

\* What follows is undefined: the shift is as wide as the address or wider, or
\* a miss takes the first of no blocks.
ReadUndefined ==
    /\ status = "running"
    /\ total_loads + total_stores < MaxAccesses
    /\ ~TagIsDefined \/ Ways = {}
    /\ status' = "undefined"
    /\ UNCHANGED <<config, sets, timestamp, counters, unwritten, latest>>

\* The trace ends: main prints the counters.
EndOfTrace == /\ status = "running"
              /\ status' = "done"
              /\ UNCHANGED <<config, sets, timestamp, counters, unwritten, latest>>

Exited == /\ status \in {"done", "failed", "undefined"}
          /\ UNCHANGED vars

Next == \/ \E address \in Addresses : ReadLine(address)
        \/ ReadUndefined
        \/ EndOfTrace
        \/ Exited

Spec == Init /\ [][Next]_vars
-----------------------------------------------------------------------------
Blocks == [tag: Nat, valid: BOOLEAN, dirty: BOOLEAN,
           load_ts: 0 .. TimestampSize - 1, access_ts: 0 .. TimestampSize - 1]

\* Every variable keeps its type (the members of Cache, main's counters).
TypeOK ==
    /\ config \in Configurations
    /\ status \in {"running", "done", "failed", "undefined"}
    /\ sets \in [SetIndexes -> [Ways -> Blocks]]
    /\ timestamp \in 0 .. TimestampSize - 1
    /\ {load_hits, load_misses, store_hits, store_misses,
        total_loads, total_stores, total_cycles} \subseteq Nat
    /\ unwritten \subseteq SetIndexes \X Nat
    /\ latest \in (SetIndexes \X Nat) \union {<<>>}

\* A memory block has at most one place in the cache: the search of load and
\* store misses only blocks that are in none (main.cpp:98-109, 192-202).
NoDuplicates ==
    \A s \in SetIndexes : \A i, j \in Ways :
        /\ sets[s][i].valid /\ sets[s][j].valid
        /\ sets[s][i].tag = sets[s][j].tag
        => i = j

Dirty == {p \in SetIndexes \X Ways : sets[p[1]][p[2]].dirty}

\* The dirty bits mark exactly the blocks whose last store the memory has not
\* seen: an evicted block takes no store with it, a clean one is not written
\* back, and with write-through nothing is ever dirty (main.cpp:136, 241).
DirtyIsUnwritten ==
    /\ \A p \in Dirty : sets[p[1]][p[2]].valid
    /\ {BlockIn(p[1], p[2]) : p \in Dirty} = unwritten

\* The inductive invariant: a cache that runs has passed main's validation, and
\* nothing is dirty in a write-through cache (else a store hit would leave behind
\* a dirty bit that no longer means anything).
Accepted == status # "failed" => ~Rejected(config)
ThroughStaysClean == config.write_through => Dirty = {}

CacheInv == /\ TypeOK
            /\ Accepted
            /\ NoDuplicates
            /\ DirtyIsUnwritten
            /\ ThroughStaysClean

\* The cycles that testing/expected_results has for all but the write-backs: one
\* for an access to the cache, 100 for a store that the memory sees, and the
\* transfer of each block brought in.
AccessCycles ==
    total_loads + store_hits + StoreCost * total_stores
    + (IF config.write_allocate THEN store_misses ELSE 0)
    + TransferCost * (load_misses
                      + IF config.write_allocate THEN store_misses ELSE 0)

\* The cycles are those of the accesses and of k write-backs, give or take one
\* for a store (main.cpp:209 and 273 may both count it).  Each write-back, like
\* each block still dirty, is due to a store of its own, and with write-through
\* there is none.
CyclesAreExplained ==
    /\ total_loads = load_hits + load_misses
    /\ total_stores = store_hits + store_misses
    /\ \E k \in 0 .. total_stores :
          /\ AccessCycles + TransferCost * k <= total_cycles
          /\ total_cycles <= AccessCycles + TransferCost * k + total_stores
          /\ k + Cardinality(Dirty) <= total_stores
          /\ config.write_through => k = 0

\* The blocks of a set, and which of them will be evicted before which.
Valid(s) == {i \in Ways : sets[s][i].valid}
Resident(s) == {sets[s][i].tag : i \in Valid(s)}
Before(s) == {p \in Resident(s) \X Resident(s) : \E i, j \in Valid(s) :
                  /\ p = <<sets[s][i].tag, sets[s][j].tag>>
                  /\ Stamp(sets[s][i]) < Stamp(sets[s][j])}

Replacement == INSTANCE ReplacementQueue
    WITH Tags <- UNION {0 .. a : a \in Addresses},
         capacity <- config.num_blocks, lru <- config.lru_eviction,
         resident <- [s \in SetIndexes |-> Resident(s)],
         before <- [s \in SetIndexes |-> Before(s)]

NotWrapped == total_loads + total_stores < TimestampSize

\* As long as the timestamps have not wrapped, the cache evicts in the order
\* its policy promises, whatever places the blocks have (main.cpp:122-132).
ImplementsQueue == /\ Replacement!Init
                   /\ [][NotWrapped' => Replacement!Next]_(Replacement!vars)
=============================================================================
