---------------------------- MODULE ParSort_proofs ----------------------------
(***************************************************************************)
(* Theorems about ParSort, for every file, threshold, word and fault.       *)
(***************************************************************************)
EXTENDS ParSort, TLAPS

(* Regions *)

LEMMA RegionFacts ==
    /\ Root \in Regions
    /\ \A r \in Regions : /\ r[1] \in Nat /\ r[2] \in Nat
                          /\ r[1] <= r[2] /\ r[2] <= Elements
    /\ \A q, r \in Regions : q[1] = r[1] /\ q[2] = r[2] => q = r
    /\ \A a, b \in 0..Elements : a <= b => <<a, b>> \in Regions
  BY SortAssumption DEF Regions, Root

LEMMA SpanFacts ==
    ASSUME NEW r \in Regions
    PROVE  /\ Span(r) \subseteq Index
           /\ \A i : i \in Span(r) <=> i \in Int /\ r[1] <= i /\ i < r[2]
  BY RegionFacts, SortAssumption DEF Span, Index

LEMMA IntFacts ==
    ASSUME TreeInv
    PROVE  /\ \A i \in Index : arr[i] \in Int
           /\ \A r \in Regions : pivot_val[r] \in Int
<1>1. Values \subseteq Int
    BY SortAssumption
<1>2. arr \in [Index -> Values] /\ pivot_val \in [Regions -> Values \cup {0}]
    BY DEF TreeInv, TypeOK
<1>3. Values \cup {0} \subseteq Int
    BY <1>1
<1> QED BY <1>1, <1>2, <1>3

\* The parts on the two sides of a pivot are inside their region, and apart.
LEMMA ChildFacts ==
    ASSUME NEW r \in Regions, left_index[r] \in Span(r), NEW side \in {"left", "right"}
    PROVE  /\ Child(r, side) \in Regions
           /\ Inside(Child(r, side), r)
           /\ Child(r, side)[2] - Child(r, side)[1] < Length(r)
           /\ Child(r, "left")[2] < Child(r, "right")[1]
  BY RegionFacts, SortAssumption DEF Child, Inside, Span, Length, Regions

-----------------------------------------------------------------------------
(* Steps of one process *)

\* A step of r leaves the other processes alone, ...
Others(r) ==
    \A q \in Regions \ {r} :
        /\ pc'[q] = pc[q] /\ store'[q] = store[q] /\ status'[q] = status[q]
        /\ left_index'[q] = left_index[q] /\ right_index'[q] = right_index[q]
        /\ pivot_val'[q] = pivot_val[q]
        /\ forked'[q] = forked[q] /\ success'[q] = success[q]

\* ... writes in its region only, and only while it sorts.
WritesInside(r) ==
    /\ \A i \in Index \ Span(r) : arr'[i] = arr[i]
    /\ pc[r] \notin Writing => arr' = arr

LEMMA SideFacts ==
    ASSUME TreeInv, NEW r \in Regions, NEW side \in forked[r]
    PROVE  /\ side \in {"left", "right"}
           /\ left_index[r] \in Span(r)
           /\ Child(r, side) \in Regions /\ Inside(Child(r, side), r)
           /\ Child(r, side)[2] - Child(r, side)[1] < Length(r)
<1>1. side \in {"left", "right"} /\ left_index[r] \in Span(r)
    BY DEF TreeInv, TypeOK, IndexesInside
<1> QED BY <1>1, ChildFacts

\* Of two processes whose regions meet, one has forked.
LEMMA WritersAreApart ==
    ASSUME TreeInv, NEW q \in Regions, NEW r \in Regions, q # r,
           pc[q] \in Writing, pc[r] \in Writing
    PROVE  Span(q) \cap Span(r) = {}
<1>1. forked[q] = {} /\ forked[r] = {}
    BY DEF TreeInv, InOrder, Writing
<1>2. Apart(q, r)
    BY <1>1 DEF TreeInv, Laminar, Under, Writing
<1> QED BY <1>2, RegionFacts DEF Apart, Span

\* A process inside another's region, alive, is a descendant.
LEMMA InsideIsUnder ==
    ASSUME TreeInv, NEW q \in Regions, NEW r \in Regions, q # r,
           pc[q] # "none", pc[r] # "none", Inside(q, r)
    PROVE  Under(q, r)
<1>1. ~Apart(q, r)
    BY RegionFacts DEF Inside, Apart
<1>2. ASSUME Under(r, q)
      PROVE  FALSE
  <2>1. PICK side \in forked[q] : Inside(r, Child(q, side))
    BY <1>2 DEF Under
  <2>2. /\ Child(q, side) \in Regions
        /\ Child(q, side)[2] - Child(q, side)[1] < Length(q)
    BY SideFacts
  <2> QED BY <2>1, <2>2, RegionFacts DEF Inside, Length
<1> QED BY <1>1, <1>2 DEF TreeInv, Laminar

\* The element that makes the next access a crash is not changed by others.
LEMMA WrappedKept ==
    ASSUME TreeInv, NEW r \in Regions, Others(r), WritesInside(r), NEW q \in Regions \ {r}
    PROVE  Wrapped(q) => Wrapped(q)'
<1> SUFFICES ASSUME Wrapped(q)
             PROVE  Wrapped(q)'
    OBVIOUS
<1>1. IndexesInside(q)
    BY DEF TreeInv
<1>2. 0 \in Span(q)
    BY <1>1, RegionFacts DEF Wrapped, IndexesInside, Resumes, Length, Span
<1>3. arr'[0] = arr[0]
  <2>1. 0 \in Index
    BY <1>2, SpanFacts
  <2>2. CASE pc[r] \in Writing
    <3>1. pc[q] \in Writing
      BY DEF Wrapped, Writing
    <3>2. 0 \notin Span(r)
      BY <1>2, <2>2, <3>1, WritersAreApart
    <3> QED BY <2>1, <3>2 DEF WritesInside
  <2>3. CASE pc[r] \notin Writing
    BY <2>3 DEF WritesInside
  <2> QED BY <2>2, <2>3
<1>4. /\ pc'[q] = pc[q] /\ left_index'[q] = left_index[q]
      /\ right_index'[q] = right_index[q] /\ pivot_val'[q] = pivot_val[q]
    BY DEF Others
<1> QED BY <1>3, <1>4 DEF Wrapped

LEMMA OthersKept ==
    ASSUME TreeInv, NEW r \in Regions, Others(r), WritesInside(r),
           pc[r] \notin {"none", "ended"}, reaped \subseteq reaped',
           NEW q \in Regions \ {r}
    PROVE  IndexesInside(q)' /\ InOrder(q)' /\ NotedSuccess(q)'
<1>1. /\ pc'[q] = pc[q] /\ store'[q] = store[q] /\ status'[q] = status[q]
      /\ left_index'[q] = left_index[q] /\ right_index'[q] = right_index[q]
      /\ pivot_val'[q] = pivot_val[q]
      /\ forked'[q] = forked[q] /\ success'[q] = success[q]
    BY DEF Others
<1>2. IndexesInside(q) /\ InOrder(q) /\ NotedSuccess(q)
    BY DEF TreeInv
<1>3. Wrapped(q) => Wrapped(q)'
    BY WrappedKept
<1>4. IndexesInside(q)'
    BY <1>1, <1>2, <1>3 DEF IndexesInside, Resumes, Length, Span
<1>5. \A side : Child(q, side)' = Child(q, side)
    BY <1>1 DEF Child
<1>6. Children(q)' = Children(q)
    BY <1>1, <1>5 DEF Children
<1>7. InOrder(q)'
    BY <1>1, <1>2, <1>5, <1>6 DEF InOrder
<1>8. \A s \in Children(q) : status[s] = "0" => status'[s] = "0"
  <2> SUFFICES ASSUME NEW s \in Children(q), status[s] = "0"
               PROVE  status'[s] = "0"
      OBVIOUS
  <2>1. s \in Regions
    BY SideFacts DEF Children
  <2>2. pc[s] = "ended"
    BY <2>1 DEF TreeInv, InOrder
  <2> QED BY <2>1, <2>2 DEF Others
<1>9. NotedSuccess(q)'
    BY <1>1, <1>2, <1>5, <1>6, <1>8 DEF NotedSuccess
<1> QED BY <1>4, <1>7, <1>9

LEMMA LaminarKept ==
    ASSUME TreeInv, NEW r \in Regions, Others(r),
           pc[r] # "none", pc'[r] # "none", forked'[r] = forked[r],
           forked[r] # {} => left_index'[r] = left_index[r]
    PROVE  Laminar'
<1>1. \A q \in Regions : /\ pc'[q] # "none" <=> pc[q] # "none"
                         /\ forked'[q] = forked[q]
                         /\ forked[q] # {} => left_index'[q] = left_index[q]
    BY DEF Others
<1>2. \A p, q \in Regions : Under(p, q) => Under(p, q)'
    BY <1>1 DEF Under, Child, Inside
<1> QED BY <1>1, <1>2 DEF TreeInv, Laminar, Apart

LEMMA SuccessOfAllKept ==
    ASSUME TreeInv, NEW r \in Regions, Others(r),
           pc[r] \notin {"none", "ended"}, pc'[r] # "none",
           status'[r] = "0" => \A q \in Regions \ {r} :
                                  pc[q] # "none" /\ Inside(q, r) => status[q] = "0"
    PROVE  SuccessOfAll'
<1>1. status[r] = "running"
    BY DEF TreeInv, InOrder
<1> SUFFICES ASSUME NEW q \in Regions, NEW s \in Regions,
                    status'[s] = "0", pc'[q] # "none", Inside(q, s)
             PROVE  status'[q] = "0"
    BY DEF SuccessOfAll, Inside
<1>2. CASE s = r
    BY <1>2 DEF Others
<1>3. CASE s # r
  <2>1. status[s] = "0"
    BY <1>3 DEF Others
  <2>2. q # r
    BY <1>1, <2>1 DEF TreeInv, SuccessOfAll
  <2>3. pc[q] # "none" /\ status'[q] = status[q]
    BY <2>2 DEF Others
  <2> QED BY <2>1, <2>3 DEF TreeInv, SuccessOfAll
<1> QED BY <1>2, <1>3

\* A step that forks no process keeps TreeInv if it keeps what concerns its own process.
LEMMA OwnStep ==
    ASSUME TreeInv, NEW r \in Regions, Others(r), WritesInside(r),
           pc[r] \notin {"none", "ended"}, pc'[r] # "none", forked'[r] = forked[r],
           forked[r] # {} => left_index'[r] = left_index[r],
           reaped \subseteq reaped', \A q \in reaped' : pc'[q] = "ended",
           status'[r] = "0" => \A q \in Regions \ {r} :
                                  pc[q] # "none" /\ Inside(q, r) => status[q] = "0",
           TypeOK', IndexesInside(r)', InOrder(r)', NotedSuccess(r)'
    PROVE  TreeInv'
<1>1. Laminar'
    BY LaminarKept
<1>2. SuccessOfAll'
    BY SuccessOfAllKept
<1>3. \A q \in Regions : IndexesInside(q)' /\ InOrder(q)' /\ NotedSuccess(q)'
    BY OthersKept
<1> QED BY <1>1, <1>2, <1>3 DEF TreeInv

-----------------------------------------------------------------------------
(* Every step keeps TreeInv *)

\* The labels of a process before it forks.
Early == {"open", "fstat", "mmap", "quicksort", "qsort", "scan", "swap", "fork_left"}

LEMMA EarlyFacts ==
    ASSUME TreeInv, NEW r \in Regions, pc[r] \in Early
    PROVE  /\ forked[r] = {} /\ success[r] = {} /\ status[r] = "running"
           /\ r \notin reaped
           /\ \A q \in Regions \ {r} : ~(pc[q] # "none" /\ Inside(q, r))
<1>1. forked[r] = {} /\ success[r] = {} /\ status[r] = "running" /\ r \notin reaped
    BY DEF TreeInv, TypeOK, InOrder, NotedSuccess, Early
<1> QED BY <1>1, InsideIsUnder DEF Under, Early

\* Before it forks, a process cannot go wrong but in partition, and in its end.
LEMMA EarlyStep ==
    ASSUME TreeInv, NEW r \in Regions, pc[r] \in Early, Others(r), WritesInside(r), TypeOK',
           \/ pc'[r] \in Early /\ status'[r] = status[r]
           \/ pc'[r] \in {"fork_right", "ended"},
           pc'[r] # "ended" => status'[r] = status[r],
           UNCHANGED <<forked, reaped, success>>, IndexesInside(r)'
    PROVE  TreeInv'
<1>1. InOrder(r)' /\ NotedSuccess(r)'
    BY EarlyFacts DEF InOrder, NotedSuccess, Early, Children
<1>2. \A q \in reaped' : pc'[q] = "ended"
  <2> SUFFICES ASSUME NEW q \in reaped
               PROVE  pc'[q] = "ended"
      OBVIOUS
  <2>1. q \in Regions \ {r} /\ pc[q] = "ended"
    BY EarlyFacts DEF TreeInv, TypeOK
  <2> QED BY <2>1 DEF Others
<1>3. pc[r] \notin {"none", "ended"} /\ pc'[r] # "none"
    BY DEF Early
<1> QED BY <1>1, <1>2, <1>3, EarlyFacts, OwnStep

LEMMA CallStep ==
    ASSUME TreeInv, OpenFile \/ FindSize \/ MapFile
    PROVE  TreeInv'
<1>1. /\ pc[Root] \in {"open", "fstat", "mmap"}
      /\ \/ /\ \E next \in {"fstat", "mmap", "quicksort"} : Goto(Root, next)
            /\ UNCHANGED status
         \/ End(Root, "1")
      /\ UNCHANGED <<arr, arguments, locals, store, forked, reaped, success>>
    BY DEF OpenFile, FindSize, MapFile, Call, TreeFrame
<1>2. Others(Root) /\ WritesInside(Root)
    BY <1>1 DEF Others, WritesInside, Goto, End, TreeInv, TypeOK, locals
<1>3. TypeOK'
    BY <1>1 DEF Goto, End, TreeInv, TypeOK, locals, arguments, Places
<1>4. /\ pc'[Root] \in {"fstat", "mmap", "quicksort", "ended"}
      /\ pc'[Root] # "ended" => status'[Root] = status[Root]
    BY <1>1, RegionFacts DEF Goto, End, TreeInv, TypeOK
<1>5. forked[Root] = {}
    BY <1>1, RegionFacts, EarlyFacts DEF Early
<1>6. IndexesInside(Root)'
    BY <1>1, <1>4, <1>5 DEF IndexesInside, Resumes, Forking
<1> QED BY <1>1, <1>2, <1>3, <1>4, <1>6, RegionFacts, EarlyStep DEF Early

\* Ends, and the way into qsort.
LEMMA SmallStep ==
    ASSUME TreeInv, NEW r \in Regions, SortNothing(r) \/ CallQsort(r) \/ ReadOutside(r)
    PROVE  TreeInv'
<1>1. /\ pc[r] \in {"quicksort", "scan"}
      /\ \/ Goto(r, "qsort") /\ UNCHANGED status
         \/ End(r, "0") \/ End(r, "crashed")
      /\ UNCHANGED <<arr, arguments, locals, store, forked, reaped, success>>
    BY DEF SortNothing, CallQsort, ReadOutside, Scanning, TreeFrame
<1>2. Others(r) /\ WritesInside(r)
    BY <1>1 DEF Others, WritesInside, Goto, End, TreeInv, TypeOK, locals
<1>3. TypeOK'
    BY <1>1 DEF Goto, End, TreeInv, TypeOK, locals, arguments, Places
<1>4. /\ pc'[r] \in {"qsort", "ended"}
      /\ pc'[r] # "ended" => status'[r] = status[r]
    BY <1>1 DEF Goto, End, TreeInv, TypeOK
<1>5. forked[r] = {}
    BY <1>1, EarlyFacts DEF Early
<1>6. IndexesInside(r)'
    BY <1>1, <1>4, <1>5 DEF IndexesInside, Resumes, Forking
<1> QED BY <1>1, <1>2, <1>3, <1>4, <1>6, EarlyStep DEF Early

LEMMA RearrangedFacts ==
    ASSUME TreeInv, NEW r \in Regions, NEW p \in [Span(r) -> Span(r)]
    PROVE  /\ Rearranged(r, p) \in [Index -> Values]
           /\ \A i \in Index \ Span(r) : Rearranged(r, p)[i] = arr[i]
           /\ \A i \in Span(r) : Rearranged(r, p)[i] = arr[p[i]]
<1>1. arr \in [Index -> Values] /\ Span(r) \subseteq Index
    BY SpanFacts DEF TreeInv, TypeOK
<1>2. \A i \in Index : (IF i \in Span(r) THEN arr[p[i]] ELSE arr[i]) \in Values
    BY <1>1
<1> QED BY <1>1, <1>2 DEF Rearranged

LEMMA QsortStep ==
    ASSUME TreeInv, NEW r \in Regions, Qsort(r)
    PROVE  TreeInv'
<1>1. PICK p \in Bijection(Span(r), Span(r)) : arr' = Rearranged(r, p)
    BY DEF Qsort
<1>2. p \in [Span(r) -> Span(r)]
    BY DEF Bijection, Injection
<1>3. /\ pc[r] = "qsort" /\ End(r, "0")
      /\ UNCHANGED <<arguments, locals, store, forked, reaped, success>>
    BY DEF Qsort, TreeFrame
<1>4. WritesInside(r)
    BY <1>1, <1>2, <1>3, RearrangedFacts DEF WritesInside, Writing
<1>5. arr' \in [Index -> Values]
    BY <1>1, <1>2, RearrangedFacts
<1>6. Others(r)
    BY <1>3 DEF Others, End, Goto, TreeInv, TypeOK, locals
<1>7. TypeOK'
    BY <1>3, <1>5 DEF End, Goto, TreeInv, TypeOK, locals, arguments, Places
<1>8. pc'[r] = "ended"
    BY <1>3 DEF End, Goto, TreeInv, TypeOK
<1>9. forked[r] = {}
    BY <1>3, EarlyFacts DEF Early
<1>10. IndexesInside(r)'
    BY <1>3, <1>8, <1>9 DEF IndexesInside, Resumes, Forking
<1> QED BY <1>3, <1>4, <1>6, <1>7, <1>8, <1>10, EarlyStep DEF Early

\* A swap of two elements of the region, whose first store is made.
LEMMA SwapFacts ==
    ASSUME TreeInv, NEW r \in Regions, NEW i \in Span(r), NEW j \in Span(r),
           NEW next \in {"scan", "fork_left"}, pc[r] \in Writing, Swap(r, i, j, next)
    PROVE  /\ WritesInside(r) /\ arr' \in [Index -> Values]
           /\ pc'[r] = "swap" /\ pc' \in [Regions -> Places]
           /\ store'[r].at = j /\ store'[r].value = arr[i] /\ store'[r].next = next
           /\ store' \in [Regions -> [at : Index, value : Values \cup {0}, next : Places]]
           /\ \A q \in Regions \ {r} : pc'[q] = pc[q] /\ store'[q] = store[q]
<1>1. /\ arr \in [Index -> Values] /\ i \in Index /\ j \in Index
      /\ pc \in [Regions -> Places]
      /\ store \in [Regions -> [at : Index, value : Values \cup {0}, next : Places]]
    BY SpanFacts DEF TreeInv, TypeOK
<1>2. /\ arr' = [arr EXCEPT ![i] = arr[j]]
      /\ store' = [store EXCEPT ![r] = [at |-> j, value |-> arr[i], next |-> next]]
      /\ pc' = [pc EXCEPT ![r] = "swap"]
    BY DEF Swap, Goto
<1>3. arr' \in [Index -> Values] /\ \A k \in Index \ {i} : arr'[k] = arr[k]
    BY <1>1, <1>2
<1>4. WritesInside(r)
    BY <1>3 DEF WritesInside
<1>5. pc' \in [Regions -> Places] /\ pc'[r] = "swap"
    BY <1>1, <1>2 DEF Places
<1>6. [at |-> j, value |-> arr[i], next |-> next]
            \in [at : Index, value : Values \cup {0}, next : Places]
    BY <1>1 DEF Places
<1>7. store' \in [Regions -> [at : Index, value : Values \cup {0}, next : Places]]
    BY <1>1, <1>2, <1>6
<1>8. store'[r] = [at |-> j, value |-> arr[i], next |-> next]
    BY <1>1, <1>2
<1>9. \A q \in Regions \ {r} : pc'[q] = pc[q] /\ store'[q] = store[q]
    BY <1>1, <1>2
<1> QED BY <1>3, <1>4, <1>5, <1>7, <1>8, <1>9

LEMMA ChoosePivotStep ==
    ASSUME TreeInv, NEW r \in Regions, ChoosePivot(r)
    PROVE  TreeInv'
<1> DEFINE middle == r[1] + Length(r) \div 2
<1>1. /\ pc[r] = "quicksort" /\ Length(r) >= 2
      /\ pivot_val' = [pivot_val EXCEPT ![r] = arr[middle]]
      /\ Swap(r, middle, r[2] - 1, "scan")
      /\ left_index' = [left_index EXCEPT ![r] = r[1]]
      /\ right_index' = [right_index EXCEPT ![r] = r[1] + (Length(r) - 2)]
      /\ UNCHANGED <<arguments, forked, reaped, success, status>>
    BY DEF ChoosePivot, TreeFrame
<1>2. /\ r[1] \in Nat /\ r[2] \in Nat /\ r[2] <= Elements /\ r[1] + 2 <= r[2]
      /\ r[1] + (Length(r) - 2) = r[2] - 2
    BY <1>1, RegionFacts DEF Length
<1>3. middle \in Span(r) /\ r[2] - 1 \in Span(r)
    BY <1>2, SpanFacts DEF Length
<1> HIDE DEF middle
<1>4. /\ WritesInside(r) /\ arr' \in [Index -> Values]
      /\ pc'[r] = "swap" /\ pc' \in [Regions -> Places]
      /\ store'[r].at = r[2] - 1 /\ store'[r].value = arr[middle] /\ store'[r].next = "scan"
      /\ store' \in [Regions -> [at : Index, value : Values \cup {0}, next : Places]]
      /\ \A q \in Regions \ {r} : pc'[q] = pc[q] /\ store'[q] = store[q]
    BY <1>1, <1>3, SwapFacts DEF Writing
<1>5. arr[middle] \in Values
    BY <1>3, SpanFacts DEF TreeInv, TypeOK
<1>6. Others(r)
    BY <1>1, <1>4 DEF Others, TreeInv, TypeOK
<1>7. /\ left_index' \in [Regions -> 0..Elements] /\ left_index'[r] = r[1]
    BY <1>1, <1>2, SortAssumption DEF TreeInv, TypeOK
<1>8. /\ right_index' \in [Regions -> 0..WordSize - 1] /\ right_index'[r] = r[2] - 2
    BY <1>1, <1>2, SortAssumption DEF TreeInv, TypeOK
<1>9. /\ pivot_val' \in [Regions -> Values \cup {0}]
    BY <1>1, <1>5 DEF TreeInv, TypeOK
<1>10. TypeOK'
    BY <1>1, <1>4, <1>7, <1>8, <1>9 DEF TreeInv, TypeOK, arguments
<1>11. forked'[r] = {}
    BY <1>1, EarlyFacts DEF Early
<1>12. IndexesInside(r)'
    BY <1>1, <1>2, <1>3, <1>4, <1>5, <1>7, <1>8, <1>11 DEF IndexesInside, Resumes, Forking, Length
<1> QED BY <1>1, <1>4, <1>6, <1>10, <1>12, EarlyStep DEF Early

\* What is known of the indices while partition scans.
LEMMA ScanFacts ==
    ASSUME TreeInv, NEW r \in Regions, Resumes(r) = "scan", pc[r] \in Places
    PROVE  /\ Length(r) >= 2 /\ forked[r] = {}
           /\ r[1] \in Nat /\ r[2] \in Nat /\ r[2] <= Elements /\ r[1] + 2 <= r[2]
           /\ left_index[r] \in Nat /\ r[1] <= left_index[r] /\ left_index[r] <= r[2] - 1
           /\ right_index[r] \in Nat /\ right_index[r] < WordSize
           /\ right_index[r] \in Index /\ left_index[r] <= right_index[r] =>
                 right_index[r] <= r[2] - 2
           /\ ~(right_index[r] <= r[2] - 2 /\ left_index[r] <= right_index[r] + 1) =>
                 /\ Wrapped(r) /\ r[1] = 0 /\ left_index[r] = 0
                 /\ right_index[r] = WordSize - 1
                 /\ arr[0] >= pivot_val[r]
<1>1. r[1] \in Nat /\ r[2] \in Nat /\ r[2] <= Elements
    BY RegionFacts
<1>2. left_index[r] \in Nat /\ right_index[r] \in Nat /\ right_index[r] < WordSize
    BY SortAssumption DEF TreeInv, TypeOK
<1>3. /\ Length(r) >= 2 /\ r[1] <= left_index[r]
      /\ \/ right_index[r] <= r[2] - 2 /\ left_index[r] <= right_index[r] + 1
         \/ Wrapped(r)
    BY DEF TreeInv, IndexesInside
<1>4. forked[r] = {}
    BY DEF TreeInv, InOrder, IndexesInside, Resumes
<1>5. Wrapped(r) => /\ r[1] = 0 /\ left_index[r] = 0
                    /\ right_index[r] = WordSize - 1
                    /\ arr[0] >= pivot_val[r]
                    /\ right_index[r] \notin Index
    BY SortAssumption DEF Wrapped, Index
<1>6. r[1] + 2 <= r[2]
    BY <1>1, <1>3 DEF Length
<1> QED BY <1>1, <1>2, <1>3, <1>4, <1>5, <1>6

LEMMA ExtendLeftStep ==
    ASSUME TreeInv, NEW r \in Regions, ExtendLeft(r)
    PROVE  TreeInv'
<1>1. /\ pc[r] = "scan" /\ left_index[r] <= right_index[r]
      /\ arr[left_index[r]] < pivot_val[r]
      /\ left_index' = [left_index EXCEPT ![r] = left_index[r] + 1]
      /\ UNCHANGED <<arr, pc, right_index, pivot_val, store, status>>
      /\ UNCHANGED <<arguments, forked, reaped, success>>
    BY DEF ExtendLeft, Scanning, TreeFrame
<1>2. Resumes(r) = "scan" /\ pc[r] \in Places
    BY <1>1 DEF Resumes, Places
<1>3. right_index[r] <= r[2] - 2
  <2>1. CASE Wrapped(r)
    <3>1. left_index[r] = 0 /\ arr[0] >= pivot_val[r]
      BY <2>1 DEF Wrapped
    <3>2. arr[0] < pivot_val[r]
      BY <1>1, <3>1
    <3>3. arr[0] \in Int /\ pivot_val[r] \in Int
      BY IntFacts, SortAssumption DEF Index
    <3> QED BY <3>1, <3>2, <3>3
  <2>2. CASE ~Wrapped(r)
    BY <1>2, <2>2, ScanFacts
  <2> QED BY <2>1, <2>2
<1>4. /\ left_index'[r] = left_index[r] + 1
      /\ left_index' \in [Regions -> 0..Elements]
  <2>1. left_index[r] + 1 \in 0..Elements
    BY <1>1, <1>2, <1>3, ScanFacts, SortAssumption
  <2> QED BY <1>1, <2>1 DEF TreeInv, TypeOK
<1>5. Others(r) /\ WritesInside(r)
    BY <1>1 DEF Others, WritesInside, TreeInv, TypeOK
<1>6. TypeOK'
    BY <1>1, <1>4 DEF TreeInv, TypeOK, arguments
<1>7. IndexesInside(r)'
    BY <1>1, <1>2, <1>3, <1>4, ScanFacts DEF IndexesInside, Resumes, Forking, Length
<1> QED BY <1>1, <1>5, <1>6, <1>7, EarlyStep DEF Early

LEMMA BelowFacts ==
    ASSUME NEW i \in Nat, i < WordSize
    PROVE  IF i = 0 THEN Below(i) = WordSize - 1 ELSE Below(i) = i - 1
<1>1. CASE i = 0
  <2>1. (WordSize - 1) % WordSize = WordSize - 1
    BY SortAssumption
  <2> QED BY <1>1, <2>1, SortAssumption DEF Below
<1>2. CASE i # 0
  <2>1. (i - 1 + WordSize) % WordSize = i - 1
    BY <1>2, SortAssumption
  <2> QED BY <1>2, <2>1, SortAssumption DEF Below
<1> QED BY <1>1, <1>2

LEMMA ExtendRightStep ==
    ASSUME TreeInv, NEW r \in Regions, ExtendRight(r)
    PROVE  TreeInv'
<1>1. /\ pc[r] = "scan" /\ left_index[r] <= right_index[r]
      /\ arr[left_index[r]] >= pivot_val[r]
      /\ right_index[r] \in Index
      /\ right_index' = [right_index EXCEPT ![r] = Below(right_index[r])]
      /\ UNCHANGED <<arr, pc, left_index, pivot_val, store, status>>
      /\ UNCHANGED <<arguments, forked, reaped, success>>
    BY DEF ExtendRight, Scanning, TreeFrame
<1>2. Resumes(r) = "scan" /\ pc[r] \in Places
    BY <1>1 DEF Resumes, Places
<1>3. right_index[r] <= r[2] - 2
    BY <1>1, <1>2, ScanFacts
<1>4. IF right_index[r] = 0 THEN Below(right_index[r]) = WordSize - 1
                            ELSE Below(right_index[r]) = right_index[r] - 1
    BY <1>2, ScanFacts, BelowFacts
<1>5. right_index'[r] = Below(right_index[r])
    BY <1>1 DEF TreeInv, TypeOK
<1>6. right_index' \in [Regions -> 0..WordSize - 1]
    BY <1>1, <1>2, <1>4, ScanFacts, SortAssumption DEF TreeInv, TypeOK
<1>7. Others(r) /\ WritesInside(r)
    BY <1>1 DEF Others, WritesInside, TreeInv, TypeOK
<1>8. TypeOK'
    BY <1>1, <1>6 DEF TreeInv, TypeOK, arguments
<1>9. IndexesInside(r)'
  <2>1. CASE right_index[r] = 0
    <3>1. left_index[r] = 0 /\ r[1] = 0
      BY <1>1, <1>2, <2>1, ScanFacts
    <3>2. Wrapped(r)'
      BY <1>1, <1>4, <1>5, <2>1, <3>1 DEF Wrapped
    <3> QED BY <1>1, <1>2, <3>2, ScanFacts DEF IndexesInside, Resumes, Forking, Length
  <2>2. CASE right_index[r] # 0
    BY <1>1, <1>2, <1>3, <1>4, <1>5, <2>2, ScanFacts
       DEF IndexesInside, Resumes, Forking, Length
  <2> QED BY <2>1, <2>2
<1> QED BY <1>1, <1>7, <1>8, <1>9, EarlyStep DEF Early

LEMMA SwapInPartitionStep ==
    ASSUME TreeInv, NEW r \in Regions, Exchange(r) \/ PlacePivot(r)
    PROVE  TreeInv'
<1>1. /\ pc[r] = "scan"
      /\ UNCHANGED <<locals, status, arguments, forked, reaped, success>>
    BY DEF Exchange, PlacePivot, Scanning, TreeFrame
<1>2. Resumes(r) = "scan" /\ pc[r] \in Places
    BY <1>1 DEF Resumes, Places
<1>3. \E j \in Span(r), next \in {"scan", "fork_left"} :
          /\ Swap(r, left_index[r], j, next)
          /\ next = "scan" => /\ right_index[r] <= r[2] - 2
                              /\ left_index[r] <= right_index[r] + 1
  <2>1. CASE Exchange(r)
    <3>1. /\ left_index[r] <= right_index[r] /\ right_index[r] \in Index
          /\ Swap(r, left_index[r], right_index[r], "scan")
      BY <2>1 DEF Exchange, Scanning
    <3>2. right_index[r] \in Span(r) /\ right_index[r] <= r[2] - 2
      BY <1>2, <3>1, ScanFacts, SpanFacts
    <3> QED BY <1>2, <3>1, <3>2, ScanFacts
  <2>2. CASE PlacePivot(r)
    <3>1. Swap(r, left_index[r], r[2] - 1, "fork_left")
      BY <2>2 DEF PlacePivot
    <3>2. r[2] - 1 \in Span(r)
      BY <1>2, ScanFacts, SpanFacts
    <3> QED BY <3>1, <3>2
  <2> QED BY <2>1, <2>2
<1>4. PICK j \in Span(r), next \in {"scan", "fork_left"} :
          /\ Swap(r, left_index[r], j, next)
          /\ next = "scan" => /\ right_index[r] <= r[2] - 2
                              /\ left_index[r] <= right_index[r] + 1
    BY <1>3
<1>5. left_index[r] \in Span(r)
    BY <1>2, ScanFacts, SpanFacts
<1>6. arr[left_index[r]] \in Values
    BY <1>5, SpanFacts DEF TreeInv, TypeOK
<1>7. /\ WritesInside(r) /\ arr' \in [Index -> Values]
      /\ pc'[r] = "swap" /\ pc' \in [Regions -> Places]
      /\ store'[r].at = j /\ store'[r].value = arr[left_index[r]] /\ store'[r].next = next
      /\ store' \in [Regions -> [at : Index, value : Values \cup {0}, next : Places]]
      /\ \A q \in Regions \ {r} : pc'[q] = pc[q] /\ store'[q] = store[q]
    BY <1>1, <1>4, <1>5, SwapFacts DEF Writing
<1>8. Others(r)
    BY <1>1, <1>7 DEF Others, locals
<1>9. TypeOK'
    BY <1>1, <1>7 DEF TreeInv, TypeOK, arguments, locals
<1>10. left_index' = left_index /\ right_index' = right_index /\ forked' = forked
    BY <1>1 DEF locals
<1>11. IndexesInside(r)'
    BY <1>2, <1>4, <1>5, <1>6, <1>7, <1>10, ScanFacts
       DEF IndexesInside, Resumes, Forking, Length, Span
<1> QED BY <1>1, <1>7, <1>8, <1>9, <1>11, EarlyStep DEF Early

LEMMA FinishSwapStep ==
    ASSUME TreeInv, NEW r \in Regions, FinishSwap(r)
    PROVE  TreeInv'
<1>1. /\ pc[r] = "swap"
      /\ arr' = [arr EXCEPT ![store[r].at] = store[r].value]
      /\ pc' = [pc EXCEPT ![r] = store[r].next]
      /\ store' = [store EXCEPT ![r] = NoStore]
      /\ UNCHANGED <<locals, status, arguments, forked, reaped, success>>
    BY DEF FinishSwap, Goto, TreeFrame
<1>2. /\ store[r].at \in Span(r) /\ store[r].value \in Values
      /\ store[r].next \in {"scan", "fork_left"}
    BY <1>1 DEF TreeInv, IndexesInside
<1>3. store[r].at \in Index /\ arr \in [Index -> Values]
    BY <1>2, SpanFacts DEF TreeInv, TypeOK
<1>4. arr' \in [Index -> Values] /\ \A i \in Index \ {store[r].at} : arr'[i] = arr[i]
    BY <1>1, <1>2, <1>3
<1>5. WritesInside(r)
    BY <1>1, <1>2, <1>4 DEF WritesInside, Writing
<1>6. Others(r)
    BY <1>1 DEF Others, locals, TreeInv, TypeOK
<1>7. NoStore \in [at : Index, value : Values \cup {0}, next : Places]
    BY SortAssumption DEF NoStore, Index, Places
<1>8. pc' \in [Regions -> Places] /\ pc'[r] = store[r].next
    BY <1>1, <1>2 DEF TreeInv, TypeOK, Places
<1>9. store' \in [Regions -> [at : Index, value : Values \cup {0}, next : Places]]
    BY <1>1, <1>7 DEF TreeInv, TypeOK
<1>10. TypeOK'
    BY <1>1, <1>4, <1>8, <1>9 DEF TreeInv, TypeOK, locals, arguments
<1>11. left_index' = left_index /\ right_index' = right_index /\ forked' = forked
    BY <1>1 DEF locals
<1>12. ~Wrapped(r) /\ Resumes(r) = store[r].next
    BY <1>1 DEF Wrapped, Resumes
<1>13. forked[r] = {}
    BY <1>1, EarlyFacts DEF Early
<1>14. IndexesInside(r)
    BY DEF TreeInv
<1>15. Resumes(r)' = store[r].next /\ pc'[r] # "swap"
    BY <1>2, <1>8 DEF Resumes
<1>16. IndexesInside(r)'
    BY <1>11, <1>12, <1>13, <1>14, <1>15 DEF IndexesInside, Length, Span
<1>17. pc'[r] \in Early /\ status'[r] = status[r] /\ pc[r] \in Early
    BY <1>1, <1>2, <1>8 DEF Early
<1> QED BY <1>1, <1>5, <1>6, <1>10, <1>16, <1>17, EarlyStep

LEMMA ForkingFacts ==
    ASSUME TreeInv, NEW r \in Regions, pc[r] \in Forking
    PROVE  /\ left_index[r] \in Span(r) /\ status[r] = "running" /\ r \notin reaped
           /\ forked[r] \subseteq {"left", "right"}
           /\ \A side \in {"left", "right"} :
                 Child(r, side) \in Regions /\ Inside(Child(r, side), r)
           /\ pc[r] = "fork_left" => forked[r] = {}
           /\ pc[r] = "fork_right" => "right" \notin forked[r]
           /\ pc[r] # "wait_right" => success[r] = {}
<1>1. left_index[r] \in Span(r)
    BY DEF TreeInv, IndexesInside, Resumes, Forking
<1>2. status[r] = "running" /\ r \notin reaped /\ forked[r] \subseteq {"left", "right"}
    BY DEF TreeInv, TypeOK, InOrder, Forking
<1>3. /\ pc[r] = "fork_left" => forked[r] = {}
      /\ pc[r] = "fork_right" => "right" \notin forked[r]
      /\ pc[r] # "wait_right" => success[r] = {}
    BY DEF TreeInv, InOrder, NotedSuccess, Forking
<1> QED BY <1>1, <1>2, <1>3, ChildFacts

\* The child's region is nobody's, and meets those of its ancestors only.
LEMMA ChildIsFresh ==
    ASSUME TreeInv, NEW r \in Regions, pc[r] \in Forking,
           NEW side \in {"left", "right"}, side \notin forked[r]
    PROVE  /\ pc[Child(r, side)] = "none"
           /\ \A q \in Regions : pc[q] # "none" =>
                 q = r \/ Apart(q, Child(r, side)) \/ (Under(r, q) /\ Inside(Child(r, side), q))
<1> DEFINE n == Child(r, side)
<1>1. n \in Regions /\ Inside(n, r) /\ Child(r, "left")[2] < Child(r, "right")[1]
    BY ForkingFacts, ChildFacts
<1>2. n # r /\ pc[r] # "none"
    BY ForkingFacts, ChildFacts, RegionFacts DEF Length, Forking
<1>3. ASSUME NEW q \in Regions, Under(q, r)
      PROVE  Apart(q, n)
  <2>1. PICK other \in forked[r] : Inside(q, Child(r, other))
    BY <1>3 DEF Under
  <2>2. other \in {"left", "right"} /\ other # side /\ Child(r, other) \in Regions
    BY SideFacts
  <2> QED BY <1>1, <2>1, <2>2, RegionFacts DEF Inside, Apart
<1>4. pc[n] = "none"
  <2> SUFFICES ASSUME pc[n] # "none"
               PROVE  FALSE
      OBVIOUS
  <2>1. Apart(n, n)
    BY <1>1, <1>2, <1>3, InsideIsUnder
  <2> QED BY <1>1, <2>1, RegionFacts DEF Apart
<1>5. ASSUME NEW q \in Regions, pc[q] # "none", q # r
      PROVE  Apart(q, n) \/ (Under(r, q) /\ Inside(n, q))
  <2>1. Apart(q, r) \/ Under(q, r) \/ Under(r, q)
    BY <1>2, <1>5 DEF TreeInv, Laminar
  <2>2. CASE Apart(q, r)
    BY <1>1, <2>2, RegionFacts DEF Apart, Inside
  <2>3. CASE Under(q, r)
    BY <1>3, <2>3
  <2>4. CASE Under(r, q)
    <3>1. PICK s \in forked[q] : Inside(r, Child(q, s))
      BY <2>4 DEF Under
    <3>2. Child(q, s) \in Regions /\ Inside(Child(q, s), q)
      BY SideFacts
    <3> QED BY <1>1, <2>4, <3>1, <3>2, RegionFacts DEF Inside
  <2> QED BY <2>1, <2>2, <2>3, <2>4
<1> QED BY <1>4, <1>5

LEMMA ForkStep ==
    ASSUME TreeInv, NEW r \in Regions, NEW side \in {"left", "right"},
           NEW next \in {"fork_right", "wait_left"},
           \/ pc[r] = "fork_left" /\ side = "left" /\ next = "fork_right"
           \/ pc[r] = "fork_right" /\ side = "right" /\ next = "wait_left",
           Fork(r, side, next),
           UNCHANGED <<arr, arguments, locals, store, reaped, success, status>>
    PROVE  TreeInv'
<1>0. PICK n \in Regions : n = Child(r, side)
    BY ForkingFacts DEF Forking
<1>1. /\ pc[r] \in Forking /\ pc[r] \notin {"none", "ended"} /\ side \notin forked[r]
      /\ Inside(n, r) /\ left_index[r] \in Span(r)
      /\ forked[r] \subseteq {"left", "right"} /\ status[r] = "running" /\ success[r] = {}
    BY <1>0, ForkingFacts DEF Forking
<1>2. pc[n] = "none" /\ n # r
    BY <1>0, <1>1, ChildIsFresh
<1>3. \A q \in Regions : pc[q] # "none" =>
          q = r \/ Apart(q, n) \/ (Under(r, q) /\ Inside(n, q))
    BY <1>0, <1>1, ChildIsFresh
<1>4. /\ forked' = [forked EXCEPT ![r] = forked[r] \cup {side}]
      /\ pc' = [pc EXCEPT ![r] = next, ![n] = "quicksort"]
    BY <1>0 DEF Fork
<1>5. /\ forked'[r] = forked[r] \cup {side}
      /\ \A q \in Regions \ {r} : forked'[q] = forked[q]
      /\ forked' \in [Regions -> SUBSET {"left", "right"}]
    BY <1>4 DEF TreeInv, TypeOK
<1>6. /\ pc'[r] = next /\ pc'[n] = "quicksort"
      /\ \A q \in Regions \ {r, n} : pc'[q] = pc[q]
      /\ pc' \in [Regions -> Places]
    BY <1>1, <1>2, <1>4 DEF TreeInv, TypeOK, Places
<1>7. /\ left_index' = left_index /\ right_index' = right_index
      /\ pivot_val' = pivot_val /\ arr' = arr
      /\ store' = store /\ reaped' = reaped /\ success' = success /\ status' = status
    BY DEF locals
<1>8. TypeOK'
    BY <1>5, <1>6, <1>7 DEF TreeInv, TypeOK, arguments
<1>9. \A p, q \in Regions : Under(p, q) => Under(p, q)'
    BY <1>5, <1>7 DEF Under, Child, Inside
<1>10. Under(n, r)'
  <2>1. Child(r, side)' = n /\ side \in forked'[r]
    BY <1>0, <1>5, <1>7 DEF Child
  <2> QED BY <2>1, RegionFacts DEF Under, Inside
<1>11. Laminar'
  <2> SUFFICES ASSUME NEW p \in Regions, NEW q \in Regions,
                      pc'[p] # "none", pc'[q] # "none"
               PROVE  p = q \/ Apart(p, q) \/ Under(p, q)' \/ Under(q, p)'
      BY DEF Laminar, Apart
  <2>1. ASSUME NEW s \in Regions, pc[s] # "none"
        PROVE  s = r \/ Apart(s, n) \/ Under(n, s)'
    <3>1. CASE Under(r, s)
      <4>1. PICK sd \in forked[s] : Inside(r, Child(s, sd))
        BY <3>1 DEF Under
      <4>2. Child(s, sd) \in Regions
        BY SideFacts
      <4>3. Inside(n, Child(s, sd))
        BY <1>1, <4>1, <4>2, RegionFacts DEF Inside
      <4>4. Under(n, s)
        BY <4>1, <4>3 DEF Under
      <4> QED BY <1>1, <1>9, <4>4
    <3> QED BY <1>3, <2>1, <3>1
  <2>2. CASE p # n /\ q # n
    <3>1. pc[p] # "none" /\ pc[q] # "none"
      BY <1>1, <1>6, <2>2
    <3> QED BY <1>9, <3>1 DEF TreeInv, Laminar
  <2>3. CASE p = n /\ q # n
    <3>1. pc[q] # "none"
      BY <1>1, <1>6, <2>3
    <3> QED BY <1>10, <2>1, <2>3, <3>1 DEF Apart
  <2>4. CASE p # n /\ q = n
    <3>1. pc[p] # "none"
      BY <1>1, <1>6, <2>4
    <3> QED BY <1>10, <2>1, <2>4, <3>1
  <2> QED BY <2>2, <2>3, <2>4
<1>12. SuccessOfAll'
  <2> SUFFICES ASSUME NEW p \in Regions, NEW q \in Regions,
                      status[q] = "0", pc'[p] # "none", Inside(p, q)
               PROVE  status[p] = "0"
      BY <1>7 DEF SuccessOfAll, Inside
  <2>1. pc[q] = "ended" /\ q # r
    BY <1>1 DEF TreeInv, InOrder
  <2>2. CASE p # n
    <3>1. pc[p] # "none"
      BY <1>1, <1>6, <2>2
    <3> QED BY <3>1 DEF TreeInv, SuccessOfAll
  <2>3. CASE p = n
    <3>1. ~Apart(q, n)
      BY <1>1, <2>3, RegionFacts DEF Inside, Apart
    <3>2. Under(r, q)
      BY <1>3, <2>1, <3>1
    <3>3. Inside(r, q)
      <4>1. PICK sd \in forked[q] : Inside(r, Child(q, sd))
        BY <3>2 DEF Under
      <4>2. Child(q, sd) \in Regions /\ Inside(Child(q, sd), q)
        BY SideFacts
      <4> QED BY <4>1, <4>2, RegionFacts DEF Inside
    <3> QED BY <1>1, <3>3 DEF TreeInv, SuccessOfAll
  <2> QED BY <2>2, <2>3
<1>13. \A q \in reaped' : pc'[q] = "ended"
    BY <1>1, <1>2, <1>6, <1>7 DEF TreeInv, TypeOK
<1>14. ASSUME NEW q \in Regions, q # r, q # n
       PROVE  IndexesInside(q)' /\ InOrder(q)' /\ NotedSuccess(q)'
  <2>1. /\ pc'[q] = pc[q] /\ forked'[q] = forked[q]
        /\ IndexesInside(q) /\ InOrder(q) /\ NotedSuccess(q)
    BY <1>5, <1>6, <1>14 DEF TreeInv
  <2>2. \A sd : Child(q, sd)' = Child(q, sd)
    BY <1>7 DEF Child
  <2>3. Children(q)' = Children(q)
    BY <2>1, <2>2 DEF Children
  <2>4. IndexesInside(q)'
    BY <1>7, <2>1 DEF IndexesInside, Resumes, Wrapped, Length, Span
  <2>5. InOrder(q)' /\ NotedSuccess(q)'
    BY <1>7, <2>1, <2>2, <2>3 DEF InOrder, NotedSuccess
  <2> QED BY <2>4, <2>5
<1>15. IndexesInside(r)' /\ InOrder(r)' /\ NotedSuccess(r)'
  <2>1. IndexesInside(r)'
    BY <1>1, <1>6, <1>7 DEF IndexesInside, Resumes, Forking, Length, Span
  <2>2. "right" \in forked'[r] => pc'[r] # "fork_right"
    BY <1>1, <1>5, <1>6, ForkingFacts
  <2>3. InOrder(r)' /\ NotedSuccess(r)'
    BY <1>1, <1>5, <1>6, <1>7, <2>2 DEF InOrder, NotedSuccess
  <2> QED BY <2>1, <2>3
<1>16. IndexesInside(n)' /\ InOrder(n)' /\ NotedSuccess(n)'
  <2>1. forked'[n] = {} /\ success'[n] = {} /\ status'[n] = "running"
    BY <1>1, <1>2, <1>5, <1>7 DEF TreeInv, TypeOK, InOrder, NotedSuccess
  <2>2. IndexesInside(n)'
    BY <1>6, <2>1 DEF IndexesInside, Resumes, Forking
  <2>3. InOrder(n)' /\ NotedSuccess(n)'
    BY <1>6, <2>1 DEF InOrder, NotedSuccess
  <2> QED BY <2>2, <2>3
<1> QED BY <1>8, <1>11, <1>12, <1>13, <1>14, <1>15, <1>16 DEF TreeInv

LEMMA ForkFailsStep ==
    ASSUME TreeInv, NEW r \in Regions, NEW next \in {"fork_right", "wait_left"},
           pc[r] = IF next = "fork_right" THEN "fork_left" ELSE "fork_right",
           ForkFails(r, next),
           UNCHANGED <<arr, arguments, locals, store, reaped, success, status>>
    PROVE  TreeInv'
<1>1. pc[r] \in Forking /\ pc' = [pc EXCEPT ![r] = next] /\ forked' = forked
    BY DEF ForkFails, Forking, Goto
<1>2. pc'[r] = next /\ pc' \in [Regions -> Places] /\ Others(r) /\ WritesInside(r)
    BY <1>1 DEF Others, WritesInside, TreeInv, TypeOK, locals, Places
<1>3. TypeOK'
    BY <1>1, <1>2 DEF TreeInv, TypeOK, locals, arguments
<1>4. left_index' = left_index /\ store' = store
    BY DEF locals
<1>5. IndexesInside(r)'
    BY <1>1, <1>2, <1>4, ForkingFacts DEF IndexesInside, Resumes, Forking, Span
<1>6. InOrder(r)' /\ NotedSuccess(r)'
  <2>1. success'[r] = {} /\ status'[r] = "running"
    BY <1>1, ForkingFacts
  <2>2. "right" \in forked'[r] => pc'[r] # "fork_right"
    BY <1>1, <1>2, ForkingFacts
  <2> QED BY <1>2, <2>1, <2>2 DEF InOrder, NotedSuccess
<1>7. \A q \in reaped' : pc'[q] = "ended"
    BY <1>1, <1>2, ForkingFacts DEF Others, TreeInv, TypeOK
<1>8. status'[r] # "0" /\ pc[r] \notin {"none", "ended"} /\ pc'[r] # "none"
    BY <1>1, <1>2, ForkingFacts DEF Forking
<1> QED BY <1>1, <1>2, <1>3, <1>4, <1>5, <1>6, <1>7, <1>8, OwnStep

LEMMA ForkAnyStep ==
    ASSUME TreeInv, NEW r \in Regions, ForkLeft(r) \/ ForkRight(r)
    PROVE  TreeInv'
<1>1. CASE ForkLeft(r)
    BY <1>1, ForkStep, ForkFailsStep DEF ForkLeft
<1>2. CASE ForkRight(r)
    BY <1>2, ForkStep, ForkFailsStep DEF ForkRight
<1> QED BY <1>1, <1>2

\* What wait_for_child does to the tree.
LEMMA WaitFacts ==
    ASSUME TreeInv, NEW r \in Regions, NEW side \in {"left", "right"},
           pc[r] \in Forking, WaitFor(r, side)
    PROVE  /\ reaped \subseteq reaped' /\ reaped' \subseteq Regions
           /\ \A q \in reaped' : pc[q] = "ended"
           /\ success' \in [Regions -> SUBSET {"left", "right"}]
           /\ \A q \in Regions \ {r} : success'[q] = success[q]
           /\ success'[r] \subseteq success[r] \cup {side}
           /\ side \in forked[r] => Child(r, side) \in reaped'
           /\ side \in success'[r] /\ side \notin success[r] =>
                 \E q \in (Children(r) \ reaped) \cap reaped' :
                     status[q] = "0" /\ (side \in forked[r] => q = Child(r, side))
<1>1. /\ success \in [Regions -> SUBSET {"left", "right"}] /\ reaped \subseteq Regions
      /\ \A q \in reaped : pc[q] = "ended"
    BY DEF TreeInv, TypeOK
<1>2. Awaited(r, side) \subseteq Children(r) \ reaped
    BY DEF Awaited, Children
<1>3. Children(r) \subseteq Regions
    BY SideFacts DEF Children
<1>4. side \in forked[r] => Awaited(r, side) = {Child(r, side)} \ reaped
    BY DEF Awaited
<1>5. CASE Awaited(r, side) = {} /\ UNCHANGED <<reaped, success>>
    BY <1>1, <1>4, <1>5
<1>6. ASSUME NEW q \in Awaited(r, side), Reap(r, side, q)
      PROVE  /\ reaped \subseteq reaped' /\ reaped' \subseteq Regions
             /\ \A s \in reaped' : pc[s] = "ended"
             /\ success' \in [Regions -> SUBSET {"left", "right"}]
             /\ \A s \in Regions \ {r} : success'[s] = success[s]
             /\ success'[r] \subseteq success[r] \cup {side}
             /\ side \in forked[r] => Child(r, side) \in reaped'
             /\ side \in success'[r] /\ side \notin success[r] =>
                   \E s \in (Children(r) \ reaped) \cap reaped' :
                       status[s] = "0" /\ (side \in forked[r] => s = Child(r, side))
  <2>1. /\ pc[q] = "ended" /\ reaped' = reaped \cup {q}
        /\ success' = IF status[q] = "0"
                      THEN [success EXCEPT ![r] = success[r] \cup {side}] ELSE success
    BY <1>6 DEF Reap
  <2>2. /\ success' \in [Regions -> SUBSET {"left", "right"}]
        /\ \A s \in Regions \ {r} : success'[s] = success[s]
        /\ success'[r] \subseteq success[r] \cup {side}
        /\ status[q] # "0" => success' = success
    BY <1>1, <2>1
  <2>3. side \in forked[r] => q = Child(r, side)
    BY <1>4, <1>6
  <2>4. q \in Children(r) \ reaped
    BY <1>2, <1>6
  <2> QED BY <1>1, <1>3, <2>1, <2>2, <2>3, <2>4
<1> QED BY <1>5, <1>6 DEF WaitFor

LEMMA WaitLeftStep ==
    ASSUME TreeInv, NEW r \in Regions, WaitLeft(r)
    PROVE  TreeInv'
<1>1. /\ pc[r] = "wait_left" /\ pc[r] \in Forking /\ WaitFor(r, "left")
      /\ pc' = [pc EXCEPT ![r] = "wait_right"]
      /\ UNCHANGED <<arr, arguments, locals, store, forked, status>>
    BY DEF WaitLeft, Forking, Goto
<1>2. /\ reaped \subseteq reaped' /\ reaped' \subseteq Regions
      /\ \A q \in reaped' : pc[q] = "ended"
      /\ success' \in [Regions -> SUBSET {"left", "right"}]
      /\ \A q \in Regions \ {r} : success'[q] = success[q]
      /\ success'[r] \subseteq success[r] \cup {"left"}
      /\ "left" \in forked[r] => Child(r, "left") \in reaped'
      /\ "left" \in success'[r] /\ "left" \notin success[r] =>
            \E q \in (Children(r) \ reaped) \cap reaped' :
                status[q] = "0" /\ ("left" \in forked[r] => q = Child(r, "left"))
    BY <1>1, WaitFacts
<1>3. pc'[r] = "wait_right" /\ pc' \in [Regions -> Places] /\ Others(r) /\ WritesInside(r)
    BY <1>1, <1>2 DEF Others, WritesInside, TreeInv, TypeOK, locals, Places
<1>4. TypeOK'
    BY <1>1, <1>2, <1>3 DEF TreeInv, TypeOK, locals, arguments
<1>5. left_index' = left_index /\ store' = store /\ forked' = forked /\ status' = status
    BY <1>1 DEF locals
<1>6. success[r] = {} /\ status[r] = "running" /\ left_index[r] \in Span(r)
    BY <1>1, ForkingFacts
<1>7. IndexesInside(r)'
    BY <1>3, <1>5, <1>6 DEF IndexesInside, Resumes, Forking, Span
<1>8. Child(r, "left")' = Child(r, "left") /\ Children(r)' = Children(r)
    BY <1>5 DEF Children, Child
<1>9. InOrder(r)'
    BY <1>2, <1>3, <1>5, <1>6, <1>8 DEF InOrder
<1>10. NotedSuccess(r)'
    BY <1>2, <1>3, <1>5, <1>6, <1>8 DEF NotedSuccess
<1>11. \A q \in reaped' : pc'[q] = "ended"
    BY <1>1, <1>2, <1>3 DEF Others
<1> QED BY <1>1, <1>2, <1>3, <1>4, <1>5, <1>6, <1>7, <1>9, <1>10, <1>11, OwnStep

\* If both waits have found a success, they were for the two children.
LEMMA BothSucceeded ==
    ASSUME TreeInv, NEW r \in Regions, WaitRight(r), success'[r] = {"left", "right"}
    PROVE  \A side \in {"left", "right"} :
              side \in forked[r] /\ status[Child(r, side)] = "0"
<1>1. pc[r] = "wait_right" /\ pc[r] \in Forking /\ WaitFor(r, "right")
    BY DEF WaitRight, Forking
<1>2. /\ success'[r] \subseteq success[r] \cup {"right"}
      /\ "right" \in success'[r] /\ "right" \notin success[r] =>
            \E q \in (Children(r) \ reaped) \cap reaped' :
                status[q] = "0" /\ ("right" \in forked[r] => q = Child(r, "right"))
    BY <1>1, WaitFacts
<1>3. "left" \in success[r] /\ "right" \notin success[r]
    BY <1>1, <1>2 DEF TreeInv, NotedSuccess
<1>4. PICK p \in Children(r) \cap reaped :
          status[p] = "0" /\ ("left" \in forked[r] => p = Child(r, "left"))
    BY <1>1, <1>3 DEF TreeInv, NotedSuccess
<1>5. PICK q \in Children(r) \ reaped :
          status[q] = "0" /\ ("right" \in forked[r] => q = Child(r, "right"))
    BY <1>2, <1>3
<1>6. "left" \in forked[r] => Child(r, "left") \in reaped
    BY <1>1 DEF TreeInv, InOrder
<1>7. PICK s \in forked[r], t \in forked[r] : p = Child(r, s) /\ q = Child(r, t)
    BY DEF Children
<1>8. s \in {"left", "right"} /\ t \in {"left", "right"}
    BY SideFacts
<1>9. t = "right"
    BY <1>5, <1>6, <1>7, <1>8
<1>10. s = "left"
    BY <1>4, <1>5, <1>7, <1>8, <1>9
<1> QED BY <1>4, <1>5, <1>7, <1>9, <1>10

LEMMA WaitRightStep ==
    ASSUME TreeInv, NEW r \in Regions, WaitRight(r)
    PROVE  TreeInv'
<1>1. /\ pc[r] = "wait_right" /\ pc[r] \in Forking /\ WaitFor(r, "right")
      /\ End(r, IF success'[r] = {"left", "right"} THEN "0" ELSE "1")
      /\ UNCHANGED <<arr, arguments, locals, store, forked>>
    BY DEF WaitRight, Forking
<1>2. /\ reaped \subseteq reaped' /\ reaped' \subseteq Regions
      /\ \A q \in reaped' : pc[q] = "ended"
      /\ success' \in [Regions -> SUBSET {"left", "right"}]
      /\ \A q \in Regions \ {r} : success'[q] = success[q]
      /\ "right" \in forked[r] => Child(r, "right") \in reaped'
    BY <1>1, WaitFacts
<1>3. /\ pc'[r] = "ended" /\ pc' \in [Regions -> Places]
      /\ status' \in [Regions -> {"running", "0", "1", "crashed", "killed"}]
      /\ status'[r] = IF success'[r] = {"left", "right"} THEN "0" ELSE "1"
      /\ \A q \in Regions \ {r} : pc'[q] = pc[q] /\ status'[q] = status[q]
    BY <1>1 DEF End, Goto, TreeInv, TypeOK, Places
<1>4. Others(r) /\ WritesInside(r)
    BY <1>1, <1>2, <1>3 DEF Others, WritesInside, locals
<1>5. TypeOK'
    BY <1>1, <1>2, <1>3 DEF TreeInv, TypeOK, locals, arguments
<1>6. left_index' = left_index /\ store' = store /\ forked' = forked
    BY <1>1 DEF locals
<1>7. left_index[r] \in Span(r) /\ forked[r] \subseteq {"left", "right"}
    BY <1>1, ForkingFacts
<1>8. IndexesInside(r)'
    BY <1>3, <1>6, <1>7 DEF IndexesInside, Resumes, Forking, Span
<1>9. Child(r, "left")' = Child(r, "left") /\ Children(r)' = Children(r)
    BY <1>6 DEF Children, Child
<1>10. "left" \in forked[r] => Child(r, "left") \in reaped'
    BY <1>1, <1>2 DEF TreeInv, InOrder
<1>11. Children(r) \subseteq reaped'
    BY <1>2, <1>7, <1>10 DEF Children
<1>12. InOrder(r)' /\ NotedSuccess(r)'
    BY <1>3, <1>9, <1>11 DEF InOrder, NotedSuccess
<1>13. \A q \in reaped' : pc'[q] = "ended"
    BY <1>2, <1>3
<1>14. ASSUME status'[r] = "0", NEW q \in Regions \ {r}, pc[q] # "none", Inside(q, r)
       PROVE  status[q] = "0"
  <2>1. PICK side \in forked[r] : Inside(q, Child(r, side))
    BY <1>1, <1>14, InsideIsUnder DEF Under
  <2>2. side \in {"left", "right"} /\ Child(r, side) \in Regions
    BY SideFacts
  <2>3. status[Child(r, side)] = "0"
    BY <1>3, <1>14, <2>2, BothSucceeded
  <2> QED BY <1>14, <2>1, <2>2, <2>3 DEF TreeInv, SuccessOfAll
<1>15. pc[r] \notin {"none", "ended"} /\ pc'[r] # "none"
    BY <1>1, <1>3
<1> QED BY <1>2, <1>4, <1>5, <1>6, <1>8, <1>12, <1>13, <1>14, <1>15, OwnStep

LEMMA KillStep ==
    ASSUME TreeInv, NEW r \in Regions, Kill(r)
    PROVE  TreeInv'
<1>1. /\ pc[r] \notin {"none", "ended"} /\ End(r, "killed")
      /\ UNCHANGED <<locals, store, arguments, forked, reaped, success>>
      /\ IF pc[r] = "qsort"
         THEN \E p \in [Span(r) -> Span(r)] : arr' = Rearranged(r, p)
         ELSE UNCHANGED arr
    BY DEF Kill, TreeFrame
<1>2. /\ pc'[r] = "ended" /\ pc' \in [Regions -> Places]
      /\ status' \in [Regions -> {"running", "0", "1", "crashed", "killed"}]
      /\ status'[r] = "killed"
      /\ \A q \in Regions \ {r} : pc'[q] = pc[q] /\ status'[q] = status[q]
    BY <1>1 DEF End, Goto, TreeInv, TypeOK, Places
<1>3. arr' \in [Index -> Values] /\ WritesInside(r)
  <2>1. CASE pc[r] = "qsort"
    BY <1>1, <2>1, RearrangedFacts DEF WritesInside, Writing
  <2>2. CASE pc[r] # "qsort"
    BY <1>1, <2>2 DEF WritesInside, TreeInv, TypeOK
  <2> QED BY <2>1, <2>2
<1>4. Others(r)
    BY <1>1, <1>2 DEF Others, locals
<1>5. TypeOK'
    BY <1>1, <1>2, <1>3 DEF TreeInv, TypeOK, locals, arguments
<1>6. left_index' = left_index /\ forked' = forked /\ reaped' = reaped
    BY <1>1 DEF locals
<1>7. IndexesInside(r)'
    BY <1>2, <1>6 DEF TreeInv, IndexesInside, Resumes, Forking, Span
<1>8. InOrder(r)' /\ NotedSuccess(r)'
    BY <1>2 DEF InOrder, NotedSuccess
<1>9. \A q \in reaped' : pc'[q] = "ended"
    BY <1>2, <1>6 DEF TreeInv, TypeOK
<1> QED BY <1>1, <1>2, <1>3, <1>4, <1>5, <1>6, <1>7, <1>8, <1>9, OwnStep

LEMMA UnchangedStep ==
    ASSUME TreeInv, UNCHANGED vars
    PROVE  TreeInv'
<1>1. /\ UNCHANGED <<arr, input, file_size, par_threshold, pc, left_index, right_index>>
      /\ UNCHANGED <<pivot_val, store, forked, reaped, success, status>>
    BY DEF vars, arguments, locals
<1>2. TypeOK' /\ Laminar' /\ SuccessOfAll' /\ \A r \in reaped' : pc'[r] = "ended"
    BY <1>1 DEF TreeInv, TypeOK, Laminar, Apart, Under, Inside, Child, SuccessOfAll
<1>3. ASSUME NEW r \in Regions
      PROVE  IndexesInside(r)' /\ InOrder(r)' /\ NotedSuccess(r)'
  <2>1. IndexesInside(r) /\ InOrder(r) /\ NotedSuccess(r)
    BY DEF TreeInv
  <2>2. IndexesInside(r)'
    BY <1>1, <2>1 DEF IndexesInside, Resumes, Wrapped, Length, Span
  <2>3. InOrder(r)' /\ NotedSuccess(r)'
    BY <1>1, <2>1 DEF InOrder, NotedSuccess, Children, Child
  <2> QED BY <2>2, <2>3
<1> QED BY <1>2, <1>3 DEF TreeInv

LEMMA TreeInit == Init => TreeInv
<1> SUFFICES ASSUME Init
             PROVE  TreeInv
    OBVIOUS
<1>1. TypeOK
  <2>1. input \in [Index -> Values] /\ par_threshold \in Nat /\ file_size \in Nat
    BY SortAssumption DEF Init
  <2>2. NoStore \in [at : Index, value : Values \cup {0}, next : Places]
    BY SortAssumption DEF NoStore, Index, Places
  <2> QED BY <2>1, <2>2, SortAssumption DEF Init, TypeOK, Places
<1>2. \A r \in Regions : /\ pc[r] \in {"none", "open"} /\ (pc[r] # "none" => r = Root)
                         /\ forked[r] = {} /\ success[r] = {} /\ status[r] = "running"
    BY DEF Init
<1>3. Laminar /\ SuccessOfAll /\ reaped = {}
    BY <1>2 DEF Laminar, SuccessOfAll, Init
<1>4. \A r \in Regions : IndexesInside(r) /\ InOrder(r) /\ NotedSuccess(r)
    BY <1>2 DEF IndexesInside, InOrder, NotedSuccess, Resumes, Forking
<1> QED BY <1>1, <1>3, <1>4 DEF TreeInv

\* Processes form a tree of regions that are apart or inside one another, partition
\* stays inside its region, and children are reaped in their order.
THEOREM TreeInvariant == Spec => []TreeInv
<1>1. TreeInv /\ [Next]_vars => TreeInv'
  <2> SUFFICES ASSUME TreeInv, [Next]_vars
               PROVE  TreeInv'
      OBVIOUS
  <2>1. ASSUME NEW r \in Regions, Step(r)
        PROVE  TreeInv'
    <3>1. CASE SortNothing(r) \/ CallQsort(r) \/ ReadOutside(r)
      BY <3>1, SmallStep
    <3>2. CASE ChoosePivot(r) \/ ExtendLeft(r) \/ ExtendRight(r)
      BY <3>2, ChoosePivotStep, ExtendLeftStep, ExtendRightStep
    <3>3. CASE Qsort(r) \/ FinishSwap(r) \/ Exchange(r) \/ PlacePivot(r)
      BY <3>3, QsortStep, FinishSwapStep, SwapInPartitionStep
    <3>4. CASE ForkLeft(r) \/ ForkRight(r)
      BY <3>4, ForkAnyStep
    <3>5. CASE WaitLeft(r) \/ WaitRight(r)
      BY <3>5, WaitLeftStep, WaitRightStep
    <3> QED BY <2>1, <3>1, <3>2, <3>3, <3>4, <3>5 DEF Step
  <2> QED BY <2>1, CallStep, KillStep, UnchangedStep DEF Next
<1> QED BY <1>1, TreeInit, PTL DEF Spec

\* No two processes ever write to the same element, for any file and any faults.
THEOREM WritersAreDisjoint == Spec => []DisjointWriters
<1>1. TreeInv => DisjointWriters
    BY WritersAreApart DEF DisjointWriters
<1> QED BY <1>1, TreeInvariant, PTL

\* A process that exits by itself has reaped all of its children.
THEOREM NobodyIsLeftBehind == Spec => []NoneLeftBehind
<1>1. TreeInv => NoneLeftBehind
    BY DEF TreeInv, InOrder, NoneLeftBehind
<1> QED BY <1>1, TreeInvariant, PTL
-----------------------------------------------------------------------------
(***************************************************************************)
(* What parsort makes of the file: its elements, sorted, if it reports a    *)
(* success.                                                                 *)
(***************************************************************************)

(* Bijections of the indices *)

LEMMA BijectionFacts ==
    ASSUME NEW S, NEW p
    PROVE  p \in Bijection(S, S) <=>
              /\ p \in [S -> S]
              /\ \A a, b \in S : p[a] = p[b] => a = b
              /\ \A t \in S : \E s \in S : p[s] = t
  BY DEF Bijection, Injection, Surjection, IsInjective

\* Elements that are moved once more are still all there.
LEMMA PermutationsCompose ==
    ASSUME NEW a, NEW b, NEW c, IsPermutation(b, c),
           NEW p \in Bijection(Index, Index), \A i \in Index : a[i] = b[p[i]]
    PROVE  IsPermutation(a, c)
<1>1. PICK q \in Bijection(Index, Index) : \A i \in Index : b[i] = c[q[i]]
    BY DEF IsPermutation
<1>2. /\ p \in [Index -> Index] /\ q \in [Index -> Index]
      /\ \A s, t \in Index : p[s] = p[t] => s = t
      /\ \A s, t \in Index : q[s] = q[t] => s = t
      /\ \A t \in Index : \E s \in Index : p[s] = t
      /\ \A t \in Index : \E s \in Index : q[s] = t
    BY <1>1, BijectionFacts
<1> DEFINE r == [i \in Index |-> q[p[i]]]
<1>3. r \in [Index -> Index] /\ \A i \in Index : r[i] = q[p[i]]
    BY <1>2
<1> HIDE DEF r
<1>4. \A s, t \in Index : r[s] = r[t] => s = t
    BY <1>2, <1>3
<1>5. \A t \in Index : \E s \in Index : r[s] = t
  <2> SUFFICES ASSUME NEW t \in Index
               PROVE  \E s \in Index : r[s] = t
      OBVIOUS
  <2>1. PICK u \in Index : q[u] = t
    BY <1>2
  <2>2. PICK s \in Index : p[s] = u
    BY <1>2
  <2> QED BY <1>3, <2>1, <2>2
<1>6. r \in Bijection(Index, Index)
    BY <1>3, <1>4, <1>5, BijectionFacts
<1>7. \A i \in Index : a[i] = c[r[i]]
  <2> SUFFICES ASSUME NEW i \in Index
               PROVE  a[i] = c[r[i]]
      OBVIOUS
  <2>1. p[i] \in Index
    BY <1>2
  <2>2. b[p[i]] = c[q[p[i]]]
    BY <1>1, <2>1
  <2> QED BY <1>3, <2>2
<1> QED BY <1>6, <1>7 DEF IsPermutation

-----------------------------------------------------------------------------
(* The elements when the swaps under way are finished *)

SettledFacts ==
    /\ \A i \in Index : (\A r \in Regions : ~(pc[r] = "swap" /\ store[r].at = i)) =>
                           Settled[i] = arr[i]
    /\ \A r \in Regions : pc[r] = "swap" => Settled[store[r].at] = store[r].value

LEMMA SettledValues == TreeInv => SettledFacts
<1> SUFFICES ASSUME TreeInv
             PROVE  SettledFacts
    OBVIOUS
<1>1. ASSUME NEW i \in Index, \A r \in Regions : ~(pc[r] = "swap" /\ store[r].at = i)
      PROVE  Settled[i] = arr[i]
  <2>1. Pending(i) = {}
    BY <1>1 DEF Pending
  <2> QED BY <2>1 DEF Settled
<1>2. ASSUME NEW r \in Regions, pc[r] = "swap"
      PROVE  Settled[store[r].at] = store[r].value
  <2> DEFINE i == store[r].at
  <2>1. i \in Span(r) /\ i \in Index
    BY <1>2, SpanFacts DEF TreeInv, IndexesInside
  <2>2. ASSUME NEW q \in Regions, pc[q] = "swap", store[q].at = i
        PROVE  q = r
    <3>1. i \in Span(q)
      BY <2>2 DEF TreeInv, IndexesInside
    <3> QED BY <1>2, <2>1, <2>2, <3>1, WritersAreApart DEF Writing
  <2>3. Pending(i) = {r}
    BY <1>2, <2>2 DEF Pending
  <2>4. (CHOOSE q \in Regions : q \in Pending(i)) = r
    BY <2>3
  <2>5. Settled[i] = store[CHOOSE q \in Regions : q \in Pending(i)].value
    BY <2>1, <2>3 DEF Settled
  <2> QED BY <2>4, <2>5
<1> QED BY <1>1, <1>2 DEF SettledFacts

LEMMA SettledValuesNext == TreeInv' => SettledFacts'
  BY SettledValues, PTL

\* Only the writer of a region can be in the middle of a swap there.
LEMMA SettledInOwnRegion ==
    ASSUME TreeInv, NEW r \in Regions, pc[r] \in Writing, NEW i \in Span(r)
    PROVE  (pc[r] = "swap" => store[r].at # i) => Settled[i] = arr[i]
<1>1. i \in Index
    BY SpanFacts
<1>2. ASSUME NEW q \in Regions, q # r, pc[q] = "swap"
      PROVE  store[q].at # i
  <2>1. store[q].at \in Span(q)
    BY <1>2 DEF TreeInv, IndexesInside
  <2> QED BY <1>2, <2>1, WritersAreApart DEF Writing
<1> QED BY <1>1, <1>2, SettledValues DEF SettledFacts

\* What a step of r does to elements outside of its region: nothing.
LEMMA SettledOutside ==
    ASSUME TreeInv, TreeInv', NEW r \in Regions, WritesInside(r),
           \A q \in Regions \ {r} :
              \/ pc'[q] = pc[q] /\ store'[q] = store[q]
              \/ pc'[q] # "swap" /\ pc[q] # "swap",
           NEW i \in Index,
           pc[r] = "swap" => store[r].at # i, pc'[r] = "swap" => store'[r].at # i,
           arr'[i] = arr[i]
    PROVE  Settled'[i] = Settled[i]
<1>1. CASE \E q \in Regions : pc[q] = "swap" /\ store[q].at = i
  <2>1. PICK q \in Regions : pc[q] = "swap" /\ store[q].at = i
    BY <1>1
  <2>2. pc'[q] = "swap" /\ store'[q] = store[q]
    BY <2>1
  <2>3. Settled[i] = store[q].value
    BY <2>1, SettledValues DEF SettledFacts
  <2>4. Settled'[i] = store[q].value
    BY <2>1, <2>2, SettledValuesNext DEF SettledFacts
  <2> QED BY <2>3, <2>4
<1>2. CASE \A q \in Regions : ~(pc[q] = "swap" /\ store[q].at = i)
  <2>1. \A q \in Regions : ~(pc'[q] = "swap" /\ store'[q].at = i)
    BY <1>2
  <2>2. Settled'[i] = arr'[i] /\ Settled[i] = arr[i]
    BY <1>2, <2>1, SettledValues, SettledValuesNext DEF SettledFacts
  <2> QED BY <2>2
<1> QED BY <1>1, <1>2

-----------------------------------------------------------------------------
(* What steps of others leave of a process's work *)

SameProcess(q) ==
    /\ pc'[q] = pc[q] /\ store'[q] = store[q] /\ status'[q] = status[q]
    /\ left_index'[q] = left_index[q] /\ right_index'[q] = right_index[q]
    /\ pivot_val'[q] = pivot_val[q] /\ forked'[q] = forked[q]

\* The element at i is the one that was there, or one that was on the same side of a
\* pivot that has found its place.
ComesFrom(q, i, j) ==
    /\ Settled'[i] = Settled[j]
    /\ \/ i = j
       \/ /\ forked[q] # {} /\ status[q] # "0"
          /\ \/ i < left_index[q] /\ j < left_index[q]
             \/ i > left_index[q] /\ j > left_index[q]

LEMMA PartsKept ==
    ASSUME TreeInv, NEW q \in Regions, SameProcess(q), Wrapped(q) => Wrapped(q)',
           \A i \in Span(q) : \E j \in Span(q) : ComesFrom(q, i, j),
           WellPlaced(q)
    PROVE  WellPlaced(q)'
<1>1. /\ q[1] \in Nat /\ q[2] \in Nat
      /\ \A i : i \in Span(q) <=> i \in Int /\ q[1] <= i /\ i < q[2]
    BY RegionFacts, SpanFacts
<1>2. PartsSoFar(q)'
  <2> SUFFICES ASSUME Resumes(q)' = "scan", ~Wrapped(q)'
               PROVE  /\ \A i \in q[1]..left_index[q] - 1 : Settled'[i] < pivot_val[q]
                      /\ \A i \in right_index[q] + 1..q[2] - 2 : Settled'[i] >= pivot_val[q]
                      /\ Settled'[q[2] - 1] = pivot_val[q]
      BY DEF PartsSoFar, SameProcess
  <2>1. Resumes(q) = "scan" /\ ~Wrapped(q) /\ pc[q] \in Places
    BY DEF Resumes, SameProcess, TreeInv, TypeOK
  <2>2. /\ \A i \in q[1]..left_index[q] - 1 : Settled[i] < pivot_val[q]
        /\ \A i \in right_index[q] + 1..q[2] - 2 : Settled[i] >= pivot_val[q]
        /\ Settled[q[2] - 1] = pivot_val[q]
    BY <2>1 DEF WellPlaced, PartsSoFar
  <2>3. \A i \in Span(q) : Settled'[i] = Settled[i]
    BY <2>1, ScanFacts DEF ComesFrom
  <2>4. /\ left_index[q] \in Nat /\ q[1] <= left_index[q] /\ left_index[q] <= q[2] - 1
        /\ right_index[q] \in Nat /\ left_index[q] <= right_index[q] + 1
    BY <2>1, ScanFacts
  <2> QED BY <1>1, <2>2, <2>3, <2>4
<1>3. Parted(q)'
  <2> SUFFICES ASSUME Resumes(q)' \in Forking \/ forked'[q] # {}
               PROVE  /\ \A i \in q[1]..left_index[q] - 1 : Settled'[i] < pivot_val[q]
                      /\ \A i \in left_index[q] + 1..q[2] - 1 : Settled'[i] >= pivot_val[q]
                      /\ Settled'[left_index[q]] = pivot_val[q]
      BY DEF Parted, SameProcess
  <2>1. Resumes(q) \in Forking \/ forked[q] # {}
    BY DEF Resumes, SameProcess
  <2>2. /\ \A i \in q[1]..left_index[q] - 1 : Settled[i] < pivot_val[q]
        /\ \A i \in left_index[q] + 1..q[2] - 1 : Settled[i] >= pivot_val[q]
        /\ Settled[left_index[q]] = pivot_val[q]
    BY <2>1 DEF WellPlaced, Parted
  <2>3. left_index[q] \in Span(q)
    BY <2>1 DEF TreeInv, IndexesInside
  <2>4. ASSUME NEW i \in q[1]..left_index[q] - 1
        PROVE  Settled'[i] < pivot_val[q]
    <3>1. i \in Span(q) /\ i < left_index[q]
      BY <1>1, <2>3
    <3>2. PICK j \in Span(q) : ComesFrom(q, i, j)
      BY <3>1
    <3>3. j \in q[1]..left_index[q] - 1
      BY <1>1, <2>3, <3>1, <3>2 DEF ComesFrom
    <3> QED BY <2>2, <3>2, <3>3 DEF ComesFrom
  <2>5. ASSUME NEW i \in left_index[q] + 1..q[2] - 1
        PROVE  Settled'[i] >= pivot_val[q]
    <3>1. i \in Span(q) /\ i > left_index[q]
      BY <1>1, <2>3
    <3>2. PICK j \in Span(q) : ComesFrom(q, i, j)
      BY <3>1
    <3>3. j \in left_index[q] + 1..q[2] - 1
      BY <1>1, <2>3, <3>1, <3>2 DEF ComesFrom
    <3> QED BY <2>2, <3>2, <3>3 DEF ComesFrom
  <2>6. Settled'[left_index[q]] = pivot_val[q]
    <3>1. PICK j \in Span(q) : ComesFrom(q, left_index[q], j)
      BY <2>3
    <3>2. j = left_index[q]
      BY <1>1, <2>3, <3>1 DEF ComesFrom
    <3> QED BY <2>2, <3>1, <3>2 DEF ComesFrom
  <2> QED BY <2>4, <2>5, <2>6
<1>4. ASSUME status'[q] = "0"
      PROVE  IsSorted(Settled', Span(q))
  <2>1. status[q] = "0"
    BY <1>4 DEF SameProcess
  <2>2. IsSorted(Settled, Span(q))
    BY <2>1 DEF WellPlaced
  <2>3. \A i \in Span(q) : Settled'[i] = Settled[i]
    BY <2>1 DEF ComesFrom
  <2> QED BY <2>2, <2>3 DEF IsSorted
<1>5. Span(q)' = Span(q)
    BY DEF Span
<1> QED BY <1>2, <1>3, <1>4, <1>5 DEF WellPlaced, IsSorted

\* Elements are moved inside the region of r.
Moves(r) ==
    \E p \in Bijection(Index, Index) :
        /\ \A i \in Index : Settled'[i] = Settled[p[i]]
        /\ \A i \in Span(r) : p[i] \in Span(r)
        /\ \A i \in Index \ Span(r) : p[i] = i

LEMMA MovesKeepOthers ==
    ASSUME TreeInv, NEW r \in Regions, pc[r] \in Writing, Moves(r),
           Others(r), WritesInside(r), NEW q \in Regions \ {r}, WellPlaced(q)
    PROVE  WellPlaced(q)'
<1>1. PICK p \in Bijection(Index, Index) :
          /\ \A i \in Index : Settled'[i] = Settled[p[i]]
          /\ \A i \in Span(r) : p[i] \in Span(r)
          /\ \A i \in Index \ Span(r) : p[i] = i
    BY DEF Moves
<1>2. SameProcess(q) /\ (Wrapped(q) => Wrapped(q)')
    BY WrappedKept DEF SameProcess, Others
<1>3. /\ q[1] \in Nat /\ q[2] \in Nat /\ r[1] \in Nat /\ r[2] \in Nat
      /\ \A i : i \in Span(q) <=> i \in Int /\ q[1] <= i /\ i < q[2]
      /\ \A i : i \in Span(r) <=> i \in Int /\ r[1] <= i /\ i < r[2]
      /\ Span(q) \subseteq Index
    BY RegionFacts, SpanFacts
<1>4. forked[r] = {} /\ pc[r] # "none" /\ status[r] # "0"
    BY EarlyFacts DEF Writing, Early
<1>5. CASE pc[q] = "none"
  <2>1. forked[q] = {} /\ status[q] # "0" /\ Resumes(q) = "none"
    BY <1>5 DEF TreeInv, InOrder, Resumes
  <2> QED BY <1>2, <1>5, <2>1
          DEF WellPlaced, PartsSoFar, Parted, SameProcess, Resumes, Forking
<1>6. CASE pc[q] # "none" /\ Apart(q, r)
  <2>1. \A i \in Span(q) : i \notin Span(r)
    BY <1>3, <1>6 DEF Apart
  <2>2. \A i \in Span(q) : ComesFrom(q, i, i)
    BY <1>1, <1>3, <2>1 DEF ComesFrom
  <2> QED BY <1>2, <2>2, PartsKept
<1>7. CASE pc[q] # "none" /\ Under(r, q)
  <2>1. PICK side \in forked[q] : Inside(r, Child(q, side))
    BY <1>7 DEF Under
  <2>2. /\ side \in {"left", "right"} /\ left_index[q] \in Span(q)
        /\ Child(q, side) \in Regions /\ Inside(Child(q, side), q)
    BY SideFacts
  <2>3. Inside(r, q)
    BY <1>3, <2>1, <2>2, RegionFacts DEF Inside
  <2>4. status[q] # "0"
    BY <1>4, <2>3 DEF TreeInv, SuccessOfAll
  <2>5. \/ \A i \in Span(r) : i < left_index[q]
        \/ \A i \in Span(r) : i > left_index[q]
    BY <1>3, <2>1, <2>2 DEF Inside, Child
  <2>6. \A i \in Span(r) : i \in Span(q)
    BY <1>3, <2>3 DEF Inside
  <2>7. ASSUME NEW i \in Span(q)
        PROVE  \E j \in Span(q) : ComesFrom(q, i, j)
    <3>1. CASE i \in Span(r)
      BY <1>1, <1>3, <2>1, <2>4, <2>5, <2>6, <3>1 DEF ComesFrom
    <3>2. CASE i \notin Span(r)
      BY <1>1, <1>3, <3>2 DEF ComesFrom
    <3> QED BY <3>1, <3>2
  <2> QED BY <1>2, <2>7, PartsKept
<1>8. pc[q] # "none" => Apart(q, r) \/ Under(r, q)
    BY <1>4 DEF TreeInv, Laminar, Under
<1> QED BY <1>5, <1>6, <1>7, <1>8

\* A step that moves nothing, for a process that it does not concern.
LEMMA StillKeeps ==
    ASSUME TreeInv, NEW q \in Regions, SameProcess(q), Wrapped(q) => Wrapped(q)',
           \A i \in Index : Settled'[i] = Settled[i], WellPlaced(q)
    PROVE  WellPlaced(q)'
<1>1. \A i \in Span(q) : ComesFrom(q, i, i)
    BY SpanFacts DEF ComesFrom
<1> QED BY <1>1, PartsKept

LEMMA StillMoves ==
    ASSUME NEW r \in Regions, \A i \in Index : Settled'[i] = Settled[i]
    PROVE  Moves(r)
<1> DEFINE p == [i \in Index |-> i]
<1>1. p \in Bijection(Index, Index)
    BY BijectionFacts
<1>2. Span(r) \subseteq Index
    BY SpanFacts
<1> QED BY <1>1, <1>2 DEF Moves

\* A step of r keeps SortInv if it keeps what concerns r.
LEMMA MovesKeepSorting ==
    ASSUME TreeInv, SortInv, NEW r \in Regions, Others(r), WritesInside(r), input' = input,
           pc[r] \notin {"none", "ended"},
           \/ pc[r] \in Writing /\ Moves(r)
           \/ \A i \in Index : Settled'[i] = Settled[i],
           NobodyKilled /\ WellPlaced(r) => WellPlaced(r)'
    PROVE  SortInv'
<1> SUFFICES ASSUME NobodyKilled'
             PROVE  IsPermutation(Settled, input)' /\ \A q \in Regions : WellPlaced(q)'
    BY DEF SortInv
<1>1. NobodyKilled
    BY DEF NobodyKilled, Others, TreeInv, InOrder
<1>2. IsPermutation(Settled, input) /\ \A q \in Regions : WellPlaced(q)
    BY <1>1 DEF SortInv
<1>3. ASSUME NEW q \in Regions \ {r}
      PROVE  WellPlaced(q)'
  <2>1. SameProcess(q) /\ (Wrapped(q) => Wrapped(q)')
    BY WrappedKept DEF SameProcess, Others
  <2> QED BY <1>2, <2>1, MovesKeepOthers, StillKeeps
<1>4. PICK p \in Bijection(Index, Index) : \A i \in Index : Settled'[i] = Settled[p[i]]
    BY StillMoves DEF Moves
<1>5. IsPermutation(Settled', input')
    BY <1>2, <1>4, PermutationsCompose
<1>6. IsPermutation(Settled, input)'
    BY <1>5 DEF IsPermutation
<1> QED BY <1>1, <1>2, <1>3, <1>6

-----------------------------------------------------------------------------
(* How the steps move elements *)

LEMMA QuietIsStill ==
    ASSUME TreeInv, TreeInv', arr' = arr, store' = store,
           \A q \in Regions : pc'[q] = "swap" <=> pc[q] = "swap"
    PROVE  \A i \in Index : Settled'[i] = Settled[i]
<1> SUFFICES ASSUME NEW i \in Index
             PROVE  Settled'[i] = Settled[i]
    OBVIOUS
<1>1. CASE \E q \in Regions : pc[q] = "swap" /\ store[q].at = i
    BY <1>1, SettledValues, SettledValuesNext DEF SettledFacts
<1>2. CASE \A q \in Regions : ~(pc[q] = "swap" /\ store[q].at = i)
    BY <1>2, SettledValues, SettledValuesNext DEF SettledFacts
<1> QED BY <1>1, <1>2

\* Nobody else is in the middle of a swap in the region of a writer.
LEMMA OnlyOwnPending ==
    ASSUME TreeInv, NEW r \in Regions, pc[r] \in Writing, Others(r), NEW i \in Span(r),
           NEW q \in Regions \ {r}
    PROVE  /\ ~(pc[q] = "swap" /\ store[q].at = i)
           /\ ~(pc'[q] = "swap" /\ store'[q].at = i)
<1>1. pc'[q] = pc[q] /\ store'[q] = store[q]
    BY DEF Others
<1>2. ASSUME pc[q] = "swap"
      PROVE  store[q].at # i
  <2>1. store[q].at \in Span(q)
    BY <1>2 DEF TreeInv, IndexesInside
  <2> QED BY <1>2, <2>1, WritersAreApart DEF Writing
<1> QED BY <1>1, <1>2

LEMMA SwapMoves ==
    ASSUME TreeInv, TreeInv', NEW r \in Regions, NEW i \in Span(r), NEW j \in Span(r),
           NEW next \in {"scan", "fork_left"}, pc[r] \in Writing, pc[r] # "swap",
           Others(r), Swap(r, i, j, next)
    PROVE  /\ \A k \in Index \ {i, j} : Settled'[k] = Settled[k]
           /\ Settled'[i] = Settled[j] /\ Settled'[j] = Settled[i]
           /\ Moves(r)
<1>1. i \in Index /\ j \in Index /\ Span(r) \subseteq Index
    BY SpanFacts
<1>2. /\ WritesInside(r) /\ pc'[r] = "swap"
      /\ store'[r].at = j /\ store'[r].value = arr[i]
    BY SwapFacts
<1>3. arr' = [arr EXCEPT ![i] = arr[j]] /\ arr \in [Index -> Values]
    BY DEF Swap, TreeInv, TypeOK
<1>4. ASSUME NEW k \in Index, k # i, k # j
      PROVE  Settled'[k] = Settled[k]
  <2>1. arr'[k] = arr[k]
    BY <1>1, <1>3, <1>4
  <2>2. \A q \in Regions \ {r} : pc'[q] = pc[q] /\ store'[q] = store[q]
    BY DEF Others
  <2> QED BY <1>2, <1>4, <2>1, <2>2, SettledOutside
<1>5. Settled[i] = arr[i] /\ Settled[j] = arr[j]
    BY SettledInOwnRegion
<1>6. Settled'[j] = Settled[i]
    BY <1>2, <1>5, SettledValuesNext DEF SettledFacts
<1>7. Settled'[i] = Settled[j]
  <2>1. CASE i = j
    BY <1>6, <2>1
  <2>2. CASE i # j
    <3>1. \A q \in Regions : ~(pc'[q] = "swap" /\ store'[q].at = i)
      BY <1>2, <2>2, OnlyOwnPending
    <3>2. Settled'[i] = arr'[i]
      BY <1>1, <3>1, SettledValuesNext DEF SettledFacts
    <3>3. arr'[i] = arr[j]
      BY <1>1, <1>3
    <3> QED BY <1>5, <3>2, <3>3
  <2> QED BY <2>1, <2>2
<1> DEFINE p == [k \in Index |-> IF k = i THEN j ELSE IF k = j THEN i ELSE k]
<1>8. p \in Bijection(Index, Index)
  <2>1. p \in [Index -> Index]
    BY <1>1
  <2>2. \A k \in Index : p[p[k]] = k
    BY <1>1
  <2> HIDE DEF p
  <2>3. \A s, t \in Index : p[s] = p[t] => s = t
    BY <2>1, <2>2
  <2>4. \A t \in Index : \E s \in Index : p[s] = t
    BY <2>1, <2>2
  <2> QED BY <2>1, <2>3, <2>4, BijectionFacts
<1>9. /\ \A k \in Index : Settled'[k] = Settled[p[k]]
      /\ \A k \in Span(r) : p[k] \in Span(r)
      /\ \A k \in Index \ Span(r) : p[k] = k
    BY <1>1, <1>4, <1>6, <1>7
<1> HIDE DEF p
<1>10. Moves(r)
    BY <1>8, <1>9 DEF Moves
<1> QED BY <1>4, <1>6, <1>7, <1>10

LEMMA FinishSwapIsStill ==
    ASSUME TreeInv, TreeInv', NEW r \in Regions, Others(r), WritesInside(r), FinishSwap(r)
    PROVE  \A i \in Index : Settled'[i] = Settled[i]
<1>1. /\ pc[r] = "swap"
      /\ arr' = [arr EXCEPT ![store[r].at] = store[r].value]
      /\ pc' = [pc EXCEPT ![r] = store[r].next]
    BY DEF FinishSwap, Goto
<1>2. /\ store[r].at \in Span(r) /\ store[r].at \in Index /\ arr \in [Index -> Values]
      /\ store[r].next # "swap"
    BY <1>1, SpanFacts DEF TreeInv, IndexesInside, TypeOK
<1>3. pc'[r] # "swap"
    BY <1>1, <1>2 DEF TreeInv, TypeOK
<1> SUFFICES ASSUME NEW i \in Index
             PROVE  Settled'[i] = Settled[i]
    OBVIOUS
<1>4. CASE i = store[r].at
  <2>1. Settled[i] = store[r].value
    BY <1>1, <1>4, SettledValues DEF SettledFacts
  <2>2. \A q \in Regions : ~(pc'[q] = "swap" /\ store'[q].at = i)
    BY <1>1, <1>2, <1>3, <1>4, OnlyOwnPending DEF Writing
  <2>3. Settled'[i] = arr'[i]
    BY <2>2, SettledValuesNext DEF SettledFacts
  <2>4. arr'[i] = store[r].value
    BY <1>1, <1>2, <1>4
  <2> QED BY <2>1, <2>3, <2>4
<1>5. CASE i # store[r].at
  <2>1. arr'[i] = arr[i]
    BY <1>1, <1>2, <1>5
  <2>2. \A q \in Regions \ {r} : pc'[q] = pc[q] /\ store'[q] = store[q]
    BY DEF Others
  <2> QED BY <1>3, <1>5, <2>1, <2>2, SettledOutside
<1> QED BY <1>4, <1>5

LEMMA QsortMoves ==
    ASSUME TreeInv, TreeInv', NEW r \in Regions, Others(r), WritesInside(r), Qsort(r)
    PROVE  /\ Moves(r)
           /\ \A i \in Span(r) : Settled'[i] = arr'[i]
<1>1. PICK p \in Bijection(Span(r), Span(r)) : arr' = Rearranged(r, p)
    BY DEF Qsort
<1>2. /\ p \in [Span(r) -> Span(r)]
      /\ \A s, t \in Span(r) : p[s] = p[t] => s = t
      /\ \A t \in Span(r) : \E s \in Span(r) : p[s] = t
    BY BijectionFacts
<1>3. pc[r] = "qsort" /\ pc'[r] = "ended" /\ Span(r) \subseteq Index
    BY SpanFacts DEF Qsort, End, Goto, TreeInv, TypeOK
<1>4. \A i \in Span(r) : arr'[i] = arr[p[i]]
    BY <1>1, <1>2, RearrangedFacts
<1>5. ASSUME NEW i \in Span(r)
      PROVE  Settled'[i] = arr'[i] /\ Settled[i] = arr[i]
  <2>1. \A q \in Regions : ~(pc'[q] = "swap" /\ store'[q].at = i)
    BY <1>3, OnlyOwnPending DEF Writing
  <2>2. Settled'[i] = arr'[i]
    BY <1>3, <2>1, SettledValuesNext DEF SettledFacts
  <2>3. Settled[i] = arr[i]
    BY <1>3, SettledInOwnRegion DEF Writing
  <2> QED BY <2>2, <2>3
<1>6. ASSUME NEW i \in Index \ Span(r)
      PROVE  Settled'[i] = Settled[i]
  <2>1. arr'[i] = arr[i]
    BY DEF WritesInside
  <2>2. \A q \in Regions \ {r} : pc'[q] = pc[q] /\ store'[q] = store[q]
    BY DEF Others
  <2> QED BY <1>3, <2>1, <2>2, SettledOutside
<1> DEFINE P == [k \in Index |-> IF k \in Span(r) THEN p[k] ELSE k]
<1>7. /\ P \in [Index -> Index]
      /\ \A k \in Span(r) : P[k] = p[k] /\ P[k] \in Span(r)
      /\ \A k \in Index \ Span(r) : P[k] = k
    BY <1>2, <1>3
<1> HIDE DEF P
<1>8. \A s, t \in Index : P[s] = P[t] => s = t
    BY <1>2, <1>7
<1>9. \A t \in Index : \E s \in Index : P[s] = t
    BY <1>2, <1>3, <1>7
<1>10. P \in Bijection(Index, Index)
    BY <1>7, <1>8, <1>9, BijectionFacts
<1>11. \A k \in Index : Settled'[k] = Settled[P[k]]
  <2> SUFFICES ASSUME NEW k \in Index
               PROVE  Settled'[k] = Settled[P[k]]
      OBVIOUS
  <2>1. CASE k \in Span(r)
    BY <1>4, <1>5, <1>7, <2>1
  <2>2. CASE k \notin Span(r)
    BY <1>6, <1>7, <2>2
  <2> QED BY <2>1, <2>2
<1>12. Moves(r)
    BY <1>7, <1>10, <1>11 DEF Moves
<1> QED BY <1>5, <1>12

-----------------------------------------------------------------------------
(* Every step keeps SortInv *)

\* Others and WritesInside of the steps of partition and qsort.
LEMMA PartitionFrames ==
    ASSUME TreeInv, NEW r \in Regions,
           \/ ChoosePivot(r) \/ ExtendLeft(r) \/ ExtendRight(r) \/ Exchange(r)
           \/ PlacePivot(r) \/ FinishSwap(r) \/ Qsort(r)
    PROVE  /\ Others(r) /\ pc[r] \in Writing /\ pc[r] \in Early /\ input' = input
           /\ UNCHANGED <<forked, reaped, success>>
<1>1. UNCHANGED <<forked, reaped, success, input>>
    BY DEF ChoosePivot, ExtendLeft, ExtendRight, Exchange, PlacePivot, FinishSwap, Qsort,
           TreeFrame, arguments
<1>2. pc[r] \in Writing /\ pc[r] \in Early
    BY DEF ChoosePivot, ExtendLeft, ExtendRight, Exchange, PlacePivot, FinishSwap, Qsort,
           Scanning, Writing, Early
<1>3. Others(r)
  <2>1. /\ \A q \in Regions \ {r} : pc'[q] = pc[q] /\ store'[q] = store[q]
        /\ \A q \in Regions \ {r} : status'[q] = status[q]
    BY DEF ChoosePivot, ExtendLeft, ExtendRight, Exchange, PlacePivot, FinishSwap, Qsort,
           Swap, Goto, End, TreeInv, TypeOK
  <2>2. \A q \in Regions \ {r} : /\ left_index'[q] = left_index[q]
                                 /\ right_index'[q] = right_index[q]
                                 /\ pivot_val'[q] = pivot_val[q]
    BY DEF ChoosePivot, ExtendLeft, ExtendRight, Exchange, PlacePivot, FinishSwap, Qsort,
           locals, TreeInv, TypeOK
  <2> QED BY <1>1, <2>1, <2>2 DEF Others
<1> QED BY <1>1, <1>2, <1>3

LEMMA SwapFrames ==
    ASSUME TreeInv, NEW r \in Regions,
           ChoosePivot(r) \/ Exchange(r) \/ PlacePivot(r)
    PROVE  /\ WritesInside(r) /\ pc'[r] = "swap" /\ pc[r] # "swap"
           /\ status'[r] = "running" /\ forked[r] = {} /\ forked' = forked
           /\ ChoosePivot(r) =>
                 /\ Swap(r, r[1] + Length(r) \div 2, r[2] - 1, "scan")
                 /\ r[1] + Length(r) \div 2 \in Span(r) /\ r[2] - 1 \in Span(r)
                 /\ store'[r].next = "scan"
           /\ Exchange(r) =>
                 /\ Swap(r, left_index[r], right_index[r], "scan")
                 /\ left_index[r] \in Span(r) /\ right_index[r] \in Span(r)
                 /\ right_index[r] <= r[2] - 2 /\ left_index[r] <= right_index[r]
                 /\ store'[r].next = "scan" /\ ~Wrapped(r)
           /\ PlacePivot(r) =>
                 /\ Swap(r, left_index[r], r[2] - 1, "fork_left")
                 /\ left_index[r] \in Span(r) /\ r[2] - 1 \in Span(r)
                 /\ left_index[r] = right_index[r] + 1
                 /\ store'[r].next = "fork_left" /\ ~Wrapped(r)
<1>1. /\ pc[r] # "swap" /\ pc[r] \in Writing /\ status'[r] = "running"
      /\ forked[r] = {} /\ forked' = forked
  <2>1. pc[r] # "swap" /\ status' = status
    BY DEF ChoosePivot, Exchange, PlacePivot, Scanning
  <2> QED BY <2>1, PartitionFrames, EarlyFacts
<1>2. /\ ChoosePivot(r) =>
            /\ Swap(r, r[1] + Length(r) \div 2, r[2] - 1, "scan")
            /\ r[1] + Length(r) \div 2 \in Span(r) /\ r[2] - 1 \in Span(r)
  <2> SUFFICES ASSUME ChoosePivot(r)
               PROVE  /\ Swap(r, r[1] + Length(r) \div 2, r[2] - 1, "scan")
                      /\ r[1] + Length(r) \div 2 \in Span(r) /\ r[2] - 1 \in Span(r)
      OBVIOUS
  <2>1. Length(r) >= 2 /\ Swap(r, r[1] + Length(r) \div 2, r[2] - 1, "scan")
    BY DEF ChoosePivot
  <2>2. /\ r[1] \in Nat /\ r[2] \in Nat /\ r[2] <= Elements /\ r[1] + 2 <= r[2]
    BY <2>1, RegionFacts DEF Length
  <2> QED BY <2>1, <2>2, SpanFacts DEF Length
<1>3. Exchange(r) \/ PlacePivot(r) => Resumes(r) = "scan" /\ pc[r] = "scan" /\ pc[r] \in Places
    BY DEF Exchange, PlacePivot, Scanning, Resumes, Places
<1>4. Exchange(r) =>
            /\ Swap(r, left_index[r], right_index[r], "scan")
            /\ left_index[r] \in Span(r) /\ right_index[r] \in Span(r)
            /\ right_index[r] <= r[2] - 2 /\ left_index[r] <= right_index[r]
            /\ ~Wrapped(r)
  <2> SUFFICES ASSUME Exchange(r)
               PROVE  /\ Swap(r, left_index[r], right_index[r], "scan")
                      /\ left_index[r] \in Span(r) /\ right_index[r] \in Span(r)
                      /\ right_index[r] <= r[2] - 2 /\ left_index[r] <= right_index[r]
                      /\ ~Wrapped(r)
      OBVIOUS
  <2>1. /\ Swap(r, left_index[r], right_index[r], "scan")
        /\ left_index[r] <= right_index[r] /\ right_index[r] \in Index
    BY DEF Exchange, Scanning
  <2>2. ~Wrapped(r)
    BY <2>1, SortAssumption DEF Wrapped, Index
  <2>3. /\ left_index[r] \in Span(r) /\ right_index[r] \in Span(r)
        /\ right_index[r] <= r[2] - 2
    BY <1>3, <2>1, ScanFacts, SpanFacts
  <2> QED BY <2>1, <2>2, <2>3
<1>5. PlacePivot(r) =>
            /\ Swap(r, left_index[r], r[2] - 1, "fork_left")
            /\ left_index[r] \in Span(r) /\ r[2] - 1 \in Span(r)
            /\ left_index[r] = right_index[r] + 1
            /\ ~Wrapped(r)
  <2> SUFFICES ASSUME PlacePivot(r)
               PROVE  /\ Swap(r, left_index[r], r[2] - 1, "fork_left")
                      /\ left_index[r] \in Span(r) /\ r[2] - 1 \in Span(r)
                      /\ left_index[r] = right_index[r] + 1
                      /\ ~Wrapped(r)
      OBVIOUS
  <2>1. /\ Swap(r, left_index[r], r[2] - 1, "fork_left")
        /\ left_index[r] > right_index[r]
    BY DEF PlacePivot
  <2>2. ~Wrapped(r)
    BY <2>1, SortAssumption DEF Wrapped
  <2>3. /\ left_index[r] \in Span(r) /\ r[2] - 1 \in Span(r)
        /\ left_index[r] = right_index[r] + 1
    BY <1>3, <2>1, <2>2, ScanFacts, SpanFacts
  <2> QED BY <2>1, <2>2, <2>3
<1>6. CASE ChoosePivot(r)
  <2>1. /\ ~Exchange(r) /\ ~PlacePivot(r)
    BY <1>3, <1>6 DEF ChoosePivot
  <2>2. /\ WritesInside(r) /\ pc'[r] = "swap" /\ store'[r].next = "scan"
    BY <1>1, <1>2, <1>6, SwapFacts
  <2> QED BY <1>1, <1>2, <2>1, <2>2
<1>7. CASE Exchange(r)
  <2>1. /\ ~ChoosePivot(r) /\ ~PlacePivot(r)
    <3>1. left_index[r] <= right_index[r] /\ pc[r] = "scan"
      BY <1>7 DEF Exchange, Scanning
    <3>2. left_index[r] \in Nat /\ right_index[r] \in Nat
      BY <1>3, <1>7, ScanFacts
    <3> QED BY <3>1, <3>2 DEF ChoosePivot, PlacePivot
  <2>2. /\ WritesInside(r) /\ pc'[r] = "swap" /\ store'[r].next = "scan"
    BY <1>1, <1>4, <1>7, SwapFacts
  <2> QED BY <1>1, <1>4, <1>7, <2>1, <2>2
<1>8. CASE PlacePivot(r)
  <2>1. /\ ~ChoosePivot(r) /\ ~Exchange(r)
    <3>1. left_index[r] > right_index[r] /\ pc[r] = "scan"
      BY <1>8 DEF PlacePivot
    <3>2. left_index[r] \in Nat /\ right_index[r] \in Nat
      BY <1>3, <1>8, ScanFacts
    <3> QED BY <3>1, <3>2 DEF ChoosePivot, Exchange, Scanning
  <2>2. /\ WritesInside(r) /\ pc'[r] = "swap" /\ store'[r].next = "fork_left"
    BY <1>1, <1>5, <1>8, SwapFacts
  <2> QED BY <1>1, <1>5, <1>8, <2>1, <2>2
<1> QED BY <1>6, <1>7, <1>8

LEMMA ChoosePivotSorts ==
    ASSUME TreeInv, TreeInv', SortInv, NEW r \in Regions, ChoosePivot(r)
    PROVE  SortInv'
<1> DEFINE middle == r[1] + Length(r) \div 2
<1>1. /\ WritesInside(r) /\ pc'[r] = "swap" /\ pc[r] # "swap"
      /\ status'[r] = "running" /\ forked'[r] = {}
      /\ Swap(r, middle, r[2] - 1, "scan")
      /\ middle \in Span(r) /\ r[2] - 1 \in Span(r) /\ store'[r].next = "scan"
    BY SwapFrames
<1>2. /\ pivot_val' = [pivot_val EXCEPT ![r] = arr[middle]]
      /\ left_index' = [left_index EXCEPT ![r] = r[1]]
      /\ right_index' = [right_index EXCEPT ![r] = r[1] + (Length(r) - 2)]
      /\ pc[r] = "quicksort"
    BY DEF ChoosePivot
<1> HIDE DEF middle
<1>3. /\ Others(r) /\ pc[r] \in Writing /\ pc[r] \in Early /\ input' = input
    BY PartitionFrames
<1>4. Moves(r) /\ Settled'[r[2] - 1] = Settled[middle]
    BY <1>1, <1>3, SwapMoves
<1>5. Settled[middle] = arr[middle]
    BY <1>1, <1>3, SettledInOwnRegion
<1>6. /\ pivot_val'[r] = arr[middle] /\ left_index'[r] = r[1]
      /\ right_index'[r] = r[1] + (Length(r) - 2)
    BY <1>2 DEF TreeInv, TypeOK
<1>7. r[1] \in Nat /\ r[2] \in Nat /\ r[1] + (Length(r) - 2) = r[2] - 2
    BY RegionFacts DEF Length
<1>8. Resumes(r)' = "scan"
    BY <1>1 DEF Resumes
<1>9. PartsSoFar(r)'
    BY <1>4, <1>5, <1>6, <1>7 DEF PartsSoFar
<1>10. WellPlaced(r)'
    BY <1>1, <1>8, <1>9 DEF WellPlaced, Parted, Forking
<1> QED BY <1>1, <1>3, <1>4, <1>10, MovesKeepSorting DEF Early

LEMMA ExchangeSorts ==
    ASSUME TreeInv, TreeInv', SortInv, NEW r \in Regions, Exchange(r)
    PROVE  SortInv'
<1>1. /\ WritesInside(r) /\ pc'[r] = "swap" /\ pc[r] # "swap"
      /\ status'[r] = "running" /\ forked'[r] = {}
      /\ Swap(r, left_index[r], right_index[r], "scan")
      /\ left_index[r] \in Span(r) /\ right_index[r] \in Span(r)
      /\ right_index[r] <= r[2] - 2 /\ left_index[r] <= right_index[r]
      /\ store'[r].next = "scan" /\ ~Wrapped(r)
    BY SwapFrames
<1>2. left_index' = left_index /\ right_index' = right_index /\ pivot_val' = pivot_val
    BY DEF Exchange, locals
<1>3. /\ Others(r) /\ pc[r] \in Writing /\ pc[r] \in Early /\ input' = input
    BY PartitionFrames
<1>4. /\ Moves(r)
      /\ \A k \in Index \ {left_index[r], right_index[r]} : Settled'[k] = Settled[k]
    BY <1>1, <1>3, SwapMoves
<1>5. Resumes(r)' = "scan" /\ Resumes(r) = "scan" /\ pc[r] \in Places
    BY <1>1 DEF Resumes, Exchange, Scanning, Places
<1>6. /\ \A i : i \in Span(r) <=> i \in Int /\ r[1] <= i /\ i < r[2]
      /\ Span(r) \subseteq Index /\ r[1] \in Nat /\ r[2] \in Nat
    BY SpanFacts, RegionFacts
<1>7. ASSUME WellPlaced(r)
      PROVE  WellPlaced(r)'
  <2>1. /\ \A i \in r[1]..left_index[r] - 1 : Settled[i] < pivot_val[r]
        /\ \A i \in right_index[r] + 1..r[2] - 2 : Settled[i] >= pivot_val[r]
        /\ Settled[r[2] - 1] = pivot_val[r]
    BY <1>1, <1>5, <1>7 DEF WellPlaced, PartsSoFar
  <2>2. \A i \in r[1]..left_index[r] - 1 : Settled'[i] = Settled[i]
    BY <1>1, <1>4, <1>6
  <2>3. \A i \in right_index[r] + 1..r[2] - 2 : Settled'[i] = Settled[i]
    BY <1>1, <1>4, <1>6
  <2>4. Settled'[r[2] - 1] = Settled[r[2] - 1]
    BY <1>1, <1>4, <1>6
  <2>5. PartsSoFar(r)'
    BY <1>2, <2>1, <2>2, <2>3, <2>4 DEF PartsSoFar
  <2> QED BY <1>1, <1>5, <2>5 DEF WellPlaced, Parted, Forking
<1> QED BY <1>1, <1>3, <1>4, <1>7, MovesKeepSorting DEF Early

LEMMA PlacePivotSorts ==
    ASSUME TreeInv, TreeInv', SortInv, NEW r \in Regions, PlacePivot(r)
    PROVE  SortInv'
<1>1. /\ WritesInside(r) /\ pc'[r] = "swap" /\ pc[r] # "swap"
      /\ status'[r] = "running" /\ forked'[r] = {}
      /\ Swap(r, left_index[r], r[2] - 1, "fork_left")
      /\ left_index[r] \in Span(r) /\ r[2] - 1 \in Span(r)
      /\ left_index[r] = right_index[r] + 1
      /\ store'[r].next = "fork_left" /\ ~Wrapped(r)
    BY SwapFrames
<1>2. left_index' = left_index /\ right_index' = right_index /\ pivot_val' = pivot_val
    BY DEF PlacePivot, locals
<1>3. /\ Others(r) /\ pc[r] \in Writing /\ pc[r] \in Early /\ input' = input
    BY PartitionFrames
<1>4. /\ Moves(r)
      /\ \A k \in Index \ {left_index[r], r[2] - 1} : Settled'[k] = Settled[k]
      /\ Settled'[left_index[r]] = Settled[r[2] - 1]
      /\ Settled'[r[2] - 1] = Settled[left_index[r]]
    BY <1>1, <1>3, SwapMoves
<1>5. Resumes(r)' = "fork_left" /\ Resumes(r) = "scan"
    BY <1>1 DEF Resumes, PlacePivot
<1>6. /\ \A i : i \in Span(r) <=> i \in Int /\ r[1] <= i /\ i < r[2]
      /\ Span(r) \subseteq Index /\ r[1] \in Nat /\ r[2] \in Nat
    BY SpanFacts, RegionFacts
<1>7. ASSUME WellPlaced(r)
      PROVE  WellPlaced(r)'
  <2>1. /\ \A i \in r[1]..left_index[r] - 1 : Settled[i] < pivot_val[r]
        /\ \A i \in left_index[r]..r[2] - 2 : Settled[i] >= pivot_val[r]
        /\ Settled[r[2] - 1] = pivot_val[r]
    BY <1>1, <1>5, <1>7 DEF WellPlaced, PartsSoFar
  <2>2. \A i \in r[1]..left_index[r] - 1 : Settled'[i] = Settled[i]
    BY <1>1, <1>4, <1>6
  <2>3. ASSUME NEW i \in left_index[r] + 1..r[2] - 1
        PROVE  Settled'[i] >= pivot_val[r]
    <3>1. CASE i = r[2] - 1
      <4>1. left_index[r] \in left_index[r]..r[2] - 2
        BY <1>1, <1>6, <2>3, <3>1
      <4> QED BY <1>4, <2>1, <3>1, <4>1
    <3>2. CASE i # r[2] - 1
      <4>1. i \in left_index[r]..r[2] - 2 /\ i \in Index /\ i # left_index[r]
        BY <1>1, <1>6, <2>3, <3>2
      <4> QED BY <1>4, <2>1, <3>2, <4>1
    <3> QED BY <3>1, <3>2
  <2>4. Parted(r)'
    BY <1>2, <1>4, <2>1, <2>2, <2>3 DEF Parted
  <2> QED BY <1>1, <1>5, <2>4 DEF WellPlaced, PartsSoFar
<1> QED BY <1>1, <1>3, <1>4, <1>7, MovesKeepSorting DEF Early

LEMMA ExtendLeftSorts ==
    ASSUME TreeInv, TreeInv', SortInv, NEW r \in Regions, ExtendLeft(r)
    PROVE  SortInv'
<1>1. /\ pc[r] = "scan" /\ arr[left_index[r]] < pivot_val[r]
      /\ left_index[r] <= right_index[r]
      /\ left_index' = [left_index EXCEPT ![r] = left_index[r] + 1]
      /\ UNCHANGED <<arr, pc, right_index, pivot_val, store, status>>
    BY DEF ExtendLeft, Scanning
<1>2. /\ Others(r) /\ pc[r] \in Writing /\ pc[r] \in Early /\ input' = input
      /\ forked' = forked
    BY PartitionFrames
<1>3. WritesInside(r)
    BY <1>1 DEF WritesInside
<1>4. \A i \in Index : Settled'[i] = Settled[i]
    BY <1>1, QuietIsStill
<1>5. Resumes(r) = "scan" /\ Resumes(r)' = "scan" /\ pc[r] \in Places
    BY <1>1 DEF Resumes, Places
<1>6. ~Wrapped(r)
  <2> SUFFICES ASSUME Wrapped(r)
               PROVE  FALSE
      OBVIOUS
  <2>1. left_index[r] = 0 /\ arr[0] >= pivot_val[r]
    BY DEF Wrapped
  <2>2. arr[0] < pivot_val[r]
    BY <1>1, <2>1
  <2>3. arr[0] \in Int /\ pivot_val[r] \in Int
    BY IntFacts, SortAssumption DEF Index
  <2> QED BY <2>1, <2>2, <2>3
<1>7. /\ left_index[r] \in Nat /\ r[1] <= left_index[r] /\ left_index[r] \in Span(r)
      /\ forked[r] = {} /\ r[1] \in Nat /\ r[2] \in Nat
    BY <1>5, ScanFacts, SpanFacts
<1>8. Settled[left_index[r]] = arr[left_index[r]]
    BY <1>1, <1>2, <1>7, SettledInOwnRegion
<1>9. left_index'[r] = left_index[r] + 1 /\ status'[r] = "running"
    BY <1>1, <1>2, EarlyFacts DEF TreeInv, TypeOK
<1>10. /\ \A i \in r[1]..left_index[r] : i \in Index
       /\ \A i \in right_index[r] + 1..r[2] - 2 : i \in Index
       /\ r[2] - 1 \in Index
    BY <1>1, <1>5, <1>6, <1>7, ScanFacts, SpanFacts
<1>11. ASSUME WellPlaced(r)
       PROVE  WellPlaced(r)'
  <2>1. /\ \A i \in r[1]..left_index[r] - 1 : Settled[i] < pivot_val[r]
        /\ \A i \in right_index[r] + 1..r[2] - 2 : Settled[i] >= pivot_val[r]
        /\ Settled[r[2] - 1] = pivot_val[r]
    BY <1>5, <1>6, <1>11 DEF WellPlaced, PartsSoFar
  <2>2. \A i \in r[1]..left_index[r] : Settled[i] < pivot_val[r]
    BY <1>1, <1>7, <1>8, <2>1
  <2>3. \A i \in r[1]..left_index'[r] - 1 : Settled'[i] < pivot_val[r]
    BY <1>4, <1>7, <1>9, <1>10, <2>2
  <2>4. PartsSoFar(r)'
    BY <1>1, <1>4, <1>10, <2>1, <2>3 DEF PartsSoFar
  <2> QED BY <1>2, <1>5, <1>7, <1>9, <2>4 DEF WellPlaced, Parted, Forking
<1> QED BY <1>2, <1>3, <1>4, <1>11, MovesKeepSorting DEF Early

LEMMA ExtendRightSorts ==
    ASSUME TreeInv, TreeInv', SortInv, NEW r \in Regions, ExtendRight(r)
    PROVE  SortInv'
<1>1. /\ pc[r] = "scan" /\ arr[left_index[r]] >= pivot_val[r]
      /\ left_index[r] <= right_index[r] /\ right_index[r] \in Index
      /\ arr[right_index[r]] >= pivot_val[r]
      /\ right_index' = [right_index EXCEPT ![r] = Below(right_index[r])]
      /\ UNCHANGED <<arr, pc, left_index, pivot_val, store, status>>
    BY DEF ExtendRight, Scanning
<1>2. /\ Others(r) /\ pc[r] \in Writing /\ pc[r] \in Early /\ input' = input
      /\ forked' = forked
    BY PartitionFrames
<1>3. WritesInside(r)
    BY <1>1 DEF WritesInside
<1>4. \A i \in Index : Settled'[i] = Settled[i]
    BY <1>1, QuietIsStill
<1>5. Resumes(r) = "scan" /\ Resumes(r)' = "scan" /\ pc[r] \in Places
    BY <1>1 DEF Resumes, Places
<1>6. ~Wrapped(r)
    BY <1>1, SortAssumption DEF Wrapped, Index
<1>7. /\ right_index[r] \in Nat /\ right_index[r] < WordSize
      /\ right_index[r] <= r[2] - 2 /\ right_index[r] \in Span(r)
      /\ left_index[r] \in Nat /\ r[1] <= left_index[r] /\ left_index[r] <= r[2] - 1
      /\ forked[r] = {} /\ r[1] \in Nat /\ r[2] \in Nat
    BY <1>1, <1>5, ScanFacts, SpanFacts
<1>8. Settled[right_index[r]] = arr[right_index[r]]
    BY <1>1, <1>2, <1>7, SettledInOwnRegion
<1>9. right_index'[r] = Below(right_index[r]) /\ status'[r] = "running"
    BY <1>1, <1>2, EarlyFacts DEF TreeInv, TypeOK
<1>10. /\ \A i \in r[1]..left_index[r] - 1 : i \in Index
       /\ \A i \in right_index[r]..r[2] - 2 : i \in Index
       /\ r[2] - 1 \in Index
    BY <1>7, SpanFacts
<1>11. ASSUME WellPlaced(r), ~Wrapped(r)'
       PROVE  /\ \A i \in r[1]..left_index[r] - 1 : Settled[i] < pivot_val[r]
              /\ \A i \in right_index[r]..r[2] - 2 : Settled[i] >= pivot_val[r]
              /\ Settled[r[2] - 1] = pivot_val[r]
              /\ right_index'[r] + 1 = right_index[r]
  <2>1. /\ \A i \in r[1]..left_index[r] - 1 : Settled[i] < pivot_val[r]
        /\ \A i \in right_index[r] + 1..r[2] - 2 : Settled[i] >= pivot_val[r]
        /\ Settled[r[2] - 1] = pivot_val[r]
    BY <1>5, <1>6, <1>11 DEF WellPlaced, PartsSoFar
  <2>2. \A i \in right_index[r]..r[2] - 2 : Settled[i] >= pivot_val[r]
    BY <1>1, <1>7, <1>8, <2>1
  <2>3. right_index[r] # 0
    <3>1. ASSUME right_index[r] = 0
          PROVE  Wrapped(r)'
      <4>1. left_index[r] = 0 /\ r[1] = 0 /\ right_index'[r] = WordSize - 1
        BY <1>1, <1>7, <1>9, <3>1, BelowFacts
      <4> QED BY <1>1, <4>1 DEF Wrapped
    <3> QED BY <1>11, <3>1
  <2>4. right_index'[r] + 1 = right_index[r]
    BY <1>7, <1>9, <2>3, BelowFacts
  <2> QED BY <2>1, <2>2, <2>4
<1>12. ASSUME WellPlaced(r)
       PROVE  WellPlaced(r)'
  <2>1. PartsSoFar(r)'
    <3> SUFFICES ASSUME ~Wrapped(r)'
                 PROVE  /\ \A i \in r[1]..left_index[r] - 1 : Settled'[i] < pivot_val[r]
                        /\ \A i \in right_index'[r] + 1..r[2] - 2 : Settled'[i] >= pivot_val[r]
                        /\ Settled'[r[2] - 1] = pivot_val[r]
        BY <1>1 DEF PartsSoFar
    <3> QED BY <1>4, <1>10, <1>11, <1>12
  <2> QED BY <1>2, <1>5, <1>7, <1>9, <2>1 DEF WellPlaced, Parted, Forking
<1> QED BY <1>2, <1>3, <1>4, <1>12, MovesKeepSorting DEF Early

LEMMA FinishSwapSorts ==
    ASSUME TreeInv, TreeInv', SortInv, NEW r \in Regions, FinishSwap(r)
    PROVE  SortInv'
<1>1. /\ pc[r] = "swap" /\ arr' = [arr EXCEPT ![store[r].at] = store[r].value]
      /\ pc' = [pc EXCEPT ![r] = store[r].next]
      /\ UNCHANGED <<left_index, right_index, pivot_val, status>>
    BY DEF FinishSwap, Goto, locals
<1>2. /\ Others(r) /\ pc[r] \in Writing /\ pc[r] \in Early /\ input' = input
      /\ forked' = forked
    BY PartitionFrames
<1>3. /\ store[r].at \in Span(r) /\ store[r].next \in {"scan", "fork_left"}
    BY <1>1 DEF TreeInv, IndexesInside
<1>4. WritesInside(r)
    BY <1>1, <1>2, <1>3 DEF WritesInside, TreeInv, TypeOK
<1>5. \A i \in Index : Settled'[i] = Settled[i]
    BY <1>2, <1>4, FinishSwapIsStill
<1>6. /\ pc'[r] = store[r].next /\ Resumes(r) = store[r].next /\ Resumes(r)' = store[r].next
      /\ ~Wrapped(r) /\ forked[r] = {} /\ status'[r] = "running"
    BY <1>1, <1>2, <1>3, EarlyFacts DEF Resumes, Wrapped, TreeInv, TypeOK
<1>7. ASSUME WellPlaced(r)
      PROVE  WellPlaced(r)'
  <2>1. CASE store[r].next = "scan"
    <3>1. /\ r[1] \in Nat /\ r[2] \in Nat /\ r[1] + 2 <= r[2]
          /\ left_index[r] \in Nat /\ r[1] <= left_index[r] /\ left_index[r] <= r[2] - 1
          /\ right_index[r] \in Nat /\ left_index[r] <= right_index[r] + 1
      BY <1>6, <2>1, ScanFacts DEF TreeInv, TypeOK
    <3>2. /\ \A i \in r[1]..left_index[r] - 1 : i \in Index
          /\ \A i \in right_index[r] + 1..r[2] - 2 : i \in Index
          /\ r[2] - 1 \in Index
      BY <3>1, SpanFacts
    <3>3. /\ \A i \in r[1]..left_index[r] - 1 : Settled[i] < pivot_val[r]
          /\ \A i \in right_index[r] + 1..r[2] - 2 : Settled[i] >= pivot_val[r]
          /\ Settled[r[2] - 1] = pivot_val[r]
      BY <1>6, <1>7, <2>1 DEF WellPlaced, PartsSoFar
    <3>4. PartsSoFar(r)'
      BY <1>1, <1>5, <3>2, <3>3 DEF PartsSoFar
    <3> QED BY <1>2, <1>6, <2>1, <3>4 DEF WellPlaced, Parted, Forking
  <2>2. CASE store[r].next = "fork_left"
    <3>1. left_index[r] \in Span(r) /\ r[1] \in Nat /\ r[2] \in Nat
      BY <1>6, <2>2, RegionFacts DEF TreeInv, IndexesInside, Forking
    <3>2. /\ \A i \in r[1]..left_index[r] - 1 : i \in Index
          /\ \A i \in left_index[r] + 1..r[2] - 1 : i \in Index
          /\ left_index[r] \in Index
      BY <3>1, SpanFacts
    <3>3. /\ \A i \in r[1]..left_index[r] - 1 : Settled[i] < pivot_val[r]
          /\ \A i \in left_index[r] + 1..r[2] - 1 : Settled[i] >= pivot_val[r]
          /\ Settled[left_index[r]] = pivot_val[r]
      BY <1>6, <1>7, <2>2 DEF WellPlaced, Parted, Forking
    <3>4. Parted(r)'
      BY <1>1, <1>5, <3>2, <3>3 DEF Parted
    <3> QED BY <1>6, <2>2, <3>4 DEF WellPlaced, PartsSoFar
  <2> QED BY <1>3, <2>1, <2>2
<1> QED BY <1>2, <1>4, <1>5, <1>7, MovesKeepSorting DEF Early

LEMMA QsortSorts ==
    ASSUME TreeInv, TreeInv', SortInv, NEW r \in Regions, Qsort(r)
    PROVE  SortInv'
<1>1. /\ Others(r) /\ pc[r] \in Writing /\ pc[r] \in Early /\ input' = input
      /\ forked' = forked
    BY PartitionFrames
<1>2. PICK p \in Bijection(Span(r), Span(r)) : arr' = Rearranged(r, p)
    BY DEF Qsort
<1>3. IsSorted(arr', Span(r)) /\ pc'[r] = "ended"
    BY DEF Qsort, End, Goto, TreeInv, TypeOK
<1>4. WritesInside(r)
    BY <1>1, <1>2, BijectionFacts, RearrangedFacts DEF WritesInside
<1>5. Moves(r) /\ \A i \in Span(r) : Settled'[i] = arr'[i]
    BY <1>1, <1>4, QsortMoves
<1>6. IsSorted(Settled', Span(r))
    BY <1>3, <1>5 DEF IsSorted
<1>7. IsSorted(Settled, Span(r))'
    BY <1>6 DEF IsSorted, Span
<1>8. forked'[r] = {}
    BY <1>1, EarlyFacts
<1>9. WellPlaced(r)'
    BY <1>3, <1>7, <1>8 DEF WellPlaced, PartsSoFar, Parted, Resumes, Forking
<1> QED BY <1>1, <1>4, <1>5, <1>9, MovesKeepSorting DEF Early

\* A step of r that stores nothing.
LEMMA QuietSorts ==
    ASSUME TreeInv, TreeInv', SortInv, NEW r \in Regions, Others(r),
           arr' = arr, store' = store, input' = input,
           pc[r] \notin {"none", "ended", "swap"}, pc'[r] # "swap",
           /\ \A i \in Index : Settled'[i] = Settled[i]
           /\ NobodyKilled /\ WellPlaced(r)
           => WellPlaced(r)'
    PROVE  SortInv'
<1>1. \A q \in Regions : pc'[q] = "swap" <=> pc[q] = "swap"
    BY DEF Others
<1>2. \A i \in Index : Settled'[i] = Settled[i]
    BY <1>1, QuietIsStill
<1>3. WritesInside(r)
    BY DEF WritesInside
<1> QED BY <1>2, <1>3, MovesKeepSorting

\* A process that has not partitioned, and succeeds with nothing to sort at most.
LEMMA WellPlacedEarly ==
    ASSUME NEW r \in Regions, forked'[r] = {},
           pc'[r] \notin Forking \cup {"scan", "swap"},
           status'[r] = "0" => Length(r) < 2
    PROVE  WellPlaced(r)'
<1>1. PartsSoFar(r)' /\ Parted(r)'
    BY DEF PartsSoFar, Parted, Resumes
<1>2. ASSUME status'[r] = "0"
      PROVE  IsSorted(Settled, Span(r))'
  <2>1. r[1] \in Nat /\ r[2] \in Nat /\ r[2] - r[1] < 2
    BY <1>2, RegionFacts DEF Length
  <2>2. \A i, j \in Span(r) : ~(i < j)
    BY <2>1, SpanFacts
  <2> QED BY <2>2 DEF IsSorted, Span
<1> QED BY <1>1, <1>2 DEF WellPlaced

LEMMA CallSorts ==
    ASSUME TreeInv, TreeInv', SortInv, OpenFile \/ FindSize \/ MapFile
    PROVE  SortInv'
<1>1. /\ pc[Root] \in {"open", "fstat", "mmap"}
      /\ \/ /\ \E next \in {"fstat", "mmap", "quicksort"} : Goto(Root, next)
            /\ UNCHANGED status
         \/ End(Root, "1")
      /\ UNCHANGED <<arr, arguments, locals, store, forked, reaped, success>>
    BY DEF OpenFile, FindSize, MapFile, Call, TreeFrame
<1>2. Others(Root) /\ arr' = arr /\ store' = store /\ input' = input
    BY <1>1 DEF Others, Goto, End, TreeInv, TypeOK, locals, arguments
<1>3. /\ pc'[Root] \in {"fstat", "mmap", "quicksort", "ended"}
      /\ status'[Root] \in {status[Root], "1"}
    BY <1>1, RegionFacts DEF Goto, End, TreeInv, TypeOK
<1>4. forked[Root] = {} /\ status[Root] = "running"
    BY <1>1, RegionFacts, EarlyFacts DEF Early
<1>5. WellPlaced(Root)'
    BY <1>1, <1>3, <1>4, RegionFacts, WellPlacedEarly DEF Forking
<1> QED BY <1>1, <1>2, <1>3, <1>5, RegionFacts, QuietSorts

LEMMA SmallSorts ==
    ASSUME TreeInv, TreeInv', SortInv, NEW r \in Regions,
           SortNothing(r) \/ CallQsort(r) \/ ReadOutside(r)
    PROVE  SortInv'
<1>1. /\ pc[r] \in {"quicksort", "scan"}
      /\ \/ Goto(r, "qsort") /\ UNCHANGED status
         \/ End(r, "0") /\ Length(r) < 2
         \/ End(r, "crashed")
      /\ UNCHANGED <<arr, arguments, locals, store, forked, reaped, success>>
    BY DEF SortNothing, CallQsort, ReadOutside, Scanning, TreeFrame
<1>2. Others(r) /\ arr' = arr /\ store' = store /\ input' = input
    BY <1>1 DEF Others, Goto, End, TreeInv, TypeOK, locals, arguments
<1>3. forked[r] = {} /\ status[r] = "running"
    BY <1>1, EarlyFacts DEF Early
<1>4. /\ pc'[r] \in {"qsort", "ended"}
      /\ status'[r] = "0" => Length(r) < 2
    BY <1>1, <1>3 DEF Goto, End, TreeInv, TypeOK
<1>5. WellPlaced(r)'
    BY <1>1, <1>3, <1>4, WellPlacedEarly DEF Forking
<1> QED BY <1>1, <1>2, <1>4, <1>5, QuietSorts

\* The parts of a process that forks and waits stay what they are.
LEMMA PartsStay ==
    ASSUME TreeInv, NEW r \in Regions, pc[r] \in Forking,
           \A i \in Index : Settled'[i] = Settled[i],
           left_index' = left_index, pivot_val' = pivot_val,
           pc'[r] \notin {"scan", "swap"}, WellPlaced(r),
           status'[r] = "0" => IsSorted(Settled, Span(r))
    PROVE  WellPlaced(r)'
<1>1. left_index[r] \in Span(r) /\ r[1] \in Nat /\ r[2] \in Nat
    BY ForkingFacts, RegionFacts
<1>2. /\ \A i \in r[1]..left_index[r] - 1 : i \in Index
      /\ \A i \in left_index[r] + 1..r[2] - 1 : i \in Index
      /\ left_index[r] \in Index /\ Span(r) \subseteq Index
    BY <1>1, SpanFacts
<1>3. /\ \A i \in r[1]..left_index[r] - 1 : Settled[i] < pivot_val[r]
      /\ \A i \in left_index[r] + 1..r[2] - 1 : Settled[i] >= pivot_val[r]
      /\ Settled[left_index[r]] = pivot_val[r]
    BY DEF WellPlaced, Parted, Resumes, Forking
<1>4. Parted(r)'
    BY <1>2, <1>3 DEF Parted
<1>5. PartsSoFar(r)'
    BY DEF PartsSoFar, Resumes
<1>6. status'[r] = "0" => IsSorted(Settled, Span(r))'
    BY <1>2 DEF IsSorted, Span
<1> QED BY <1>4, <1>5, <1>6 DEF WellPlaced

LEMMA ForkFailsSorts ==
    ASSUME TreeInv, TreeInv', SortInv, NEW r \in Regions,
           NEW next \in {"fork_right", "wait_left"}, pc[r] \in Forking, ForkFails(r, next),
           UNCHANGED <<arr, arguments, locals, store, reaped, success, status>>
    PROVE  SortInv'
<1>1. pc' = [pc EXCEPT ![r] = next] /\ forked' = forked
    BY DEF ForkFails, Goto
<1>2. pc'[r] = next /\ Others(r)
    BY <1>1 DEF Others, TreeInv, TypeOK, locals
<1>3. /\ arr' = arr /\ store' = store /\ input' = input
      /\ left_index' = left_index /\ pivot_val' = pivot_val /\ status' = status
    BY DEF locals, arguments
<1>4. status[r] = "running"
    BY ForkingFacts
<1>5. pc[r] \notin {"none", "ended", "swap"} /\ pc'[r] \notin {"scan", "swap"}
    BY <1>2 DEF Forking
<1> QED BY <1>2, <1>3, <1>4, <1>5, PartsStay, QuietSorts

LEMMA ForkSorts ==
    ASSUME TreeInv, TreeInv', SortInv, NEW r \in Regions, NEW side \in {"left", "right"},
           NEW next \in {"fork_right", "wait_left"},
           \/ pc[r] = "fork_left" /\ side = "left" /\ next = "fork_right"
           \/ pc[r] = "fork_right" /\ side = "right" /\ next = "wait_left",
           Fork(r, side, next),
           UNCHANGED <<arr, arguments, locals, store, reaped, success, status>>
    PROVE  SortInv'
<1>0. PICK n \in Regions : n = Child(r, side)
    BY ForkingFacts DEF Forking
<1>1. pc[r] \in Forking /\ pc[r] \notin {"none", "ended"} /\ side \notin forked[r]
    BY ForkingFacts DEF Forking
<1>2. pc[n] = "none" /\ n # r
    BY <1>0, <1>1, ChildIsFresh
<1>3. /\ forked' = [forked EXCEPT ![r] = forked[r] \cup {side}]
      /\ pc' = [pc EXCEPT ![r] = next, ![n] = "quicksort"]
    BY <1>0 DEF Fork
<1>4. /\ \A q \in Regions \ {r} : forked'[q] = forked[q]
      /\ pc'[r] = next /\ pc'[n] = "quicksort"
      /\ \A q \in Regions \ {r, n} : pc'[q] = pc[q]
    BY <1>2, <1>3 DEF TreeInv, TypeOK
<1>5. /\ left_index' = left_index /\ right_index' = right_index
      /\ pivot_val' = pivot_val /\ arr' = arr /\ input' = input
      /\ store' = store /\ status' = status
    BY DEF locals, arguments
<1>6. \A q \in Regions : pc'[q] = "swap" <=> pc[q] = "swap"
    BY <1>1, <1>2, <1>4 DEF Forking
<1>7. \A i \in Index : Settled'[i] = Settled[i]
    BY <1>5, <1>6, QuietIsStill
<1> SUFFICES ASSUME NobodyKilled'
             PROVE  IsPermutation(Settled, input)' /\ \A q \in Regions : WellPlaced(q)'
    BY DEF SortInv
<1>8. IsPermutation(Settled, input) /\ \A q \in Regions : WellPlaced(q)
    BY <1>5 DEF SortInv, NobodyKilled
<1>9. IsPermutation(Settled, input)'
    BY <1>5, <1>7, <1>8 DEF IsPermutation
<1>10. ASSUME NEW q \in Regions
       PROVE  WellPlaced(q)'
  <2>1. CASE q = r
    <3>1. status[r] = "running" /\ pc'[r] \notin {"scan", "swap"}
      BY <1>1, <1>4, ForkingFacts
    <3> QED BY <1>1, <1>5, <1>7, <1>8, <2>1, <3>1, PartsStay
  <2>2. CASE q = n
    <3>1. forked'[n] = {} /\ status'[n] = "running"
      BY <1>2, <1>4, <1>5 DEF TreeInv, TypeOK, InOrder
    <3> QED BY <1>4, <2>2, <3>1, WellPlacedEarly DEF Forking
  <2>3. CASE q \notin {r, n}
    <3>1. SameProcess(q)
      BY <1>4, <1>5, <2>3 DEF SameProcess
    <3>2. Wrapped(q) => Wrapped(q)'
      BY <1>4, <1>5, <2>3 DEF Wrapped
    <3> QED BY <1>7, <1>8, <3>1, <3>2, StillKeeps
  <2> QED BY <2>1, <2>2, <2>3
<1> QED BY <1>9, <1>10

LEMMA ForkAnySorts ==
    ASSUME TreeInv, TreeInv', SortInv, NEW r \in Regions, ForkLeft(r) \/ ForkRight(r)
    PROVE  SortInv'
<1>1. CASE ForkLeft(r)
    BY <1>1, ForkSorts, ForkFailsSorts DEF ForkLeft, Forking
<1>2. CASE ForkRight(r)
    BY <1>2, ForkSorts, ForkFailsSorts DEF ForkRight, Forking
<1> QED BY <1>1, <1>2

LEMMA WaitLeftSorts ==
    ASSUME TreeInv, TreeInv', SortInv, NEW r \in Regions, WaitLeft(r)
    PROVE  SortInv'
<1>1. /\ pc[r] = "wait_left" /\ pc[r] \in Forking /\ WaitFor(r, "left")
      /\ pc' = [pc EXCEPT ![r] = "wait_right"]
      /\ UNCHANGED <<arr, arguments, locals, store, forked, status>>
    BY DEF WaitLeft, Forking, Goto
<1>2. \A q \in Regions \ {r} : success'[q] = success[q]
    BY <1>1, WaitFacts
<1>3. pc'[r] = "wait_right" /\ Others(r)
    BY <1>1, <1>2 DEF Others, TreeInv, TypeOK, locals
<1>4. /\ arr' = arr /\ store' = store /\ input' = input
      /\ left_index' = left_index /\ pivot_val' = pivot_val /\ status' = status
    BY <1>1 DEF locals, arguments
<1>5. status[r] = "running"
    BY <1>1, ForkingFacts
<1> QED BY <1>1, <1>3, <1>4, <1>5, PartsStay, QuietSorts

\* Two sorted parts with their pivot in between are a sorted region.
LEMMA PartsAreSorted ==
    ASSUME TreeInv, NEW r \in Regions, left_index[r] \in Span(r),
           forked[r] # {}, Parted(r), \A i \in Index : Settled[i] \in Int,
           IsSorted(Settled, Span(Child(r, "left"))),
           IsSorted(Settled, Span(Child(r, "right")))
    PROVE  IsSorted(Settled, Span(r))
<1>1. /\ r[1] \in Nat /\ r[2] \in Nat /\ left_index[r] \in Int
      /\ \A i : i \in Span(r) <=> i \in Int /\ r[1] <= i /\ i < r[2]
      /\ Span(r) \subseteq Index
    BY RegionFacts, SpanFacts
<1>2. /\ Child(r, "left") \in Regions /\ Child(r, "right") \in Regions
      /\ Child(r, "left") = <<r[1], left_index[r]>>
      /\ Child(r, "right") = <<left_index[r] + 1, r[2]>>
    BY ChildFacts DEF Child
<1>3. /\ \A i : i \in Span(Child(r, "left")) <=> i \in Int /\ r[1] <= i /\ i < left_index[r]
      /\ \A i : i \in Span(Child(r, "right")) <=>
                   i \in Int /\ left_index[r] < i /\ i < r[2]
    BY <1>1, <1>2, SpanFacts
<1>4. /\ \A i \in r[1]..left_index[r] - 1 : Settled[i] < pivot_val[r]
      /\ \A i \in left_index[r] + 1..r[2] - 1 : Settled[i] >= pivot_val[r]
      /\ Settled[left_index[r]] = pivot_val[r] /\ pivot_val[r] \in Int
    BY IntFacts DEF Parted
<1> SUFFICES ASSUME NEW i \in Span(r), NEW j \in Span(r), i < j
             PROVE  Settled[i] <= Settled[j]
    BY DEF IsSorted
<1>5. Settled[i] \in Int /\ Settled[j] \in Int /\ i \in Int /\ j \in Int
    BY <1>1
<1>6. CASE j < left_index[r]
    BY <1>1, <1>3, <1>6 DEF IsSorted
<1>7. CASE i > left_index[r]
    BY <1>1, <1>3, <1>7 DEF IsSorted
<1>8. CASE i <= left_index[r] /\ left_index[r] <= j
  <2>1. Settled[i] <= pivot_val[r]
    <3>1. CASE i < left_index[r]
      BY <1>1, <1>4, <1>5, <3>1
    <3>2. CASE i = left_index[r]
      BY <1>4, <3>2
    <3> QED BY <1>1, <1>5, <1>8, <3>1, <3>2
  <2>2. pivot_val[r] <= Settled[j]
    <3>1. CASE j > left_index[r]
      BY <1>1, <1>4, <1>5, <3>1
    <3>2. CASE j = left_index[r]
      BY <1>4, <3>2
    <3> QED BY <1>1, <1>5, <1>8, <3>1, <3>2
  <2> QED BY <1>4, <1>5, <2>1, <2>2
<1> QED BY <1>1, <1>5, <1>6, <1>7, <1>8

LEMMA SettledIsInt ==
    ASSUME TreeInv
    PROVE  \A i \in Index : Settled[i] \in Int
<1> SUFFICES ASSUME NEW i \in Index
             PROVE  Settled[i] \in Int
    OBVIOUS
<1>1. CASE \E q \in Regions : pc[q] = "swap" /\ store[q].at = i
  <2>1. PICK q \in Regions : pc[q] = "swap" /\ store[q].at = i
    BY <1>1
  <2>2. Settled[i] = store[q].value /\ store[q].value \in Values
    BY <2>1, SettledValues DEF SettledFacts, TreeInv, IndexesInside
  <2> QED BY <2>2, SortAssumption
<1>2. CASE \A q \in Regions : ~(pc[q] = "swap" /\ store[q].at = i)
    BY <1>2, SettledValues, IntFacts DEF SettledFacts
<1> QED BY <1>1, <1>2

LEMMA WaitRightSorts ==
    ASSUME TreeInv, TreeInv', SortInv, NEW r \in Regions, WaitRight(r)
    PROVE  SortInv'
<1>1. /\ pc[r] = "wait_right" /\ pc[r] \in Forking /\ WaitFor(r, "right")
      /\ End(r, IF success'[r] = {"left", "right"} THEN "0" ELSE "1")
      /\ UNCHANGED <<arr, arguments, locals, store, forked>>
    BY DEF WaitRight, Forking
<1>2. \A q \in Regions \ {r} : success'[q] = success[q]
    BY <1>1, WaitFacts
<1>3. /\ pc'[r] = "ended"
      /\ status'[r] = IF success'[r] = {"left", "right"} THEN "0" ELSE "1"
      /\ \A q \in Regions \ {r} : pc'[q] = pc[q] /\ status'[q] = status[q]
    BY <1>1 DEF End, Goto, TreeInv, TypeOK
<1>4. Others(r)
    BY <1>1, <1>2, <1>3 DEF Others, locals
<1>5. /\ arr' = arr /\ store' = store /\ input' = input
      /\ left_index' = left_index /\ pivot_val' = pivot_val
    BY <1>1 DEF locals, arguments
<1>6. left_index[r] \in Span(r)
    BY <1>1, ForkingFacts
<1>7. ASSUME NobodyKilled, WellPlaced(r), status'[r] = "0"
      PROVE  IsSorted(Settled, Span(r))
  <2>1. \A side \in {"left", "right"} :
            side \in forked[r] /\ status[Child(r, side)] = "0"
    BY <1>3, <1>7, BothSucceeded
  <2>2. \A side \in {"left", "right"} : Child(r, side) \in Regions
    BY <1>1, ForkingFacts
  <2>3. \A q \in Regions : WellPlaced(q)
    BY <1>7 DEF SortInv
  <2>4. \A side \in {"left", "right"} : IsSorted(Settled, Span(Child(r, side)))
    BY <2>1, <2>2, <2>3 DEF WellPlaced
  <2>5. forked[r] # {} /\ Parted(r)
    BY <1>7, <2>1 DEF WellPlaced
  <2> QED BY <1>6, <2>4, <2>5, PartsAreSorted, SettledIsInt
<1> QED BY <1>1, <1>3, <1>4, <1>5, <1>7, PartsStay, QuietSorts

LEMMA KillSorts ==
    ASSUME TreeInv, NEW r \in Regions, Kill(r)
    PROVE  SortInv'
<1>1. status'[r] = "killed"
    BY DEF Kill, End, TreeInv, TypeOK
<1> QED BY <1>1 DEF SortInv, NobodyKilled

LEMMA UnchangedSorts ==
    ASSUME TreeInv, TreeInv', SortInv, UNCHANGED vars
    PROVE  SortInv'
<1>1. /\ UNCHANGED <<arr, input, file_size, par_threshold, pc, left_index, right_index>>
      /\ UNCHANGED <<pivot_val, store, forked, reaped, success, status>>
    BY DEF vars, arguments, locals
<1>2. \A i \in Index : Settled'[i] = Settled[i]
    BY <1>1, QuietIsStill
<1> SUFFICES ASSUME NobodyKilled'
             PROVE  IsPermutation(Settled, input)' /\ \A q \in Regions : WellPlaced(q)'
    BY DEF SortInv
<1>3. IsPermutation(Settled, input) /\ \A q \in Regions : WellPlaced(q)
    BY <1>1 DEF SortInv, NobodyKilled
<1>4. IsPermutation(Settled, input)'
    BY <1>1, <1>2, <1>3 DEF IsPermutation
<1>5. \A q \in Regions : SameProcess(q) /\ (Wrapped(q) => Wrapped(q)')
    BY <1>1 DEF SameProcess, Wrapped
<1> QED BY <1>2, <1>3, <1>4, <1>5, StillKeeps

LEMMA SortInit == Init => SortInv
<1> SUFFICES ASSUME Init
             PROVE  SortInv
    OBVIOUS
<1>1. /\ arr = input
      /\ \A r \in Regions : /\ pc[r] \in {"none", "open"}
                            /\ forked[r] = {} /\ status[r] = "running"
    BY DEF Init
<1>2. \A i \in Index : Settled[i] = input[i]
    BY <1>1, TreeInit, SettledValues DEF SettledFacts
<1>3. IsPermutation(Settled, input)
  <2> DEFINE p == [i \in Index |-> i]
  <2>1. p \in Bijection(Index, Index) /\ \A i \in Index : p[i] = i
    BY BijectionFacts
  <2> HIDE DEF p
  <2> QED BY <1>2, <2>1 DEF IsPermutation
<1>4. \A r \in Regions : WellPlaced(r)
    BY <1>1 DEF WellPlaced, PartsSoFar, Parted, Resumes, Forking
<1> QED BY <1>3, <1>4 DEF SortInv

\* Unless somebody is killed, the elements are those of the file, up to swaps under
\* way, partition has them on their sides of the pivot, and they stay there.
THEOREM SortInvariant == Spec => []SortInv
<1>1. TreeInv /\ TreeInv' /\ SortInv /\ [Next]_vars => SortInv'
  <2> SUFFICES ASSUME TreeInv, TreeInv', SortInv, [Next]_vars
               PROVE  SortInv'
      OBVIOUS
  <2>1. ASSUME NEW r \in Regions, Step(r)
        PROVE  SortInv'
    <3>1. CASE SortNothing(r) \/ CallQsort(r) \/ ReadOutside(r)
      BY <3>1, SmallSorts
    <3>2. CASE ChoosePivot(r) \/ ExtendLeft(r) \/ ExtendRight(r)
      BY <3>2, ChoosePivotSorts, ExtendLeftSorts, ExtendRightSorts
    <3>3. CASE Qsort(r) \/ FinishSwap(r) \/ Exchange(r) \/ PlacePivot(r)
      BY <3>3, QsortSorts, FinishSwapSorts, ExchangeSorts, PlacePivotSorts
    <3>4. CASE ForkLeft(r) \/ ForkRight(r)
      BY <3>4, ForkAnySorts
    <3>5. CASE WaitLeft(r) \/ WaitRight(r)
      BY <3>5, WaitLeftSorts, WaitRightSorts
    <3> QED BY <2>1, <3>1, <3>2, <3>3, <3>4, <3>5 DEF Step
  <2> QED BY <2>1, CallSorts, KillSorts, UnchangedSorts DEF Next
<1> QED BY <1>1, SortInit, TreeInvariant, PTL DEF Spec

-----------------------------------------------------------------------------
(* What is in the file at the end *)

LEMMA EndedIsSettled ==
    ASSUME TreeInv, AllEnded
    PROVE  \A i \in Index : Settled[i] = arr[i]
  BY SettledValues DEF SettledFacts, AllEnded

\* Whatever forks fail and whatever processes crash in partition, the file ends up
\* with the elements it had.
THEOREM NothingIsLost == Spec => []NothingLost
<1>1. TreeInv /\ SortInv => NothingLost
  <2> SUFFICES ASSUME TreeInv, SortInv, AllEnded, NobodyKilled
               PROVE  IsPermutation(arr, input)
      BY DEF NothingLost, NobodyKilled
  <2> QED BY EndedIsSettled DEF SortInv, IsPermutation
<1> QED BY <1>1, TreeInvariant, SortInvariant, PTL

LEMMA SizeInit == Init => SizeInv
  BY SortAssumption, RegionFacts DEF Init, SizeInv

LEMMA SizeStep == TreeInv /\ SizeInv /\ [Next]_vars => SizeInv'
<1> SUFFICES ASSUME TreeInv, SizeInv, [Next]_vars
             PROVE  SizeInv'
    OBVIOUS
<1>1. PICK odd \in 0..7 : file_size = 8 * Elements + odd
    BY DEF SizeInv
<1>2. file_size' = file_size
    BY DEF Next, OpenFile, FindSize, MapFile, Call, Step, SortNothing, CallQsort, Qsort,
           ChoosePivot, ExtendLeft, ExtendRight, ReadOutside, Exchange, PlacePivot,
           FinishSwap, ForkLeft, ForkRight, WaitLeft, WaitRight, Kill, TreeFrame,
           arguments, vars
<1>3. (file_size % 8 = 0) <=> odd = 0
    BY <1>1, SortAssumption
<1> SUFFICES ASSUME odd # 0
             PROVE  pc'[Root] \in {"open", "fstat"} \/ status'[Root] \in {"1", "killed"}
    BY <1>1, <1>2, SortAssumption DEF SizeInv
<1>4. /\ pc[Root] \in {"open", "fstat"} \/ status[Root] \in {"1", "killed"}
      /\ status[Root] \in {"1", "killed"} => pc[Root] = "ended"
      /\ pc[Root] \in {"open", "fstat"} => forked[Root] = {} /\ status[Root] = "running"
      /\ pc \in [Regions -> Places]
      /\ status \in [Regions -> {"running", "0", "1", "crashed", "killed"}]
      /\ Root \in Regions
    BY <1>1, RegionFacts, SortAssumption, EarlyFacts DEF SizeInv, TreeInv, InOrder, TypeOK, Early
<1>5. CASE OpenFile
    BY <1>4, <1>5 DEF OpenFile, Call, Goto, End
<1>6. CASE FindSize
    BY <1>3, <1>4, <1>6 DEF FindSize, End, Goto
<1>7. CASE MapFile
    BY <1>4, <1>7 DEF MapFile, Call
<1>8. ASSUME NEW r \in Regions, Step(r)
      PROVE  pc'[Root] \in {"open", "fstat"} \/ status'[Root] \in {"1", "killed"}
  <2>1. r # Root
    BY <1>4, <1>8 DEF Step, SortNothing, CallQsort, Qsort, ChoosePivot, ExtendLeft,
        ExtendRight, ReadOutside, Exchange, PlacePivot, Scanning, FinishSwap, ForkLeft,
        ForkRight, WaitLeft, WaitRight
  <2>2. pc'[Root] = pc[Root] /\ status'[Root] = status[Root]
    <3>1. CASE SortNothing(r) \/ CallQsort(r) \/ ReadOutside(r)
      BY <1>4, <2>1, <3>1 DEF SortNothing, CallQsort, ReadOutside, Goto, End
    <3>2. CASE \/ ChoosePivot(r) \/ ExtendLeft(r) \/ ExtendRight(r)
               \/ Qsort(r) \/ FinishSwap(r) \/ Exchange(r) \/ PlacePivot(r)
      BY <1>4, <2>1, <3>2, PartitionFrames DEF Others
    <3>3. CASE ForkLeft(r) \/ ForkRight(r)
      <4>1. pc[r] \in Forking /\ status' = status
        BY <3>3 DEF ForkLeft, ForkRight, Forking
      <4>2. PICK side \in {"left", "right"}, next \in {"fork_right", "wait_left"} :
                /\ \/ pc[r] = "fork_left" /\ side = "left"
                   \/ pc[r] = "fork_right" /\ side = "right"
                /\ Fork(r, side, next) \/ ForkFails(r, next)
        BY <3>3 DEF ForkLeft, ForkRight
      <4>3. Child(r, side) # Root
        BY <2>1, <4>1, <4>2, ForkingFacts, ChildFacts, RegionFacts DEF Root, Length
      <4>4. pc'[Root] = pc[Root]
        BY <1>4, <2>1, <4>2, <4>3 DEF Fork, ForkFails, Goto
      <4> QED BY <4>1, <4>4
    <3>4. CASE WaitLeft(r) \/ WaitRight(r)
      BY <1>4, <2>1, <3>4 DEF WaitLeft, WaitRight, Goto, End
    <3> QED BY <1>8, <3>1, <3>2, <3>3, <3>4 DEF Step
  <2> QED BY <1>4, <2>2
<1>9. ASSUME NEW r \in Regions, Kill(r)
      PROVE  pc'[Root] \in {"open", "fstat"} \/ status'[Root] \in {"1", "killed"}
    BY <1>4, <1>9 DEF Kill, End, Goto
<1>10. CASE UNCHANGED vars
    BY <1>4, <1>10 DEF vars
<1> QED BY <1>5, <1>6, <1>7, <1>8, <1>9, <1>10 DEF Next

\* A parsort that succeeds leaves a file of whole elements, the ones it had, in order,
\* for any file, threshold and faults.
THEOREM SuccessIsSorted == Spec => []SuccessMeansSorted
<1>1. Spec => []SizeInv
    BY SizeInit, SizeStep, TreeInvariant, PTL DEF Spec
<1>2. TreeInv /\ SortInv /\ SizeInv => SuccessMeansSorted
  <2> SUFFICES ASSUME TreeInv, SortInv, SizeInv, status[Root] = "0"
               PROVE  /\ IsSorted(arr, Index) /\ IsPermutation(arr, input)
                      /\ file_size = 8 * Elements
      BY DEF SuccessMeansSorted
  <2>1. \A q \in Regions : Inside(q, Root)
    BY RegionFacts DEF Inside, Root
  <2>2. \A q \in Regions : pc[q] # "none" => status[q] = "0"
    BY <2>1, RegionFacts DEF TreeInv, SuccessOfAll
  <2>3. \A q \in Regions : status[q] # "running" => pc[q] = "ended"
    BY DEF TreeInv, InOrder
  <2>4. AllEnded
    BY <2>2, <2>3 DEF AllEnded
  <2>5. NobodyKilled
    BY <2>2, <2>3 DEF NobodyKilled
  <2>6. \A i \in Index : Settled[i] = arr[i]
    BY <2>4, EndedIsSettled
  <2>7. IsPermutation(Settled, input) /\ IsSorted(Settled, Span(Root))
    BY <2>5, RegionFacts DEF SortInv, WellPlaced
  <2>8. Span(Root) = Index
    BY DEF Span, Root, Index
  <2>9. pc[Root] = "ended"
    BY <2>3, RegionFacts
  <2> QED BY <2>6, <2>7, <2>8, <2>9 DEF IsSorted, IsPermutation, SizeInv
<1> QED BY <1>1, <1>2, TreeInvariant, SortInvariant, PTL
=============================================================================
