-------------------------------- MODULE ParSort --------------------------------
(***************************************************************************)
(* csf_assign04/parsort.c: a file of integers, mapped shared, is sorted by  *)
(* a tree of processes.  The process of a region longer than the threshold  *)
(* partitions it, forks a child for each part and waits for both.           *)
(*                                                                         *)
(* A process is named by the region <<start, end>> it sorts: siblings and   *)
(* descendants never have the same one.  A step is one store to the shared  *)
(* mapping, one iteration of partition's loop, or one system call.          *)
(***************************************************************************)
EXTENDS Integers, Functions

CONSTANTS
    Elements,       \* number of elements of the file
    Values,         \* the integers in it
    Inputs,         \* the files to sort
    ParThresholds,  \* bound: the second command line arguments
    WordSize,       \* bound: an unsigned long counts modulo WordSize (2^64 in the code)
    OddBytes,       \* bound: how many bytes may follow the last whole element
    Faults          \* bound: system calls that may fail, "kill" if processes may be killed

Index == 0..Elements - 1

ASSUME SortAssumption ==
    /\ Elements \in Nat \ {0}
    /\ Values \subseteq Int
    /\ Inputs \subseteq [Index -> Values]
    /\ ParThresholds \subseteq Nat
    /\ WordSize \in Nat /\ WordSize > Elements + 1
    /\ OddBytes \subseteq 0..7
    /\ Faults \subseteq {"open", "fstat", "mmap", "fork", "kill"}

Regions == {r \in (0..Elements) \X (0..Elements) : r[1] <= r[2]}

\* The process that runs main.
Root == <<0, Elements>>

\* The elements of a region.
Span(r) == r[1]..r[2] - 1

VARIABLES
    arr,           \* the mapping, shared by all processes
    input,         \* history: what the file held
    file_size,     \* in bytes
    par_threshold, \* the longest region that is sorted without children
    pc,            \* where each process is
    left_index,    \* locals of partition; the first is also its result, mid
    right_index,
    pivot_val,
    store,         \* the second store of the swap a process is in
    forked,        \* which of its children each process has got: "left", "right"
    reaped,        \* processes whose end a waitpid has reported
    success,       \* the children that wait_for_child found successful
    status         \* how a process ended: exit status 0 or 1, or by a signal, its
                   \* own ("crashed") or from outside ("killed")

arguments == <<input, file_size, par_threshold>>
locals == <<left_index, right_index, pivot_val>>
vars == <<arr, arguments, pc, locals, store, forked, reaped, success, status>>

NoStore == [at |-> 0, value |-> 0, next |-> "none"]

Init ==
    /\ input \in Inputs
    /\ arr = input
    /\ \E odd \in OddBytes : file_size = 8 * Elements + odd
    /\ par_threshold \in ParThresholds
    /\ pc = [r \in Regions |-> IF r = Root THEN "open" ELSE "none"]
    /\ left_index = [r \in Regions |-> 0]
    /\ right_index = [r \in Regions |-> 0]
    /\ pivot_val = [r \in Regions |-> 0]
    /\ store = [r \in Regions |-> NoStore]
    /\ forked = [r \in Regions |-> {}]
    /\ reaped = {}
    /\ success = [r \in Regions |-> {}]
    /\ status = [r \in Regions |-> "running"]

--------------------------------------------------------------------------------
Goto(r, label) == pc' = [pc EXCEPT ![r] = label]

\* The process ends: exit(0), exit(1) or death by a signal.
End(r, how) ==
    /\ Goto(r, "ended")
    /\ status' = [status EXCEPT ![r] = how]

\* What a step that does not touch the mapping or the process tree leaves alone.
TreeFrame == UNCHANGED <<arguments, forked, reaped, success>>

\* Mutant: a swap without tmp.
SwapWithoutTmp(r, i, j, next) ==
    /\ arr' = [arr EXCEPT ![i] = arr[j]]
    /\ store' = [store EXCEPT ![r] = [at |-> j, value |-> arr[j], next |-> next]]
    /\ Goto(r, "swap")

\* swap: tmp = arr[i]; arr[i] = arr[j] here, and arr[j] = tmp in FinishSwap.
Swap(r, i, j, next) ==
    /\ arr' = [arr EXCEPT ![i] = arr[j]]
    /\ store' = [store EXCEPT ![r] = [at |-> j, value |-> arr[i], next |-> next]]
    /\ Goto(r, "swap")

FinishSwap(r) ==
    /\ pc[r] = "swap"
    /\ arr' = [arr EXCEPT ![store[r].at] = store[r].value]
    /\ Goto(r, store[r].next)
    /\ store' = [store EXCEPT ![r] = NoStore]
    /\ UNCHANGED <<locals, status>>
    /\ TreeFrame

--------------------------------------------------------------------------------
(* main: what comes after the sort, munmap and the exit, is part of its last step *)

\* A system call of main is made, and fails or not.
Call(call, at, next) ==
    /\ pc[Root] = at
    /\ \/ Goto(Root, next) /\ UNCHANGED status
       \/ call \in Faults /\ End(Root, "1")
    /\ UNCHANGED <<arr, locals, store>>
    /\ TreeFrame

OpenFile == Call("open", "open", "fstat")

\* The file has as many elements as whole words, and nothing else.
FindSize ==
    IF file_size % 8 = 0
    THEN Call("fstat", "fstat", "mmap")
    ELSE /\ pc[Root] = "fstat"
         /\ End(Root, "1")
         /\ UNCHANGED <<arr, locals, store>>
         /\ TreeFrame

MapFile == Call("mmap", "mmap", "quicksort")

--------------------------------------------------------------------------------
(* quicksort and partition *)

Length(r) == r[2] - r[1]

\* Fewer than two elements: quicksort returns 1, and the process exits.
SortNothing(r) ==
    /\ pc[r] = "quicksort"
    /\ Length(r) < 2
    /\ End(r, "0")
    /\ UNCHANGED <<arr, locals, store>>
    /\ TreeFrame

CallQsort(r) ==
    /\ pc[r] = "quicksort"
    /\ Length(r) >= 2
    /\ Length(r) <= par_threshold
    /\ Goto(r, "qsort")
    /\ UNCHANGED <<arr, locals, store, status>>
    /\ TreeFrame

\* The region's elements, rearranged by p.
Rearranged(r, p) == [i \in Index |-> IF i \in Span(r) THEN arr[p[i]] ELSE arr[i]]

IsSorted(a, S) == \A i, j \in S : i < j => a[i] <= a[j]

\* qsort of the C library, and the process exits.
Qsort(r) ==
    /\ pc[r] = "qsort"
    /\ \E p \in Bijection(Span(r), Span(r)) :
          /\ arr' = Rearranged(r, p)
          /\ IsSorted(arr', Span(r))
    /\ End(r, "0")
    /\ UNCHANGED <<locals, store>>
    /\ TreeFrame

\* partition is entered: the middle element is the pivot, and is put last.
ChoosePivot(r) ==
    /\ pc[r] = "quicksort"
    /\ Length(r) >= 2
    /\ Length(r) > par_threshold
    /\ LET middle == r[1] + Length(r) \div 2
       IN  /\ pivot_val' = [pivot_val EXCEPT ![r] = arr[middle]]
           /\ Swap(r, middle, r[2] - 1, "scan")
    /\ left_index' = [left_index EXCEPT ![r] = r[1]]
    /\ right_index' = [right_index EXCEPT ![r] = r[1] + (Length(r) - 2)]
    /\ UNCHANGED status
    /\ TreeFrame

\* The loop's condition holds.
Scanning(r) == pc[r] = "scan" /\ left_index[r] <= right_index[r]

ExtendLeft(r) ==
    /\ Scanning(r)
    /\ arr[left_index[r]] < pivot_val[r]
    /\ left_index' = [left_index EXCEPT ![r] = @ + 1]
    /\ UNCHANGED <<arr, pc, right_index, pivot_val, store, status>>
    /\ TreeFrame

\* --right_index, in unsigned arithmetic: below 0 comes the largest number.
\* Mutant: right_index stays as it is.
NotBelow(i) == i
Below(i) == (i + WordSize - 1) % WordSize

ExtendRight(r) ==
    /\ Scanning(r)
    /\ arr[left_index[r]] >= pivot_val[r]
    /\ right_index[r] \in Index
    /\ arr[right_index[r]] >= pivot_val[r]
    /\ right_index' = [right_index EXCEPT ![r] = Below(@)]
    /\ UNCHANGED <<arr, pc, left_index, pivot_val, store, status>>
    /\ TreeFrame

\* arr[right_index] is outside of the mapping, before its first page.
ReadOutside(r) ==
    /\ Scanning(r)
    /\ arr[left_index[r]] >= pivot_val[r]
    /\ right_index[r] \notin Index
    /\ End(r, "crashed")
    /\ UNCHANGED <<arr, locals, store>>
    /\ TreeFrame

Exchange(r) ==
    /\ Scanning(r)
    /\ arr[left_index[r]] >= pivot_val[r]
    /\ right_index[r] \in Index
    /\ arr[right_index[r]] < pivot_val[r]
    /\ Swap(r, left_index[r], right_index[r], "scan")
    /\ UNCHANGED <<locals, status>>
    /\ TreeFrame

\* The pivot goes between the parts, and partition returns left_index.
PlacePivot(r) ==
    /\ pc[r] = "scan"
    /\ left_index[r] > right_index[r]
    /\ Swap(r, left_index[r], r[2] - 1, "fork_left")
    /\ UNCHANGED <<locals, status>>
    /\ TreeFrame

--------------------------------------------------------------------------------
(* create_child_process and wait_for_child *)

\* Mutant: the right part starts before the pivot instead of after it.
ChildBeforePivot(r, side) ==
    IF side = "left" THEN <<r[1], left_index[r]>> ELSE <<left_index[r] - 1, r[2]>>

Child(r, side) ==
    IF side = "left" THEN <<r[1], left_index[r]>> ELSE <<left_index[r] + 1, r[2]>>

Children(r) == {Child(r, side) : side \in forked[r]}

\* fork, in both processes: the child starts with its region.
Fork(r, side, next) ==
    /\ forked' = [forked EXCEPT ![r] = @ \cup {side}]
    /\ pc' = [pc EXCEPT ![r] = next, ![Child(r, side)] = "quicksort"]

\* fork returns -1: there is no child, and the parent goes on all the same.
ForkFails(r, next) ==
    /\ "fork" \in Faults
    /\ Goto(r, next)
    /\ UNCHANGED forked

ForkLeft(r) ==
    /\ pc[r] = "fork_left"
    /\ Fork(r, "left", "fork_right") \/ ForkFails(r, "fork_right")
    /\ UNCHANGED <<arr, arguments, locals, store, reaped, success, status>>

ForkRight(r) ==
    /\ pc[r] = "fork_right"
    /\ Fork(r, "right", "wait_left") \/ ForkFails(r, "wait_left")
    /\ UNCHANGED <<arr, arguments, locals, store, reaped, success, status>>

\* The children waitpid may report: the one with the pid, or any if the pid is -1.
Awaited(r, side) ==
    (IF side \in forked[r] THEN {Child(r, side)} ELSE Children(r)) \ reaped

\* Mutant: any end that waitpid reports is a success.
ReapAny(r, side, q) ==
    /\ pc[q] = "ended"
    /\ reaped' = reaped \cup {q}
    /\ success' = [success EXCEPT ![r] = @ \cup {side}]

\* waitpid reports the end of q; WIFEXITED and WEXITSTATUS tell success.
Reap(r, side, q) ==
    /\ pc[q] = "ended"
    /\ reaped' = reaped \cup {q}
    /\ success' = IF status[q] = "0" THEN [success EXCEPT ![r] = @ \cup {side}] ELSE success

\* waitpid fails if there is nothing to wait for, and that is no success.
WaitFor(r, side) ==
    \/ \E q \in Awaited(r, side) : Reap(r, side, q)
    \/ Awaited(r, side) = {} /\ UNCHANGED <<reaped, success>>

WaitLeft(r) ==
    /\ pc[r] = "wait_left"
    /\ WaitFor(r, "left")
    /\ Goto(r, "wait_right")
    /\ UNCHANGED <<arr, arguments, locals, store, forked, status>>

\* Mutant: left_success && wait_for_child(&right), the second only after the first.
WaitRightIfLeft(r) ==
    /\ pc[r] = "wait_right"
    /\ IF "left" \in success[r] THEN WaitFor(r, "right") ELSE UNCHANGED <<reaped, success>>
    /\ End(r, IF success'[r] = {"left", "right"} THEN "0" ELSE "1")
    /\ UNCHANGED <<arr, arguments, locals, store, forked>>

\* Both children have been waited for: quicksort returns, and the process exits.
WaitRight(r) ==
    /\ pc[r] = "wait_right"
    /\ WaitFor(r, "right")
    /\ End(r, IF success'[r] = {"left", "right"} THEN "0" ELSE "1")
    /\ UNCHANGED <<arr, arguments, locals, store, forked>>
--------------------------------------------------------------------------------
\* A process is killed, perhaps in the middle of a swap.  While it is in the C
\* library's qsort, which merges through a buffer, elements may be doubled.
Kill(r) ==
    /\ "kill" \in Faults
    /\ pc[r] \notin {"none", "ended"}
    /\ IF pc[r] = "qsort"
       THEN \E p \in [Span(r) -> Span(r)] : arr' = Rearranged(r, p)
       ELSE UNCHANGED arr
    /\ End(r, "killed")
    /\ UNCHANGED <<locals, store>>
    /\ TreeFrame

Step(r) ==
    \/ SortNothing(r) \/ CallQsort(r) \/ Qsort(r)
    \/ ChoosePivot(r) \/ ExtendLeft(r) \/ ExtendRight(r) \/ ReadOutside(r)
    \/ Exchange(r) \/ PlacePivot(r) \/ FinishSwap(r)
    \/ ForkLeft(r) \/ ForkRight(r) \/ WaitLeft(r) \/ WaitRight(r)

AllEnded == \A r \in Regions : pc[r] \in {"none", "ended"}

Next ==
    \/ OpenFile \/ FindSize \/ MapFile
    \/ \E r \in Regions : Step(r) \/ Kill(r)
    \/ AllEnded /\ UNCHANGED vars

Spec == Init /\ [][Next]_vars

\* The kernel runs every process that can run.
FairSpec ==
    /\ Spec /\ WF_vars(OpenFile \/ FindSize \/ MapFile)
    /\ \A r \in Regions : WF_vars(Step(r))

--------------------------------------------------------------------------------
(* Correctness *)

Places == {"none", "open", "fstat", "mmap", "quicksort", "qsort", "scan", "swap",
           "fork_left", "fork_right", "wait_left", "wait_right", "ended"}

\* The type of every variable; the indices of partition are words.
TypeOK ==
    /\ arr \in [Index -> Values]
    /\ input \in [Index -> Values]
    /\ file_size \in Nat /\ par_threshold \in Nat
    /\ pc \in [Regions -> Places]
    /\ left_index \in [Regions -> 0..Elements]
    /\ right_index \in [Regions -> 0..WordSize - 1]
    /\ pivot_val \in [Regions -> Values \cup {0}]
    /\ store \in [Regions -> [at : Index, value : Values \cup {0}, next : Places]]
    /\ forked \in [Regions -> SUBSET {"left", "right"}]
    /\ reaped \subseteq Regions
    /\ success \in [Regions -> SUBSET {"left", "right"}]
    /\ status \in [Regions -> {"running", "0", "1", "crashed", "killed"}]

IsPermutation(a, b) == \E p \in Bijection(Index, Index) : \A i \in Index : a[i] = b[p[i]]

\* A success is a sorted file with the elements it had, and nothing left over,
\* whatever calls failed and whatever processes were killed on the way.
SuccessMeansSorted ==
    status[Root] = "0" => /\ IsSorted(arr, Index) /\ IsPermutation(arr, input)
                          /\ file_size = 8 * Elements

\* Two processes never write to the same element at one time: orphans of killed
\* processes may go on, but nobody else gets their region.
Writing == {"quicksort", "qsort", "scan", "swap"}

DisjointWriters ==
    \A q, r \in Regions :
        q # r /\ pc[q] \in Writing /\ pc[r] \in Writing => Span(q) \cap Span(r) = {}

\* A process that exits by itself has no children left, running or unreported; so
\* nothing of a sort without kills runs on after its parsort has ended.
NoneLeftBehind ==
    \A r \in Regions : status[r] \in {"0", "1"} =>
        \A q \in Children(r) : pc[q] = "ended" /\ q \in reaped

\* Failed forks and children that crash in partition lose no element.
NothingLost ==
    AllEnded /\ (\A r \in Regions : status[r] # "killed") => IsPermutation(arr, input)

\* Every process ends: nobody waits for a child that does not come, nor scans for
\* ever.
Terminates == <>AllEnded

\* quicksort's comment: "the only reason that sorting should fail is if a child
\* process can't be created or if there is any other system call failure".
FailsOnlyOnFaults ==
    Faults = {} /\ file_size = 8 * Elements => status[Root] \in {"running", "0"}

--------------------------------------------------------------------------------
(* What makes the invariants inductive, and is proved in ParSort_proofs and          *)
(* ParSortResult_proofs                                                            *)

Forking == {"fork_left", "fork_right", "wait_left", "wait_right"}

\* Where a process goes on after the swap it may be in.
Resumes(r) == IF pc[r] = "swap" THEN store[r].next ELSE pc[r]

\* right_index has gone below 0: the next access is the crash.
Wrapped(r) ==
    /\ pc[r] = "scan"
    /\ r[1] = 0 /\ left_index[r] = 0 /\ right_index[r] = WordSize - 1
    /\ arr[0] >= pivot_val[r]

\* partition stays inside its region.
IndexesInside(r) ==
    /\ Resumes(r) = "scan" =>
          /\ Length(r) >= 2 /\ r[1] <= left_index[r]
          /\ \/ right_index[r] <= r[2] - 2 /\ left_index[r] <= right_index[r] + 1
             \/ Wrapped(r)
    /\ Resumes(r) \in Forking \/ forked[r] # {} => left_index[r] \in Span(r)
    /\ pc[r] = "swap" => /\ store[r].at \in Span(r) /\ store[r].value \in Values
                         /\ store[r].next \in {"scan", "fork_left"}

\* Children are forked in their order, and waited for in their order.
InOrder(r) ==
    /\ forked[r] # {} => pc[r] \in {"fork_right", "wait_left", "wait_right", "ended"}
    /\ "right" \in forked[r] => pc[r] # "fork_right"
    /\ pc[r] = "wait_right" /\ "left" \in forked[r] => Child(r, "left") \in reaped
    /\ status[r] # "running" => pc[r] = "ended"
    /\ status[r] \in {"0", "1"} => Children(r) \subseteq reaped

\* A success that was noted is that of a child that has been reaped, the left one if
\* there is one.
NotedSuccess(r) ==
    /\ success[r] # {} => pc[r] \in {"wait_right", "ended"}
    /\ pc[r] = "wait_right" =>
          /\ "right" \notin success[r]
          /\ "left" \in success[r] =>
                \E q \in Children(r) \cap reaped :
                    status[q] = "0" /\ ("left" \in forked[r] => q = Child(r, "left"))

\* Regions of processes are apart, with a pivot in between, or one's is in a part of
\* the other's.
Apart(q, r) == q[2] < r[1] \/ r[2] < q[1]

Inside(q, r) == r[1] <= q[1] /\ q[2] <= r[2]

Under(q, r) == \E side \in forked[r] : Inside(q, Child(r, side))

Laminar ==
    \A q, r \in Regions : pc[q] # "none" /\ pc[r] # "none" =>
        q = r \/ Apart(q, r) \/ Under(q, r) \/ Under(r, q)

\* Success is a success of all that worked on the region.
SuccessOfAll ==
    \A q, r \in Regions :
        status[r] = "0" /\ pc[q] # "none" /\ Inside(q, r) => status[q] = "0"

TreeInv ==
    /\ TypeOK /\ Laminar /\ SuccessOfAll
    /\ \A r \in reaped : pc[r] = "ended"
    /\ \A r \in Regions : IndexesInside(r) /\ InOrder(r) /\ NotedSuccess(r)

\* The elements as they are when the swaps under way are finished.
Pending(i) == {r \in Regions : pc[r] = "swap" /\ store[r].at = i}

Settled ==
    [i \in Index |-> IF Pending(i) = {} THEN arr[i]
                     ELSE store[CHOOSE r \in Regions : r \in Pending(i)].value]

\* partition has found its place for what is left and right of what it scans, ...
PartsSoFar(r) ==
    Resumes(r) = "scan" /\ ~Wrapped(r) =>
        /\ \A i \in r[1]..left_index[r] - 1 : Settled[i] < pivot_val[r]
        /\ \A i \in right_index[r] + 1..r[2] - 2 : Settled[i] >= pivot_val[r]
        /\ Settled[r[2] - 1] = pivot_val[r]

\* ... and the children leave the parts what they are.
Parted(r) ==
    Resumes(r) \in Forking \/ forked[r] # {} =>
        /\ \A i \in r[1]..left_index[r] - 1 : Settled[i] < pivot_val[r]
        /\ \A i \in left_index[r] + 1..r[2] - 1 : Settled[i] >= pivot_val[r]
        /\ Settled[left_index[r]] = pivot_val[r]

\* ... and a successful process leaves its region sorted.
WellPlaced(r) ==
    /\ PartsSoFar(r) /\ Parted(r)
    /\ status[r] = "0" => IsSorted(Settled, Span(r))

\* A killed process may have left a swap half done.
NobodyKilled == \A r \in Regions : status[r] # "killed"

SortInv ==
    NobodyKilled => IsPermutation(Settled, input) /\ \A r \in Regions : WellPlaced(r)

\* main has gone on only with whole elements.
SizeInv ==
    /\ \E odd \in 0..7 : file_size = 8 * Elements + odd
    /\ file_size # 8 * Elements =>
          pc[Root] \in {"open", "fstat"} \/ status[Root] \in {"1", "killed"}
================================================================================
