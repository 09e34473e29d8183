# Verification of csf2025

The repository holds five course programs that share nothing but their
directory: a library of 256-bit integers (`csf_assign01`), image functions in C
and assembly (`csf_assign02`), a cache simulator (`csf_assign03`), a parallel
sort (`csf_assign04`) and a multithreaded chat server with its clients
(`csf_assign05`).  This directory models them in TLA+, checks the models with
TLC and proves theorems about them with TLAPS.

Contents: [the system](#the-system-and-its-parts), [the modules](#modules-and-code),
[the runs](#runs), [fairness](#fairness), [the proofs](#proofs),
[findings](#findings), [what is left out](#what-is-not-modelled), [the plan](#plan).

## The system and its parts

### The chat server (csf_assign05)

`server_main` listens on a port, the first that `open_listenfd` of `csapp.c` gets
among the addresses of the host; `Server::handle_client_requests` accepts
connections for ever and starts a detached thread per connection.  The thread's
function, `worker`, reads a login message and then runs `chat_with_sender` or
`chat_with_receiver`, and deletes the `Connection`, which closes the socket.

| part | state | operations |
|------|-------|------------|
| `Server` (server.cpp) | `m_rooms`: room name to `Room`; `m_lock` | `handle_client_requests`, `find_or_create_room` |
| `Room` (room.cpp) | `members`: set of `User` pointers; `lock` | `add_member`, `remove_member`, `broadcast_message` |
| `User` (user.h) | a name, `mqueue` | allocated and deleted by a receiver's worker |
| `MessageQueue` (message_queue.cpp) | `m_messages`: a deque; `m_lock`; `m_avail`: a semaphore | `enqueue`, `dequeue` (waits at most a second) |
| worker threads (server.cpp) | where they are; `room`, `user`, the message at hand | answer requests; deliver messages |
| start-up (server_main.cpp, `Server::listen`, the accept loop) | the process's descriptors; `m_ssock`; `client_fd` | `open_listenfd`, `Accept`, `pthread_create`, `close` |
| `Connection` (connection.cpp) | a socket with a Rio buffer; the last result | `connect`, `send`, `receive`, `close`, the destructor |
| Rio (csapp.c) | `rio_buf`, the caller's buffer, the place in what is written | `rio_writen`, `rio_read`, `rio_readlineb` |
| clients (sender.cpp, receiver.cpp) | a connection | send a request and read its answer; print deliveries |

Senders' workers call `Room::broadcast_message`, which holds the room's lock and
enqueues a message for each member, taking the lock of each queue in turn.
Receivers' workers take messages out of their own queue and write them to their
socket.  They share `m_rooms`, the `Room` objects and the queues; everything else
is local to a thread.

What is hard: the order of the semaphore and the mutex in `dequeue`; two workers
that create one room at the same time; a receiver that joins, breaks off and is
deleted while a broadcast walks over the members and holds a pointer to its
`User`; the order in which different receivers see concurrent broadcasts; keeping
a client and the server in step over every path of the request loop; lines that do
not fit the buffer; clients that go away at any moment, in the middle of a line too;
short reads and writes; descriptors, whose numbers are given out again as soon as
they are closed, and calls that fail while they are held.

What makes it correct: the queue is a FIFO channel that neither loses nor invents
messages and never sleeps through one; one room per name; no broadcast reaches a
deleted user or an invalidated iterator; all members of a room see its messages in
one order, with no gaps; every request has exactly one answer; broadcasts end,
and what is queued for a receiver that stays is delivered and printed; a line
arrives whole or in pieces of the greatest length, and only the last one torn; no
descriptor leaks, or is closed for a connection it does not belong to; a client
finds a server that listens.

### The parallel sort (csf_assign04)

`parsort.c` sorts a file of 64-bit integers in place.  `main` opens the file, takes
its size with `fstat`, maps it and sorts.  State: the file, mapped shared by all
processes; per process the region `[start, end)` it sorts, the
locals of `partition`, and two `ChildProcess` records.  Operations: `quicksort`
(a small region goes to `qsort`, a larger one to `partition` and two children),
`partition`, `swap`, `create_child_process`, `wait_for_child`.  The processes share
the mapping and talk through exit statuses.

Hard: unsigned index arithmetic in `partition`, two processes writing one mapping,
forks that fail, after which `waitpid(-1)` waits for any child, and processes that
are killed.  Correct: a reported success implies a sorted file with the elements it
had, no element has two writers, every process ends and leaves no child behind.

### The cache simulator (csf_assign03)

`main.cpp` simulates a set-associative cache over a trace of loads and stores.
State: sets of blocks with tag, valid and dirty bits and two timestamps, a global
clock, seven counters.  Operations: `load` and `store` under three policies (write
allocate, write through, LRU or FIFO).  It is sequential.

Hard: the choice of the victim from timestamps, in places filled in any order; the
dirty bit over hits, evictions and refills; the count of cycles over every path;
the wrap of the 32-bit clock; geometries that `main` accepts and the code cannot
simulate.  Correct: a block is in one place; the dirty bits are exactly the stores
that memory has not seen; the cycles are those of the expected results (they are not
always, see Findings); eviction follows the policy.

### Image functions (csf_assign02)

`c_imgproc_main.c` reads a PNG file (`image.c`), creates an output image, applies
`grayscale`, `rgb`, `fade` or `kaleidoscope` (`c_imgproc_fns.c`) and writes the
result.  State: the two images and, for images of odd size, the buffer of
`imgproc_kaleidoscope`.  Hard: index arithmetic in 32 bits, uninitialized memory in
the buffer, rounding in fixed-point products, and the error paths of `main`.  Correct:
indexes stay inside, results are what `imgproc.h` describes, success means that the
output was written.  The code falls short of the last two: see Findings for images of
odd size and for writes that fail.

### 256-bit integers (csf_assign01)

`uint256.c`: pure functions on arrays of eight 32-bit words.  Hard: carries, shifts
over words, short and overlong hexadecimal strings.  Correct: the operations are
those of the integers modulo 2^256.

## Modules and code

| module | models |
|--------|--------|
| `FifoChannel` | what `MessageQueue` promises: a FIFO channel with many producers |
| `MessageQueue` | `enqueue` and `dequeue`, one step per pthread, semaphore and deque call |
| `RoomBroadcast` | what the server promises receivers: atomic broadcasts to a room's members |
| `ChatServer` | the server: accept loop, workers, map of rooms, rooms, users, deliveries |
| `ChatSession` | a sender, a receiver and their two server threads, end to end over byte streams |
| `LineStream` | what a `Connection` promises its receiver: lines or pieces of them, in order |
| `Rio` | a connection's bytes: `rio_writen`, the kernel, `rio_read`, `rio_readlineb`; implements `LineStream` |
| `Connection` | a connection's life: start-up of the server, `connect`, accept loop, threads, descriptors; extends `Rio` |
| `ParSort` | all processes of the parallel sort |
| `ReplacementQueue` | what a replacement policy promises: blocks queue up for eviction |
| `Cache` | the cache simulator |
| `ImgProc` | the image program |
| `UInt256` | the 256-bit integers |
| `*_proofs` | theorems about `MessageQueue`, `ChatServer`, `ChatSession`, `Connection`, `ParSort`, `Cache`, `ImgProc`, `UInt256` |
| `MC_*` | instances for TLC |

**MessageQueue.**  `Enqueue` is `EnqueueLock`, `PushBack`, `SemPost`,
`EnqueueUnlock`, as in message_queue.cpp:19-25; `Dequeue` is `SemTake` or
`SemTimeout`, `DequeueLock`, `PopFront`, `DequeueUnlock`, `Return`
(message_queue.cpp:27-55).  `m_lock`, `m_avail` and `m_messages` have the names of
the members.  A message is a producer and a number.

**ChatServer.**  One action per stretch between two synchronisations of a worker:
`LockRooms`, `FindRoom`, `MissRoom`, `CreateRoom` are `find_or_create_room`;
`AddMember`, `RemoveMember`, `DeleteUser` a receiver's life; `LockRoom`, one
`EnqueueTo` per member, `UnlockRoom` a broadcast; `Dequeue`, `SendDelivery`,
`SendFails` the delivery loop; `Login`, `Join`, `SendAll`, `Leave`, `Refuse`, `Quit`
and `GiveUp` the branches of the request loops.  `Disconnect` and `Reset` are the
client's end: after a close one write still succeeds into nothing, later ones
fail.  `enqueue` and `dequeue` are single steps, as `ImplementsChannel` allows.
`m_rooms`, `members`, `lock`, `mqueue` and `room` have the code's names;
`requests`, `replies`, `broadcasts` and `delivered` are histories.

**ChatSession** has the other half: lines with their lengths.  `Reads` is
`Connection::receive` over `rio_readlineb`, which returns at most `MAX_LEN - 1`
characters, so that a longer line arrives in pieces, the rest of which looks like
anything in `RestTags`.  The clients' steps follow sender.cpp and receiver.cpp:
a request, then the wait for one line.  A request is served in one step.

**Rio.**  A byte is its number in what a client sends.  `Write` is one `write` of
`rio_writen`'s loop and takes any number of bytes that fits; `Refill` is the `read`
of `rio_read` and gives any number that has come; `CopyBytes` is `rio_readlineb`'s
loop up to the end of the line, of the caller's buffer or of `rio_buf`;
`ReadEnd` and `ReadFails` are its two other returns.  `Unread`, what a line is still
to be made of, is the caller's buffer, `rio_buf` and the kernel's bytes together.

**Connection.**  A system call per step.  `ServerResolve` to `Listen` are
`open_listenfd` and `Server::listen`; `Accept`, `AcceptFails`, `StartWorker`,
`CloseAgain` the accept loop with the wrappers that end the process; `Receive` and
`Finish` a worker as far as its connection goes; `ClientResolve` to `Connect`
`open_clientfd`, then `Send`, `WriteSome`, `WriteFails`, `End`.  `Break` is the
network.  `fds` is the table of open descriptors with the owner of each; `accept`
and `socket` give out the lowest free number, as POSIX says.  The numbers that the
program holds are apart from the table: `m_ssock`, `client_fd` and `m_fd`, so that a
number may outlive what it stood for.  Both directions of a connection do the same;
the model has the one from client to server.

**ParSort.**  `OpenFile`, `FindSize` and `MapFile` are `main`'s system calls, each of
which may fail; a file whose size is no multiple of 8 is refused.  A process is
named by its region.  `ChoosePivot`, `ExtendLeft`,
`ExtendRight`, `Exchange` and `PlacePivot` are `partition`, with the two stores of
`swap` as two steps; `Below` is `--right_index` modulo the word; `Fork`,
`ForkFails`, `WaitFor` the process functions; `Kill` an outside signal, at any
point, in `qsort` too, where elements may be doubled.

**Cache.**  `Load` and `Store` are the two functions, each a whole step, with
`StoreHit`, `StoreAllocate` and `StoreAround` as the branches; `Stamp`,
`EvictIndex`, `Install`, `Touch` the pieces both share.  `Init` does `main`'s
validation.  `ReadUndefined` is an access to a cache that `main` should have rejected:
without blocks, or so large that the shift for the tag is by 32 places or more
(`TagIsDefined`).  `unwritten` (blocks whose last store memory has not seen) and
`latest` are histories.

**ImgProc.**  One iteration of a loop per step: `Grayscale`, `Rgb`, `Fade`,
`Wedge`, `Copy`, between `ReadInput`, `CreateOutput` and `WriteOutput` with their
failures.  A pixel is a record of four components.  Counts of pixels and indexes are
`Wrapped` to an `int32_t`, whose largest value is `IntMax`; the PNG library's counts of
bytes are unsigned.  Where one of those wraps (`Fits`, `LineBytes`) the library writes
outside of its buffer, and the program is in the place "undefined".  Memory that is not
checked ends it by SIGSEGV (exit status 139).  `output_file` is "broken" if the file
was opened and not written as it should be: `WriteOutput` may leave it so with exit
status 1, 139 and 0, since nothing looks at what `fwrite` and `fclose` return.

**UInt256.**  The functions as operators on `[0..Words-1 -> word]`, the carry as a
recursive function along the words.  `Spec` is a program that reads a value and
goes on computing with it; `number` is the integer it should have.

## Runs

| run | instance | shows |
|-----|----------|-------|
| `queue` | 3 producers, 2 messages each, `FairSpec` | `TokenAccounting`, `NeverPopsEmpty`, `DequeAccessExclusive`; implements `FifoChannel`; `PostedIsTaken` |
| `server` | 3 clients that may be anything, 2 room names, 3 requests each, every command | no use after free, one room per name, one answer per request, stable members, implements `RoomBroadcast` |
| `live` | 2 senders and 2 receivers, one of which may break off, 3 requests each, `FairSpec` | one order for both receivers (`TotalOrder`); broadcasts end, queued messages are delivered, broken receivers are removed |
| `connection` | 2 clients, one of which may be killed or cut off, the server's calls may fail, `FairSpec` | `DescriptorsMatch`, `ConnectFindsServer`; implements `LineStream`; `LinesArrive` |
| `leave` | a sender that joins and leaves | violation: `LeaveLeavesRoom` |
| `parsort` | 51 files of 5 elements, thresholds 1 and 2, forks fail, processes are killed, `FairSpec` | success means sorted, nothing lost, disjoint writers, nobody left behind, termination |
| `parsort_crash` | all files of 3 elements, no faults | violation: `FailsOnlyOnFaults` |
| `cache` | 8 policies, 2 sets of 2 and 1 set of 3 blocks (and rejected and undefined shapes), 5 addresses, 6 accesses, clock modulo 5 | unique blocks, right dirty bits, cycles as expected but for one for a store, implements `ReplacementQueue` until the clock wraps |
| `session` | a buffer of 9, texts of 3, 8 and 14, 3 inputs, `FairSpec` | answers in step, texts shown as sent, no hang, broadcasts shown |
| `session_prefix` | the longest text that fits a request | violation: `DeliveriesFit` |
| `uint256` | 4 words of 2 bits, all values, strings of up to 9 digits | arithmetic modulo 2^8; strings round-trip |
| `images` | 1 to 5 rows and columns and five larger sizes, integers of 9 bits, every transformation and failure | indexes in bounds, rgb and fade as described, kaleidoscope too if the size is even, success only for what could be done |

Why the bounds are enough.  The races of the queue need two producers and the
consumer; the third producer puts a post between any two steps of the others.  The
races of the server are between two workers over a room, and a third client
serves as their receiver or as a second room's; `live` has the smallest instance
in which two receivers can disagree on two broadcasts of two senders.  Symmetry is
used in the run without liveness properties only.  In `connection` a message of five
bytes goes through a buffer of `MaxLen` 4, a `rio_buf` of 2 and a kernel that holds
2, so that it is cut, and no part of it passes in one call everywhere; of two
addresses the first has no sockets, so that both walks go past it; with none, two or
all of three descriptors open at the start, `socket` and `accept` find several free,
one, or none; the second connection may be given the number that the first
has closed.  `accept` fails there for want of a descriptor only, with clients served
or waiting; that it fails for another reason ends the server in the same way, and is
in the proofs.  In `parsort` five elements give two levels of children
on either side; the word of 8 has the same wrap below 0 as one of 2^64.  In
`cache` four blocks compete for two places and four for three, and the sixth access
comes after the wrap of the clock.  In `session` a buffer of 9 with texts of 3, 8
and 14 has lines that fit, that are read in two pieces and in three.  In `uint256`
four words are the smallest array with a first, a last and two inner words, and
operands of words 0, 1 and all ones start, pass and end carries everywhere.  In
`images` five rows and columns give odd and even sizes with more than one wedge
pixel on and off the diagonal; a gradient scale of 10 instead of 1000 keeps the
rounding visible.  With integers of 9 bits (`IntMax` 255) the larger images make the
counts wrap one after the other: the bytes and then the pixels of the output, then the
bytes and the pixels of the input.

`CHECK_DEADLOCK` stays on: where a system comes to rest, a stuttering action
(`Quiet`, `Exited`, the last disjunct of `ParSort!Next`) says in which states it may.

### Fairness

Weak fairness of every thread's and process's next step, and of nothing else: the
scheduler runs what can run, and a thread that waits for a mutex gets it when it
is free and stays free.  In `queue` the steps of a thread under way are fair, and
the consumer calls `dequeue` again, as `chat_with_receiver`'s loop does; producers
need not enqueue.  In `live` and `session` clients' users need not act, and
connections may break at any moment.  In `connection` the main thread and the
workers are fair, and clients and the network are not: a client may stop in the
middle of a message, and the server waits.  Where a mutex may be taken again and again
before a waiter gets it, the instances are finite in the requests each client
sends, so that weak fairness suffices; a starving lock under endless traffic is
not excluded by POSIX and not claimed here.

## Proofs

All theorems are for every value of the constants under the modules' named
assumptions (`QueueAssumption`, `NullAssumption`, `ServerAssumption`, `RioAssumption`,
`ConnectionAssumption`, `SessionAssumption`, `SortAssumption`, `PngsAssumption`,
`ScaleAssumption`, `IntAssumption`, `SizesAssumption`, `InputsAssumption`, and those of
`Cache`), which say what the constants are (finite bounds are natural numbers, the null
values are no members of the sets they stand beside, images have a row and a column,
an `int32_t` holds at least 3, addresses are below `AddressSize`).

**MessageQueue_proofs.**  `QueueInv` is inductive: the owner of the mutex is
exactly the thread inside, and the deque's length is the semaphore's value plus the
token the consumer claimed plus the message pushed and not yet posted.  From it:
`TokensMatchMessages`, `PopsFindAMessage` (the second `return nullptr` of `dequeue`
is never reached), `DequeRaceFree`, and `QueueImplementsChannel`.  The refinement
mapping shows of the deque what is posted and not claimed; a claimed token settles
the answer, so that `SemTake` is the channel's `Take` and `SemPost` its `Put`.

**ChatServer_proofs.**  `ServerInv` is inductive: who holds which lock, whom a walk
has still to reach (members of its room), which `User` objects exist (those of
workers between `add_member` and `delete`), that `m_rooms` and the rooms' names are
inverse, and how many answers are owed.  The properties checked by the run
`server` follow: `UsersOutliveBroadcasts`, `RoomsAreUnique`, `AnswersMatchRequests`,
`WalksAreStable`.  None of them is inductive alone: that no deleted user is reached
needs that a walk holds the room's lock and that `remove_member` waits for it.

The second half of the module is about what the server promises.
`ServerImplementsBroadcast`: it implements `RoomBroadcast`.  The instant of a broadcast is `LockRoom`; a member's abstract
inbox is the message in its worker's hands, its queue, and what the walk in
progress has still to enqueue for it (`Pending`), so that every `EnqueueTo` is a
stutter.  The crux is that at most one walk is pending for a receiver.
`MessagesInOneOrder`: any two receivers get what they both get in one order
(`TotalOrder`), whatever else each of them gets or misses.  It
does not follow from the promise, which may broadcast the same message twice; what
makes it inductive (`OrderInv`) is that the order holds of the whole `Flow` of a
receiver, `Pending` included, and that no message in a flow has a number its sender
has not reached: a step either leaves messages out of flows (`Thins`) or puts one
that is in none at the end of those of the room's members.

**Connection_proofs.**  `DescriptorInv` is inductive: the table of descriptors and
the numbers that the main thread and the `Connection` objects hold agree
(`DescriptorsMatch`), the listening socket is open while it is used, the number in
the main thread's hands is a connection's that has no thread yet, or free when it is
closed a second time, and a connection that is not accepted has neither thread nor
descriptor and stands in the backlog once.  The crux is `close(client_fd)` after a
`pthread_create` that failed: the number is free then, because only the main thread
opens descriptors.  `WalkInv` has the two walks over addresses: the server listens at
one that sockets can have, and a client that was started afterwards has not passed
it.  Theorems `DescriptorsAreOwned` and `ServerIsFound`.
`LinesAreRead`: every step of the server, its clients
and the network is a step of `LineStream` or a stutter.  `StreamInv` says of each
connection that `rio_readlineb` has copied less than a line and less than fits
(`Unfinished`), that as long as it is up the bytes returned and the unread ones are as
many as were written (`NothingIsMissing`), and that nothing is connected, read or
written before its time (`InTime`).  Which bytes they are needs no invariant: what
`write` takes is put after all that was written, and the rest is taking sequences
apart (`Cut`, `CutFirst`, `Copied`).  A step touches one connection (`OneClient`);
that closing a descriptor does, too, is `DescriptorInv`.

**ParSort_proofs.**  `TreeInv` is inductive: any two processes have regions that are
apart, with a pivot between them, or one's is inside a part of the other's that was
forked (`Laminar`); `partition` stays inside its region until `right_index` goes below
0, and then the next access is the crash (`Wrapped`); children are forked and reaped in
their order, and a noted success is that of the child it is taken for, even where
`waitpid(-1)` has reaped it (`InOrder`, `NotedSuccess`); success is one of all
descendants.  From it: `WritersAreDisjoint`, of which the pivot between the parts and
the order of forking and writing are the reasons, and `NobodyIsLeftBehind`.
`SortInv` speaks of `Settled`, the elements when the swaps
under way are finished: a swap's first store exchanges two of them, its second changes
none.  As long as nobody is killed they are a permutation of the input; the elements
that a `partition` has scanned are on their sides of the pivot, and stay there while
its children work, because a step moves elements in its own region only, which lies on
one side; a process that succeeded leaves its region sorted.  A parent succeeds only
if both children have, so its region is the two sorted parts with the pivot between.
Theorems `NothingIsLost` and `SuccessIsSorted`, for any file, threshold and faults:
a kill, a failed fork or the crash in `partition` never ends in a success.

**Cache_proofs.**  `CacheInv` is inductive for every geometry, policy, trace and
width of the clock: types, no duplicates, dirty bits equal to the unwritten stores,
and clean write-through caches.  Theorems `Types`, `NoBlockTwice`,
`DirtyBitsAreRight`.  `CyclesAreRight` counts the write-backs: a miss that writes a block
back makes one dirty bit less, a store makes one more at most, so there are never more
write-backs and dirty blocks than stores, and with write-through there are none
(`Explained`); a store that goes around the cache costs what memory costs, because
`main` rejects the policies for which it would not.  `CountedCycles` is what the code
counts, exactly; the theorem is about `AccessCycles`, what the expected results have,
and the difference is one cycle for each store that hits or goes around.  That the minimum of a set of timestamps exists is proved in
`MinOfNats` from the well-foundedness of the naturals.
`EvictsInOrder`: until the clock wraps, every access is a step of `ReplacementQueue`.
A set's queue is the order of its blocks' stamps; `StampsInv` says that until then the
clock counts the accesses, no stamp is ahead of it and no two blocks of a set have the
same, so that a new stamp puts a block behind all others (`RenewedQueue`) and the first
of the smallest stamps is that of the first block in the queue (`FirstIsEvicted`).
After the wrap neither holds, and the order is not claimed.

**ChatSession_proofs.**  `SessionInv` is inductive, and says something only until a line
is cut.  The sender and its thread are at a pair of stages that belong together, with
one request on its way, or one answer, or nothing (`SenderInStep`), as long as both ends
of the connection are open; a request is answered exactly once on every branch of
`Obey`.  The receiver is joining (`Joining`: nothing is broadcast to it yet, and the
server may have crashed meanwhile), or listening: what it printed, what is on its way
and what is queued are together what was broadcast (`Listening`).  That what was printed
is a prefix of what was broadcast survives the receiver's end (`Prefix`).  Theorems
`AnswersBelongToRequests` and `NothingShownIsWrong`.

**ImgProc_proofs.**  `ImgProcInv` says where `main` is, how large both images and the
buffer are and between which bounds the loops are (`Stages`, `Positions`), and which
pixels the loops have written so far with what (`FadeDone`, `RgbDone`, `WedgeDone`,
`CopyDone`).  The last are needed even for the type of a pixel: the buffer of
`imgproc_kaleidoscope` is uninitialized, and the copy from it is right only because
wedge A and its seven mirror images cover it (`MirrorsRight`).  What `Wrapped` leaves
of a number in range is the number (`WrappedIs`), and every count and index is in range
because an image that works is counted by an `int32_t`, the doubled one of `rgb`
included (`Counted`): an image that `img_read` can read has at most half as many pixels
as an `int32_t` counts (`FitsTwice`), so that the count of the doubled one is right or
negative, and a negative one is refused by `malloc`.  Where the library's counts wrap,
the image is as large as `IndexesInBounds` says (`TooLarge`).  That
`row * width + column` is an index, and a different one for each pixel, is
`IndexInRange` and `IndexUnique`.  Theorems `PixelsFit`, `NoIndexIsOutside`,
`SuccessIsHonest`, `QuadrantsAreRight`, `KaleidoscopeIsRight`, `FadeIsRight`, for
images of any size; the last needs what rounding does to products of two gradients,
for any scale.

**UInt256_proofs.**  `UInt256Inv` is inductive: the array is one of `Words` words, and
`number` is the integer they stand for (`Value`).  What has to be shown is that every
operation computes the integer that it should, for any number of words, of bits in a
word and of bits in a digit (which divide those of a word).  `Low(v)[i]` is what the
lowest `i` words stand for.  The carry that `uint256_add` guesses from the remainder of
a sum is the true one (`CarryIsRight`), so after `i` words the sum's lowest words and
the carry's weight are together those of the operands (`AddLow`), and the carry out of
the last word is the modulus (`AddValue`).  A word that is shifted is two parts of its
product with a power of two (`PartsOfWord`), whose weights may lie beyond the array
(`ShiftedWordValue`), and the parts of all words make the product (`ShiftValue`).  The
bits of the right operand are those of the number it stands for, and the loop of
`uint256_mul` has the product with the lowest bits so far (`MulValue`).  A string's
number is that of its chunks, each read by a `strtoul` that cannot overflow
(`CreateFromHexFacts`); a padded word has the digits of its number, one without padding
starts at the first that is not zero (`PaddedFacts`, `UnpaddedFacts`), and the words
above `EndPoint` are zeros (`FormatFacts`).  Theorems `ModularArithmetic` and
`StringsAreExact`; that different arrays stand for different numbers
(`ValueDetermines`) makes the value read back the same.
These are statements about recursive functions.  The library's theorems on induction
and recursion have an operator as a parameter, which the installed provers cannot
instantiate, so the module begins with its own, proved from the well-foundedness of the
naturals: a set that has 0 and every successor has all naturals (`Induction`), and there
is a function whose value after `n + 1` passes is what pass `n` makes of its value after
`n`, the passes being functions on a set (`Recursion`, `RecursionTo`).  The lemmas
`LowSteps`, `CarrySteps`, `ShiftedSteps`, `ProductSteps`, `ReadingSteps` and `TextSteps`
apply it to the loops.

Model-checked only: liveness (`PostedIsTaken`, `BroadcastEnds`, `QueuedIsDelivered`,
`BrokenReceiverIsRemoved`, `LinesArrive`, `Terminates`, `SenderNeverHangs`,
`BroadcastIsShown`), because the provers know neither fairness nor ENABLED.
Every other property of a passing run, refinements included, is a theorem for all
values of the constants.  A module with RECURSIVE operators would lose the SMT backend,
so there are none.

## Findings

- **leave crashes the server** (server.cpp:57, run `leave`): `room` is set to
  `nullptr` and dereferenced in the next line; one client's legal `leave` ends the
  process for all.
- **a left part without smaller elements crashes the sort** (parsort.c:222, run
  `parsort_crash`): the unsigned `right_index` passes zero, and `arr[right_index]`
  lies before the mapping.  A file of equal elements is enough.
- **deliveries longer than a message may be** (room.cpp:28, run `session_prefix`):
  the names of room and sender go before a text that may fill the line already.

Met on the way, without a run of their own:

- connection.cpp:104 passes `MAX_LEN` to `rio_readlineb`, which keeps one character
  for the terminator: of a line of 255 characters, which message.h allows, 254 are
  read and the newline becomes a line of its own, an invalid message.
- a store hit costs the cycle of main.cpp:209 and that of main.cpp:273, and a store
  around the cache 100 cycles and one more (270, 273).  The expected results in
  `csf_assign03/testing/expected_results/write01` have neither: 1605 in
  `8192_1_16_wa_wb_fifo.txt:7` where the code gives 1607, 500 in
  `8192_1_16_nwa_wt_fifo.txt:7` where it gives 505.  `test_csim_results_small.sh` lets
  cycles differ by a tenth, if asked to compare them.  `CyclesAreExplained` bounds what is too much by one cycle
  for each store.
- `main` of the simulator accepts 0 blocks, and sizes for which the shift by
  `s + b` (main.cpp:88, 182) is as wide as the address or wider: both undefined.
- imgproc.h:97-99 says that the kaleidoscope "is symmetrical across all four lines".
  For an image of odd size it is symmetrical across one diagonal only: the code makes
  the image of the next even size and drops its last row and column.
  `KaleidoscopeIsSymmetric` claims the other lines for even sizes only.
- image.h:60-61 says that `img_write` returns IMG_SUCCESS "if successful, otherwise one
  of the IMG_ERR_* values".  It takes the result of `png_set_data` (image.c:148), which
  is always PNG_NO_ERROR (pnglite.c:833), as the library ignores what `fwrite` and
  `fclose` return (pnglite.c:199-229, 321-326, 478-509): on a full disk the program
  leaves a broken file and exits with 0.  `SuccessMeansWritten` therefore says of a
  success that the output was opened and the transformation done, not that the file is
  whole.
- width times height is an `int` (image.c:26) and the library's bytes are an `unsigned`
  (pnglite.c:571, 819).  For an image so large that four times its pixels, at four
  bytes each, do not fit the latter, a count may wrap to a small buffer and the library
  write past it; the loops of the transformations are never reached with such a count
  (`NoIndexIsOutside`).
- an empty file given to `parsort` fails in `mmap`; an empty line in a trace
  repeats the access before it.
- the second `img_init` of `imgproc_kaleidoscope` leaks the first buffer.

## What is not modelled

- the other two thirds of `csapp.c`: wrappers that no program here calls.  A call
  that a signal interrupts is made again, which is no step; a `close` that fails in
  `open_listenfd` or `open_clientfd` (it leaks the list of addresses) does not fail
  in the model; `if (client_fd < 0)` after `Accept` is never true, since the wrapper
  ends the process first.
- argument parsing, the clients' command parsing, the sorting utilities
  (`gen_rand_data`, `seqsort`, `is_sorted`): straight input and output.
- the assembly versions of the image functions: the same algorithms in registers.
- the byte order of pixels, the inside of the vendored PNG library (its counts and what
  it does not check are in `ReadInput` and `WriteOutput`); `strtoul` on other
  characters than digits.
- overflow of the simulator's counters, which are `int`; negative arguments to it.
- lists of addresses that differ between the server and its clients, which are on
  other machines or ask for a name: `Connection` has one list for all.
- `Message::encode` and `decode`, which nothing calls.
- data races: the shared state of the server is only touched under its locks, which
  `DequeAccessExclusive` and the lock invariants show; the C++ memory model is not
  modelled.

## Plan

The order of the work, most important first; all done.

1. `MessageQueue` against `FifoChannel`, with proofs.
2. `ChatServer`: safety, then its invariant proved.
3. `RoomBroadcast` and its refinement proved; ordering and liveness runs.
4. `ParSort` with faults.
5. `Cache` against `ReplacementQueue`; its invariant proved.
6. `ChatSession`: clients and framing.
7. `UInt256`.
8. `ImgProc`.
9. `Rio` against `LineStream`, `Connection`: start-up, accept loop, descriptors.
10. The descriptors' and the walks' invariants of `Connection` proved.
11. `ParSort`: the tree of processes, and that a success means sorted, proved.
12. That `Rio` implements `LineStream`, and that the cycles of `Cache` are explained,
    proved.
13. `TotalOrder` of the server proved.
14. That `Cache` implements `ReplacementQueue` until the clock wraps, proved.
15. The results of every transformation of `ImgProc` proved, for images of any size.
16. `ChatSession` proved: answers in step, and what is shown was sent.
17. `UInt256`: sums, products and shifts modulo 2^256, for any number and width of words.
