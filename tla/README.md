# Specifications of nm_memcached

nm_memcached serves memcached GETs (binary protocol, UDP) from lookup tables in
memory that follow a MySQL table through its binlog. A SET goes to the database;
its row event brings it back into the tables. This directory holds TLA+
specifications of that program, configurations that TLC checks, and proofs that
TLAPS checks. `PROJECT.json` maps every definition to the lines it models.

## The system

| Part | Source | State | Operations | Where |
|---|---|---|---|---|
| lookup table | `inc/nmmc_tpl.hpp`, `inc/nmmc_tpl.hh` | two items per slot, a bit per slot for the valid side, notice bits, two clock counters | Find, Add, Del, operator[], EnumerateForUpdate, SwapSide, NotifyChange, Clear, Clock, ClearNoticeBmp64 | `LookupTable` |
| its concurrent use | the same, `src/nmmc_server.cc` 96-142, 311-341 | what a GET and an update hold half-way | the accesses to memory of Find, Add, Del, OnRecieveGet | `SharedTable` |
| values | `inc/nmmc.inl` 89-98, `nmmc_server.cc` 41-50, 149-157, 311-326 | none | Bin2Hex, the SQL literal, the item, the reply | `ValueCodec` |
| servers and binlog threads | `nmmc_server.cc` 143-184, 243-352 | a table, a position in the binlog, the map event remembered (`tmpevent`) | OnRecieveSet, the cases of BinLogLoop, start, end | `Replication` |
| process and threads | `nmmc_process.cc`, `nmmc_thread.cc`, `entry.cc`, `nmmc_server.cc` 186-242 | `cancel_` of every thread and server, `s_quit_`, who runs, which table is allocated | Start, Run, Stop, sigint_handler, thread_func, constructor and destructor of Server | `Lifecycle` |
| netmap | `nmmc_arch_impl_netmap.cc` 33-194 | receive and transmit rings, buffers | Poll, SearchValidRing, ProcessRing, Send | `NetmapRings` |
| requests | `nmmc_def.h`, `nmmc_server.cc` 52-184 | the packet | validate_header, OnRecieve, OnRecieveGet, OnRecieveSet | `Requests` |
| frames | `nmmc_arch_impl_netmap.cc` 165-309, `nmmc_packet.cc` | the frame | Packet, OnUdp, OnArp, OnIcmp, SwapMac | `Frames` |
| checksums and hash | `inc/nmmc.inl` 43-72 | none | CheckSum, Wrapsum, Hash32 | `Checksums` |
| a packet on its way | the two above, and OnRecv | what a packet has become, the row of its SET | the handlers one after the other, the row event | `PacketPath` |
| socket mode | `nmmc_arch_impl_socket.cc` | one socket, its mutex, reference count and server | AddRef, Release, Poll, OnRecv | `SocketMode` |

How they interact. The main thread starts eight workers. Each creates its own
server, whose constructor allocates the table, starts the thread of BinLogLoop
and connects to the database; the worker then polls its network interface and
answers GETs from the table. BinLogLoop is the only writer of that table, the
worker its only reader, and no lock is between them: the table is double buffered
instead. SETs of all servers meet in the database, and each server reads the
binlog for itself. SIGINT sets flags that the loops look at.

What is hard. A GET runs during an update of its key. The replay can be behind,
is thrown back by a restart, and meets events nobody thought of: other tables,
several rows, keys too big for the table. Threads end by exceptions that nothing
catches. The destructor deletes a table its thread may be using, and waits for a
thread that waits for the database. Rings fill up. A request is turned into its
reply in the same buffer, by lengths that the request declares. In the socket
build all workers read the same socket, each datagram by two calls.

What makes the parts correct. A table: Find returns what was added last and
nothing else, and a reader is never shown a half-written item. The codec: a value
comes back as it was sent. A request: its reply says what the table or the
database says, and is made of its own bytes. A frame: it is answered once, to who
sent it. A server: a hit is what the database had. The process:
it ends when told to, and what is in use is allocated. The rings: one reply to
each frame, and no buffer used twice. Socket mode: one reader at a time, every
datagram read, the socket open while somebody uses it.

## Modules

**`LookupTableOps`**, **`LookupTable`**. The table as a record and its operations
as functions; then one action per public operation, each atomic. A table of S
slots keeps its bits in words of WordBits (64 in the code). `Find(t, k)` is a set
of at most one body: `End()` is the empty set. Throwing and `ERR` are the cases
in which nothing, or only the counter, changes (`Admit`). The keys offered
include S, the first with no slot, which ClearNoticeBmp64 accepts: the word it then
clears is the clock, which follows the bitmap in memory. SwapSide and NotifyChange
are public and actions of their own (`Swap`, `Notify`) besides being part of Add and
Del; they test no bound, and are offered slots only. `ticks` is a history: the calls
of Clock since Clear.

**`TableStore`**, **`KeyValueStore`**. The table with its whole interface refines
a key-value store. The store records its last call, so that a change of the map
has to be the change that was asked for, and the values each key has had since the
table was cleared: operator[] and EnumerateForUpdate switch an absent key on
again, with what is on the other side, and the store says that this is a value
the same key once had. Slot 0, which EnumerateForUpdate does not update and shows
another side of, is such a case too, and the store names it (`First`). The store also
has, for each key, what is behind its value (`behind`, in the table the other side):
SwapSide on its own exchanges the two, which undoes the last change (`Undo`), and
undone twice leaves everything as it was.

**`SharedTable`**. One slot, one binlog thread, one GET. `stat` (valid and
datalen share a 32-bit word) is stored as one unit, the data as NChunks; the
units of a memcpy come in any order. `datalen` is loaded by the test and then
either again or not at each later use (`Reload`), as the compiler may choose.
The copying of the item and the flip keep their order: they do in the generated
code for x86, where stores are not reordered and `^=` on a member follows the
call of memcpy; the C++ program is formally a data race.

**`ValueCodec`**, **`MCValueCodec`**. A value is a sequence of bytes; the four
conversions on its way are functions: Bin2Hex, the literal, the item, the reply.
ItemLen and DatalenMod stand for 1024 and 2^11, and are so small in the checks
that the lengths pass both bounds.

**`Requests`**, **`Checksums`**, **`Frames`**. Functions from a packet to what it
becomes. A request has the fields of the header and `body`, the bytes of the
buffer behind the header, past the end of the packet too: the offsets and
lengths are computed from the header as the macros KEY, REQ_VAL and REQ_VALL do, so
that a contradictory header takes its key or value from where the code takes it.
A frame has addresses, the TCIs of its VLAN tags, the type, the fields of the IP
header that are looked at, and a request, an ARP or an ICMP message. Frames over
IPv6 are judged by the byte that OnUdp reads at the place of an IPv4 address. A
32-bit hash is a pair of halves.

**`PacketPath`**, **`MCPackets`**. One packet at a time: a client sends it, one
worker after the other handles it (`Work`), until it is dropped or has reached a
client; a SET leaves a row, whose event then puts or removes the item of the one
key that is followed. Over netmap the reply of OnUdp keeps its IP addresses, so
that the network may carry it to another worker, and so may a frame that was
spread; a reply over the socket and the answer to a probe go to their sender.
`MCPackets` has the packets.

**`Replication`**, **`MCReplication`**, **`PartialReplica`**. `log` is the binlog
and `hist` the states of the database, one after each entry; a position in the
one is a position in the other. A statement commits a table map event and its row
images, one entry per image; BinLogLoop handles an entry per step, which is also
how a GET sees them, between any two calls of Add and Del. The database is
external, modelled from the events the code decodes: it logs what changes, and
nothing for a statement that changes nothing. A restart empties the tables and
begins at the start of any binlog file, for `set_position(4)` names a place in a
file and not which file. `stop` is `cancel_` as the loop tests it: the constructor
does not assign it, so it has any value when a server is created, and one that is not
zero ends the replay before its first event with the server up and answering. (What
Release does with it at the end is in `Lifecycle`; here SIGINT is a `Crash`.) `Hits(s, k)` is what a GET of k finds on server s.
`PartialReplica` is what the servers promise: each is an incomplete copy of one
of the states of the database and moves forward through them.

**`Lifecycle`**. The main thread, N workers and N binlog threads. pthread_create
may fail, which its callers do not notice; joining a thread twice, or one that
does not exist, returns or crashes; an exception in any thread ends the process
(`Abort`). `cancel_` of a server is not initialised: it starts with any value.

**`NetmapRings`**. NRx receive and NTx transmit rings of R slots, with `head`
and `tail` as netmap has them (`cur` always equals `head` here). `Receive` and
`Transmit` are the kernel's, external, and take place during the system calls of
Poll, as netmap promises. Whether a frame is answered is chosen when it arrives:
that choice stands for OnArp, OnIcmp and OnUdp, which are in `Frames`. A frame carries a number and its
ring, so that replies can be told apart.

**`SocketMode`**. The workers at the one socket: AddRef, the rounds of Poll under
the mutex, OnRecv in its four steps (peek, read, discard, handle), Release.
Datagrams differ by how long they are and say they are; `odd` ones are read and
not answered. AddRef fails only by an exception, which ends the process.

## Runs

| Run | Checks | Bounds |
|---|---|---|
| `table_api` | `TypeOK`, `OneUpdatePerTick`, `FrontUndisturbed`, refinement `ImplementsStore` | 1 word of 2 bits, 2 bodies, 1 tick |
| `shared_reads` | `TypeOK`, `OneOverlapIsSnapshot`, `ValidSideIsWhole`, `PublishedAtSwap` | items of 2 units, 2 contents |
| `packet_path` | `TypeOK`, `SurvivesExactlyIf`, `RepliesTellTheRow`, `OwnBytesExactlyIf`, `WholeRequestsAreDropped`, `FramesDieOut`, `ProbesAnswered`, `ChecksumsExactlyIf` | items of 2 bytes, lengths modulo 4, values of 1 to 5 bytes out of 0, 15, 171; 4 workers per packet |
| `replica_cache` | `TypeOK`, `HitIsCurrent`, refinement `ImplementsCache` | 2 servers, 5 entries in 2 files, 4 keys of which 2 have a slot, 2 values |
| `replica_any` | `HitWasLogged`, `StaleHitsWereMisread`, `CatchesUp` | 1 server, 6 entries in 3 files, a table `kvs_old`, moved keys, multi-table statements, a key cut to another |
| `life_stop` | `TypeOK`, `ExitIsClean`, `AtMostOneLateEvent`, `ServedTableLives`, `StopEnds` | 2 threads |
| `rings_loop` | `TypeOK`, `BuffersDistinct`, `OneReplyEach`, `RepliesInOrder`, `OnlyOwnSlots`, `EachIsAnswered` | 2 and 2 rings of 3 slots, 5 frames |
| `socket_mode` | `TypeOK`, `RefCountsUsers`, `PollerHasServer`, `PeekedIsRead`, `LossesFollowCuts`, `EachIsRead`, `CancelledLeave` | 2 workers, 3 datagrams of 5 kinds |

What they show:

- `FrontUndisturbed`: an iterator stays good through any one operation; the
  valid side is written by nothing but Clear. `OneUpdatePerTick`: the clock test
  lets one update through per tick, and none after a tick that a throw used up;
  ClearNoticeBmp64 with key S zeroes the clock, after which fewer get through.
- `ImplementsStore`: no call shows an item of the past or of another slot, but for
  operator[] and EnumerateForUpdate, which may show one of the same slot, and
  SwapSide on its own, which shows the one of the change before.
- `OneOverlapIsSnapshot`: a GET that one update overlaps answers for one item.
  `ValidSideIsWhole`, `PublishedAtSwap`: what Find shows changes at one step.
- `SurvivesExactlyIf` names the values that survive: they fit an item and have no
  byte below 16 after their first.
- `RepliesTellTheRow`: a reply over the socket is a complete packet with the state
  of the row, whichever prefix the key has. `OwnBytesExactlyIf`: over the socket a
  SET is made of its own bytes whatever lengths it declares; over netmap it gets
  through only with a length that is too long by the headers of the frame, and
  stores as many bytes from behind it. `WholeRequestsAreDropped` is the other
  side of that: a frame with exactly one request is dropped, against what the code
  around the test says (`netmap_whole`, below). `FramesDieOut`: none goes round for
  ever.
- `ProbesAnswered`, `ChecksumsExactlyIf`: answers to ARP, echo and neighbour
  requests go back under the right addresses unless a second VLAN tag is there,
  and exactly which of them have a right checksum.
- `HitIsCurrent`: a hit is what the database had at the point of the replay; a
  miss proves nothing. In all cases, `HitWasLogged` is what is left of it, and
  `StaleHitsWereMisread` says what else it takes: a stale hit has behind it a row of
  its own key that BinLogLoop judged by the wrong map or a name that only begins
  with `kvs`, whose key it cut, or whose key an update moved. Each of the three occurs
  in the run, and the other keys are as current as before.
  `CatchesUp`: the replay reaches the end if the process stays up and `cancel_`
  was zero.
- `ExitIsClean`, `ServedTableLives`, `AtMostOneLateEvent`: a normal end leaves no
  thread and no table; the table deleted too early is used for one event at most,
  for `cancel_` was set before. `StopEnds`: SIGINT ends the process unless a binlog
  thread waits for a silent database, which is the only wait that can last.
- `OneReplyEach`, `RepliesInOrder`, `EachIsAnswered`: a full transmit ring delays
  and loses nothing. `BuffersDistinct`, `OnlyOwnSlots`: zero-copy sending never
  lets the card and the program use the same buffer.
- `RefCountsUsers`, `PollerHasServer`, `PeekedIsRead`: socket, mutex and count
  are in step in every order of starts and ends. `LossesFollowCuts` says what the
  second read for a cut datagram costs: the one behind it, and nothing else is
  lost. `EachIsRead`, `CancelledLeave`: no datagram and no worker stays for ever.

Why these bounds are enough to be of use. Two bits in a word are the fewest in
which a slot can disturb its neighbour, and the word that EnumerateForUpdate flips
for slot 0 has another slot in it; two bodies tell an item from its predecessor. A torn item needs two units. A statement on a row of kvs has a map
and one or two images, so that five entries hold two statements, or one on two
rows, with restarts before, between and within the replay of any of them; a
statement on two tables has six. `replica_cache` takes the two servers for
interchangeable (`SYMMETRY`), which they are: the model never names one, and
what the run checks is safety. A ring of three slots is full with two frames, so
that five frames go round. A packet of `packet_path` meets an external and an
internal address and has hops to spare (`MaxHops` 4, of which it may use 2);
`Room` is longer than any length a header of the run declares; 15 and 0 make one
digit, 171 two, and five bytes pass both the item and the width of its length.
The requests include each combination of extras and key lengths for which KEY and
REQ_VAL leave the body. Requests do not overlap there: a handler runs to its end
in one thread, and what it shares with others is in `SharedTable`, `Replication`
and `SocketMode`. Three datagrams are one cut short, the one it takes along, and
one more. What does not depend on a size is also proved for all
of them (below).

`rings_loop` switches the deadlock check off: once MaxFrames frames have arrived
and were handled nothing is left to do, which is the bound of the model.
`socket_mode` does because the program ends there.

**Fairness.** In `replica_any` each binlog thread handles the events there are
(WF of `BinLogStep`), as long as its loop runs: a server created with a leftover
value in `cancel_` takes no step, and fairness asks for none. Restarts are not fair,
and `CatchesUp` is about runs in which from some point on the process stays up and
`cancel_` of the server is zero. Without the second premise it would be false of
this code. In `life_stop` every thread that
can run does; SIGINT need not come, and events need not either, which is why
`StopEnds` has the premise that no binlog thread waits for ever: without it the
process does not end (`pthread_join` in the destructor). In `rings_loop` the
worker runs on, and the card, which can send during infinitely many polls, at
last does (SF, for `Transmit` is possible only inside a poll). Nothing is assumed
of `Receive`. In `socket_mode` every worker that can run does (WF of each). The
mutex is not fair: a worker that waits for it may wait for ever while others
take turns, and the two properties hold all the same, since EVLOOP_ONCE returns
after a second at the latest (the timer of AddRef) and `cancel_` is tested between
two polls.

**Runs that end in a violation**, each against a text of the repository:

| Run | What the code does |
|---|---|
| `shared_torn` | two updates within a GET tear its reply |
| `netmap_whole` | a frame with one whole request, of the form the test client sends, is dropped by its first worker: the length of the frame is compared with that of the payload (`nmmc_arch_impl_netmap.cc:286`, `nmmc_server.cc:78`), where the comments at 282 and 287 have it spread by its key |
| `codec_hex` | Bin2Hex writes one digit for a byte below 16 |
| `replica_bigkey` | a row with a key of 2^20 or more ends the process, again after each restart |

Other disagreements between the code and its comments, which the models contain
and no run is spent on: an UPDATE event deletes the key instead of writing the new row,
for `stat.valid` is never set and the branch that asks for it, with Add in it, never
taken (`nmmc_server.cc:333`-338); EnumerateForUpdate flips slot 0, which it has not updated
(`nmmc_tpl.hh:150`); a key is answered whatever its prefix (`nmmc_server.cc:79`);
a datagram whose length differs is `read away' by reading the next one
(`nmmc_arch_impl_socket.cc:42`, 52); an item is clipped at 1024 bytes and its length at 11 bits,
whereas a comment speaks of 4096 (`nmmc_server.cc:148`, 323); a table whose name
begins with `kvs` is taken for it (292); `cancel_` is tested before anything assigned
it (271); keys equal modulo 2^32 share a slot
(331); the wait for the connection of the binlog thread is a sleep (211);
`pthread_create(...) == -1` is never true (208, `nmmc_thread.cc:48`).

`OneOverlapIsSnapshot` and `shared_torn` are two sides of one thing: one update
in the way of a GET goes to the other side and is harmless, the second returns to
the side `ItmValid` (an UPDATE deletes) is why a key is missing after a a key is missing after a
second SET until it is inserted anew; it is also why no stale value is ever
served after an update (`HitIsCurrent` holds).

## Proofs

Each is for every value of the constants the `ASSUME`s of its module allow.

*`LookupTableOps_proofs`, `LookupTable_proofs`.* Slots of one word have different
bits, so `SwapSide` of one slot keeps the side of all others; hence the effect of
`Publish` on `Find` and on the items of the valid sides, hence `TypeCorrect`,
`TicksBoundUpdates` (the last tick used is not above the ticks given, whatever
ClearNoticeBmp64 does to the clock) and `FrontsStay`. For the refinement
`TableIsStore` the invariant needs one part more (`StoreInv`): what either side of a
slot holds, switched on or off, is among what the slot has shown since Clear. Each
operation is then one call of the store, `Swap` an `Undo`.

*`SharedTable_proofs`.* `TypeCorrect`, `ReadsAreSnapshots`,
`NothingHalfPublished`, `UpdatesAppearAtSwap`. The inductive invariant says where
the writer is: during an update its iterator is the side that is not valid; a
unit already copied agrees with the item that is added; and as long as at most
one update overlapped, the item the reader's iterator refers to is the one it
looked up, with everything loaded so far taken from it.

*`Replication_proofs`.* `TypeCorrect` and `HitsWereLogged` hold for every kind of
statement and table; their invariant is the type invariant and `HitWasLogged`
itself, since Find shows after an Add the item of that row, after a Del nothing,
and otherwise what it did. `StaleHitsExplained` holds for all of them too. Its
invariant `AnyInv` says, besides, that rows come behind a map and never at the start
of a file (`RowsFollow`), that an old image has a new one behind it (`PairsOK`), that
`tmpevent` tells the last map wherever a row may follow (`TakenOK`), and that every
change of the database either is what its entry says of that key or has a misread
row of the key at or before it (`ChangesOK`). Which row is misread depends on the
entries before it and, for a moved key, on the one behind; both stay as they are when
the log grows. The rest is under `Plain`: no other table is taken for
kvs, no key aliases a slot, no statement moves a key or spans several tables.
`replica_any` is about what happens otherwise. Keys without a slot, multi-row
statements, any number of servers and restarts anywhere are in. `IInv` adds three
facts to currency: entry and change of the database belong together (`LogOK`), a
file starts at a statement (`FilesOK`), and `tmpevent` is set at a row exactly if
it is one of kvs (`TmpOK`). From it follow `HitsAreCurrent` and the refinement
`ServersAreCaches`.

*`Lifecycle_proofs`.* `TypeCorrect`, `CleanExit`, `OneLateEvent`,
`TablesOutliveService`. The invariant ties the state of the worker, of its table,
of `cancel_` and of its binlog thread to each other, and `next` of the joining
loop to the threads that have been joined.

*`NetmapRings_proofs`.* `TypeCorrect`; `BuffersStayDistinct`, from the type
invariant, since a swap is the only thing that moves a buffer; `SwapsOwnSlots`,
from `LoopOK`: both cursors lie between head and tail, and the frames left to
handle fit before either tail; and `RepliesStayInOrder`, from `OrderOK`.
`RepliesInOrder` speaks of the wire only and is not inductive: `OrderOK` says that
what a transmit ring has sent, what it has queued and what waits in a receive
ring, one after the other, is in order. The lemmas first number the frames of a
ring from its oldest slot (`Waits`, `Queues`), say what each action does to the
two lists (a frame leaves at the front, or is added at the end), and show from
that alone that `OrderOK` is kept. `EachIsAnsweredOnce` (`OneReplyEach`) counts slots,
and a count is not inductive either. The same lists, with what each wire has got,
are taken as lists of numbers (`lists`); `ListsOK` says that no number is in two
places of them and that of each frame to be answered is in one, `FramesOK` that
frames have different numbers, that what waits has arrived and what is queued or
sent is a reply. A step takes a number off one list, puts one on another, or does
both (`NumberDropped`, `NumberAdded`, `NumberMoved`). Last, the slots that
`OneReplyEach` counts are found to be the places in the lists (`PlacesLie`), for
which a wire must not be longer than MaxFrames: it has no number twice
(`WireFits`, by the pigeonhole principle).

*`SocketMode_proofs`.* `TypeCorrect`, `CountIsUsers`, `PollersAreAlone`,
`PeekAndReadAgree`, `OnlyCutsLose`, for any finite set of workers and any number
of datagrams. The worker in Poll owns the mutex (`MutexOK`), so that the queue
loses datagrams at one place; `Taken`, the number of those that have left it,
ties the rest together: datagram Taken + i is the i-th in the queue (`QueueOK`),
what a worker has peeked or read is number Taken + 1 or Taken (`HeadOK`), and
ids answered or lost are not above it (`AnsweredOK`, `LostOK`).

*`PacketPath_proofs`.* All of `packet_path`, for any set of packets a client can
send (`PacketAssumption`: `IsPacket`, lengths and contents are not bounded), any
item length below the modulus of its length field (`LengthAssumption`; 1024 and
2048 in the code), any even length of a neighbour advertisement's header
from 8 on (`FrameAssumption`; 24) and any MaxHops: `TypeCorrect`, `Survives`, `Replied`,
`OwnBytes`, `WholeRequests`, `FramesEnd`, `Probes`, `Checks`. Values and messages
have any length, so that the theorems rest on what the loops over their bytes
compute. The loops are recursive functions in a LET; induction is over the set of
rounds for which a claim holds, whose complement has a smallest element
(`Induction`, from `NatLessThanWellFounded`), and a recursive function is there
because every loop has a table of its rounds (`LoopsTerminate`). From that: the
sum of a message, its parts and its carries, up to multiples of 2^16 - 1 (Wrapsum
folds twice, which is enough below 2^32); and the codec, as what is read back
from the digits that were written: it is the value, clipped, exactly if no byte
after the first is below 16.
The properties speak of the packet that was sent and the one that came back, and
are no invariants by themselves. `Inv == TypeOK /\ FlightOK /\ RowsOK /\ HeldOK`
says what is in between: after no hop the packet is as it was sent, after one it
is what its first handler makes of it with the table as it was, after two it is an
answer to a datagram whose frame was spread, and no netmap datagram lives longer
(`FlightOK`); a row comes from the request that was asked and from what KEY and
REQ_VAL name in it (`RowsOK`); an item is what a row event made of the value last
put (`HeldOK`).

Checked by TLC and not proved: liveness (`CatchesUp`, `StopEnds`, `EachIsAnswered`,
`EachIsRead`, `CancelledLeave`), which is beyond the prover. Every other property of
a run that passes is a theorem.

## Not modelled

- The sum of the IP header (OnIcmp takes 20 bytes, whatever `ip_hl` says), the
  pseudo header of ICMPv6, UDP checksums, the cas field (always 0).
- In netmap mode OnUdp answers with IP and UDP headers as they came, addresses and
  lengths included, and with the length of the payload for the frame. What the
  network does with it is not followed, but for frames that reach a worker again.
- ARP and ICMP answers that reach another server are answered again there (OnArp
  and OnIcmp look at no operation but the two of ICMPv6); whether a network
  carries them there is not in the code.
- In socket mode: the size of the buffer OnRecv reads into, spurious events,
  getsockname or sendto failing, `Socket::Send`, which nothing calls.
- When a SET becomes visible: a value the database has already makes no event, so
  that a key which an update has removed from the tables stays away. Misses are
  always allowed (`PartialReplica`).
- Logging; the command line; CPU affinity; the lookup of interface addresses.
- `nmmc_arch_if.cc`, which only chooses the network module at build time, and
  `nmmc_observe.hpp`, which nothing uses.
- What a frame of more than 2048 bytes does in ProcessRing: its length is set to
  0 and it is parsed as it is, answered or not.
- Calls of SwapSide and NotifyChange for a key without a slot, which neither of them
  tests for, and stores through the pointer an iterator hands out, which is how
  operator[] is meant to be used: the class leaves both to its caller, and this
  program makes neither.
- The expiry time of an item, which is always 0.

## Plan

In the order of the modules above: the table and its refinement, its concurrent
use, values, replication and its refinement, the lifecycle, the rings, socket
mode, and the path of a packet. What could follow:

1. `SharedTable` under `Replication`: a GET whose updates are the replay's, so that
   `OneOverlapIsSnapshot` and `HitIsCurrent` give one statement about replies.
2. Two clients of `SocketMode` over `PartialReplica`: how far a GET may go back in
   time behind the one before.
