# IceCap in TLA+

IceCap is a hypervisor on seL4: a host virtual machine, virtual machines called
realms that the host pays for and cannot look into, and small servers between
them. This directory holds TLA+ models of those servers and of the libraries
they stand on, the TLC runs that check them on small instances, and TLAPS proofs
about the libraries and servers whose invariants matter most. `PROJECT.json` has the map from
definitions to source lines, the mutants that show each property can fail, the
list of hazards, and the parts that are not modelled.

Run `tlc -config X.cfg M` for a run and `tlapm M.tla` for a proof module.

## The system

| Part | What it does | Modules |
|---|---|---|
| `icecap-sync` | mutex of an atomic counter and a notification; guards the state of every server | `Mutex`, `AbstractLock`, `TimerServerProofs` |
| `icecap-ring-buffer` | shared-memory byte ring; packets with headers and a queue on top | `RingBuffer`, `RingBufferProofs`, `PacketRing` |
| serial server | multiplexes client rings on one UART | `SerialLink`, `ServerProofs`, `SerialConsole`, `StreamProofs` |
| event server | routes events through shared bitfields and notifications; turns interrupts into events | `EventServer`, `ResourceServerProofs` |
| resource server | creates and destroys realms, lends the host's cores to them | `ResourceServer` (composed with `EventServer`), `ResourceServerProofs` |
| timer server, two timer drivers | a queue of timers on one compare register | `TimerServer`, `TimerServerProofs` |
| VMM and virtual GIC | the interrupt controller a guest sees, list registers, overflow queue | `GIC`, `GICInvariant`, `GICProofs` |
| VMM: emulated loads and stores | the distributor's registers as memory of the guest | `GuestAccess` |
| VMM: system calls, `icecap-rpc`, benchmark server | calls of the host through registers and messages to a server and back; PSCI | `HostCall` |
| `dyndl/realize` | cuts a realm's objects out of untyped memory and sets them up | `Realizer`, `ServerProofs`, `SubsystemObjects` |
| `icecap-host` and the server's bulk interface | sends a realm's specification in chunks | `BulkTransfer` |
| crosvm 9P server | files for the guests' host tools | `Session9P`, `Server9P`, `Server9PProofs`, `Data9P`, `StreamProofs` |
| crosvm 9P wire format | encoding of its messages | `Wire9P` |
| `finite-set` and the event types | the numbers of events | `EventIndex` |

How they interact. The host's VMM calls Yield of the resource server; that one
moves the realm's threads to the core, subscribes at the event server and sets
a timer at the timer server; the first event or the timeout gives the core back
(`ResourceServer` composes the resource server, the event server, the kernel's
notifications and abstract timers; what it takes for granted of the timer is
`DueTimersExpire` of `TimerServer`). Events carry no data: data is in ring
buffers, and `SerialLink` composes the ring of `RingBuffer` with the serial
server's loop and a client. Interrupts go from the kernel through the event
server to the host's VMM (`EventServer`), whose GIC gives them to the guest
(`GIC`) and acknowledges them back. All servers assume that their mutex excludes
and lets everyone in, which is what `Mutex` is about.

The requests themselves reach the servers as words: a tool of the host encodes a
call, traps with it in its registers, the VMM's thread passes it on in the message
registers that also carry its own calls, and the server decodes it. `HostCall`
follows one from end to end; `GuestAccess` follows a load or a store from the
fault to the register of the distributor. Both share `Bytes`, words as sequences
of bytes.

## How the models are written

* A step is what the code does without another party being able to look:
  an atomic access or a system call in `Mutex`; a load, a store or the copy of
  one byte in `RingBuffer`; a handler under the server's mutex elsewhere, cut
  where it calls another server or touches shared memory. In `EventServer`,
  `step` is what the thread inside `signal()` does next; in `ResourceServer`,
  `todo` holds the calls an operation has still to make; in `GIC`, `toAck` and
  `toInject` what a register write has still to do; in `TimerServer`, every
  read of the counter is a step.
* The kernel is external, modelled as the code uses it: a notification is a
  word of badges or-ed together and a FIFO queue of waiters; an interrupt is
  masked when it is taken and until it is acknowledged; `Realizer` keeps the
  kernel's slots and capabilities beside the allocator's own records, because
  every call is unwrapped and they must agree; `SubsystemObjects` has the
  conditions under which the kernel accepts a call.
* A panic or a failed assertion is a state (`alloc.panic`, `down`, `result`,
  `at[n] = "panic"`) that an invariant speaks about, not a missing transition.
* Definitions have the source's names where they stand for one function.
* `Mut_...` operators are the definition after them with one plausible bug; the
  models do not use them.
* `TypeOK` (`RSTypeOK`, `LinkTypeOK`, `MutexTypeOK`, `ConsoleTypeOK`,
  `RealizerTypeOK`, `DataTypeOK`) documents the
  shapes of a module's state. For `Mutex`, `RingBuffer`, `ResourceServer`, `GIC` and
  `SerialConsole` it is proved; the other modules' invariants constrain the state
  more tightly, and it is not a property of the runs.
* Loops are folds where only TLC runs them, and recursive functions (as `remove_timer()`,
  `do_walk()`, `FlushAll`) in what is proved about.
* Sum modules: `MCRings`, `MCSerial`, `MCRealm`, `MCFiles` and `MCEncodings` put
  models side by side that answer questions about one part of the system.
  Variable `part` is chosen in the initial state, and only that part moves.

## Runs

| Run | Configuration | Distinct states | Bounds |
|---|---|---|---|
| `mutex` | `MCMutex.cfg` | 316 | four threads: holder, signaller, a queued and an unqueued waiter |
| `rings` | `MCRings.cfg` | 636,240 | four bytes through a ring of three; four packets of three lengths through seven cells, two-digit headers |
| `serial` | `MCSerial.cfg` | 143,690 | two bytes one way, three the other through a ring that holds one; two clients, three typed keys |
| `yield` | `MCResourceServer.cfg` | 755,182 | two host nodes, a realm with two lives, events to the realm and to the host |
| `yield_live` | `MCResourceServerLive.cfg` | 94,560 | one host node, a realm, an interrupt that may be ended at any time, an event to the host |
| `timer` | `MCTimerServer.cfg` | 585,720 | both devices, two clients, three intervals, a counter to 6, a compare register that wraps at 4 |
| `gic` | `MCGIC.cfg` | 837,142 | five virtual machines of one or two nodes and two to four interrupts |
| `realm` | `MCRealm.cfg` | 236,572 | three realms in 16 units of memory and 16 slots; 264 object models; specifications of up to three chunks |
| `files` | `MCFiles.cfg` | 68,016 | two fids, two names, entries of one and of three units, replies with room for one to three, paths of up to three; a file of four bytes and messages of three to five |
| `encodings` | `MCEncodings.cfg` | 146,647 | every message of both directions with edge values, two frames; all event types but `HostIn`; every call of the host from three nodes; two virtual CPUs, words and bytes around the borders of the registers |
| `index_spi` | `MCEventIndexSPI.cfg` | violated | `HostIn` |
| `gic_disable` | `MCGICDisable.cfg` | violated | one node, two SPIs in different registers |

What they show.

`mutex`. `MutualExclusion`; `WakeupInFlight`: while threads contend there is
exactly one of a holder, an unlocker about to signal and a pending signal, so no
wakeup is lost or doubled although the notification is binary;
`ImplementsLock`: refinement of `AbstractLock`; `LockEventually`: nobody starves.
Four threads are the fewest with all roles at once, and the proofs do not depend
on the number.

`rings`. `OffsetsOrdered` is the assertions of `poll_read()` and `poll_write()`,
which subtract offsets that the other side moves. `ReadsWhatWasSent` and
`PublishedIsFinal` hold although either side may be destroyed at any step and
resume from its control block. Three cells and four bytes make the ring fill and
wrap; the reverse direction is symmetric. Packets: `PacketsArriveInOrder`, and
`PacketsAreDelivered` for packets that fit into the ring.

`serial`. Both sides modify one status word without an atomic operation, and
bits do get lost. `Rearmed` says that nevertheless the server never sleeps with
a request bit cleared and no kick under way; `KickedBytesAreRead` that a kick is
followed by a read of what was published then, also when kicks merge;
`InputInOrder` that queued input is not overtaken, for which three characters and
a ring of one are needed. The console: `OutputIsComplete` (nothing lost, doubled
or in the wrong colour, no whole line held back, nothing held back after two
quiet timeouts) and `KeysAreAccountedFor`.

`yield`. `NodesAgree`: the tables of physical nodes, virtual nodes and the
threads' cores say the same; `BlockedHasReply`: a host node is blocked exactly
while the server holds its reply; `CallsAreAccepted`: the assertions in the event
server hold for every call, whatever the order of timeouts, events and
destruction; `SetBitIsAnnounced`: `signal()` does not announce a bit that is
already set, so a set bit must always have its announcement to come. Two nodes let a realm be lent to both in turn; a second life of the realm
meets what the first one left in its bitfield.

`yield_live`. `MaskedIsOnItsWay`: an interrupt that is masked at the kernel is
somewhere on its way to the host's guest, in a notification, a badge, the
bitfield or the VMM's hands, so that it will be ended. `end()` may come at any
time, also for an interrupt that is still on its way, because the VMM calls it
when its guest enables interrupts; the same interrupt may then be in two of these
places. `TimedYieldReturns`; `InterruptEndsYield`: an interrupt that comes after the
subscription ends the yield, with or without a timeout. One node is enough:
nodes share only the mutexes and the records of `NodesAgree`.

`timer`. The counter moves while the server decides. `HeadIsArmed`: whenever the
server is idle, the queue is in order and the device is armed for its head, or
its interrupt is on the way. `NotifiedForDueTimer`: no notification before its
time, though the compare register of the Raspberry Pi has fewer bits than the
counter. `DueTimersExpire`.

`gic`. `MirrorInSync`: the mirror of the list registers differs from them only
by interrupts that the guest has ended and whose maintenance fault is
outstanding; `ActiveIsHeld`: an interrupt marked active is in a list register;
`TakenIsTracked`: an enabled interrupt masked at its source is in a list
register or waits for one (for guests that move SPIs: is at least pending);
`BacklogIsServed` (for SGIs, and guests that neither disable them nor set them
active): interrupts wait in the overflow only while every list register of the node
is in use, so that the next maintenance fault takes one. The machines differ in what their guests write: SMP
without saved state, one node with nearly everything, three SGIs for one list
register, SGIs that the guest enables again while they are in use, the registers
for saving and restoring.

`realm`. `MemoryIsAccountedFor`: blocks in use are those of existing (or lost)
realms, disjoint, the list of free blocks is right, halves are merged.
`SlotsHoldTheirCaps`: slots and kernel agree and the only panics are of
exhaustion, or after an initialization that failed. `ExternHasOneHolder`: an extern
object is with the realizer or with one realm, and nobody has it only when a failed
initialization dropped it.
Sixteen units hold any two of the three realms and not all, so splitting,
merging and fragmentation all happen. `RealizedAsModelled`: a well-formed model
is set up as it says, a faulty one fails and uses no copy that was not counted;
`RealmIsFilled`: a realm that can run was filled as specified, though a tool may
have been killed before, and no call but that one brings the server down.

`files`. `FidNamesItsFile`: a fid stands for a path under the root, and for the
file it was opened for, when the client does not rename or remove through
another fid; `ListingIsConsistent`: a directory read in pieces while it changes
shows each entry that was there at its start once, and nothing else; when a reply
without entries comes before all were shown, the next entry is larger than what the
count of the request and the message size of the session leave for it.
Entries larger than a reply and entries that just fit both occur. `TransferIsWhole`: data moved
in as many messages as it takes, over sessions of different message sizes, is the
same as if moved at once, and no reply exceeds the agreed size. A file of four
and messages of three leave one or two bytes of data in a message, so every
transfer is cut. Inodes are a symmetry set: nothing compares them but for
equality.

`encodings`. `WholeFramesAreHandled`: each message decodes to itself, its frame
consumes as many bytes as it has, and so the next frame is found, until the
connection ends at any byte. `EachValueHasItsNumber`: `to_nat()` and `from_nat()`
are inverse to each other and stay below the cardinality.
`CallsAreCarriedOut`: the server decodes the request that the tool encoded and the
tool decodes the answer to it, the guest goes on behind its call with the other
registers as they were, although the fault, the VMM's own calls and `Thread::start()`
all use the same message registers; a node starts once, where `CpuOn` said. Node 0
makes every call; two more nodes that it can start call `CpuOn` for each other, so
the lock of the table of nodes is contended. `RegistersAreMemory`: a load of the
distributor finds the bytes that the last store to them left, from this node or
(where the register is not banked) from any, whatever the widths. The offsets are
at the border between banked and shared registers and at the ends of the arrays.

### Findings

* `index_spi`: `to_nat()` of `SPI` adds `START` and `from_nat()` subtracts it,
  the wrong way round for interrupt numbers that begin at `START`: numbers of
  shared interrupts leave the table of `HostIn` or meet those of ring buffers.
* `gic_disable`: a write to `GICD_ICENABLER` clears the bit in the register after
  the one that holds it.

Behaviours met while modelling, which the models have or exclude by a stated
condition, and for which there is no run:

* `declare()` asserts that no partial specification and no realm of that id
  exists, and does not look at the realms that are being realized: the model's
  guard excludes that call, which the host tool does not make.
* The slot of a realm's CNode in the allocator's own CNode is not given back:
  after many realms the slots run out (panic `slots`, which `SlotsHoldTheirCaps`
  allows).
* `peek_space()` adds up sizes: with fragmented memory it lets `realize_start()`
  begin, and `get_leaf()` panics (panic `space`).
* `initialize()` that fails takes memory and externs with it (`lost`).
* A tool killed between Declare and RealizeStart makes the next Declare fail an
  assertion (`down => killed`).
* After a write to `GICD_ISENABLER` all enabled interrupts of the register that
  are not to be injected are acknowledged, also active ones and those that are still
  on their way from the event server (`end` of `EventServer`); the mask for
  `GICD_SPENDSGIR` and `GICD_CPENDSGIR` is shifted cumulatively; reads of the
  enable registers for SPIs look one register too far (`GuestAccess`);
  an interrupt that arrives between the end of its predecessor and the
  maintenance fault is merged with it. A disabled interrupt in the overflow leaves
  those behind it waiting beside a free list register, which is why
  `BacklogIsServed` is about SGIs that stay enabled.
* Writes to the distributor that panic are outside the model, as guards on what
  the guest writes: an SGI for a node that the machine does not have (or for all
  others, where there are fewer than eight), and
  `GICD_ICENABLER` of the last register, which has none after it.
* A reply to Treaddir is empty also when the next entry does not fit, which a client
  cannot tell from the end of the directory (`ListingIsConsistent` says when).
* A periodic timer of less than one tick would make `update_timers()` loop for ever:
  a guard of `periodic`.
* `CpuOn` returns with x1 and x2 changed: `Thread::start()` has used the message
  registers behind them. `ret as u64` of -1 sets all 64 bits.
* A `CpuOn` for a node that is not there panics with the lock of the table held,
  and a panic in an access to the distributor with the lock of the GIC held: the
  next node that wants the lock waits for ever.
* An emulated word load leaves the upper half of the general purpose register as it
  was, where the architecture zero-extends. A byte load is not supported. The
  ranges of byte-accessible registers end at the first byte of the last word
  (0x7F8, 0xBF8). The last word of the enable registers (0x17C) is read out of
  bounds, and panics.
* The VMM of a realm does not clear its bitfield at start, as Mirage does:
  `SetBitIsAnnounced` is about first lives and programs that clear.
* A string that a broken connection has cut short is decoded as a shorter one;
  `WholeFramesAreHandled` is about frames that arrived.

## Fairness

Where there are liveness properties, the threads of servers run when they can
(weak fairness of a thread's next step), and a thread that waits for a mutex gets
it (strong fairness of its step, which `LockEventually` justifies). `Mutex`:
holders release the guard, since every handler returns; nobody is obliged to
call `lock()`. `SerialLink`: the server and the client's thread run, and a client
finishes library calls it began; nothing obliges it to begin one. `PacketRing`:
mirage's loop calls and polls for ever. `TimerServer`: the server runs and the
kernel delivers interrupts; clients may do nothing. `ResourceServer`: server
threads run, a timer that is set expires, and a host node that is not blocked
takes its events. `GIC` states fairness of VMM threads and of guests that end
their interrupts; its run checks invariants only, because its state space is too
large for TLC's liveness check.

`CHECK_DEADLOCK FALSE` is set where histories, lives or counters have a bound and
the instance ends, or where the system may really stop (a panic, a closed
connection). `Mutex` and `GIC` are checked for deadlock.

## Proofs

Every theorem holds for every value of the constants, under the assumptions named
in the module it extends. The inductive invariants were checked with TLC, as
invariants of the runs' instances, before they were proved.

The mutex, at the end of `TimerServerProofs` (any finite non-empty set of threads):
`SpecMutualExclusion`, `SpecWakeupInFlight`, `SpecImplementsLock`, `SpecTypeOK`. The
inductive invariant `MutexInv`
is `TypeBasic /\ QueueExact /\ WakeupInFlight`. Mutual exclusion alone is not
inductive: whether a fetched counter value admits a thread depends on the number
of contenders and on signals in flight, so the counter has to be tied to
`Cardinality(Contending)`, and the queue of the notification to the program
counters, since a signal makes its head the holder. One lemma per action; the
counting is by `FS_AddElement` and `FS_RemoveElement`.

`RingBufferProofs` (any ring sizes, bytes and streams; restarts at any step):
`SpecOffsetsOrdered`, `SpecReadsWhatWasSent`, `SpecPublishedIsFinal`. The
inductive invariant adds to the first two `CopyBounds` (how far a copy under way
may be) and `RingHoldsStream` (the cells between the reader's acknowledged and
the writer's private offset hold the writer's stream). The heart is
`WriteByteStep`: a byte is written at a position less than a ring ahead of what
the reader has released, and positions less than a ring apart are in different
cells (`ModDistinct`). `PublishedIsFinal` follows step by step from the
invariant.

`ServerProofs`, the serial server and a ring (any ring sizes, any traffic): `SpecRearmed` and
`SpecInputInOrder`. For the first, what the rings
hold does not matter, so the invariant is about control alone: which `modify()`
the server may be in at each place of its loop (`LoopPlaces`), and, as long as no
kick is on its way, that the bits this pass has asked for are still there, either
in the status word or in the word that `modify()` has loaded (`BitsKept`). A
client that takes or overwrites a bit is about to kick, and a kick stays on its
way (client, notification, thread, call) until the loop begins a pass that sets
both bits again. For the second, `InOrder` says place by place where the k-th typed
character is: in the ring, in the copy of `write()`, in the queue or in the
argument of `tx()` (`Placed`). Each step moves a character over one border of these
four, and the lemmas `PlacedHead` to `PlacedWrite` are one for each border; the
concatenation that `InputInOrder` states is put together only at the end.

`ResourceServerProofs` (any host nodes, realms, interrupts, rings and groups of
events; resource server, event server, kernel and programs composed): the four
invariants of the run `yield` and `MaskedIsOnItsWay` of `yield_live`. `NodesAgree` and `CallsAreAccepted` are inductive
only together with an account of the operation under way: what is in `todo` and
which subscriptions the event server still has (`TodoAccounts`, `SubsAccount`,
`PhaseAccounts`), since an operation changes the resource server's tables first
and calls the event server afterwards, and a host event, a timeout or the
destruction of the realm may come in between. `SetBitIsAnnounced` follows from
`BitsAnnounced`, which extends it to realms that have never run: their bits wait
for a program whose first wait takes the badge. `MaskedIsOnItsWay` needs, in
`BitsInv`, that interrupts go to the primary node of the host only, so that no other
bitfield swallows one.

`TimerServerProofs` (any clients and timers, any frequency, width of the compare
register and bound of the counter, both devices): `SpecHeadIsArmed` and the action
property `SpecNotifiedForDueTimer`. The invariant adds that the queue is sorted and
holds one timer for a client and an identifier (`Ordered`), what the device knows
between two events (`Armed`) and between the rpi4's write of the compare register
and its look at the counter (`Set`), and when the interrupt is masked (`Masks`).
That `remove_timer()` leaves a sorted subsequence is proved by induction on the
length of the queue: the recursion has a solution (`DrainedExists`), and what the
solution holds is carried along it (`RemoveTimer`). The induction is `NatSet`, a
form of the library's well-founded induction for sets.

`GICInvariant` and `GICProofs` (any number of machines; up to eight nodes and 64
list registers each, any interrupts, any set of registers that the guest writes):
`SpecMirrorInSync`, `SpecActiveIsHeld`, `SpecBacklogIsServed`, `SpecTakenIsTracked`. The invariant adds
`Backlog`: on a machine with SGIs only, which its guest neither disables nor sets
active, nobody waits while a list register is free, and whatever a register write has
still to inject is not active. The lemmas about `forward_irq()` (`ForwardCases` and those after it) serve
each of its callers; there is one lemma for each group of registers.
`TakenIsTracked` needs a second invariant on top of the first, `Tracking`: while a
register write is under way, an interrupt that is in no list register, not in the
overflow and not pending is among those that the sweep has found and still has to
acknowledge or to inject; and, as long as the guest does not move shared interrupts,
whatever waits is with a node that it is for (`Aimed`), so that
`handle_maintenance()` drops the head of the overflow only if it is disabled or
active. That the sweep finds every such interrupt is
`SweepCovers`. `GICInvariant` has the first invariant, the handlers of interrupts
and the register writes; `GICProofs` has the remaining steps, the theorems and
`Tracking`.

`ServerProofs`, the realizer (any realms, models and externs):
`SpecExternHasOneHolder`. What the realizer, the subsystems and the lost subsystems
hold is a partition of the externs (`ExternInv`), and a lost subsystem has the externs
of a model that is refused and took a serving thread with it (`LostInv`).

`StreamProofs`, the console (any number of clients, any buffer limit, any keys and
traffic): `SpecOutputIsComplete`, `SpecKeysAreAccountedFor`, `SpecConsoleTypeOK`. Within
an event, `flush()` and `flush_line()` only move characters from a client's buffer to
the terminal (`Good`: received is printed and buffered, in the right colour, and
`last_output_client` is the colour that the terminal has); between two events no
buffer holds a line or is full (`Settled`), because the character that ends a line
flushes it. For the quiet timeouts, `ConsoleOutput` adds that the first one either
finds that there was no output since the last, or everything flushed. The loops over the
clients are carried by one induction (`LoopExists`) and one for each of the
things that they keep; that a command moves one key from one place to another needs
that the sum over the clients grows by one when one of them gets a key.

`StreamProofs`, the contents of a file (any lengths, offers, counts and message sizes
that leave room for data): `SpecTransferIsWhole`. While a write is under way, the
property itself says nothing of the file; `TransferInv` says that the file with the
rest of the data written to it would be what the client believes, byte by byte
(`Written`, a gap filled with zeros included), and every short write leaves that so.

`Server9PProofs` (any fids, inodes and names, trees of any depth, walks of any length,
entries of any size): `SpecFidNamesItsFile` and `SpecListingIsConsistent`. The
invariant `Inv` has the shape of the tree, and for each fid that it stands for one
file (`Named`) and that what it has listed is the first part of a listing with
ascending offsets in which each name occurs once (`Listed`). `JoinPath` and `Walked`
show that '..' does not leave the root; `RenameStays` and `UnlinkStays`, that a rename
or a removal changes no path but those at or beneath the names it is about, which by the
condition on careful clients no other fid has; `DirentsListing`, that the sums of the
sizes ascend; `FittingNext`, that a reply carries the entries after those the client has
and is empty only at the end or when the next entry is larger than the room for it;
`SpecSizeInv`, that an agreed message size always leaves room for the header of a reply.

Only model-checked, and why:

* liveness under fairness (`LockEventually`, `KickedBytesAreRead`,
  `PacketsAreDelivered`, `TimedYieldReturns`, `InterruptEndsYield`,
  `DueTimersExpire`), which is out of the prover's reach;
* `MemoryIsAccountedFor` and `SlotsHoldTheirCaps`: splitting and merging are folds over
  the levels of a binary tree of blocks whose sizes are powers of two. The provers do
  not know the exponential, cannot instantiate the operator of a fold, and the invariant
  would relate tree, free lists, slots and kernel at every level within a fold;
* `PacketsArriveInOrder`: the length of a packet is read back from the digits of its
  header, which is nonlinear arithmetic (products and remainders by the base) over
  positions in a ring;
* `WholeFramesAreHandled`, `EachValueHasItsNumber`, `CallsAreCarriedOut`,
  `RegistersAreMemory`: encodings of fixed, finite types, where the bounded check covers
  each message, call and register, and what is left open (lengths of strings and
  payloads) is again digits; `EachValueHasItsNumber` also uses `RECURSIVE` operators,
  which the prover does not support;
* `RealizedAsModelled`: the walk is a concatenation of concatenations, four tables deep,
  by filters and folds with operator arguments, and addresses are multiples of powers of
  `Radix`; `RealmIsFilled`: the chunks of a specification are cut and joined by folds and
  by a `RECURSIVE` operator.

## Not modelled

With reasons in `PROJECT.json`. In short: code without state of its own between two
calls (`icecap-sel4`'s wrappers of kernel invocations, fault handler, idle thread,
the command line of the host tool, error types, logging); accesses to UART
registers; device tree parsing, configuration and Python code, which run at build
time or once at start; start-up of a component; C and OCaml glue and the network
stack that mirage runs; and calls that nothing makes (`yield_back()`, `move_()`,
`configure()`). Within modelled parts: a client of the serial link that is
destroyed between clearing the server's request bit and its kick (`RingBuffer` has
destruction at any step, `SerialLink` has clients that stay); strings of the 9P
wire format longer than 65535 bytes and other than ASCII; fsync and statfs.
