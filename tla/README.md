# Verification of the hi-mpu mixed-deployment SDK

hi-mpu runs openEuler Linux and real-time code side by side on the cores of the
Hi3093 SoC.  This directory holds TLA+ models of the parts of its own code that
decide whether the two sides, and the cores of each side, work together: the
shared-memory messages of the real-time cores, their heap and DMA transfers, the
channel between a Linux process and a real-time core, and
on the Linux side the network driver, the driver for the secure M3 and the
hardware lock shared with it.  Vendored code (ATF, u-boot,
musl, libmetal) is left out; open-amp appears as far as the channel uses it.  Paths below are relative to the
repository root; `PROJECT.json` prefixes them with `src/`.

## Inventory

| component | state | operations | hard because | what makes it correct |
|---|---|---|---|---|
| baremetal message, `src/real_time/baremetal/message` | slot status words and bodies, one trigger word per core | send, notified send, receive, receive in the IPI handler | cores and their interrupt handlers share slots without waiting locks | status word is a lock, receives are whole, an IPI finds a stored message, calls return |
| baremetal heap, `src/real_time/baremetal/memory` | region of headers and boundary tags, 32 free lists, bitmap | init, alloc, aligned alloc, free | long sequences of splits and merges, size arithmetic | headers tile the region, lists and bitmap agree with them, areas are disjoint |
| interrupt layer, `src/real_time/baremetal/hwi` | GIC/SIC enables and priorities, handler table | enable, disable, priority, affinity, trigger, dispatch | per-core state written by other cores at boot | an enabled interrupt stays enabled and reaches its handler |
| loader, `src/real_time/baremetal/loader` | boot word, bss | start-up of each core | cores start at different times and elect one initialiser | initialisation happens once, before anyone uses it |
| mcs channels, `src/real_time/baremetal/mcs`, `libck/mcs` | endpoint table | create, destroy, send, shutdown | name service callbacks race with users | a channel is free or has a live endpoint |
| real-time DMA, `src/real_time/drivers/dma` | semaphore, start flags, callbacks, complete flags and status, interrupt mask | search for a channel, sync and async transfer, interrupt | timeouts race late completions; the channel status is read before the flags | success means this transfer is done, a channel is never lost |
| real-time net, i2c, spi, uart, gpio, timer, watchdog | hardware registers, descriptor rings | init, transfer, interrupt | rings shared with hardware | rings stay FIFO |
| secure M3 driver, `src/non_real_time/drivers/msg_scm3` | two rings, data buffers, completions, work item | ioctl, interrupt, work item | timeouts, late replies, reuse of indices, interrupt clearing | each process gets its own reply, no buffer leaks, every call returns |
| hardware lock driver, `src/non_real_time/drivers/hw_lock` | hardware owner, count, semaphore | acquire, release | the M3 competes at any moment, signals interrupt waits | M3 excluded while held, nothing left behind |
| MCS kernel module, `open_source/mcs/mcs_km` | list of mapped ranges, IPI flag | mmap, poll, ioctl, IPI | unlocked list, flag consumed by poll | no lost wake-up, no overlapping mapping |
| MCS library, `open_source/mcs/library` | endpoints, receive loop | bind, send, receive, deinit | threads, shutdown order | bound endpoints are valid, the loop ends |
| Linux network driver, `src/non_real_time/drivers/gmac` | queues of descriptor nodes, receive ring, interrupt mask and status | start_xmit, transmit tasklet, NAPI poll, interrupt, open, stop | four contexts on several CPUs share queues and registers with the chip | the chip never reads a freed packet, ring and chip agree, a masked interrupt is enabled again |
| other Linux drivers (comm, gpio, i2c, spi, sdio, sfccom, pcie, usb, ...) | hardware registers | Linux framework callbacks | hardware not in the sources | not modelled |

The message module calls the interrupt layer to raise IPIs; the interrupt layer
calls back into message receivers.  The Linux side starts the real-time cores
through mcs_km (PSCI) and talks to them through virtio rings announced by the
same IPI.  msg_scm3 and hw_lock connect Linux with the secure M3, and hw_lock is
used by the eMMC and SFC drivers.  `PROJECT.json` lists all components and, under
`hazards`, every place found that a test would hardly reach.

## Modules

| module | models |
|---|---|
| `MsgBox` | abstract specification: each message id is an atomic register |
| `BmMessage` | `message.c`, with `bm_hwi_trigger`, `bm_enable_irq`/`bm_disable_irq` and `do_irq` |
| `MCBmMessage` | the calls TLC lets the cores make |
| `BmMessageProofs` | theorems about `BmMessage`, and that it implements `MsgBox` |
| `BmHeap`, `BmHeapProofs` | `bm_fscmem.c`; theorems about it |
| `MsgScm3`, `MsgScm3Proofs` | `msg_scm3.c`, and the M3 as its counterpart; theorems about them |
| `HwLock` | one lock of `hw_lock.c`, the lock hardware, the M3, and `hi_mci_shutdown` |
| `HwLockProofs` | theorems about `HwLock` |
| `BmDmac`, `BmDmacProofs` | `dmac.c`, the chip's channels and the interrupt; theorems about them |
| `GmacTx` | transmit half of the Linux gmac driver: `eth_tx.c`, the queues of `gmac.h`, the chip's descriptor FIFO |
| `GmacRx` | receive half: `eth_rx.c`, the ring, the chip's buffer FIFO |
| `Gmac` | composes both with the interrupt handler, the deferred work, `gmac_open` and `gmac_stop` of `gmac.c` |
| `GmacTxProofs`, `GmacProofs` | theorems about `Gmac`: the transmit half, and on top of it the receive half, the interrupts and the types |
| `Mcs` | composes the MCS library, `mcs_km`, the baremetal `mcs.c` and loader with the sample applications on both sides |
| `McsProofs` | theorems about `Mcs` |

**BmMessage.**  Every core has a main and an interrupt context; the latter
preempts the former between any two memory accesses.  A call goes through
`cas` (argument check and compare-and-swap of the status word), `copy` (one word
per step), and for a notified send `notify` (trigger word) and `sgi`
(`bm_hwi_trigger`); `abort` is the length check made with the slot held.
`pos` and `buf` are the progress and target of the copy.  `stored` is a history
variable: the body as the last complete send left it.  The refinement mapping
shows `stored` as the register and the locations as the stage of the abstract
call.  `posted` is another: which messages a completed notified send stored for which
core.  A length of 0 is accepted, as in the code, which checks no lower bound unless
`BM_ADDR_PROTECT` is set.  Memory is sequentially consistent; see the hazard on `bm_atomic_set`.
Not modelled: the accessors that hand out a slot without its lock
(`bm_get_msg` and relatives).

**BmHeap.**  The region is a function from block addresses to headers (size,
size of the previous block, allocated flag), next to the free lists and bitmap
the code keeps.  Sizes are `2^WordBits` wide, so a huge request wraps as the
`unsigned int` does.  The search looks through the list of the request's own class
for a block that is large enough and otherwise takes the first block of a higher
class without looking at its size, as `bm_memory_search_fsc` does; `SearchComplete`
says that this is right.  Each call is one step because the code masks interrupts.

**MsgScm3.**  A process goes through `copyIn`, `send` (with counted retries while
the M3 has not set up its ring or the ring is full), `wait`, `copyMsg`, `copyOut`.  The interrupt handler is two
steps (queue the work, clear the interrupt), the work item is one step to look at
a slot and wake its waiter and one to advance `ci`.  A message or response is the
identity (`tag`) of the call it belongs to; `sent`, `replied` and `expired` are
history variables.  The M3 takes requests in order, answers in any order, and may
stop doing either.  The checksum is a Boolean: right or wrong.

**HwLock.**  `owner` and `req` are the hardware, `sem` and `count` the driver.
Every wait for the semaphore may be ended by a signal.  `leaked` counts releases
that ended that way: `hw_release_hard_lock` returns `void` and does nothing.
The system-control registers are taken to be mapped: the error returns of an
access before the sysctrl driver is probed are left out.
`shut` records that `hi_mci_shutdown` released a lock it does not own: that takes one
share from the users, so `M3Excluded` and `CountExact` allow for one share from then on
and no more.

**BmDmac.**  A caller goes through the semaphore, the status snapshot, the scan of
the start flags (one channel a step, since flags are cleared meanwhile), the programming of the channel (the two steps of each unprotected
change of the interrupt masks among them), the start, and for a synchronous
transfer the wait, which ends with the completion flag or after a last look when
its count has run out.  The number of a transfer exists only to
say whose result a caller was given.  The interrupt handler records a completion in
several steps (flag, status, callback); with `OneCore` it runs on the callers' core
and they stand still meanwhile (the code moves the affinity to the core of the last
caller).  The
count of a wait is abstracted to "may run out".  Not modelled: `bm_dmac_deinit`,
the argument checks, transfers started from a callback.

**Gmac, GmacTx, GmacRx.**  A node goes from `unused` through a sender to `inused`
and through the tasklet back; senders and tasklet interleave between the two
queue locks.  The chip holds a FIFO of descriptors and works on one at a time,
writing `tx_state` back before it fetches the next: this is what the tasklet
relies on when it recycles all nodes but the last without looking (`eth_tx.c:88`).
The receive ring is a function from slots to what is in the buffer; the chip
fills buffers in the order it was given them.  `Gmac` adds the mask and status
registers (sets of sources), the handler step by step with the copy of the mask
it reads before it takes the lock (`imask`), the tasklet and NAPI with the CPU
they run on, and `gmac_open`/`gmac_stop` with their unlocked read-modify-write of
the mask (`amask`).  A handler stops what runs on its CPU.  NAPI and the tasklet
are modelled from how the driver uses them and marked external.  The handler reads
status and mask in two steps and goes through its table in the table's order; the
error sources in front of, between and behind the two for data are one source each
(`Errors`).  Their handlers log and count, except that of bit 29, which resets the
core (`gmac.c:713`): what that does to the FIFOs of the chip is not in the sources and
is left out.  Only interrupt mode (`g_rx_mode = 0`, the default) is modelled.  Not
modelled: interrupt coalescing, core reset and `tx_timeout`, probe and remove, DMA mappings, contents of packets.

**Mcs.**  Four actors: the main thread of the Linux process (`hpc`; its application
is `rpmsg_pty_baremetal/rpmsg_main.c`), its receive thread (`rx`), the interrupt of
`mcs_km` (`irq`), and the client core, whose main context (`cpc`) stands still while
its handler (`cirq`) runs (its application is `sample_ipc.c`).  Putting a message
into a ring and raising its interrupt are two steps.  `poll` is modelled as the
kernel does it: register in the wait queue, test and clear `irq_ack`, sleep, look
again when woken.  A signal ends the wait (`RxSignal`): `poll` fails, and the receive
loop with it, for the rest of the run.  Returned buffers raise no interrupt, because both sides call
`virtqueue_disable_cb`.  An operation of open-amp on a ring is one step.  The
process may be killed at any step; nothing is undone then, because `mcs_fops` has no
`release`.  It may also end in freed queues, in the receive thread (`RxCrash`) or when
the endpoint is destroyed after a stop for which there was no buffer
(`HostExitCrash`).  A new process is refused while the core is on or the ranges are still
listed (`mapped`).  `NoLostMessage` speaks of messages for Linux while the receive loop
runs.  A message is `Data`, `Halt` or the name it announces.
The count of a wait for an endpoint or a buffer is abstracted to "may run out".
What `destory_remoteproc` sends needs an endpoint no baremetal client creates, so
it sends nothing.  Not modelled: pty endpoints, the rpc service, `bm_mcs_destroy_ept` and
unregistering, several processes, addresses and contents of messages.

Definitions commented "Mutant" are wrong variants of the definition that follows;
no specification uses them.  They document which mistake each property notices.

## Runs

| run | shows |
|---|---|
| `bm_message` | 2 cores, 2 slots, 2-word bodies, 2 payloads, 2 calls per core: lock, untorn receives, an announced message was stored for that core, no deadlock, refinement of `MsgBox`; every call returns and every enabled IPI is served |
| `bm_heap` | every order of allocations and frees in a 256-byte region with sizes 0, 8, 28 and one that wraps |
| `bm_heap_overwrite` | *violated*: a caller within its size hits the tail magic |
| `msg_scm3` | 2 processes, rings of 3 slots (two messages), 3 calls, timeouts and bad checksums: buffers owned, rings FIFO, data goes to its owner until a wait expires; every ioctl returns, whatever the M3 does |
| `msg_scm3_late_reply` | *violated*: a late reply goes to the next owner of the index |
| `msg_scm3_lost_irq` | *violated*: a reply nothing will look at |
| `hw_lock` | 2 users, 2 acquisitions each, shutdown, signals: exclusion (after a shutdown: under two users), exact count (after a shutdown: but for one share), nothing stranded, calls return |
| `gmac` | 2 nodes, 1 sender, ring of 2, all on one CPU, one fault (error interrupt, failed allocation or stop): no node lost, the chip's data alive, ring and chip in step, interrupts enabled again; senders get nodes again and announced packets are consumed |
| `gmac_lost_mask` | *violated*: with two CPUs the handler's stale copy of the mask disables an interrupt for good |
| `dmac` | 2 callers, 2 channels, 3 transfers, expiring waits, one core: semaphore given back on every path, a channel has one holder, a synchronous caller gets the result of its own transfer |
| `dmac_stale_status` | *violated*: a busy channel is taken for an idle one |
| `mcs` | 2 runs of the process, 2 messages, rings of 2 buffers, failed starts, stops, signals, crashes and kills: no message is left unannounced or behind a missed wake-up, no ring is overrun, a stop that was sent turns the client core off |

Bounds.  Two cores with handlers give all pairs of contexts, on one core and on
two; two words suffice to tear a copy; a second call per core lets a call meet the
leftovers of the first.  In the heap three to four blocks fit, so a block with
used and free neighbours on both sides occurs.  A ring of three slots holds two
messages, so their order matters, and is full with them; the two runs of `MsgScm3` that
show a violation need only one message (`Depth = 2`).  There are as many data buffers
as slots and fewer processes, so no run has a process that finds no buffer; the
theorems cover it.  Three calls let an index be reused after a timeout and after a
reply.  With two nodes the chip's FIFO holds one descriptor, so both refusals of a
sender (no node, chip full) occur while the tasklet recycles; a ring of two wraps,
and `Budget = 2` lets a poll end with and without spending its budget.  `MaxWork`
bounds the packets, `MaxFault` and `MaxNoMem` the faults; three packets reuse a
node and a slot.  Three DMA transfers let a channel be reused after an expired
wait while the other is in use.  Rings of two buffers are full with the two
announcements, and with two messages before the stop; the second run starts with
an interrupt or `irq_ack` left over from the first.  `MaxRuns`, `MaxSend`, `MaxCalls`, `MaxUses`, `MaxRetry` and `WordBits` are bounds, not code
constants (the code retries 100 times and uses 16 slots and 32-bit sizes).

Deadlock is checked for `BmMessage` and `BmHeap`.  The others may stop: calls and
packets are bounded, the M3 may never answer, a leaked share keeps the lock, a
device may stay down, a Linux process may not be started again.

Fairness.  `BmMessage`: a core executes its current context and takes enabled
interrupts (weak fairness).  `MsgScm3`: processes are scheduled and their timers
expire; nothing is assumed of the M3 or the interrupt.  `HwLock`: tasks run, and
the kernel's semaphore serves waiters in order (strong fairness on `down`); no
signal is assumed.  `Gmac`: the kernel runs a pending handler, tasklet and poll, a
call of open, stop or a sender that has begun goes on, and the chip works on the
descriptors it was given; nobody has to send, to receive or to stop the device.
`BmDmac` states no fairness: a transfer may never end.  `Mcs`: threads are
scheduled, interrupts taken and the client core executes; nobody has to start the
process, to send, to stop or to kill it.

## Proofs

Every safety invariant that a passing run checks, and the refinement of `MsgBox`, is
a theorem for all values of the constants that satisfy the modules' assumptions.
The inductive invariants were checked with TLC on the runs' instances first.

**`BmMessageProofs`**, for any number of cores, slots, words and calls:
`TypeCorrect`, `SlotMutex` (`SlotLock`) and `ReceivesWhole` (`NoTornReceive`).
The invariants are not inductive alone.  `IInv` adds `CallInv` (a location fixes
what is known of the call's arguments, position and buffer) and `StoredInv` (a
slot nobody writes holds what was last stored); a receive that holds the slot
then copies from `stored`, because `SlotLock` keeps writers away.  From
`ConstantsAssumption`.

`IpiAfterMessage` (`IpiAnnouncesStored`) rests on `SendInv`: what the checks before
the copy establish of the arguments (`ArgInv`), the half-written body word by word
(`WriteInv`), and that a notification names a message stored for its core all the way from the end of
the copy through the trigger word to the pending interrupt (`NotifyInv`); a second
sender that overwrites the trigger word in between has stored its own message for that
core.

`ImplementsRegisters` (`AtomicRegisters`) is the refinement.  `stored` is the
register; `BoxStage` and `BoxResult` are the stage and result of the abstract call.
The release of the slot at the end of a send is the atomic write and that at the end of
a receive the atomic read, since by `NoTornReceive` the buffer then holds the register's
value; calls and returns map to themselves, the steps in between to stutters.

**`BmHeapProofs`**, for any region and word width, sizes and alignments: `TypeCorrect`,
`TilingCorrect`, `TagsCorrect`, `CoalescedCorrect`, `ListsCorrect`, `SearchCorrect`,
`AreasCorrect` and `DoubleFreeCorrect`.  All follow from one invariant, `HeapInv`, as
none of them is inductive alone:

- `Shape`: the headers tile the region, and every header but the first has one in
  front of it that ends there (`Preceded`).  Only so does the `prev_size` of a block
  lead the merge in `bm_memory_free` to a header; only because no two free blocks are
  neighbours (`Merged`) do one look backward and one forward restore that.
- `FreeLists`: each free block is linked once, in the list of its class (`Listed`),
  and the bit of every list that is not empty is set (`BitsSet`; the converse is false,
  the code clears bits lazily).
- `AreasDisjoint`, `SmashedUsed`, `DoubleFreeSeen` and `Accounted`: every used block is
  in use by a caller or was given up because of its tail magic.  It gives the second
  half of `Coalesced`, that a heap with nothing in use is one block again.

The lemmas at the head of the module are about sizes and classes: that `SizeIdx` is
monotone and that a block of a higher class is larger than any request of a lower one,
which is what makes the blind choice of the search right.  Powers of two, which
the provers do not know, are introduced as the number of subsets of `1..i`; minima come
from well-foundedness of `<`.  `SizeAssumption` asks that the region is a multiple of 4 and
representable, and that an alignment plus the smallest block is no more than `2^WordBits`
(the code admits alignments up to 2^14 and has 32 bits): then a sum that has wrapped is
less than the size asked for, and the test `alloc_size < size` refuses it.

**`MsgScm3Proofs`**, for rings of any size, any processes, calls and retries:
`TypeCorrect`, `BuffersOwned` (`BufferOwned`), `RingsAreFifo` (`RingsFifo`) and
`ResponsesMine` (`DataIsMine`).  `IInv` has `OwnInv` (a buffer is marked taken exactly
while one process works with it), `TagInv` and `OnePlace` (a request under way has an
identity of its own and is in one ring or with the M3), `CountInv` (a completion counts
no more than the calls that are no longer under way, so it is bounded), and `WaitInv`: as
long as no wait has expired, whatever is under way belongs to a process that waits at
that buffer, and a completion stands for the one response lying in it.  The hypothesis
of `DataIsMine` is needed: `msg_scm3_late_reply` violates the property without it.

**`HwLockProofs`**, for any finite set of users: `ExcludesM3` (`M3Excluded`),
`CountsUsers` (`CountExact`) and `LeavesNothing` (`NothingStranded`).  The key is
`HwInv`: a positive count means the hardware lock is the A55's; at count zero the
hardware holds something of the A55 only while the one call inside the semaphore
(`SemHeld`) is at a location that will settle it.  `CountExact` needs `CountInv`: the
count is exact until the shutdown path has made its release (`Intact`), and at most one
less than what is `Due` afterwards.  Users join and leave what is due one at a time; a
user whose release finds a count of zero makes up for the share that was taken.
Exclusion follows because a holder, or a second one after a shutdown, makes the count
positive.
The same module gives `TypeCorrect` and `SemCorrect`.

**`BmDmacProofs`**, for any finite number of callers and channels and whether or not
the interrupt shares the callers' core: `TypeCorrect`, `SemCorrect` (`SemHeld`) and
`HeldCorrect` (`ChannelHeldOnce`).  `LocalInv` ties a caller's place to what it
holds; the scan takes the first channel it finds with a clear flag while it holds the
semaphore, so a flag belongs to one caller until that caller clears it.

`OwnResult` (`SyncOwnResult`) has the hypothesis `OneCore`: with the interrupt on
another core the flag is seen before the status and the property is false.  `OwnInv`
follows the completion of a transfer from the channel through the pending interrupt and
the handler to flag and status (`CallerInv`); on a channel that was never spoilt it is
in one of these places, never in two, and nothing of an earlier synchronous transfer is
left when a new one begins (`ChanInv`).  `NumInv` says whose transfer runs.

**`GmacTxProofs`**, for any finite set of nodes and any packets and senders:
`ChipDataCorrect` (`ChipDataAlive`).  The argument: the descriptors in the chip are a
suffix of `inused` (`ChipSuffix`), only the node on the wire may have been fetched and
not written back; `limit`, computed from a length read before the FIFO level, never
exceeds the nodes in front of that suffix plus the one on the wire (`LimitInv`:
senders append behind, the chip only shrinks its part), and the last of them is
recycled only after its write-back.  `Apart` and `OneHolder` keep nodes and packets
from being in two places.  `NodesCorrect` (`NodesConserved`) adds `NodesCovered`, that
every node is in some place; counting the disjoint places gives the number of nodes.

**`GmacProofs`**: `IrqEnabledOneCpu`, for any sizes, with all CPUs equal: the handler
then cannot interleave with the code that writes the mask, so its copy is up to
date (`IrqInv`), and a source is masked only while work for it is pending.  With
more CPUs the property is false, which `gmac_lost_mask` shows.  `RingCorrect`
(`RingInOrder`), for a ring of any size and any CPUs: the slots the chip was given are the
ones behind `rxCurr` in ring order; inductive with `FillInv`, that a slot about to be
filled has no buffer the chip could write into.  `TypeCorrect` needs both halves: the
bounds on the chip's FIFO and on `limit` follow from the conservation of nodes.

**`McsProofs`**, for rings of any size and any number of messages and runs: `NothingLost`
(`NoLostMessage`).  The invariant is inductive with `PlaceInv`: the client core is
off until the process turns it on, so nobody's announcement is cut off by a start,
and there is no reader until the thread is created.  The argument for the wake-up:
the thread registers before it tests `irq_ack`, and the interrupt sets `irq_ack`
before it wakes, so a thread that sleeps with the flag set has the wake-up behind or
before it.  `TypeCorrect` says among the rest that no ring is overrun.  `BufInv` makes
that inductive: a buffer is in the ring, with the reader or with a writer that got it and
has not put it yet.

Only model-checked: the liveness properties (`CallsReturn`, `IpiServed`, `CallReturns`,
`TxProgress`, `RxServed`, `StopReaches`; `CallsReturn` of `HwLock` too), because fairness and
ENABLED are outside the prover; and the five runs that show a violation.

## Findings

1. `bm_fscmem.c:115`: blocks are only 4-byte aligned because the tail is added
   after rounding; the area handed out can cover the tail magic, and
   `bm_memory_free` then reports an overrun that did not happen and keeps the block.
2. `msg_scm3.c:301/406`: replies after a timeout are delivered to the next owner
   of the index; independently, the ring slot is released before it is copied
   (set `RxTimeouts = FALSE`, `MaxCalls = 4` in `MsgScm3_late_reply.cfg`).
3. `msg_scm3.c:150`: the interrupt is cleared after the work is queued and a reply
   can be left unannounced until the next one or the timeout.
4. `gmac.c:786`: the handler writes back a mask read before it took `mac_lock`; an
   enable by the poll or the tasklet on another CPU in between is undone and that
   direction stays dead until the device is reopened.  Pinning the interrupt is not
   enough: `gmac_open`'s unlocked read-modify-write loses an update the same way
   (`IrqCpus = {c1}` with two CPUs).
5. `dmac.c:484`: the channel status is read once, before the start flags; an
   asynchronous transfer started in between has cleared its flag again, and its
   channel is taken and reprogrammed while it runs.

Seen while modelling and not kept as runs: of two notified sends to one core the
second overwrites the trigger word, the IPIs coalesce, and the first message is
never announced (`message.c:45`; `bm_message.h:156` promises the message that
triggered the IPI); `bm_send_msg_with_ipi` returns `BM_OK`
when the sender's own IPI is disabled and no IPI is raised (`message.c:161`);
a reply with a bad checksum blocks the A55 ring for ever (`msg_scm3.c:172`);
an interrupted `hw_release_hard_lock` keeps the lock until reboot
(`hw_lock.c:128`, visible as `leaked` in `CountExact`); `hi_mci_shutdown` takes a share
from a user, and the M3 gets in when no other user is there (`himci.c:1730`); an asynchronous DMA
transfer refused because a callback is still registered leaves the start flag set
(`dmac.c:845`), which a transfer started from a callback always meets;
`BM_WAIT_FOREVER` is a count that runs out (`dmac.c:751`); two callers setting up
channels lose one of two interrupt enables (`dmac.c:562`); the completion flag is
set before the status, so `SyncOwnResult` fails with `OneCore = FALSE`
(`dmac.c:783`); `NETDEV_TX_BUSY` is returned with the packet still mapped
(`eth_tx.c:192`); `tasklet_kill` of a disabled and scheduled tasklet does not return
(`gmac.c:1406`); a handler and its argument are installed in separate stores
(`hwi_proc.c:75`); a packet left in the ring when the device goes down waits after
the next open for the interrupt of another packet.

In the MCS channel: the library registers its shutdown endpoint after it has started
the core, and stores a name before its callback; an announcement that arrives
earlier is dropped, and `openamp_deinit` then releases everything while the client
keeps running (`openamp_module.c:262`, `rpmsg_endpoint.c:75`).  `virtio_deinit` frees
the queues under the receive thread, which nobody joins (`RxCrash`), and when no
buffer comes free `openamp_deinit` destroys the endpoint, name-service message
included, after the queues were freed (`openamp_module.c:306`, `HostExitCrash`).  A
SIGINT that the receive thread takes ends its loop before `openamp_deinit`
(`rpmsg_endpoint.c:204`).  A killed process
leaves the ranges in `phy_list`: no process can map them until somebody issues
`IOC_CLOSE_OPENAMP`.  `bm_mcs_create_ept` never gives a channel back when
`rpmsg_create_ept` fails (`mcs.c:266`).  The mutex of libmetal is empty on the
baremetal side, so a handler may enter ring code its core was executing.

## Plan

1. `BmHwi` and `BmBoot`: boot race, save/restore of interrupt enables by other
   cores, composed with `BmMessage`'s initial state.
2. `Mcs`: mappings of several processes (the list of ranges and `init_state`),
   several processes that share `irq_ack`, the client's endpoint table with destroy
   and re-creation, ring operations of the client split at the missing mutex.
3. A store-buffer variant of the copy and release steps of `BmMessage`.
4. Abstract specifications with proved refinements for the heap (a set of disjoint
   areas) and the hardware lock (a counted lock shared with the M3), as `MsgBox` is for
   the messages; theorems for the modules above as they are written.

Not modelled: register sequences of the bus, storage and platform drivers, whose
hardware the sources do not describe, pure wrappers (osal), start-up assembly,
samples and tools.
