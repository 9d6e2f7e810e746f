# A TLA+ model of quincy-tun

quincy-tun creates TUN interfaces and moves IP packets between them and an
asynchronous program.  Most of it is a thin layer over system calls; the parts
with logic of their own, where an error would be hard to find by testing, are
the Linux offload path (coalescing packets before they are written, splitting
them after they were read) and the Windows path (a driver session shared by
threads that block in it while others enable, disable and drop it).  The
asynchronous Unix device depends on readiness that the kernel reports only once.
Device creation and configuration are sequences of system calls, any of which
may fail and between any two of which others act.  This directory models those
parts, checks them with TLC on small instances and proves their invariants and
action properties with TLAPS for all instances.

Paths below are relative to the repository's `src/`.

## Inventory

| Component | State | Operations | What is hard |
|---|---|---|---|
| GRO and batched send, `platform/linux/offload.rs`, `send_multiple` in `platform/linux/device.rs` and `async_device/unix/mod.rs` | the caller's buffers, modified in place; two flow tables; `to_write` | reset, lookup, append, prepend with a buffer swap, removal of an item, accounting, writes | packets in any order, sequence numbers that wrap, an item removed from the vector being scanned, indices that survive a swap, failing writes, futures dropped between two writes |
| GSO and batched receive, `gso_split`, `handle_virtio_read`, `recv_multiple` | raw buffer, output buffers, sizes | split, checksum, header repair | boundaries: zero gso_size, last short segment, too few or too small buffers |
| Checksums, `platform/linux/checksum.rs` | none | one's complement sums | carries, odd lengths |
| Wintun adapter, `platform/windows/tun/mod.rs` | AtomicBool and Mutex (`State`), `RwLock<Option<WinTunSession>>`, manual-reset event | enable, disable, send, recv, try_*, wait, Drop | blocked readers against a writer, flag, event and session changed one after the other, every one of several calls failing |
| Windows asynchronous device, `async_device/windows/mod.rs` | task slots for poll_*, cancel and exit events | poll_recv, poll_send, readable, recv, send, cancellation | futures dropped while a pool thread blocks, a bounded wait for it, two tasks on one slot |
| Unix asynchronous device, `async_device/unix` | tokio's AsyncFd | readable, recv, send, poll_*, try_* | readiness against WouldBlock |
| Device creation and configuration, Linux, FreeBSD, macOS; `builder.rs` | descriptor, op_lock, associate_route, flags | new, addresses, routes, MTU, name, Drop | one ioctl of several failing; Drop order |
| TUN framing and descriptors, `platform/unix` | descriptor, packet information flag | send, recv, vectored forms, into_raw_fd, drop | buffers at a boundary, ownership |
| Windows configuration and discovery, `netsh.rs`, `dns.rs`, `ffi.rs`, `tun/adapter*.rs` | none | calls of other programs and of the IP helper API | input and output only |

The asynchronous device owns the synchronous one and calls it: on Unix after
AsyncFd reports readiness, on Windows on a pool of blocking threads.  The
synchronous device calls the TUN file descriptor or the Wintun session.  The
GRO table belongs to the caller of `send_multiple` and is handed in with each
call.

What makes each part correct: batched send delivers every packet of a batch
exactly once and unchanged when the kernel segments again what was coalesced;
batched receive is its inverse; the adapter never touches a session that was
ended, never leaks one, and can always be disabled; cancelling a future leaves
nothing behind; configuration either happens or is undone.

## Modules

### GroBatch (with BatchDelivery, GroBatchProofs, GroDeliveryProofs and MCGroBatch)

One device's calls of `send_multiple`, one after the other.  `bufs`,
`tcp_gro_table`, `udp_gro_table` and `to_write` are the code's; `pkts` keeps
the batch as the caller passed it, so that properties can compare.  A packet is
a record of what the coalescer looks at: kind, flow key, header class, sequence
number, payload length, PSH, whether it is well formed, whether its checksum
verifies, and the spare capacity of its buffer.  A buffer is the packet whose
headers are in front, the sequence of packets whose payloads follow, length,
capacity and what was written into the virtio header and the length field.  All
coalescable packets have the same header length.  Buffers and items are
numbered from 1.

`CallEmpty`, `CallTooMany`, `CallGro` and `CallPlain` are the entry of
`send_multiple` with its early returns.  `GroInvalidOffset`, `GroNoop`,
`TcpLookup`, `UdpAppend`, `UdpInsert` are one iteration of `handle_gro`'s loop;
the scan of `tcp_gro` over the items of a flow is one step per item
(`ScanSkip`, `ScanItemInvalid`, `ScanPktInvalid`, `ScanAppend`, `ScanPrepend`,
`ScanInsert`).  `GroAccount` is both accounting functions.  `Write`,
`WriteBadFd`, `WriteInvalidOffset`, `Finish` are the write loop, and `Cancel`
is the future dropped at its await.

`BatchDelivery` says what a caller may rely on: every packet is delivered at
most once, lost only in a failed write, and `Ok` means that all were delivered.
`DeliversBatch` is the refinement: the packets delivered are those inside the
buffers whose write succeeded.

### GsoSplit (with GsoSplitProofs and MCGsoSplit)

One device's calls of `recv_multiple`, on `DeviceImpl` and on `AsyncDevice`.
`CallRefused` and `Call` are the checks of the arguments, `ReadPlain`,
`ReadVirtio`, `ReadShort` and `ReadFails` the read, `VirtioNone`,
`VirtioRefuse` and `SplitBegin` the decisions of `handle_virtio_read`, and
`SplitSegment`, `SplitTooMany`, `SplitTooSmall` and `SplitDone` the loop of
`gso_split`, one step per segment.  A frame is its length, the fields of its
virtio header and what its own headers say; a buffer's content is the range of
the frame's bytes that became its payload, with the fields computed for it.
Lengths are scaled down (`MCGsoSplit`), and 16-bit arithmetic wraps at `Width`,
as a release build does.  The model takes the checksum field to lie inside the
transport header, where the kernel puts it.

### Checksum

The operators of `checksum.rs`, under the code's names: the scalar sum, the AVX2
and SSE4.1 sums (`lanes_sum` with four and two lanes), the choice between them,
the folding and the pseudo-header.  A byte has `Radix` values, so that a 64-bit
number fits the model checker's integers; what carries and what is folded is
the same.  `Reference` is RFC 1071's definition.  `CaseAssumption` says what the
code sums: addresses of whole 16-bit words, and with the packet too few bytes to
overflow 64 bits.  GsoSplit extends this module, so that one of its runs
evaluates the comparison once (`ChecksumExact`); its actions, and GroBatch's,
only know whether a checksum verifies.

### WintunAdapter (with WintunAdapterProofs and MCWintunAdapter)

Threads of two kinds over one `WinTunAdapter`.  `Receiver` are the workers that
may receive or wait for readability as well as send.  A worker runs `send`,
`send_interruptible`, `try_send`, `recv`, `try_recv` or
`wait_readable_interruptible`: it takes the read guard (`LockSession`, or
`LockDisabled` when there is no session), tries the driver, and waits or retries
with the guard held.  A controller runs `enable` or `disable`, one step per
effect: lock the mutex, look at the flag, store it, signal the event, queue for
the write lock, take the session, reset the event; or queue, start a session,
get its read event, publish.  Every call that can fail has its failing action.
`Drop` ends everything when no thread is inside.  `disabledSeen` is a history
variable.

External, modelled from their use: the driver's two bounded rings and its
auto-reset read event (`Arrive`, `Drain`), Win32 events, and std's locks.  A
reader that arrives while a writer waits stays outside, as in std's futex
RwLock.  The flag is loaded and stored with relaxed ordering; the model takes
it as sequentially consistent, which the lock operations around its use allow
and the retry loop of send only delays.  Time is a bounded number of retries.

### WintunAsync (with WintunAsyncProofs and MCWintunAsync)

`AsyncDevice` on Windows, over a device abstracted to what WintunAdapter shows.
`job` are the tasks of the blocking pool, each with the Canceller's two events;
`slot` is what `recv_task_lock` and `send_task_lock` protect.  `PollTry`,
`PollTake`, `PollSpawn`, `PollPending`, `PollReady` are the steps of `poll_recv`
and `poll_send`; `Try`, `AwaitJob`, `AwaitReady` those of `readable`, `recv` and
`send`; `CancelBegin`, `CancelTrigger`, `CancelEnds` the drop of a future;
`Job...` a thread of the pool; `Disable`, `Enable`, `DropBegin`, `DropFields` the
rest of the device.  `program`, chosen in `Init` from `Programs` and then fixed,
is what the caller does: which task uses which operations, which it gives up,
the lengths of its buffers, how much arrives and is sent, and, in `exitLate`,
whether a cancelled thread may take longer than the 10 ms its future waits.

`Shutdown` may fail, as `disable` in WintunAdapter may: `SetEvent` returns an
error, the flag is put back, the session stays and nobody is woken.  Drop
discards that error, so afterwards the interface is enabled, `DropFields` does
not wait for those inside, and the device is `Open` until the last of the pool's
threads lets go of it.  A failed `enabled` is a stuttering step here, apart from
a sender that saw the flag down in between, which is one of the errors of
`JobFails`.

### UnixAsync (with UnixAsyncProofs and MCUnixAsync)

`AsyncDevice` on the Unix systems: `recv`, `send`, their vectored, `poll_` and
`try_` forms, and `readable` and `writable`, of tasks that share one
descriptor.  An operation is its direction, form and buffers, and goes through
`Check` (readiness, or a waker left behind), `Io` (the attempt), and after
WouldBlock `Clear` and round again; `Cancel` gives it up.  External: tokio's
AsyncFd with its readiness and tick per direction (`Dispatch`, `Clear`), where
of two tasks that poll the same direction only the later is woken
(`Displaces`), and the kernel's queues (`Arrive`, `Drain`).  The attempt itself is
`recv_vectored` and `send_vectored` of `unix/tun.rs`: the header with the address
family that FreeBSD and macOS packets carry is hidden or shown
(`set_ignore_packet_info`, which may be called at any time), `max_iov`, an empty
first buffer, a read shorter than the header.  A frame is a sequence of bytes and
the header `PIL` of them.

### BsdDevice (with BsdDeviceProofs and MCBsdDevice)

The FreeBSD and the macOS device; `os` says which, per behaviour.  As in
LinuxDevice an operation is the sequence of its calls and `MayLock` is op_lock;
`Name`, `Ioctl`, `DeleteAll`, `ListAll`, `ListMatching`, `Route`, `SetSifhead`,
`SetAssociateRoute` execute its head, and `ListFails`, `RouteFails` and `Fails`
are its failures: the first two are ignored or logged by the code, the last ends
the operation.  `New`, `OpenTun`, `OpenBusy`, `OpenSocket`, `Connect`, `SetUp`,
`DisableLocalIpv6` with their failures are `DeviceImpl::new`; `DropBegin`,
`DropDestroy`, `DropClose`, `DropFields` the two Drops; `IntoRawFd` and `FromFd`
the ways a descriptor changes hands.  A descriptor is a number, and the rest of
the process opens and closes files (`FileOpens`, `FileCloses`), so a number
closed twice may be somebody else's.  Addresses have `Bits` bits; prefixes,
netmasks, networks and broadcast addresses are computed as in `builder.rs` and
ipnet.

### LinuxDevice (with LinuxDeviceProofs and MCLinuxDevice)

`DeviceBuilder::build_async`, `DeviceImpl::new` and the operations on the
interface.  `ifs` are the kernel's interfaces, one of them another program's;
`dev` is the device or the one being built; `th` is the operation that each
thread executes.  Each operation is written as the sequence of its system calls,
under the code's names (`set_mtu == request \o <<"siocsifmtu">>`), and one action
per kind of call executes its head: `TunGetIff` fetches the interface's name,
`IfNameToIndex` its index, `SetByName`, `SetByIndex`, `SetByFd`, `GetByName`
reach the interface in the code's way, `ListAddresses`, `RemoveEach`,
`GetIfAddrs` and `LookUpV6` deal with lists; `Fails` is the error return of any
of them.  `MayLock` is op_lock.  `Open`, `TunSetIff`, `TunSetOffload`,
`Configure`, `NewDev`, `NewFails` are the build, `IntoRawFd` and `FromFd` the ways a
descriptor leaves a device and becomes one, `Drop`, `CallerCloses` and `Crash` its
end, `OtherRenames` the other program.  The kernel's side (attach or
create, what an ioctl changes and refuses, what a persistent interface keeps) is
external.  Nobody outside this program renames or configures its TUN interfaces,
without which no operation by name could be right.  Names that are too long,
which are refused before anything happens, and the creation of `/dev/net/tun`
are left out.

## Runs

| Run | Question | Instance |
|---|---|---|
| gro_batches | does the kernel get back what was merged, in every order of arrival; is everything consistent when merging is refused half way; are datagrams merged only in order | batches up to 4 of 11 segments of one flow, numbers around the wrap of a 16-value space; batches up to 3 of segments and datagrams with wrong checksums, three sizes of spare room, other flows and headers |
| gro_calls | does each call start afresh, keep the caller's contract and return | all four kinds of device, two calls, MaxBufs 2 with batches of 3, offsets 0 and 1 |
| gso_split | are the segments the frame, inside their buffers, with right headers; is nothing stale reported and nothing refused without need; do the three checksum versions agree with RFC 1071 | two calls, 65 frames of both versions and protocols, 21 argument shapes, 0 to 3 buffers, and 16 of them; checksums of all data up to 5 bytes of three values and of chosen data up to 70 |
| wintun_safety | use after end, leaks, flag against session, does an old event reach a new session | 2 workers, 2 controllers, 2 sessions, all failures but that of ResetEvent |
| wintun_live | can disable always finish, does a send end, is a receiver woken | a receiver that also sends, a sender, a controller, all failures |
| wintun_async | does a packet get lost or overtaken between two pollers of one slot, does Drop free the device, and what stays when its shutdown fails, do cancelled operations end without a trace, is a receiver woken | two programs: 2 pollers of two lengths, 2 packets, polls given up; and 1 task with all awaiting operations, 2 packets, 3 sends, futures dropped anywhere |
| unix_async | is readiness ever lost, does anybody sleep beside a packet, is every packet framed rightly while the packet information is switched | 2 tasks, 9 operations, 3 of them called, 2 packets, a queue of 1, MaxIov 3 |
| linux_device | is the interface as configured, is nobody else's touched, is nothing left | 2 threads, 3 builders, 23 operations, 2 builds, 2 calls, 3 indices, crashes and failures anywhere |
| bsd_device | does every descriptor have one owner, does set_network_address leave one address and its route | both systems, 2 threads, 2 units, 2 descriptors, 2 builds, 3 calls of 14 operations, any call failing |
| linux_addresses | (violated) addresses() lists the device's own addresses | a rename against a listing |
| freebsd_drop | (violated) Drop destroys the interface before it closes the descriptor | one device made and dropped |
| macos_route | (violated) the route of an address goes with it | one address added and removed |

Bounds.  Four packets are enough for a prepend in front of a merge, a merge
behind it and a packet that no longer fits; a removal during the scan needs
three.  Two calls show what one leaves to the next, and two builds what a
persistent interface carries over.  Two workers are the
least with one blocked and one entering; two controllers the least with a
disable against an enable; a second session shows what survives the first.
Two operations at once, with the other program's rename, are the least for a
stale name to hit a wrong interface.
Two descriptors are the least for a number to be reused between two closes;
three calls are an addition, a set_network_address that has to undo it, and a
third that runs into them.  Two tasks are the least for one to clear a readiness
that the other still needs, and a queue of one makes every second send block.
`MaxCalls`, `Batch`, `MaxSession`, `MaxTries`, `MaxBuild`, `MaxIf`, `MaxUnit`,
`MaxFd`, `MaxPackets`, `MaxOps`, `TxCap`, and `maxArrived` and `maxData` of a
program are bounds of the model; `MaxBufs`, `MaxLen`, `Width`, `SeqSpace`,
`Radix`, `Bits` and `MaxIov` stand for 65535, 65535, 2^16, 2^32, 256, 32 and
max_iov().
Deadlock is not checked: callers may stop calling, and nothing happens after
`Drop`.

Fairness.  A `send_multiple` call runs on its caller's thread and the kernel
answers a write (`WF_vars(Running)`); a thread
inside an adapter operation goes on when it can (weak fairness of each thread's
steps); the executor polls a task that was woken, and the pool runs its tasks.
Nobody has to call, packets need not arrive, the driver need not drain its ring,
a timeout need not be set, and neither lock is assumed to be fair:
`ControlReturns` is about the thread that has the mutex.  In UnixAsync the
executor polls a task that was woken, tokio's driver delivers its events, and
the kernel takes what was written; no packet has to arrive and nobody has to
call.  GsoSplit, LinuxDevice and BsdDevice state safety only.

## What the runs show

All properties of the passing runs hold.  Three statements of the
documentation and the comments do not:

- `addresses()` "retrieves all IP addresses associated with the network
  interface", but takes no op_lock: if another thread renames the interface
  between the name and the list, it returns an empty list, or the list of an
  interface that took the old name (linux_addresses).
- FreeBSD's Drop means to "destroy the interface before closing the fd", but
  takes the number out of the Fd first and then asks the Fd for the name, which
  fails: the interface is never destroyed (freebsd_drop).
- macOS's `remove_address` looks for the netmask of the address, which
  `remove_route` needs, after it deleted the address, so the route stays,
  although associate_route promises to "add or remove routes" (macos_route).

Two more statements do not hold, which are seen in the models but have no run:

- `udp_gro` only looks at the last item of a flow "to prevent reordering
  packets for a flow", but a datagram that was not a candidate (an empty one, a
  fragment) is not in the table and is overtaken; `UdpGroOrder` is about
  candidates.
- on Windows `readable` does not return again until the packet is read: the
  wait consumes the driver's event and does not look at the ring.

More facts are visible in the models and are noted under hazards or here:

- the accounting of coalesced packets stores the length in 16 bits; only the
  capacity of the caller's buffers keeps it in range.  `HeadersWritten` states
  the condition under which it is right.
- prepending a segment to an item that ends with PSH loses the PSH, since the
  headers of the prepended segment are kept; `RoundTrip` only says that no PSH
  is invented, and none in the middle.
- after a ResetEvent that fails, every wait on the next Windows session reports
  a disabled interface, and two receivers may miss a wake-up that both needed.
- a `poll_send` that was given up leaves its task in the slot, and the next
  `poll_send`, with other data, gets its result; `OkSentOnce` is about a caller
  that polls until it is Ready.
- a thread that is not done 10 ms after its future was dropped may take the
  wake-up of the next operation (`RecvWakes` is about programs with `exitLate`
  false).
- if SetEvent fails in the shutdown of a dropped Windows `AsyncDevice`, nobody
  learns of it, and a thread that waits in poll_recv's task keeps the device open
  until a packet comes; `DropReleases` says that nothing else stays then, and
  nothing at all if shutdown succeeded.
- if the kernel refuses the TCP offloads, the Linux device goes on with
  `vnet_hdr` false on a descriptor that has IFF_VNET_HDR; `OffloadAgrees` is
  about devices built without that warning.  `from_fd` does the same to a
  descriptor that another device was built on with offload.
- building with an IPv6 address that a persistent interface already has fails,
  as the kernel refuses to add it twice.
- an error in `set_network_address` leaves the interface without its old
  addresses.
- when macOS cannot list the addresses, the removal of the old ones is skipped
  and `set_network_address` returns Ok with several; `NetworkAddressExact`
  excepts calls with such a failure, and with a route command that was logged.
- on FreeBSD the name comes from the device file and not from the interface:
  after `set_name` every operation by name fails.
- two tasks that `poll_recv` on one Unix device replace each other's waker, as
  tokio documents; `IoCompletes` is about the one that polled last.
- `tuntap.rs:49` adds one to the unit of a utun name; the largest unit
  overflows.

## Proofs

`WintunAdapterProofs` proves, for any sets of threads, ring sizes and numbers
of sessions, `TypeOK`, `SessionSafe`, `NoLeakedSession`, `FlagMatchesSession`
and, if ResetEvent does not fail, `NoSpuriousDisabled`.  None is inductive: that
a reader's session is alive depends on who may be at the program point that ends
it.  The invariant `Inv` adds, in this order, `LockInv` (the program point of a
thread decides which locks it holds, and readers exclude the writer),
`ControlInv` (what flag and session are at each point of a control operation),
`SessionInv` (flag, session and the driver's sessions), `EventInv` (the event is
signalled only during a disable) and `SeenInv` (an operation that runs while the
interface is disabled has seen it).  Each part has a lemma with one step per
action; later parts use the earlier ones.  The assumptions are
`ThreadAssumption` (workers, controllers and None are distinct) and
`BoundAssumption` (the constants have their types).

`GroBatchProofs` proves, for batches of any length, any packets, offsets and
capacities, `TypeOK`, `NoRealloc` (no merge makes a buffer outgrow its capacity)
and `TableSound` (`to_write` ascends, and the items of both tables name distinct
buffers that will be written).  `TableSound` is not inductive: that a new item
names a buffer no other names follows only from where the loop is.  The
invariant `IInv` adds `LoopInv` (the loop variables are in range, and the packet
scanned for is mergeable), `FreshInv` (the loop has not touched what it has not
reached), `ItemInv` and `TableInv` (items point into what the loop has passed,
within a table and between the two never at the same buffer) and `WriteInv`
(`to_write` ascends and stays behind the loop).  The lemmas about removal from
and update of a sequence of items come first; then one step per action.  The
assumptions are those of GroBatch on its constants.

`GroDeliveryProofs` goes on with what happens to the packets, under the same
assumptions: `ExactlyOnce`, `NoBadChecksumMerged`, `HeadersWritten` and
`DeliversBatch`, that `send_multiple` implements BatchDelivery.  The invariant
`DInv` adds `OnceInv` (`Placed`: the packets the loop is through with are in the
buffers of `to_write`, each in one place, and nothing else is), `ShapeInv` (an
item with `num_merged` zero points at a buffer of its own packet alone, any
other at one of several packets that leaves `offset` bytes of its capacity
unused, so that with capacities within 2 * offset + 2^16 - 1 the length fits 16
bits), `HeaderInv` (a buffer no item points at has its header and one packet),
`DeviceInv` (only a device with virtio headers coalesces) and `OutcomeInv`
(nothing is written before the loop is over).  The steps fall into five kinds
(`StepKinds`: nothing moves; the packet's buffer is pushed; an item is removed;
the packet goes into an item's buffer; the headers are written), and each part
is proved once for each kind; the prepend, which swaps two buffers, is of the
fourth kind like the append.  For the refinement, entering a call is `Call`,
coalescing is a stutter, a write is `Deliver` or `Lose` of the packets in its
buffer, which by `OnceInv` are still pending, and `Finish` may return Ok only if
every buffer was written, which by `OnceInv` is the whole batch.

Its last part is about what the kernel makes of a buffer: `RoundTrip` and
`UdpGroOrder`.  What `GroAccount` compares is the length, the flow, the flags
and the sequence numbers, and no item says by itself that they fit the buffer it
points at.  `GroupInv` does: the packets of an item's buffer are `num_merged` + 1,
all but the last have `gso_size` bytes and only the last can have fewer or end
with PSH, they have the item's flow and header, and their sequence numbers follow
each other modulo `SeqSpace` from the item's on.  An append adds to the end of
that, a prepend to the front, and lemmas on remainders add up the sequence
numbers where they wrap.  `RoundTrip` is then `GroupInv` read where the writing
starts, and is proved with it.  For `UdpGroOrder`, `OrderInv` says that
in the buffers that will be written the mergeable datagrams of a flow are in the
caller's order, and that none of them is behind the buffer of the flow's last
item; since a datagram joins that item or begins a new one (`udp_gro`), every
step keeps it.

`GsoSplitProofs` proves, for any frames and arguments, header lengths, widths
and sequence spaces, `SegmentsFit`, `NotRefusedNeedlessly`, `SizesCurrent`,
`PayloadPreserved` and `SegmentHeaders`.  They speak of what a call leaves, so
the invariant `IInv` says what the loop has done so far: `Loop` relates the
number of segments, the position in the frame and each buffer filled so far to
the frame's header; `EarlierInv` marks what an earlier call left in the arrays;
`ControlInv` says at which program point which of this holds.  The two
properties about the contents then follow from the state in which the loop
ended.  `SizeAssumption` says that the header lengths are below `Width`, as
they are below 2^16.

Its second half, `ChecksumsAreExact`, is about the checksums (`SumsAgree`), for
bytes of any number of values and data of any length under `CaseAssumption`.
The model's sums are recursive functions, so the proof begins with functions
that are known to be such sums (`Recursion`, `Prefix`), and follows them with
`UpToLength` (a least number without a property has a predecessor without it).
The argument has four parts.  The lanes of the vector versions add up the same
32-bit words as the scalar loop, and reducing each to 64 bits changes nothing, so
all three versions return the same number (`Avx2IsScalar`, `Sse41IsScalar`).
That number is exact, since no sum of 32-bit words grows beyond 64 bits
(`SumBound`).  Adding 32-bit words instead of 16-bit ones, and folding, keeps a
number modulo 2^16 - 1 and keeps it zero or not (`Same`): so does the
end-around carry of `Reference`, and so the sum of several pieces is that of
their concatenation, as long as all but the last have whole words (`JoinWords`).
Five rounds of folding bring any 64-bit number below 2^16 (`FiveRounds`), where
numbers that are `Same` are equal (`SameIsEqual`).

`UnixAsyncProofs` proves `NoLostReadiness` and, as an action property, `Framed`
for any tasks, operations, buffers, packets and queue lengths.  The first depends
on what a task saw before it clears the readiness, which is `ClearInv`: if its
tick is the newest the direction was blocked, and is still, or an event is on its
way.  `Framed` is about buffers of any number: `FlattenSeq` and `Total` are
recursive functions, and `UpToLength` again follows them from one buffer to the
next.  `HeaderInFront` says that the header in front of the buffers is in front
of their bytes, `FirstByte` that the first buffer with a byte in it holds the
first byte of the packet, `TotalInFront` that the buffer for the header takes
nothing of the caller's.  The only invariant it needs is that the kernel's queue
holds sequences of bytes; `BytesAssumption` says that packets and the buffers of
operations do.

`BsdDeviceProofs` proves `DescriptorOwned` for both systems and any numbers of
units and descriptors, from `PhaseInv`: which of the Fd, Drop and the caller
holds the number in which phase of the device.

It also proves `NetworkAddressExact`, an action property, for any threads,
operations and addresses of any width `Bits`.  Most of it is about which route
`route delete` finds, which compares a network it was given as address and
netmask with the networks of the routes.  So the first lemmas are arithmetic:
`pow2` is a recursive function, a number is determined by its bits, `netmask` of
a valid prefix `n` is `Cut(n)` (n ones and then zeros), and ipnet's `network` and
`broadcast` are the first and the last address that agree with an address in the
first `n` bits, whereby what the code computes is what `Wanted` asks for and
`Leads` is the kernel's `SameNet` (`LeadsIsSameNet`).  The invariant is in five
parts: `KernelInv` (the addresses of an interface differ, they and the routes are
ones that an operation asked for, an interface named by a number has its own),
`UnitInv` (an open device has a unit), `ThreadInv` (what each operation may still
call), `LockInv` (op_lock) and `NetworkInv`.  The last has the stages of
set_network_address: in `Removing` the addresses are those of the call's start,
in `Deleting` each address that is left and each stale route has its deletion
ahead, in `Adding` none is left, and in `Added` only the route is missing.

It has one condition, `NamesApart`: no set_name gives an interface a name `tunN`
that another unit comes with.  With two interfaces of one name an operation by
name is about whichever the kernel finds, and no code could make the property
true; the run's renames satisfy it.  Only FreeBSD has set_name.
`ConfigAssumption` and `OpAssumption` say which types the arguments have.

`LinuxDeviceProofs` proves, for any threads, names, builders, operations and
numbers of interfaces, `NothingLeaked`, `OffloadAgrees`, `OwnInterfaceOnly`,
`NetworkAddressExact` and `ConfigApplied`.  `ProgressInv` says that an
operation is at some call of its script and every script is `WellScripted`
(the name is asked for first, a rename comes last); `LockInv` is op_lock;
`NameInv` (the name that an operation asked for is the interface's) follows from
both; `NetworkInv` has the four stages of set_network_address, and `ConfigInv`
says of each setting of the builder that it is in force or still in the plan,
no later call undoing it.  `OpsAssumption` says that operations and builders
have the parts that their kinds need.

`WintunAsyncProofs` proves `PollDelivers`, `OkSentOnce` and, as an action
property, `CancelledStops`, for any tasks, pool, ring size and programs.  The
invariant `IInv` consists of `TaskInv` (what a task has fits where it is),
`OwnerInv` (a task of the pool belongs to one future or to one slot),
`GuardInv` and `JobInv` (the mutex of a slot is held from the take to the put
back, so a task of the pool for poll_recv exists once and is not forgotten
before Drop), `PacketInv` (the packet that a thread received comes after those
returned and before those in the ring) and `DataInv`.  None of this needs an
assumption about the callers.  `OkSentOnce` does: `OneSender` says that
`poll_send` belongs to one task which polls until it is Ready, since a call that
was given up leaves its task in the slot, as is said above.  Under it `SendInv`
holds: calls have data of their own, a thread has the data of its call, what a call or a thread
may still send is not on the wire and only one of them will send it, and a
thread that reports success has sent.  `CancelledStops` also needs `InTime`
(the thread of a dropped `send` is gone within the 10 ms; the code gives up
waiting after that), and `EndedInv`: no thread that may still send has the data
of a call that is over, because the exit event is set only when the device was
released.  Both programs of wintun_async satisfy both conditions.

Only model-checked are the liveness properties, since fairness and ENABLED are
beyond the prover: `CallReturns`, `ControlReturns`, `SendReturns`, `RecvWakes`,
`DropReleases`, `CancelReturns`, `IoCompletes`.  Every invariant and every action
property of the passing runs is proved.  `TypeOK` of GsoSplit and WintunAsync is
proved as a part of their invariants and listed in no configuration; that of
LinuxDevice documents the types.

## Plan

What is left is the composition of GsoSplit with GroBatch as the identity on
flows: what one side merges the other splits again.  The two halves are proved,
`RoundTrip` for the kernel's segmentation and `PayloadPreserved` with
`SegmentHeaders` for the split; the modules would have to share one form of
packets.

## Not modelled

- `DeviceImpl` of `windows/device.rs` beyond what it passes on to the adapter:
  `new`, which looks for a free name among the adapters and retries the creation
  a bounded number of times, and the setters and getters.
- Windows configuration (`netsh.rs`, `dns.rs`, `ffi.rs`) and the discovery of
  adapters (`tun/adapter*.rs`): calls of other programs, of the registry and of
  the IP helper API, without state of their own.
- generated bindings.
- conversions of socket addresses (`unix/sockaddr.rs`), parsing of strings in
  the builder and of utun names, and the length checks of names.
- the setters of the builder, whose result is the constant `Config`.
