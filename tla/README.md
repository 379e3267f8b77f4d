# switchvisor: a verification project in TLA+

switchvisor is a small EL2 monitor for the Tegra210 of a Nintendo Switch. It
keeps four physical CPUs pinned one to one to the virtual CPUs of a single
guest, forwards nearly every physical interrupt to it, virtualises CPU power
control, and owns the USB device controller, over which it offers a bundle
loader, a control port, a guest console and a network link to the host.

The monitor has no scheduler and no threads. What runs concurrently is the
monitor code on each CPU, entered by a trap or an interrupt with interrupts
masked, together with the guest, the devices and the firmware. Shared state is
protected by atomics, by ownership (a CPU touches only its own slot) and by one
lock algorithm.

Paths below are relative to `src/crates/switchvisor/src/`.

## Inventory

| Component | Source | State | Operations | Met by |
|---|---|---|---|---|
| Bakery locks | `psci.rs` (`Claims`), `arch/aarch64/sync.rs` (`Mutex`) | a choosing flag and a number per CPU | enter, drop | PSCI requests; every USB, NETWORK, UART and distributor section |
| Virtual PSCI | `psci.rs`, `vm/vcpu.rs`, `arch/aarch64/entry.S` | state, `physical_started`, entry and context per CPU | CPU_ON, CPU_OFF, AFFINITY_INFO, secondary entry, dispatch | the guest's SMC; BL31 firmware; SEV/WFE |
| GICv2 forwarding | `drivers/interrupt/gicv2.rs`, `arch/aarch64/interrupt.rs` | per CPU: software queue, list registers, the SGI behind each register, the copy of the distributor switch | IRQ vector, refill, maintenance, owned-interrupt service, synchronise | devices, other CPUs' SGIs, the guest's acknowledge and EOI |
| Distributor and LIC shadow | `vdev/gicv2.rs`, `vdev/lic.rs`, `vm/interrupt.rs` | the guest's control bit, enables and priorities of owned interrupts, published in atomics | emulated reads and writes | guest traps; read by every CPU's forwarding |
| Bundle loader | `loader.rs` | protocol state, bundle, accepted images, bytes received, running CRC, `claimed` | nine requests, disable | the USB service; guest RAM |
| USB service | `usb.rs`, `control.rs` | the driver, the loader, outgoing replies, the boot request, the reset request | service, preboot, enter_guest | polling on every trap, the USB interrupt, CPU 0 before boot |
| Host tool | `switchvisorctl/src/` | the request counter of a session | deploy, upload, boot, abort, control commands | the loader's and the control's endpoint |
| virtio-net | `vdev/virtio_net.rs` | device status, two queues with indices modulo 2^16, interrupt bits | register access, pop, complete | guest memory, the bridge |
| Bridge | `net.rs`, `vm/network.rs` | two rings of eight frames, the link | service | virtio-net and the USB network function |
| UART console | `vdev/uart.rs`, `vm/console.rs` | receive and transmit rings, interrupt enables | register access, receive, drain | guest traps, the USB service |
| USB controller | `drivers/usb/` | transfer rings, endpoint states, NCM reassembly | poll, send, receive | hardware events |
| Memory maps, device tree, images, MMIO decoding | `stage2.rs`, `el2_mmu.rs`, `fdt*.rs`, `payload.rs`, `image.rs`, `mmio.rs`, `mc.rs` | none after boot | pure functions | boot, traps |
| Framebuffer, platform I/O, packager | `framebuffer.rs`, `platform/`, `switchvisor-tool/` | none of interest | I/O | |

What makes this code hard, and hard to test:

* four CPUs enter the monitor at any time, and the PSCI slots are changed by
  single loads and stores, in part relaxed and in part outside the lock;
* a CPU that parks may miss the event that should wake it;
* firmware may fail after state has been claimed;
* interrupts outnumber the list registers, and the queue behind them moves only
  if the right maintenance interrupt has been armed on every path;
* the lines of virtual devices rise and fall on other CPUs while CPU 0 is
  between sampling them and finishing the physical interrupt;
* the distributor's switch is shared, its copies are per CPU;
* the virtio device stops looking at an empty queue while the guest may be
  filling it, and the guest stops listening to interrupts while the device may
  be using a buffer;
* the console service and the interrupt vector look at device state under one
  lock section, or in one atomic load, and act on it in another;
* locks are taken inside locks, and a device's handler calls the USB service
  that in turn locks the device;
* the USB controller owns buffers that the driver wants back whenever the host
  halts, reconfigures or resets, and completions may be late;
* a host may give up a control request, a session or a line half way, and what
  it left in the pipe meets the next one;
* the host can stop, retry or abort an upload at any request, and the preboot
  window may close meanwhile.

`PROJECT.json` lists these as hazards at their lines, each with the properties
that would catch it.

What makes each component correct, in a sentence: a lock admits one CPU and
serves every call; a CPU_ON is carried out once and whole, or withdrawn; an
interrupt that was acknowledged reaches the guest and is ended; the guest sees
an interrupt controller of its own; only a complete bundle or an untouched
fallback starts, and what the tool reports is so; a buffer comes back once and
in order and nobody sleeps on work; frames and bytes are neither lost nor
reordered, and no side starves the other; a transfer buffer has one owner; a
completed request or command has taken effect.

## Modules

| Module | Models | Role |
|---|---|---|
| `Mutex` | a lock | abstract specification of the lock: a holder, acquire, release |
| `Bakery` | `Claims::enter`, `Claim::drop`, `Mutex::with` | one step per load or store; implements `Mutex` |
| `MCLocks` | | a bound on calls; runs `Bakery` and `TrapLocks` |
| `BakeryProofs` | | invariant, exclusion, order and refinement for all N and MaxNumber |
| `PowerDomain` | what the guest may rely on from CPU_ON and CPU_OFF | abstract specification, atomic |
| `Psci` | `Participant::request`, `take_launch`, `power_off`, the SMC handler, the dispatch loop, secondary entry | uses `Mutex`; implements `PowerDomain` |
| `MCPsci` | | the calls the guests make |
| `PsciProofs` | | invariant, single boot and refinement for all constants |
| `GicV2` | one CPU's `GicV2`, the IRQ vector, the owned-interrupt service, the switch | |
| `GicV2Proofs` | | the forwarding invariant, and that each arrival is served once, for all constants |
| `MCGicV2`, `MCGicQuiet` | | interrupts and priorities; an environment that becomes quiet |
| `BootContract` | what a started guest may rely on | abstract specification of upload and boot |
| `Loader` | `Loader::handle`, `GuestMemory`, `service_loader`, `preboot`, `enter_guest` | implements `BootContract` |
| `MCLoader` | | a small address space, descriptors, chunks and a digest |
| `Virtqueue` | what a driver relies on from a queue | abstract specification: buffers come back once, in order |
| `VirtioNet` | `Queue`, `Net`, `service` and `emulate` of `vm/network.rs`, a driver | implements `Virtqueue` |
| `MCVirtioNet` | | values for Status and the features |
| `VirtioNetProofs` | | invariant, kicks, interrupts, negotiation, the broken device and the refinement for all constants |
| `Deploy` | the loader sessions of `switchvisorctl`, the endpoints between it and the loader | composes the tool with `Loader` |
| `MCDeploy` | | manifests of the tool, over the address space of `MCLoader`; the tool or any other host |
| `Bridge` | `net.rs`, the NCM sender and receiver of `tegra210.rs` | the virtio queues and the codec are reduced to frames and buffers |
| `Console` | `vdev/uart.rs`, `vm/console.rs`, `service_guest_console` | |
| `GuestIrq` | what the guest may rely on from its interrupt registers | abstract specification |
| `Distributor` | `vdev/gicv2.rs`, `vdev/lic.rs` | implements `GuestIrq` |
| `DistributorProofs` | | the protected bits, the refinement and the publication invariant for all constants |
| `Publication` | the atomics of `vm/interrupt.rs`, their readers in `arch/aarch64/interrupt.rs` | uses `GuestIrq` (`Registers`): the guest's writes are its actions |
| `MCInterrupts` | | ids and the layout of words; runs `Distributor` and `Publication` |
| `Xudc` | the bulk endpoints of `tegra210.rs` | one channel, serial or network |
| `MCXudc` | | bounds for the two kinds of channel |
| `XudcProofs` | | buffers, descriptors and rings agree, for all constants |
| `ControlPipe` | endpoint zero of `tegra210.rs` and `composite.rs`, notifications | |
| `UsbProofs` | | `Loader`: invariant, storage and refinement; `ControlPipe`: the effect of requests; for all constants |
| `Control` | `control.rs`, `service_control`, the reset request, the tool's control command | |
| `MCUsbControl` | | lines that are typed; runs `ControlPipe` and `Control` |
| `Ncm` | `drivers/usb/ncm.rs` | both encoders and the decoder |
| `TrafficProofs` | | NCM blocks and console bytes for all constants |
| `MCTraffic` | | packet filters and blocks of a host; runs `Bridge`, `Ncm` and `Console` |
| `TrapLocks` | the locks of `rust_exception`, `rust_irq`, `vm/` and `usb.rs` | uses what `Bakery` shows of the lock |

### Bakery

A slot is the word `(choosing, number)` that the code packs into one atomic.
`StartChoosing`, `ScanSlot`, `TakeNumber`, `SeeChosen`, `SeeTurn`, `Enter` and
`Leave` are the accesses of `Claims::enter` and `Claim::drop` in program order;
`cursor` is the loop variable. `Withdraw` is the branch taken when
`maximum + 1` is not representable: the slot is cleared and the call starts
over. `Mutex::with` in `sync.rs` is the same algorithm. On the hardware the
numbers are 64 bits wide and do not run out; the model keeps the branch because
the code does.

### Psci

The lock inside `request` is the abstract `Mutex`; that is justified by
`ImplementsMutex`. Every access to `state` and `physical_started` is a step.
The two relaxed stores of entry and context may happen in either order, and so
may the two loads in `take_launch`; release and acquire on `state` order them
against everything else. The firmware's CPU_ON either powers the CPU
(`FirmwareCpuOn`) or returns an error (`FirmwareError`). A CPU that fails the
entry checks, or whose interrupt controller cannot be initialised, parks for
ever, as in the code. SEV sets the event register of every CPU, WFE consumes
it.

CPU_SUSPEND, PSCI_VERSION and PSCI_FEATURES read no shared state and are left
out.

### GicV2

One CPU. `raised` and `active` are the physical distributor as this CPU sees
it; `lr`, `hcr` and the guest's acknowledge and EOI are the virtual interface
(external hardware). `pending` and `pending_count` are the software queue, and
`lr_iar` the driver's memory of which SGI is in which register. One step is one
iteration of the loops (`take_interrupt` per acknowledged interrupt, `refill`
per register), since other actors can raise interrupts between them.
`ServiceOwned` samples the virtual line, `FinishDelivered` and `FinishDropped`
act on the sample later. The queue position of an interrupt is its slot, so the
queue is a set; its order is computed by `pop_highest`, as in the code.

The guest's `GICD_CTLR` switch is `enabled`; `distributor_enabled` is this
CPU's copy. `GuestTrap` is a trap of this CPU (the copy follows at once),
`RemoteTrap` one of another CPU (it does not).

### Loader

The host is arbitrary: any request of any kind, with any of the offered
descriptors, offsets and chunks, may come whenever the service takes one (that
is, when the previous answer has left). One request is one step, because the
code handles it inside one section of the USB lock. Each request first computes
its status, in the order of the code's early returns (`BeginBundleCode`,
`DataCode`, ...), and changes state only if that is Ok. `memory` is all of
physical memory; writes go where the code's pointers go.

CPU 0's preboot loop looks at the boot request and the claim in one section of
the lock, and the two-second window may end before any iteration
(`PrebootBoot`, `PrebootExpire`, `PrebootUnavailable`); `enter_guest` disables
the loader. CRC-32 is an arbitrary function `Crc` from byte sequences to
numbers, and the state of the running CRC is the sequence of bytes fed to it:
the properties do not depend on which digest it is. The eight registers of a
bundle are one number. Messages that do not decode are dropped without an
answer and are left out.

`BootContract` knows only memory and the started guest. `Load` changes loadable
memory before a guest starts; `StartFallback` needs memory as it was at boot;
`StartBundle` needs images that are disjoint, in loadable memory, intact and
zero-filled, one of which holds the entry point.

### VirtioNet

The device and the driver in the guest share memory and nothing else. A service
of the device (`BeginService` to `EndService`) and a register access exclude
each other through the NETWORK lock, so a register access is one step (`pc` is
"free" in it); inside a service, every read or write of guest memory is a step,
because the guest runs on other CPUs meanwhile: `avail.idx` (`ReadAvailable`),
the chain (`ReadChain`), the used entry, `used.idx`, the flags. `CheckCount` is
the code between two of these accesses. A service may call `transmit` and
`receive` any number of times in any order; which of them find room or a frame
is up to the bridge, which this module leaves out.

The registers are the actions `WriteDriverFeatures`, `WriteStatus`,
`ResetDevice`, `WriteQueue`, `WriteQueueReady`, `QueueNotify` and
`InterruptAck`. `status`, `driver_features` and `interrupt` are sets of bits.
The size and the addresses of a queue are one Boolean, the verdict of
`Queue::valid`; a queue that is set up again is set up in the same place. A
chain is its head, and `malformed` holds the heads that fail a check of
`Queue::next` or of its callers.

The driver is external: it offers buffers and notifies the device, takes the
interrupt, acknowledges the causes it has read, switches interrupts off for a
queue while it polls it, and on the way to sleep switches them on and looks at
`used.idx` once more. With `GuestsMisbehave` it also offers malformed chains,
jumps with `avail.idx` and configures unusable queues.

### Deploy

The tool's requests go through an OUT buffer (`rx`), the service's
`loader_output` and an armed IN transfer (`tx`). The device takes a request only
when `loader_output` is empty and arms an answer only when the endpoint is idle;
opening and closing the interface changes none of them, and a port reset clears
the two transfers and not `loader_output`. A session (`session`) is what is left
of its requests; it numbers them from 1 and accepts an answer by number, opcode
and status. `Timeout` is either transfer's three seconds, `FileChanged` a file
that is shorter or longer than prepared, `Kill` the end of the process between
two transfers. A kill in the middle of an OUT transfer, which would leave part
of a message in the device's buffer, is left out.

### Bridge

A round of `Network::service` is one step, since it runs under the USB and
NETWORK locks and only the guest's queues change meanwhile; it is composed of
operators that take the record of the state to the next, in the code's order.
A frame is where it comes from, what its destination makes of it, a number, and
the link period (`epoch`) in which it was taken. `BeginService` compares the
links with those of the last service and empties the rings. Between two
services the link is assumed to change at most once (`LinkChanges`): two
SET_INTERFACE requests that change it are not handled by one poll. A request for
the setting that is already selected drops the transfers all the same
(`LinkReselected`) without the bridge seeing a change.

### Console

The service holds the USB lock but takes the UART lock anew for each access;
`pc` is where it is, and the guest's register accesses (`Trap`) come in between
from other CPUs. `owed` is an interrupt that was found asserted under the locks
and is raised after them.

### Distributor and Publication

`Distributor` is the registers: a register is a set of ids or a value per id,
an access reaches the ids of one word. The physical registers and the shadow
together implement `GuestIrq`, in which a write changes what it names and
nothing else. `Publication` starts from `GuestIrq` and adds what the other CPUs
see: each trap is a sequence (`todo`) of stores, loads and notifications that
its CPU executes one at a time. The stores of a trap are made under the lock of
the controller that was written (`DISTRIBUTOR` or `LIC`), so a CPU that stores
keeps the others from writing to that controller.

The boot CPU's delivery of an owned interrupt is part of it, from the entry of
`rust_irq`: a first load of `ENABLED` that goes to GicV2 (`distributor_enabled`,
by `Synchronize`), `TakeInterrupt`, the loads for that interrupt, a second load
of `ENABLED`, and `finish_owned_interrupt`, which puts it into a list register
or, as `try_inject` has it, into the software queue if GicV2 believes the
distributor to be off. `place` says where each owned interrupt is: inactive, in
the vector's hand, queued, in a list register, or with the guest; `raised` is
the physical pending bit. How a queue and a set of registers work in detail is
left to `GicV2`.

### Xudc, ControlPipe and Ncm

`Xudc` is one bulk channel: an OUT and an IN ring, the event ring, halts,
SET_CONFIGURATION, SET_INTERFACE, port resets, transfer errors and the timeout
of a register that does not follow. Such a timeout may leave a request half done:
one ring reset and the other not, a halt cleared without the endpoint running
again, a configuration half set up (`Timeout`, `Abandon`). Completions name
slots, and slots are used again.

`ControlPipe` is endpoint zero: the host may give up at any stage, and
descriptors, completions and SETUP packets pass each other. What the controller
does with a descriptor of an older SETUP (it completes it with a sequence
error), with a stall (it ends at the next SETUP) and around a port reset (it
runs nothing until it is acknowledged) is taken from how the driver treats it.
A stage that finds no free descriptor ends the poll with an error (`RingFull`):
the request is not answered, and the device stays failed until a port reset.
`Ncm` keeps every offset and length of a block and drops its bytes.

The channels of the controller use disjoint rings and buffers, so they are
checked one at a time; zero-length OUT transfers are left out.

### Control

A line is a sequence of bytes up to a newline; a reply is a sequence of lines,
and a line is the unit of transfers and buffers. The tool writes the command
and its newline separately and may be killed after each. A write or a read may
also fail, because the device went away (`Vanished`) or because it does not
answer in time (`TimedOut`); for a reboot the tool takes either for a success. A reset
is requested under the USB lock and made after it.

### TrapLocks

A trap or an interrupt is a sequence of calls (`stage`), and a call one of its
paths, the sequence of its lock and unlock operations for each way through the
code. A lock is abstract; that it serves everyone who waits is `CallIsServed` of
`Bakery`.

## Runs

Four runs check several modules at once (`MCLocks`, `MCInterrupts`, `MCTraffic`,
`MCUsbControl`). The modules of such a run share no variable; a constant variable
`part` chooses one of them for the whole behaviour, and the others stay in an
initial state. What is checked is each module by itself, as if in a run of its
own.

A module's invariants are checked as one conjunction of named parts (its type
invariant is the first part) and the liveness of a module as one or two
conjunctions; the parts are stated and explained where they are defined.
`MutualExclusion`, `NoSecondBoot`, `StorageNeverRefuses` and
`RunningIsNegotiated` follow from the invariants and are not checked again:
see Proofs.

| Run | Checks | Shows |
|---|---|---|
| `locks` | `LockInvariant`, `ServedInOrder`, `CallIsServed`, `ImplementsMutex`; `EveryTrapReturns` | 3 CPUs, 2 calls each, numbers run out at 3: exclusion survives, a caller that has its number before another starts is served first, every call gets in. 2 CPUs, every sequence of traps and interrupts: nobody waits for ever |
| `psci` | `PowerInvariant`, `ImplementsPowerDomain`, `CpuOnCompletes` | 3 CPUs that start CPUs 1 and 2 with SMC32 and SMC64 calls, valid and not, turn off and restart in every interleaving; no lost wake-up, every CPU_ON returns, no claim is left behind |
| `gic` | `ForwardingInvariant`, `EachIsServedOnce`, `AcknowledgedIsEnded`, `LineIsDelivered` | 2 list registers, 4 interrupts (an SGI from two sources, both owned SPIs): nothing is lost or doubled, each arrival is given to the guest once, everything acknowledged reaches the guest, every asserted line is delivered again and again |
| `gic_remote_enable` | `AcknowledgedIsEnded` | expected violation, see Findings |
| `interrupt_settings` | `GuestSeesPlainRegisters`, `ProtectedAreUntouched`; `PublicationInvariant`, `NoInterruptIsLost` | accesses to words that hold owned, maintenance and ordinary interrupts. Two CPUs, the network's interrupt: no order of loads and stores loses it or delivers it with a priority from before it was enabled, but for the exception explained under Findings |
| `deploy` | `LoaderInvariant`, `ImplementsBootContract`; `ReportsAreTrue`, `FreshTransferSucceeds`, `SessionEnds` | any host: every order of valid and invalid requests while the preboot window may end, with and without USB and fallback. The tool: three sessions that transfer, boot, abort or ask, killed, timed out or refused anywhere; what it prints is true although request numbers repeat |
| `deploy_stale` | `AbortPermitsNewTransfer` | expected violation, see Findings |
| `virtio_queue` | `KickNotLost`, `InterruptNotLost`, `ImplementsVirtqueue`, `BufferReturns` | a queue with two slots and indices modulo 4; a driver that offers, polls, sleeps, resets and reconfigures at any moment: each buffer comes back, once and in order |
| `virtio_broken` | `NetInvariant`, `BrokenUntilReset` | a guest that misbehaves, features and Status in any order |
| `traffic` | `OrderIsKept`, `GuestFramesAreKept`, `NeitherStarves`; `BlocksAreSound`; `BytesAreKept`, `ConsoleIsServed` | frames in both directions and to the monitor, a host that does not read, a guest without buffers, link changes. Every block the encoders can make within the limits, and blocks of a host with overlapping, chained and circular tables. Console bytes: the assertion that all input fitted cannot fail, output is neither lost nor doubled |
| `xudc` | `ChannelInvariant`, `DataAreInOrder`, `ChannelStaysOpen` | a serial channel, and the network function with two receive buffers and its alternate setting, under data, halts, resets, errors and timeouts that leave requests half done |
| `usb_control` | `PipeInvariant`, `HostIsServed`; `ControlInvariant`, `ToolIsServed` | three control requests of any kind in a row over a ring of two descriptors, given up in any stage, with port resets: the ring does become full, and only then is a request left unanswered. Three sessions of the tool or of a person on the control port, killed or timed out anywhere |

### Bounds

* Three CPUs are the least number for which two callers compete for a third, or
  a chooser is overtaken by two others; the code treats all CPUs alike. The
  proofs cover every number.
* `MaxNumber = 3` with three CPUs and two calls each makes the numbers run out
  after a few steps and lets them be used again.
* Two list registers and four interrupts give a full set of registers with two
  interrupts behind them, and an ineligible SGI at the head of the queue. With
  one register the underflow interrupt would never be deasserted (the GIC-400
  has four).
* The PSCI address constants are a few units apart, with `Word32 = 64`, so that
  an SMC32 argument that is cut and one that is not fall on different sides of
  every check.
* `Psci`: two CPUs compete for CPU 2, which is also a target that has turned
  itself off; calls that only the SMC32 form makes valid aim at CPU 1.
* `MaxEvents` bounds what the environment does in the runs of `GicV2`. An
  unbounded storm of high-priority interrupts starves the rest by design.
* `MCLoader` has 18 addresses, a protected range inside guest RAM, two images at
  most, and descriptors that fit, touch, overlap a zero-filled tail, hit the
  protected range or leave the address space. Its digest has collisions, so no
  property relies on a digest being injective.
* `VirtioNet`: `virtio_queue` has two slots and `Word16 = 4`, so that indices wrap
  and slots are reused within a few steps. `virtio_broken` has `Word16 = 4` with
  one slot, so that an index can lie outside the queue. Queues share only the
  status, the interrupt bits and the lock; the proofs of `NetInvariant`,
  `KickNotLost` and `InterruptNotLost` cover every set of queues, queue size and
  index width.
* `Deploy`: three sessions are one that leaves something behind, one that meets
  it and one after that. `MCManifests` has two bundles for the same addresses,
  with chunks of different lengths. Bundles of two images, and every status
  code, occur with the other host.
* `Bridge`: rings of two frames, three rounds, blocks of up to two frames and two
  frames per side fill a ring, a block and a service. Two link changes take the
  link down and up again.
* `Console`: rings and chunks of two bytes with three bytes in each direction
  make both rings full while the service is between two sections.
* `Distributor`: one owned SPI, the maintenance PPI and ordinary ids, some in the
  same word and some in the same priority word; priorities with and without
  the bits below the five that are kept.
* `Publication`: one interrupt, two CPUs and two priorities. A second interrupt
  has settings and programs of its own. The boot CPU may be interrupted for the
  guest's own interrupts as well, whenever it is not in EL2.
* `Xudc`, `ControlPipe`: rings of two or three slots wrap after a few transfers.
  The control pipe has two slots and three requests, so that a request may find
  the ring full of what two others left behind; a device that fails may still be
  reset after the third. In the driver the ring has fifteen.
  The serial channel has sends and failures, the network function three
  transfers for its two receive buffers, two requests and a failure.
  `EventLimit` is the code's 32 and is never reached; see below.
* `Control`: lines of at most three bytes and replies of up to two lines; the
  reply of `status` is longer than a transfer.
* `Ncm`: frames of 14 to 18 bytes, three frames to a block and 90 bytes make
  every alignment, a block that is full by count and blocks that are full by
  size. Limits are below, near and above the size of a block.
* `TrapLocks`: two CPUs suffice for a circle, since no path holds more than two
  locks.

### Fairness

* `Bakery`: weak fairness per CPU, since a CPU inside the monitor runs with
  interrupts masked until it leaves. `BakeryFairSpec` adds strong fairness for
  the load that finds another CPU not choosing: when the numbers run out, a
  CPU retries for ever and flips its flag, and a spinning reader must sample it
  between two flips. `CallIsServed` needs this only when they run out.
* `Psci`: weak fairness of every monitor step and of the firmware, strong
  fairness of the lock's acquisition (which `CallIsServed` of the Bakery lock
  justifies). A guest need not do anything.
* `GicV2`: weak fairness of the driver, strong fairness of taking an owned
  interrupt that is pending again and again, and of the guest acknowledging and
  ending what its interface offers again and again: a guest that keeps
  interrupts masked for ever is owed nothing.
* `VirtioNet`: services come again and again (with a USB controller they are
  polled on guest exits and on its interrupt, and every kick brings one), each
  of them ends (sixteen rounds at most), and a ready queue is tried again and
  again, that is, the host takes frames or sends them. Strong fairness is used
  where the lock comes and goes (register accesses). Without a USB controller
  only kicks bring services, and each drains what fits into the host's ring;
  that case belongs to the bridge and is not covered.
* `Deploy`, `Control`: the device is polled, and a tool that runs goes on; its
  timeouts are fair because it waits for nothing else.
* `Bridge`: services come and their rounds end; the host takes what is sent,
  strongly fair because the transfer is taken back by a link change.
* `Console`, `Xudc`: the service is polled, the host reads what it is sent
  again and again, and what was received is read.
* `Publication`: a CPU in EL2 goes on, an owned interrupt that is pending is
  taken, and the guest acknowledges and ends, strongly fair, what its interface
  offers again and again. With both owned interrupts and two CPUs the
  network's can keep the console's from being served, by being raised for ever; that is the
  GIC's order at work and not asked about.
* `ControlPipe`: events are polled and the host carries on with a request that
  it does not give up.
* `TrapLocks`: a CPU in EL2 goes on, and the lock serves everyone.

## Findings

`gic_remote_enable`. README.md:367 promises that timers and IPIs are forwarded.
`GICD_CTLR.Enable` is one bit for all CPUs, but a write brings only the writing
CPU's vGIC up to date (`arch/aarch64/interrupt.rs:127-141`). An interrupt
acknowledged on another CPU while the bit is clear waits in that CPU's software
queue, and when the bit is set again nothing refills its list registers. A
timer interrupt stays active, so it cannot fire again. The CPU recovers when
any other physical interrupt or trap brings it to EL2; the run exhibits the
behaviour in which none does. The run `gic` shows that on the CPU that changes
the bit itself nothing is left behind.

The owned interrupts meet the same defect in a narrower window. `rust_irq` loads
`ENABLED` for GicV2 (interrupt.rs:152) and again for the delivery
(interrupt.rs:176). If another CPU sets the bit between the two, the interrupt
is to be delivered, but GicV2 believes the distributor to be off and queues it;
an interrupt that reached a list register before the bit was cleared and set
again by another CPU fares likewise. Nothing moves it until the boot CPU is in
EL2 again. `NoInterruptIsLost` excepts exactly this: an interrupt that stays, from
some moment on, in the queue or in a list register while the published bit is
set and the boot CPU's copy is not (`Unnoticed`). In every other case it reaches
the guest.

`deploy_stale`. README.md:309 says that `abort` discards the transfer and permits
a new one. It does when the pipe is clean (`FreshTransferSucceeds`). But an
answer that a killed or timed-out session has not read stays in the armed IN
transfer and in `loader_output`, and nothing flushes it when an interface is
closed or claimed. The next session, `abort` included, takes it for the answer
to its first request, fails with "loader response does not match its request",
and leaves its own answer behind; so does the next. Three unread answers jam the
pipe. A port reset ends this. The numbers and opcodes are checked, so no session
reports a success that is not its own (`ReportsAreTrue`).

Met on the way, and contradicted by no document:

* The tool's control command has no request numbers. After a session that was
  killed or timed out the next one may take the leftover reply for its own, so `reboot` may print OK and
  not be carried out; `OwnReply` and `RebootIsCarriedOut` are about sessions
  that open a clean port. A killed session may also leave half a line, which
  becomes the beginning of the next command.
* A poll handles at most 32 events (`tegra210.rs:1037`). If completions of
  transfers from before a reset were among those left over, they would be
  attributed to the transfers after it (the mutant `PollLimitOne` shows it);
  with the channels' few buffers the limit is not reached.
* `Composite::halted` is not cleared by SET_CONFIGURATION, and `stop_data` waits
  for a change of state also at endpoints that are halted already, which may end
  in the timeout and in a failed device until the next port reset.

## Proofs

TLAPS checks the following for every value of the constants that satisfies the
named assumptions (`BakeryAssumption`: N and MaxNumber are positive naturals;
`PsciAssumption`, `LaunchAssumption`: CPUs are 0 to CPU_COUNT - 1, addresses
are naturals, and the markers for "no launch" are not launches;
`LoaderAssumption`, see below; `VirtioAssumption`: the index width is a multiple
of the queue size and larger than it; `GicAssumption`: 1 to 64 list registers,
finitely many interrupts with ids below 1020, owned ones are not SGIs;
`DistributorAssumption`: owned ids exist and are not the maintenance id, and
priorities are bytes; `PublicationAssumption`: the boot CPU is a CPU, and bytes
stay priorities when their three low bits are dropped; `ConsoleAssumption`: capacities are positive;
`NcmAssumption`: sizes are naturals, a single frame fits into a block, as the
constants of `ncm.rs` have it, and the fields of a host's block are numbers;
`XudcAssumption`: a ring has more slots than the channel has receive buffers;
`ControlPipeAssumption`: the ring has a slot and the default coding is a coding).

| Theorem | States |
|---|---|
| `LockInvariantHolds` | `BakerySpec => []LockInvariant` |
| `LockExcludes` | `BakerySpec => []MutualExclusion` |
| `LockServesInOrder` | `BakerySpec => []ServedInOrder` |
| `LockRefinesMutex` | `BakerySpec => ImplementsMutex` |
| `PowerInvariantHolds` | `PsciSpec => []PowerInvariant` |
| `BootsOnce` | `PsciSpec => []NoSecondBoot` |
| `PsciRefinesPowerDomain` | `PsciSpec => ImplementsPowerDomain` |
| `LoaderInvariantHolds` | `LoaderSpec => []LoaderInvariant` |
| `StorageAlwaysAccepts` | `LoaderSpec => []StorageNeverRefuses` |
| `LoaderRefinesBootContract` | `LoaderSpec => ImplementsBootContract` |
| `NetInvariantHolds` | `NetSpec => []NetInvariant` |
| `KickIsNeverLost` | `NetSpec => []KickNotLost` |
| `InterruptIsNeverLost` | `NetSpec => []InterruptNotLost` |
| `RunningIsAlwaysNegotiated` | `NetSpec => []RunningIsNegotiated` |
| `BrokenStaysBroken` | `NetSpec => BrokenUntilReset` |
| `BuffersComeBackInOrder` | `NetSpec => ImplementsVirtqueue`, for a driver that keeps to the protocol |
| `ForwardingIsSound` | `GicSpec => []ForwardingInvariant` |
| `ArrivalsAreServedOnce` | `GicSpec => EachIsServedOnce` |
| `ProtectedStayUntouched` | `DistributorSpec => ProtectedAreUntouched` |
| `GuestAlwaysSeesPlainRegisters` | `DistributorSpec => GuestSeesPlainRegisters` |
| `SettingsReachTheCpus` | `PublicationSpec => []PublicationInvariant` |
| `BlocksAreAlwaysSound` | `NcmSpec => []BlocksAreSound` |
| `BytesAreAlwaysKept` | `ConsoleSpec => []BytesAreKept` |
| `RequestsTakeEffect` | `PipeSpec => []PipeInvariant` |
| `BuffersAndRingsAgree` | `XudcSpec /\ []StaleAreTaken => []ChannelInvariant` |

*Bakery.* Exclusion is not inductive. `LockInvariant` adds, for every CPU that
waits, what it already knows about the CPUs its cursor has passed: each of them
is not competing, or is still choosing and will take a larger number because
its scan has passed (or will pass) this CPU's slot, or holds a number that
comes later. Two CPUs inside have passed each other, so each comes before the
other. A CPU inside has passed those that wait, which gives `ServedInOrder`.

*Psci.* A claim is made under the lock, but used after it has been released.
`PowerInvariant` says who owns a slot: the CPU that has the lock and has seen
OFF, or the single CPU in one of the phases after the claim while the slot is
CLAIMED. From that follow that `physical_started` agrees with the firmware
whenever it is looked at, that a PENDING mailbox holds one whole request, and
that a CPU runs the guest only while its slot is ON. `NoSecondBoot` is a
consequence. The refinement maps CLAIMED and PENDING to the abstract states of
`PowerDomain` and the launch handed over to what the guest is started with;
each concrete step is an abstract step or a stutter.

*Loader.* `CompletedAreInMemory` is what matters and is not inductive alone.
`LoaderInvariant` adds that images are valid and pairwise disjoint, the one
being received included (so a write to it leaves the others alone), that the
bytes fed to the CRC are the bytes in memory (so a matching digest says
something about memory), which bundle and image each protocol state has, and
what the boot decision rests on (a claim is never withdrawn, and memory is as
it was at boot while there is none). `LoaderAssumption` says that addresses are
below U64, that descriptors have numeric fields and that the markers for "none"
are not descriptors; nothing is assumed about the layout of guest RAM, the
protected ranges or the digest. The refinement takes `memory` and the boot
request or launch decision for the contract's two variables.

*VirtioNet.* `KickNotLost` speaks of states in which no service runs and the
driver owes no notification; it is not inductive, because the device forgets a
queue on a value of `avail.idx` that it read two steps ago. `NetInvariant` adds
`ServiceKnows` (that value is current, or the driver has published since and
owes a notification), `WorkIsKnown` (a ready queue is polled, or empty, or a
notification is due) and `SleepIsSafe` (a sleeping driver wants interrupts, and
used buffers it has not seen have raised the bit, or the service is about to
read the flag, or the handler is on its way to look; the line agrees with the
bits whenever the lock is free).

The refinement of `Virtqueue` takes the buffers between the device's and the
driver's indices for the abstract queues. Its invariant `FlightIsSound` says that
the buffers in flight are pairwise different and none of them is free. So there
are at most `Num` of them, by counting, and the next write to a slot of either
ring misses every window of entries that are still to be read, although the
indices wrap. `ServiceIsSound` says that the head which a service carries between
its steps is that of the oldest buffer offered, and that it counts no more buffers
than there are. The
theorem has `~GuestsMisbehave` as its hypothesis, since a driver that publishes
more than it has may have anything come back; the other theorems do not need it.

*GicV2.* The counts and the registers of `ForwardingInvariant` are inductive
together; that a queue has a wake-up is not. `GicInvariant` adds `HcrIsCurrent`
(outside the refill loop HCR.En agrees with the guest's switch) and
`WakeupIsKnown` (the underflow interrupt is asked for, or a list register holds
an SGI, whose EOI is reported): a refill that stops with interrupts left over
either had no free register or was held up by an SGI of the same id. The counter
`pending_count` is the cardinality of the queue, which is where the finiteness of
the set of interrupts is used. `EachIsServedOnce` counts what is due of an
interrupt: its physical pending state and its place in the queue or in a list
register that the guest has not acknowledged. That each step keeps the count
needs the invariant: a free register holds nothing, an interrupt is in one place
only, and the one that the vector has in hand is in none.

*Distributor.* Type correctness, with GICD_CTLR on, is the only invariant needed.
Each access, split by kind of register, leaves the protected bits of the hardware
alone, and has on the guest's view (hardware bits, with the shadow in the place of
owned ones) exactly the effect of the same access of `GuestIrq`; a write to pending
or active bits leaves that view alone.

*Publication.* What a CPU will still do is in its program, so the inductive
invariant speaks of programs: the operations left are in the order in which the
code has them, one CPU at most has stores left under each lock, and an atomic that
differs from the guest's register has its store in that CPU's program. For
deliveries it adds that the priorities a CPU may still load, and the one it has
loaded, are among those which the guest set since it last enabled the interrupt or
since the IRQ was taken, that the interrupt in hand is the one whose service is
left to finish, and that interrupts wait in the queue only while GicV2 believes
the distributor to be off.

*Ncm.* `NcmInvariant` adds to the encoder's invariant what the decoder has taken
so far (`DecodedSoFar`) and, for a block that the device built itself, its shape
(`OwnBlock`): one table after the last frame, apart from every frame, read or not
yet read. That the decoder accepts it follows because the count of its entries is
found at the end marker and no frame has length zero. Nothing is assumed of a
host's block beyond numeric fields.

*Console.* Bytes are numbered; `ConsoleInvariant` says that every queue holds a
run of consecutive numbers, and where one ends the next begins, with the bytes
that the endpoint has accepted and the UART has not yet dropped counted in both.
Order, loss and duplication are consequences. That the service asks for no more
input than the UART has room for is part of it (`Len(buffer) + Len(rx)` is at
most the capacity), because the guest may read, but nobody adds, in between.

*ControlPipe.* A request that is given up leaves a descriptor, a completion or
data on their way. `EndpointInvariant` numbers them: descriptors and events carry
the SETUP they belong to and those of earlier ones have smaller numbers; slots in
flight are distinct, so that a completion names one descriptor; the descriptor of
the last SETUP is the one waited for; and while its data stage is on its way the
buffer holds that stage's data in full. Then a status stage offered for the host's
last request is offered after its effect. A handler that finds the ring full
fails and queues nothing, which the invariant survives. When that happens is
`RingHasRoom`, a part of `HostIsServed`, which stays with TLC: only for a SETUP,
and only while as many earlier requests as the ring has slots have one descriptor
or completion outstanding each.

*Xudc.* That a slot is free when the next descriptor is queued, and that the
controller keeps off a buffer being read, depend on what waits in the event ring.
`Tracked` says of a ring that the completions that wait and the descriptors that
are queued are exactly those of its occupied slots, oldest first and without a gap
up to `next`, where the age of a slot is its distance to `next` around the ring.
`ReceivesAreKnown` and `SendsAreKnown` add which buffer, or which transfer, each
occupied slot belongs to. As there are fewer of these than slots, a ring in which
`next` is occupied would have all slots occupied: there is room. A reset gives a
ring up while completions of it may still wait: then (`Off`) nothing is queued and
no buffer waits until a poll has taken them. This is where the hypothesis
`StaleAreTaken` is needed: a poll that stops after its 32 events must not leave
such a completion behind. Without it the theorem is false (the mutant
`PollLimitOne` leaves one), and nothing in the code enforces it; a poll that finds
fewer than 32 events satisfies it, and in the run, where fewer exist, it always
holds.

Only model-checked:

* liveness under fairness, and with it everything that needs ENABLED
  (`CallIsServed`, `EveryTrapReturns`, `CpuOnCompletes`, `AcknowledgedIsEnded`,
  `LineIsDelivered`, `NoInterruptIsLost`, `FreshTransferSucceeds`, `SessionEnds`,
  `BufferReturns`, `NeitherStarves`, `ConsoleIsServed`, `ChannelStaysOpen`,
  `HostIsServed`, `ToolIsServed`);
* `ControlInvariant` and the bridge's properties: their definitions fold or filter
  sequences, and what such a recursion computes for every input is induction over
  data;
* `DataAreInOrder` and `ReportsAreTrue`.

## Not modelled

* Memory maps (`stage2.rs`, `el2_mmu.rs`, `arch/aarch64/stage2.rs`, `mmu.rs`), the
  device tree (`fdt.rs`, `fdt_memory.rs`), payload and image headers (`payload.rs`,
  `image.rs`): sequential, run once on CPU 0 before anything else, and functions
  of one blob. Their hazards are in the layout of bytes, which a model leaves
  out.
* The boot sequence (`main.rs`): straight-line initialisation.
* Framebuffer, platform I/O, PHY and clock setup, USB descriptors, and the
  packager: pure I/O or constant data.
* The decoding of a syndrome (`mmio.rs`) and the masks of the memory controller
  and of the registers shared with USB (`mc.rs`, `vdev/usb_ownership.rs`):
  functions of one access.
* In `VirtioNet` the walk over a chain of descriptors, in the tool the reading of
  files and manifests.
* A CPU that turns off and on keeps its list registers and its software queue
  (`arch/aarch64/interrupt.rs:72`): `Psci` and `GicV2` are not composed.
* ICACTIVER and ICPENDR writes for forwarded interrupts reach the hardware as
  they are; a guest that deactivates an interrupt it has not ended is outside
  `GicV2`.

## Plan

Proofs to add: the order of locks in `TrapLocks`, and `DataAreInOrder`, which has
the invariant of `BuffersAndRingsAgree` to start from. Theorems about liveness,
ENABLED, recursive data and inductive facts about sequences stay with TLC.
