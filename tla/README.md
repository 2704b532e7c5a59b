# Verification of esphome-usb-serial-wifi

TLA+ models of the firmware in `src/esphome_components/`. TLC checks every
property on small instances; TLAPS proves every safety property and refinement
for all values of the constants.

    tlc -config UsbClient.cfg UsbClient      # one run; the .cfg is named after it
    tlapm UsbHost_proofs.tla                 # one set of proofs

## 1. The system

An ESP32-S3 is the USB host of a USB-serial bridge (FTDI, CP210x, CH34x, PL2303)
and offers it on the network: as a byte stream over TCP (`stream_server`), or as
a whole USB device (`usb_ip`).

```
 TCP clients <-> stream_server <-> usb_uart <-> usb_host (USBClient) <-> ESP-IDF host stack
 USB/IP client <-> usb_ip  <------------------------------------------>  ESP-IDF host stack
```

Threads: the ESPHome **main loop** runs every component's `loop()`; the
**USB task** of each `USBClient` runs the completion callbacks of transfers and
the connection events. `usb_ip` runs two tasks of its own, `usbip_tcp` and
`usbip_usb`. Between the main loop and the USB task there is no lock: they share
atomic flags, an atomic bitmask and single-producer single-consumer queues.
`usb_ip` has one mutex around its map of pending URBs and one around each reply,
and leaves the rest of its state unprotected.

### Inventory

| component | state | operations | hard behaviour | what makes it correct |
|---|---|---|---|---|
| transfer request pool (`usb_host_client.cpp`) | `trq_in_use_`, `requests_` | `get_trq_`, `release_trq`, `control_transfer`, `transfer_in/out`, both callbacks, the reset in `on_disconnected` | two threads claim and release with compare-and-swap; a disconnection clears bits under transfers in flight | a request has one owner; no bit stays set for ever |
| UART output (`usb_uart.cpp`) | `output_started_`, `output_queue_`, `output_pool_` | `write_array`, `start_output`, its callback, `flush`, the drain in `on_disconnected` | both threads run `start_output`; late callbacks | one packet at a time, in order; no chunk lost; `flush` tells the truth and ends |
| UART input (`usb_uart.cpp`, `ft23xx.cpp`) | `input_started_`, `usb_data_queue_`, `chunk_pool_`, `input_buffer_` | `start_input`, its callback, the drain in `loop`, `read_array` | the same, plus an exhausted pool and an overflowing ring | bytes in order, lost only where the code drops them; input comes back |
| channel configuration (`usb_uart.cpp`) | the `cfg_*` members, `initialised_` | `enable_channels`, `apply_channel_settings`, `run_config_machine_`, `config_transfer_` and its callback, the sleep of `loop` | a callback may come before the call that caused it returns; reloads while busy; disconnection in the middle | one control transfer at a time; data only on configured channels; no lost wake-up |
| device lifecycle (`usb_host_client.cpp`) | `state_`, `device_addr_`, `device_handle_`, the event queue | `client_event_cb`, `on_opened`, `on_removed`, `handle_open_state_`, `disconnect`, `loop` | devices come and go while earlier events wait; objects are reused | what is opened is closed, unless that is refused; only a device that has gone is dropped; replugging works |
| drivers of the bridge chips (`ft23xx.cpp`, `ch34x.cpp`, `cp210x.cpp`, `pl2303.cpp`, CDC-ACM in `usb_uart.cpp`) | `chip_type_`, the settings of a channel | `config_step`, `config_device_step`, the encoders of baud rates, `parse_descriptors` | settings change between two transfers of a sequence; transfers fail after they were executed; a chip is swapped for another of its family; rounding, truncation, split bit fields | at rest the chip runs with the settings of its channel, at the nearest rate it has |
| TCP stream server (`stream_server.cpp`) | `clients_`, `buf_`, `buf_head_`, `buf_tail_`, positions | `accept`, `read`, `flush`, `write`, `cleanup` | slow, leaving and arriving clients share one ring that overwrites; the device of the channel comes and goes | each client gets what the UART received, byte by byte |
| USB/IP server (`usb_ip.cpp`) | `pending_urbs_`, contexts, `client_sock_`, `device_ready_`, `interfaces_claimed_` | `parse_request`, `ctrl_cb_`, `ep_cb_`, `cleanup_connection_`, arrival and removal | unlink, disconnection and end of connection race with callbacks | a context is freed once and never used after; every URB is answered |
| framing of USB/IP (`usb_ip.cpp`) | `rx_buf_`, `buf_len`, `send_mutex_` | the receive loop of `tcp_task_`, `send_response` | requests arrive in pieces or several at once; two tasks reply on one socket; `send` is cut short or fails | requests are parsed whole, once, in order; replies are not mixed |
| host library pump (`usb_host_component.cpp`) | - | polls the host library | - | - |
| reply layout of USB/IP | - | packed structs, byte order | - | the protocol's layout |
| code generation (Python), host-side tests | - | - | - | - |

The components interact as follows. `usb_uart` submits transfers through the
pool and gets callbacks on the USB task; the lifecycle calls `on_connected` and
`on_disconnected`, which start the configuration and reset the channels; the
configuration ends by clearing the two started flags; the stream server calls
`available`, `read_array` and `write_array` of a channel on the main loop.

## 2. Plan

In order of importance, and what is done:

1. `TransferPool`, `UsbUartOutput`, `UsbUartInput` - the lock-free core, with
   abstract specifications and proofs, over reconnections. *Done.*
2. `StreamServer`, `ConfigMachine`, `UsbClient`, `UsbIp` - the other state
   machines. *Done*, every safety property with a proof (that of `StreamServer`
   below the wrap of its counters).
3. `BaudEncoders`, `Drivers` - what the drivers tell the chips. *Done*, the
   encoders and `ChipSound` with proofs.
4. `UsbIpFraming`, and `MessageStream`, what it promises - the byte streams of a
   USB/IP connection. *Done*, the refinement and `RepliesWhole` with proofs.
5. `StreamServer` over a channel that disconnects: the way in which bytes are
   left in a channel that refuses to give them out is an assumption of
   `StreamServer` (`ChannelChanges`) and a consequence in `UsbUartInput`; a
   composition of the two would derive the first from the second.
6. Several channels in `UsbUartInput`, which share `usb_data_queue_` and its pool.
7. A second device in `UsbIp`.
8. Proofs: every safety property is proved. What is left is to prove the
   stream server up to the wrap inside one behaviour, instead of under `NoWrap`,
   and whatever items 5 to 7 add.

No module uses a `RECURSIVE` operator, every constant that a proof needs
something of has a named assumption, and every action is one step of the code,
so that each module can be proved about as it stands.

## 3. The modules

Each action names the function it stands for in its comment. A step of a model
is as small as the interleavings require: where two threads touch the same
variable, each access is a step of its own, and what only one thread sees
between two such accesses is folded into one step.

### TransferPool, and SlotAllocator, what it promises

`trq_in_use` is the bitmask as a set. `GetTrqLoad`, `GetTrqClaim`, `GetTrqRetry`
and `GetTrqNone` are the load and the outcomes of the compare-and-swap of
`get_trq_`; `SubmitTransfer` and `SubmitFails` end `control_transfer` and
`transfer_in/out`; `CallbackBegin` to `CallbackEnd` are a completion, during
which the user's callback may itself start a transfer (`at[Usb] = "callback"`),
and only then is the request released. `OnDisconnected` clears the bitmask; the
history variable `orphaned` tells whether it ever did so under a request in use,
after which the code does not keep requests apart (section 6). `PoolInit`,
`PoolSpec` and the like carry the prefix because `UsbHost_proofs` reasons about
the pool and about `UsbClient`, the two halves of `usb_host`, side by side.

`SlotAllocator` has one variable, the owner of each request, and no bitmask.
`AtomicAllocation` says that the pool implements it: what two threads do with
loads and compare-and-swaps looks like atomic allocation.

### UsbUartOutput, and PacketStream, what it promises

Packets are numbered as `write_array` queues them: the queue is `log` from
`head` on. `start_output` is eight actions, for either thread: the
compare-exchange (`StartClaim`, `StartBusy`), the two steps of `pop()` (`StartPop`
reads, `StartAdvance` stores), the submission and the release of the flag. The
callback is two steps, since the chunk goes back before the flag is cleared.
`flush()` reads the queue and the flag in separate steps and may time out at any
of them. `link` is the connection: `OnConnected` makes the channel initialised,
`ConfigDone` clears the flag, `OnDisconnected` sets it and `Drain` empties the
queue, step by step, with the USB task still free to run. The history variable
`torn` tells whether a disconnection ever came while a transfer or a callback was
not through. Bound: `MaxPackets`, the packets accepted in a behaviour.

`PacketStream` has four variables: how many packets were accepted and taken,
whether one is in transmission, and the last delivered. A disconnection forgets
what was not taken.

### UsbUartInput

Bytes are numbered as they arrive; a chunk is its first and its last byte, the
ring is the sequence of the bytes in it. `LoopChunk` is one round of the drain
in `loop()`: pop, overflow hook, push, release. `ReadArray` takes bytes and goes
on into `start_input`. The pool and the queue have the same size, so that the
chunks in use are those queued. `ClearOnOverflow` is the hook of the FT23XX,
`PollWhenEmpty` whether the application calls `read_array` with nothing
available, `MayFail` whether transfers fail. A callback keeps its request until
it returns (`SlotsUsed`), which is why a pool of one could never restart.
`lost` and `replugged` are history variables that the properties need.
Bound: `MaxBytes`.

### ConfigMachine

The variables are the `cfg_*` members. `LoopConnect`, `LoopDisconnect` and
`LoopNoEvent` are what `process_usb_events_` may find at the start of `loop()`;
`Config...`, `Issue...`, `Submit...` and `ChannelEnd` are the branches of
`run_config_machine_`; the callback records, publishes and wakes in three steps.
`loop_enabled` and `wake` model `disable_loop` and `enable_loop_soon_any_context`.
What a driver does is reduced to how many transfers it needs; the rest is `Drivers`. Devices have one
or more usable interfaces, whatever the number of channels. `steps_done` and
`unapplied` are history. Assumed: the host stack has returned the transfers of a
device before it announces the next, which the code relies on.

### BaudEncoders and Drivers

`BaudEncoders` has the encoders as operators (`ftdi_to_clkbits`,
`ftdi_to_clkbits_am`, the CH34x prescaler and factor, the three PL2303 codings),
what a chip makes of a code (`DecodeEighths`, `Ch34xRate`, `Pl2303Divisor`), and
when the result is as good as it can be (`NearestEighths` and the like).

`Drivers` has one channel, its machine and the registers of the chip. `Steps` is
the sequence of transfers that `config_step` yields for the settings, the chip
type and the kind of sequence at that moment: since it is evaluated at each
step, a change of the settings in the middle of a sequence (`LoadSettings`) mixes
the two as the code does. `Complete` lets a transfer fail although the chip has
executed it; `Connect` brings another chip of the family, of which
`DetectedType` is what the driver takes it for. `Executed`, `PortOf` and `PowerOn`
are the chips: a port that is not addressed does not change, a reset forgets rate
and line, and a channel beyond the `Ports` of a chip is not configured. `ThirdBit`
is what an FTDI chip reads for the third bit of the fraction, which does not fit in
the value. It is taken from where `ftdi_convert_baudrate` puts it (`FtdiThirdBit`):
in the index, bit 0 of the high byte for the H chips and of the low byte for a BM,
2232C, R or 230X. In the low byte `config_step` sends the port (section 6). The AM
is taken not to look for it: its encoder has two bits of fraction (proved:
its codes are below 2^16). A 2232C that looked in the high byte would find the bit
clear; `ChipSound` holds of it as well, since it leaves this bit open. Numbering of ports, vendor sequence, bit fields and what a reload leaves
out are as in each driver. `spoiled` is history: the last reload was given up.

### UsbClient

`Plug` and `Unplug` are the environment, at any moment, including while `loop()`
is between opening a device and deciding about it. A device object stands for
address and handle, and is reused when free. `Pop`, `ReleaseEvent` and the rest
are `process_usb_events_` and `handle_open_state_`. The pool has one event less
than the queue has cells, and an event that `loop()` has in hand still counts;
with the pool empty the event is dropped. `Disconnect` is `disconnect()` with the
two outcomes of `usb_host_device_close`: `CloseDevice`, or `CloseFails`, after
which the device stays open and its handle is forgotten (the host stack refuses
while an interface is claimed, and the results of `usb_host_interface_release` are
not looked at). `dropped`, `mishap` and `unclosed`, the objects whose closing has
failed, are history.

### StreamServer

`loop()` is five phases. `ReadFill`, `ReadOverwrite`, `ReadFull` and `ReadEnd`
are the turns of the loop in `read()`; in `Flush` each socket takes any part of
what is pending, nothing, or is found closed. Positions are kept modulo
`WordSize`, where a `size_t` wraps; `buf` holds in each cell the number of the
byte in it, so that a byte out of place shows. `ChannelChanges` is the device of
the UART channel: when it goes, `available()` may still announce bytes (chunks
that were queued are moved to the ring after `on_disconnected` cleared it) that
`read_array` then refuses; `read()` ignores the refusal and moves the head, which
`skipped` counts. Bound: `MaxTotal`, how far the head goes.

### UsbIp

`tcp` and `usb` are where the two tasks are. A URB is the connection and the
seqnum, and stands for its context `XferCtx`: `freed`, `pending`, `cancelled`
and `xfers` say what has become of it. `parse_request` is `SubmitRejected`, or
`SubmitAccepted` to `XferSubmitted` with its two error paths; the mutex is what
`PendingMutexFree` waits for, and `on_device_disconnected` is the only place
that holds it across several sends. `SendResponse` goes to whatever `client_sock`
is at that moment, as in the code. Assumed, as above: the host stack has returned
the transfers of a device that has gone before the next comes. Bound:
`MaxConns`, the connections of a behaviour.

### UsbIpFraming, and MessageStream, what it promises

A request is a sequence of bytes that know what they belong to; `wire` is what
has been sent and not received. `Recv` takes any part of it, up to the room in
`rx_buf`, and writes only there: what earlier requests and connections left in
the buffer stays, and would be seen if it were parsed. `ParseRequest`,
`Unrecognized` and `Incomplete` are the turns of the inner loop, with `Needed` and
`SizeKnown` its branches. A reply is `ReplySize` bytes, sent in pieces by
`SendSome` to whatever `client_sock` is at that moment, by `usbip_tcp` at once or
by `usbip_usb` when a transfer is through (`TransferDone`); `SendFails` drops the
rest. `torn` is history: a reply on this connection was left incomplete.

Sizes keep their order, not their values: a header of 2, an import of 3, a
command of 4 in a buffer of 6. Clients announce the lengths that they send;
sums that wrap 32 bits are left out. Bounds: `MaxConns`, `MaxRequests`.

`MessageStream` has no bytes and no buffer: messages are sent, handled one after
the other, and forgotten with the connection.

## 4. What the runs show

Each run is a `.cfg` of its name.

| run | specification | distinct states | shows |
|---|---|---|---|
| `TransferPool` | `PoolSpec`, 3 requests | 34 504 | `NoSlotLeak` over disconnections; until one orphans a request, `ExclusiveOwner` and the refinement of `SlotAllocator` |
| `UsbUartOutput` | `FairSpec`, 2 chunks, 3 packets | 414 860 | `ClaimHasOwner` and `FlushCompletes` over reconnections; until one is torn, `ExclusiveClaim`, `ChunksConserved`, `FlushSuccessDrained` and the refinement of `PacketStream` |
| `UsbUartInput` | `FairSpec`, 2 chunks, ring of 3 bytes, 5 bytes | 100 133 | `ExclusiveInput`, `ClaimHasOwner`, `BytesInOrder`, `NoSilentLoss`, `InputRecovers` |
| `UsbUartInput_stall` | first session, FT23XX, 1 chunk | - | violates `InputRecovers`, see 6 |
| `StreamServer` | `FairSpec`, 2 clients, ring of 4, 7 bytes | 435 409 | `RingSound`, `FreshBytesKept`, `ClientServed` |
| `StreamServer_wrap` | `Spec`, counters of 16, 22 bytes | - | violates `PendingInRing`, see 6 |
| `ConfigMachine` | `FairSpec`, 2 channels, 1 + 2 + 1 steps | 24 406 | `TransfersSound`, `FlowOnlyConfigured`, `ReloadRemembered`, `WorkingChannelStays`, `InitEnds`, `PendingServed` |
| `Drivers` | `FairSpec`, 5 drivers, 18 chips, ports 0 to 2, 17 rates | 277 284 | `ChipSound`: at rest a chip is set up and runs with the settings of its channel, up to one bit of an FTDI divisor; `Settles` |
| `UsbClient` | `FairSpec`, 2 devices, 3 objects, queue of 3 | 187 138 | `OpenSound`, `NoFalseRemoval`, `RemovalNoticed`, `HotPlug` |
| `UsbIp_safety` | `Spec`, 2 seqnums, 2 connections | 3.9 million | `ContextsSound`, `UnlinkSuppresses`, `NoUrbForgotten` |
| `UsbIp_claim` | the same | - | violates `ClaimedOnce`, see 6 |
| `UsbIpFraming` | `FairSpec`, 2 connections, 2 + 1 requests, buffer of 6 | 175 479 | the refinement of `MessageStream`, `ClosedForCause`, `RequestsHandled`, `RepliesWhole` |

`RingSound`, `ChipSound`, `TransfersSound`, `OpenSound` and `ContextsSound` are
each the type invariant of their module together with what makes its states
sound, by name: `PositionsInWindow` and `PendingIntact`, `SettingsApplied`,
`OneTransfer`, `OpenIsHeld`, `NoUseAfterFree` and `ContextOwned`.

### Bounds, and why they are enough

- Three requests let each thread own one while the USB task's callback still
  holds a third; the claim depends on no more than the lowest free one.
- Two chunks and three packets make the output pool run out and a chunk be
  reused after a completion on the other thread or after a drain. One more packet
  adds states and no new order of the two threads.
- The input run has the pool run out (two chunks), the ring overflow and cut a
  chunk (three bytes, packets of two), and enough bytes to do both and go on.
- The ring of four bytes of the stream server is gone round and overwritten from
  every position; two clients are the least with one slow and one fast.
- The rates of `Drivers` are the usual ones, the ends of the ranges and both sides
  of every threshold of the encoders; changed settings differ from the first in
  every field. The ports 1 and 2 are on either side of the gap in the numbering
  of the CH34x, and 0 and 1 differ in the bit that a 2232C takes for its fraction. That the encoders are right for the rates in between is proved.
- A buffer that holds one of the longest requests but not two, and less than the
  longest announced, makes requests straddle it and overflow it; two connections
  let the leftovers of one meet the next.
- Two channels and a device phase exercise every transition of the machine
  between channels, the pending reload included. One step of a reload and two
  of an init tell first, middle and last steps apart.
- A device of ours and another one, with three objects, allow an object to be
  reused while events about it wait, and one to remain when two could not be closed;
  the queue of three can overflow.
- Two URBs and two connections let one connection's leftovers meet the next
  one's; a third connection differs from the second in nothing.

`CHECK_DEADLOCK FALSE` is in three places: in the runs of `UsbIp` and
`UsbIpFraming`, where the bound on connections ends the behaviours that a server would continue; in
`UsbClient`, where nothing can be plugged in any more when the closing of all
objects has failed; and in
`UsbUartInput_stall`, where a configuration that was aborted leaves the only
session without anything to do.

### Fairness

- UART: both threads finish what they have begun, the host stack completes every
  transfer, a begun configuration ends (`Fairness` of both modules). Writing and
  flushing is the application's choice, and the timeout of `flush` is not relied
  on. Input also needs that a submission does not fail for ever and that the
  application goes on reading: strong fairness, as failures and empty rings
  disable both again and again.
- Stream server: `loop()` goes on, `read()` ends (the UART is slower than the
  loop), and a socket that is tried again and again takes something or fails.
- Drivers: the machine goes on and transfers complete, which `InitEnds` and
  `PendingServed` of `ConfigMachine` show. `Settles` is about behaviours in which
  the device and, in the end, the settings stay.
- USB/IP: both tasks run, the network delivers what was sent, `send` returns.
- Configuration and lifecycle: the application calls `loop()` while it is enabled
  or woken, never otherwise. Devices are under no fairness at all: `InitEnds` and
  `PendingServed` hold of behaviours in which the device finally stays or stays
  away.

### What the properties assume

`InputRecovers` needs an application that polls (`PollWhenEmpty`); section 6
shows what happens otherwise. `ExclusiveInput` ends with the first disconnection,
and `ExclusiveOwner`, `AtomicAllocation` and the output's properties with the
first that meets unfinished business (`orphaned`, `torn`), because a callback that
comes late can clear the flag, or the bit, of the next session. Disconnections
that find everything done do not end them. `PendingIntact` ends with the first
bytes that the channel announced and refused, `RepliesWhole` with the first reply
left incomplete, until the next connection. `ChipSound` lets a BM, 2232C, R or 230X be off by the third bit of
the fraction where the port has taken its place (`ThirdBitSpoiled`, section 6), but
by no other bit, and excepts a reload that was given up. `OpenIsHeld` excepts the
devices whose closing failed (`unclosed`); `RemovalNoticed` is about the device the
client holds, and `HotPlug` about one that finds an object. `ClientServed` says that a client's position
comes up to the head again, if need be by losing what the ring has overwritten, in
behaviours with up to `MaxTotal` bytes. `NoUrbForgotten` and `UnlinkSuppresses` do
not notice a URB that is answered twice with `-ENODEV`; that is `AnsweredOnce`
(section 6). `ClosedForCause` is about the parser only: `recv()` that reports an
error, or nothing for 60 s (`usb_ip.cpp:621`, `:630`), ends a connection too.
`ContextsSound` says that a context has one owner and is freed once, not when: the
code accepts the next client while contexts of the last are still in transfers
(section 6). `HotPlug` excludes behaviours in which
an event was dropped, a device was announced before `loop()` was through with the
last event, or a request to a present device failed: in each of these the code
does not try again until the device is replugged. `ReloadRemembered` accepts
that the one pending slot is taken by another channel, which `usb_uart.cpp:546`
states. `PositionsInWindow` and the rest of the stream server hold below the
wrap of its counters only.

## 5. What is proved

For every value of the constants, subject to the named assumptions
(`MaxRequestsAssumption`, `MaxPacketsAssumption`, `InputAssumption`,
`ServerAssumption`, `ConfigAssumption`, `ClientAssumption`, `FreeAssumption`,
`UsbIpAssumption`, `FramingAssumption`, `SettingsAssumption`: sizes are natural numbers, not zero where the code asserts so, a `size_t` holds
more than a ring, the requests of USB/IP grow from header to import to command and
fit in the buffer, settings are among those the schema admits, and the clients that may connect are finitely many). The bounds on bytes,
packets and connections are constants like the others, so they may be as large as one likes.
Only `StreamServer_proofs` assumes a relation between them, `NoWrap`.

**UsbHost_proofs, the pool.** `NoLeak` and `PoolTypeCorrect` follow from `LeakInv`: types,
where each thread is against what it holds (`PcInv`), and no set bit without an
owner. It is inductive over disconnections because a release clears only the bit
of a request its owner gives up. `Exclusive` and `PoolRefinement` need more: in
`OwnerInv` the owned requests are *exactly* those whose bit is set. Without the
second half a claim could take an owned request, and this half is what a
disconnection under a request in use destroys: the invariant is `~orphaned =>
OwnerInv`, and a disconnection keeps it because it either orphans something or
finds nobody who owns. `LowestZeroIsFree` is the lemma on the choice of the bit.
`PoolRefinement` is that of `SlotAllocator`.

**UsbUartOutput_proofs.** `SessionInv` adds to the types and `OneClaim` that
whoever relies on `output_started` finds it set (`FlagInv`, which also says that
on a channel not yet configured it is set and nobody relies on it), that what is
popped is the packet after the last one taken (`PosInv`), and that a queue
`flush()` has found empty stays so (`FlushInv`: only the main loop pushes, and it
is in `flush()`). It holds as long as no session was torn; a disconnection that
tears nothing re-establishes it, and the drain keeps it, since the main loop is
then the only thread with anything in hand. From it follow `Exclusive`,
`FlushIsHonest` and `Refinement`, that output implements `PacketStream`.
`Conservation` is inductive relative to it: each chunk is in one place.
`FlagHasOwner` needs no such condition and holds of torn sessions too.

**UsbUartInput_proofs.** `DataInv` is the order of all bytes there are: those
read before those in the ring, before those queued, each part sorted, over any
number of sessions, with any pattern of overflow (`PushedFacts` is the lemma on
the push that cuts). `InOrder` follows. `FlagInv` is the counterpart of the
output's, until a device disconnects, and gives `Exclusive`; `FlagHasOwner`
holds without it. `GapInv` is `DataInv` with equalities in place of the
inequalities, until something is dropped, and gives `NothingElseLost`.

**StreamServer_proofs.** Under `NoWrap`, that a behaviour has fewer bytes than a
`size_t` counts: beyond it the properties are false (section 6). Positions are
then plain numbers. `HeadInv` puts those of the live clients between tail and
head, no more than the ring apart, and the tail at or below what `flush()` last
offered; the last conjunct, that nothing new is in the ring while `len` is 0,
is what makes the overwriting branch harmless. `ContentInv` says which byte is
in the cell of each position between tail and head. `FillFacts` has the
arithmetic of the ring: a position keeps its cell as long as the head is no more
than the ring ahead of it (`SameIndex`). `FlushStep` needs that a set of
positions has a least one. `RingIsSound` and `FreshKept` follow.

**ConfigMachine_proofs.** `MachineInv` relates the `cfg_*` members to each other,
`TransferInv` says that a transfer or an unpublished result means an active
machine that waits and has no result yet, so that no second transfer begins, and
`ChannelInv` counts the steps of the init that have succeeded. `OneAtATime`,
`FlowsConfigured` and `WorkingStays` follow from the three; `ReloadsRemembered`
is inductive relative to them.

**UsbHost_proofs, the client.** `HandleInv` ties the handle to the state and to where
`loop()` is; `QueueInv` has the invariant the code relies on without saying so: a
removal in the queue that names an open device is of a device that has gone.
It is kept because `loop()` opens a device only when it has emptied the queue.
`HandleInv` also says that a device about to be opened is not open yet, so that the
client never comes to hold one that it failed to close (`DisconnectFacts`).
`OpenIsClosed` and `RemovalsAreTrue` follow.

**UsbIp_proofs.** `ContextInv` says whose each context is. `HandsInv` is about the
two tasks: what one has in hand is in no transfer, not freed, and not in the
other's hands; `MapInv` about the map: nothing in it is freed, or answered by a
callback, and outside `on_device_disconnected` nothing in it is flagged. `ContextsAreSound` follows;
`UnlinkInv` and `AnswerInv` are inductive relative to it, and give
`UnlinkIsFinal` and `NoneForgotten`. The mutex is used where it matters: between
taking a URB out of the map and flagging it no other task sees the map.

**UsbIpFraming_proofs.** `RequestsInOrder` says that requests are parsed whole,
once, in order, although `recv` cuts the stream anywhere, the buffer fills in the
middle of a request and holds what earlier connections left. `StreamWhole` is
why: the bytes in the buffer not yet parsed, followed by those on the wire, are
the requests not yet handled, whole and laid end to end; `Cuts` has the byte each
of them starts at. `Recv`
moves bytes from one part to the other and does not change their concatenation,
`ParseRequest` takes away exactly the first request, since `Needed` computes the
size of what lies at the front from bytes that are there. `Claims` says which
task may be in `send_response` and for which connection, and `PiecesInOrder`,
which holds until a reply is torn, that each piece received is the next of the
same reply or the first of another after a last; `RepliesWhole` follows.
`ClosedForCause` follows from `StreamWhole`: what the parser rejects is really at
the front of the stream, and is not a leftover.

**Drivers_proofs, the encoders.** For every rate the schema admits, where the run
has a few. `ClkbitsNearest`: what `ftdi_to_clkbits` encodes is the nearest divisor
the chip has, by way of `BestIsNearest` (the rounding of `divisor & 1`) and
`DecodeEncode` (fraction code and whole part do not overlap). `FtdiNearest`: every
rate from 300 up is in the range in which that holds, for each chip and clock
that `ftdi_convert_baudrate` chooses. `AmTakesNearest`: the search of the AM, which
looks at two candidates only, finds a divisor nearest among all the chip has that
are within a whole one. `FtdiSent`: from value and index of the request an AM and
the H chips get that divisor, on every port, and the others get it but for the
third bit of the fraction, where they find the port (section 6). `Ch34xAccepts`: the quotient that is cut to eight bits before it is
checked fits in them, so that no rate is rejected; `Ch34xTakesNearest`: of the
factors there are for the prescaler it chooses, it takes a nearest. `Pl2303BaudClose`: each
of the three codings gives the rate, or one as close as its truncation allows.

**Drivers_proofs, the machine.** `Inv` is inductive, with four parts: `Types`;
`Known`, what the driver has detected; `Control`, where the machine is; and
`Registers`, what the chip has taken so far. The difficulty is that settings change
in the middle of a sequence, which is evaluated anew at each step. Two facts carry
the argument. The `Shape` of a sequence, its requests without their settings,
depends only on chip and driver, so that each transfer keeps its place
(`StepsSame`). And each register is set by one transfer of a sequence (`StepSound`,
`ShapeSound`, proved of each driver in turn), so that a later transfer does not
undo an earlier one. Then `ProgressFor` is kept: every step behind the machine has
left its effect in the registers, with the present settings unless a reload is
pending. At the end of a sequence that is all of them, and `SettledByAll` turns
it, by the theorems on the encoders, into `SettingsApplied`.
`SettingsReachTheChip` follows.

**What the attempts showed.** Three operators had a `CASE` whose guards overlapped
(`Size`, `Executed`, `RateMatches`). TLC takes the first that holds; the semantics
of TLA+ allows any, and the proofs did not go through until the guards excluded
each other. The inductive invariants were checked by TLC on the runs' constants
before they were proved.

**Only model-checked**: the liveness properties, `FlushCompletes`, `InputRecovers`,
`ClientServed`, `InitEnds`, `PendingServed`, `Settles`, `RemovalNoticed`, `HotPlug`
and `RequestsHandled`, since they rest on fairness, whose `ENABLED` is out of
reach of the prover. All other properties of the passing runs are theorems; those
of the violation runs are refuted, and have nothing to prove.

## 6. What the code does not guarantee

TLC refutes each of these; three are runs of the project, with a finding, and
for the others a configuration is kept beside it so that the trace can be seen.

| property | what happens | configuration |
|---|---|---|
| `InputRecovers` of an application that reads only what is available (`usb_uart.cpp:316`, `ft23xx.cpp:303`) | the callback finds the pool empty; before it clears the flag, the loop drains the queue, the application reads everything and its `start_input` finds the flag set; then the flag is cleared and nobody is left to start | run `UsbUartInput_stall` |
| `PendingInRing` (`stream_server.cpp:156`) | `position < buf_tail_` compares counters that wrap after 2^32 bytes; the tail passes a slow client and `flush()` writes past the array | run `StreamServer_wrap` |
| `ClaimedOnce` (`design.md:207`) | `cleanup_connection_` forgets that the interfaces are claimed without releasing them; the next client's transfers are refused | run `UsbIp_claim` |
| `NeverShared` (`usb_host_client.cpp:520`) | the bitmask is cleared while a request is in flight, and the request is claimed again | `TransferPool_reuse` |
| `QueuedIsSent` (`usb_host_client.cpp:517`) | a packet queued between the empty `pop()` and the release of the flag waits for the next write: `loop()` does not trigger output | `UsbUartOutput_stall` |
| `SingleConsumer` (`usb_uart.cpp:351`) | `on_disconnected` drains the queue while the USB task pops | `UsbUartOutput_drain` |
| `NoSpuriousRestart` (`usb_uart.cpp:478`) | a callback that comes after `on_disconnected` clears the flag | `UsbUartOutput_spurious`; the same of `UsbUartInput` |
| `PendingIntact` of a channel that goes (`stream_server.cpp:144`) | chunks queued when the device goes are moved to the cleared ring of the channel; `available()` announces them, `read_array` refuses them, and `read()` sends the clients stale cells of its ring, in every loop until a device is back | `StreamServer_stale` |
| `FractionCarried` (`ft23xx.cpp:355`) | for a BM, 2232C, R or 230X the encoder returns the third fraction bit in bit 0 of the index (`ft23xx.cpp:150`), the byte in which `config_step` puts the port plus one (`:357`). A chip with a single port finds the bit always set: the rates whose divisor ends in 0, 1, 2 or 4 eighths are off, by an eighth to six of them: 115200 gets 26.375 in place of 26. On the second port of a 2232C it is always clear, and those that need it, such as 1843200, are off | `Drivers_fraction` |
| `NothingLeaked` (`usb_host_client.cpp:412`) | a failed `usb_host_device_close` is only logged: the device stays open, the handle is gone, and neither is tried again; the object of a device that then goes is never free | `UsbClient_leak` |
| `ReloadGentle` (`usb_uart.h:232`) | a reload of the CP210x asserts DTR and RTS again (`cp210x.cpp:122`) | `Drivers_reload` |
| `NothingAfterTorn` (`requirements.md:129`) | after a send that failed half-way the server goes on, and the next reply is read as the rest of the last | `UsbIpFraming_torn` |
| `AnsweredOnce` (`usb_ip.cpp:222`) | a URB registered when the device goes is answered twice | `UsbIp_once` |
| `AnsweredToItsClient` (`usb_ip.cpp:240`) | a callback past its check answers on the next client's socket | `UsbIp_client` |
| `SocketsClosed` (`design.md:518`) | a connection that ends before its first complete request stays open | `UsbIp_socket` |
| `UnlinkedEnds` (`requirements.md:70`) | an unlinked transfer is flagged, not cancelled, and stays until the device answers | `UsbIp_unlink` |

`design.md` and `requirements.md` are those of
`src/.kiro/specs/usb-ip-protocol-alignment/`.

Five more observations are in the models as the code has them, without a property
that says otherwise: `design.md:509` has the contexts of a dropped connection freed
in `cleanup_connection_`, and `requirements.md:128` and `:134` have them freed, and
the transfers cancelled, before the next client is accepted, while the code only
flags them and frees each in its callback, whenever that comes (`usb_ip.cpp:247`);
one and a half stop bits are set as one by the CH34x
(`ch34x.cpp:135`) and the PL2303 (`pl2303.cpp:263`); a reload that fails half-way
leaves the chip with the settings of two moments (`usb_uart.cpp:632`, `spoiled`);
an FTDI chip with an unknown `bcdDevice` keeps the type of the one before it
(`ft23xx.cpp:258`); and the branch for `0x4001` in the encoder of the AM
(`ft23xx.cpp:76`) is never taken, since the search returns eight, or sixteen, or
more.

## 7. What is not modelled

- `parse_descriptors` beyond the chip type: which endpoints and interfaces a
  driver picks; the claim of the interfaces in `on_connected`, and the interface
  number of `0xFF` after a claim that failed (`usb_uart.cpp:441`).
- The CH34x model that `config_device_step` looks up: it is only logged.
- The contents and layout of USB/IP replies, the list and import of devices:
  `static_assert`s and `tests/test_protocol.cpp` cover them.
- Lengths announced by a USB/IP client that do not match what it sends, and sums
  of them that wrap 32 bits.
- `on_shutdown` of the stream server, and the bytes from its clients to the UART,
  which it does not keep.
- `usb_host_component.cpp`: it polls the host library; its effects are the
  environment of the other modules.
- Code generation and host-side tests: nothing of the running system is there.
  The bounds the generators validate (a buffer size that is a power of two, one
  to 32 requests, the ranges of the settings) are assumptions on constants.
- Memory: descriptors that are freed, and `channel->cdc_dev_` pointing into them.
- The atomics are taken to be sequentially consistent, as the defaults in the
  code ask for; the acquire and release of `cfg_done_` are strong enough for the
  order the model assumes.
