------------------------------ MODULE UsbUartInput ------------------------------
(***************************************************************************)
(* The input path of one USBUartChannel (usb_uart.cpp, ft23xx.cpp): the    *)
(* callback of the IN transfer queues what it received and restarts input  *)
(* from the USB task; the main loop moves the chunks to the ring buffer,   *)
(* and read_array, which takes bytes out of it, restarts input as well.    *)
(*                                                                         *)
(* The bytes the device sends are numbered as they arrive.  A chunk is the *)
(* pair of its first and last byte.  The ring buffer is the sequence of    *)
(* the bytes in it.                                                        *)
(***************************************************************************)
EXTENDS Integers, Sequences

CONSTANTS
  PoolSize,         \* the chunks of chunk_pool_, as many as the queue holds
  BufferSize,       \* buffer_size_: the ring holds one byte less
  MaxPacket,        \* the longest IN packet, in bytes
  MaxTransfers,     \* MAX_REQUESTS: the transfers the client can have in flight
  MaxBytes,         \* bound: the bytes the device sends in a behaviour
  ClearOnOverflow,  \* on_rx_overflow clears the ring (FT23XX) or does nothing
  PollWhenEmpty,    \* the application calls read_array with nothing available
  MayFail           \* transfers and submissions may fail

ASSUME InputAssumption ==
  /\ PoolSize \in Nat \ {0} /\ BufferSize \in Nat \ {0}
  /\ MaxPacket \in Nat \ {0} /\ MaxTransfers \in Nat \ {0} /\ MaxBytes \in Nat
  /\ {ClearOnOverflow, PollWhenEmpty, MayFail} \subseteq BOOLEAN

Main == "main"
Usb  == "usb"
Threads == {Main, Usb}

VARIABLES
  link,           \* where the connection is, as the main loop sees it
  initialised,    \* initialised_
  input_started,  \* input_started_
  inflight,       \* how many IN transfers the host stack holds
  data_queue,     \* usb_data_queue_
  input_buffer,   \* input_buffer_
  arrived,        \* the bytes received by callbacks so far
  last_read,      \* the last byte read_array returned
  lost,           \* history: a byte has been dropped
  replugged,      \* history: the first session of a device is over
  pc              \* where each thread is

dataVars == <<data_queue, input_buffer, arrived, last_read, lost, replugged>>
vars == <<link, initialised, input_started, inflight, dataVars, pc>>

Links == {"down", "configuring", "configured", "failed", "up"}
StartLabels == {"si_init", "si_cas", "si_submit", "si_release"}
Labels == StartLabels \cup {"idle", "cb_store", "cb_stop", "disconnect"}

(* A byte by its number, a chunk by the numbers of its first and last. *)
Bytes == 1 .. MaxBytes
Chunks == Bytes \X Bytes

TypeOK ==
  /\ link \in Links
  /\ initialised \in BOOLEAN
  /\ input_started \in BOOLEAN
  /\ inflight \in 0 .. MaxTransfers
  /\ data_queue \in Seq(Chunks)
  /\ Len(data_queue) <= PoolSize
  /\ input_buffer \in Seq(Bytes)
  /\ Len(input_buffer) < BufferSize
  /\ arrived \in 0 .. MaxBytes
  /\ last_read \in 0 .. MaxBytes
  /\ {lost, replugged} \subseteq BOOLEAN
  /\ pc \in [Threads -> Labels]

Init ==
  /\ link = "down"
  /\ initialised = FALSE
  /\ input_started = TRUE
  /\ inflight = 0
  /\ data_queue = <<>> /\ input_buffer = <<>>
  /\ arrived = 0 /\ last_read = 0
  /\ lost = FALSE /\ replugged = FALSE
  /\ pc = [t \in Threads |-> "idle"]

Goto(t, l) == pc' = [pc EXCEPT ![t] = l]

------------------------------------------------------------------------------
(* start_input, on either thread. *)

StartInitialised(t) ==
  /\ pc[t] = "si_init"
  /\ Goto(t, IF initialised THEN "si_cas" ELSE "idle")
  /\ UNCHANGED <<link, initialised, input_started, inflight, dataVars>>

(* Mutant: the flag is loaded and stored without a compare-exchange. *)
StartClaimMutant(t) ==
  /\ pc[t] = "si_cas"
  /\ input_started' = TRUE
  /\ Goto(t, "si_submit")
  /\ UNCHANGED <<link, initialised, inflight, dataVars>>

(* compare_exchange_strong(false, true) on input_started_. *)
StartClaim(t) ==
  /\ pc[t] = "si_cas"
  /\ ~input_started
  /\ input_started' = TRUE
  /\ Goto(t, "si_submit")
  /\ UNCHANGED <<link, initialised, inflight, dataVars>>

StartBusy(t) ==
  /\ pc[t] = "si_cas"
  /\ input_started
  /\ Goto(t, "idle")
  /\ UNCHANGED <<link, initialised, input_started, inflight, dataVars>>

(* The requests in use: a callback keeps its own until it returns. *)
SlotsUsed == inflight + IF pc[Usb] = "idle" THEN 0 ELSE 1

(* transfer_in succeeds; it cannot without a request, or once the device is *)
(* closed.                                                                  *)
StartSubmit(t) ==
  /\ pc[t] = "si_submit"
  /\ link # "down" /\ SlotsUsed < MaxTransfers
  /\ inflight' = inflight + 1
  /\ Goto(t, "idle")
  /\ UNCHANGED <<link, initialised, input_started, dataVars>>

StartSubmitFails(t) ==
  /\ pc[t] = "si_submit"
  /\ MayFail \/ link = "down" \/ SlotsUsed = MaxTransfers
  /\ Goto(t, "si_release")
  /\ UNCHANGED <<link, initialised, input_started, inflight, dataVars>>

(* Mutant: the flag stays set after a failed submission. *)
StartReleaseMutant(t) ==
  /\ pc[t] = "si_release"
  /\ Goto(t, "idle")
  /\ UNCHANGED <<link, initialised, input_started, inflight, dataVars>>

StartRelease(t) ==
  /\ pc[t] = "si_release"
  /\ input_started' = FALSE
  /\ Goto(t, "idle")
  /\ UNCHANGED <<link, initialised, inflight, dataVars>>

StartInput(t) ==
  \/ StartInitialised(t) \/ StartClaim(t) \/ StartBusy(t)
  \/ StartSubmit(t) \/ StartSubmitFails(t) \/ StartRelease(t)

------------------------------------------------------------------------------
(* The transfer callback, on the USB task. *)

Complete(l) ==
  /\ pc[Usb] = "idle"
  /\ inflight > 0
  /\ inflight' = inflight - 1
  /\ Goto(Usb, l)
  /\ UNCHANGED <<link, initialised, input_started>>

(* Mutant: the chunk overtakes what is already queued. *)
EnqueueMutant(n) == data_queue' = <<<<arrived + 1, arrived + n>>>> \o data_queue

(* push(): the queue has room for every chunk of the pool. *)
Enqueue(n) == data_queue' = Append(data_queue, <<arrived + 1, arrived + n>>)

(* A packet of n bytes gets a chunk and is queued for the main loop. *)
CallbackData(n) ==
  /\ Complete("cb_store")
  /\ n <= MaxBytes - arrived
  /\ Len(data_queue) < PoolSize
  /\ Enqueue(n)
  /\ arrived' = arrived + n
  /\ UNCHANGED <<input_buffer, last_read, lost, replugged>>

(* No chunk is left: the packet is dropped and input not restarted. *)
CallbackNoChunk(n) ==
  /\ Complete("cb_stop")
  /\ n <= MaxBytes - arrived
  /\ Len(data_queue) = PoolSize
  /\ arrived' = arrived + n
  /\ lost' = TRUE
  /\ UNCHANGED <<data_queue, input_buffer, last_read, replugged>>

(* An empty packet, a status packet, or a dummy receiver. *)
CallbackEmpty == Complete("cb_store") /\ UNCHANGED dataVars

(* The transfer failed: input is not restarted either. *)
CallbackFails == Complete("cb_stop") /\ MayFail /\ UNCHANGED dataVars

(* The flag is cleared, and input restarted from the USB task ... *)
CallbackStore ==
  /\ pc[Usb] = "cb_store"
  /\ input_started' = FALSE
  /\ Goto(Usb, "si_init")
  /\ UNCHANGED <<link, initialised, inflight, dataVars>>

(* Mutant: the flag stays set after a failure. *)
CallbackStopMutant ==
  /\ pc[Usb] = "cb_stop"
  /\ Goto(Usb, "idle")
  /\ UNCHANGED <<link, initialised, input_started, inflight, dataVars>>

(* ... or left to the next read_array. *)
CallbackStop ==
  /\ pc[Usb] = "cb_stop"
  /\ input_started' = FALSE
  /\ Goto(Usb, "idle")
  /\ UNCHANGED <<link, initialised, inflight, dataVars>>

Callback ==
  \/ \E n \in 1 .. MaxPacket : CallbackData(n) \/ CallbackNoChunk(n)
  \/ CallbackEmpty \/ CallbackFails \/ CallbackStore \/ CallbackStop

------------------------------------------------------------------------------
(* The main loop. *)

FreeSpace(b) == BufferSize - 1 - Len(b)

(* Mutant: forgets that the ring keeps one byte free. *)
OverflowsMutant(b, n) == FreeSpace(b) + 1 < n
Overflows(b, n) == FreeSpace(b) < n
Least(m, n) == IF m <= n THEN m ELSE n

(* Mutant: the ring is not limited to its free space. *)
PushedMutant(b, lo, n) == b \o [i \in 1 .. n |-> lo + i - 1]

(* push() keeps the first bytes that fit and drops the others. *)
Pushed(b, lo, n) == b \o [i \in 1 .. Least(n, FreeSpace(b)) |-> lo + i - 1]

(* One round of USBUartComponent::loop over usb_data_queue_: pop, the      *)
(* overflow hook, push to the ring, release of the chunk.                  *)
LoopChunk ==
  /\ pc[Main] = "idle"
  /\ data_queue # <<>>
  /\ LET lo == Head(data_queue)[1]
         n  == Head(data_queue)[2] + 1 - lo
         overflow == Overflows(input_buffer, n)
         ring == IF overflow /\ ClearOnOverflow THEN <<>> ELSE input_buffer
     IN  /\ input_buffer' = Pushed(ring, lo, n)
         /\ lost' = (lost \/ overflow)
  /\ data_queue' = Tail(data_queue)
  /\ UNCHANGED <<link, initialised, input_started, inflight, arrived, last_read, replugged, pc>>

(* read_array takes n bytes out of the ring and restarts input.  It is     *)
(* called with what is available, and with nothing available only by an    *)
(* application that polls.                                                 *)
ReadArray(n) ==
  /\ pc[Main] = "idle"
  /\ initialised
  /\ n > 0 \/ (PollWhenEmpty /\ input_buffer = <<>>)
  /\ last_read' = IF n = 0 THEN last_read ELSE input_buffer[n]
  /\ input_buffer' = SubSeq(input_buffer, n + 1, Len(input_buffer))
  /\ Goto(Main, "si_init")
  /\ UNCHANGED <<link, initialised, input_started, inflight, data_queue, arrived, lost, replugged>>

Read == \E n \in 0 .. Len(input_buffer) : ReadArray(n)

------------------------------------------------------------------------------
(* The connection, as far as the input path sees it. *)

(* on_connected: the channel is initialised before it is configured. *)
OnConnected ==
  /\ pc[Main] = "idle"
  /\ link = "down"
  /\ link' = "configuring"
  /\ initialised' = TRUE
  /\ UNCHANGED <<input_started, inflight, dataVars, pc>>

(* The callback of the last control transfer, on the USB task. *)
ConfigCallback ==
  /\ pc[Usb] = "idle"
  /\ link = "configuring"
  /\ link' = "configured"
  /\ UNCHANGED <<initialised, input_started, inflight, dataVars, pc>>

(* run_config_machine_ clears the flag and starts input. *)
ConfigDone ==
  /\ pc[Main] = "idle"
  /\ link = "configured"
  /\ link' = "up"
  /\ input_started' = FALSE
  /\ Goto(Main, "si_init")
  /\ UNCHANGED <<initialised, inflight, dataVars>>

ConfigAborts ==
  /\ pc[Main] = "idle"
  /\ link \in {"configuring", "configured"}
  /\ link' = "failed"
  /\ initialised' = FALSE
  /\ UNCHANGED <<input_started, inflight, dataVars, pc>>

(* on_disconnected: the flag is reset and the ring cleared; the chunks     *)
(* already queued are not.                                                 *)
OnDisconnected ==
  /\ pc[Main] = "idle"
  /\ link' = "down"
  /\ input_started' = TRUE
  /\ input_buffer' = <<>>
  /\ lost' = TRUE /\ replugged' = TRUE
  /\ Goto(Main, "disconnect")
  /\ UNCHANGED <<initialised, inflight, data_queue, arrived, last_read>>

(* At its end the channel stops being initialised. *)
DisconnectEnd ==
  /\ pc[Main] = "disconnect"
  /\ initialised' = FALSE
  /\ Goto(Main, "idle")
  /\ UNCHANGED <<link, input_started, inflight, dataVars>>

------------------------------------------------------------------------------
SessionNext ==
  \/ \E t \in Threads : StartInput(t)
  \/ Callback
  \/ LoopChunk
  \/ Read
  \/ OnConnected \/ ConfigCallback \/ ConfigDone \/ ConfigAborts

Next == SessionNext \/ OnDisconnected \/ DisconnectEnd

Spec == Init /\ [][Next]_vars

(* Both threads run, the device answers, a submission does not fail for    *)
(* ever, and the application keeps calling read_array when it may.         *)
Fairness ==
  /\ \A t \in Threads : WF_vars(StartInput(t)) /\ SF_vars(StartSubmit(t))
  /\ WF_vars(Callback)
  /\ WF_vars(LoopChunk)
  /\ SF_vars(Read)
  /\ WF_vars(ConfigCallback) /\ WF_vars(ConfigDone)
  /\ WF_vars(DisconnectEnd)

FairSpec == Spec /\ Fairness

(* The first session alone: a device connects, once, and stays. *)
FairSessionSpec == Init /\ [][SessionNext]_vars /\ Fairness

------------------------------------------------------------------------------
(* A thread is inside the section input_started_ guards. *)
InSection(t) == pc[t] \in {"si_submit", "si_release", "cb_store", "cb_stop"}

(* One IN transfer at a time, ft23xx.cpp:277-279: a flag that two threads  *)
(* loaded and stored apart "can let both threads submit a transfer".  That *)
(* is so until a device disconnects: see NoSpuriousRestart for the callback *)
(* that clears the flag of the next session.                               *)
ExclusiveInput ==
  ~replugged =>
    /\ ~(InSection(Main) /\ InSection(Usb))
    /\ \A t \in Threads : InSection(t) => inflight = 0
    /\ inflight <= 1

(* A set flag on a configured channel has an owner that will clear it:     *)
(* a thread in the section or a transfer whose callback will.              *)
ClaimHasOwner ==
  link = "up" /\ input_started => inflight > 0 \/ \E t \in Threads : InSection(t)

(* The bytes between the last one read and the last one received, in the   *)
(* order in which they will be read.                                       *)
FirstQueued == IF data_queue = <<>> THEN arrived + 1 ELSE Head(data_queue)[1]
FirstUnread == IF input_buffer = <<>> THEN FirstQueued ELSE Head(input_buffer)

(* Bytes are read in the order in which they arrived, across the queue,    *)
(* the ring and the two threads, and none twice.                           *)
BytesInOrder ==
  /\ \A i \in 1 .. Len(data_queue) - 1 : data_queue[i][2] < data_queue[i + 1][1]
  /\ \A i \in 1 .. Len(input_buffer) - 1 : input_buffer[i] < input_buffer[i + 1]
  /\ input_buffer # <<>> => input_buffer[Len(input_buffer)] < FirstQueued
  /\ last_read < FirstUnread

(* Nothing is missing unless an overflow or an exhausted pool dropped it:  *)
(* what is in the ring and in the queue follows what was read last.        *)
NoSilentLoss ==
  ~lost => /\ FirstUnread = last_read + 1
           /\ \A i \in 1 .. Len(input_buffer) : input_buffer[i] = last_read + i
           /\ FirstQueued = last_read + Len(input_buffer) + 1
           /\ \A i \in 1 .. Len(data_queue) - 1 :
                data_queue[i][2] + 1 = data_queue[i + 1][1]

(* Input comes back: on a channel that stays configured an IN transfer is  *)
(* submitted again and again.  With an application that polls this is so,  *)
(* whatever failed before; the code's comments promise it of any:          *)
(* usb_uart.cpp:316 "so we can retry" and ft23xx.cpp:303 "wake the main    *)
(* loop to drain it, then let read_array() retrigger start_input()".       *)
InputRecovers == []((link = "up") => <>(inflight > 0 \/ link # "up"))

------------------------------------------------------------------------------
(* What the code does not guarantee, although it says so: TLC refutes the  *)
(* properties from here on (see README.md for how each of them fails).     *)

(* usb_uart.cpp:478: the flags are reset on disconnection "to avoid the    *)
(* possibility of spurious restarts": until the channel is configured the  *)
(* flag stays set.                                                         *)
NoSpuriousRestart == link # "up" => input_started
==============================================================================
