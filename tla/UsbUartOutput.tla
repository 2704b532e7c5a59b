----------------------------- MODULE UsbUartOutput -----------------------------
(***************************************************************************)
(* The output path of one USBUartChannel (usb_uart.cpp): write_array and   *)
(* flush on the main loop, the transfer callback on the USB task, and      *)
(* start_output, which both threads run, with the flag output_started_ as  *)
(* the only thing that keeps them apart.                                   *)
(*                                                                         *)
(* A packet is one UsbOutputChunk.  Packets are numbered in the order in   *)
(* which write_array pushes them: log is everything pushed since boot,     *)
(* head the number of packets popped, so the queue holds the packets       *)
(* head+1 .. Len(log).  pop() is two steps, the read at the head and the   *)
(* store of the next head, which is all that lets two consumers collide.   *)
(***************************************************************************)
EXTENDS Naturals, Sequences, FiniteSets

CONSTANTS
  Chunks,      \* the chunks of output_pool_, as many as the queue holds
  MaxPackets   \* bound: the packets accepted in a behaviour

ASSUME MaxPacketsAssumption == MaxPackets \in Nat

Main == "main"
Usb  == "usb"
Threads == {Main, Usb}

VARIABLES
  link,            \* where the connection is, as the main loop sees it
  initialised,     \* initialised_
  output_started,  \* output_started_
  log, head,       \* output_queue_: all chunks pushed, how many are popped
  output_pool,     \* the free chunks of output_pool_
  inflight,        \* the packets of the OUT transfers the host stack holds
  last_sent,       \* the last packet a transfer carried to the device
  pos,             \* the packet a thread has read at the head of the queue
  togo,            \* the packets the running write_array has left
  result,          \* what flush() returned last
  pc,              \* where each thread is
  torn             \* history: a disconnection came before the USB task was done

chanVars == <<link, initialised, last_sent, result>>
pathVars == <<chanVars, output_started, log, head, output_pool, inflight, pos, togo, pc>>
vars == <<pathVars, torn>>

Packets == 1 .. MaxPackets
Links == {"down", "configuring", "configured", "failed", "up"}
StartLabels == {"so_cas", "so_pop", "so_advance", "so_submit", "so_release"}
FlushLabels == {"fl_queue", "fl_started", "fr_queue", "fr_started"}
DrainLabels == {"dr_pop", "dr_advance"}
MainLabels == {"idle", "write"} \cup StartLabels \cup FlushLabels \cup DrainLabels
UsbLabels == {"idle", "cb_store"} \cup StartLabels

TypeOK ==
  /\ link \in Links
  /\ initialised \in BOOLEAN
  /\ output_started \in BOOLEAN
  /\ log \in Seq(Chunks) /\ Len(log) <= MaxPackets
  /\ head \in 0 .. Len(log)
  /\ output_pool \in SUBSET Chunks
  /\ inflight \in SUBSET (1 .. Len(log))
  /\ last_sent \in 0 .. Len(log)
  /\ pos \in [Threads -> 0 .. Len(log)]
  /\ togo \in 0 .. MaxPackets
  /\ result \in {"none", "spinning", "success", "timeout"}
  /\ pc \in [Threads -> MainLabels \cup UsbLabels]
  /\ pc[Main] \in MainLabels /\ pc[Usb] \in UsbLabels
  /\ torn \in BOOLEAN

(* At boot: no device, and both started flags true (usb_uart.h:188-190). *)
Init ==
  /\ link = "down"
  /\ initialised = FALSE
  /\ output_started = TRUE
  /\ log = <<>> /\ head = 0
  /\ output_pool = Chunks
  /\ inflight = {}
  /\ last_sent = 0
  /\ pos = [t \in Threads |-> 0]
  /\ togo = 0
  /\ result = "none"
  /\ pc = [t \in Threads |-> "idle"]
  /\ torn = FALSE

Goto(t, l) == pc' = [pc EXCEPT ![t] = l]
QueueEmpty == head = Len(log)

(* Where start_output returns to: the USB task's callback ends, flush()    *)
(* goes round its loop, write_array ends.                                  *)
Return(t) ==
  Goto(t, IF t = Main /\ result = "spinning" THEN "fl_queue" ELSE "idle")

------------------------------------------------------------------------------
(* write_array: one chunk per packet while the pool has any, then          *)
(* start_output.  Writes are ignored unless the channel is initialised.    *)
WriteArray(n) ==
  /\ pc[Main] = "idle"
  /\ initialised
  /\ n <= MaxPackets - Len(log)
  /\ togo' = n
  /\ result' = "none"
  /\ Goto(Main, "write")
  /\ UNCHANGED <<link, initialised, output_started, log, head, output_pool,
                 inflight, last_sent, pos>>

(* Mutant: the chunk is queued without being taken out of the pool. *)
PushChunkMutant(c) ==
  /\ c \in output_pool
  /\ log' = Append(log, c)
  /\ UNCHANGED output_pool

(* allocate() and push(): the queue has room for every chunk of the pool. *)
PushChunk(c) ==
  /\ c \in output_pool
  /\ output_pool' = output_pool \ {c}
  /\ log' = Append(log, c)

WriteChunk(c) ==
  /\ pc[Main] = "write"
  /\ togo > 0
  /\ PushChunk(c)
  /\ togo' = togo - 1
  /\ UNCHANGED <<chanVars, output_started, head, inflight, pos, pc>>

(* All is queued, or the pool is empty and the rest is lost. *)
WriteEnd ==
  /\ pc[Main] = "write"
  /\ togo = 0 \/ output_pool = {}
  /\ togo' = 0
  /\ Goto(Main, "so_cas")
  /\ UNCHANGED <<chanVars, output_started, log, head, output_pool, inflight, pos>>

------------------------------------------------------------------------------
(* start_output, on either thread. *)

(* Mutant: the flag is set whatever it was. *)
ClaimMutant(t) ==
  /\ pc[t] = "so_cas"
  /\ output_started' = TRUE
  /\ Goto(t, "so_pop")

(* compare_exchange_strong(false, true) on output_started_. *)
Claim(t) ==
  /\ pc[t] = "so_cas"
  /\ ~output_started
  /\ output_started' = TRUE
  /\ Goto(t, "so_pop")

StartClaim(t) ==
  /\ Claim(t)
  /\ UNCHANGED <<chanVars, log, head, output_pool, inflight, pos, togo>>

(* The flag is already set: another thread is handling the transfer. *)
StartBusy(t) ==
  /\ pc[t] = "so_cas"
  /\ output_started
  /\ Return(t)
  /\ UNCHANGED <<chanVars, output_started, log, head, output_pool, inflight, pos, togo>>

(* pop() finds the queue empty ... *)
StartNothing(t) ==
  /\ pc[t] = "so_pop"
  /\ QueueEmpty
  /\ Goto(t, "so_release")
  /\ UNCHANGED <<chanVars, output_started, log, head, output_pool, inflight, pos, togo>>

(* ... or reads the chunk at the head ... *)
StartPop(t) ==
  /\ pc[t] = "so_pop"
  /\ ~QueueEmpty
  /\ pos' = [pos EXCEPT ![t] = head + 1]
  /\ Goto(t, "so_advance")
  /\ UNCHANGED <<chanVars, output_started, log, head, output_pool, inflight, togo>>

(* Mutant: the head is moved one chunk too far. *)
StartAdvanceMutant(t) ==
  /\ pc[t] = "so_advance"
  /\ head' = pos[t] + 1
  /\ Goto(t, "so_submit")
  /\ UNCHANGED <<chanVars, output_started, log, output_pool, inflight, pos, togo>>

(* ... and moves the head past it. *)
StartAdvance(t) ==
  /\ pc[t] = "so_advance"
  /\ head' = pos[t]
  /\ Goto(t, "so_submit")
  /\ UNCHANGED <<chanVars, output_started, log, output_pool, inflight, pos, togo>>

(* Mutant: the flag is cleared at once, not when the transfer completes. *)
StartSubmitMutant(t) ==
  /\ pc[t] = "so_submit"
  /\ link # "down"
  /\ inflight' = inflight \cup {pos[t]}
  /\ output_started' = FALSE
  /\ Return(t)
  /\ UNCHANGED <<chanVars, log, head, output_pool, pos, togo>>

(* transfer_out succeeds; it cannot once the device is closed. *)
StartSubmit(t) ==
  /\ pc[t] = "so_submit"
  /\ link # "down"
  /\ inflight' = inflight \cup {pos[t]}
  /\ Return(t)
  /\ UNCHANGED <<chanVars, output_started, log, head, output_pool, pos, togo>>

(* transfer_out fails: the chunk returns to the pool and its data is lost. *)
StartSubmitFails(t) ==
  /\ pc[t] = "so_submit"
  /\ output_pool' = output_pool \cup {log[pos[t]]}
  /\ Goto(t, "so_release")
  /\ UNCHANGED <<chanVars, output_started, log, head, inflight, pos, togo>>

(* Mutant: returns with the flag still set. *)
StartReleaseMutant(t) ==
  /\ pc[t] = "so_release"
  /\ Return(t)
  /\ UNCHANGED <<chanVars, output_started, log, head, output_pool, inflight, pos, togo>>

(* Nothing was started: the flag is cleared. *)
StartRelease(t) ==
  /\ pc[t] = "so_release"
  /\ output_started' = FALSE
  /\ Return(t)
  /\ UNCHANGED <<chanVars, log, head, output_pool, inflight, pos, togo>>

StartOutput(t) ==
  \/ StartClaim(t) \/ StartBusy(t) \/ StartNothing(t) \/ StartPop(t)
  \/ StartAdvance(t) \/ StartSubmit(t) \/ StartSubmitFails(t) \/ StartRelease(t)

------------------------------------------------------------------------------
(* The transfer callback, on the USB task: the packet reached the device   *)
(* or the transfer failed; either way the chunk goes back to the pool.     *)
CallbackBegin(i, ok) ==
  /\ pc[Usb] = "idle"
  /\ i \in inflight
  /\ inflight' = inflight \ {i}
  /\ last_sent' = IF ok THEN i ELSE last_sent
  /\ output_pool' = output_pool \cup {log[i]}
  /\ Goto(Usb, "cb_store")
  /\ UNCHANGED <<link, initialised, output_started, log, head, pos, togo, result>>

(* The flag is cleared and output restarted from the USB task. *)
CallbackStore ==
  /\ pc[Usb] = "cb_store"
  /\ output_started' = FALSE
  /\ Goto(Usb, "so_cas")
  /\ UNCHANGED <<chanVars, log, head, output_pool, inflight, pos, togo>>

------------------------------------------------------------------------------
(* flush(): the loop's condition reads the queue, then the flag. *)

FlushBegin ==
  /\ pc[Main] = "idle"
  /\ result' = "spinning"
  /\ Goto(Main, "fl_queue")
  /\ UNCHANGED <<link, initialised, output_started, log, head, output_pool,
                 inflight, last_sent, pos, togo>>

(* Something is left: start_output is tried, and the loop goes round. *)
FlushKick ==
  /\ \/ pc[Main] = "fl_queue" /\ ~QueueEmpty
     \/ pc[Main] = "fl_started" /\ output_started
  /\ Goto(Main, "so_cas")
  /\ UNCHANGED <<chanVars, output_started, log, head, output_pool, inflight, pos, togo>>

(* Something is left, and flush_timeout_ms_ has passed. *)
FlushTimeout ==
  /\ \/ pc[Main] = "fl_queue" /\ ~QueueEmpty
     \/ pc[Main] = "fl_started" /\ output_started
  /\ Goto(Main, "fr_queue")
  /\ UNCHANGED <<chanVars, output_started, log, head, output_pool, inflight, pos, togo>>

FlushSeesEmpty ==
  /\ pc[Main] = "fl_queue"
  /\ QueueEmpty
  /\ Goto(Main, "fl_started")
  /\ UNCHANGED <<chanVars, output_started, log, head, output_pool, inflight, pos, togo>>

FlushSeesIdle ==
  /\ pc[Main] = "fl_started"
  /\ ~output_started
  /\ Goto(Main, "fr_queue")
  /\ UNCHANGED <<chanVars, output_started, log, head, output_pool, inflight, pos, togo>>

(* Mutant: the final test reads the flag before the queue. *)
DrainedAtMutant(l) == IF l = "fr_queue" THEN ~output_started ELSE QueueEmpty

(* The final test: the queue is read first, then the flag. *)
DrainedAt(l) == IF l = "fr_queue" THEN QueueEmpty ELSE ~output_started

FlushRecheck ==
  /\ pc[Main] = "fr_queue"
  /\ DrainedAt("fr_queue")
  /\ Goto(Main, "fr_started")
  /\ UNCHANGED <<chanVars, output_started, log, head, output_pool, inflight, pos, togo>>

FlushReturn(r) ==
  /\ pc[Main] \in {"fr_queue", "fr_started"}
  /\ result' = r
  /\ Goto(Main, "idle")
  /\ UNCHANGED <<link, initialised, output_started, log, head, output_pool,
                 inflight, last_sent, pos, togo>>

FlushSucceeds == pc[Main] = "fr_started" /\ DrainedAt("fr_started") /\ FlushReturn("success")
FlushFails == ~DrainedAt(pc[Main]) /\ FlushReturn("timeout")

Flush == FlushBegin \/ FlushKick \/ FlushTimeout \/ FlushSeesEmpty
         \/ FlushSeesIdle \/ FlushRecheck \/ FlushSucceeds \/ FlushFails

------------------------------------------------------------------------------
(* The connection, as far as the output path sees it. *)

(* on_connected: the channel is initialised before it is configured. *)
OnConnected ==
  /\ pc[Main] = "idle"
  /\ link = "down"
  /\ link' = "configuring"
  /\ initialised' = TRUE
  /\ UNCHANGED <<output_started, log, head, output_pool, inflight, last_sent,
                 pos, togo, result, pc>>

(* The last control transfer of the configuration completes: its callback *)
(* runs on the USB task, between other callbacks.                         *)
ConfigCallback ==
  /\ pc[Usb] = "idle"
  /\ link = "configuring"
  /\ link' = "configured"
  /\ UNCHANGED <<initialised, output_started, log, head, output_pool, inflight,
                 last_sent, pos, togo, result, pc>>

(* run_config_machine_ ends the configuration of the channel. *)
ConfigDone ==
  /\ pc[Main] = "idle"
  /\ link = "configured"
  /\ link' = "up"
  /\ output_started' = FALSE
  /\ UNCHANGED <<initialised, log, head, output_pool, inflight, last_sent, pos,
                 togo, result, pc>>

(* ... or aborts it, when a control transfer fails or is not accepted. *)
ConfigAborts ==
  /\ pc[Main] = "idle"
  /\ link \in {"configuring", "configured"}
  /\ link' = "failed"
  /\ initialised' = FALSE
  /\ UNCHANGED <<output_started, log, head, output_pool, inflight, last_sent,
                 pos, togo, result, pc>>

(* on_disconnected: the flag is reset, then the queue drained.  The USB    *)
(* task may still be in a callback, or have one to come.                   *)
OnDisconnected ==
  /\ pc[Main] = "idle"
  /\ link' = "down"
  /\ output_started' = TRUE
  /\ Goto(Main, "dr_pop")
  /\ torn' = (torn \/ inflight # {} \/ pc[Usb] # "idle")
  /\ UNCHANGED <<initialised, log, head, output_pool, inflight, last_sent, pos,
                 togo, result>>

DrainPop ==
  /\ pc[Main] = "dr_pop"
  /\ ~QueueEmpty
  /\ pos' = [pos EXCEPT ![Main] = head + 1]
  /\ Goto(Main, "dr_advance")
  /\ UNCHANGED <<chanVars, output_started, log, head, output_pool, inflight, togo>>

DrainAdvance ==
  /\ pc[Main] = "dr_advance"
  /\ head' = pos[Main]
  /\ output_pool' = output_pool \cup {log[pos[Main]]}
  /\ Goto(Main, "dr_pop")
  /\ UNCHANGED <<chanVars, output_started, log, inflight, pos, togo>>

DrainEnd ==
  /\ pc[Main] = "dr_pop"
  /\ QueueEmpty
  /\ initialised' = FALSE
  /\ Goto(Main, "idle")
  /\ UNCHANGED <<link, output_started, log, head, output_pool, inflight,
                 last_sent, pos, togo, result>>

Drain == DrainPop \/ DrainAdvance \/ DrainEnd

------------------------------------------------------------------------------
(* What happens between two disconnections. *)
SessionNext ==
  \/ \E n \in Packets : WriteArray(n)
  \/ \E c \in Chunks : WriteChunk(c)
  \/ WriteEnd
  \/ \E t \in Threads : StartOutput(t)
  \/ \E i \in inflight, ok \in BOOLEAN : CallbackBegin(i, ok)
  \/ CallbackStore
  \/ Flush
  \/ OnConnected \/ ConfigCallback \/ ConfigDone \/ ConfigAborts
  \/ Drain

Next == (SessionNext /\ UNCHANGED torn) \/ OnDisconnected

Spec == Init /\ [][Next]_vars

(* Both threads keep running what they have begun, the host stack          *)
(* completes every transfer, and a begun configuration ends.  Whether      *)
(* anyone writes or flushes is up to the application, and the timeout of   *)
(* flush() is not relied upon.                                             *)
Fairness ==
  /\ \A t \in Threads : WF_pathVars(StartOutput(t))
  /\ WF_pathVars(\E c \in Chunks : WriteChunk(c))
  /\ WF_pathVars(WriteEnd)
  /\ WF_pathVars(\E i \in inflight, ok \in BOOLEAN : CallbackBegin(i, ok))
  /\ WF_pathVars(CallbackStore)
  /\ WF_pathVars(FlushKick \/ FlushSeesEmpty \/ FlushSeesIdle \/ FlushRecheck
             \/ FlushSucceeds \/ FlushFails)
  /\ WF_pathVars(ConfigCallback) /\ WF_pathVars(ConfigDone)
  /\ WF_pathVars(Drain)

FairSpec == Spec /\ Fairness

------------------------------------------------------------------------------
(* A thread is inside the section output_started_ guards ... *)
InSection(t) == pc[t] \in {"so_pop", "so_advance", "so_submit", "so_release"}
                \/ pc[t] = "cb_store"

(* ... or holds a packet it took out of the queue. *)
Holds(t) == pc[t] = "so_submit"

(* The claim is exclusive, usb_uart.cpp:352-353: the flag "is claimed via  *)
(* compare_exchange to guarantee that only one thread starts a transfer at *)
(* a time".  Never two threads in the section, never one in it while a     *)
(* transfer is in flight, never two transfers in flight: over reconnections *)
(* too, until a disconnection resets the flag under the USB task.          *)
OneClaim ==
  /\ ~(InSection(Main) /\ InSection(Usb))
  /\ \A t \in Threads : InSection(t) => inflight = {}
  /\ \A i, j \in inflight : i = j
ExclusiveClaim == ~torn => OneClaim

(* The flag is never left set with nobody to clear it: on a configured     *)
(* channel, a set flag means a thread that will clear it or a transfer     *)
(* whose callback will.  Otherwise output would stop for good.             *)
ClaimHasOwner ==
  link = "up" /\ output_started => inflight # {} \/ \E t \in Threads : InSection(t)

(* Every chunk of the pool is in exactly one place: free, in the queue, in *)
(* the hands of a thread, or in flight.  Neither a leak, which shrinks the *)
(* pool for good, nor a chunk reused while its data is still needed.  A     *)
(* drain that overlaps the USB task may break this; any other does not.    *)
Live == (head + 1 .. Len(log)) \cup inflight \cup {pos[t] : t \in {u \in Threads : Holds(u)}}
EachChunkOnce ==
  /\ \A i, j \in Live : log[i] = log[j] => i = j
  /\ output_pool = Chunks \ {log[i] : i \in Live}
ChunksConserved == ~torn => EachChunkOnce

(* A SUCCESS of flush() means what usb_uart.cpp:174 says: the queue is     *)
(* drained and the last transfer complete, whatever the USB task did       *)
(* between the reads of the queue and of the flag.                         *)
FlushSuccessDrained ==
  [][FlushReturn("success") /\ ~torn =>
       QueueEmpty /\ inflight = {} /\ ~Holds(Usb)]_vars

(* The output path is an in-order stream that transmits a packet at most   *)
(* once and one packet at a time, and forgets on a disconnection what has  *)
(* not been taken.                                                         *)
accepted == Len(log)
busy == inflight # {} \/ \E t \in Threads : Holds(t)

Stream == INSTANCE PacketStream WITH
  accepted <- accepted, taken <- head, sent <- last_sent, busy <- busy

InOrderStream ==
  Stream!Init /\ [][Stream!Next \/ torn']_<<accepted, head, busy, last_sent>>

(* A flush() on a configured channel comes to an end without its timeout:  *)
(* everything written goes out or fails, in every session.                 *)
FlushCompletes == (link = "up" /\ result = "spinning") ~> (pc[Main] = "idle")

------------------------------------------------------------------------------
(* What the code does not guarantee, although it says so: TLC refutes the  *)
(* properties from here on (see README.md for how each of them fails).     *)

(* What usb_host_client.cpp:517 says of output, that write_array() and     *)
(* loop() trigger it: on a configured channel whatever is queued is taken. *)
QueuedIsSent == (link = "up" /\ ~QueueEmpty) ~> QueueEmpty

(* usb_uart.cpp:351: output_queue_ "is a lock-free SPSC queue".  At most   *)
(* one thread is in pop() at a time.                                       *)
Popping(t) == pc[t] \in {"so_pop", "so_advance", "dr_pop", "dr_advance"}
SingleConsumer == ~(Popping(Main) /\ Popping(Usb))

(* usb_uart.cpp:478: the flag is reset on disconnection "to avoid the      *)
(* possibility of spurious restarts".  Until the channel is configured     *)
(* again the flag stays set, so that nothing starts.                       *)
NoSpuriousRestart == link # "up" => output_started
==============================================================================
