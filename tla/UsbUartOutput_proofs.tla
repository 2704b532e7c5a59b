-------------------------- MODULE UsbUartOutput_proofs --------------------------
(***************************************************************************)
(* For every pool of chunks, any number of packets and of reconnections,   *)
(* until a disconnection overlaps the USB task: output_started_ excludes   *)
(* the two threads from each other, a successful flush() means everything  *)
(* is out, and the two threads together are the stream of PacketStream.    *)
(***************************************************************************)
EXTENDS UsbUartOutput, TLAPS

(* The flag is set whenever somebody relies on it, and while the channel   *)
(* is not configured it is set and nobody does.                            *)
FlagInv ==
  /\ \A t \in Threads : InSection(t) => output_started
  /\ inflight # {} => output_started
  /\ link # "up" => /\ output_started /\ inflight = {}
                    /\ \A t \in Threads : ~InSection(t)

(* What is popped is always the packet after the last one taken. *)
PosInv ==
  /\ \A t \in Threads : pc[t] \in {"so_advance", "dr_advance"} =>
                          pos[t] = head + 1 /\ head < Len(log)
  /\ \A t \in Threads : pc[t] = "so_submit" => pos[t] = head /\ head > 0
  /\ \A i \in inflight : i = head /\ head > 0

(* Only the main loop pushes, so a queue flush() found empty stays empty. *)
FlushInv == pc[Main] \in {"fl_started", "fr_started"} => QueueEmpty

DrainInv == pc[Main] \in DrainLabels => link = "down"

(* A packet in hand has a number, and write_array stays within the bound. *)
TakenInv == \A t \in Threads :
              pc[t] \in {"so_advance", "so_submit", "dr_advance"} => pos[t] > 0
RoomInv == pc[Main] = "write" => togo <= MaxPackets - Len(log)

(* What holds whatever a disconnection has overlapped ... *)
BaseInv == TypeOK /\ TakenInv /\ RoomInv

(* ... and what holds as long as none has overlapped the USB task. *)
OrderlyInv == OneClaim /\ FlagInv /\ PosInv /\ FlushInv /\ DrainInv

SessionInv == BaseInv /\ (~torn => OrderlyInv)

(* The invariant of a session holds at first. *)
LEMMA SessionInvInit == Init => SessionInv
<1> SUFFICES ASSUME Init  PROVE SessionInv
  OBVIOUS
<1>1. log = <<>> /\ Len(log) = 0 /\ log \in Seq(Chunks)
  BY DEF Init
<1>2. pc = [t \in Threads |-> "idle"] /\ pc[Main] = "idle" /\ pc[Usb] = "idle"
  BY DEF Init, Threads, Main, Usb
<1>3. TypeOK
  <2>1. pc \in [Threads -> MainLabels \cup UsbLabels]
        /\ pc[Main] \in MainLabels /\ pc[Usb] \in UsbLabels
    BY <1>2 DEF MainLabels, UsbLabels
  <2>2. Len(log) <= MaxPackets /\ head \in 0 .. Len(log) /\ togo \in 0 .. MaxPackets
    BY <1>1, MaxPacketsAssumption DEF Init
  <2>3. pos \in [Threads -> 0 .. Len(log)] /\ last_sent \in 0 .. Len(log)
    BY <1>1 DEF Init
  <2> QED  BY <1>1, <2>1, <2>2, <2>3 DEF Init, TypeOK, Links
<1>4. OrderlyInv /\ TakenInv /\ RoomInv
  BY <1>1, <1>2
  DEF Init, OrderlyInv, OneClaim, FlagInv, PosInv, FlushInv, DrainInv, TakenInv,
      RoomInv, InSection, DrainLabels, Threads, Main, Usb
<1> QED  BY <1>3, <1>4 DEF SessionInv, BaseInv

(* Types and bounds, whoever is in the way of whom. *)
LEMMA BaseInvStep == BaseInv /\ SessionNext /\ UNCHANGED torn => BaseInv'
<1> USE MaxPacketsAssumption
<1> SUFFICES ASSUME BaseInv, SessionNext, UNCHANGED torn
             PROVE  BaseInv'
  OBVIOUS
<1> USE DEF BaseInv, TypeOK, TakenInv, RoomInv, Links, MainLabels, UsbLabels, StartLabels, FlushLabels,
            DrainLabels, Threads, Main, Usb, QueueEmpty, chanVars, Goto, Return
<1>1. ASSUME NEW n \in Packets, WriteArray(n)  PROVE BaseInv'
  BY <1>1 DEF WriteArray, Packets
<1>2. ASSUME NEW c \in Chunks, WriteChunk(c)  PROVE BaseInv'
  BY <1>2 DEF WriteChunk, PushChunk
<1>3. CASE WriteEnd
  BY <1>3 DEF WriteEnd
<1>4. ASSUME NEW t \in Threads, StartOutput(t)  PROVE BaseInv'
  <2>1. CASE StartClaim(t)
    BY <2>1 DEF StartClaim, Claim
  <2>2. CASE StartBusy(t)
    BY <2>2 DEF StartBusy
  <2>3. CASE StartNothing(t)
    BY <2>3 DEF StartNothing
  <2>4. CASE StartPop(t)
    BY <2>4 DEF StartPop
  <2>5. CASE StartAdvance(t)
    BY <2>5 DEF StartAdvance
  <2>6. CASE StartSubmit(t)
    <3>1. pos[t] \in 1 .. Len(log)
      BY <2>6 DEF StartSubmit
    <3>2. inflight' \in SUBSET (1 .. Len(log'))
      BY <2>6, <3>1 DEF StartSubmit
    <3>3. TypeOK'
      BY <2>6, <3>2 DEF StartSubmit
    <3>4. TakenInv' /\ RoomInv'
      BY <2>6 DEF StartSubmit
    <3> QED  BY <3>3, <3>4
  <2>7. CASE StartSubmitFails(t)
    BY <2>7 DEF StartSubmitFails
  <2>8. CASE StartRelease(t)
    <3>1. TypeOK'
      BY <2>8, ZenonT(60) DEF StartRelease
    <3>2. TakenInv' /\ RoomInv'
      BY <2>8 DEF StartRelease
    <3> QED  BY <3>1, <3>2
  <2> QED
    BY <1>4, <2>1, <2>2, <2>3, <2>4, <2>5, <2>6, <2>7, <2>8 DEF StartOutput
<1>5. ASSUME NEW i \in inflight, NEW ok \in BOOLEAN, CallbackBegin(i, ok)
      PROVE  BaseInv'
  <2>1. i \in 1 .. Len(log) /\ log[i] \in Chunks
    OBVIOUS
  <2>2. last_sent' \in 0 .. Len(log') /\ output_pool' \in SUBSET Chunks
    BY <1>5, <2>1 DEF CallbackBegin
  <2>3. TypeOK'
    BY <1>5, <2>2 DEF CallbackBegin
  <2>4. TakenInv' /\ RoomInv'
    BY <1>5 DEF CallbackBegin
  <2> QED  BY <2>3, <2>4
<1>6. CASE CallbackStore
  <2>1. TypeOK'
    BY <1>6 DEF CallbackStore
  <2>2. TakenInv' /\ RoomInv'
    BY <1>6 DEF CallbackStore
  <2> QED  BY <2>1, <2>2
<1>7. CASE Flush
  <2>1. CASE FlushBegin
    BY <2>1 DEF FlushBegin
  <2>2. CASE FlushKick
    BY <2>2 DEF FlushKick
  <2>3. CASE FlushTimeout
    BY <2>3 DEF FlushTimeout
  <2>4. CASE FlushSeesEmpty
    BY <2>4 DEF FlushSeesEmpty
  <2>5. CASE FlushSeesIdle
    BY <2>5 DEF FlushSeesIdle
  <2>6. CASE FlushRecheck
    BY <2>6 DEF FlushRecheck, DrainedAt
  <2>7. CASE FlushSucceeds
    BY <2>7 DEF FlushSucceeds, FlushReturn
  <2>8. CASE FlushFails
    BY <2>8 DEF FlushFails, FlushReturn
  <2> QED
    BY <1>7, <2>1, <2>2, <2>3, <2>4, <2>5, <2>6, <2>7, <2>8 DEF Flush
<1>8. CASE OnConnected
  BY <1>8 DEF OnConnected
<1>9. CASE ConfigCallback
  BY <1>9 DEF ConfigCallback
<1>10. CASE ConfigDone
  BY <1>10 DEF ConfigDone
<1>11. CASE ConfigAborts
  BY <1>11 DEF ConfigAborts
<1>12. CASE Drain
  <2>1. CASE DrainPop
    BY <2>1 DEF DrainPop
  <2>2. CASE DrainAdvance
    BY <2>2 DEF DrainAdvance
  <2>3. CASE DrainEnd
    BY <2>3, ZenonT(60) DEF DrainEnd
  <2> QED  BY <1>12, <2>1, <2>2, <2>3 DEF Drain
<1> QED
  BY <1>1, <1>2, <1>3, <1>4, <1>5, <1>6, <1>7, <1>8, <1>9, <1>10, <1>11, <1>12
  DEF SessionNext

(* Between two disconnections the threads respect each other. *)
LEMMA OrderlyInvStep == BaseInv /\ OrderlyInv /\ SessionNext => OrderlyInv'
<1> USE MaxPacketsAssumption
<1> SUFFICES ASSUME BaseInv, OrderlyInv, SessionNext
             PROVE  OrderlyInv'
  OBVIOUS
<1> USE DEF BaseInv, TypeOK, OrderlyInv, OneClaim, FlagInv, PosInv, FlushInv,
            DrainInv, InSection, Links, MainLabels, UsbLabels, StartLabels, FlushLabels,
            DrainLabels, Threads, Main, Usb, QueueEmpty, chanVars, Goto, Return
<1>1. ASSUME NEW n \in Packets, WriteArray(n)  PROVE OrderlyInv'
  BY <1>1 DEF WriteArray, Packets
<1>2. ASSUME NEW c \in Chunks, WriteChunk(c)  PROVE OrderlyInv'
  BY <1>2 DEF WriteChunk, PushChunk
<1>3. CASE WriteEnd
  BY <1>3 DEF WriteEnd
<1>4. ASSUME NEW t \in Threads, StartOutput(t)  PROVE OrderlyInv'
  <2>1. CASE StartClaim(t)
    BY <2>1 DEF StartClaim, Claim
  <2>2. CASE StartBusy(t)
    BY <2>2 DEF StartBusy
  <2>3. CASE StartNothing(t)
    BY <2>3 DEF StartNothing
  <2>4. CASE StartPop(t)
    BY <2>4 DEF StartPop
  <2>5. CASE StartAdvance(t)
    BY <2>5 DEF StartAdvance
  <2>6. CASE StartSubmit(t)
    BY <2>6 DEF StartSubmit
  <2>7. CASE StartSubmitFails(t)
    BY <2>7 DEF StartSubmitFails
  <2>8. CASE StartRelease(t)
    BY <2>8 DEF StartRelease
  <2> QED
    BY <1>4, <2>1, <2>2, <2>3, <2>4, <2>5, <2>6, <2>7, <2>8 DEF StartOutput
<1>5. ASSUME NEW i \in inflight, NEW ok \in BOOLEAN, CallbackBegin(i, ok)
      PROVE  OrderlyInv'
  <2>1. inflight' = {} /\ output_started /\ ~InSection(Main) /\ link = "up"
    BY <1>5 DEF CallbackBegin
  <2>2. UNCHANGED <<link, output_started, log, head, pos, togo>>
        /\ pc' = [pc EXCEPT ![Usb] = "cb_store"]
    BY <1>5 DEF CallbackBegin
  <2>3. pc'[Main] = pc[Main] /\ pc'[Usb] = "cb_store"
    BY <2>2
  <2>4. OneClaim' /\ FlagInv'
    BY <2>1, <2>2, <2>3
  <2>5. PosInv'
    BY <2>1, <2>2, <2>3
  <2> QED  BY <2>2, <2>3, <2>4, <2>5
<1>6. CASE CallbackStore
  BY <1>6 DEF CallbackStore
<1>7. CASE Flush
  <2>1. CASE FlushBegin
    BY <2>1 DEF FlushBegin
  <2>2. CASE FlushKick
    BY <2>2 DEF FlushKick
  <2>3. CASE FlushTimeout
    BY <2>3 DEF FlushTimeout
  <2>4. CASE FlushSeesEmpty
    BY <2>4 DEF FlushSeesEmpty
  <2>5. CASE FlushSeesIdle
    BY <2>5 DEF FlushSeesIdle
  <2>6. CASE FlushRecheck
    BY <2>6 DEF FlushRecheck, DrainedAt
  <2>7. CASE FlushSucceeds
    BY <2>7 DEF FlushSucceeds, FlushReturn
  <2>8. CASE FlushFails
    BY <2>8 DEF FlushFails, FlushReturn
  <2> QED
    BY <1>7, <2>1, <2>2, <2>3, <2>4, <2>5, <2>6, <2>7, <2>8 DEF Flush
<1>8. CASE OnConnected
  BY <1>8 DEF OnConnected
<1>9. CASE ConfigCallback
  BY <1>9 DEF ConfigCallback
<1>10. CASE ConfigDone
  BY <1>10 DEF ConfigDone
<1>11. CASE ConfigAborts
  BY <1>11 DEF ConfigAborts
<1>12. CASE Drain
  <2>1. CASE DrainPop
    BY <2>1 DEF DrainPop
  <2>2. CASE DrainAdvance
    BY <2>2 DEF DrainAdvance
  <2>3. CASE DrainEnd
    BY <2>3 DEF DrainEnd
  <2> QED  BY <1>12, <2>1, <2>2, <2>3 DEF Drain
<1> QED
  BY <1>1, <1>2, <1>3, <1>4, <1>5, <1>6, <1>7, <1>8, <1>9, <1>10, <1>11, <1>12
  DEF SessionNext

(* A disconnection that finds the USB task done disturbs nothing. *)
LEMMA DisconnectStep ==
  SessionInv /\ OnDisconnected => BaseInv' /\ (~torn' => OrderlyInv')
<1> SUFFICES ASSUME SessionInv, OnDisconnected
             PROVE  BaseInv' /\ (~torn' => OrderlyInv')
  OBVIOUS
<1> USE DEF SessionInv, BaseInv, TypeOK, TakenInv, RoomInv, OnDisconnected, Goto, Links,
            MainLabels, UsbLabels, DrainLabels, Threads, Main, Usb
<1>1. BaseInv'
  OBVIOUS
<1>2. ASSUME ~torn'  PROVE OrderlyInv'
  BY <1>2 DEF OrderlyInv, OneClaim, FlagInv, PosInv, FlushInv, DrainInv, InSection
<1> QED  BY <1>1, <1>2

(* The invariant of a session holds until one is torn (start_output, its   *)
(* callback, flush() and on_disconnected of usb_uart.cpp).                 *)
THEOREM SessionInvariance == Spec => []SessionInv
<1>1. SessionInv /\ [Next]_vars => SessionInv'
  <2> SUFFICES ASSUME SessionInv, [Next]_vars  PROVE SessionInv'
    OBVIOUS
  <2>1. CASE UNCHANGED vars
    BY <2>1
    DEF vars, pathVars, chanVars, SessionInv, BaseInv, TypeOK, TakenInv, RoomInv,
        OrderlyInv, OneClaim, FlagInv, PosInv, FlushInv, DrainInv, InSection, QueueEmpty
  <2>2. CASE SessionNext /\ UNCHANGED torn
    BY <2>2, BaseInvStep, OrderlyInvStep DEF SessionInv
  <2>3. CASE OnDisconnected
    BY <2>3, DisconnectStep DEF SessionInv
  <2> QED  BY <2>1, <2>2, <2>3 DEF Next
<1> QED  BY <1>1, SessionInvInit, PTL DEF Spec

(* Every variable keeps its type, over any number of reconnections. *)
THEOREM TypeCorrect == Spec => []TypeOK
BY SessionInvariance, PTL DEF SessionInv, BaseInv

(* output_started_ keeps the two threads apart: one starts a transfer at a *)
(* time, and none while one is in flight.                                  *)
THEOREM Exclusive == Spec => []ExclusiveClaim
<1>1. SessionInv => ExclusiveClaim
  BY DEF SessionInv, OrderlyInv, ExclusiveClaim
<1> QED  BY <1>1, SessionInvariance, PTL

------------------------------------------------------------------------------
(* SUCCESS of flush() means that nothing is left anywhere: the queue was   *)
(* empty when first read and stays so, and then the flag was clear.        *)
THEOREM FlushIsHonest == Spec => FlushSuccessDrained
<1>1. SessionInv /\ [Next]_vars =>
        [FlushReturn("success") /\ ~torn =>
           QueueEmpty /\ inflight = {} /\ ~Holds(Usb)]_vars
  <2> SUFFICES ASSUME SessionInv, [Next]_vars, FlushReturn("success"), ~torn
               PROVE  (QueueEmpty /\ inflight = {} /\ ~Holds(Usb)) \/ UNCHANGED vars
    OBVIOUS
  <2> USE DEF SessionInv, BaseInv
  <2>1. pc[Main] \in {"fr_queue", "fr_started"} /\ pc'[Main] = "idle"
        /\ result' = "success"
    BY DEF FlushReturn, Goto, SessionInv, TypeOK, Threads, Main
  <2>2. FlushSucceeds \/ UNCHANGED vars
    BY <2>1
    DEF Next, SessionNext, OnDisconnected, Drain, DrainPop, DrainAdvance, DrainEnd, chanVars, SessionInv, TypeOK, Threads, Main, Usb, Goto,
        Return, WriteArray, WriteChunk, WriteEnd, StartOutput, StartClaim, Claim,
        StartBusy, StartNothing, StartPop, StartAdvance, StartSubmit,
        StartSubmitFails, StartRelease, CallbackBegin, CallbackStore, Flush,
        FlushBegin, FlushKick, FlushTimeout, FlushSeesEmpty, FlushSeesIdle,
        FlushRecheck, FlushSucceeds, FlushFails, FlushReturn, OnConnected,
        ConfigCallback, ConfigDone, ConfigAborts
  <2> QED
    BY <2>2
    DEF FlushSucceeds, DrainedAt, OrderlyInv, FlushInv, FlagInv, InSection, Holds,
        Threads, Usb
<1> QED  BY <1>1, SessionInvariance, PTL DEF Spec, FlushSuccessDrained

------------------------------------------------------------------------------
(* Each step is a step of the stream or leaves it alone. *)
LEMMA StepRefines ==
  BaseInv /\ OrderlyInv /\ SessionNext =>
    Stream!Next \/ UNCHANGED <<accepted, head, busy, last_sent>>
<1> SUFFICES ASSUME BaseInv, OrderlyInv, SessionNext
             PROVE  Stream!Next \/ UNCHANGED <<accepted, head, busy, last_sent>>
  OBVIOUS
<1> DEFINE Same == UNCHANGED <<accepted, head, busy, last_sent>>
<1> USE DEF BaseInv, TypeOK, OrderlyInv, OneClaim, PosInv, FlagInv, DrainInv, InSection,
            Threads, Main, Usb, MainLabels, UsbLabels, StartLabels, DrainLabels,
            chanVars, Goto, Return, busy, Holds, accepted
<1>2. ASSUME NEW n \in Packets, WriteArray(n)  PROVE Same
  BY <1>2 DEF WriteArray
<1>3. ASSUME NEW c \in Chunks, WriteChunk(c)  PROVE Stream!Accept
  <2>1. Len(log') = Len(log) + 1
    BY <1>3 DEF WriteChunk, PushChunk
  <2>2. UNCHANGED <<head, last_sent, inflight, pc>>
    BY <1>3 DEF WriteChunk
  <2> QED  BY <2>1, <2>2 DEF Stream!Accept
<1>4. CASE WriteEnd
  BY <1>4 DEF WriteEnd
<1>5. ASSUME NEW t \in Threads, StartOutput(t)  PROVE Stream!Next \/ Same
  <2>1. CASE StartClaim(t)
    BY <2>1 DEF StartClaim, Claim
  <2>2. CASE StartBusy(t)
    BY <2>2 DEF StartBusy
  <2>3. CASE StartNothing(t)
    BY <2>3 DEF StartNothing
  <2>4. CASE StartPop(t)
    BY <2>4 DEF StartPop
  <2>5. CASE StartAdvance(t)
    <3>1. ~busy /\ busy' /\ head < Len(log) /\ head' = head + 1
      BY <2>5 DEF StartAdvance
    <3>2. UNCHANGED <<log, last_sent>>
      BY <2>5 DEF StartAdvance
    <3> QED  BY <3>1, <3>2 DEF Stream!Next, Stream!Take
  <2>6. CASE StartSubmit(t)
    <3>1. busy /\ busy' /\ UNCHANGED <<log, head, last_sent>>
      BY <2>6 DEF StartSubmit
    <3> QED  BY <3>1
  <2>7. CASE StartSubmitFails(t)
    <3>1. busy /\ ~busy' /\ UNCHANGED <<log, head, last_sent>>
      BY <2>7 DEF StartSubmitFails
    <3> QED  BY <3>1 DEF Stream!Next, Stream!Drop
  <2>8. CASE StartRelease(t)
    BY <2>8 DEF StartRelease
  <2> QED
    BY <1>5, <2>1, <2>2, <2>3, <2>4, <2>5, <2>6, <2>7, <2>8 DEF StartOutput
<1>6. ASSUME NEW i \in inflight, NEW ok \in BOOLEAN, CallbackBegin(i, ok)
      PROVE  Stream!Next
  <2>1. busy /\ i = head /\ inflight' = {} /\ ~Holds(Main)
    BY <1>6 DEF CallbackBegin
  <2>2. pc' = [pc EXCEPT ![Usb] = "cb_store"] /\ UNCHANGED <<log, head>>
    BY <1>6 DEF CallbackBegin
  <2>3. ~busy'
    BY <2>1, <2>2
  <2>4. last_sent' = head \/ last_sent' = last_sent
    BY <1>6, <2>1 DEF CallbackBegin
  <2> QED  BY <2>1, <2>2, <2>3, <2>4 DEF Stream!Next, Stream!Deliver, Stream!Drop
<1>7. CASE CallbackStore
  BY <1>7 DEF CallbackStore
<1>8. CASE Flush
  BY <1>8 DEF Flush, FlushBegin, FlushKick, FlushTimeout, FlushSeesEmpty,
    FlushSeesIdle, FlushRecheck, FlushSucceeds, FlushFails, FlushReturn
<1>9. CASE OnConnected \/ ConfigCallback \/ ConfigDone \/ ConfigAborts
  BY <1>9 DEF OnConnected, ConfigCallback, ConfigDone, ConfigAborts
<1>10. CASE Drain
  <2>1. CASE DrainPop \/ DrainEnd
    <3>1. Same
      BY <2>1 DEF DrainPop, DrainEnd
    <3> QED  BY <3>1
  <2>2. CASE DrainAdvance
    <3>1. ~busy /\ ~busy' /\ head < Len(log) /\ head' = head + 1
      BY <2>2 DEF DrainAdvance
    <3>2. UNCHANGED <<log, last_sent>>
      BY <2>2 DEF DrainAdvance
    <3> QED  BY <3>1, <3>2 DEF Stream!Next, Stream!Forget
  <2> QED  BY <1>10, <2>1, <2>2 DEF Drain
<1> QED
  BY <1>2, <1>3, <1>4, <1>5, <1>6, <1>7, <1>8, <1>9, <1>10 DEF SessionNext, Stream!Next

(* The two threads and the host stack together are the stream: packets go  *)
(* out in the order written, one at a time, and at most once.              *)
THEOREM Refinement == Spec => InOrderStream
<1>1. Init => Stream!Init
  BY DEF Init, Stream!Init, Holds, Threads, accepted, busy
<1>2. SessionInv /\ [Next]_vars =>
        [Stream!Next \/ torn']_<<accepted, head, busy, last_sent>>
  <2> SUFFICES ASSUME SessionInv, [Next]_vars, ~torn'
               PROVE  Stream!Next \/ UNCHANGED <<accepted, head, busy, last_sent>>
    OBVIOUS
  <2>1. CASE UNCHANGED vars
    BY <2>1 DEF vars, pathVars, chanVars, accepted, busy, Holds
  <2>2. CASE SessionNext /\ UNCHANGED torn
    BY <2>2, StepRefines DEF SessionInv
  <2>3. CASE OnDisconnected
    BY <2>3
    DEF OnDisconnected, accepted, busy, Holds, Goto, SessionInv, BaseInv, TypeOK,
        Threads, Main, Usb
  <2> QED  BY <2>1, <2>2, <2>3 DEF Next
<1> QED  BY <1>1, <1>2, SessionInvariance, PTL DEF Spec, InOrderStream

------------------------------------------------------------------------------
(* How a step may change the packets whose chunk is in use. *)
LEMMA LiveKept ==
  ASSUME EachChunkOnce, Live' = Live, UNCHANGED <<log, output_pool>>
  PROVE  EachChunkOnce'
BY DEF EachChunkOnce

(* A packet that is over gives its chunk back. *)
LEMMA LiveFreed ==
  ASSUME EachChunkOnce, UNCHANGED log,
         NEW i \in Live, log[i] \in Chunks, Live' = Live \ {i},
         output_pool' = output_pool \cup {log[i]}
  PROVE  EachChunkOnce'
<1>1. \A j \in Live \ {i} : log[j] # log[i]
  BY DEF EachChunkOnce
<1>2. output_pool' = Chunks \ {log[j] : j \in Live \ {i}}
  BY <1>1 DEF EachChunkOnce
<1> QED  BY <1>2 DEF EachChunkOnce

(* A new packet takes its chunk out of the pool. *)
LEMMA LiveAdded ==
  ASSUME EachChunkOnce, NEW c \in output_pool, NEW n, n \notin Live,
         Live' = Live \cup {n}, log'[n] = c, \A i \in Live : log'[i] = log[i],
         output_pool' = output_pool \ {c}
  PROVE  EachChunkOnce'
<1>1. \A i \in Live : log[i] # c
  BY DEF EachChunkOnce
<1>2. {log'[i] : i \in Live'} = {log[i] : i \in Live} \cup {c}
  OBVIOUS
<1>3. \A i, j \in Live' : log'[i] = log'[j] => i = j
  BY <1>1 DEF EachChunkOnce
<1> QED  BY <1>2, <1>3 DEF EachChunkOnce

(* No step loses or doubles a chunk. *)
LEMMA ConservedStep ==
  BaseInv /\ OrderlyInv /\ EachChunkOnce /\ SessionNext => EachChunkOnce'
<1> SUFFICES ASSUME BaseInv, OrderlyInv, EachChunkOnce, SessionNext
             PROVE  EachChunkOnce'
  OBVIOUS
<1> DEFINE Kept == Live' = Live /\ UNCHANGED <<log, output_pool>>
<1> USE DEF BaseInv, TypeOK, OrderlyInv, OneClaim, PosInv, FlagInv, DrainInv, InSection,
            Threads, Main, Usb, MainLabels, UsbLabels, StartLabels, DrainLabels,
            chanVars, Goto, Return, Holds, Live
<1>2. ASSUME NEW n \in Packets, WriteArray(n)  PROVE EachChunkOnce'
  <2>1. Kept
    BY <1>2 DEF WriteArray
  <2> QED  BY <2>1, LiveKept
<1>3. ASSUME NEW c \in Chunks, WriteChunk(c)  PROVE EachChunkOnce'
  <2> DEFINE n == Len(log) + 1
  <2>1. c \in output_pool /\ output_pool' = output_pool \ {c} /\ log' = Append(log, c)
    BY <1>3 DEF WriteChunk, PushChunk
  <2>2. Len(log') = n /\ log'[n] = c /\ \A i \in 1 .. Len(log) : log'[i] = log[i]
    BY <2>1
  <2>3. UNCHANGED <<head, inflight, pos, pc>>
    BY <1>3 DEF WriteChunk
  <2>4. Live \subseteq 1 .. Len(log) /\ n \notin Live
    <3>1. head + 1 .. Len(log) \subseteq 1 .. Len(log) /\ inflight \subseteq 1 .. Len(log)
      OBVIOUS
    <3>2. \A t \in Threads : Holds(t) => pos[t] \in 1 .. Len(log)
      OBVIOUS
    <3>3. {pos[t] : t \in {u \in Threads : Holds(u)}} \subseteq 1 .. Len(log)
      BY <3>2
    <3>4. Live \subseteq 1 .. Len(log)
      BY <3>1, <3>3
    <3>5. n \notin 1 .. Len(log)
      OBVIOUS
    <3> QED  BY <3>4, <3>5
  <2>5. Live' = Live \cup {n}
    BY <2>2, <2>3
  <2> HIDE DEF n, Live
  <2> QED  BY <2>1, <2>2, <2>4, <2>5, LiveAdded
<1>4. CASE WriteEnd
  <2>1. Kept
    BY <1>4 DEF WriteEnd
  <2> QED  BY <2>1, LiveKept
<1>5. ASSUME NEW t \in Threads, StartOutput(t)  PROVE EachChunkOnce'
  <2>1. CASE StartClaim(t) \/ StartBusy(t) \/ StartNothing(t) \/ StartRelease(t)
    <3>1. Kept
      BY <2>1 DEF StartClaim, Claim, StartBusy, StartNothing, StartRelease
    <3> QED  BY <3>1, LiveKept
  <2>2. CASE StartPop(t)
    <3>1. Kept
      BY <2>2 DEF StartPop
    <3> QED  BY <3>1, LiveKept
  <2>3. CASE StartAdvance(t)
    <3>1. Kept
      BY <2>3 DEF StartAdvance
    <3> QED  BY <3>1, LiveKept
  <2>4. CASE StartSubmit(t)
    <3>1. Kept
      BY <2>4 DEF StartSubmit
    <3> QED  BY <3>1, LiveKept
  <2>5. CASE StartSubmitFails(t)
    <3>1. pos[t] \in Live /\ log[pos[t]] \in Chunks
      BY <2>5 DEF StartSubmitFails
    <3>2. Live' = Live \ {pos[t]}
      BY <2>5 DEF StartSubmitFails
    <3>3. UNCHANGED log /\ output_pool' = output_pool \cup {log[pos[t]]}
      BY <2>5 DEF StartSubmitFails
    <3> QED  BY <3>1, <3>2, <3>3, LiveFreed
  <2> QED  BY <1>5, <2>1, <2>2, <2>3, <2>4, <2>5 DEF StartOutput
<1>6. ASSUME NEW i \in inflight, NEW ok \in BOOLEAN, CallbackBegin(i, ok)
      PROVE  EachChunkOnce'
  <2>1. i \in Live /\ log[i] \in Chunks
    OBVIOUS
  <2>2. Live' = Live \ {i}
    BY <1>6 DEF CallbackBegin
  <2>3. UNCHANGED log /\ output_pool' = output_pool \cup {log[i]}
    BY <1>6 DEF CallbackBegin
  <2> QED  BY <2>1, <2>2, <2>3, LiveFreed
<1>7. CASE CallbackStore
  <2>1. Kept
    BY <1>7 DEF CallbackStore
  <2> QED  BY <2>1, LiveKept
<1>8. CASE Flush
  <2>1. Kept
    BY <1>8 DEF Flush, FlushBegin, FlushKick, FlushTimeout, FlushSeesEmpty,
      FlushSeesIdle, FlushRecheck, FlushSucceeds, FlushFails, FlushReturn
  <2> QED  BY <2>1, LiveKept
<1>9. CASE OnConnected \/ ConfigCallback \/ ConfigDone \/ ConfigAborts
  <2>1. Kept
    BY <1>9 DEF OnConnected, ConfigCallback, ConfigDone, ConfigAborts
  <2> QED  BY <2>1, LiveKept
<1>10. CASE Drain
  <2>1. CASE DrainPop \/ DrainEnd
    <3>1. Kept
      BY <2>1 DEF DrainPop, DrainEnd
    <3> QED  BY <3>1, LiveKept
  <2>2. CASE DrainAdvance
    <3>1. head' = head + 1 /\ head < Len(log) /\ inflight = {} /\ ~Holds(Usb)
      BY <2>2 DEF DrainAdvance
    <3>2. head + 1 \in Live /\ log[head + 1] \in Chunks
      BY <3>1
    <3>3. Live' = Live \ {head + 1}
      BY <2>2, <3>1 DEF DrainAdvance
    <3>4. UNCHANGED log /\ output_pool' = output_pool \cup {log[head + 1]}
      BY <2>2 DEF DrainAdvance
    <3> QED  BY <3>2, <3>3, <3>4, LiveFreed
  <2> QED  BY <1>10, <2>1, <2>2 DEF Drain
<1> QED
  BY <1>2, <1>3, <1>4, <1>5, <1>6, <1>7, <1>8, <1>9, <1>10 DEF SessionNext

(* No chunk is lost to the pool and none is reused while its data is still *)
(* needed, for any size of the pool.                                       *)
THEOREM Conservation == Spec => []ChunksConserved
<1>1. Init => ChunksConserved
  BY DEF Init, ChunksConserved, EachChunkOnce, Live, Holds, Threads
<1>2. SessionInv /\ ChunksConserved /\ [Next]_vars => ChunksConserved'
  <2> SUFFICES ASSUME SessionInv, ChunksConserved, [Next]_vars, ~torn'
               PROVE  EachChunkOnce'
    BY DEF ChunksConserved
  <2>1. CASE UNCHANGED vars
    <3>1. Live' = Live /\ UNCHANGED <<log, output_pool, torn>>
      BY <2>1 DEF vars, pathVars, chanVars, Live, Holds
    <3> QED  BY <3>1, LiveKept DEF ChunksConserved
  <2>2. CASE SessionNext /\ UNCHANGED torn
    BY <2>2, ConservedStep DEF SessionInv, ChunksConserved
  <2>3. CASE OnDisconnected
    <3>1. Live' = Live /\ UNCHANGED <<log, output_pool>> /\ ~torn
      BY <2>3
      DEF OnDisconnected, Live, Holds, Goto, SessionInv, BaseInv, TypeOK, Threads,
          Main, Usb
    <3> QED  BY <3>1, LiveKept DEF ChunksConserved
  <2> QED  BY <2>1, <2>2, <2>3 DEF Next
<1> QED  BY <1>1, <1>2, SessionInvariance, PTL DEF Spec

------------------------------------------------------------------------------
(* Whatever a disconnection has overlapped, a flag that is set on a        *)
(* configured channel has somebody who will clear it: each step that       *)
(* leaves the section, or ends a transfer, hands the flag on or clears it. *)
LEMMA ClaimHasOwnerStep ==
  BaseInv /\ ClaimHasOwner /\ (SessionNext \/ OnDisconnected) => ClaimHasOwner'
<1> SUFFICES ASSUME BaseInv, ClaimHasOwner, SessionNext \/ OnDisconnected,
                    link' = "up", output_started'
             PROVE  inflight' # {} \/ InSection(Main)' \/ InSection(Usb)'
  BY DEF ClaimHasOwner, Threads
<1> USE DEF BaseInv, TypeOK, Threads, Main, Usb, InSection, Goto, chanVars
<1>1. ClaimHasOwner => (link = "up" /\ output_started =>
                          inflight # {} \/ InSection(Main) \/ InSection(Usb))
  BY DEF ClaimHasOwner
<1>2. ASSUME NEW t \in Threads, StartOutput(t)
      PROVE  inflight' # {} \/ InSection(Main)' \/ InSection(Usb)'
  <2>1. CASE StartClaim(t)
    BY <1>1, <2>1 DEF StartClaim, Claim
  <2>2. CASE StartBusy(t) \/ StartNothing(t) \/ StartPop(t) \/ StartAdvance(t)
    BY <1>1, <2>2 DEF StartBusy, StartNothing, StartPop, StartAdvance, Return
  <2>3. CASE StartSubmit(t)
    BY <2>3 DEF StartSubmit
  <2>4. CASE StartSubmitFails(t) \/ StartRelease(t)
    BY <1>1, <2>4 DEF StartSubmitFails, StartRelease, Return
  <2> QED  BY <1>2, <2>1, <2>2, <2>3, <2>4 DEF StartOutput
<1>3. CASE (\E n \in Packets : WriteArray(n)) \/ (\E c \in Chunks : WriteChunk(c)) \/ WriteEnd
  BY <1>1, <1>3 DEF WriteArray, WriteChunk, PushChunk, WriteEnd
<1>4. CASE (\E i \in inflight, ok \in BOOLEAN : CallbackBegin(i, ok)) \/ CallbackStore
  BY <1>1, <1>4 DEF CallbackBegin, CallbackStore
<1>5. CASE Flush
  BY <1>1, <1>5
  DEF Flush, FlushBegin, FlushKick, FlushTimeout, FlushSeesEmpty, FlushSeesIdle,
      FlushRecheck, FlushSucceeds, FlushFails, FlushReturn
<1>6. CASE OnConnected \/ ConfigCallback \/ ConfigDone \/ ConfigAborts \/ OnDisconnected
  BY <1>1, <1>6 DEF OnConnected, ConfigCallback, ConfigDone, ConfigAborts, OnDisconnected
<1>7. CASE Drain
  BY <1>1, <1>7 DEF Drain, DrainPop, DrainAdvance, DrainEnd
<1> QED  BY <1>2, <1>3, <1>4, <1>5, <1>6, <1>7 DEF SessionNext

(* usb_uart.cpp start_output() and its callback: on a configured channel a *)
(* set output_started_ has a thread or a transfer that will clear it, over *)
(* any number of reconnections; nothing is left waiting for nobody.        *)
THEOREM FlagHasOwner == Spec => []ClaimHasOwner
<1>1. Init => ClaimHasOwner
  BY DEF Init, ClaimHasOwner
<1>2. SessionInv /\ ClaimHasOwner /\ [Next]_vars => ClaimHasOwner'
  <2>1. ClaimHasOwner /\ UNCHANGED vars => ClaimHasOwner'
    BY DEF ClaimHasOwner, InSection, vars, pathVars, chanVars
  <2> QED  BY <2>1, ClaimHasOwnerStep DEF SessionInv, Next
<1> QED  BY <1>1, <1>2, SessionInvariance, PTL DEF Spec
==============================================================================
