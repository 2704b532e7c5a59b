----------------------------- MODULE UsbHost_proofs -----------------------------
(***************************************************************************)
(* The safety of a USBClient (usb_host_client.cpp): its pool of transfer   *)
(* requests and the life of its device.                                    *)
(*                                                                         *)
(* The pool is safe for every MAX_REQUESTS.  Until a disconnection clears  *)
(* the bit of a request in use each request has one owner, and the         *)
(* lock-free allocation implements the atomic SlotAllocator.  After that   *)
(* too, no set bit is without an owner.                                    *)
(*                                                                         *)
(* The client is safe for any set of devices and objects and any size of   *)
(* its queue.  HandleInv relates state_ and the place where loop() is to   *)
(* what is open; QueueInv says that the removal of a device that is open   *)
(* is in the queue only if it has gone.                                    *)
(***************************************************************************)
EXTENDS UsbClient, TransferPool, SequenceTheorems, WellFoundedInduction, TLAPS

(* A bitmask with a zero bit has a lowest one, and it is a zero bit. *)
LEMMA LowestZeroIsFree ==
  ASSUME NEW m \in SUBSET Requests, m # Requests
  PROVE  LowestZero(m) \in Requests \ m
<1> DEFINE Z == Requests \ m
<1>1. Z \subseteq Nat /\ Z # {}
  <2>1. Requests \subseteq Nat
    BY MaxRequestsAssumption DEF Requests
  <2>2. Z # {}
    OBVIOUS
  <2> QED  BY <2>1, <2>2
<1>2. \E r \in Z : \A s \in Z : ~(<<s, r>> \in OpToRel(<, Nat))
  <2> HIDE DEF Z
  <2> QED  BY <1>1, NatLessThanWellFounded, WFMin
<1>3. \E r \in Z : \A s \in Z : r <= s
  <2>1. PICK r \in Z : \A s \in Z : ~(<<s, r>> \in OpToRel(<, Nat))
    BY <1>2
  <2>2. ASSUME NEW s \in Z  PROVE r <= s
    <3>1. s \in Nat /\ r \in Nat
      BY <1>1, <2>1
    <3>2. ~(s < r)
      BY <2>1, <3>1 DEF OpToRel
    <3> QED  BY <3>1, <3>2
  <2> QED  BY <2>1, <2>2
<1> QED  BY <1>3 DEF LowestZero

(* The index that stands for nullptr is no request. *)
LEMMA NoRequestIsNone == NoRequest \notin Requests
BY MaxRequestsAssumption DEF NoRequest, Requests

------------------------------------------------------------------------------
(* Where the threads are decides who may own something: a thread holds a   *)
(* request exactly while it fills it in, and only the USB task completes.  *)
PcInv ==
  /\ \A t \in Threads : at[t] = "claimed" <=> held[t] # NoRequest
  /\ completing = NoRequest <=> at[Usb] = "idle"
  /\ at[Main] \notin {"callback", "returning"}

(* Over disconnections: types, positions, and no set bit without owner. *)
LeakInv == PoolTypeOK /\ PcInv /\ NoSlotLeak

(* The ownership of set bits holds over any number of disconnections       *)
(* (trq_in_use_ of usb_host_client.cpp).                                   *)
THEOREM LeakInvariance == PoolSpec => []LeakInv
<1> USE MaxRequestsAssumption, NoRequestIsNone
<1>1. PoolInit => LeakInv
  BY DEF PoolInit, LeakInv, PoolTypeOK, PcInv, NoSlotLeak, Threads, Labels, Main, Usb
<1>2. LeakInv /\ [PoolNext]_poolVars => LeakInv'
  <2> SUFFICES ASSUME LeakInv, [PoolNext]_poolVars  PROVE LeakInv'
    OBVIOUS
  <2> USE DEF LeakInv, PoolTypeOK, PcInv, NoSlotLeak, Owned, HeldBy, Threads, Labels,
              Main, Usb, MayStart, After
  <2>1. CASE UNCHANGED poolVars
    BY <2>1 DEF poolVars
  <2>0. CASE OnDisconnected
    BY <2>0 DEF OnDisconnected
  <2> SUFFICES ASSUME SteadyNext, UNCHANGED orphaned  PROVE LeakInv'
    BY <2>1, <2>0 DEF PoolNext
  <2>2. ASSUME NEW t \in Threads, GetTrqLoad(t)  PROVE LeakInv'
    BY <2>2 DEF GetTrqLoad
  <2>3. ASSUME NEW t \in Threads, GetTrqNone(t)  PROVE LeakInv'
    BY <2>3 DEF GetTrqNone
  <2>4. ASSUME NEW t \in Threads, GetTrqClaim(t)  PROVE LeakInv'
    <3>1. LowestZero(mask[t]) \in Requests \ mask[t]
      BY <2>4, LowestZeroIsFree DEF GetTrqClaim
    <3> QED  BY <2>4, <3>1 DEF GetTrqClaim, CasHolds
  <2>5. ASSUME NEW t \in Threads, GetTrqRetry(t)  PROVE LeakInv'
    BY <2>5 DEF GetTrqRetry
  <2>6. ASSUME NEW t \in Threads, SubmitTransfer(t)  PROVE LeakInv'
    BY <2>6 DEF SubmitTransfer
  <2>7. ASSUME NEW t \in Threads, SubmitFails(t)  PROVE LeakInv'
    BY <2>7 DEF SubmitFails, ReleaseTrq
  <2>8. ASSUME NEW r \in Requests, CallbackBegin(r)  PROVE LeakInv'
    BY <2>8 DEF CallbackBegin
  <2>9. CASE CallbackNoRestart
    BY <2>9 DEF CallbackNoRestart
  <2>10. CASE CallbackEnd
    BY <2>10 DEF CallbackEnd, ReleaseTrq
  <2> QED
    BY <2>2, <2>3, <2>4, <2>5, <2>6, <2>7, <2>8, <2>9, <2>10 DEF SteadyNext
<1> QED  BY <1>1, <1>2, PTL DEF PoolSpec

(* Every variable of the pool keeps its type, disconnections included. *)
THEOREM PoolTypeCorrect == PoolSpec => []PoolTypeOK
BY LeakInvariance, PTL DEF LeakInv

(* The capacity of the pool is never lost: a bit that is set has an owner *)
(* that will clear it, whatever OnDisconnected cleared before.            *)
THEOREM NoLeak == PoolSpec => []NoSlotLeak
BY LeakInvariance, PTL DEF LeakInv

------------------------------------------------------------------------------
(* As long as no bit was cleared under an owner, owned requests are exactly *)
(* those whose bit is set: without this part a claim could take an owned    *)
(* request.                                                                 *)
BitsMatch == \A r \in Requests : Owned(r) <=> r \in trq_in_use

OwnerInv ==
  /\ PoolTypeOK
  /\ PcInv
  /\ ~orphaned => NeverShared /\ BitsMatch

(* No request is in use at first. *)
LEMMA OwnerInvInit == PoolInit => OwnerInv
BY NoRequestIsNone
DEF PoolInit, OwnerInv, PoolTypeOK, PcInv, NeverShared, BitsMatch, Owned, HeldBy, Threads,
    Labels, Main, Usb

(* Every step keeps bits and owners equal until a request is orphaned. *)
LEMMA OwnerInvStep == OwnerInv /\ [PoolNext]_poolVars => OwnerInv'
<1> USE MaxRequestsAssumption, NoRequestIsNone
<1> SUFFICES ASSUME OwnerInv, [PoolNext]_poolVars  PROVE OwnerInv'
  OBVIOUS
<1> USE DEF OwnerInv, PoolTypeOK, PcInv, NeverShared, BitsMatch, Owned, HeldBy, Threads,
            Labels, Main, Usb, MayStart, After
<1>1. CASE UNCHANGED poolVars
  BY <1>1 DEF poolVars
<1>0. CASE OnDisconnected
  BY <1>0 DEF OnDisconnected
<1> SUFFICES ASSUME SteadyNext, UNCHANGED orphaned  PROVE OwnerInv'
  BY <1>1, <1>0 DEF PoolNext
<1>2. ASSUME NEW t \in Threads, GetTrqLoad(t)  PROVE OwnerInv'
  BY <1>2 DEF GetTrqLoad
<1>3. ASSUME NEW t \in Threads, GetTrqNone(t)  PROVE OwnerInv'
  BY <1>3 DEF GetTrqNone
<1>4. ASSUME NEW t \in Threads, GetTrqClaim(t)  PROVE OwnerInv'
  <2>1. LowestZero(mask[t]) \in Requests \ trq_in_use
    BY <1>4, LowestZeroIsFree DEF GetTrqClaim, CasHolds
  <2> QED  BY <1>4, <2>1 DEF GetTrqClaim, CasHolds
<1>5. ASSUME NEW t \in Threads, GetTrqRetry(t)  PROVE OwnerInv'
  BY <1>5 DEF GetTrqRetry
<1>6. ASSUME NEW t \in Threads, SubmitTransfer(t)  PROVE OwnerInv'
  BY <1>6 DEF SubmitTransfer
<1>7. ASSUME NEW t \in Threads, SubmitFails(t)  PROVE OwnerInv'
  BY <1>7 DEF SubmitFails, ReleaseTrq
<1>8. ASSUME NEW r \in Requests, CallbackBegin(r)  PROVE OwnerInv'
  BY <1>8 DEF CallbackBegin
<1>9. CASE CallbackNoRestart
  BY <1>9 DEF CallbackNoRestart
<1>10. CASE CallbackEnd
  BY <1>10 DEF CallbackEnd, ReleaseTrq
<1> QED
  BY <1>2, <1>3, <1>4, <1>5, <1>6, <1>7, <1>8, <1>9, <1>10 DEF SteadyNext

(* Until a disconnection orphans a request, the owned requests are those   *)
(* whose bit is set (get_trq_ and release_trq).                            *)
THEOREM OwnerInvariance == PoolSpec => []OwnerInv
BY OwnerInvInit, OwnerInvStep, PTL DEF PoolSpec

(* Until a disconnection clears the bit of a request in use, no request    *)
(* ever has two owners: what the comment above transfer_out promises, for  *)
(* every MAX_REQUESTS and over any number of disconnections.               *)
THEOREM Exclusive == PoolSpec => []ExclusiveOwner
<1>1. OwnerInv => ExclusiveOwner
  BY DEF OwnerInv, ExclusiveOwner
<1> QED  BY <1>1, OwnerInvariance, PTL

------------------------------------------------------------------------------
(* Each step of the pool is a step of the allocator or leaves it alone:    *)
(* only the compare-and-swap, the submission, the start of the callback    *)
(* and the release move a request from one owner to the next.              *)
LEMMA StepRefines ==
  OwnerInv /\ ~orphaned /\ SteadyNext => Allocator!Next \/ UNCHANGED owner
<1> USE MaxRequestsAssumption, NoRequestIsNone
<1> SUFFICES ASSUME OwnerInv, ~orphaned, SteadyNext
             PROVE  Allocator!Next \/ UNCHANGED owner
  OBVIOUS
<1> USE DEF OwnerInv, PoolTypeOK, PcInv, NeverShared, BitsMatch, Owned, HeldBy, Threads,
            Labels, Main, Usb, MayStart, After, owner
<1>2. ASSUME NEW t \in Threads, GetTrqLoad(t)  PROVE UNCHANGED owner
  BY <1>2 DEF GetTrqLoad
<1>3. ASSUME NEW t \in Threads, GetTrqNone(t)  PROVE UNCHANGED owner
  BY <1>3 DEF GetTrqNone
<1>4. ASSUME NEW t \in Threads, GetTrqClaim(t)  PROVE Allocator!Next
  <2> DEFINE r == LowestZero(mask[t])
  <2>1. r \in Requests \ trq_in_use
    BY <1>4, LowestZeroIsFree DEF GetTrqClaim, CasHolds
  <2>2. held' = [held EXCEPT ![t] = r] /\ UNCHANGED <<submitted, completing>>
    BY <1>4 DEF GetTrqClaim
  <2> HIDE DEF r
  <2>3. r \in Requests /\ owner[r] = "free" /\ held[t] = NoRequest
    BY <2>1, <1>4 DEF GetTrqClaim
  <2>4. ASSUME NEW s \in Requests
        PROVE  owner'[s] = IF s = r THEN t ELSE owner[s]
    <3>1. CASE s = r
      BY <2>1, <2>2, <2>3, <3>1
    <3>2. CASE s # r
      BY <2>1, <2>2, <2>3, <3>2
    <3> QED  BY <3>1, <3>2
  <2>5. owner' = [owner EXCEPT ![r] = t]
    BY <2>3, <2>4, ZenonT(60)
  <2> HIDE DEF owner
  <2> QED  BY <2>3, <2>5, ZenonT(60) DEF Allocator!Next, Allocator!Claim, owner
<1>5. ASSUME NEW t \in Threads, GetTrqRetry(t)  PROVE UNCHANGED owner
  BY <1>5 DEF GetTrqRetry
<1>6. ASSUME NEW t \in Threads, SubmitTransfer(t)  PROVE Allocator!Next
  <2>1. held[t] \in Requests /\ owner[held[t]] = t
    BY <1>6 DEF SubmitTransfer
  <2>2. owner' = [owner EXCEPT ![held[t]] = "host"]
    BY <1>6, <2>1 DEF SubmitTransfer
  <2> QED  BY <2>1, <2>2 DEF Allocator!Next, Allocator!Submit
<1>7. ASSUME NEW t \in Threads, SubmitFails(t)  PROVE Allocator!Next
  <2>1. held[t] \in Requests /\ owner[held[t]] = t
    BY <1>7 DEF SubmitFails
  <2>2. owner' = [owner EXCEPT ![held[t]] = "free"]
    BY <1>7, <2>1 DEF SubmitFails
  <2> QED  BY <2>1, <2>2 DEF Allocator!Next, Allocator!Release
<1>8. ASSUME NEW r \in Requests, CallbackBegin(r)  PROVE Allocator!Next
  <2>1. owner[r] = "host" /\ \A s \in Requests : owner[s] # "callback"
    BY <1>8 DEF CallbackBegin
  <2>2. owner' = [owner EXCEPT ![r] = "callback"]
    BY <1>8, <2>1 DEF CallbackBegin
  <2> QED  BY <2>1, <2>2 DEF Allocator!Next, Allocator!Complete
<1>9. CASE CallbackNoRestart
  BY <1>9 DEF CallbackNoRestart
<1>10. CASE CallbackEnd
  <2>1. completing \in Requests /\ owner[completing] = "callback"
    BY <1>10 DEF CallbackEnd
  <2>2. owner' = [owner EXCEPT ![completing] = "free"]
    BY <1>10, <2>1, ZenonT(60) DEF CallbackEnd
  <2> QED  BY <2>1, <2>2 DEF Allocator!Next, Allocator!Release
<1> QED
  BY <1>2, <1>3, <1>4, <1>5, <1>6, <1>7, <1>8, <1>9, <1>10 DEF SteadyNext

(* The lock-free pool implements the atomic allocator, for every           *)
(* MAX_REQUESTS, until a disconnection clears the bit of a request in use. *)
THEOREM PoolRefinement == PoolSpec => AtomicAllocation
<1>1. PoolInit => Allocator!Init
  BY NoRequestIsNone DEF PoolInit, Allocator!Init, owner, HeldBy, Threads, Main, Usb
<1>2. OwnerInv /\ [PoolNext]_poolVars => [Allocator!Next \/ orphaned']_owner
  <2> SUFFICES ASSUME OwnerInv, [PoolNext]_poolVars, ~orphaned'
               PROVE  Allocator!Next \/ UNCHANGED owner
    OBVIOUS
  <2>1. CASE UNCHANGED poolVars
    BY <2>1 DEF poolVars, owner, HeldBy
  <2>2. CASE SteadyNext /\ UNCHANGED orphaned
    BY <2>2, StepRefines
  <2>3. CASE OnDisconnected
    BY <2>3 DEF OnDisconnected, owner, HeldBy
  <2> QED  BY <2>1, <2>2, <2>3 DEF PoolNext
<1> QED
  BY <1>1, <1>2, OwnerInvariance, PTL DEF PoolSpec, AtomicAllocation

------------------------------------------------------------------------------
(* The life of the device: UsbClient. *)

HandleInv ==
  /\ state = "init" => device_handle = NoObject
  /\ state = "open" => device_addr \in Objects
  /\ state = "open" /\ pc # "opened" => device_handle = NoObject /\ device_addr \notin open
  /\ pc = "opened" => state = "open" /\ device_handle \in Objects
  /\ state = "connected" => device_handle \in Objects

QueueInv ==
  /\ Len(event_queue) + (IF in_hand THEN 1 ELSE 0) <= QueueSize - 1
  /\ \A i \in 1 .. Len(event_queue) :
       event_queue[i].object \in open
         => event_queue[i].type = "gone" /\ event_queue[i].object \in gone

ClientInv == TypeOK /\ OpenIsHeld /\ HandleInv /\ QueueInv

(* The constants of the client as the proofs use them. *)
LEMMA Constants ==
  /\ QueueSize \in Nat /\ QueueSize > 1
  /\ Free \notin Devices /\ NoObject \notin Objects
BY ClientAssumption, FreeAssumption

(* The client starts without a device. *)
LEMMA InitClient == Init => ClientInv
<1> SUFFICES ASSUME Init PROVE ClientInv  OBVIOUS
<1>1. event_queue \in Seq(Events) /\ Len(event_queue) = 0
  BY EmptySeq DEF Init
<1>2. TypeOK
  <2>1. device \in [Objects -> Devices \cup {Free}]
    BY DEF Init
  <2>2. gone \subseteq open /\ open \subseteq {o \in Objects : device[o] # Free}
    BY DEF Init
  <2>3. Len(event_queue) < QueueSize
    BY <1>1, Constants
  <2> QED
    BY <1>1, <2>1, <2>2, <2>3 DEF Init, TypeOK
<1>3. OpenIsHeld /\ HandleInv /\ QueueInv
  BY <1>1, Constants DEF Init, OpenIsHeld, HandleInv, QueueInv
<1> QED  BY <1>2, <1>3 DEF ClientInv

(* An event is queued if the pool has one; what was queued stays.          *)
LEMMA ClientEventFacts ==
  ASSUME ClientInv, UNCHANGED in_hand,
         NEW type \in {"new", "gone"}, NEW o \in Objects, ClientEvent(type, o)
  PROVE  /\ event_queue' \in Seq(Events) /\ {wake', dropped'} \subseteq BOOLEAN
         /\ Len(event_queue') + (IF in_hand' THEN 1 ELSE 0) <= QueueSize - 1
         /\ \A i \in 1 .. Len(event_queue') :
              \/ i \in 1 .. Len(event_queue) /\ event_queue'[i] = event_queue[i]
              \/ event_queue'[i] = [type |-> type, object |-> o]
<1> USE Constants
<1> DEFINE event == [type |-> type, object |-> o]
<1>1. event \in Events /\ event_queue \in Seq(Events) /\ {wake, dropped} \subseteq BOOLEAN
  BY DEF Events, ClientInv, TypeOK
<1>2. CASE PoolEmpty
  BY <1>1, <1>2 DEF ClientEvent, ClientInv, QueueInv
<1>3. CASE ~PoolEmpty
  <2>1. event_queue' = Append(event_queue, event) /\ wake' = TRUE /\ dropped' = dropped
    BY <1>3 DEF ClientEvent
  <2> HIDE DEF event
  <2>2. /\ Append(event_queue, event) \in Seq(Events)
        /\ Len(Append(event_queue, event)) = Len(event_queue) + 1
        /\ \A i \in 1 .. Len(event_queue) : Append(event_queue, event)[i] = event_queue[i]
        /\ Append(event_queue, event)[Len(event_queue) + 1] = event
    BY <1>1
  <2>3. Len(event_queue) \in Nat
    BY <1>1
  <2>4. Len(event_queue') + (IF in_hand' THEN 1 ELSE 0) <= QueueSize - 1
    BY <1>3, <2>1, <2>2, <2>3 DEF PoolEmpty, ClientInv, QueueInv
  <2>5. \A i \in 1 .. Len(event_queue') : i \in 1 .. Len(event_queue) \/ i = Len(event_queue) + 1
    BY <2>1, <2>2, <2>3
  <2> QED  BY <1>1, <2>1, <2>2, <2>4, <2>5 DEF event
<1> QED  BY <1>2, <1>3

(* Devices come and go; one that is open goes before its event is queued.  *)
LEMMA BusStep ==
  ASSUME ClientInv,
         \/ \E d \in Devices, o \in Objects : Plug(d, o)
         \/ \E o \in Objects : Unplug(o)
  PROVE  ClientInv'
<1> USE Constants
<1>1. ASSUME NEW d \in Devices, NEW o \in Objects, Plug(d, o) PROVE ClientInv'
  <2>1. /\ event_queue' \in Seq(Events) /\ {wake', dropped'} \subseteq BOOLEAN
        /\ Len(event_queue') + (IF in_hand' THEN 1 ELSE 0) <= QueueSize - 1
        /\ \A i \in 1 .. Len(event_queue') :
             \/ i \in 1 .. Len(event_queue) /\ event_queue'[i] = event_queue[i]
             \/ event_queue'[i] = [type |-> "new", object |-> o]
    BY <1>1, ClientEventFacts DEF Plug
  <2>2. Len(event_queue') < QueueSize
    <3>1. Len(event_queue') \in Nat
      BY <2>1
    <3> QED  BY <2>1, <3>1
  <2>3. mishap' \in BOOLEAN
    BY <1>1 DEF Plug, ClientInv, TypeOK
  <2>4. TypeOK'
    BY <1>1, <2>1, <2>2, <2>3 DEF Plug, ClientInv, TypeOK, client
  <2>5. OpenIsHeld' /\ HandleInv'
    BY <1>1 DEF Plug, ClientInv, OpenIsHeld, HandleInv, client
  <2>6. QueueInv'
    <3>1. o \notin open /\ UNCHANGED <<open, gone>>
      BY <1>1 DEF Plug, ClientInv, TypeOK
    <3> QED  BY <2>1, <3>1 DEF ClientInv, QueueInv
  <2> QED  BY <2>4, <2>5, <2>6 DEF ClientInv
<1>2. ASSUME NEW o \in Objects, Unplug(o), o \in open PROVE ClientInv'
  <2>1. /\ event_queue' \in Seq(Events) /\ {wake', dropped'} \subseteq BOOLEAN
        /\ Len(event_queue') + (IF in_hand' THEN 1 ELSE 0) <= QueueSize - 1
        /\ \A i \in 1 .. Len(event_queue') :
             \/ i \in 1 .. Len(event_queue) /\ event_queue'[i] = event_queue[i]
             \/ event_queue'[i] = [type |-> "gone", object |-> o]
    BY <1>2, ClientEventFacts DEF Unplug
  <2>2. Len(event_queue') < QueueSize
    <3>1. Len(event_queue') \in Nat
      BY <2>1
    <3> QED  BY <2>1, <3>1
  <2>3. gone' = gone \cup {o} /\ UNCHANGED <<device, open>>
    BY <1>2 DEF Unplug
  <2>4. TypeOK'
    BY <1>2, <2>1, <2>2, <2>3 DEF Unplug, ClientInv, TypeOK, client
  <2>5. OpenIsHeld' /\ HandleInv'
    BY <1>2 DEF Unplug, ClientInv, OpenIsHeld, HandleInv, client
  <2>6. QueueInv'
    BY <2>1, <2>3 DEF ClientInv, QueueInv
  <2> QED  BY <2>4, <2>5, <2>6 DEF ClientInv
<1>3. ASSUME NEW o \in Objects, Unplug(o), o \notin open PROVE ClientInv'
  <2>1. TypeOK'
    BY <1>3 DEF Unplug, ClientInv, TypeOK, client
  <2>2. OpenIsHeld' /\ HandleInv' /\ QueueInv'
    BY <1>3 DEF Unplug, ClientInv, OpenIsHeld, HandleInv, QueueInv, client
  <2> QED  BY <2>1, <2>2 DEF ClientInv
<1> QED  BY <1>1, <1>2, <1>3

(* disconnect() closes the device that is held, or leaves it open for ever *)
(* without its handle; the others stay as they are.                        *)
LEMMA DisconnectFacts ==
  ASSUME ClientInv, device_handle \in Objects, Disconnect
  PROVE  /\ open' \subseteq open /\ gone' = gone \cap open'
         /\ unclosed' = open' /\ device_handle' \notin unclosed'
         /\ \A o \in open' : device'[o] # Free
         /\ state' = "init" /\ device_addr' = NoObject /\ device_handle' = NoObject
         /\ device' \in [Objects -> Devices \cup {Free}]
<1>1. /\ open \ unclosed = {device_handle} /\ unclosed \subseteq open
      /\ device_handle \notin unclosed
  BY Constants DEF ClientInv, OpenIsHeld, TypeOK
<1>2. /\ gone \subseteq open /\ open \subseteq Objects
      /\ \A o \in open : device[o] # Free
      /\ device \in [Objects -> Devices \cup {Free}]
  BY DEF ClientInv, TypeOK
<1>3. state' = "init" /\ device_addr' = NoObject /\ device_handle' = NoObject
  BY DEF Disconnect
<1>4. CASE CloseDevice
  <2>1. /\ open' = open \ {device_handle} /\ gone' = gone \ {device_handle}
        /\ unclosed' = unclosed
    BY <1>4 DEF CloseDevice
  <2>2. /\ \A o \in open' : device'[o] # Free
        /\ device' \in [Objects -> Devices \cup {Free}]
    BY <1>2, <1>4, <2>1 DEF CloseDevice
  <2> QED  BY <1>1, <1>2, <1>3, <2>1, <2>2, Constants
<1>5. CASE CloseFails
  <2>1. unclosed' = unclosed \cup {device_handle} /\ UNCHANGED <<device, gone, open>>
    BY <1>5 DEF CloseFails
  <2> QED  BY <1>1, <1>2, <1>3, <2>1, Constants
<1> QED  BY <1>4, <1>5 DEF Disconnect

(* What Pop takes is an event, and leaves the queue shorter. *)
LEMMA PopFacts ==
  ASSUME ClientInv, Pop
  PROVE  /\ event_queue' \in Seq(Events) /\ Len(event_queue') < QueueSize
         /\ Head(event_queue) \in Events /\ Head(event_queue) = event_queue[1]
         /\ 1 \in 1 .. Len(event_queue)
         /\ Len(event_queue') + (IF in_hand' THEN 1 ELSE 0) <= QueueSize - 1
         /\ \A i \in 1 .. Len(event_queue') :
              i + 1 \in 1 .. Len(event_queue) /\ event_queue'[i] = event_queue[i + 1]
<1> USE Constants
<1>1. event_queue \in Seq(Events) /\ event_queue # <<>> /\ Len(event_queue) < QueueSize
  BY DEF ClientInv, TypeOK, Pop
<1>2. /\ Head(event_queue) \in Events /\ Tail(event_queue) \in Seq(Events)
      /\ Len(Tail(event_queue)) = Len(event_queue) - 1
      /\ \A i \in 1 .. Len(Tail(event_queue)) : Tail(event_queue)[i] = event_queue[i + 1]
  BY <1>1, HeadTailProperties
<1>3. Len(event_queue) \in Nat /\ Len(event_queue) > 0
  BY <1>1, EmptySeq
<1>4. event_queue' = Tail(event_queue) /\ in_hand' = TRUE /\ ~in_hand
  BY DEF Pop
<1>5. Head(event_queue) = event_queue[1]
  BY <1>1
<1>6. Len(event_queue) <= QueueSize - 1
  BY <1>1, <1>3
<1> QED  BY <1>2, <1>3, <1>4, <1>5, <1>6

(* loop() takes an event.                                                  *)
LEMMA EventStep ==
  ASSUME ClientInv, OnOpened \/ OnRemoved \/ ReleaseEvent
  PROVE  ClientInv'
<1> USE Constants
<1>1. CASE OnOpened
  <2>1. Pop
    BY <1>1 DEF OnOpened
  <2>2. {device_addr', device_handle'} \subseteq Objects \cup {NoObject}
    BY <1>1, <2>1, PopFacts DEF OnOpened, Events, ClientInv, TypeOK
  <2>3. TypeOK'
    BY <1>1, <2>1, <2>2, PopFacts DEF OnOpened, Pop, ClientInv, TypeOK, bus, history
  <2>4. OpenIsHeld' /\ HandleInv'
    <3>1. Head(event_queue).object \in Objects \ open
      BY <1>1, <2>1, PopFacts DEF OnOpened, Events, ClientInv, QueueInv
    <3> QED
      BY <1>1, <2>1, <3>1 DEF OnOpened, Pop, ClientInv, OpenIsHeld, HandleInv, bus
  <2>5. QueueInv'
    BY <1>1, <2>1, PopFacts DEF OnOpened, ClientInv, QueueInv, bus
  <2> QED  BY <2>3, <2>4, <2>5 DEF ClientInv
<1>2. CASE OnRemoved
  <2>1. Pop
    BY <1>2 DEF OnRemoved
  <2>2. CASE IsOurs(Head(event_queue).object) /\ Disconnect
    <3>1. device_handle \in Objects
      BY <2>1, <2>2, PopFacts DEF IsOurs, Events
    <3>2. TypeOK'
      BY <1>2, <2>1, <2>2, <3>1, PopFacts, DisconnectFacts
      DEF OnRemoved, Pop, ClientInv, TypeOK, history
    <3>3. OpenIsHeld' /\ HandleInv'
      BY <1>2, <2>1, <2>2, <3>1, DisconnectFacts
      DEF OnRemoved, Pop, ClientInv, OpenIsHeld, HandleInv
    <3>4. QueueInv'
      BY <2>1, <2>2, <3>1, PopFacts, DisconnectFacts DEF ClientInv, QueueInv
    <3> QED  BY <3>2, <3>3, <3>4 DEF ClientInv
  <2>3. CASE UNCHANGED <<bus, client>>
    <3>1. TypeOK'
      BY <1>2, <2>1, <2>3, PopFacts
      DEF OnRemoved, Pop, ClientInv, TypeOK, bus, client, history
    <3>2. OpenIsHeld' /\ HandleInv'
      BY <1>2, <2>3
      DEF OnRemoved, ClientInv, OpenIsHeld, HandleInv, bus, client
    <3>3. QueueInv'
      BY <2>1, <2>3, PopFacts DEF ClientInv, QueueInv, bus
    <3> QED  BY <3>1, <3>2, <3>3 DEF ClientInv
  <2> QED  BY <1>2, <2>2, <2>3 DEF OnRemoved
<1>3. CASE ReleaseEvent
  <2>1. TypeOK'
    BY <1>3 DEF ReleaseEvent, ClientInv, TypeOK, bus, client, history
  <2>2. OpenIsHeld' /\ HandleInv'
    BY <1>3 DEF ReleaseEvent, ClientInv, OpenIsHeld, HandleInv, bus, client
  <2>3. QueueInv'
    <3>1. Len(event_queue) \in Nat
      BY DEF ClientInv, TypeOK
    <3> QED  BY <1>3, <3>1 DEF ReleaseEvent, ClientInv, QueueInv, bus
  <2> QED  BY <2>1, <2>2, <2>3 DEF ClientInv
<1> QED  BY <1>1, <1>2, <1>3

(* loop() opens, rejects or keeps a device.                                *)
LEMMA OpenStep ==
  ASSUME ClientInv,
         \/ LoopBegin \/ NothingToOpen \/ LoopEnd
         \/ OpenDevice \/ OpenFails \/ Reject \/ Connect
  PROVE  ClientInv'
<1> USE Constants
<1>1. CASE LoopBegin \/ NothingToOpen \/ LoopEnd
  <2>1. TypeOK'
    BY <1>1
    DEF LoopBegin, NothingToOpen, LoopEnd, ClientInv, TypeOK, bus, client, history
  <2>2. OpenIsHeld' /\ HandleInv' /\ QueueInv'
    BY <1>1
    DEF LoopBegin, NothingToOpen, LoopEnd, ClientInv, OpenIsHeld, HandleInv, QueueInv, bus,
        client
  <2> QED  BY <2>1, <2>2 DEF ClientInv
<1>2. CASE OpenDevice
  <2>1. /\ device_addr \in Objects \ open /\ open = unclosed /\ gone \subseteq open
        /\ event_queue = <<>>
    BY <1>2 DEF OpenDevice, OpenReady, ClientInv, TypeOK, OpenIsHeld, HandleInv
  <2>2. TypeOK'
    BY <1>2, <2>1 DEF OpenDevice, ClientInv, TypeOK, history
  <2>3. OpenIsHeld' /\ HandleInv'
    BY <1>2, <2>1 DEF OpenDevice, OpenReady, OpenIsHeld, HandleInv
  <2>4. QueueInv'
    BY <1>2, <2>1 DEF OpenDevice, ClientInv, QueueInv
  <2> QED  BY <2>2, <2>3, <2>4 DEF ClientInv
<1>3. CASE OpenFails \/ Connect
  <2>1. mishap' \in BOOLEAN
    BY <1>3 DEF OpenFails, Connect, ClientInv, TypeOK, history
  <2>2. TypeOK'
    BY <1>3, <2>1 DEF OpenFails, Connect, ClientInv, TypeOK, bus, history
  <2>3. OpenIsHeld' /\ HandleInv' /\ QueueInv'
    BY <1>3
    DEF OpenFails, Connect, OpenReady, ClientInv, OpenIsHeld, HandleInv, QueueInv, bus
  <2> QED  BY <2>2, <2>3 DEF ClientInv
<1>4. CASE Reject
  <2>1. mishap' \in BOOLEAN
    BY <1>4 DEF Reject, ClientInv, TypeOK
  <2>2. Disconnect
    BY <1>4 DEF Reject
  <2>3. device_handle \in Objects
    BY <1>4 DEF Reject, ClientInv, HandleInv
  <2>4. TypeOK'
    BY <1>4, <2>1, <2>2, <2>3, DisconnectFacts DEF Reject, ClientInv, TypeOK
  <2>5. OpenIsHeld' /\ HandleInv'
    BY <1>4, <2>2, <2>3, DisconnectFacts DEF Reject, ClientInv, OpenIsHeld, HandleInv
  <2>6. QueueInv'
    BY <1>4, <2>2, <2>3, DisconnectFacts DEF Reject, ClientInv, QueueInv
  <2> QED  BY <2>4, <2>5, <2>6 DEF ClientInv
<1> QED  BY <1>1, <1>2, <1>3, <1>4

(* Every step of the client, the bus and the USB task keeps the invariant. *)
LEMMA ClientStep == ClientInv /\ [Next]_vars => ClientInv'
<1> SUFFICES ASSUME ClientInv, [Next]_vars PROVE ClientInv'  OBVIOUS
<1>1. CASE UNCHANGED vars
  BY <1>1
  DEF ClientInv, TypeOK, OpenIsHeld, HandleInv, QueueInv, vars, bus, client, history
<1>2. CASE Next
  BY <1>2, BusStep, EventStep, OpenStep DEF Next, Loop
<1> QED  BY <1>1, <1>2

(* The invariant holds in every state. *)
LEMMA ClientInvariance == Spec => []ClientInv
BY InitClient, ClientStep, PTL DEF Spec

(* Every device that loop() opens, disconnect() tries to close, whatever   *)
(* fails and whatever comes and goes meanwhile: apart from the devices     *)
(* whose closing the host stack refused, what is open is what              *)
(* device_handle_ names, and it names none of those.                       *)
THEOREM OpenIsClosed == Spec => []OpenSound
<1>1. ClientInv => OpenSound
  BY DEF ClientInv, OpenSound
<1> QED  BY <1>1, ClientInvariance, PTL

(* on_removed gives up a device only if that one has gone: the queue is    *)
(* drained before a device is opened, so that no removal of an earlier     *)
(* device is left in it whose handle could be the new one's.               *)
THEOREM RemovalsAreTrue == Spec => NoFalseRemoval
<1>1. ClientInv /\ OnRemoved /\ state # "init" /\ state' = "init" => device_handle \in gone
  <2> SUFFICES ASSUME ClientInv, OnRemoved, state # "init", state' = "init"
               PROVE  device_handle \in gone
    OBVIOUS
  <2>1. Pop /\ Head(event_queue).type = "gone"
    BY DEF OnRemoved
  <2>2. Head(event_queue) = event_queue[1] /\ 1 \in 1 .. Len(event_queue)
        /\ Head(event_queue) \in Events
    BY <2>1, PopFacts
  <2>3. Head(event_queue).object = device_handle
    BY DEF OnRemoved, IsOurs, client
  <2>4. device_handle \in open
    BY <2>2, <2>3, Constants DEF Events, ClientInv, OpenIsHeld
  <2> QED  BY <2>1, <2>2, <2>3, <2>4 DEF ClientInv, QueueInv
<1>2. ClientInv /\ [Next]_vars
      => [OnRemoved /\ state # "init" /\ state' = "init" => device_handle \in gone]_vars
  BY <1>1
<1> QED  BY <1>2, ClientInvariance, PTL DEF Spec, NoFalseRemoval
==============================================================================
