----------------------------- MODULE TransferPool -----------------------------
(***************************************************************************)
(* The pool of transfer requests of a USBClient (usb_host_client.cpp).     *)
(*                                                                         *)
(* Two threads take requests from it without a lock: the main loop, and    *)
(* the USB task, which may start a new transfer from inside the completion *)
(* callback of another one and only then gives back the completed request. *)
(* The bitmask trq_in_use_ is kept as the set of the requests whose bit is *)
(* set.  get_trq_ is two steps, the load and the compare-and-swap; every   *)
(* other access to the bitmask is one atomic step.                         *)
(***************************************************************************)
EXTENDS Naturals, FiniteSets

CONSTANT MaxRequests  \* MAX_REQUESTS, the size of requests_

(* usb_host.h:59 asserts 1 <= MAX_REQUESTS <= 32; one is all the pool needs. *)
ASSUME MaxRequestsAssumption == MaxRequests \in Nat \ {0}

Requests == 0 .. MaxRequests - 1
NoRequest == MaxRequests          \* nullptr: the index of no request

Main == "main"                    \* the ESPHome main loop
Usb  == "usb"                     \* the FreeRTOS task usb_task
Threads == {Main, Usb}

VARIABLES
  trq_in_use,  \* the requests whose bit is set in trq_in_use_
  mask,        \* the copy of the bitmask a thread holds inside get_trq_
  held,        \* the request a thread has claimed and not yet submitted
  submitted,   \* the requests the host stack has in flight
  completing,  \* the request whose callback the USB task is running
  at,          \* where each thread is
  orphaned     \* history: a disconnection cleared the bit of a request in use

poolVars == <<trq_in_use, mask, held, submitted, completing, at, orphaned>>

(* "idle": not using the pool.  "callback": the USB task runs a user       *)
(* callback that may still start a transfer.  "cas": inside get_trq_.      *)
(* "claimed": filling in the request it got.  "returning": the user        *)
(* callback is over, release_trq is next.                                  *)
Labels == {"idle", "callback", "cas", "claimed", "returning"}

PoolTypeOK ==
  /\ trq_in_use \in SUBSET Requests
  /\ mask \in [Threads -> SUBSET Requests]
  /\ held \in [Threads -> Requests \cup {NoRequest}]
  /\ submitted \in SUBSET Requests
  /\ completing \in Requests \cup {NoRequest}
  /\ at \in [Threads -> Labels]
  /\ orphaned \in BOOLEAN

PoolInit ==
  /\ trq_in_use = {}
  /\ mask = [t \in Threads |-> {}]
  /\ held = [t \in Threads |-> NoRequest]
  /\ submitted = {}
  /\ completing = NoRequest
  /\ at = [t \in Threads |-> "idle"]
  /\ orphaned = FALSE

------------------------------------------------------------------------------
(* Where a thread starts a transfer, and where it goes once that is done. *)
MayStart(t) == at[t] = IF t = Usb THEN "callback" ELSE "idle"
After(t) == IF t = Usb THEN "returning" ELSE "idle"

(* Mutant: the leading zeros are counted: the bit after the highest one. *)
LowestZeroMutant(m) ==
  IF m = {} THEN 0 ELSE 1 + CHOOSE r \in m : \A s \in m : s <= r

(* The least significant zero bit of m: ~mask & (mask + 1). *)
LowestZero(m) ==
  CHOOSE r \in Requests \ m : \A s \in Requests \ m : r <= s

(* get_trq_: the first load of the bitmask. *)
GetTrqLoad(t) ==
  /\ MayStart(t)
  /\ mask' = [mask EXCEPT ![t] = trq_in_use]
  /\ at' = [at EXCEPT ![t] = "cas"]
  /\ UNCHANGED <<trq_in_use, held, submitted, completing>>

(* get_trq_: every bit of the copy is set, nullptr is returned. *)
GetTrqNone(t) ==
  /\ at[t] = "cas"
  /\ mask[t] = Requests
  /\ at' = [at EXCEPT ![t] = After(t)]
  /\ UNCHANGED <<trq_in_use, mask, held, submitted, completing>>

(* Mutant: the claim is a plain store of the copy. *)
CasHoldsMutant(t) == TRUE

(* The compare-and-swap succeeds only if the bitmask is still the copy. *)
CasHolds(t) == trq_in_use = mask[t]

(* get_trq_: the compare-and-swap claims the lowest free request. *)
GetTrqClaim(t) ==
  /\ at[t] = "cas"
  /\ mask[t] # Requests
  /\ CasHolds(t)
  /\ trq_in_use' = mask[t] \cup {LowestZero(mask[t])}
  /\ held' = [held EXCEPT ![t] = LowestZero(mask[t])]
  /\ at' = [at EXCEPT ![t] = "claimed"]
  /\ UNCHANGED <<mask, submitted, completing>>

(* get_trq_: the compare-and-swap fails and refreshes the copy.  A spurious *)
(* failure of compare_exchange_weak changes nothing: it is a stutter.       *)
GetTrqRetry(t) ==
  /\ at[t] = "cas"
  /\ mask[t] # Requests
  /\ ~CasHolds(t)
  /\ mask' = [mask EXCEPT ![t] = trq_in_use]
  /\ UNCHANGED <<trq_in_use, held, submitted, completing, at>>

------------------------------------------------------------------------------
(* control_transfer, transfer_in and transfer_out end alike.               *)

(* The host stack accepts the transfer; it refuses one it has in flight. *)
SubmitTransfer(t) ==
  /\ at[t] = "claimed"
  /\ held[t] \notin submitted
  /\ submitted' = submitted \cup {held[t]}
  /\ held' = [held EXCEPT ![t] = NoRequest]
  /\ at' = [at EXCEPT ![t] = After(t)]
  /\ UNCHANGED <<trq_in_use, mask, completing>>

(* Mutant: the bit of the request stays set. *)
ReleaseTrqMutant(r) == trq_in_use' = trq_in_use

(* release_trq: fetch_and clears the bit of the request. *)
ReleaseTrq(r) == trq_in_use' = trq_in_use \ {r}

(* The length check fails or the submission returns an error: the request *)
(* goes back to the pool and the caller gets false.                       *)
SubmitFails(t) ==
  /\ at[t] = "claimed"
  /\ ReleaseTrq(held[t])
  /\ held' = [held EXCEPT ![t] = NoRequest]
  /\ at' = [at EXCEPT ![t] = After(t)]
  /\ UNCHANGED <<mask, submitted, completing>>

------------------------------------------------------------------------------
(* transfer_callback and control_callback on the USB task. *)

(* Mutant: the bit is cleared before the callback runs, not after it. *)
CallbackBeginMutant(r) ==
  /\ at[Usb] = "idle"
  /\ r \in submitted
  /\ submitted' = submitted \ {r}
  /\ trq_in_use' = trq_in_use \ {r}
  /\ completing' = r
  /\ at' = [at EXCEPT ![Usb] = "callback"]
  /\ UNCHANGED <<mask, held>>

(* usb_host_client_handle_events runs the callback of a finished transfer. *)
CallbackBegin(r) ==
  /\ at[Usb] = "idle"
  /\ r \in submitted
  /\ submitted' = submitted \ {r}
  /\ completing' = r
  /\ at' = [at EXCEPT ![Usb] = "callback"]
  /\ UNCHANGED <<trq_in_use, mask, held>>

(* The user callback ends without starting another transfer. *)
CallbackNoRestart ==
  /\ at[Usb] = "callback"
  /\ at' = [at EXCEPT ![Usb] = "returning"]
  /\ UNCHANGED <<trq_in_use, mask, held, submitted, completing>>

(* After the user callback, the request is released. *)
CallbackEnd ==
  /\ at[Usb] = "returning"
  /\ ReleaseTrq(completing)
  /\ completing' = NoRequest
  /\ at' = [at EXCEPT ![Usb] = "idle"]
  /\ UNCHANGED <<mask, held, submitted>>

------------------------------------------------------------------------------
(* USBClient::on_disconnected, on the main loop: every bit is cleared,     *)
(* whatever transfers are in flight or being completed.                    *)
OnDisconnected ==
  /\ at[Main] = "idle"
  /\ trq_in_use' = {}
  /\ orphaned' = (orphaned \/ trq_in_use # {})
  /\ UNCHANGED <<mask, held, submitted, completing, at>>

(* What happens while a device stays connected. *)
SteadyNext ==
  \/ \E t \in Threads :
       \/ GetTrqLoad(t) \/ GetTrqNone(t) \/ GetTrqClaim(t) \/ GetTrqRetry(t)
       \/ SubmitTransfer(t) \/ SubmitFails(t)
  \/ \E r \in Requests : CallbackBegin(r)
  \/ CallbackNoRestart
  \/ CallbackEnd

PoolNext == (SteadyNext /\ UNCHANGED orphaned) \/ OnDisconnected

PoolSpec == PoolInit /\ [][PoolNext]_poolVars

------------------------------------------------------------------------------
(* A request is owned by the thread that claimed it, by the host stack or  *)
(* by the callback that runs for it.                                       *)
HeldBy(t, r) == held[t] = r
Owned(r) == r \in submitted \/ r = completing \/ \E t \in Threads : HeldBy(t, r)

(* No two threads fill in the same request, and none fills in one that is  *)
(* in flight or in its callback.                                           *)
NeverShared ==
  \A r \in Requests :
    /\ HeldBy(Main, r) => ~HeldBy(Usb, r)
    /\ \A t \in Threads : HeldBy(t, r) => r \notin submitted /\ r # completing
    /\ r \in submitted => r # completing

(* Exclusive ownership, usb_host_client.cpp:518-521: "claimed trq slot is  *)
(* exclusively owned until submission".  It holds over disconnections too, *)
(* until one finds a request in use and clears its bit under its owner.    *)
ExclusiveOwner == ~orphaned => NeverShared

(* No slot leaks: a set bit always has an owner that will clear it, even   *)
(* when a disconnection cleared bits under transfers still in flight       *)
(* (usb_host.h:164-167), so the pool always gets its capacity back.        *)
NoSlotLeak == \A r \in trq_in_use : Owned(r)

(* Who owns a request, for the allocator. *)
owner == [r \in Requests |->
            IF HeldBy(Main, r) THEN Main
            ELSE IF HeldBy(Usb, r) THEN Usb
            ELSE IF r \in submitted THEN "host"
            ELSE IF r = completing THEN "callback"
            ELSE "free"]

Allocator == INSTANCE SlotAllocator WITH owner <- owner

(* Allocation without a lock looks like an atomic allocator, until a       *)
(* disconnection takes a request from under its owner.                     *)
AtomicAllocation == Allocator!Init /\ [][Allocator!Next \/ orphaned']_owner
==============================================================================
