---------------------------- MODULE SlotAllocator ----------------------------
(***************************************************************************)
(* What the pool of transfer requests of a USBClient promises to its two   *)
(* threads: a request has one owner at a time.  It is free, or claimed by  *)
(* a thread that fills it in, or in the hands of the USB host stack, or    *)
(* lent to the completion callback.  TransferPool implements this with a   *)
(* bitmask and no lock.                                                    *)
(***************************************************************************)
CONSTANTS Requests,  \* the transfer requests of the client
          Threads    \* the threads that claim them

VARIABLE owner

Owners == Threads \cup {"free", "host", "callback"}

Init == owner = [r \in Requests |-> "free"]

(* A thread obtains a request nobody owns. *)
Claim(t, r) ==
  /\ owner[r] = "free"
  /\ owner' = [owner EXCEPT ![r] = t]

(* The claiming thread hands the request to the host stack. *)
Submit(t, r) ==
  /\ owner[r] = t
  /\ owner' = [owner EXCEPT ![r] = "host"]

(* The host stack returns one request at a time to the callback. *)
Complete(r) ==
  /\ owner[r] = "host"
  /\ \A s \in Requests : owner[s] # "callback"
  /\ owner' = [owner EXCEPT ![r] = "callback"]

(* The thread that could not submit, or the callback, gives it back. *)
Release(r) ==
  /\ owner[r] \in Threads \cup {"callback"}
  /\ owner' = [owner EXCEPT ![r] = "free"]

Next == \E r \in Requests :
          \/ \E t \in Threads : Claim(t, r) \/ Submit(t, r)
          \/ Complete(r)
          \/ Release(r)

Spec == Init /\ [][Next]_owner
==============================================================================
