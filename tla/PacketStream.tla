----------------------------- MODULE PacketStream -----------------------------
(***************************************************************************)
(* What the output path of a channel promises to whoever writes to it:     *)
(* packets are numbered as write_array accepts them, one packet at a time  *)
(* is in transmission, packets are taken in order, and each is delivered   *)
(* at most once, or dropped when its transfer fails or the device goes.    *)
(***************************************************************************)
EXTENDS Naturals

VARIABLES accepted,  \* the number of packets accepted so far
          taken,     \* the number of packets taken for transmission
          busy,      \* packet number taken is in transmission
          sent       \* the number of the last packet delivered, 0 if none

vars == <<accepted, taken, busy, sent>>

Init == accepted = 0 /\ taken = 0 /\ busy = FALSE /\ sent = 0

Accept ==
  /\ accepted' = accepted + 1
  /\ UNCHANGED <<taken, busy, sent>>

Take ==
  /\ ~busy /\ taken < accepted
  /\ taken' = taken + 1
  /\ busy' = TRUE
  /\ UNCHANGED <<accepted, sent>>

Deliver ==
  /\ busy
  /\ sent' = taken
  /\ busy' = FALSE
  /\ UNCHANGED <<accepted, taken>>

Drop ==
  /\ busy
  /\ busy' = FALSE
  /\ UNCHANGED <<accepted, taken, sent>>

(* The device has gone: the next packet is forgotten. *)
Forget ==
  /\ ~busy /\ taken < accepted
  /\ taken' = taken + 1
  /\ UNCHANGED <<accepted, busy, sent>>

Next == Accept \/ Take \/ Deliver \/ Drop \/ Forget

Spec == Init /\ [][Next]_vars
==============================================================================
