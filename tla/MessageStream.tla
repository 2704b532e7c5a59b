----------------------------- MODULE MessageStream -----------------------------
(***************************************************************************)
(* What the USB/IP server promises to a client about its requests: on one  *)
(* connection after the other, the messages that were sent are handled     *)
(* whole, once and in the order in which they were sent, until the         *)
(* connection ends.                                                        *)
(***************************************************************************)
EXTENDS Naturals, Sequences

CONSTANT Messages

VARIABLES open,    \* whether there is a connection
          sent,    \* the messages sent on it
          handled  \* those handled, as the server saw them

vars == <<open, sent, handled>>

Init == open = FALSE /\ sent = <<>> /\ handled = <<>>

Open == ~open /\ open' = TRUE /\ sent' = <<>> /\ handled' = <<>>

Send(m) == open /\ sent' = Append(sent, m) /\ UNCHANGED <<open, handled>>

Handle ==
  /\ open
  /\ Len(handled) < Len(sent)
  /\ handled' = Append(handled, sent[Len(handled) + 1])
  /\ UNCHANGED <<open, sent>>

Close == open /\ open' = FALSE /\ UNCHANGED <<sent, handled>>

Next == Open \/ Close \/ Handle \/ \E m \in Messages : Send(m)

Spec == Init /\ [][Next]_vars
==============================================================================
