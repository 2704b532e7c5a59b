--------------------------------- MODULE UsbIp ---------------------------------
(***************************************************************************)
(* The USB/IP server (usb_ip.cpp).  The task usbip_tcp serves one          *)
(* connection after the other; the task usbip_usb runs the callbacks of    *)
(* the transfers and the arrival and removal of the device.  They share    *)
(* the map of pending URBs, under pending_mutex_, and without any lock the *)
(* socket, the device and the flag interfaces_claimed_.                    *)
(*                                                                         *)
(* Connections are numbered as they are accepted, and stand for their      *)
(* sockets.  A URB is the connection that submitted it and its seqnum; the *)
(* client numbers its URBs per connection and unlinks each at most once.   *)
(***************************************************************************)
EXTENDS Naturals, Sequences, FiniteSets

CONSTANTS
  Seqnums,   \* the seqnums of CMD_SUBMIT
  MaxConns   \* bound: the connections in a behaviour

ASSUME UsbIpAssumption == MaxConns \in Nat \ {0}

Conns == 1 .. MaxConns
NoSock == 0
Urbs == Conns \X Seqnums
Conn(u) == u[1]
Seqnum(u) == u[2]
NoUrb == <<>>

VARIABLES
  device_ready, opened,  \* device_ready_, and whether dev_hdl_ is set
  interfaces_claimed,    \* interfaces_claimed_
  claims,                \* whether the host stack has them claimed
  conn, sockets,         \* the connections so far, and the open sockets
  client_sock,           \* client_sock_
  old_sock,              \* cleanup_connection_: the socket it closes
  requested,             \* the URBs submitted so far
  pending,               \* pending_urbs_
  cancelled,             \* the contexts with their flag cancelled set
  xfers,                 \* the transfers the host stack holds
  freed,                 \* the URBs whose context has been freed
  replies,               \* what was sent about a URB, and on which socket
  tcp, usb,              \* where the two tasks are
  tcp_urb, usb_urb,      \* the URB each is dealing with
  status                 \* parse_request: the status of the RET_UNLINK

deviceVars == <<device_ready, opened, interfaces_claimed, claims>>
connVars == <<conn, sockets, client_sock, old_sock>>
urbVars == <<requested, pending, cancelled, xfers, freed, replies>>
tcpVars == <<tcp, tcp_urb, status>>
usbVars == <<usb, usb_urb>>
vars == <<deviceVars, connVars, urbVars, tcpVars, usbVars>>

Replies == [sock : Conns, kind : {"submit", "unlinked", "unlink0"}]
TcpLabels == {"accept", "recv", "register", "claim", "claim_failed", "xfer",
              "failed", "fail_reply", "forget", "unlink_reply",
              "cleanup_pending", "cleanup_close"}
UsbLabels == {"idle", "reply", "enodev", "close"}

TypeOK ==
  /\ {device_ready, opened, interfaces_claimed, claims} \subseteq BOOLEAN
  /\ conn \in 0 .. MaxConns /\ sockets \in SUBSET Conns
  /\ {client_sock, old_sock} \subseteq Conns \cup {NoSock}
  /\ {requested, pending, cancelled, xfers, freed} \subseteq SUBSET Urbs
  /\ \A u, v \in pending : Conn(u) = conn /\ (Seqnum(u) = Seqnum(v) => u = v)
  /\ replies \in [Urbs -> Seq(Replies)]
  /\ tcp \in TcpLabels /\ usb \in UsbLabels
  /\ {tcp_urb, usb_urb} \subseteq Urbs \cup {NoUrb}
  /\ status \in {"unlinked", "unlink0"}

Init ==
  /\ device_ready = FALSE /\ opened = FALSE
  /\ interfaces_claimed = FALSE /\ claims = FALSE
  /\ conn = 0 /\ sockets = {}
  /\ client_sock = NoSock /\ old_sock = NoSock
  /\ requested = {} /\ pending = {} /\ cancelled = {} /\ xfers = {} /\ freed = {}
  /\ replies = [u \in Urbs |-> <<>>]
  /\ tcp = "accept" /\ usb = "idle"
  /\ tcp_urb = NoUrb /\ usb_urb = NoUrb
  /\ status = "unlink0"

(* pending_mutex_ is held across steps only by on_device_disconnected. *)
PendingMutexFree == usb # "enodev"

(* send_response: to whatever socket client_sock_ is at the time. *)
SendResponse(u, kind) ==
  replies' = IF client_sock = NoSock THEN replies
             ELSE [replies EXCEPT ![u] = Append(@, [sock |-> client_sock, kind |-> kind])]

(* pending_urbs_.erase: by its seqnum. *)
Erase(u) == pending' = {v \in pending : Seqnum(v) # Seqnum(u)}

GotoTcp(l) == tcp' = l /\ UNCHANGED <<tcp_urb, status>>

------------------------------------------------------------------------------
(* tcp_task_ *)

Accept ==
  /\ tcp = "accept"
  /\ conn < MaxConns
  /\ conn' = conn + 1
  /\ sockets' = sockets \cup {conn'}
  /\ GotoTcp("recv")
  /\ UNCHANGED <<deviceVars, client_sock, old_sock, urbVars, usbVars>>

(* parse_request of a CMD_SUBMIT without a device, too large, isochronous   *)
(* or without memory: it is answered at once.                               *)
SubmitRejected(u) ==
  /\ tcp = "recv"
  /\ Conn(u) = conn /\ u \notin requested
  /\ client_sock' = conn
  /\ requested' = requested \cup {u}
  /\ freed' = freed \cup {u}
  /\ replies' = [replies EXCEPT ![u] = <<[sock |-> conn, kind |-> "submit"]>>]
  /\ UNCHANGED <<deviceVars, conn, sockets, old_sock, pending, cancelled, xfers, tcpVars, usbVars>>

(* Any other gets a context; the device was ready when it was looked at. *)
SubmitAccepted(u) ==
  /\ tcp = "recv"
  /\ device_ready
  /\ Conn(u) = conn /\ u \notin requested
  /\ client_sock' = conn
  /\ requested' = requested \cup {u}
  /\ tcp' = "register"
  /\ tcp_urb' = u
  /\ UNCHANGED <<deviceVars, conn, sockets, old_sock, pending, cancelled, xfers, freed,
                 replies, status, usbVars>>

(* It is put into the map; endpoint 0 needs no interface. *)
Register ==
  /\ tcp = "register"
  /\ PendingMutexFree
  /\ pending' = {v \in pending : Seqnum(v) # Seqnum(tcp_urb)} \cup {tcp_urb}
  /\ \/ GotoTcp("xfer")
     \/ GotoTcp("claim")
  /\ UNCHANGED <<deviceVars, connVars, requested, cancelled, xfers, freed, replies, usbVars>>

(* ensure_interfaces_claimed_: the host stack refuses to claim again.  One  *)
(* interface stands for all.                                                *)
Claim ==
  /\ tcp = "claim"
  /\ \/ interfaces_claimed /\ GotoTcp("xfer") /\ UNCHANGED <<interfaces_claimed, claims>>
     \/ /\ ~interfaces_claimed
        /\ opened /\ ~claims
        /\ interfaces_claimed' = TRUE
        /\ claims' = TRUE
        /\ GotoTcp("xfer")
  /\ UNCHANGED <<device_ready, opened, connVars, urbVars, usbVars>>

ClaimFails ==
  /\ tcp = "claim"
  /\ ~interfaces_claimed
  /\ SendResponse(tcp_urb, "submit")
  /\ GotoTcp("claim_failed")
  /\ UNCHANGED <<deviceVars, connVars, requested, pending, cancelled, xfers, freed, usbVars>>

(* After the answer the URB is taken out of the map and freed. *)
ClaimFailedForget ==
  /\ tcp = "claim_failed"
  /\ PendingMutexFree
  /\ Erase(tcp_urb)
  /\ freed' = freed \cup {tcp_urb}
  /\ tcp' = "recv" /\ tcp_urb' = NoUrb
  /\ UNCHANGED <<deviceVars, connVars, requested, cancelled, xfers, replies, status, usbVars>>

(* req_ctrl_xfer_ and req_ep_xfer_: the transfer is submitted ... *)
XferSubmitted ==
  /\ tcp = "xfer"
  /\ opened
  /\ xfers' = xfers \cup {tcp_urb}
  /\ tcp' = "recv" /\ tcp_urb' = NoUrb
  /\ UNCHANGED <<deviceVars, connVars, requested, pending, cancelled, freed, replies,
                 status, usbVars>>

(* ... or not: no such endpoint, no memory, no device, refused. *)
XferFails ==
  /\ tcp = "xfer"
  /\ GotoTcp("failed")
  /\ UNCHANGED <<deviceVars, connVars, urbVars, usbVars>>

(* Mutant: the URB is left in the map. *)
FailedForgetMutant ==
  /\ tcp = "failed"
  /\ GotoTcp("fail_reply")
  /\ UNCHANGED <<deviceVars, connVars, urbVars, usbVars>>

FailedForget ==
  /\ tcp = "failed"
  /\ PendingMutexFree
  /\ Erase(tcp_urb)
  /\ GotoTcp("fail_reply")
  /\ UNCHANGED <<deviceVars, connVars, requested, cancelled, xfers, freed, replies, usbVars>>

(* Mutant: the failure is not answered. *)
FailedReplyMutant ==
  /\ tcp = "fail_reply"
  /\ freed' = freed \cup {tcp_urb}
  /\ tcp' = "recv" /\ tcp_urb' = NoUrb
  /\ UNCHANGED <<deviceVars, connVars, requested, pending, cancelled, xfers, replies,
                 status, usbVars>>

FailedReply ==
  /\ tcp = "fail_reply"
  /\ SendResponse(tcp_urb, "submit")
  /\ freed' = freed \cup {tcp_urb}
  /\ tcp' = "recv" /\ tcp_urb' = NoUrb
  /\ UNCHANGED <<deviceVars, connVars, requested, pending, cancelled, xfers, status, usbVars>>

(* parse_request of a CMD_UNLINK: a pending URB is flagged and taken out.  *)
Unlink(u) ==
  /\ tcp = "recv"
  /\ PendingMutexFree
  /\ Conn(u) = conn /\ u \in requested
  /\ ~\E r \in 1 .. Len(replies[u]) : replies[u][r].kind # "submit"
  /\ client_sock' = conn
  /\ pending' = pending \ {u}
  /\ cancelled' = IF u \in pending THEN cancelled \cup {u} ELSE cancelled
  /\ status' = IF u \in pending THEN "unlinked" ELSE "unlink0"
  /\ tcp' = "unlink_reply" /\ tcp_urb' = u
  /\ UNCHANGED <<deviceVars, conn, sockets, old_sock, requested, xfers, freed, replies, usbVars>>

UnlinkReply ==
  /\ tcp = "unlink_reply"
  /\ SendResponse(tcp_urb, status)
  /\ tcp' = "recv" /\ tcp_urb' = NoUrb
  /\ UNCHANGED <<deviceVars, connVars, requested, pending, cancelled, xfers, freed, status, usbVars>>

------------------------------------------------------------------------------
(* The connection ends, by the client, a timeout or a protocol error:      *)
(* cleanup_connection_.                                                    *)
Close ==
  /\ tcp = "recv"
  /\ old_sock' = client_sock
  /\ client_sock' = NoSock
  /\ GotoTcp("cleanup_pending")
  /\ UNCHANGED <<deviceVars, conn, sockets, urbVars, usbVars>>

CleanupPending ==
  /\ tcp = "cleanup_pending"
  /\ PendingMutexFree
  /\ cancelled' = cancelled \cup pending
  /\ pending' = {}
  /\ GotoTcp("cleanup_close")
  /\ UNCHANGED <<deviceVars, connVars, requested, xfers, freed, replies, usbVars>>

CleanupClose ==
  /\ tcp = "cleanup_close"
  /\ sockets' = sockets \ {old_sock}
  /\ old_sock' = NoSock
  /\ interfaces_claimed' = FALSE
  /\ GotoTcp("accept")
  /\ UNCHANGED <<device_ready, opened, claims, conn, client_sock, urbVars, usbVars>>

------------------------------------------------------------------------------
(* The task usbip_usb. *)

(* Mutant: the flag is not looked at. *)
IsCancelledMutant(u) == FALSE
IsCancelled(u) == u \in cancelled

(* Mutant: a cancelled URB is ignored. *)
CallbackCancelledMutant(u) ==
  /\ usb = "idle"
  /\ u \in xfers
  /\ IsCancelled(u)
  /\ xfers' = xfers \ {u}
  /\ UNCHANGED <<deviceVars, connVars, requested, pending, cancelled, freed, replies,
                 tcpVars, usbVars>>

(* ctrl_cb_ and ep_cb_: a cancelled URB is only freed ... *)
CallbackCancelled(u) ==
  /\ usb = "idle"
  /\ u \in xfers
  /\ IsCancelled(u)
  /\ xfers' = xfers \ {u}
  /\ freed' = freed \cup {u}
  /\ UNCHANGED <<deviceVars, connVars, requested, pending, cancelled, replies, tcpVars, usbVars>>

(* ... any other is taken out of the map, then answered and freed. *)
Callback(u) ==
  /\ usb = "idle"
  /\ u \in xfers
  /\ ~IsCancelled(u)
  /\ xfers' = xfers \ {u}
  /\ Erase(u)
  /\ usb' = "reply" /\ usb_urb' = u
  /\ UNCHANGED <<deviceVars, connVars, requested, cancelled, freed, replies, tcpVars>>

CallbackReply ==
  /\ usb = "reply"
  /\ SendResponse(usb_urb, "submit")
  /\ freed' = freed \cup {usb_urb}
  /\ usb' = "idle" /\ usb_urb' = NoUrb
  /\ UNCHANGED <<deviceVars, connVars, requested, pending, cancelled, xfers, tcpVars>>

(* client_event_cb_ and on_device_connected, for the only device there is. *)
(* The host stack has by then returned the transfers of the one before.    *)
DeviceConnected ==
  /\ usb = "idle"
  /\ ~opened
  /\ xfers = {}
  /\ device_ready' = TRUE
  /\ opened' = TRUE
  /\ interfaces_claimed' = FALSE
  /\ claims' = FALSE
  /\ UNCHANGED <<connVars, urbVars, tcpVars, usbVars>>

(* on_device_disconnected: every pending URB is answered, if there is a    *)
(* client, ...                                                             *)
DeviceGone ==
  /\ usb = "idle"
  /\ opened
  /\ device_ready' = FALSE
  /\ usb' = IF client_sock = NoSock THEN "close" ELSE "enodev"
  /\ UNCHANGED <<opened, interfaces_claimed, claims, connVars, urbVars, tcpVars, usb_urb>>

AnswerNoDevice(u) ==
  /\ usb = "enodev"
  /\ u \in pending \ cancelled
  /\ SendResponse(u, "submit")
  /\ cancelled' = cancelled \cup {u}
  /\ UNCHANGED <<deviceVars, connVars, requested, pending, xfers, freed, tcpVars, usbVars>>

ClearPending ==
  /\ usb = "enodev"
  /\ pending \subseteq cancelled
  /\ pending' = {}
  /\ usb' = "close"
  /\ UNCHANGED <<deviceVars, connVars, requested, cancelled, xfers, freed, replies, tcpVars, usb_urb>>

(* ... and the device closed, its interfaces released if the flag is set. *)
CloseDevice ==
  /\ usb = "close"
  /\ claims' = (claims /\ ~interfaces_claimed)
  /\ opened' = FALSE
  /\ usb' = "idle"
  /\ UNCHANGED <<device_ready, interfaces_claimed, connVars, urbVars, tcpVars, usb_urb>>

------------------------------------------------------------------------------
ParseRequest ==
  \/ \E u \in Urbs : SubmitRejected(u) \/ SubmitAccepted(u) \/ Unlink(u)
  \/ Register \/ Claim \/ ClaimFails \/ ClaimFailedForget
  \/ XferSubmitted \/ XferFails \/ FailedForget \/ FailedReply \/ UnlinkReply

Cleanup == CleanupPending \/ CleanupClose

UsbTask ==
  \/ \E u \in Urbs : CallbackCancelled(u) \/ Callback(u) \/ AnswerNoDevice(u)
  \/ CallbackReply \/ DeviceConnected \/ DeviceGone \/ ClearPending \/ CloseDevice

Next == Accept \/ ParseRequest \/ Close \/ Cleanup \/ UsbTask

Spec == Init /\ [][Next]_vars

(* Both tasks finish what they have begun, and the host stack returns the  *)
(* transfers of a device that has gone.  When the device answers, and when *)
(* it goes, is up to it.                                                   *)
Fairness ==
  /\ WF_vars(Register \/ Claim \/ ClaimFails \/ ClaimFailedForget \/ XferSubmitted
             \/ XferFails \/ FailedForget \/ FailedReply \/ UnlinkReply \/ Cleanup)
  /\ WF_vars(CallbackReply \/ ClearPending \/ CloseDevice
             \/ \E u \in Urbs : AnswerNoDevice(u))
  /\ WF_vars(\E u \in Urbs : ~opened /\ (Callback(u) \/ CallbackCancelled(u)))

FairSpec == Spec /\ Fairness

------------------------------------------------------------------------------
InHand(u) == (u = tcp_urb /\ tcp # "unlink_reply") \/ u = usb_urb
Kinds(u) == {replies[u][r].kind : r \in 1 .. Len(replies[u])}

(* No context is used after it was freed: neither the map nor a transfer   *)
(* nor a task refers to one.                                               *)
NoUseAfterFree == \A u \in freed : u \notin pending \cup xfers /\ ~InHand(u)

(* design.md:506: "Every XferCtx allocation has exactly one free path".    *)
(* A context that is not freed belongs to a transfer, whose callback will  *)
(* free it, or to a task, whatever unlinks, failures, disconnections and   *)
(* the end of the connection came between.                                 *)
ContextOwned == \A u \in requested \ freed : u \in xfers \/ InHand(u)

(* A context is freed once, by the one who has it.                         *)
ContextsSound == TypeOK /\ NoUseAfterFree /\ ContextOwned

(* requirements.md:70: after a RET_UNLINK with ECONNRESET, "suppress any   *)
(* subsequent USBIP_RET_SUBMIT" for the URB; it got none before either.    *)
UnlinkSuppresses == \A u \in Urbs : "unlinked" \in Kinds(u) => "submit" \notin Kinds(u)

(* No URB of the client is forgotten: it has been answered, or a transfer  *)
(* or a task still has it.                                                 *)
NoUrbForgotten ==
  \A u \in requested : Conn(u) = client_sock =>
    replies[u] # <<>> \/ u \in xfers \/ u = tcp_urb \/ u = usb_urb

------------------------------------------------------------------------------
(* What the code does not guarantee, although it says so: TLC refutes the  *)
(* properties from here on (see README.md for how each of them fails).     *)

(* usb_ip.cpp:222: "so callback won't send again": a URB is answered by one *)
(* RET_SUBMIT at most.                                                      *)
AnsweredOnce ==
  \A u \in Urbs : \A r, s \in 1 .. Len(replies[u]) :
    replies[u][r].kind = "submit" /\ replies[u][s].kind = "submit" => r = s

(* usb_ip.cpp:240: "Mark socket as invalid (prevents callbacks from         *)
(* sending)": what is sent about a URB goes to the client that submitted it.*)
AnsweredToItsClient ==
  \A u \in Urbs : \A r \in 1 .. Len(replies[u]) : replies[u][r].sock = Conn(u)

(* design.md:207: "The flag prevents re-claiming on subsequent calls".  *)
(* The server does not claim an interface it has claimed.                   *)
ClaimedOnce == tcp = "claim" /\ opened /\ ~interfaces_claimed => ~claims

(* design.md:517-518: a socket is "Closed by cleanup_connection_()", "Never *)
(* leaked: all error paths eventually reach close()".                       *)
SocketsClosed == tcp = "accept" => sockets = {}

(* requirements.md:70: a pending URB that is unlinked is cancelled at the   *)
(* device: "THE ESP_Server SHALL cancel the target transfer".               *)
UnlinkedEnds ==
  \A u \in Urbs : (u \in xfers /\ "unlinked" \in Kinds(u)) ~> u \notin xfers
==============================================================================
