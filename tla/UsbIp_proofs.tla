----------------------------- MODULE UsbIp_proofs ------------------------------
(***************************************************************************)
(* The safety properties of UsbIp, for every set of seqnums and any number *)
(* of connections.                                                         *)
(*                                                                         *)
(* ContextInv says where the context of each URB is: in the hands of one   *)
(* of the tasks, in a transfer, or freed, and what the map of pending URBs *)
(* may refer to meanwhile.  UnlinkInv and AnswerInv add, on top of it,     *)
(* what has been sent about a URB that was unlinked or cancelled.          *)
(***************************************************************************)
EXTENDS UsbIp, TLAPS

(* The tcp task has a context of its own from its allocation to the        *)
(* submission of the transfer, or to the end of the failure.               *)
HandLabels == {"register", "claim", "claim_failed", "xfer", "failed", "fail_reply"}

HandsInv ==
  /\ tcp \in HandLabels =>
       tcp_urb \in requested \ (xfers \cup freed) /\ Conn(tcp_urb) = conn
  /\ tcp = "unlink_reply" => tcp_urb \in requested
  /\ tcp \notin HandLabels \cup {"unlink_reply"} => tcp_urb = NoUrb
  /\ usb = "reply" => usb_urb \in requested \ (xfers \cup freed)
  /\ usb # "reply" => usb_urb = NoUrb
  /\ tcp \in HandLabels /\ usb = "reply" => tcp_urb # usb_urb

(* Nothing in the map has been freed or answered by a callback; outside of *)
(* on_device_disconnected nothing in it is flagged.                        *)
MapInv ==
  /\ (xfers \cup freed \cup pending \cup cancelled) \subseteq requested
  /\ xfers \cap freed = {}
  /\ pending \cap freed = {}
  /\ usb = "reply" => usb_urb \notin pending
  /\ tcp \in {"register", "fail_reply"} => tcp_urb \notin pending
  /\ tcp = "register" => tcp_urb \notin cancelled
  /\ usb # "enodev" => pending \cap cancelled = {}
  /\ tcp \in {"cleanup_close", "accept"} => pending = {}

ContextInv == TypeOK /\ HandsInv /\ MapInv /\ ContextOwned

(* A URB whose unlinking is, or will be, answered with ECONNRESET.         *)
Unlinked(u) ==
  "unlinked" \in Kinds(u) \/ (tcp = "unlink_reply" /\ status = "unlinked" /\ u = tcp_urb)

UnlinkInv ==
  /\ \A u \in Urbs \ requested : Kinds(u) = {}
  /\ \A u \in Urbs : tcp = "register" /\ u = tcp_urb => "submit" \notin Kinds(u)
  /\ \A u \in pending :
       usb = "enodev" \/ (tcp = "claim_failed" /\ u = tcp_urb) \/ "submit" \notin Kinds(u)
  /\ \A u \in Urbs : Unlinked(u) =>
       /\ u \in cancelled /\ u \notin pending /\ "submit" \notin Kinds(u)
       /\ ~InHand(u)

(* The socket belongs to the connection being served, and what is flagged  *)
(* or freed of its URBs has been answered, or is about to be.              *)
AnswerInv ==
  /\ client_sock \in {NoSock, conn}
  /\ tcp \in {"accept", "cleanup_pending", "cleanup_close"} => client_sock = NoSock
  /\ tcp \in HandLabels \cup {"unlink_reply"} => client_sock = conn
  /\ \A u \in requested : Conn(u) \in 1 .. conn
  /\ tcp = "recv" /\ client_sock = NoSock => \A u \in requested : Conn(u) # conn
  /\ \A u \in Urbs : tcp = "claim_failed" /\ u = tcp_urb => Kinds(u) # {}
  /\ \A u \in cancelled \cup freed : Conn(u) = client_sock =>
       Kinds(u) # {} \/ (tcp = "unlink_reply" /\ u = tcp_urb)

(* The constants as the proofs use them. *)
LEMMA Constants ==
  /\ MaxConns \in Nat /\ NoSock \notin Conns /\ NoUrb \notin Urbs
  /\ \A u \in Urbs : Conn(u) \in Conns
  /\ \A n \in 0 .. MaxConns : n < MaxConns => n + 1 \in Conns
BY UsbIpAssumption DEF Conns, NoSock, Urbs, NoUrb, Conn

(* What send_response does to the replies of each URB.                     *)
LEMMA SendResponseKinds ==
  ASSUME TypeOK, NEW u \in Urbs, NEW k \in {"submit", "unlinked", "unlink0"},
         SendResponse(u, k)
  PROVE  /\ replies' \in [Urbs -> Seq(Replies)]
         /\ \A v \in Urbs : v # u => Kinds(v)' = Kinds(v)
         /\ client_sock # NoSock => Kinds(u)' = Kinds(u) \cup {k}
         /\ client_sock = NoSock => Kinds(u)' = Kinds(u)
<1> USE Constants
<1> DEFINE reply == [sock |-> client_sock, kind |-> k]
<1>1. CASE client_sock = NoSock
  BY <1>1 DEF SendResponse, Kinds, TypeOK
<1>2. CASE client_sock # NoSock
  <2>1. reply \in Replies
    BY <1>2 DEF TypeOK, Replies
  <2>2. replies' = [replies EXCEPT ![u] = Append(replies[u], reply)]
    BY <1>2 DEF SendResponse
  <2>3. replies[u] \in Seq(Replies)
    BY DEF TypeOK
  <2> HIDE DEF reply
  <2>4. Append(replies[u], reply) \in Seq(Replies)
    BY <2>1, <2>3
  <2>5. replies' \in [Urbs -> Seq(Replies)] /\ replies'[u] = Append(replies[u], reply)
    BY <2>2, <2>4 DEF TypeOK
  <2>6. \A v \in Urbs : v # u => Kinds(v)' = Kinds(v)
    BY <2>2 DEF TypeOK, Kinds
  <2>7. Kinds(u)' = Kinds(u) \cup {k}
    <3>1. Len(replies'[u]) = Len(replies[u]) + 1 /\ Len(replies[u]) \in Nat
      BY <2>1, <2>3, <2>5
    <3>2. \A r \in 1 .. Len(replies[u]) : replies'[u][r] = replies[u][r]
      BY <2>1, <2>3, <2>5
    <3>3. replies'[u][Len(replies[u]) + 1].kind = k
      <4>1. replies'[u][Len(replies[u]) + 1] = reply
        BY <2>1, <2>3, <2>5
      <4> QED  BY <4>1 DEF reply
    <3>4. \A r : r \in 1 .. Len(replies'[u])
                   <=> r \in 1 .. Len(replies[u]) \/ r = Len(replies[u]) + 1
      BY <3>1
    <3>5. \A x : x \in Kinds(u)' <=> x \in Kinds(u) \cup {k}
      BY <3>2, <3>3, <3>4 DEF Kinds
    <3> QED  BY <3>5
  <2> QED  BY <1>2, <2>5, <2>6, <2>7
<1> QED  BY <1>1, <1>2

------------------------------------------------------------------------------
(* Where the contexts are *)

(* No context exists at first. *)
LEMMA InitContext == Init => ContextInv
<1> SUFFICES ASSUME Init PROVE ContextInv  OBVIOUS
<1>1. TypeOK
  <2>1. <<>> \in Seq(Replies)
    OBVIOUS
  <2>2. [u \in Urbs |-> <<>>] \in [Urbs -> Seq(Replies)]
    BY <2>1
  <2>3. conn \in 0 .. MaxConns
    BY UsbIpAssumption DEF Init
  <2> QED
    BY <2>2, <2>3 DEF Init, TypeOK, TcpLabels, UsbLabels
<1> QED
  BY <1>1 DEF Init, ContextInv, HandsInv, MapInv, ContextOwned, HandLabels

(* parse_request, up to the first step of a request.                       *)
LEMMA RequestContext ==
  ASSUME ContextInv, NEW u \in Urbs, SubmitRejected(u) \/ SubmitAccepted(u) \/ Unlink(u)
  PROVE  ContextInv'
<1> USE Constants
<1>1. CASE SubmitRejected(u)
  <2>1. client_sock' \in Conns
    BY <1>1 DEF SubmitRejected, ContextInv, TypeOK
  <2>2. replies' \in [Urbs -> Seq(Replies)]
    <3>1. <<[sock |-> conn, kind |-> "submit"]>> \in Seq(Replies)
      BY <1>1, <2>1 DEF SubmitRejected, Replies
    <3> QED  BY <1>1, <3>1 DEF SubmitRejected, ContextInv, TypeOK
  <2>3. TypeOK'
    BY <1>1, <2>1, <2>2
    DEF SubmitRejected, ContextInv, TypeOK, deviceVars, tcpVars, usbVars
  <2>4. HandsInv' /\ MapInv'
    BY <1>1 DEF SubmitRejected, ContextInv, HandsInv, MapInv, HandLabels, TypeOK, tcpVars, usbVars
  <2>5. ContextOwned'
    BY <1>1 DEF SubmitRejected, ContextInv, ContextOwned, InHand, tcpVars, usbVars
  <2> QED  BY <2>3, <2>4, <2>5 DEF ContextInv
<1>2. CASE SubmitAccepted(u)
  <2>1. client_sock' \in Conns
    BY <1>2 DEF SubmitAccepted, ContextInv, TypeOK
  <2>2. TypeOK'
    BY <1>2, <2>1
    DEF SubmitAccepted, ContextInv, TypeOK, deviceVars, usbVars, TcpLabels
  <2>3. HandsInv' /\ MapInv'
    BY <1>2 DEF SubmitAccepted, ContextInv, HandsInv, MapInv, HandLabels, TypeOK, usbVars
  <2>4. ContextOwned'
    BY <1>2
    DEF SubmitAccepted, ContextInv, ContextOwned, InHand, HandsInv, HandLabels, TypeOK, usbVars
  <2> QED  BY <2>2, <2>3, <2>4 DEF ContextInv
<1>3. CASE Unlink(u)
  <2>1. client_sock' \in Conns
    BY <1>3 DEF Unlink, ContextInv, TypeOK
  <2>2. TypeOK'
    BY <1>3, <2>1 DEF Unlink, ContextInv, TypeOK, deviceVars, usbVars, TcpLabels
  <2>3. HandsInv' /\ MapInv'
    BY <1>3
    DEF Unlink, ContextInv, HandsInv, MapInv, HandLabels, TypeOK, usbVars, PendingMutexFree
  <2>4. ContextOwned'
    BY <1>3 DEF Unlink, ContextInv, ContextOwned, InHand, HandsInv, HandLabels, TypeOK, usbVars
  <2> QED  BY <2>2, <2>3, <2>4 DEF ContextInv
<1> QED  BY <1>1, <1>2, <1>3

(* The later steps of a CMD_SUBMIT, and of a CMD_UNLINK.                   *)
LEMMA TransferContext ==
  ASSUME ContextInv,
         Register \/ Claim \/ XferSubmitted \/ XferFails \/ FailedForget
  PROVE  ContextInv'
<1> USE Constants
<1>1. CASE Register
  <2>1. TypeOK'
    <3>1. \A v \in pending' : v \in Urbs /\ Conn(v) = conn
      BY <1>1 DEF Register, ContextInv, TypeOK, HandsInv, HandLabels
    <3>2. \A v, w \in pending' : Seqnum(v) = Seqnum(w) => v = w
      BY <1>1 DEF Register, ContextInv, TypeOK
    <3> QED
      BY <1>1, <3>1, <3>2
      DEF Register, GotoTcp, ContextInv, TypeOK, TcpLabels, deviceVars, connVars, usbVars
  <2>2. HandsInv' /\ MapInv' /\ ContextOwned'
    BY <1>1
    DEF Register, GotoTcp, ContextInv, TypeOK, HandsInv, MapInv, ContextOwned, InHand,
        HandLabels, PendingMutexFree, connVars, usbVars
  <2> QED  BY <2>1, <2>2 DEF ContextInv
<1>2. CASE Claim
  <2>1. TypeOK'
    BY <1>2 DEF Claim, GotoTcp, ContextInv, TypeOK, TcpLabels, connVars, urbVars, usbVars
  <2>2. HandsInv' /\ MapInv' /\ ContextOwned'
    BY <1>2
    DEF Claim, GotoTcp, ContextInv, HandsInv, MapInv, ContextOwned, InHand, HandLabels,
        connVars, urbVars, usbVars
  <2> QED  BY <2>1, <2>2 DEF ContextInv
<1>3. CASE XferSubmitted
  <2>1. TypeOK'
    BY <1>3
    DEF XferSubmitted, ContextInv, TypeOK, HandsInv, HandLabels, TcpLabels, deviceVars,
        connVars, usbVars
  <2>2. HandsInv' /\ MapInv' /\ ContextOwned'
    BY <1>3
    DEF XferSubmitted, ContextInv, TypeOK, HandsInv, MapInv, ContextOwned, InHand, HandLabels,
        connVars, usbVars
  <2> QED  BY <2>1, <2>2 DEF ContextInv
<1>4. CASE XferFails
  <2>1. TypeOK'
    BY <1>4
    DEF XferFails, GotoTcp, ContextInv, TypeOK, TcpLabels, deviceVars, connVars, urbVars, usbVars
  <2>2. HandsInv' /\ MapInv' /\ ContextOwned'
    BY <1>4
    DEF XferFails, GotoTcp, ContextInv, HandsInv, MapInv, ContextOwned, InHand, HandLabels,
        connVars, urbVars, usbVars
  <2> QED  BY <2>1, <2>2 DEF ContextInv
<1>5. CASE FailedForget
  <2>1. TypeOK'
    BY <1>5
    DEF FailedForget, Erase, GotoTcp, ContextInv, TypeOK, TcpLabels, deviceVars, connVars, usbVars
  <2>2. HandsInv' /\ MapInv' /\ ContextOwned'
    BY <1>5
    DEF FailedForget, Erase, GotoTcp, ContextInv, HandsInv, MapInv, ContextOwned, InHand,
        HandLabels, connVars, usbVars
  <2> QED  BY <2>1, <2>2 DEF ContextInv
<1> QED  BY <1>1, <1>2, <1>3, <1>4, <1>5

(* The answers of the tcp task, and the URBs that it frees.                *)
LEMMA AnswerContext ==
  ASSUME ContextInv,
         ClaimFails \/ ClaimFailedForget \/ FailedReply \/ UnlinkReply
  PROVE  ContextInv'
<1> USE Constants
<1>1. tcp \in HandLabels \cup {"unlink_reply"} => tcp_urb \in requested /\ tcp_urb \in Urbs
  BY DEF ContextInv, HandsInv, TypeOK
<1>2. CASE ClaimFails
  <2>1. replies' \in [Urbs -> Seq(Replies)]
    BY <1>1, <1>2, SendResponseKinds DEF ClaimFails, ContextInv, HandLabels
  <2>2. TypeOK'
    BY <1>2, <2>1
    DEF ClaimFails, GotoTcp, ContextInv, TypeOK, TcpLabels, deviceVars, connVars, usbVars
  <2>3. HandsInv' /\ MapInv' /\ ContextOwned'
    BY <1>2
    DEF ClaimFails, GotoTcp, ContextInv, HandsInv, MapInv, ContextOwned, InHand, HandLabels,
        connVars, usbVars
  <2> QED  BY <2>2, <2>3 DEF ContextInv
<1>3. CASE ClaimFailedForget
  <2>1. TypeOK'
    BY <1>1, <1>3
    DEF ClaimFailedForget, Erase, ContextInv, TypeOK, TcpLabels, HandLabels, deviceVars,
        connVars, usbVars
  <2>2. HandsInv' /\ MapInv' /\ ContextOwned'
    BY <1>3
    DEF ClaimFailedForget, Erase, ContextInv, TypeOK, HandsInv, MapInv, ContextOwned, InHand,
        HandLabels, connVars, usbVars
  <2> QED  BY <2>1, <2>2 DEF ContextInv
<1>4. CASE FailedReply
  <2>1. replies' \in [Urbs -> Seq(Replies)]
    BY <1>1, <1>4, SendResponseKinds DEF FailedReply, ContextInv, HandLabels
  <2>2. TypeOK'
    BY <1>1, <1>4, <2>1
    DEF FailedReply, ContextInv, TypeOK, TcpLabels, HandLabels, deviceVars, connVars, usbVars
  <2>3. HandsInv' /\ MapInv' /\ ContextOwned'
    BY <1>4
    DEF FailedReply, ContextInv, TypeOK, HandsInv, MapInv, ContextOwned, InHand, HandLabels,
        connVars, usbVars
  <2> QED  BY <2>2, <2>3 DEF ContextInv
<1>5. CASE UnlinkReply
  <2>1. status \in {"submit", "unlinked", "unlink0"}
    BY DEF ContextInv, TypeOK
  <2>2. replies' \in [Urbs -> Seq(Replies)]
    BY <1>1, <1>5, <2>1, SendResponseKinds DEF UnlinkReply, ContextInv
  <2>3. TypeOK'
    BY <1>5, <2>2
    DEF UnlinkReply, ContextInv, TypeOK, TcpLabels, deviceVars, connVars, usbVars
  <2>4. HandsInv' /\ MapInv' /\ ContextOwned'
    BY <1>5
    DEF UnlinkReply, ContextInv, TypeOK, HandsInv, MapInv, ContextOwned, InHand, HandLabels,
        connVars, usbVars
  <2> QED  BY <2>3, <2>4 DEF ContextInv
<1> QED  BY <1>2, <1>3, <1>4, <1>5

(* Connections that begin and end.                                         *)
LEMMA ConnectionContext ==
  ASSUME ContextInv, Accept \/ Close \/ Cleanup
  PROVE  ContextInv'
<1> USE Constants
<1>1. CASE Accept
  <2>1. conn' \in Conns /\ conn' \in 0 .. MaxConns /\ pending = {}
    BY <1>1 DEF Accept, ContextInv, TypeOK, MapInv, Conns
  <2>2. TypeOK'
    BY <1>1, <2>1
    DEF Accept, GotoTcp, ContextInv, TypeOK, TcpLabels, deviceVars, urbVars, usbVars
  <2>3. HandsInv' /\ MapInv' /\ ContextOwned'
    BY <1>1, <2>1
    DEF Accept, GotoTcp, ContextInv, HandsInv, MapInv, ContextOwned, InHand, HandLabels,
        urbVars, usbVars
  <2> QED  BY <2>2, <2>3 DEF ContextInv
<1>2. CASE Close
  <2>1. TypeOK'
    BY <1>2 DEF Close, GotoTcp, ContextInv, TypeOK, TcpLabels, deviceVars, urbVars, usbVars
  <2>2. HandsInv' /\ MapInv' /\ ContextOwned'
    BY <1>2
    DEF Close, GotoTcp, ContextInv, HandsInv, MapInv, ContextOwned, InHand, HandLabels,
        urbVars, usbVars
  <2> QED  BY <2>1, <2>2 DEF ContextInv
<1>3. CASE CleanupPending
  <2>1. TypeOK'
    BY <1>3
    DEF CleanupPending, GotoTcp, ContextInv, TypeOK, TcpLabels, deviceVars, connVars, usbVars
  <2>2. HandsInv' /\ MapInv' /\ ContextOwned'
    BY <1>3
    DEF CleanupPending, GotoTcp, ContextInv, HandsInv, MapInv, ContextOwned, InHand,
        HandLabels, connVars, usbVars
  <2> QED  BY <2>1, <2>2 DEF ContextInv
<1>4. CASE CleanupClose
  <2>1. TypeOK'
    BY <1>4 DEF CleanupClose, GotoTcp, ContextInv, TypeOK, TcpLabels, urbVars, usbVars
  <2>2. HandsInv' /\ MapInv' /\ ContextOwned'
    BY <1>4
    DEF CleanupClose, GotoTcp, ContextInv, HandsInv, MapInv, ContextOwned, InHand, HandLabels,
        urbVars, usbVars
  <2> QED  BY <2>1, <2>2 DEF ContextInv
<1> QED  BY <1>1, <1>2, <1>3, <1>4 DEF Cleanup

(* The callbacks of the transfers.                                         *)
LEMMA CallbackContext ==
  ASSUME ContextInv,
         (\E u \in Urbs : CallbackCancelled(u) \/ Callback(u)) \/ CallbackReply
  PROVE  ContextInv'
<1> USE Constants
<1>1. ASSUME NEW u \in Urbs, CallbackCancelled(u) PROVE ContextInv'
  <2>1. TypeOK'
    BY <1>1
    DEF CallbackCancelled, ContextInv, TypeOK, deviceVars, connVars, tcpVars, usbVars
  <2>2. u \notin pending
    BY <1>1 DEF CallbackCancelled, IsCancelled, ContextInv, MapInv
  <2>3. HandsInv' /\ MapInv' /\ ContextOwned'
    BY <1>1, <2>2
    DEF CallbackCancelled, ContextInv, HandsInv, MapInv, ContextOwned, InHand, HandLabels,
        connVars, tcpVars, usbVars
  <2> QED  BY <2>1, <2>3 DEF ContextInv
<1>2. ASSUME NEW u \in Urbs, Callback(u) PROVE ContextInv'
  <2>1. TypeOK'
    BY <1>2 DEF Callback, Erase, ContextInv, TypeOK, UsbLabels, deviceVars, connVars, tcpVars
  <2>2. HandsInv' /\ MapInv' /\ ContextOwned'
    BY <1>2
    DEF Callback, Erase, ContextInv, TypeOK, HandsInv, MapInv, ContextOwned, InHand,
        HandLabels, connVars, tcpVars
  <2> QED  BY <2>1, <2>2 DEF ContextInv
<1>3. CASE CallbackReply
  <2>1. usb_urb \in Urbs
    BY <1>3 DEF CallbackReply, ContextInv, TypeOK, HandsInv
  <2>2. replies' \in [Urbs -> Seq(Replies)]
    BY <1>3, <2>1, SendResponseKinds DEF CallbackReply, ContextInv
  <2>3. TypeOK'
    BY <1>3, <2>1, <2>2
    DEF CallbackReply, ContextInv, TypeOK, UsbLabels, deviceVars, connVars, tcpVars
  <2>4. HandsInv' /\ MapInv' /\ ContextOwned'
    BY <1>3
    DEF CallbackReply, ContextInv, TypeOK, HandsInv, MapInv, ContextOwned, InHand, HandLabels,
        connVars, tcpVars
  <2> QED  BY <2>3, <2>4 DEF ContextInv
<1> QED  BY <1>1, <1>2, <1>3

(* The arrival and the removal of the device.                              *)
LEMMA DeviceContext ==
  ASSUME ContextInv,
         \/ DeviceConnected \/ DeviceGone \/ ClearPending \/ CloseDevice
         \/ \E u \in Urbs : AnswerNoDevice(u)
  PROVE  ContextInv'
<1> USE Constants
<1>1. CASE DeviceConnected \/ CloseDevice
  <2>1. {device_ready', opened', interfaces_claimed', claims'} \subseteq BOOLEAN
    BY <1>1 DEF DeviceConnected, CloseDevice, ContextInv, TypeOK
  <2>2. usb' \in UsbLabels
    BY <1>1 DEF DeviceConnected, CloseDevice, ContextInv, TypeOK, UsbLabels, usbVars
  <2>3. TypeOK'
    BY <1>1, <2>1, <2>2
    DEF DeviceConnected, CloseDevice, ContextInv, TypeOK, connVars, urbVars, tcpVars, usbVars
  <2>4. HandsInv' /\ MapInv' /\ ContextOwned'
    BY <1>1
    DEF DeviceConnected, CloseDevice, ContextInv, HandsInv, MapInv, ContextOwned, InHand,
        HandLabels, connVars, urbVars, tcpVars, usbVars
  <2> QED  BY <2>3, <2>4 DEF ContextInv
<1>2. CASE DeviceGone \/ ClearPending
  <2>1. {device_ready', opened', interfaces_claimed', claims'} \subseteq BOOLEAN
    BY <1>2 DEF DeviceGone, ClearPending, ContextInv, TypeOK, deviceVars
  <2>2. usb' \in UsbLabels
    BY <1>2 DEF DeviceGone, ClearPending, UsbLabels
  <2>3. TypeOK'
    BY <1>2, <2>1, <2>2
    DEF DeviceGone, ClearPending, ContextInv, TypeOK, connVars, urbVars, tcpVars
  <2>4. HandsInv' /\ MapInv' /\ ContextOwned'
    BY <1>2
    DEF DeviceGone, ClearPending, ContextInv, HandsInv, MapInv, ContextOwned, InHand,
        HandLabels, connVars, urbVars, tcpVars
  <2> QED  BY <2>3, <2>4 DEF ContextInv
<1>3. ASSUME NEW u \in Urbs, AnswerNoDevice(u) PROVE ContextInv'
  <2>1. replies' \in [Urbs -> Seq(Replies)]
    BY <1>3, SendResponseKinds DEF AnswerNoDevice, ContextInv
  <2>2. TypeOK'
    BY <1>3, <2>1
    DEF AnswerNoDevice, ContextInv, TypeOK, deviceVars, connVars, tcpVars, usbVars
  <2>3. tcp # "register" \/ u # tcp_urb
    BY <1>3 DEF AnswerNoDevice, ContextInv, MapInv
  <2>4. HandsInv' /\ MapInv' /\ ContextOwned'
    BY <1>3, <2>3
    DEF AnswerNoDevice, ContextInv, HandsInv, MapInv, ContextOwned, InHand, HandLabels,
        connVars, tcpVars, usbVars
  <2> QED  BY <2>2, <2>4 DEF ContextInv
<1> QED  BY <1>1, <1>2, <1>3

(* Every step keeps the ownership of contexts. *)
LEMMA ContextStep == ContextInv /\ [Next]_vars => ContextInv'
<1> SUFFICES ASSUME ContextInv, [Next]_vars PROVE ContextInv'  OBVIOUS
<1>1. CASE UNCHANGED vars
  <2>1. TypeOK'
    BY <1>1
    DEF ContextInv, TypeOK, vars, deviceVars, connVars, urbVars, tcpVars, usbVars
  <2>2. HandsInv' /\ MapInv' /\ ContextOwned'
    BY <1>1
    DEF ContextInv, HandsInv, MapInv, ContextOwned, InHand, vars, connVars, urbVars, tcpVars,
        usbVars
  <2> QED  BY <2>1, <2>2 DEF ContextInv
<1>2. CASE Next
  BY <1>2, RequestContext, TransferContext, AnswerContext, ConnectionContext,
     CallbackContext, DeviceContext
  DEF Next, ParseRequest, UsbTask
<1> QED  BY <1>1, <1>2

(* No context is lost, and none is used after it was freed: whichever of   *)
(* the two tasks unlinks, answers, fails, cleans up or loses the device,   *)
(* one of them or the host stack has each context that is not freed, and   *)
(* the map has none that is.                                               *)
THEOREM ContextsAreSound == Spec => []ContextsSound
<1>1. ContextInv => ContextsSound
  <2>1. ContextInv => NoUseAfterFree
    BY Constants DEF ContextInv, NoUseAfterFree, TypeOK, HandsInv, MapInv, InHand
  <2> QED  BY <2>1 DEF ContextInv, ContextsSound
<1> QED  BY <1>1, InitContext, ContextStep, PTL DEF Spec

------------------------------------------------------------------------------
(* What has been sent about a URB *)

(* What was answered changes with the replies only. *)
LEMMA SameKinds == UNCHANGED replies => \A u : Kinds(u)' = Kinds(u)
BY DEF Kinds

(* A URB without a device is answered at once, and no other. *)
LEMMA RejectedKinds ==
  ASSUME TypeOK, NEW u \in Urbs, SubmitRejected(u)
  PROVE  Kinds(u)' = {"submit"} /\ \A v \in Urbs : v # u => Kinds(v)' = Kinds(v)
<1> DEFINE answer == <<[sock |-> conn, kind |-> "submit"]>>
<1>1. replies'[u] = answer /\ \A v \in Urbs : v # u => replies'[v] = replies[v]
  BY DEF SubmitRejected, TypeOK
<1>2. Len(answer) = 1 /\ answer[1].kind = "submit"
  OBVIOUS
<1> HIDE DEF answer
<1>3. \A x : x \in Kinds(u)' <=> x \in {"submit"}
  BY <1>1, <1>2 DEF Kinds
<1> QED  BY <1>1, <1>3 DEF Kinds

(* A URB that is unlinked is flagged and out of the map, so that neither a  *)
(* callback nor on_device_disconnected answers it.                         *)
LEMMA UnlinkStep ==
  ASSUME ContextInv, UnlinkInv, [Next]_vars
  PROVE  UnlinkInv'
<1> USE Constants, SameKinds
<1>1. CASE UNCHANGED vars
  BY <1>1
  DEF UnlinkInv, Unlinked, InHand, vars, urbVars, tcpVars, usbVars
<1>2. ASSUME NEW u \in Urbs, SubmitRejected(u) PROVE UnlinkInv'
  <2>1. Kinds(u) = {} /\ Kinds(u)' = {"submit"}
    BY <1>2, RejectedKinds DEF SubmitRejected, UnlinkInv, ContextInv
  <2>2. \A v \in Urbs : v # u => Kinds(v)' = Kinds(v)
    BY <1>2, RejectedKinds DEF ContextInv
  <2>3. u \notin pending
    BY <1>2 DEF SubmitRejected, ContextInv, MapInv
  <2>4. /\ tcp = "recv" /\ requested' = requested \cup {u}
        /\ UNCHANGED <<pending, cancelled, xfers, tcp, tcp_urb, status, usb, usb_urb>>
        /\ \A v \in Urbs : Kinds(v)' # {} \/ Kinds(v)' = Kinds(v)
    BY <1>2, <2>1, <2>2 DEF SubmitRejected, tcpVars, usbVars
  <2>5. \A v \in Urbs : Unlinked(v)' => v # u /\ Unlinked(v)
    BY <2>1, <2>2, <2>4 DEF Unlinked
  <2>6. \A v \in Urbs : InHand(v)' = InHand(v)
    BY <2>4 DEF InHand
  <2>7. pending \subseteq Urbs
    BY DEF ContextInv, TypeOK
  <2> QED
    BY <2>1, <2>2, <2>3, <2>4, <2>5, <2>6, <2>7 DEF UnlinkInv
<1>3. ASSUME NEW u \in Urbs, SubmitAccepted(u) PROVE UnlinkInv'
  BY <1>3
  DEF SubmitAccepted, ContextInv, MapInv, TypeOK, UnlinkInv, Unlinked, InHand, usbVars
<1>4. ASSUME NEW u \in Urbs, Unlink(u) PROVE UnlinkInv'
  <2>1. "unlinked" \notin Kinds(u)
    BY <1>4 DEF Unlink, Kinds
  <2>2. u \in pending => "submit" \notin Kinds(u) /\ u # usb_urb
    BY <1>4
    DEF Unlink, PendingMutexFree, UnlinkInv, ContextInv, HandsInv, MapInv, TypeOK
  <2> QED
    BY <1>4, <2>1, <2>2
    DEF Unlink, ContextInv, HandsInv, HandLabels, TypeOK, UnlinkInv, Unlinked, InHand,
        PendingMutexFree, usbVars
<1>5. CASE Register
  BY <1>5
  DEF Register, GotoTcp, PendingMutexFree, ContextInv, HandsInv, HandLabels, TypeOK, UnlinkInv,
      Unlinked, InHand, usbVars
<1>6. CASE Claim \/ XferFails \/ FailedForget
  BY <1>6
  DEF Claim, XferFails, FailedForget, Erase, GotoTcp, UnlinkInv, Unlinked, InHand, urbVars,
      usbVars
<1>7. CASE ClaimFailedForget \/ XferSubmitted
  BY <1>7
  DEF ClaimFailedForget, XferSubmitted, Erase, ContextInv, HandsInv, HandLabels, TypeOK,
      UnlinkInv, Unlinked, InHand, usbVars
<1>8. CASE Accept \/ Close \/ Cleanup
  BY <1>8
  DEF Accept, Close, Cleanup, CleanupPending, CleanupClose, GotoTcp, UnlinkInv, Unlinked,
      InHand, urbVars, usbVars
<1>9. ASSUME NEW u \in Urbs, CallbackCancelled(u) \/ Callback(u) PROVE UnlinkInv'
  BY <1>9
  DEF CallbackCancelled, Callback, IsCancelled, Erase, ContextInv, TypeOK, UnlinkInv, Unlinked,
      InHand, tcpVars, usbVars
<1>10. CASE DeviceConnected \/ DeviceGone \/ ClearPending \/ CloseDevice
  BY <1>10
  DEF DeviceConnected, DeviceGone, ClearPending, CloseDevice, UnlinkInv, Unlinked, InHand,
      urbVars, tcpVars, usbVars
<1>11. CASE ClaimFails \/ FailedReply
  <2>1. PICK u \in Urbs : u = tcp_urb /\ InHand(u)
    BY <1>11
    DEF ClaimFails, FailedReply, ContextInv, HandsInv, HandLabels, TypeOK, InHand
  <2>2. /\ \A v \in Urbs : v # u => Kinds(v)' = Kinds(v)
        /\ Kinds(u)' \subseteq Kinds(u) \cup {"submit"}
    BY <1>11, <2>1, SendResponseKinds DEF ClaimFails, FailedReply, ContextInv
  <2> QED
    BY <1>11, <2>1, <2>2
    DEF ClaimFails, FailedReply, GotoTcp, ContextInv, HandsInv, HandLabels, MapInv, TypeOK,
        UnlinkInv, Unlinked, InHand, usbVars
<1>12. CASE UnlinkReply
  <2>1. PICK u \in Urbs : u = tcp_urb /\ u \in requested
    BY <1>12 DEF UnlinkReply, ContextInv, HandsInv, TypeOK
  <2>2. status \in {"unlinked", "unlink0"}
    BY DEF ContextInv, TypeOK
  <2>3. /\ \A v \in Urbs : v # u => Kinds(v)' = Kinds(v)
        /\ \A k \in Kinds(u)' : k \in Kinds(u) \/ k = status
    BY <1>12, <2>1, <2>2, SendResponseKinds DEF UnlinkReply, ContextInv
  <2>4. /\ tcp = "unlink_reply" /\ tcp' = "recv" /\ tcp_urb' = NoUrb
        /\ UNCHANGED <<requested, pending, cancelled, usb, usb_urb>>
    BY <1>12 DEF UnlinkReply, usbVars
  <2>5. \A v \in Urbs : Unlinked(v)' => Unlinked(v)
    BY <1>12, <2>1, <2>3, <2>4 DEF Unlinked, UnlinkReply
  <2>6. \A v \in Urbs : InHand(v)' => InHand(v)
    BY <2>4 DEF InHand
  <2>7. \A v \in Urbs : "submit" \in Kinds(v)' => "submit" \in Kinds(v)
    BY <2>1, <2>2, <2>3
  <2>8. pending \subseteq Urbs
    BY DEF ContextInv, TypeOK
  <2> QED
    BY <2>1, <2>3, <2>4, <2>5, <2>6, <2>7, <2>8 DEF UnlinkInv
<1>13. CASE CallbackReply
  <2>1. PICK u \in Urbs : u = usb_urb /\ u \in requested \ pending /\ InHand(u)
    BY <1>13 DEF CallbackReply, ContextInv, HandsInv, MapInv, TypeOK, InHand
  <2>2. /\ \A v \in Urbs : v # u => Kinds(v)' = Kinds(v)
        /\ Kinds(u)' \subseteq Kinds(u) \cup {"submit"}
    BY <1>13, <2>1, SendResponseKinds DEF CallbackReply, ContextInv
  <2>3. tcp = "register" => tcp_urb # u
    BY <1>13, <2>1 DEF CallbackReply, ContextInv, HandsInv, HandLabels
  <2>4. \A v \in pending' : v \in Urbs /\ v # u
    BY <1>13, <2>1 DEF CallbackReply, ContextInv, TypeOK
  <2>5. ASSUME NEW v \in Urbs, Unlinked(v)'
        PROVE  (v \in cancelled /\ v \notin pending /\ "submit" \notin Kinds(v) /\ ~InHand(v))'
    <3>1. Unlinked(v)
      BY <1>13, <2>2, <2>5 DEF CallbackReply, Unlinked, tcpVars
    <3>2. v # u
      BY <2>1, <3>1 DEF UnlinkInv
    <3> QED
      BY <1>13, <2>2, <3>1, <3>2 DEF CallbackReply, UnlinkInv, InHand, tcpVars
  <2> QED
    BY <1>13, <2>1, <2>2, <2>3, <2>4, <2>5 DEF CallbackReply, UnlinkInv, tcpVars
<1>14. ASSUME NEW u \in Urbs, AnswerNoDevice(u) PROVE UnlinkInv'
  <2>1. /\ \A v \in Urbs : v # u => Kinds(v)' = Kinds(v)
        /\ Kinds(u)' \subseteq Kinds(u) \cup {"submit"}
    BY <1>14, SendResponseKinds DEF AnswerNoDevice, ContextInv
  <2>2. u \in pending /\ (tcp = "register" => u # tcp_urb)
    BY <1>14 DEF AnswerNoDevice, ContextInv, MapInv
  <2> QED
    BY <1>14, <2>1, <2>2
    DEF AnswerNoDevice, ContextInv, HandsInv, HandLabels, MapInv, TypeOK, UnlinkInv, Unlinked,
        InHand, tcpVars, usbVars
<1> QED
  BY <1>1, <1>2, <1>3, <1>4, <1>5, <1>6, <1>7, <1>8, <1>9, <1>10, <1>11,
     <1>12, <1>13, <1>14
  DEF Next, ParseRequest, UsbTask

(* A URB whose CMD_UNLINK is answered with ECONNRESET gets no RET_SUBMIT,  *)
(* neither before nor after: parse_request takes it out of the map and     *)
(* flags it in one section of pending_mutex_, and whoever answers a URB    *)
(* takes it out of the map or looks at the flag.                           *)
THEOREM UnlinkIsFinal == Spec => []UnlinkSuppresses
<1>1. Init => UnlinkInv
  BY DEF Init, UnlinkInv, Unlinked, Kinds
<1>2. UnlinkInv => UnlinkSuppresses
  BY DEF UnlinkInv, UnlinkSuppresses, Unlinked
<1> QED  BY <1>1, <1>2, InitContext, ContextStep, UnlinkStep, PTL DEF Spec

(* While a client is served, what is freed or flagged of its URBs has been *)
(* answered: each answer of parse_request and of the callbacks goes out    *)
(* before the context is freed, and a client that has gone has no socket.  *)
LEMMA AnswerStep ==
  ASSUME ContextInv, AnswerInv, [Next]_vars
  PROVE  AnswerInv'
<1> USE Constants, SameKinds
<1>1. CASE UNCHANGED vars
  BY <1>1 DEF AnswerInv, vars, connVars, urbVars, tcpVars
<1>2. ASSUME NEW u \in Urbs, SubmitRejected(u) PROVE AnswerInv'
  <2>1. Kinds(u)' = {"submit"} /\ \A v \in Urbs : v # u => Kinds(v)' = Kinds(v)
    BY <1>2, RejectedKinds DEF ContextInv
  <2>2. client_sock' = conn /\ conn' = conn /\ conn \in Conns
    BY <1>2 DEF SubmitRejected
  <2>3. \A v \in cancelled \cup freed : Conn(v) = conn => Conn(v) = client_sock
    BY <1>2 DEF SubmitRejected, ContextInv, MapInv, AnswerInv
  <2>4. \A v \in (cancelled \cup freed)' : Conn(v) = client_sock' => Kinds(v)' # {}
    BY <1>2, <2>1, <2>2, <2>3 DEF SubmitRejected, ContextInv, TypeOK, AnswerInv
  <2>5. \A v \in requested' : Conn(v) \in 1 .. conn'
    BY <1>2, <2>2 DEF SubmitRejected, AnswerInv, Conns
  <2>6. tcp' = "recv" /\ client_sock' # NoSock
    BY <1>2, <2>2 DEF SubmitRejected, tcpVars
  <2> QED
    BY <2>2, <2>4, <2>5, <2>6 DEF AnswerInv, HandLabels
<1>3. ASSUME NEW u \in Urbs, SubmitAccepted(u) PROVE AnswerInv'
  <2>1. client_sock' = conn /\ conn' = conn /\ conn \in Conns
    BY <1>3 DEF SubmitAccepted
  <2>2. \A v \in cancelled \cup freed : Conn(v) = conn => Conn(v) = client_sock
    BY <1>3 DEF SubmitAccepted, ContextInv, MapInv, AnswerInv
  <2> QED
    BY <1>3, <2>1, <2>2 DEF SubmitAccepted, AnswerInv, Conns
<1>4. ASSUME NEW u \in Urbs, Unlink(u) PROVE AnswerInv'
  <2>1. client_sock = conn /\ conn \in Conns
    BY <1>4 DEF Unlink, AnswerInv
  <2> QED
    BY <1>4, <2>1 DEF Unlink, AnswerInv
<1>5. CASE Register \/ Claim \/ XferFails \/ FailedForget
  BY <1>5
  DEF Register, Claim, XferFails, FailedForget, GotoTcp, AnswerInv, HandLabels, connVars, urbVars
<1>6. CASE ClaimFailedForget \/ XferSubmitted
  <2>1. PICK u \in Urbs : u = tcp_urb /\ u \in requested
    BY <1>6 DEF ClaimFailedForget, XferSubmitted, ContextInv, HandsInv, HandLabels, TypeOK
  <2>2. client_sock = conn
    BY <1>6 DEF ClaimFailedForget, XferSubmitted, AnswerInv, HandLabels
  <2> QED
    BY <1>6, <2>1, <2>2
    DEF ClaimFailedForget, XferSubmitted, ContextInv, TypeOK, AnswerInv, connVars
<1>7. CASE Accept
  <2>1. client_sock = NoSock /\ conn' = conn + 1 /\ conn \in Nat
    BY <1>7 DEF Accept, AnswerInv, ContextInv, TypeOK
  <2>2. \A u \in requested : u \in Urbs /\ Conn(u) \in Conns /\ Conn(u) <= conn
    BY <2>1 DEF AnswerInv, ContextInv, TypeOK
  <2> QED
    BY <1>7, <2>1, <2>2
    DEF Accept, GotoTcp, AnswerInv, ContextInv, MapInv, TypeOK, HandLabels, Conns, urbVars
<1>8. CASE Close \/ Cleanup
  BY <1>8
  DEF Close, Cleanup, CleanupPending, CleanupClose, GotoTcp, AnswerInv, ContextInv, MapInv,
      TypeOK, HandLabels, connVars, urbVars
<1>9. ASSUME NEW u \in Urbs, CallbackCancelled(u) \/ Callback(u) PROVE AnswerInv'
  BY <1>9
  DEF CallbackCancelled, Callback, IsCancelled, AnswerInv, connVars, tcpVars
<1>10. CASE DeviceConnected \/ DeviceGone \/ ClearPending \/ CloseDevice
  BY <1>10
  DEF DeviceConnected, DeviceGone, ClearPending, CloseDevice, AnswerInv, connVars, urbVars,
      tcpVars
<1>11. CASE ClaimFails \/ FailedReply \/ UnlinkReply
  <2>1. PICK u \in Urbs : u = tcp_urb /\ u \in requested
    BY <1>11
    DEF ClaimFails, FailedReply, UnlinkReply, ContextInv, HandsInv, HandLabels, TypeOK
  <2>2. client_sock = conn /\ Conn(u) \in 1 .. conn /\ conn # NoSock
    BY <1>11, <2>1
    DEF ClaimFails, FailedReply, UnlinkReply, AnswerInv, HandLabels, NoSock, ContextInv, TypeOK
  <2>3. status \in {"submit", "unlinked", "unlink0"}
    BY DEF ContextInv, TypeOK
  <2>4. Kinds(u)' # {} /\ \A v \in Urbs : v # u => Kinds(v)' = Kinds(v)
    BY <1>11, <2>1, <2>2, <2>3, SendResponseKinds
    DEF ClaimFails, FailedReply, UnlinkReply, ContextInv
  <2> QED
    BY <1>11, <2>1, <2>2, <2>4
    DEF ClaimFails, FailedReply, UnlinkReply, GotoTcp, ContextInv, TypeOK, AnswerInv,
        HandLabels, connVars
<1>12. CASE CallbackReply \/ \E u \in Urbs : AnswerNoDevice(u)
  <2>1. PICK u \in Urbs : (CallbackReply /\ u = usb_urb) \/ AnswerNoDevice(u)
    BY <1>12 DEF CallbackReply, ContextInv, HandsInv, TypeOK
  <2>2. /\ \A v \in Urbs : v # u => Kinds(v)' = Kinds(v)
        /\ Kinds(u) \subseteq Kinds(u)'
        /\ client_sock # NoSock => Kinds(u)' # {}
    BY <2>1, SendResponseKinds DEF CallbackReply, AnswerNoDevice, ContextInv
  <2> QED
    BY <2>1, <2>2
    DEF CallbackReply, AnswerNoDevice, ContextInv, TypeOK, AnswerInv, connVars, tcpVars
<1> QED
  BY <1>1, <1>2, <1>3, <1>4, <1>5, <1>6, <1>7, <1>8, <1>9, <1>10, <1>11, <1>12
  DEF Next, ParseRequest, UsbTask

(* No URB of the client is forgotten: whatever fails, is unlinked or loses *)
(* its device, it is answered, or a transfer or a task still has it.       *)
THEOREM NoneForgotten == Spec => []NoUrbForgotten
<1>1. Init => AnswerInv
  BY DEF Init, AnswerInv, HandLabels
<1>2. ContextInv /\ AnswerInv => NoUrbForgotten
  <2>1. \A u : Kinds(u) # {} => Len(replies[u]) # 0
    BY DEF Kinds
  <2>2. \A u \in requested : Kinds(u) # {} => replies[u] # <<>>
    BY <2>1
  <2> QED
    BY <2>2 DEF ContextInv, ContextOwned, InHand, AnswerInv, NoUrbForgotten
<1> QED  BY <1>1, <1>2, InitContext, ContextStep, AnswerStep, PTL DEF Spec
==============================================================================
