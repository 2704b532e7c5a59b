------------------------------- MODULE UsbClient -------------------------------
(***************************************************************************)
(* The life of a device in a USBClient (usb_host_client.cpp).  The host    *)
(* stack announces devices that come and, to a client that has them open,  *)
(* go; client_event_cb queues the events on the USB task, and loop() on    *)
(* the main loop drains the queue and then opens the device it was told    *)
(* of, while devices keep coming and going.                                *)
(*                                                                         *)
(* A device object of the host stack is both the address and the handle of *)
(* a device; it is reused once the device has gone and nobody has it open. *)
(***************************************************************************)
EXTENDS Naturals, Sequences, FiniteSets

CONSTANTS
  Devices,    \* what can be plugged in
  Ours,       \* those whose vendor and product are the client's
  Objects,    \* the device objects of the host stack
  QueueSize   \* USB_EVENT_QUEUE_SIZE: the queue and its pool hold one less

ASSUME ClientAssumption ==
  /\ Ours \subseteq Devices /\ QueueSize \in Nat \ {0, 1}

CONSTANTS Free, NoObject
ASSUME FreeAssumption == Free \notin Devices /\ NoObject \notin Objects

VARIABLES
  device,         \* the device of each object, or Free
  gone,           \* the objects still open whose device has gone
  open,           \* the objects the client has open
  unclosed,       \* history: those of them whose closing has failed
  event_queue,    \* event_queue
  in_hand,        \* whether loop() holds an event of the pool
  state,          \* state_
  device_addr,    \* device_addr_
  device_handle,  \* device_handle_
  loop_enabled, wake, had_work,  \* as in ConfigMachine
  pc,             \* where loop() is
  dropped,        \* history: an event was dropped
  mishap          \* history: a device was announced before loop() was through
                  \* with the last event, or gave a request an error

bus == <<device, gone, open, unclosed>>
client == <<state, device_addr, device_handle>>
history == <<dropped, mishap>>
vars == <<bus, event_queue, in_hand, client, loop_enabled, wake, had_work, pc, history>>

Events == [type : {"new", "gone"}, object : Objects]

TypeOK ==
  /\ device \in [Objects -> Devices \cup {Free}]
  /\ gone \subseteq open /\ unclosed \subseteq open
  /\ open \subseteq {o \in Objects : device[o] # Free}
  /\ event_queue \in Seq(Events) /\ Len(event_queue) < QueueSize
  /\ {in_hand, loop_enabled, wake, had_work, dropped, mishap} \subseteq BOOLEAN
  /\ state \in {"init", "open", "connected"}
  /\ {device_addr, device_handle} \subseteq Objects \cup {NoObject}
  /\ pc \in {"idle", "events", "opened", "end"}

Init ==
  /\ device = [o \in Objects |-> Free]
  /\ gone = {} /\ open = {} /\ unclosed = {}
  /\ event_queue = <<>> /\ in_hand = FALSE
  /\ state = "init"
  /\ device_addr = NoObject /\ device_handle = NoObject
  /\ loop_enabled = TRUE /\ wake = FALSE /\ had_work = FALSE
  /\ pc = "idle"
  /\ dropped = FALSE /\ mishap = FALSE

------------------------------------------------------------------------------
(* client_event_cb: an event of the pool is queued and the loop woken; with *)
(* the pool empty the event is only counted as dropped.                     *)
PoolEmpty == Len(event_queue) + (IF in_hand THEN 1 ELSE 0) = QueueSize - 1

ClientEvent(type, o) ==
  IF PoolEmpty
    THEN dropped' = TRUE /\ UNCHANGED <<event_queue, wake>>
    ELSE /\ event_queue' = Append(event_queue, [type |-> type, object |-> o])
         /\ wake' = TRUE
         /\ UNCHANGED dropped

Present(o) == device[o] # Free /\ o \notin gone
Plugged(d) == \E o \in Objects \ gone : device[o] = d

(* loop() is through with the last event, and asleep. *)
Quiet == event_queue = <<>> /\ pc = "idle" /\ ~wake /\ ~loop_enabled

Plug(d, o) ==
  /\ ~Plugged(d)
  /\ device[o] = Free
  /\ device' = [device EXCEPT ![o] = d]
  /\ ClientEvent("new", o)
  /\ mishap' = (mishap \/ ~Quiet)
  /\ UNCHANGED <<gone, open, unclosed, in_hand, client, loop_enabled, had_work, pc>>

(* A device the client does not have open disappears without a word. *)
Unplug(o) ==
  /\ Present(o)
  /\ IF o \in open
       THEN /\ gone' = gone \cup {o}
            /\ ClientEvent("gone", o)
            /\ UNCHANGED device
       ELSE /\ device' = [device EXCEPT ![o] = Free]
            /\ UNCHANGED <<gone, event_queue, wake, dropped>>
  /\ UNCHANGED <<open, unclosed, in_hand, client, loop_enabled, had_work, pc, mishap>>

------------------------------------------------------------------------------
(* Mutant: the device is not closed. *)
DisconnectMutant ==
  /\ state' = "init"
  /\ device_addr' = NoObject
  /\ device_handle' = NoObject
  /\ UNCHANGED bus

(* usb_host_device_close: the device is not open any more; the host stack  *)
(* frees the object of one that has gone.                                  *)
CloseDevice ==
  /\ open' = open \ {device_handle}
  /\ gone' = gone \ {device_handle}
  /\ device' = [o \in Objects |-> IF o = device_handle /\ o \in gone THEN Free ELSE device[o]]
  /\ UNCHANGED unclosed

(* It may be refused, as it is while an interface is claimed (the result   *)
(* of usb_host_interface_release is ignored, usb_uart.cpp:472-477): the    *)
(* device stays open.                                                      *)
CloseFails ==
  /\ unclosed' = unclosed \cup {device_handle}
  /\ UNCHANGED <<device, gone, open>>

(* disconnect(): the device is closed, and forgotten whatever came of it.  *)
Disconnect ==
  /\ CloseDevice \/ CloseFails
  /\ state' = "init"
  /\ device_addr' = NoObject
  /\ device_handle' = NoObject

------------------------------------------------------------------------------
(* loop() and process_usb_events_ *)
LoopBegin ==
  /\ pc = "idle"
  /\ loop_enabled \/ wake
  /\ loop_enabled' = TRUE
  /\ wake' = FALSE
  /\ had_work' = FALSE
  /\ pc' = "events"
  /\ UNCHANGED <<bus, event_queue, in_hand, client, history>>

Pop ==
  /\ pc = "events" /\ ~in_hand
  /\ event_queue # <<>>
  /\ event_queue' = Tail(event_queue)
  /\ in_hand' = TRUE
  /\ had_work' = TRUE

(* on_opened: the device is noted if the client has none. *)
OnOpened ==
  /\ Pop
  /\ Head(event_queue).type = "new"
  /\ IF state = "init"
       THEN device_addr' = Head(event_queue).object /\ state' = "open"
       ELSE UNCHANGED <<device_addr, state>>
  /\ UNCHANGED <<bus, device_handle, loop_enabled, wake, pc, history>>

(* Mutant: the handle of the event is not looked at. *)
IsOursMutant(o) == TRUE

(* Mutant: a device that has gone is taken for another one. *)
IsOursNeverMutant(o) == FALSE

IsOurs(o) == device_handle = o

(* on_removed: the device is given up if it is the one the client has. *)
OnRemoved ==
  /\ Pop
  /\ Head(event_queue).type = "gone"
  /\ IF IsOurs(Head(event_queue).object) THEN Disconnect ELSE UNCHANGED <<bus, client>>
  /\ UNCHANGED <<loop_enabled, wake, pc, history>>

(* The event goes back to the pool. *)
ReleaseEvent ==
  /\ in_hand
  /\ in_hand' = FALSE
  /\ UNCHANGED <<bus, event_queue, client, loop_enabled, wake, had_work, pc, history>>

(* The queue is empty and no device waits to be opened. *)
NothingToOpen ==
  /\ pc = "events" /\ ~in_hand
  /\ event_queue = <<>>
  /\ state # "open"
  /\ pc' = "end"
  /\ UNCHANGED <<bus, event_queue, in_hand, client, loop_enabled, wake, had_work, history>>

(* handle_open_state_: the device is opened ... *)
OpenReady == pc = "events" /\ ~in_hand /\ event_queue = <<>> /\ state = "open"

OpenDevice ==
  /\ OpenReady
  /\ device[device_addr] # Free
  /\ open' = open \cup {device_addr}
  /\ device_handle' = device_addr
  /\ had_work' = TRUE
  /\ pc' = "opened"
  /\ UNCHANGED <<device, gone, unclosed, event_queue, in_hand, state, device_addr,
                 loop_enabled, wake, history>>

(* ... or that fails, because it has gone or for another reason. *)
OpenFails ==
  /\ OpenReady
  /\ state' = "init"
  /\ had_work' = TRUE
  /\ pc' = "end"
  /\ mishap' = (mishap \/ Present(device_addr))
  /\ UNCHANGED <<bus, event_queue, in_hand, device_addr, device_handle, loop_enabled, wake, dropped>>

(* It is another's, or a request to it fails, or on_connected gives it up. *)
Reject ==
  /\ pc = "opened"
  /\ Disconnect
  /\ pc' = "end"
  /\ mishap' = (mishap \/ (Present(device_handle) /\ device[device_handle] \in Ours))
  /\ UNCHANGED <<event_queue, in_hand, loop_enabled, wake, had_work, dropped>>

Connect ==
  /\ pc = "opened"
  /\ device[device_handle] \in Ours
  /\ state' = "connected"
  /\ pc' = "end"
  /\ UNCHANGED <<bus, event_queue, in_hand, device_addr, device_handle, loop_enabled, wake,
                 had_work, history>>

LoopEnd ==
  /\ pc = "end"
  /\ loop_enabled' = had_work
  /\ pc' = "idle"
  /\ UNCHANGED <<bus, event_queue, in_hand, client, wake, had_work, history>>

------------------------------------------------------------------------------
Loop ==
  \/ LoopBegin \/ OnOpened \/ OnRemoved \/ ReleaseEvent
  \/ NothingToOpen \/ OpenDevice \/ OpenFails \/ Reject \/ Connect \/ LoopEnd

Next ==
  \/ \E d \in Devices, o \in Objects : Plug(d, o)
  \/ \E o \in Objects : Unplug(o)
  \/ Loop

Spec == Init /\ [][Next]_vars

(* The application keeps calling loop(). *)
FairSpec == Spec /\ WF_vars(Loop)

------------------------------------------------------------------------------
(* A device stays open only because its closing was refused: apart from   *)
(* those, what is open is what device_handle_ names, whichever request      *)
(* failed after the opening and whatever was removed meanwhile; and the     *)
(* client never holds a device whose closing has failed.                    *)
OpenIsHeld ==
  /\ open \ unclosed = {device_handle} \ {NoObject}
  /\ device_handle \notin unclosed

(* In a well-typed state, the client holds what it has opened, up to what  *)
(* could not be closed.                                                    *)
OpenSound == TypeOK /\ OpenIsHeld

(* A removal takes effect only for a device that has gone: an event that   *)
(* comes late, when its handle may be another device's, does not make the  *)
(* client drop that one (usb_host_client.cpp:347-351).                     *)
NoFalseRemoval ==
  [][OnRemoved /\ state # "init" /\ state' = "init" => device_handle \in gone]_vars

(* A client whose device goes notices it and gives the handle up, unless   *)
(* the event of that or of an earlier change was dropped because the pool  *)
(* was empty.                                                              *)
RemovalNoticed ==
  \A o \in Objects : (o \in gone /\ device_handle = o) ~> (device_handle # o \/ dropped)

(* README.md:19: "device reconnects automatically after unplug/replug".    *)
(* A device of ours that is plugged in and stays is connected and stays    *)
(* connected.  The code relies on three things: no event is dropped, a     *)
(* device is announced only when loop() is through with the last event     *)
(* (its enumeration takes many rounds of USBHost::loop, which runs on the  *)
(* main loop too), and no request to a device that is there fails.         *)
Connected(d) == state = "connected" /\ \E o \in open \ gone : device[o] = d
HotPlug ==
  \A d \in Ours : <>[]Plugged(d) => <>[]Connected(d) \/ <>(dropped \/ mishap)

------------------------------------------------------------------------------
(* What the code does not guarantee: TLC refutes it (README.md).           *)

(* usb_host_client.cpp:412-416: a device whose closing fails is forgotten  *)
(* all the same; nobody has its handle, and it is open for ever.           *)
NothingLeaked == open = {device_handle} \ {NoObject}
==============================================================================
