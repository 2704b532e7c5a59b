----------------------------- MODULE ConfigMachine -----------------------------
(***************************************************************************)
(* The state machine that configures the channels of a USBUartComponent    *)
(* (usb_uart.cpp).  loop() on the main loop issues one control transfer at *)
(* a time and goes to sleep; the callback on the USB task writes cfg_ok_,  *)
(* publishes it with cfg_done_ and wakes the loop.  Devices come and go    *)
(* and the application changes the settings of a channel at any time.      *)
(*                                                                         *)
(* The variables have the names of the members without "cfg_".  Channels   *)
(* are numbered as in channels_.                                           *)
(***************************************************************************)
EXTENDS Naturals, Sequences

CONSTANTS
  NumChannels,  \* the length of channels_
  DeviceSteps,  \* the transfers of the driver's config_device_step
  InitSteps,    \* the transfers of its config_step on a full init
  ReloadSteps   \* the transfers of its config_step on a reload

ASSUME ConfigAssumption ==
  /\ NumChannels \in Nat \ {0} /\ DeviceSteps \in Nat
  /\ InitSteps \in Nat \ {0} /\ ReloadSteps \in Nat \ {0}

Channels == 0 .. NumChannels - 1
NoChannel == NumChannels           \* nullptr

VARIABLES
  connected,     \* state_ is USB_CLIENT_CONNECTED
  initialised,   \* initialised_ of each channel
  flowing,       \* the channels whose started flags were cleared
  active, reload, device_phase, in_flight, ok, done,
  step, channel_idx,
  single,        \* the channel being reloaded, or NoChannel
  pending,       \* cfg_pending_reload_
  transfers,     \* the control transfers the host stack holds
  loop_enabled,  \* whether the application calls loop()
  wake,          \* enable_loop_soon_any_context() has been called
  had_work,      \* loop(): so far
  main, usb,     \* where the two threads are
  steps_done,    \* how many init transfers of a channel succeeded, ...
  unapplied      \* ... and the settings changed since a sequence began

machine == <<active, reload, device_phase, step, channel_idx, single>>
channelVars == <<connected, initialised, flowing>>
history == <<steps_done, unapplied>>
vars == <<channelVars, machine, in_flight, ok, done, pending, transfers,
          loop_enabled, wake, had_work, main, usb, history>>

(* What a control transfer is for: a step of a channel, or of the device. *)
Purposes == [channel : Channels \cup {NoChannel}, reload : BOOLEAN]

Steps == 0 .. DeviceSteps + InitSteps + ReloadSteps

TypeOK ==
  /\ {connected, active, reload, device_phase, in_flight, ok, done} \subseteq BOOLEAN
  /\ {loop_enabled, wake, had_work} \subseteq BOOLEAN
  /\ initialised \in [Channels -> BOOLEAN]
  /\ flowing \in [Channels -> BOOLEAN]
  /\ step \in Steps
  /\ channel_idx \in 0 .. NumChannels
  /\ {single, pending} \subseteq Channels \cup {NoChannel}
  /\ transfers \in Seq(Purposes)
  /\ main \in {"idle", "config", "phase", "submit", "issued", "end"}
  /\ usb \in {"idle", "publish", "wake"}
  /\ steps_done \in [Channels -> 0 .. InitSteps]
  /\ unapplied \in [Channels -> BOOLEAN]

Init ==
  /\ connected = FALSE
  /\ initialised = [c \in Channels |-> FALSE]
  /\ flowing = [c \in Channels |-> FALSE]
  /\ active = FALSE /\ reload = FALSE /\ device_phase = FALSE
  /\ in_flight = FALSE /\ ok = TRUE /\ done = FALSE
  /\ step = 0 /\ channel_idx = 0
  /\ single = NoChannel /\ pending = NoChannel
  /\ transfers = <<>>
  /\ loop_enabled = TRUE /\ wake = FALSE /\ had_work = FALSE
  /\ main = "idle" /\ usb = "idle"
  /\ steps_done = [c \in Channels |-> 0]
  /\ unapplied = [c \in Channels |-> FALSE]

------------------------------------------------------------------------------
(* start_config_, with cfg_single_ and cfg_channel_idx_ set by the caller. *)
StartConfig(r) ==
  /\ reload' = r
  /\ device_phase' = ~r
  /\ step' = 0
  /\ ok' = TRUE
  /\ in_flight' = FALSE
  /\ done' = FALSE
  /\ active' = TRUE

(* Mutant: a request made while the machine is busy is ignored. *)
LoadSettingsMutant(c) ==
  /\ main = "idle"
  /\ unapplied' = [unapplied EXCEPT ![c] = TRUE]
  /\ \/ /\ active
        /\ UNCHANGED <<machine, in_flight, ok, done, loop_enabled>>
     \/ /\ ~active
        /\ single' = c
        /\ StartConfig(TRUE)
        /\ loop_enabled' = TRUE
        /\ UNCHANGED channel_idx
  /\ UNCHANGED <<channelVars, pending, transfers, wake, had_work, main, usb, steps_done>>

(* load_settings and apply_channel_settings(c), with new settings. *)
LoadSettings(c) ==
  /\ main = "idle"
  /\ unapplied' = [d \in Channels |->
                     IF d = c THEN TRUE
                     ELSE IF active /\ d = pending THEN FALSE ELSE unapplied[d]]
  /\ \/ /\ active
        /\ pending' = c
        /\ UNCHANGED <<machine, in_flight, ok, done, loop_enabled>>
     \/ /\ ~active
        /\ single' = c
        /\ StartConfig(TRUE)
        /\ loop_enabled' = TRUE
        /\ UNCHANGED <<channel_idx, pending>>
  /\ UNCHANGED <<channelVars, transfers, wake, had_work, main, usb, steps_done>>

------------------------------------------------------------------------------
(* loop() begins; its process_usb_events_ may find that ... *)
BeginLoop(work) ==
  /\ main = "idle"
  /\ loop_enabled' = TRUE
  /\ wake' = FALSE
  /\ had_work' = work
  /\ main' = "config"

(* ... nothing has happened ... *)
LoopNoEvent ==
  /\ loop_enabled \/ wake
  /\ BeginLoop(FALSE)
  /\ UNCHANGED <<channelVars, machine, in_flight, ok, done, pending, transfers,
                 usb, history>>

(* ... a device with n usable interfaces has come: on_connected and         *)
(* enable_channels.  The host stack has by then returned the transfers of   *)
(* the device that was there before.                                        *)
LoopConnect(n) ==
  /\ ~connected
  /\ transfers = <<>> /\ usb = "idle"
  /\ BeginLoop(TRUE)
  /\ connected' = TRUE
  /\ initialised' = [c \in Channels |-> c < n]
  /\ single' = NoChannel
  /\ pending' = NoChannel
  /\ channel_idx' = 0
  /\ StartConfig(FALSE)
  /\ steps_done' = [c \in Channels |-> 0]
  /\ UNCHANGED <<flowing, transfers, usb, unapplied>>

(* ... or the device has gone: disconnect and on_disconnected. *)
LoopDisconnect ==
  /\ connected
  /\ BeginLoop(TRUE)
  /\ connected' = FALSE
  /\ initialised' = [c \in Channels |-> FALSE]
  /\ flowing' = [c \in Channels |-> FALSE]
  /\ UNCHANGED <<machine, in_flight, ok, done, pending, transfers, usb, history>>

(* loop() ends: it disables itself if there was nothing to do. *)
LoopEnd ==
  /\ main = "end"
  /\ loop_enabled' = had_work
  /\ main' = "idle"
  /\ UNCHANGED <<channelVars, machine, in_flight, ok, done, pending, transfers,
                 wake, had_work, usb, history>>

------------------------------------------------------------------------------
(* run_config_machine_ *)

(* Mutant: the next step does not wait for the callback of the last. *)
WaitingMutant == FALSE
Waiting == in_flight /\ ~done

(* It is idle, or waits for the callback. *)
ConfigNothing ==
  /\ main = "config"
  /\ ~active \/ Waiting
  /\ main' = "end"
  /\ UNCHANGED <<channelVars, machine, in_flight, ok, done, pending, transfers,
                 loop_enabled, wake, had_work, usb, history>>

(* It starts, or the transfer of its step is over. *)
ConfigAdvance ==
  /\ main = "config"
  /\ active /\ ~Waiting
  /\ in_flight' = FALSE
  /\ done' = (done /\ ~in_flight)
  /\ step' = IF in_flight THEN step + 1 ELSE step
  /\ main' = "phase"
  /\ UNCHANGED <<channelVars, active, reload, device_phase, channel_idx, single,
                 ok, pending, transfers, loop_enabled, wake, had_work, usb, history>>

(* The drivers' steps: whether one issues a transfer at step s. *)
config_device_step(s) == s < DeviceSteps

config_step(s, r) == s < IF r THEN ReloadSteps ELSE InitSteps

(* The channel the machine works on. *)
Current == IF single # NoChannel THEN single ELSE channel_idx
Configurable == Current \in Channels /\ initialised[Current]

(* A driver calls config_transfer_ for its next step: cfg_done_ is cleared *)
(* and the transfer submitted.  The settings are read here; a sequence     *)
(* that starts now knows the latest.                                       *)
IssueDevice ==
  /\ main = "phase"
  /\ device_phase
  /\ config_device_step(step)
  /\ done' = FALSE
  /\ main' = "submit"
  /\ UNCHANGED <<channelVars, machine, in_flight, ok, pending, transfers,
                 loop_enabled, wake, had_work, usb, history>>

IssueChannel ==
  /\ main = "phase"
  /\ ~device_phase
  /\ Configurable /\ ok /\ config_step(step, reload)
  /\ done' = FALSE
  /\ main' = "submit"
  /\ unapplied' = [unapplied EXCEPT ![Current] = (@ /\ step # 0)]
  /\ UNCHANGED <<channelVars, machine, in_flight, ok, pending, transfers,
                 loop_enabled, wake, had_work, usb, steps_done>>

(* The one-time device phase is over, whether it succeeded or not. *)
DevicePhaseEnd ==
  /\ main = "phase"
  /\ device_phase
  /\ ~config_device_step(step)
  /\ device_phase' = FALSE
  /\ step' = 0
  /\ ok' = TRUE
  /\ UNCHANGED <<channelVars, active, reload, channel_idx, single, in_flight, done,
                 pending, transfers, loop_enabled, wake, had_work, main, usb, history>>

Purpose == [channel |-> IF device_phase THEN NoChannel ELSE Current, reload |-> reload]

Submit ==
  /\ main = "submit"
  /\ connected
  /\ transfers' = Append(transfers, Purpose)
  /\ main' = "issued"
  /\ UNCHANGED <<channelVars, machine, in_flight, ok, done, pending,
                 loop_enabled, wake, had_work, usb, history>>

(* Mutant: a failed submission is only logged. *)
SubmitFailsMutant ==
  /\ main = "submit"
  /\ ok' = FALSE
  /\ main' = "issued"
  /\ UNCHANGED <<channelVars, machine, in_flight, done, pending, transfers,
                 loop_enabled, wake, had_work, usb, history>>

(* No callback will come: a failed completion is made up. *)
SubmitFails ==
  /\ main = "submit"
  /\ ok' = FALSE
  /\ done' = TRUE
  /\ main' = "issued"
  /\ UNCHANGED <<channelVars, machine, in_flight, pending, transfers,
                 loop_enabled, wake, had_work, usb, history>>

(* The driver has returned true; the callback may have run already. *)
Issued ==
  /\ main = "issued"
  /\ in_flight' = TRUE
  /\ had_work' = TRUE
  /\ main' = "end"
  /\ UNCHANGED <<channelVars, machine, ok, done, pending, transfers,
                 loop_enabled, wake, usb, history>>

------------------------------------------------------------------------------
(* A channel is finished, or given up because a step failed. *)

(* Mutant: a failed init leaves the channel initialised as well. *)
KeptMutant(c) == initialised[c]

(* Mutant: a failed reload gives up the channel as well. *)
KeptOnReloadMutant(c) == initialised[c] /\ ok

(* A failed init leaves the channel uninitialised, a failed reload not. *)
Kept(c) == initialised[c] /\ (ok \/ reload)

(* Mutant: a reload requested meanwhile is left for the next sequence. *)
NextSequenceMutant ==
  /\ step' = 0
  /\ ok' = TRUE
  /\ single' = NoChannel
  /\ channel_idx' = IF single = NoChannel THEN channel_idx + 1 ELSE channel_idx
  /\ active' = (single = NoChannel /\ channel_idx + 1 < NumChannels)
  /\ UNCHANGED <<reload, device_phase, in_flight, done, pending>>

(* The machine goes to the next channel, to the pending reload, or idle. *)
NextSequence ==
  LET last == single # NoChannel \/ channel_idx + 1 >= NumChannels
  IN  /\ channel_idx' = IF single = NoChannel THEN channel_idx + 1 ELSE channel_idx
      /\ \/ /\ last
            /\ pending # NoChannel
            /\ StartConfig(TRUE)
            /\ single' = pending
            /\ pending' = NoChannel
         \/ /\ ~last \/ pending = NoChannel
            /\ step' = 0
            /\ ok' = TRUE
            /\ single' = NoChannel
            /\ active' = ~last
            /\ UNCHANGED <<reload, device_phase, in_flight, done, pending>>

ChannelEnd ==
  /\ main = "phase"
  /\ ~device_phase
  /\ ~(Configurable /\ ok /\ config_step(step, reload))
  /\ IF Configurable
       THEN /\ initialised' = [initialised EXCEPT ![Current] = Kept(Current)]
            /\ flowing' = [flowing EXCEPT ![Current] = @ \/ (~reload /\ Kept(Current))]
       ELSE UNCHANGED <<initialised, flowing>>
  /\ NextSequence
  /\ had_work' = TRUE
  /\ main' = "end"
  /\ UNCHANGED <<connected, transfers, loop_enabled, wake, usb, history>>

------------------------------------------------------------------------------
(* The callback of a control transfer, on the USB task. *)

(* The result is recorded, ... *)
CallbackRecord(success) ==
  /\ usb = "idle"
  /\ transfers # <<>>
  /\ LET c == Head(transfers).channel
     IN  steps_done' = IF success /\ c # NoChannel /\ ~Head(transfers).reload
                         THEN [steps_done EXCEPT ![c] = @ + 1] ELSE steps_done
  /\ transfers' = Tail(transfers)
  /\ ok' = success
  /\ usb' = "publish"
  /\ UNCHANGED <<channelVars, machine, in_flight, done, pending,
                 loop_enabled, wake, had_work, main, unapplied>>

(* ... published ... *)
CallbackPublish ==
  /\ usb = "publish"
  /\ done' = TRUE
  /\ usb' = "wake"
  /\ UNCHANGED <<channelVars, machine, in_flight, ok, pending, transfers,
                 loop_enabled, wake, had_work, main, history>>

(* ... and the loop woken. *)
CallbackWake ==
  /\ usb = "wake"
  /\ wake' = TRUE
  /\ usb' = "idle"
  /\ UNCHANGED <<channelVars, machine, in_flight, ok, done, pending, transfers,
                 loop_enabled, had_work, main, history>>

------------------------------------------------------------------------------
RunConfigMachine ==
  \/ ConfigNothing \/ ConfigAdvance
  \/ IssueDevice \/ IssueChannel \/ Submit \/ SubmitFails \/ Issued
  \/ DevicePhaseEnd \/ ChannelEnd

Callback ==
  \/ \E success \in BOOLEAN : CallbackRecord(success)
  \/ CallbackPublish \/ CallbackWake

Next ==
  \/ \E c \in Channels : LoadSettings(c)
  \/ \E n \in 1 .. NumChannels : LoopConnect(n)
  \/ LoopDisconnect
  \/ LoopNoEvent \/ LoopEnd
  \/ RunConfigMachine
  \/ Callback

Spec == Init /\ [][Next]_vars

(* The application calls loop() as long as it is enabled or woken, and the *)
(* host stack completes every transfer.                                    *)
Fairness ==
  /\ WF_vars(LoopNoEvent \/ LoopEnd \/ RunConfigMachine)
  /\ WF_vars(Callback)

FairSpec == Spec /\ Fairness

------------------------------------------------------------------------------
(* usb_uart.cpp:543: "the one-control-transfer-at-a-time guarantee".  Never *)
(* two transfers outstanding, and none outstanding or being reported when   *)
(* the next is issued, across reloads, failures and reconnections.          *)
OneTransfer ==
  /\ Len(transfers) <= 1
  /\ main = "submit" => transfers = <<>> /\ usb \in {"idle", "wake"}
  /\ usb = "publish" => transfers = <<>>

(* In a well-typed state, there is one transfer at a time.                  *)
TransfersSound == TypeOK /\ OneTransfer

(* usb_uart.cpp:630-631: "mark the channel uninitialised so data flow isn't *)
(* started on a misconfigured channel".  Data flows on a channel only if    *)
(* every transfer of its init succeeded since the device came.              *)
FlowOnlyConfigured ==
  \A c \in Channels : flowing[c] => connected /\ steps_done[c] = InitSteps

(* usb_uart.cpp:632: "on a reload, leave the already-working channel as it  *)
(* was": once data flows on a channel only a disconnection stops it.        *)
WorkingChannelStays ==
  [][\A c \in Channels : flowing[c] /\ connected' => flowing'[c] /\ initialised'[c]]_vars

(* No reload is forgotten: settings changed since the last sequence of the  *)
(* channel began are waiting for one that has yet to begin, or the channel  *)
(* is not initialised, or (usb_uart.cpp:546) the one pending slot went to   *)
(* another channel.                                                         *)
ToBegin(c) == active /\ step = 0 /\ Current = c /\ ~device_phase
              /\ ~in_flight /\ main # "issued" /\ main # "submit"
InitToCome(c) == active /\ single = NoChannel /\ (c > channel_idx \/ device_phase)
ReloadRemembered ==
  \A c \in Channels :
    unapplied[c] /\ initialised[c] => pending = c \/ ToBegin(c) \/ InitToCome(c)

(* What liveness is relative to: devices do not come and go for ever. *)
LinkSettles == <>[]connected \/ <>[]~connected

(* usb_uart.cpp:586: "so the state machine advances/aborts instead of       *)
(* hanging".  The configuration of a new device ends, whatever fails and    *)
(* although loop() sleeps between the steps.                                *)
InitEnds == LinkSettles => ((active /\ ~reload) ~> (~active \/ reload))

(* usb_uart.cpp:544: a reload that was deferred "eventually runs". *)
PendingServed ==
  LinkSettles => \A c \in Channels : (active /\ pending = c) ~> (pending # c \/ single = c)
==============================================================================
