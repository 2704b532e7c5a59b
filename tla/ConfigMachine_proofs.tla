------------------------- MODULE ConfigMachine_proofs --------------------------
(***************************************************************************)
(* The safety properties of ConfigMachine, for any number of channels and  *)
(* of transfers in the sequences of a driver.                              *)
(*                                                                         *)
(* MachineInv relates the members of the machine to each other and to the  *)
(* place where loop() is, TransferInv says who waits for a transfer that   *)
(* is outstanding, ChannelInv counts the transfers that succeeded against  *)
(* cfg_step_.                                                              *)
(***************************************************************************)
EXTENDS ConfigMachine, SequenceTheorems, TLAPS

(* From the submission of a transfer, successful or not, to the advance.   *)
Awaited == in_flight \/ main = "issued"
Outstanding == transfers # <<>> \/ usb = "publish"

(* The length of the sequence the machine is in. *)
Limit == IF device_phase THEN DeviceSteps ELSE IF reload THEN ReloadSteps ELSE InitSteps

MachineInv ==
  /\ active /\ reload => single \in Channels
  /\ active /\ ~reload => single = NoChannel /\ channel_idx \in Channels
  /\ device_phase => active /\ ~reload /\ channel_idx = 0
  /\ ~active => pending = NoChannel
  /\ main \in {"phase", "submit", "issued"} => active /\ ~in_flight
  /\ step <= Limit
  /\ Awaited \/ main = "submit" => step < Limit
  /\ active /\ step = 0 /\ ~Awaited /\ main # "submit" => ok

TransferInv ==
  /\ Len(transfers) <= 1
  /\ usb = "publish" => transfers = <<>>
  /\ Outstanding => active /\ ~done /\ Awaited
  /\ main = "submit" => ~done
  /\ main = "submit" /\ ~device_phase => ok
  /\ transfers # <<>> => Head(transfers) = Purpose /\ (device_phase \/ ok)

ChannelInv ==
  /\ \A c \in Channels : initialised[c] => connected
  /\ \A c \in Channels : flowing[c] => initialised[c] /\ steps_done[c] = InitSteps
  /\ active /\ ~reload => \A c \in Channels : c >= channel_idx => ~flowing[c]
  /\ active /\ ~reload =>
       \A c \in Channels : c > channel_idx \/ device_phase => steps_done[c] = 0
  /\ active /\ ~reload /\ ~device_phase /\ ok =>
       steps_done[channel_idx] = IF Awaited /\ transfers = <<>> THEN step + 1 ELSE step

ConfigInv == TypeOK /\ MachineInv /\ TransferInv /\ ChannelInv

(* The constants as the proofs use them. *)
LEMMA Constants ==
  /\ NumChannels \in Nat /\ NumChannels > 0 /\ NoChannel = NumChannels
  /\ DeviceSteps \in Nat /\ InitSteps \in Nat /\ InitSteps > 0
  /\ ReloadSteps \in Nat /\ ReloadSteps > 0
  /\ 0 \in Channels /\ NoChannel \notin Channels
  /\ \A c \in Channels : c \in Nat /\ c < NumChannels
  /\ \A c \in Nat : c < NumChannels => c \in Channels
  /\ \A c \in Channels : c + 1 \in 0 .. NumChannels
  /\ \A c \in Channels : c \in 0 .. NumChannels
BY ConfigAssumption DEF Channels, NoChannel

(* The steps are numbers up to the longest sequence. *)
LEMMA StepRange ==
  /\ \A s : s \in Steps <=> s \in Nat /\ s <= DeviceSteps + InitSteps + ReloadSteps
  /\ 0 \in Steps
BY Constants DEF Steps

(* A queue of at most one transfer. *)
LEMMA OneLong ==
  /\ \A s \in Seq(Purposes) : Len(s) <= 1 /\ s # <<>> =>
       Head(s) \in Purposes /\ Tail(s) = <<>>
  /\ <<>> \in Seq(Purposes) /\ Len(<<>>) = 0
  /\ \A p \in Purposes : Append(<<>>, p) = <<p>>
  /\ \A p \in Purposes :
       <<p>> \in Seq(Purposes) /\ Len(<<p>>) = 1 /\ <<p>> # <<>> /\ Head(<<p>>) = p
<1>1. ASSUME NEW s \in Seq(Purposes), Len(s) <= 1, s # <<>>
      PROVE  Head(s) \in Purposes /\ Tail(s) = <<>>
  <2>1. Len(s) = 1
    <3>1. Len(s) \in Nat
      OBVIOUS
    <3>2. Len(s) # 0
      BY <1>1, EmptySeq
    <3> QED  BY <1>1, <3>1, <3>2
  <2>2. Head(s) \in Purposes /\ Tail(s) \in Seq(Purposes) /\ Len(Tail(s)) = 0
    BY <1>1, <2>1, HeadTailProperties
  <2>3. Tail(s) = <<>>
    BY <2>2, EmptySeq
  <2> QED  BY <2>2, <2>3
<1> QED  BY <1>1

(* The machine starts at rest. *)
LEMMA InitConfig == Init => ConfigInv
<1> SUFFICES ASSUME Init PROVE ConfigInv  OBVIOUS
<1>1. TypeOK
  BY Constants, StepRange, OneLong DEF Init, TypeOK
<1>2. MachineInv /\ TransferInv /\ ChannelInv
  BY Constants, OneLong
  DEF Init, MachineInv, TransferInv, ChannelInv, Awaited, Outstanding, Limit
<1> QED  BY <1>1, <1>2 DEF ConfigInv

(* A new sequence, asked for while the machine is idle or not.             *)
LEMMA LoadSettingsStep ==
  ASSUME ConfigInv, NEW c \in Channels, LoadSettings(c)
  PROVE  ConfigInv'
<1> USE Constants, StepRange
<1>1. TypeOK'
  <2>1. unapplied' \in [Channels -> BOOLEAN]
    BY DEF LoadSettings, ConfigInv, TypeOK
  <2>2. /\ {connected, active, reload, device_phase, in_flight, ok, done}' \subseteq BOOLEAN
        /\ {loop_enabled, wake, had_work}' \subseteq BOOLEAN
    BY DEF LoadSettings, StartConfig, ConfigInv, TypeOK, channelVars, machine
  <2> QED
    BY <2>1, <2>2 DEF LoadSettings, StartConfig, ConfigInv, TypeOK, channelVars, machine
<1>2. MachineInv'
  <2>1. CASE active
    BY <2>1 DEF LoadSettings, ConfigInv, MachineInv, Awaited, Limit, machine
  <2>2. CASE ~active
    <3>1. /\ single' = c /\ pending' = NoChannel /\ main' = "idle" /\ step' = 0
          /\ active' /\ reload' /\ ~device_phase' /\ ~in_flight' /\ ok' /\ ~done'
      BY <2>2 DEF LoadSettings, StartConfig, ConfigInv, MachineInv
    <3> QED  BY <3>1 DEF MachineInv, Awaited, Limit
  <2> QED  BY <2>1, <2>2
<1>3. TransferInv'
  BY DEF LoadSettings, StartConfig, ConfigInv, TransferInv, Awaited, Outstanding, Purpose,
         Current, machine
<1>4. ChannelInv'
  BY DEF LoadSettings, StartConfig, ConfigInv, ChannelInv, Awaited, channelVars, machine
<1> QED  BY <1>1, <1>2, <1>3, <1>4 DEF ConfigInv

(* loop() begins and ends; devices come and go.                            *)
LEMMA LoopStep ==
  ASSUME ConfigInv,
         LoopNoEvent \/ LoopDisconnect \/ LoopEnd \/ \E n \in 1 .. NumChannels : LoopConnect(n)
  PROVE  ConfigInv'
<1> USE Constants, StepRange
<1>1. CASE LoopNoEvent \/ LoopEnd
  <2>1. TypeOK'
    BY <1>1
    DEF LoopNoEvent, LoopEnd, BeginLoop, ConfigInv, TypeOK, channelVars, machine, history
  <2>2. MachineInv' /\ TransferInv' /\ ChannelInv'
    BY <1>1, SMTT(30)
    DEF LoopNoEvent, LoopEnd, BeginLoop, ConfigInv, MachineInv, TransferInv, ChannelInv, Limit,
        Awaited, Outstanding, Purpose, Current, channelVars, machine, history
  <2> QED  BY <2>1, <2>2 DEF ConfigInv
<1>2. CASE LoopDisconnect
  <2>1. TypeOK'
    BY <1>2 DEF LoopDisconnect, BeginLoop, ConfigInv, TypeOK, machine, history
  <2>2. MachineInv' /\ TransferInv'
    BY <1>2
    DEF LoopDisconnect, BeginLoop, ConfigInv, MachineInv, TransferInv, Limit,
        Awaited, Outstanding, Purpose, Current, machine
  <2>3. ChannelInv'
    BY <1>2 DEF LoopDisconnect, BeginLoop, ConfigInv, ChannelInv, Awaited, machine, history
  <2> QED  BY <2>1, <2>2, <2>3 DEF ConfigInv
<1>3. ASSUME NEW n \in 1 .. NumChannels, LoopConnect(n) PROVE ConfigInv'
  <2>1. TypeOK'
    <3>1. initialised' \in [Channels -> BOOLEAN] /\ steps_done' \in [Channels -> 0 .. InitSteps]
      BY <1>3 DEF LoopConnect
    <3>2. /\ {connected, active, reload, device_phase, in_flight, ok, done}' \subseteq BOOLEAN
          /\ {loop_enabled, wake, had_work}' \subseteq BOOLEAN
      BY <1>3 DEF LoopConnect, BeginLoop, StartConfig
    <3> QED
      BY <1>3, <3>1, <3>2 DEF LoopConnect, BeginLoop, StartConfig, ConfigInv, TypeOK
  <2>2. MachineInv' /\ TransferInv'
    BY <1>3
    DEF LoopConnect, BeginLoop, StartConfig, ConfigInv, TypeOK, MachineInv, TransferInv, Limit,
        Awaited, Outstanding
  <2>3. \A c \in Channels : ~flowing[c]
    BY <1>3 DEF LoopConnect, ConfigInv, ChannelInv
  <2>4. ChannelInv'
    BY <1>3, <2>3 DEF LoopConnect, BeginLoop, StartConfig, ChannelInv
  <2> QED  BY <2>1, <2>2, <2>4 DEF ConfigInv
<1> QED  BY <1>1, <1>2, <1>3

(* The machine waits, advances, or goes from the device to the channels.   *)
LEMMA AdvanceStep ==
  ASSUME ConfigInv, ConfigNothing \/ ConfigAdvance \/ DevicePhaseEnd
  PROVE  ConfigInv'
<1> USE Constants, StepRange
<1>1. CASE ConfigNothing
  <2>1. TypeOK'
    BY <1>1 DEF ConfigNothing, ConfigInv, TypeOK, channelVars, machine, history
  <2>2. MachineInv' /\ TransferInv' /\ ChannelInv'
    BY <1>1
    DEF ConfigNothing, ConfigInv, MachineInv, TransferInv, ChannelInv, Limit,
        Awaited, Outstanding, Purpose, Current, channelVars, machine, history
  <2> QED  BY <2>1, <2>2 DEF ConfigInv
<1>2. CASE ConfigAdvance
  <2>1. transfers = <<>> /\ usb # "publish"
    BY <1>2
    DEF ConfigAdvance, Waiting, ConfigInv, TransferInv, Outstanding, Awaited
  <2>2. step' \in Nat /\ step' <= Limit /\ Limit \in Nat
    <3>1. Limit \in Nat /\ step \in Nat /\ step <= Limit
      BY DEF ConfigInv, TypeOK, MachineInv, Limit
    <3>2. in_flight => step < Limit
      BY <1>2 DEF ConfigAdvance, ConfigInv, MachineInv, Awaited
    <3>3. step' = IF in_flight THEN step + 1 ELSE step
      BY <1>2 DEF ConfigAdvance
    <3> QED  BY <3>1, <3>2, <3>3
  <2>3. TypeOK'
    <3>1. step' \in Steps
      BY <2>2 DEF Limit
    <3>2. {connected, active, reload, device_phase, in_flight, ok, done}' \subseteq BOOLEAN
      BY <1>2 DEF ConfigAdvance, ConfigInv, TypeOK, channelVars
    <3> QED
      BY <1>2, <3>1, <3>2 DEF ConfigAdvance, ConfigInv, TypeOK, channelVars, history
  <2>4. MachineInv'
    <3>1. Limit' = Limit
      BY <1>2 DEF ConfigAdvance, Limit
    <3>2. step' = 0 => ok
      BY <1>2
      DEF ConfigAdvance, ConfigInv, TypeOK, MachineInv, Awaited
    <3> QED
      BY <1>2, <2>2, <3>1, <3>2 DEF ConfigAdvance, ConfigInv, MachineInv, Awaited
  <2>5. TransferInv'
    BY <1>2, <2>1 DEF ConfigAdvance, ConfigInv, TransferInv, Outstanding
  <2>6. ChannelInv'
    BY <1>2, <2>1
    DEF ConfigAdvance, ConfigInv, TypeOK, ChannelInv, Awaited, channelVars, history
  <2> QED  BY <2>3, <2>4, <2>5, <2>6 DEF ConfigInv
<1>3. CASE DevicePhaseEnd
  <2>1. transfers = <<>> /\ usb # "publish" /\ ~in_flight
    BY <1>3 DEF DevicePhaseEnd, ConfigInv, MachineInv, TransferInv, Outstanding, Awaited
  <2>2. TypeOK'
    BY <1>3 DEF DevicePhaseEnd, ConfigInv, TypeOK, channelVars, history
  <2>3. MachineInv' /\ TransferInv'
    BY <1>3, <2>1
    DEF DevicePhaseEnd, ConfigInv, MachineInv, TransferInv, Outstanding, Awaited, Limit
  <2>4. ChannelInv'
    BY <1>3, <2>1
    DEF DevicePhaseEnd, ConfigInv, MachineInv, ChannelInv, Awaited, channelVars, history
  <2> QED  BY <2>2, <2>3, <2>4 DEF ConfigInv
<1> QED  BY <1>1, <1>2, <1>3

(* The channel an active machine works at is one of the channels. *)
LEMMA CurrentChannel ==
  ASSUME ConfigInv
  PROVE  /\ active => Current \in Channels
         /\ active => Purpose \in Purposes
         /\ active /\ ~reload => Current = channel_idx
BY Constants DEF ConfigInv, TypeOK, MachineInv, Current, Purpose, Purposes

(* A step of the device or of the channel is issued.                       *)
LEMMA IssueStep ==
  ASSUME ConfigInv, IssueDevice \/ IssueChannel \/ Submit \/ SubmitFails \/ Issued
  PROVE  ConfigInv'
<1> USE Constants, StepRange
<1>1. CASE IssueDevice \/ IssueChannel
  <2>1. transfers = <<>> /\ usb # "publish"
    BY <1>1
    DEF IssueDevice, IssueChannel, ConfigInv, MachineInv, TransferInv, Outstanding, Awaited
  <2>2. TypeOK'
    <3>1. unapplied' \in [Channels -> BOOLEAN]
      BY <1>1 DEF IssueDevice, IssueChannel, ConfigInv, TypeOK, history
    <3> QED
      BY <1>1, <3>1
      DEF IssueDevice, IssueChannel, ConfigInv, TypeOK, channelVars, machine, history
  <2>3. step < Limit
    BY <1>1
    DEF IssueDevice, IssueChannel, config_device_step, config_step, Limit
  <2>4. MachineInv' /\ TransferInv'
    BY <1>1, <2>1, <2>3
    DEF IssueDevice, IssueChannel, ConfigInv, MachineInv, TransferInv, Outstanding, Awaited,
        Limit, machine
  <2>5. ChannelInv'
    BY <1>1
    DEF IssueDevice, IssueChannel, ConfigInv, ChannelInv, Awaited, channelVars, machine, history
  <2> QED  BY <2>2, <2>4, <2>5 DEF ConfigInv
<1>2. CASE Submit
  <2>1. transfers = <<>> /\ usb # "publish" /\ active /\ ~done /\ ~in_flight
    BY <1>2
    DEF Submit, ConfigInv, MachineInv, TransferInv, Outstanding, Awaited
  <2>2. transfers' = <<Purpose>> /\ Purpose \in Purposes
    BY <1>2, <2>1, CurrentChannel, OneLong DEF Submit
  <2>3. /\ transfers' \in Seq(Purposes) /\ Len(transfers') = 1 /\ transfers' # <<>>
        /\ Head(transfers') = Purpose
    BY <2>2, OneLong
  <2>4. TypeOK'
    BY <1>2, <2>3 DEF Submit, ConfigInv, TypeOK, channelVars, machine, history
  <2>5. MachineInv'
    BY <1>2 DEF Submit, ConfigInv, MachineInv, Awaited, Limit, machine
  <2>6. Purpose' = Purpose
    BY <1>2 DEF Submit, Purpose, Current, machine
  <2>7. TransferInv'
    BY <1>2, <2>1, <2>3, <2>6
    DEF Submit, ConfigInv, TransferInv, Outstanding, Awaited, machine
  <2>8. ChannelInv'
    BY <1>2, <2>1, <2>3
    DEF Submit, ConfigInv, ChannelInv, Awaited, channelVars, machine, history
  <2> QED  BY <2>4, <2>5, <2>7, <2>8 DEF ConfigInv
<1>3. CASE SubmitFails \/ Issued
  <2>1. main = "submit" => transfers = <<>> /\ usb # "publish"
    BY DEF ConfigInv, MachineInv, TransferInv, Outstanding, Awaited
  <2>2. TypeOK'
    BY <1>3 DEF SubmitFails, Issued, ConfigInv, TypeOK, channelVars, machine, history
  <2>3. MachineInv' /\ TransferInv'
    BY <1>3, <2>1
    DEF SubmitFails, Issued, ConfigInv, MachineInv, TransferInv, Outstanding, Awaited, Limit,
        Purpose, Current, machine
  <2>4. ChannelInv'
    BY <1>3
    DEF SubmitFails, Issued, ConfigInv, ChannelInv, Awaited, channelVars, machine, history
  <2> QED  BY <2>2, <2>3, <2>4 DEF ConfigInv
<1> QED  BY <1>1, <1>2, <1>3

(* A channel is finished; every transfer of an init that got there with    *)
(* cfg_ok_ set has succeeded.                                              *)
LEMMA ChannelEndStep ==
  ASSUME ConfigInv, ChannelEnd
  PROVE  ConfigInv'
<1> USE Constants, StepRange
<1>1. transfers = <<>> /\ usb # "publish" /\ active /\ ~in_flight /\ main = "phase"
  BY DEF ChannelEnd, ConfigInv, MachineInv, TransferInv, Outstanding, Awaited
<1>2. PICK c \in Channels : c = Current /\ (active /\ ~reload => c = channel_idx)
  BY <1>1, CurrentChannel
<1>3. ~reload /\ Configurable /\ Kept(c) => steps_done[c] = InitSteps
  BY <1>1, <1>2
  DEF ChannelEnd, config_step, Kept, ConfigInv, TypeOK, MachineInv, ChannelInv, Awaited, Limit
<1>4. /\ initialised' \in [Channels -> BOOLEAN] /\ flowing' \in [Channels -> BOOLEAN]
      /\ \A d \in Channels : d # c => initialised'[d] = initialised[d] /\ flowing'[d] = flowing[d]
      /\ initialised'[c] => initialised[c]
      /\ flowing'[c] <=> flowing[c] \/ (~reload /\ Configurable /\ Kept(c))
      /\ Configurable => (initialised'[c] <=> Kept(c))
      /\ ~Configurable => (initialised'[c] <=> initialised[c])
  <2>1. CASE Configurable
    <3>1. /\ initialised' = [initialised EXCEPT ![c] = Kept(c)]
          /\ flowing' = [flowing EXCEPT ![c] = @ \/ (~reload /\ Kept(c))]
      BY <1>2, <2>1 DEF ChannelEnd
    <3>2. Kept(c) \in BOOLEAN /\ (Kept(c) => initialised[c])
      BY DEF Kept
    <3> HIDE DEF Kept
    <3>3. initialised \in [Channels -> BOOLEAN] /\ flowing \in [Channels -> BOOLEAN]
      BY DEF ConfigInv, TypeOK
    <3>4. (flowing[c] \/ (~reload /\ Kept(c))) \in BOOLEAN
      OBVIOUS
    <3>5. initialised'[c] = Kept(c) /\ flowing'[c] = (flowing[c] \/ (~reload /\ Kept(c)))
      BY <3>1, <3>3
    <3>6. initialised' \in [Channels -> BOOLEAN] /\ flowing' \in [Channels -> BOOLEAN]
      BY <3>1, <3>2, <3>3, <3>4
    <3> QED  BY <2>1, <3>1, <3>2, <3>3, <3>5, <3>6
  <2>2. CASE ~Configurable
    BY <2>2 DEF ChannelEnd, ConfigInv, TypeOK
  <2> QED  BY <2>1, <2>2
<1>5. /\ channel_idx' \in 0 .. NumChannels
      /\ active' /\ ~reload' => channel_idx' = channel_idx + 1 /\ channel_idx' \in Channels
      /\ active' /\ ~reload' => ~reload /\ single' = NoChannel
      /\ active' /\ reload' => single' \in Channels
      /\ single' \in Channels \cup {NoChannel} /\ pending' \in Channels \cup {NoChannel}
      /\ {active', reload', ok', done', in_flight', device_phase'} \subseteq BOOLEAN
      /\ ~active' => pending' = NoChannel
      /\ step' = 0 /\ ok' /\ ~in_flight' /\ ~device_phase'
  <2> DEFINE last == single # NoChannel \/ channel_idx + 1 >= NumChannels
  <2>1. /\ ~reload => single = NoChannel /\ channel_idx \in Channels
        /\ reload => single \in Channels
        /\ channel_idx \in 0 .. NumChannels /\ pending \in Channels \cup {NoChannel}
        /\ {reload, done, in_flight, device_phase} \subseteq BOOLEAN
        /\ ~in_flight /\ ~device_phase
    BY <1>1 DEF ChannelEnd, ConfigInv, TypeOK, MachineInv
  <2>2. channel_idx' = IF single = NoChannel THEN channel_idx + 1 ELSE channel_idx
    BY DEF ChannelEnd, NextSequence
  <2>3. channel_idx' \in 0 .. NumChannels
    BY <2>1, <2>2
  <2>4. CASE /\ last /\ pending # NoChannel /\ StartConfig(TRUE)
             /\ single' = pending /\ pending' = NoChannel
    BY <2>1, <2>3, <2>4 DEF StartConfig
  <2>5. CASE /\ ~last \/ pending = NoChannel
             /\ step' = 0 /\ ok' = TRUE /\ single' = NoChannel /\ active' = ~last
             /\ UNCHANGED <<reload, device_phase, in_flight, done, pending>>
    <3>1. active' \in BOOLEAN /\ (active' <=> ~last)
      BY <2>5
    <3>2. active' => ~reload /\ channel_idx' = channel_idx + 1 /\ channel_idx' \in Channels
      BY <2>1, <2>2, <3>1
    <3>3. ~active' => pending' = NoChannel
      BY <2>5, <3>1
    <3> HIDE DEF last
    <3> QED  BY <2>1, <2>3, <2>5, <3>1, <3>2, <3>3
  <2> QED  BY <2>4, <2>5 DEF ChannelEnd, NextSequence
<1>6. TypeOK'
  BY <1>4, <1>5 DEF ChannelEnd, ConfigInv, TypeOK, history
<1>7. MachineInv'
  BY <1>5 DEF ChannelEnd, MachineInv, Limit, Awaited
<1>8. TransferInv'
  BY <1>1, <1>5 DEF ChannelEnd, TransferInv, Outstanding, ConfigInv
<1>9. ChannelInv'
  <2>1. UNCHANGED <<connected, steps_done, transfers, usb>> /\ main' = "end"
    BY DEF ChannelEnd, history
  <2>2. \A d \in Channels : initialised'[d] => connected'
    BY <1>4, <2>1 DEF ConfigInv, ChannelInv
  <2>3. \A d \in Channels : flowing'[d] => initialised'[d] /\ steps_done'[d] = InitSteps
    <3>1. flowing[c] => initialised'[c]
      BY <1>1, <1>2, <1>4 DEF Kept, ConfigInv, ChannelInv, TypeOK
    <3> QED  BY <1>3, <1>4, <2>1, <3>1 DEF ConfigInv, ChannelInv
  <2>4. active' /\ ~reload' =>
          \A d \in Channels : d >= channel_idx' => ~flowing'[d]
    <3> SUFFICES ASSUME active', ~reload', NEW d \in Channels, d >= channel_idx'
                 PROVE  ~flowing'[d]
      OBVIOUS
    <3>1. ~reload /\ channel_idx' = channel_idx + 1 /\ c = channel_idx
      BY <1>1, <1>2, <1>5
    <3>2. d > channel_idx /\ d # c
      BY <3>1
    <3>3. ~flowing[d]
      BY <1>1, <3>1, <3>2, SMTT(30) DEF ConfigInv, ChannelInv
    <3> QED  BY <1>4, <3>2, <3>3
  <2>5. active' /\ ~reload' => \A d \in Channels : d >= channel_idx' => steps_done'[d] = 0
    BY <1>1, <1>5, <2>1, SMTT(30) DEF ConfigInv, MachineInv, ChannelInv
  <2>6. ~Awaited'
    BY <1>5, <2>1 DEF Awaited
  <2> QED
    BY <1>5, <2>1, <2>2, <2>3, <2>4, <2>5, <2>6 DEF ChannelInv
<1> QED  BY <1>6, <1>7, <1>8, <1>9 DEF ConfigInv

(* The callback of the transfer that the machine waits for.                *)
LEMMA CallbackStep ==
  ASSUME ConfigInv, Callback
  PROVE  ConfigInv'
<1> USE Constants, StepRange
<1>1. ASSUME NEW success \in BOOLEAN, CallbackRecord(success) PROVE ConfigInv'
  <2>1. /\ transfers' = <<>> /\ transfers' \in Seq(Purposes) /\ Len(transfers') = 0
        /\ Head(transfers) \in Purposes
    BY <1>1, OneLong DEF CallbackRecord, ConfigInv, TypeOK, TransferInv
  <2>2. /\ Head(transfers).channel = IF device_phase THEN NoChannel ELSE Current
        /\ Head(transfers).reload = reload
        /\ active /\ ~done /\ Awaited /\ (device_phase \/ ok) /\ step < Limit
    BY <1>1
    DEF CallbackRecord, ConfigInv, MachineInv, TransferInv, Outstanding, Purpose
  <2>3. PICK c \in Channels : c = Current /\ (~reload => c = channel_idx)
    BY <2>2, CurrentChannel
  <2>4. success /\ ~device_phase /\ ~reload =>
          steps_done' = [steps_done EXCEPT ![c] = step + 1] /\ step + 1 \in 0 .. InitSteps
    <3>1. ~device_phase /\ ~reload => steps_done[channel_idx] = step
      BY <1>1, <2>2 DEF CallbackRecord, ConfigInv, ChannelInv
    <3>2. ~device_phase /\ ~reload => step + 1 \in 0 .. InitSteps
      <4>1. step \in Nat
        BY DEF ConfigInv, TypeOK
      <4>2. ~device_phase /\ ~reload => step < InitSteps
        BY <2>2 DEF Limit
      <4> QED  BY ONLY <4>1, <4>2, Constants
    <3> QED  BY <1>1, <2>2, <2>3, <3>1, <3>2 DEF CallbackRecord
  <2>5. ~success \/ device_phase \/ reload => steps_done' = steps_done
    BY <1>1, <2>2 DEF CallbackRecord
  <2>6. steps_done' \in [Channels -> 0 .. InitSteps]
    BY <2>4, <2>5, ZenonT(60) DEF ConfigInv, TypeOK
  <2>7. TypeOK'
    BY <1>1, <2>1, <2>6 DEF CallbackRecord, ConfigInv, TypeOK, channelVars, machine
  <2>8. MachineInv' /\ TransferInv'
    BY <1>1, <2>1, <2>2
    DEF CallbackRecord, ConfigInv, MachineInv, TransferInv, Outstanding, Awaited, Limit, machine
  <2>9. ChannelInv'
    <3>1. ~reload => ~flowing[c]
      BY <2>2, <2>3 DEF ConfigInv, ChannelInv
    <3>2. \A d \in Channels : d # c => steps_done'[d] = steps_done[d]
      BY <2>4, <2>5 DEF ConfigInv, TypeOK
    <3>3. reload \/ device_phase => steps_done' = steps_done
      BY <2>5
    <3>4. success /\ ~device_phase /\ ~reload => steps_done'[channel_idx] = step + 1
      BY <2>3, <2>4 DEF ConfigInv, TypeOK
    <3>5. /\ UNCHANGED <<connected, initialised, flowing, active, reload, device_phase, step,
                        channel_idx, in_flight, main>>
          /\ ok' = success
      BY <1>1 DEF CallbackRecord, channelVars, machine
    <3>6. Awaited' /\ ChannelInv /\ active /\ (device_phase => ~reload)
      BY <2>2, <3>5 DEF Awaited, ConfigInv, MachineInv
    <3>7. \A d \in Channels : flowing[d] => steps_done'[d] = InitSteps
      <4>1. \A d \in Channels : flowing[d] => steps_done'[d] = steps_done[d]
        BY <2>5, <3>1, <3>2
      <4> QED  BY <3>6, <4>1 DEF ChannelInv
    <3>8. ~reload =>
            \A d \in Channels : d > channel_idx \/ device_phase => steps_done'[d] = 0
      <4>1. ~reload => \A d \in Channels :
              d > channel_idx \/ device_phase => steps_done'[d] = steps_done[d]
        BY <2>3, <3>2, <3>3
      <4> QED  BY <3>6, <4>1 DEF ChannelInv
    <3> QED
      BY <2>1, <3>4, <3>5, <3>6, <3>7, <3>8 DEF ChannelInv
  <2> QED  BY <2>7, <2>8, <2>9 DEF ConfigInv
<1>2. CASE CallbackPublish \/ CallbackWake
  <2>1. TypeOK'
    BY <1>2
    DEF CallbackPublish, CallbackWake, ConfigInv, TypeOK, channelVars, machine, history
  <2>2. MachineInv' /\ TransferInv' /\ ChannelInv'
    BY <1>2, SMTT(30)
    DEF CallbackPublish, CallbackWake, ConfigInv, MachineInv, TransferInv, ChannelInv, Limit,
        Awaited, Outstanding, Purpose, Current, channelVars, machine, history
  <2> QED  BY <2>1, <2>2 DEF ConfigInv
<1> QED  BY <1>1, <1>2 DEF Callback

(* Every step keeps the invariant. *)
LEMMA ConfigStep == ConfigInv /\ [Next]_vars => ConfigInv'
<1> SUFFICES ASSUME ConfigInv, [Next]_vars PROVE ConfigInv'  OBVIOUS
<1>1. CASE UNCHANGED vars
  BY <1>1
  DEF ConfigInv, TypeOK, MachineInv, TransferInv, ChannelInv, Limit, Awaited, Outstanding,
      Purpose, Current, vars, channelVars, machine, history
<1>2. CASE Next
  BY <1>2, LoadSettingsStep, LoopStep, AdvanceStep, IssueStep, ChannelEndStep, CallbackStep
  DEF Next, RunConfigMachine
<1> QED  BY <1>1, <1>2

(* The invariant holds in every state. *)
LEMMA ConfigInvariance == Spec => []ConfigInv
BY InitConfig, ConfigStep, PTL DEF Spec

(* One control transfer at a time: config_transfer_ is not called while    *)
(* one is outstanding or being reported, over reloads, failed submissions  *)
(* and reconnections.                                                      *)
THEOREM OneAtATime == Spec => []TransfersSound
<1>1. ConfigInv => TransfersSound
  BY DEF ConfigInv, TypeOK, MachineInv, TransferInv, TransfersSound, OneTransfer, Outstanding,
         Awaited
<1> QED  BY <1>1, ConfigInvariance, PTL

(* Data flows on a channel only after every transfer of its init since the *)
(* device came has succeeded.                                              *)
THEOREM FlowsConfigured == Spec => []FlowOnlyConfigured
<1>1. ConfigInv => FlowOnlyConfigured
  BY DEF ConfigInv, ChannelInv, FlowOnlyConfigured
<1> QED  BY <1>1, ConfigInvariance, PTL

(* Once data flows on a channel, no failed reload and no init of another   *)
(* channel stops it.                                                       *)
THEOREM WorkingStays == Spec => WorkingChannelStays
<1>1. ASSUME ConfigInv, ConfigInv', [Next]_vars, NEW c \in Channels, flowing[c], connected'
      PROVE  flowing'[c] /\ initialised'[c]
  <2>1. flowing'[c]
    <3>1. CASE ChannelEnd
      BY <1>1, <3>1 DEF ChannelEnd, ConfigInv, TypeOK
    <3>2. CASE \E n \in 1 .. NumChannels : LoopConnect(n)
      BY <1>1, <3>2 DEF LoopConnect
    <3>3. CASE LoopDisconnect
      BY <1>1, <3>3 DEF LoopDisconnect
    <3>4. CASE UNCHANGED flowing
      BY <1>1, <3>4
    <3> QED
      BY <1>1, <3>1, <3>2, <3>3, <3>4
      DEF Next, LoadSettings, LoopNoEvent, LoopEnd, RunConfigMachine, ConfigNothing,
          ConfigAdvance, IssueDevice, IssueChannel, Submit, SubmitFails, Issued,
          DevicePhaseEnd, Callback, CallbackRecord, CallbackPublish, CallbackWake,
          vars, channelVars
  <2>2. initialised'[c]
    BY <1>1, <2>1 DEF ConfigInv, ChannelInv
  <2> QED  BY <2>1, <2>2
<1>2. ConfigInv /\ ConfigInv' /\ [Next]_vars
      => [\A c \in Channels : flowing[c] /\ connected' => flowing'[c] /\ initialised'[c]]_vars
  BY <1>1
<1> QED  BY <1>2, ConfigInvariance, PTL DEF Spec, WorkingChannelStays

------------------------------------------------------------------------------
(* Reloads *)

(* No step forgets a reload. *)
LEMMA RememberStep ==
  ASSUME ConfigInv, ConfigInv', ReloadRemembered, [Next]_vars
  PROVE  ReloadRemembered'
<1> USE Constants
<1>1. CASE \E c \in Channels : LoadSettings(c)
  BY <1>1
  DEF LoadSettings, StartConfig, ConfigInv, MachineInv, ReloadRemembered, ToBegin, InitToCome,
      Current, channelVars, machine
<1>2. CASE LoopDisconnect \/ \E n \in 1 .. NumChannels : LoopConnect(n)
  BY <1>2
  DEF LoopDisconnect, LoopConnect, BeginLoop, StartConfig, ReloadRemembered, InitToCome
<1>3. CASE IssueDevice \/ IssueChannel
  BY <1>3, SMTT(30)
  DEF IssueDevice, IssueChannel, ConfigInv, TypeOK, ReloadRemembered, ToBegin, InitToCome,
      Current, channelVars, machine, history
<1>4. CASE ConfigAdvance
  BY <1>4
  DEF ConfigAdvance, ReloadRemembered, ToBegin, InitToCome, Current, channelVars, history
<1>5. CASE DevicePhaseEnd
  BY <1>5
  DEF DevicePhaseEnd, ConfigInv, TypeOK, MachineInv, ReloadRemembered, ToBegin, InitToCome,
      Current, channelVars, history
<1>6. CASE ChannelEnd
  <2> SUFFICES ASSUME NEW d \in Channels, unapplied[d], initialised'[d]
               PROVE  (pending = d \/ ToBegin(d) \/ InitToCome(d))'
    BY <1>6 DEF ChannelEnd, ReloadRemembered, history
  <2>1. active /\ ~in_flight /\ main = "phase" /\ ~device_phase
    BY <1>6 DEF ChannelEnd, ConfigInv, MachineInv
  <2>2. initialised[d]
    BY <1>6 DEF ChannelEnd, Kept, ConfigInv, TypeOK
  <2>3. ~ToBegin(d)
    <3>1. step = 0 => ok /\ config_step(step, reload)
      BY <2>1 DEF ConfigInv, MachineInv, Awaited, config_step
    <3>2. Current = d => Configurable
      BY <2>2 DEF Configurable
    <3> QED  BY <1>6, <3>1, <3>2 DEF ChannelEnd, ToBegin
  <2>4. pending = d \/ (single = NoChannel /\ d > channel_idx)
    BY <2>1, <2>2, <2>3 DEF ReloadRemembered, InitToCome
  <2>5. main' = "end"
    BY <1>6 DEF ChannelEnd
  <2>6. CASE /\ single # NoChannel \/ channel_idx + 1 >= NumChannels
             /\ pending # NoChannel /\ StartConfig(TRUE) /\ single' = pending
    BY <2>4, <2>5, <2>6, SMTT(30) DEF StartConfig, ToBegin, Current, ConfigInv, TypeOK
  <2>7. CASE /\ ~(single # NoChannel \/ channel_idx + 1 >= NumChannels) \/ pending = NoChannel
             /\ step' = 0 /\ single' = NoChannel
             /\ active' = ~(single # NoChannel \/ channel_idx + 1 >= NumChannels)
             /\ UNCHANGED <<device_phase, in_flight, pending>>
    <3>1. channel_idx' = IF single = NoChannel THEN channel_idx + 1 ELSE channel_idx
      BY <1>6 DEF ChannelEnd, NextSequence
    <3>2. CASE pending = d
      BY <2>7, <3>2
    <3>3. CASE single = NoChannel /\ d > channel_idx
      <4>1. channel_idx + 1 < NumChannels /\ channel_idx \in Nat
        BY <3>3, SMTT(30) DEF ConfigInv, TypeOK
      <4>2. active' /\ channel_idx' = channel_idx + 1
        <5>1. ~(single # NoChannel \/ channel_idx + 1 >= NumChannels)
          BY <3>3, <4>1
        <5>2. active'
          BY <2>7, <5>1, Zenon
        <5> QED  BY <3>1, <3>3, <5>2
      <4>3. CASE d = channel_idx + 1
        BY <2>1, <2>5, <2>7, <4>2, <4>3 DEF ToBegin, Current
      <4>4. CASE d > channel_idx + 1
        BY <2>7, <4>2, <4>4 DEF InitToCome
      <4> QED  BY <3>3, <4>1, <4>3, <4>4
    <3> QED  BY <2>4, <3>2, <3>3
  <2> QED  BY <1>6, <2>6, <2>7 DEF ChannelEnd, NextSequence
<1>7. CASE \/ LoopNoEvent \/ LoopEnd \/ ConfigNothing \/ Submit \/ SubmitFails \/ Issued
           \/ Callback \/ UNCHANGED vars
  BY <1>7
  DEF LoopNoEvent, LoopEnd, BeginLoop, ConfigNothing, Submit, SubmitFails, Issued, Callback,
      CallbackRecord, CallbackPublish, CallbackWake, ReloadRemembered, ToBegin, InitToCome,
      Current, vars, channelVars, machine, history
<1> QED
  BY <1>1, <1>2, <1>3, <1>4, <1>5, <1>6, <1>7 DEF Next, RunConfigMachine

(* No reload is forgotten: settings changed since the last sequence of a   *)
(* channel began are in the pending slot or in a sequence yet to begin,    *)
(* unless a request for another channel took the slot (usb_uart.cpp:546).  *)
THEOREM ReloadsRemembered == Spec => []ReloadRemembered
<1>1. Init => ReloadRemembered
  BY DEF Init, ReloadRemembered
<1> QED  BY <1>1, ConfigInvariance, RememberStep, PTL DEF Spec
==============================================================================
