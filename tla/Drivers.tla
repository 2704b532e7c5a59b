-------------------------------- MODULE Drivers --------------------------------
(***************************************************************************)
(* What the four drivers and the CDC-ACM class tell a bridge chip when a   *)
(* channel is configured: config_step and config_device_step, run by the   *)
(* state machine of usb_uart.cpp one control transfer at a time, while the *)
(* settings of the channel change, transfers fail, and the chip is swapped *)
(* for another of its family.  The registers of the chip are modelled too, *)
(* so that what it ends up doing can be compared with the settings.        *)
(*                                                                         *)
(* One channel; how its machine shares the two threads is ConfigMachine.   *)
(***************************************************************************)
EXTENDS BaudEncoders, FiniteSets

CONSTANTS
  Families,   \* the drivers looked at
  Indices,    \* the positions of the channel among those of its device
  Bauds,      \* the baud rates a channel starts with
  NewBauds,   \* those the application changes to, ...
  DataBits, Parities, StopBits  \* ... with the formats it changes to

(* What the schema of usb_uart/__init__.py lets through. *)
SchemaBauds == {b \in Nat : b >= 300 /\ b <= 12000000}

ASSUME SettingsAssumption ==
  /\ Families \subseteq {"CdcAcm", "CP210X", "CH34X", "FT23XX", "PL2303"}
  /\ Indices \subseteq 0 .. 3 /\ 0 \in Indices
  /\ Bauds \subseteq SchemaBauds /\ NewBauds \subseteq SchemaBauds
  /\ DataBits \subseteq 5 .. 8 /\ Parities \subseteq 0 .. 4 /\ StopBits \subseteq 0 .. 2

MaxBaud(driver) ==
  CASE driver = "CdcAcm" -> 1000000
    [] driver \in {"CP210X", "CH34X"} -> 2000000
    [] driver = "PL2303" -> 6000000
    [] driver = "FT23XX" -> 12000000

(* A stop bit option is 0 for one bit, 1 for one and a half, 2 for two. *)
Format == [data_bits : DataBits, parity : Parities, stop_bits : StopBits]
DefaultFormat == [data_bits |-> 8, parity |-> 0, stop_bits |-> 0]

Settings(driver) ==
  {[baud_rate |-> b, format |-> f] :
     b \in {n \in NewBauds : n <= MaxBaud(driver)}, f \in Format}

(* The chips, by what their descriptors say: plain is a device of no class *)
(* with packets of 64 bytes.                                               *)
Chip(driver, type, bcdUSB, bcdDevice, plain) ==
  [driver |-> driver, type |-> type, bcdUSB |-> bcdUSB, bcdDevice |-> bcdDevice,
   plain |-> plain, serial |-> TRUE]

FtdiChips ==
  {Chip("FT23XX", t[1], 512, t[2], TRUE) :
     t \in {<<"AM", 512>>, <<"BM", 1024>>, <<"2232C", 1280>>, <<"R", 1536>>,
            <<"2232H", 1792>>, <<"4232H", 2048>>, <<"232H", 2304>>, <<"230X", 4096>>}}
  \cup {[Chip("FT23XX", "BM", 512, 512, TRUE) EXCEPT !.serial = FALSE]}

Pl2303Chips ==
  {Chip("PL2303", "H", 272, 512, FALSE), Chip("PL2303", "HX", 272, 768, TRUE),
   Chip("PL2303", "HXD", 272, 1024, TRUE), Chip("PL2303", "TA", 512, 768, TRUE),
   Chip("PL2303", "TB", 512, 1280, TRUE), Chip("PL2303", "HXN", 512, 256, TRUE)}

Chips ==
  {c \in FtdiChips \cup Pl2303Chips
         \cup {Chip(d, "any", 512, 256, TRUE) : d \in {"CdcAcm", "CP210X", "CH34X"}} :
     c.driver \in Families}

NoChip == Chip("none", "none", 0, 0, FALSE)

MaxChannels(driver) ==
  CASE driver \in {"CH34X", "FT23XX"} -> 4
    [] driver = "CP210X" -> 3
    [] OTHER -> 1

VARIABLES
  driver,       \* the class of the component
  index,        \* index_ of the channel, and the port it has on the chip
  settings,     \* baud_rate_ and the format of the channel
  chip,         \* the device that is connected, or NoChip
  chip_type,    \* chip_type_ of the driver
  regs,         \* the registers of the port
  initialised,  \* initialised_ of the channel
  active, reload, device_phase, step, ok, pending,  \* the cfg_* members
  in_flight,    \* the control transfer on its way
  spoiled       \* the last reload was given up half-way

config == <<driver, index>>
machine == <<active, reload, device_phase, step, ok, pending>>
vars == <<config, settings, chip, chip_type, regs, initialised, machine,
          in_flight, spoiled>>

------------------------------------------------------------------------------
(* Control transfers: what is asked for, which port it is addressed to,    *)
(* and its value and index or data.                                        *)
Transfer(request, to, value, idx) ==
  [request |-> request, to |-> to, value |-> value, idx |-> idx]
NoTransfer == Transfer("none", 0, 0, 0)
Idle == in_flight.request = "none"

baud_rate == settings.baud_rate
format == settings.format

(* usb_uart.cpp: the line coding of the CDC class; DTR and RTS on a full   *)
(* init only.                                                              *)
CdcAcmSteps(r) ==
  <<Transfer("line_coding", index, encode_baud_direct(baud_rate), format)>>
    \o IF r THEN <<>> ELSE <<Transfer("control_line", index, 0, 0)>>

(* cp210x.cpp: the interface is enabled on a full init only. *)
CP210XSteps(r) ==
  (IF r THEN <<>> ELSE <<Transfer("ifc_enable", index, 0, 0)>>)
    \o <<Transfer("line_ctl", index, format.stop_bits + format.parity * 16
                                       + format.data_bits * 256, 0),
         Transfer("baudrate", index, encode_baud_direct(baud_rate), 0),
         Transfer("modem", index, 0, 0)>>

(* ch34x.cpp: the registers in one request and, on a reload as well, a     *)
(* second one, taken for the handshake lines; both are numbered by port.   *)
(* One and a half stop bits make one.                                      *)
Ch34xCommand(port) == 161 + port + IF port >= 2 THEN 14 ELSE 0

Ch34xLine ==
  192 + (IF format.stop_bits = 2 THEN 4 ELSE 0)
      + (IF format.parity = 0 THEN 0 ELSE 8 + (format.parity - 1) * 16)
      + format.data_bits - 5

CH34XSteps(r) ==
  IF Ch34xRejected(baud_rate) THEN <<>>
  ELSE <<Transfer("serial_init", Ch34xCommand(index), Ch34xLine * 256 + 140,
                  Ch34xFactor(baud_rate) * 256 + Ch34xPrescaler(baud_rate)),
         Transfer("handshake", Ch34xCommand(index) + 3, 128, 0)>>

(* ft23xx.cpp: on a reload only rate and line.  Of the index that the      *)
(* encoder computes the high byte is used; what it has in the low one is   *)
(* replaced by the number of the port.                                     *)
FT23XXSteps(r) ==
  LET c == ftdi_convert_baudrate(baud_rate, chip_type, index)
      all == <<Transfer("reset", index + 1, 0, 0),
               Transfer("baudrate", index + 1, c.value, c.index \div 256),
               Transfer("line", index + 1, format.data_bits + format.parity * 256
                                             + format.stop_bits * 2048, 0),
               Transfer("modem", index + 1, 0, 0)>>
  IN  IF r THEN SubSeq(all, 2, 3) ELSE all

(* pl2303.cpp: the vendor sequence of a chip that is no HXN, whose last    *)
(* index depends on the chip.                                              *)
PL2303_INIT ==
  LET read == Transfer("vendor_read", 0, 0, 0)
      write(v, i) == Transfer("vendor_write", 0, v, i)
  IN  <<read, write(1028, 0), read, read, read, write(1028, 1), read, read,
        write(0, 1), write(1, 0), write(2, IF chip_type = "H" THEN 36 ELSE 68)>>

PL2303Steps(r) ==
  (IF r \/ chip_type = "HXN" THEN <<>> ELSE PL2303_INIT)
    \o <<Transfer("line_coding", index, Pl2303Baud(baud_rate, chip_type),
                  [format EXCEPT !.stop_bits = IF @ = 2 THEN 2 ELSE 0])>>
    \o IF r THEN <<>> ELSE <<Transfer("control_line", index, 0, 0)>>

(* The sequence of config_step for the settings of this moment. *)
Steps(r) ==
  CASE driver = "CdcAcm" -> CdcAcmSteps(r)
    [] driver = "CP210X" -> CP210XSteps(r)
    [] driver = "CH34X" -> CH34XSteps(r)
    [] driver = "FT23XX" -> FT23XXSteps(r)
    [] driver = "PL2303" -> PL2303Steps(r)

------------------------------------------------------------------------------
(* parse_descriptors of the two drivers that tell chips apart. *)

(* A chip it does not know leaves the type as it was. *)
FtdiKnown == {512, 1024, 1280, 1536, 1792, 2048, 2304, 4096}

FtdiType(c) ==
  IF c.bcdDevice \notin FtdiKnown THEN chip_type
  ELSE CASE c.bcdDevice = 1024 \/ (c.bcdDevice = 512 /\ ~c.serial) -> "BM"
         [] c.bcdDevice = 512 /\ c.serial -> "AM"
         [] c.bcdDevice = 1280 -> "2232C"
         [] c.bcdDevice = 1536 -> "R"
         [] c.bcdDevice = 1792 -> "2232H"
         [] c.bcdDevice = 2048 -> "4232H"
         [] c.bcdDevice = 2304 -> "232H"
         [] c.bcdDevice = 4096 -> "230X"

Pl2303Type(c) ==
  IF ~c.plain THEN "H"
  ELSE IF c.bcdUSB \in {257, 272} THEN IF c.bcdDevice = 1024 THEN "HXD" ELSE "HX"
  ELSE IF c.bcdDevice = 768 THEN "TA"
  ELSE IF c.bcdDevice = 1280 THEN "TB" ELSE "HXN"

DetectedType(c) ==
  CASE driver = "FT23XX" -> FtdiType(c)
    [] driver = "PL2303" -> Pl2303Type(c)
    [] OTHER -> chip_type

------------------------------------------------------------------------------
(* The chip.  A register that has not been set since the power came or     *)
(* since a reset is <<>>.                                                  *)
PowerOn(c) ==
  [ready |-> c.driver \in {"CdcAcm", "CH34X"} \/ c.type = "HXN",
   modem |-> FALSE, rate |-> <<>>, line |-> <<>>]

PortOf(t) ==
  CASE driver = "CH34X" ->
         CHOOSE p \in 0 .. 3 : t.to \in {Ch34xCommand(p), Ch34xCommand(p) + 3}
    [] driver = "FT23XX" -> t.to - 1
    [] OTHER -> t.to

Executed(t) ==
  IF PortOf(t) # index THEN regs
  ELSE
  CASE t.request \in {"reset", "ifc_enable"} ->
         [ready |-> TRUE, modem |-> FALSE, rate |-> <<>>, line |-> <<>>]
    [] t.request = "vendor_write" ->
         [regs EXCEPT !.ready =
            @ \/ (t.value = 2 /\ t.idx = IF chip.type = "H" THEN 36 ELSE 68)]
    [] t.request \in {"modem", "control_line", "handshake"} -> [regs EXCEPT !.modem = TRUE]
    [] t.request = "baudrate" -> [regs EXCEPT !.rate = <<t.value, t.idx>>]
    [] t.request \in {"line", "line_ctl"} -> [regs EXCEPT !.line = <<t.value>>]
    [] t.request = "line_coding" ->
         [regs EXCEPT !.rate = <<t.value, 0>>, !.line = <<t.idx>>]
    [] t.request = "serial_init" ->
         [regs EXCEPT !.rate = <<0, t.idx>>, !.line = <<t.value>>]
    [] OTHER -> regs

(* The divisor code an FTDI chip is given.  The low byte of the index, in  *)
(* which a chip that is no H chip looks for the third bit of the eighths,  *)
(* is that of the port (ft23xx.cpp:357).                                   *)
ThirdBit == FtdiThirdBit(chip.type, index + 1, regs.rate[2])
FtdiCode == regs.rate[1] + ThirdBit * 65536
FtdiClock == IF (regs.rate[2] \div 2) % 2 = 1 THEN 12000000 ELSE 3000000

RateMatches ==
  /\ driver \in {"CdcAcm", "CP210X"} => DirectBaud(regs.rate[1]) = baud_rate
  /\ driver = "PL2303" => Pl2303Close(regs.rate[1], chip.type, baud_rate)
  /\ driver = "CH34X" =>
       Ch34xNearest(regs.rate[2] % 256, regs.rate[2] \div 256, baud_rate)
  /\ driver = "FT23XX" =>
       FtdiNearestCode(FtdiCode, baud_rate, chip.type, FtdiClock)

(* The port has taken the place of the third bit, and is another: with the *)
(* bit as the encoder had it the divisor would be right.                   *)
ThirdBitSpoiled ==
  /\ driver = "FT23XX" /\ chip.type \in FtdiB
  /\ ThirdBit # EncodedDivisor(baud_rate, chip.type) \div 65536
  /\ FtdiNearestCode(regs.rate[1] + (1 - ThirdBit) * 65536, baud_rate, chip.type, FtdiClock)

LineFormat ==
  LET v == regs.line[1]
      ch34x == v \div 256
  IN  CASE driver \in {"CdcAcm", "PL2303"} -> v
        [] driver = "CP210X" ->
             [data_bits |-> v \div 256, parity |-> (v \div 16) % 16, stop_bits |-> v % 16]
        [] driver = "FT23XX" ->
             [data_bits |-> v % 256, parity |-> (v \div 256) % 8, stop_bits |-> v \div 2048]
        [] driver = "CH34X" ->
             [data_bits |-> (ch34x % 4) + 5,
              parity |-> IF (ch34x \div 8) % 2 = 0 THEN 0 ELSE ((ch34x \div 16) % 4) + 1,
              stop_bits |-> IF (ch34x \div 4) % 2 = 0 THEN 0 ELSE 2]

(* Two of the drivers make one stop bit of one and a half. *)
WantedFormat ==
  IF driver \in {"CH34X", "PL2303"} /\ format.stop_bits = 1
    THEN [format EXCEPT !.stop_bits = 0] ELSE format

------------------------------------------------------------------------------
TypeOK ==
  /\ driver \in Families /\ index \in {i \in Indices : i < MaxChannels(driver)}
  /\ settings.format \in Format \cup {DefaultFormat}
  /\ chip \in Chips \cup {NoChip}
  /\ {initialised, active, reload, device_phase, ok, pending, spoiled} \subseteq BOOLEAN
  /\ step \in 0 .. Len(PL2303_INIT) + 4
  /\ active => step <= Len(Steps(reload)) + 1

Init ==
  /\ driver \in Families
  /\ index \in {i \in Indices : i < MaxChannels(driver)}
  /\ settings \in {[baud_rate |-> b, format |-> DefaultFormat] :
                     b \in {n \in Bauds : n <= MaxBaud(driver)}}
  /\ chip = NoChip /\ chip_type = "unknown"
  /\ regs = PowerOn(NoChip)
  /\ initialised = FALSE /\ active = FALSE /\ reload = FALSE /\ device_phase = FALSE
  /\ step = 0 /\ ok = TRUE /\ pending = FALSE
  /\ in_flight = NoTransfer /\ spoiled = FALSE

FirstStep == step' = 0 /\ ok' = TRUE

(* How many ports the chips have; a channel without one stays as it is     *)
(* (usb_uart.cpp:420-424).                                                 *)
Ports(c) ==
  CASE c.driver # "FT23XX" -> MaxChannels(c.driver)
    [] c.type \in {"2232C", "2232H"} -> 2
    [] c.type = "4232H" -> 4
    [] OTHER -> 1

(* A device comes: parse_descriptors and enable_channels. *)
Connect(c) ==
  /\ chip = NoChip
  /\ Idle
  /\ c.driver = driver /\ index < Ports(c)
  /\ chip' = c
  /\ chip_type' = DetectedType(c)
  /\ regs' = PowerOn(c)
  /\ initialised' = TRUE
  /\ active' = TRUE /\ reload' = FALSE /\ device_phase' = TRUE
  /\ FirstStep /\ pending' = FALSE
  /\ spoiled' = FALSE
  /\ UNCHANGED <<config, settings, in_flight>>

Disconnect ==
  /\ chip # NoChip
  /\ chip' = NoChip
  /\ initialised' = FALSE
  /\ UNCHANGED <<config, settings, chip_type, regs, machine, in_flight, spoiled>>

(* Mutant: settings changed while the machine is busy are left to it. *)
LoadSettingsMutant(s) ==
  /\ settings' = s
  /\ \/ /\ active
        /\ UNCHANGED machine
     \/ /\ ~active
        /\ active' = TRUE /\ reload' = TRUE /\ device_phase' = FALSE
        /\ FirstStep
        /\ UNCHANGED pending
  /\ UNCHANGED <<config, chip, chip_type, regs, initialised, in_flight, spoiled>>

(* The application sets the members and calls load_settings. *)
LoadSettings(s) ==
  /\ settings' = s
  /\ \/ /\ active
        /\ pending' = TRUE
        /\ UNCHANGED <<active, reload, device_phase, step, ok>>
     \/ /\ ~active
        /\ active' = TRUE /\ reload' = TRUE /\ device_phase' = FALSE
        /\ FirstStep
        /\ UNCHANGED pending
  /\ UNCHANGED <<config, chip, chip_type, regs, initialised, in_flight, spoiled>>

------------------------------------------------------------------------------
(* run_config_machine_, when no transfer is on its way. *)
MayRun == active /\ Idle

(* The CH34x is asked for its version first. *)
HasDeviceStep == driver = "CH34X" /\ step = 0
HasStep == initialised /\ ok /\ step < Len(Steps(reload))

Issue ==
  /\ MayRun
  /\ \/ device_phase /\ HasDeviceStep /\ in_flight' = Transfer("version", Ch34xCommand(index), 0, 0)
     \/ ~device_phase /\ HasStep /\ in_flight' = Steps(reload)[step + 1]
  /\ UNCHANGED <<config, settings, chip, chip_type, regs, initialised, machine, spoiled>>

(* The submission of a step fails. *)
IssueFails ==
  /\ MayRun
  /\ IF device_phase THEN HasDeviceStep ELSE HasStep
  /\ step' = step + 1
  /\ ok' = FALSE
  /\ UNCHANGED <<config, settings, chip, chip_type, regs, initialised, active,
                 reload, device_phase, pending, in_flight, spoiled>>

(* A transfer is completed.  One that is reported as failed may have been  *)
(* executed; without a device all fail.                                    *)
Complete(success, executed) ==
  /\ ~Idle
  /\ success => executed
  /\ executed => chip # NoChip
  /\ regs' = IF executed THEN Executed(in_flight) ELSE regs
  /\ in_flight' = NoTransfer
  /\ step' = step + 1
  /\ ok' = success
  /\ UNCHANGED <<config, settings, chip, chip_type, initialised, active, reload,
                 device_phase, pending, spoiled>>

DevicePhaseEnd ==
  /\ MayRun
  /\ device_phase /\ ~HasDeviceStep
  /\ device_phase' = FALSE
  /\ FirstStep
  /\ UNCHANGED <<config, settings, chip, chip_type, regs, initialised, active,
                 reload, pending, in_flight, spoiled>>

(* Mutant: a reload that was asked for is asked for again at its end. *)
SequenceEndMutant ==
  /\ MayRun
  /\ ~device_phase /\ ~HasStep
  /\ initialised' = (initialised /\ (ok \/ reload))
  /\ spoiled' = (initialised /\ ~ok)
  /\ active' = pending
  /\ reload' = (reload \/ pending)
  /\ FirstStep
  /\ UNCHANGED <<config, settings, chip, chip_type, regs, device_phase, in_flight,
                 pending>>

(* The sequence is over, or given up: a failed init leaves the channel     *)
(* uninitialised.  A reload that waits begins.                             *)
SequenceEnd ==
  /\ MayRun
  /\ ~device_phase /\ ~HasStep
  /\ initialised' = (initialised /\ (ok \/ reload))
  /\ spoiled' = (initialised /\ ~ok)
  /\ active' = pending
  /\ reload' = (reload \/ pending)
  /\ pending' = FALSE
  /\ FirstStep
  /\ UNCHANGED <<config, settings, chip, chip_type, regs, device_phase, in_flight>>

------------------------------------------------------------------------------
Asks == \E s \in Settings(driver) : LoadSettings(s)

Runs == Issue \/ DevicePhaseEnd \/ SequenceEnd
Completes == \E success, executed \in BOOLEAN : Complete(success, executed)

Next ==
  \/ \E c \in Chips : Connect(c)
  \/ Disconnect
  \/ Asks
  \/ IssueFails
  \/ Runs
  \/ Completes

Spec == Init /\ [][Next]_vars

(* loop() goes on, and the host stack completes every transfer: InitEnds   *)
(* of ConfigMachine is why that much may be assumed here.                  *)
FairSpec == Spec /\ WF_vars(Runs) /\ WF_vars(Completes)

------------------------------------------------------------------------------
(* When the machine is at rest and neither the init nor the last reload    *)
(* failed, the chip of the channel has been started, has DTR asserted, and *)
(* runs with the settings of the channel as near as it can: whatever was   *)
(* changed in the middle of a sequence, whatever failed on the way, and    *)
(* whichever chip of the family was there before.  (usb_uart.cpp:503-506.) *)
(* A BM, 2232C, R or 230X may be off by the third bit of its fraction, and *)
(* by no other bit.                                                        *)
SettingsApplied ==
  initialised /\ ~active /\ ~spoiled =>
    /\ regs.ready /\ regs.modem
    /\ regs.rate # <<>> /\ (ThirdBitSpoiled \/ RateMatches)
    /\ regs.line # <<>> /\ LineFormat = WantedFormat

(* In a well-typed state, a chip at rest runs with its settings.           *)
ChipSound == TypeOK /\ SettingsApplied

(* Once the device stays and the settings do, the machine comes to rest:   *)
(* deferred reloads do not keep each other going.                          *)
Settles == <>[](chip # NoChip) /\ <>[][~Asks]_vars => <>[]~active

------------------------------------------------------------------------------
(* What the code does not guarantee: TLC refutes these (README.md).        *)

(* ft23xx.cpp:355, "set baudrate": the chip runs with the divisor that     *)
(* ftdi_convert_baudrate found, all its bits.  An R at 115200 does not.    *)
FractionCarried == initialised /\ ~active /\ ~spoiled => RateMatches

(* usb_uart.h:232: "reload=true => apply only baud/parity/stop/data (skip  *)
(* enable/reset/DTR-RTS)".                                                 *)
ReloadGentle ==
  reload => in_flight.request \notin {"reset", "ifc_enable", "vendor_write",
                                      "modem", "control_line"}
==============================================================================
