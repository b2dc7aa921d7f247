----------------------------- MODULE NuvotonGpio -----------------------------
(***************************************************************************)
(* gpio-nuvoton: the driver that reads and writes the GPIO registers of a  *)
(* Nuvoton Super I/O chip through one pair of I/O ports.                   *)
(*                                                                         *)
(* The chip listens only in its extended mode, and the index and logical   *)
(* device it works on are state that every access sets up anew, one outb   *)
(* at a time.  sysfs files take the I/O region first; the LED takes it but *)
(* ignores failure; the exported cw_gpio functions and the LED's getter    *)
(* take nothing.  Loading the module asks the chip what it is, registers   *)
(* the files and the LED, and turns the LED off.                           *)
(***************************************************************************)
EXTENDS NuvotonChips, FiniteSets

CONSTANTS
  Caller,      \* kernel threads that call the driver
  Jobs(_, _),  \* what a caller may ask of it on a board
  Hardware,    \* the boards
  Contents(_), \* register bits a board's firmware may have set
  Tries        \* attempts at the region (6500 in the code)

NoOne  == "no one"
NoChip == "none"
Byte   == 0 .. 255
Word   == 0 .. 65535
DeviceNumber == 0 .. 4095

(* A board has a chip (or one the driver does not know), with its device   *)
(* id, the I/O port of its hardware monitor, and that one's byte FBh of    *)
(* bank 0; the module may be loaded already.                               *)
Board == [name : Chip \cup {"other"}, id : DeviceNumber, hwm : Word, fb : Byte,
          loaded : BOOLEAN]

ASSUME CallerAssumption == NoOne \notin Caller
ASSUME TriesAssumption  == Tries \in Nat \ {0}
ASSUME HardwareAssumption ==
  /\ Hardware \subseteq Board
  /\ \A b \in Hardware : Contents(b) \subseteq SUBSET (Byte \X Byte \X Bit)
  /\ \A b \in Hardware : b.loaded => b.name \in Chip

(* nuvoton_match: device 0xD42 is told apart by byte FBh, and a device the *)
(* table does not list is driven as the first entry.                       *)
D42 == 3394
Identify(devid, fb) ==
  CASE devid = 3123 -> "NCT6776F"   \* 0xC33
    [] devid = 3158 -> "NCT6779D"   \* 0xC56
    [] devid = 3141 -> "NCT6104D"   \* 0xC45
    [] devid = 3368 -> "NCT6116D"   \* 0xD28
    [] devid = D42  ->
         IF (fb \div 8) % 4 = 0 THEN "NCT6796D" ELSE "NCT5581D"
    [] OTHER        -> "NCT6775F"

(* A board of a chip the driver knows answers with this chip's device id.  *)
ASSUME GenuineAssumption ==
  \A b \in Hardware : b.name \in Chip => b.name = Identify(b.id, b.fb)

Operations ==
  {"store", "show", "bus_set", "bus_get", "led_set", "led_get", "load", "unload"}

ASSUME JobsAssumption ==
  \A b \in Hardware, c \in Caller : \A job \in Jobs(b, c) :
    /\ job.op \in Operations
    /\ job.op \in {"store", "bus_set"} => job.port \in AnyPort

-----------------------------------------------------------------------------
VARIABLES
  board,   \* the board
  chip,    \* the chip nuvoton_match found
  files,   \* what the module has registered: the sysfs files, the LED
  sio,     \* the chip's front end: [ext, keys, index, device]
  high,    \* the register bits that are set: <<device, register, bit>>
  owner,   \* who holds the I/O region
  call     \* what every caller is doing

module == <<board, chip, files>>
vars   == <<board, chip, files, sio, high, owner, call>>

Idle == [phase |-> "idle"]

Bits(ld, reg) == {b \in Bit : <<ld, reg, b>> \in high}

(* One access: read a register, or read it and write it back with one bit  *)
(* changed.  Getters answer -1 for a port the chip lacks, in extended mode *)
(* already.  Setters do nothing for a port or a bit it lacks, but where    *)
(* the table of the "use as GPIO" bits goes beyond the chip's ports.       *)
Read(ld, reg)            == [kind |-> "read", ld |-> ld, reg |-> reg]
Write(ld, reg, bit, cmd) == [kind |-> "write", ld |-> ld, reg |-> reg, bit |-> bit, cmd |-> cmd]
Absent                   == [kind |-> "absent"]

Get(field, port) ==
  IF port \in Ports(chip)
    THEN Read(GetRegister(chip, field, port)[1], GetRegister(chip, field, port)[2])
    ELSE Absent

Set(field, port, bit, cmd) ==
  CASE field = "select" /\ port \in DOMAIN Select(chip) ->
         <<Write(Select(chip)[port][1], GPIO_USE_SEL, Select(chip)[port][2], cmd)>>
    [] field \in Field /\ port \in Ports(chip) /\ bit \in Bit ->
         <<Write(SetRegister(chip, field, port)[1], SetRegister(chip, field, port)[2], bit, cmd)>>
    [] OTHER -> << >>

(* The Wi-Fi LED is pin 64, lit when low.                                  *)
LedPort == 6
LedBit  == 4
Led(on) == Set("select", LedPort, LedBit, TRUE) \o Set("output", LedPort, LedBit, ~ on)

(* The number a set of bits stands for.                                    *)
Number(bits) ==
  LET w == [b \in Bit |-> IF b \in bits THEN 1 ELSE 0]
  IN  w[0] + 2 * w[1] + 4 * w[2] + 8 * w[3] + 16 * w[4] + 32 * w[5] + 64 * w[6] + 128 * w[7]

Binary(n) == {b \in Bit : (n \div 2 ^ b) % 2 = 1}

(* nuvoton_get_devid and get_io_mapping_addr, as far as what they have     *)
(* seen takes them: the two bytes of the device id; for D42 the two bytes  *)
(* of the hardware monitor's port; and unless that is 0, the monitor's     *)
(* enable register, which is set if it is not.                             *)
HWM    == 11
ENABLE == 48

DeviceId(seen) == 16 * Number(seen[1]) + Number(seen[2]) \div 16
HwmPort(seen)  == (256 * Number(seen[3]) + Number(seen[4])) \div 8

Ident    == [kind |-> "ident", reg |-> 32]
HwmBase  == [kind |-> "base", ld |-> HWM, reg |-> 96]
Peek     == [kind |-> "peek", reg |-> ENABLE]
Enable   == [kind |-> "enable", reg |-> ENABLE, bit |-> 0, cmd |-> TRUE]
Shut     == [kind |-> "shut"]

IdentificationPassive(seen) ==  \* mutant: the monitor is not enabled
  LET known(n) == Len(seen) >= n
  IN  <<Ident>>
      \o (IF known(2) /\ DeviceId(seen) = D42 THEN <<HwmBase>> ELSE << >>)
      \o (IF ~ known(4) THEN << >> ELSE IF HwmPort(seen) = 0 THEN <<Shut>> ELSE <<Peek>>)
      \o (IF ~ known(5) THEN << >> ELSE <<Shut>>)
Identification(seen) ==
  LET known(n) == Len(seen) >= n
  IN  <<Ident>>
      \o (IF known(2) /\ DeviceId(seen) = D42 THEN <<HwmBase>> ELSE << >>)
      \o (IF ~ known(4) THEN << >> ELSE IF HwmPort(seen) = 0 THEN <<Shut>> ELSE <<Peek>>)
      \o (IF ~ known(5) THEN << >> ELSE IF 0 \in seen[5] THEN <<Shut>> ELSE <<Enable>>)

Accesses(job, seen) ==
  CASE job.op \in {"store", "bus_set"} -> Set(job.field, job.port, job.bit, job.cmd)
    [] job.op = "show" /\ job.field = "select" ->
         [n \in DOMAIN SelectAsks(chip) |->
            Read(GetSelect(chip)[SelectAsks(chip)[n]], GPIO_USE_SEL)]
    [] job.op = "show" /\ job.field # "select" ->
         [n \in DOMAIN ListedPorts(chip) |-> Get(job.field, ListedPorts(chip)[n])]
    [] job.op = "bus_get" -> <<Get(job.field, job.port)>>
    [] job.op = "led_get" -> <<Get("output", LedPort)>>
    [] job.op = "led_set" -> Led(job.on)
    [] job.op = "load"    -> Identification(seen)
    [] job.op = "unload"  -> Led(FALSE)

(* The port instructions of an access.                                     *)
CodeNoDevice(access) ==  \* mutant: no access_device
  CASE access.kind = "read"   -> <<"key", "key", "index", "in", "leave">>
    [] access.kind = "write"  -> <<"key", "key", "index", "in", "index", "out", "leave">>
    [] access.kind = "absent" -> <<"key", "key">>
    [] access.kind = "ident"  -> <<"key", "key", "index", "in", "next", "in", "leave">>
    [] access.kind = "base"   -> <<"key", "key", "index", "in", "next", "in">>
    [] access.kind = "peek"   -> <<"index", "in">>
    [] access.kind = "enable" -> <<"index", "out", "leave">>
    [] access.kind = "shut"   -> <<"leave">>
Code(access) ==
  CASE access.kind = "read"   -> <<"key", "key", "cr7", "device", "index", "in", "leave">>
    [] access.kind = "write"  ->
         <<"key", "key", "cr7", "device", "index", "in", "index", "out", "leave">>
    [] access.kind = "absent" -> <<"key", "key">>
    [] access.kind = "ident"  -> <<"key", "key", "index", "in", "next", "in", "leave">>
    [] access.kind = "base"   -> <<"key", "key", "cr7", "device", "index", "in", "next", "in">>
    [] access.kind = "peek"   -> <<"index", "in">>
    [] access.kind = "enable" -> <<"index", "out", "leave">>
    [] access.kind = "shut"   -> <<"leave">>

Locks(job) == job.op \in {"store", "show", "led_set", "unload"}

Todo(c)   == Accesses(call[c].job, call[c].seen)
Done(c)   == call[c].phase = "inside" /\ call[c].n > Len(Todo(c))
Inside(c) == call[c].phase = "inside" /\ call[c].n <= Len(Todo(c))
Now(c)    == Todo(c)[call[c].n]
Instr(c)  == Code(Now(c))[call[c].i]

-----------------------------------------------------------------------------
(* The chip: two key bytes open it, the leave byte closes it; in between   *)
(* the first port sets the index and the second the register it selects.   *)

KeyByte == [sio EXCEPT !.keys = IF sio.ext THEN 0 ELSE 1 - @,
                       !.ext = @ \/ sio.keys = 1,
                       !.index = IF sio.ext THEN 135 ELSE @]
IndexByte(v) == [sio EXCEPT !.keys = 0, !.index = IF sio.ext THEN v ELSE @]
LeaveByte    == [sio EXCEPT !.keys = 0, !.ext = FALSE]

CR7 == 7

DataOut(bits) ==
  IF ~ sio.ext THEN UNCHANGED <<sio, high>>
  ELSE IF sio.index = CR7
    THEN sio' = [sio EXCEPT !.device = Number(bits)] /\ UNCHANGED high
    ELSE /\ high' = {h \in high : <<h[1], h[2]>> # <<sio.device, sio.index>>}
                    \cup {<<sio.device, sio.index, b>> : b \in bits}
         /\ UNCHANGED sio

(* The device id at 20h and 21h of every device, and the port of the       *)
(* hardware monitor at 60h and 61h of its own.                             *)
DataIn ==
  CASE ~ sio.ext          -> Bit
    [] sio.ext /\ sio.index = CR7 -> Binary(sio.device)
    [] sio.ext /\ sio.index = 32  -> Binary(board.id \div 16)
    [] sio.ext /\ sio.index = 33  -> Binary(16 * (board.id % 16))
    [] sio.ext /\ sio.device = HWM /\ sio.index = 96 -> Binary(board.hwm \div 256)
    [] sio.ext /\ sio.device = HWM /\ sio.index = 97 -> Binary(board.hwm % 256)
    [] OTHER -> Bits(sio.device, sio.index)

(* set_bit or clear_bit of the value read, of which outb writes a byte.    *)
ChangedWide(access, val) ==  \* mutant: all bits of the value are written
  IF access.cmd THEN val \cup {access.bit} ELSE val \ {access.bit}
Changed(access, val) ==
  Bit \cap (IF access.cmd THEN val \cup {access.bit} ELSE val \ {access.bit})

-----------------------------------------------------------------------------
Init ==
  /\ board \in Hardware
  /\ chip = IF board.loaded THEN board.name ELSE NoChip
  /\ files = IF board.loaded THEN {"sysfs", "led"} ELSE {}
  /\ sio = [ext |-> FALSE, keys |-> 0, index |-> 0, device |-> 0]
  /\ high \in Contents(board)
  /\ owner = NoOne
  /\ call = [c \in Caller |-> Idle]

Calling(phase, job, left) ==
  [phase |-> phase, job |-> job, left |-> left, n |-> 1, i |-> 1, seen |-> << >>]

Enter(job, left)  == Calling("inside", job, left)
Asking(job, left) == Calling("asking", job, left)

(* Files and LED exist while they are registered, the exported functions   *)
(* once the module is loaded; the kernel runs one init or exit at a time.  *)
Changing(c) == call[c].phase # "idle" /\ call[c].job.op \in {"load", "unload"}
Quiet       == \A c \in Caller : ~ Changing(c)

Offered(job) ==
  CASE job.op \in {"store", "show"}      -> "sysfs" \in files
    [] job.op \in {"led_set", "led_get"} -> "led" \in files
    [] job.op \in {"bus_set", "bus_get"} -> chip # NoChip /\ Quiet
    [] job.op = "load"                   -> chip = NoChip /\ Quiet
    [] job.op = "unload"                 -> chip # NoChip /\ Quiet

(* A load has no attempts to count, but the entries of the table that its  *)
(* chip may match.                                                         *)
Entries == 2
Left(job) == IF job.op = "load" THEN Entries ELSE Tries

Begin(c) ==
  /\ call[c].phase = "idle"
  /\ \E job \in Jobs(board, c) :
       /\ Offered(job)
       /\ call' = [call EXCEPT ![c] = IF Locks(job) THEN Asking(job, Tries) ELSE Enter(job, Left(job))]
  /\ UNCHANGED <<module, sio, high, owner>>

(* request_io_port, one attempt at a time.                                 *)
Take(c) ==
  /\ call[c].phase = "asking"
  /\ owner = NoOne
  /\ owner' = c
  /\ call' = [call EXCEPT ![c] = Enter(@.job, @.left)]
  /\ UNCHANGED <<module, sio, high>>

(* sysfs returns -EIO when the attempts are used up; the LED goes on.      *)
AfterFailureGoOn(job) == Enter(job, 0)  \* mutant: nobody looks at the result
AfterFailure(job) == IF job.op \in {"led_set", "unload"} THEN Enter(job, 0) ELSE Idle

Retry(c) ==
  /\ call[c].phase = "asking"
  /\ owner # NoOne
  /\ LET left == call[c].left - 1
     IN  call' = [call EXCEPT ![c] = IF left > 0 THEN Asking(@.job, left)
                                                 ELSE AfterFailure(@.job)]
  /\ UNCHANGED <<module, sio, high, owner>>

(* What follows an instruction: the next one, or the next access, with     *)
(* what was read remembered.                                               *)
Advance(c, seen) ==
  LET r    == call[c]
      last == IF Now(c).kind = "absent" THEN Append(r.seen, Bit) ELSE seen
  IN  call' = [call EXCEPT ![c] =
        IF r.i < Len(Code(Now(c)))
          THEN [r EXCEPT !.i = r.i + 1, !.seen = seen]
          ELSE [r EXCEPT !.i = 1, !.n = r.n + 1, !.seen = last]]

Address(c) ==
  /\ Inside(c)
  /\ \/ Instr(c) = "key"   /\ sio' = KeyByte
     \/ Instr(c) = "cr7"   /\ sio' = IndexByte(CR7)
     \/ Instr(c) = "index" /\ sio' = IndexByte(Now(c).reg)
     \/ Instr(c) = "next"  /\ sio' = IndexByte(Now(c).reg + 1)
     \/ Instr(c) = "leave" /\ sio' = LeaveByte
  /\ Advance(c, call[c].seen)
  /\ UNCHANGED <<module, high, owner>>

Device(c) ==
  /\ Inside(c) /\ Instr(c) = "device"
  /\ DataOut(Binary(Now(c).ld))
  /\ Advance(c, call[c].seen)
  /\ UNCHANGED <<module, owner>>

Inb(c) ==
  /\ Inside(c) /\ Instr(c) = "in"
  /\ Advance(c, Append(call[c].seen, DataIn))
  /\ UNCHANGED <<module, sio, high, owner>>

(* set_bit or clear_bit of the value read last.                            *)
Outb(c) ==
  /\ Inside(c) /\ Instr(c) = "out"
  /\ DataOut(Changed(Now(c), call[c].seen[Len(call[c].seen)]))
  /\ Advance(c, call[c].seen)
  /\ UNCHANGED <<module, owner>>

(* release_region frees the region whoever holds it.                       *)
Return(c) ==
  /\ Done(c) /\ ~ Changing(c)
  /\ owner' = IF Locks(call[c].job) THEN NoOne ELSE owner
  /\ call' = [call EXCEPT ![c] = Idle]
  /\ UNCHANGED <<module, sio, high>>

-----------------------------------------------------------------------------
(* Loading and unloading.                                                  *)

(* Byte FBh comes through a port of its own, which answers only when the   *)
(* monitor has one and is enabled.                                         *)
FB(seen) ==
  IF HwmPort(seen) # 0 /\ 0 \in Bits(HWM, ENABLE) THEN {board.fb} ELSE Byte

(* The loop goes on after a match, and device 0xD42 has two entries: with  *)
(* each the monitor is looked up, and the second answer replaces the first.*)
Again(r) == DeviceId(r.seen) = D42 /\ r.left = Entries

LookAgain(c) ==
  /\ Done(c) /\ call[c].job.op = "load" /\ Again(call[c])
  /\ call' = [call EXCEPT ![c].left = @ - 1, ![c].n = 2, ![c].i = 1,
                          ![c].seen = <<@[1], @[2]>>]
  /\ UNCHANGED <<module, sio, high, owner>>

(* Device id 0 matches the end of the table, and the load fails.           *)
Match(c) ==
  /\ Done(c) /\ call[c].job.op = "load" /\ ~ Again(call[c])
  /\ LET seen == call[c].seen
         id   == DeviceId(seen)
     IN  \E fb \in IF id = D42 THEN FB(seen) ELSE {0} :
           IF id = 0 THEN call' = [call EXCEPT ![c] = Idle] /\ UNCHANGED chip
           ELSE /\ call' = [call EXCEPT ![c] = Calling("matched", @.job, Tries)]
                /\ chip' = Identify(id, fb)
  /\ UNCHANGED <<board, files, sio, high, owner>>

(* misc_register may fail, which ends the load; gpio_register_fs may fail, *)
(* which nobody notices.                                                   *)
RegisterFiles(c) ==
  /\ call[c].phase = "matched"
  /\ \/ /\ call' = [call EXCEPT ![c] = Idle]
        /\ chip' = NoChip
        /\ UNCHANGED files
     \/ /\ call' = [call EXCEPT ![c].phase = "filed"]
        /\ files' \in {{}, {"sysfs"}}
        /\ UNCHANGED chip
  /\ UNCHANGED <<board, sio, high, owner>>

LedOff == [op |-> "led_set", on |-> FALSE]

RegisterLed(c) ==
  /\ call[c].phase = "filed"
  /\ call' = [call EXCEPT ![c] = Asking(LedOff, Tries)]
  /\ files' = files \cup {"led"}
  /\ UNCHANGED <<board, chip, sio, high, owner>>

(* Unregistering the LED turns it off, which takes the region.             *)
UnregisterLed(c) ==
  /\ Done(c) /\ call[c].job.op = "unload"
  /\ owner' = NoOne
  /\ files' = files \ {"led"}
  /\ call' = [call EXCEPT ![c].phase = "leaving"]
  /\ UNCHANGED <<board, chip, sio, high>>

(* Removing the files waits for those who are in one.                      *)
UnregisterFiles(c) ==
  /\ call[c].phase = "leaving"
  /\ \A d \in Caller \ {c} : call[d].phase = "idle"
  /\ files' = {}
  /\ chip' = NoChip
  /\ call' = [call EXCEPT ![c] = Idle]
  /\ UNCHANGED <<board, sio, high, owner>>

-----------------------------------------------------------------------------
Step(c) ==
  \/ Take(c) \/ Retry(c)
  \/ Address(c) \/ Device(c) \/ Inb(c) \/ Outb(c) \/ Return(c)
  \/ LookAgain(c) \/ Match(c) \/ RegisterFiles(c) \/ RegisterLed(c)
  \/ UnregisterLed(c) \/ UnregisterFiles(c)
Next == \E c \in Caller : Begin(c) \/ Step(c)

Spec == Init /\ [][Next]_vars

-----------------------------------------------------------------------------
(* Every variable has its type; a caller inside the driver is at an        *)
(* instruction of its job.  (g_priv, the ports, request_io_port.)          *)
TypeOK ==
  /\ board \in Hardware
  /\ chip \in Chip \cup {NoChip}
  /\ files \subseteq {"sysfs", "led"}
  /\ sio \in [ext : BOOLEAN, keys : 0 .. 1, index : Byte, device : Byte]
  /\ high \subseteq (Byte \X Byte \X Bit)
  /\ owner \in Caller \cup {NoOne}
  /\ \A c \in Caller :
       \/ call[c] = Idle
       \/ /\ call[c].phase \in {"asking", "inside", "matched", "filed", "leaving"}
          /\ call[c].job \in Jobs(board, c) \cup {LedOff}
          /\ call[c].left \in (0 .. Tries) \cup (1 .. Entries)
          /\ call[c].n \in 1 .. Len(Todo(c)) + 1
          /\ Inside(c) => call[c].i \in DOMAIN Code(Now(c))
          /\ call[c].seen \in Seq(SUBSET Bit)

(* Nobody is inside the driver for a file or the LED without somebody      *)
(* holding the region, and the chip is closed whenever nobody is inside:   *)
(* request_io_port and release_region enclose every such access, and every *)
(* access that opens the chip leaves it, identification included.          *)
RestsClosed ==
  /\ owner = NoOne => \A c \in Caller : call[c].phase = "inside" => ~ Locks(call[c].job)
  /\ (\A c \in Caller : call[c].phase # "inside") => ~ sio.ext

(* A chip of the table is driven as what it is, also the two that answer   *)
(* with one device id, unless the hardware monitor has no port             *)
(* (nuvoton_match asks the monitor, which only answers when enabled).      *)
Identified ==
  chip # NoChip /\ board.name \in Chip /\ (board.id = D42 => board.hwm >= 8) => chip = board.name

(* The bits a job is asked to give a value, as the chip's tables place     *)
(* them for the setters; none for a pin the chip lacks.                    *)
BitOf(field, port, bit) ==
  IF field = "select"
    THEN <<Select(chip)[port][1], GPIO_USE_SEL, Select(chip)[port][2]>>
    ELSE <<SetRegister(chip, field, port)[1], SetRegister(chip, field, port)[2], bit>>

Asked(job) ==
  CASE /\ job.op \in {"store", "bus_set"} /\ job.port \in Ports(chip)
       /\ job.field = "select" \/ job.bit \in Bit ->
         {<<BitOf(job.field, job.port, job.bit), job.cmd>>}
    [] job.op \in {"led_set", "unload"} /\ LedPort \in Ports(chip) ->
         {<<BitOf("select", LedPort, LedBit), TRUE>>,
          <<BitOf("output", LedPort, LedBit), job.op = "unload" \/ ~ job.on>>}
    [] OTHER -> {}

(* Loading may enable the hardware monitor.                                *)
Granted(job) ==
  Asked(job) \cup (IF job.op = "load" THEN {<<<<HWM, ENABLE, 0>>, TRUE>>} ELSE {})

(* A register bit changes only to the value somebody inside the driver was *)
(* asked to give it: read, modify and write do not lose or invent a bit    *)
(* although every step of them goes through the shared index and device.   *)
ChangesOnlyAsked ==
  [][\A h \in (high \ high') \cup (high' \ high) :
       \E c \in Caller : Inside(c) /\ <<h, h \in high'>> \in Granted(call[c].job)]_vars

(* When a setter returns, every bit it was asked for has its value; so the *)
(* LED is off when the module has been loaded or unloaded.                 *)
StoreTakesEffect ==
  \A c \in Caller : Done(c) =>
    \A a \in Asked(call[c].job) : (a[1] \in high) = a[2]

(* When a file is shown, what it lists for a port is what the registers    *)
(* the setters write for that port hold: setters, getters, the masks of    *)
(* the "select" file and the loop over the ports agree on the layout.      *)
ShowsWhatWasSet ==
  \A c \in Caller : Done(c) /\ call[c].job.op = "show" =>
    IF call[c].job.field = "select"
      THEN Reported(chip, call[c].seen) = {p \in Ports(chip) : BitOf("select", p, 0) \in high}
      ELSE \A n \in DOMAIN ListedPorts(chip) :
             LET r == SetRegister(chip, call[c].job.field, ListedPorts(chip)[n])
             IN  ListedPorts(chip)[n] \in Ports(chip) => call[c].seen[n] = Bits(r[1], r[2])
=============================================================================
