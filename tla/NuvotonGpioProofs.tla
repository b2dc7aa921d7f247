-------------------------- MODULE NuvotonGpioProofs --------------------------
(***************************************************************************)
(* Any number of users of the sysfs files, on boards where the module is   *)
(* loaded, with any register contents the firmware may have left: they     *)
(* keep each other from the chip, although every access to it is several   *)
(* port instructions and each of them depends on the ones before.          *)
(***************************************************************************)
EXTENDS NuvotonGpio, SequenceTheorems, TLAPS

(* A pin is ten times a port and one of its bits, of which there are eight.*)
Stores == [op : {"store"}, field : Field \cup {"select"}, port : AnyPort, bit : 0 .. 9,
           cmd : BOOLEAN]
Shows  == [op : {"show"}, field : Field \cup {"select"}]

(* The module is loaded, and everybody goes through the files.             *)
FilesOnly ==
  \A b \in Hardware :
    /\ b.loaded
    /\ \A c \in Caller : Jobs(b, c) \subseteq Stores \cup Shows

(* The files list only ports the chip has; those of the NCT6796D do not.   *)
Listed ==
  \A b \in Hardware :
    \A n \in DOMAIN ListedPorts(b.name) : ListedPorts(b.name)[n] \in Ports(b.name)

(* Nobody selects a port the chip lacks, where the driver does not refuse  *)
(* it: on the NCT6775F and the NCT6796D.                                   *)
OwnBoard(b) ==
  \A c \in Caller : \A job \in Jobs(b, c) :
    job.op = "store" /\ job.field = "select" /\ job.port \in DOMAIN Select(b.name)
      => job.port \in Ports(b.name)

OwnPorts == \A b \in Hardware : OwnBoard(b)

LogicalDevice == {LD7, LD8, LD9}
Register      == {GPIO_USE_SEL} \cup (E0 .. 255)

Reads  == [kind : {"read"}, ld : LogicalDevice, reg : Register]
Writes == [kind : {"write"}, ld : LogicalDevice, reg : Register, bit : 0 .. 15, cmd : BOOLEAN]
Access == Reads \cup Writes \cup {Absent}

-----------------------------------------------------------------------------
(* The tables of the chips.                                                *)

LEMMA SetTables ==
  ASSUME NEW k \in Chip, NEW p \in Ports(k)
  PROVE  /\ SetDevice(k)[p] \in LogicalDevice
         /\ p \in DOMAIN Select(k) /\ Select(k)[p][2] \in Bit
<1>. USE DEF AnyPort, SetDevice, Select, Ports, Base, Devices, LogicalDevice, LD7, LD8, LD9, Bit
<1>1. CASE k = "NCT6775F"
  BY <1>1 DEF SetDeviceNCT6775F, SelectNCT6775F
<1>2. CASE k = "NCT6776F"
  BY <1>2 DEF SetDeviceNCT6776F, SelectNCT6776F
<1>3. CASE k = "NCT6779D"
  BY <1>3 DEF SetDeviceNCT6779D, SelectNCT6779D
<1>4. CASE k = "NCT6104D"
  BY <1>4 DEF SetDeviceNCT6104D, SelectNCT6104D
<1>5. CASE k = "NCT6116D"
  BY <1>5 DEF SetDeviceNCT6116D, SelectNCT6116D
<1>6. CASE k = "NCT6796D"
  BY <1>6 DEF SetDeviceNCT6796D, SelectNCT6796D
<1>7. CASE k = "NCT5581D"
  BY <1>7 DEF SetDeviceNCT5581D, SelectNCT5581D
<1>. QED  BY <1>1, <1>2, <1>3, <1>4, <1>5, <1>6, <1>7 DEF Chip

LEMMA SelectTables ==
  ASSUME NEW k \in Chip, NEW p \in DOMAIN Select(k)
  PROVE  Select(k)[p][1] \in LogicalDevice /\ Select(k)[p][2] \in 0 .. 15
<1>. USE DEF AnyPort, Select, LogicalDevice, LD7, LD8, LD9
<1>1. CASE k = "NCT6775F"
  BY <1>1 DEF SelectNCT6775F
<1>2. CASE k = "NCT6776F"
  BY <1>2 DEF SelectNCT6776F
<1>3. CASE k = "NCT6779D"
  BY <1>3 DEF SelectNCT6779D
<1>4. CASE k = "NCT6104D"
  BY <1>4 DEF SelectNCT6104D
<1>5. CASE k = "NCT6116D"
  BY <1>5 DEF SelectNCT6116D
<1>6. CASE k = "NCT6796D"
  BY <1>6 DEF SelectNCT6796D
<1>7. CASE k = "NCT5581D"
  BY <1>7 DEF SelectNCT5581D
<1>. QED  BY <1>1, <1>2, <1>3, <1>4, <1>5, <1>6, <1>7 DEF Chip

LEMMA GetTables ==
  ASSUME NEW k \in Chip, NEW p \in Ports(k)
  PROVE  /\ GetDevice(k)[p] \in LogicalDevice
         /\ GetSelect(k)[p] \in LogicalDevice
<1>. USE DEF GetDevice, GetSelect, Ports, Base, Devices, LogicalDevice, LD7, LD8, LD9
<1>1. CASE k = "NCT6775F"
  BY <1>1 DEF GetDeviceNCT6775F, GetSelectNCT6775F
<1>2. CASE k = "NCT6776F"
  BY <1>2 DEF GetDeviceNCT6776F, GetSelectNCT6776F
<1>3. CASE k = "NCT6779D"
  BY <1>3 DEF GetDeviceNCT6779D, GetSelectNCT6779D
<1>4. CASE k = "NCT6104D"
  BY <1>4 DEF GetDeviceNCT6104D, GetSelectNCT6104D
<1>5. CASE k = "NCT6116D"
  BY <1>5 DEF GetDeviceNCT6116D, GetSelectNCT6116D
<1>6. CASE k = "NCT6796D"
  BY <1>6 DEF GetDeviceNCT6796D, GetSelectNCT6796D
<1>7. CASE k = "NCT5581D"
  BY <1>7 DEF GetDeviceNCT5581D, GetSelectNCT5581D
<1>. QED  BY <1>1, <1>2, <1>3, <1>4, <1>5, <1>6, <1>7 DEF Chip

LEMMA Registers ==
  ASSUME NEW k \in Chip, NEW p \in Ports(k), NEW f \in Field
  PROVE  /\ Base(k)[p] + Offset[f] \in Register
         /\ Base(k)[p] + Offset[f] # GPIO_USE_SEL
         /\ GetBase(k, f, p) + Offset[f] \in Register
<1>1. \A q \in Ports(k) : Base(k)[q] \in E0 .. E0 + 28
  <2>. USE DEF Ports, Base, E0, F0
  <2>1. CASE k \in {"NCT6775F", "NCT6776F"}
    BY <2>1 DEF Classic
  <2>2. CASE k \in {"NCT6779D", "NCT6796D"}
    BY <2>2 DEF Classic
  <2>3. CASE k = "NCT5581D"
    BY <2>3 DEF Classic
  <2>4. CASE k \in {"NCT6104D", "NCT6116D"}
    BY <2>4
  <2>. QED  BY <2>1, <2>2, <2>3, <2>4 DEF Chip
<1>2. Offset[f] \in 0 .. 2
  BY DEF Offset, Field
<1>3. k = "NCT6116D" => 7 \in Ports(k)
  BY DEF Ports, Base
<1>4. \A q \in Ports(k) : Base(k)[q] + Offset[f] \in Register
  BY <1>1, <1>2 DEF Register, E0
<1>5. Base(k)[p] + Offset[f] # GPIO_USE_SEL
  BY <1>1, <1>2 DEF GPIO_USE_SEL, E0
<1>. QED  BY <1>3, <1>4, <1>5 DEF GetBase

LEMMA SelectFile ==
  ASSUME NEW k \in Chip
  PROVE  /\ SelectAsks(k) \in Seq(Nat)
         /\ \A n \in DOMAIN SelectAsks(k) : SelectAsks(k)[n] \in Ports(k)
BY DEF Chip, SelectAsks, Ports, Base

LEMMA OtherFiles ==
  ASSUME NEW k \in Chip
  PROVE  ListedPorts(k) \in Seq(Nat)
BY DEF Chip, ListedPorts

-----------------------------------------------------------------------------
(* What a job asks of the chip does not depend on what it has seen: one    *)
(* write for a store, reads for a file.                                    *)
Plan(job) == Accesses(job, << >>)

LEMMA PlanOfStore ==
  ASSUME chip \in Chip, NEW job \in Stores
  PROVE  /\ \A seen : Accesses(job, seen) = Plan(job)
         /\ \/ Plan(job) = << >> /\ Asked(job) = {}
            \/ \E a \in Writes :
                 /\ Plan(job) = <<a>>
                 /\ \/ Asked(job) = {<<<<a.ld, a.reg, a.bit>>, a.cmd>>} /\ a.bit \in Bit
                    \/ /\ Asked(job) = {} /\ job.field = "select"
                       /\ job.port \in DOMAIN Select(chip) /\ job.port \notin Ports(chip)
<1>0. /\ job.op = "store" /\ job.field \in Field \cup {"select"} /\ "select" \notin Field
      /\ job.bit \in 0 .. 9 /\ job.cmd \in BOOLEAN
  BY DEF Stores, Field
<1>1. \A seen : Accesses(job, seen) = Set(job.field, job.port, job.bit, job.cmd)
  BY <1>0 DEF Accesses
<1>2. CASE job.field = "select" /\ job.port \in DOMAIN Select(chip)
  <2>. DEFINE a == Write(Select(chip)[job.port][1], GPIO_USE_SEL,
                         Select(chip)[job.port][2], job.cmd)
  <2>1. Plan(job) = <<a>>
    <3>1. Set(job.field, job.port, job.bit, job.cmd) = <<a>>
      BY <1>0, <1>2 DEF Set
    <3>. QED  BY <1>1, <3>1 DEF Plan
  <2>2. a \in Writes
    BY <1>0, <1>2, SelectTables DEF Write, Writes, Register
  <2>3. CASE job.port \in Ports(chip)
    <3>1. Asked(job) = {<<BitOf(job.field, job.port, job.bit), job.cmd>>}
      BY <1>0, <1>2, <2>3 DEF Asked
    <3>2. BitOf(job.field, job.port, job.bit) = <<a.ld, a.reg, a.bit>>
      BY <1>2 DEF BitOf, Write
    <3>3. a.cmd = job.cmd /\ a.bit \in Bit
      BY <2>3, SetTables DEF Write
    <3>. QED  BY <1>1, <2>1, <2>2, <3>1, <3>2, <3>3 DEF Plan
  <2>4. CASE job.port \notin Ports(chip)
    <3>1. Asked(job) = {}
      BY <1>0, <2>4 DEF Asked
    <3>. QED  BY <1>1, <1>2, <2>1, <2>2, <2>4, <3>1 DEF Plan
  <2>. QED  BY <2>3, <2>4
<1>3. CASE job.field \in Field /\ job.port \in Ports(chip) /\ job.bit \in Bit
  <2>. DEFINE r == SetRegister(chip, job.field, job.port)
              a == Write(r[1], r[2], job.bit, job.cmd)
  <2>1. Asked(job) = {<<BitOf(job.field, job.port, job.bit), job.cmd>>}
    BY <1>0, <1>3 DEF Asked
  <2>2. Plan(job) = <<a>>
    BY <1>0, <1>1, <1>3 DEF Plan, Set
  <2>3. r[1] \in LogicalDevice /\ r[2] \in Register
    BY <1>0, <1>3, SetTables, Registers DEF SetRegister
  <2>4. a \in Writes
    BY <1>0, <1>3, <2>3 DEF Write, Writes, Bit
  <2>5. BitOf(job.field, job.port, job.bit) = <<a.ld, a.reg, a.bit>> /\ a.cmd = job.cmd
        /\ a.bit \in Bit
    BY <1>0, <1>3 DEF BitOf, Write
  <2>. QED  BY <1>1, <2>1, <2>2, <2>4, <2>5 DEF Plan
<1>4. ASSUME ~ (job.field = "select" /\ job.port \in DOMAIN Select(chip)),
             ~ (job.field \in Field /\ job.port \in Ports(chip) /\ job.bit \in Bit)
      PROVE  Plan(job) = << >> /\ Asked(job) = {}
  <2>1. Plan(job) = << >>
    BY <1>1, <1>4 DEF Plan, Set
  <2>2. job.field = "select" => job.port \notin Ports(chip)
    BY <1>4, SetTables
  <2>3. Asked(job) = {}
    BY <1>0, <1>4, <2>2 DEF Asked
  <2>. QED  BY <2>1, <2>3
<1>. QED  BY <1>1, <1>2, <1>3, <1>4 DEF Plan

LEMMA PlanOfShow ==
  ASSUME chip \in Chip, NEW job \in Shows
  PROVE  /\ \A seen : Accesses(job, seen) = Plan(job)
         /\ Plan(job) \in Seq(Reads \cup {Absent})
         /\ Listed /\ board \in Hardware /\ chip = board.name => Plan(job) \in Seq(Reads)
         /\ Asked(job) = {}
<1>0. job.op = "show" /\ job.field \in Field \cup {"select"}
  BY DEF Shows
<1>1. Asked(job) = {}
  BY <1>0 DEF Asked
<1>2. CASE job.field = "select"
  <2>. DEFINE asks == SelectAsks(chip)
              read(n) == Read(GetSelect(chip)[asks[n]], GPIO_USE_SEL)
  <2>1. \A seen : Accesses(job, seen) = [n \in DOMAIN asks |-> read(n)]
    BY <1>0, <1>2 DEF Accesses
  <2>2. \A n \in DOMAIN asks : read(n) \in Reads
    BY SelectFile, GetTables DEF Read, Reads, Register
  <2>3. DOMAIN asks = 1 .. Len(asks) /\ Len(asks) \in Nat
    BY SelectFile
  <2>4. [n \in DOMAIN asks |-> read(n)] \in Seq(Reads)
    BY <2>2, <2>3, IsASeq
  <2>5. [n \in DOMAIN asks |-> read(n)] \in Seq(Reads \cup {Absent})
    BY <2>2, <2>3, IsASeq
  <2>. QED  BY <1>1, <2>1, <2>4, <2>5 DEF Plan
<1>3. CASE job.field # "select"
  <2>. DEFINE list == ListedPorts(chip)
              get(n) == Get(job.field, list[n])
  <2>1. \A seen : Accesses(job, seen) = [n \in DOMAIN list |-> get(n)]
    BY <1>0, <1>3 DEF Accesses
  <2>2. \A n \in DOMAIN list : list[n] \in Ports(chip) => get(n) \in Reads
    BY <1>0, <1>3, GetTables, Registers DEF Get, GetRegister, Read, Reads
  <2>3. \A n \in DOMAIN list : get(n) \in Reads \cup {Absent}
    BY <2>2 DEF Get
  <2>4. DOMAIN list = 1 .. Len(list) /\ Len(list) \in Nat
    BY OtherFiles
  <2>5. [n \in DOMAIN list |-> get(n)] \in Seq(Reads \cup {Absent})
    BY <2>3, <2>4, IsASeq
  <2>6. ASSUME Listed, board \in Hardware, chip = board.name
        PROVE  [n \in DOMAIN list |-> get(n)] \in Seq(Reads)
    BY <2>2, <2>4, <2>6, IsASeq DEF Listed
  <2>. QED  BY <1>1, <2>1, <2>5, <2>6 DEF Plan
<1>. QED  BY <1>0, <1>2, <1>3

-----------------------------------------------------------------------------
(* The invariant.  Whoever is inside holds the region, and what it has     *)
(* done of an access is what the front end of the chip shows: it is open   *)
(* from the third instruction on, at the device from the fifth, and at the *)
(* register when data are read or written; a write has read the register   *)
(* as it still is, and once it has written, the bit has its value.         *)
Job  == Stores \cup Shows
Call == [phase : {"asking", "inside"}, job : Job, left : 0 .. Tries,
         n : Nat \ {0}, i : 1 .. 9, seen : Seq(SUBSET Bit)]

Effect(h, a) == a.bit \in Bit => ((<<a.ld, a.reg, a.bit>> \in h) <=> a.cmd)

(* Between two accesses.                                                   *)
Boundary(f) == (f.ext \/ f.keys = 0) /\ (Listed => ~ f.ext)

Opened(f, i) ==
  /\ i = 1 => Boundary(f)
  /\ i = 2 => f.ext \/ f.keys = 1
  /\ i >= 3 => f.ext

Aimed(f, h, a, i, seen) ==
  /\ i = 4 => f.index = CR7
  /\ a.kind = "write" =>
       /\ i >= 5 => f.device = a.ld
       /\ i \in {6, 8} => f.index = a.reg
       /\ i \in {7, 8} => /\ seen # << >>
                          /\ seen[Len(seen)] = {b \in Bit : <<a.ld, a.reg, b>> \in h}
       /\ i = 9 => Effect(h, a)

Position(f, h, r, plan) ==
  /\ r.n <= Len(plan) =>
       /\ r.i <= Len(Code(plan[r.n]))
       /\ Opened(f, r.i)
       /\ Aimed(f, h, plan[r.n], r.i, r.seen)
  /\ r.n > Len(plan) =>
       /\ Boundary(f)
       /\ r.job.op = "store" /\ plan # << >> => Effect(h, plan[1])

FrontEnd == [ext : BOOLEAN, keys : 0 .. 1, index : Byte, device : Byte]

StateOK ==
  /\ board \in Hardware /\ board.loaded /\ chip = board.name /\ chip \in Chip
  /\ files = {"sysfs", "led"}
  /\ sio \in FrontEnd
  /\ high \subseteq (Byte \X Byte \X Bit)
  /\ owner \in Caller \cup {NoOne}

CallOK(c) ==
  \/ call[c] = Idle
  \/ /\ call[c] \in Call
     /\ call[c].job \in Jobs(board, c)
     /\ call[c].n <= Len(Plan(call[c].job)) + 1
     /\ call[c].phase = "asking" => call[c].n = 1 /\ call[c].i = 1

IInv ==
  /\ StateOK
  /\ DOMAIN call = Caller
  /\ \A c \in Caller :
       /\ CallOK(c)
       /\ call[c].phase = "inside" <=> owner = c
       /\ call[c].phase = "inside" => Position(sio, high, call[c], Plan(call[c].job))
  /\ owner = NoOne => Boundary(sio)

LEMMA InitIInv == FilesOnly /\ Init => IInv
<1>. SUFFICES ASSUME FilesOnly, Init PROVE IInv
  OBVIOUS
<1>1. board \in Hardware /\ board.loaded
  BY DEF Init, FilesOnly
<1>2. chip = board.name /\ files = {"sysfs", "led"}
  BY <1>1 DEF Init
<1>3. board.name \in Chip /\ Contents(board) \subseteq SUBSET (Byte \X Byte \X Bit)
  BY <1>1, HardwareAssumption
<1>4. high \in SUBSET (Byte \X Byte \X Bit)
  <2>1. high \in Contents(board)
    BY DEF Init
  <2>. QED  BY <1>3, <2>1
<1>5. StateOK
  <2>. QED  BY <1>1, <1>2, <1>3, <1>4 DEF Init, StateOK, FrontEnd, Byte
<1>6. Boundary(sio)
  BY DEF Init, Boundary
<1>7. \A c \in Caller : call[c] = Idle /\ owner # c
  BY CallerAssumption DEF Init
<1>. QED  BY <1>5, <1>6, <1>7 DEF Init, IInv, CallOK, Idle

LEMMA PlanOfJob ==
  ASSUME chip \in Chip, NEW job \in Job
  PROVE  /\ \A seen : Accesses(job, seen) = Plan(job)
         /\ Plan(job) \in Seq(Access)
         /\ Locks(job)
<1>1. CASE job \in Stores
  <2>1. /\ \A seen : Accesses(job, seen) = Plan(job)
        /\ Plan(job) = << >> \/ \E a \in Writes : Plan(job) = <<a>>
    BY <1>1, PlanOfStore
  <2>2. Writes \subseteq Access
    BY DEF Access
  <2>3. Plan(job) \in Seq(Access)
    <3>1. \A a \in Access : <<a>> \in Seq(Access)
      OBVIOUS
    <3>2. << >> \in Seq(Access)
      OBVIOUS
    <3>. QED  BY <2>1, <2>2, <3>1, <3>2
  <2>4. job.op = "store"
    BY <1>1 DEF Stores
  <2>. QED  BY <2>1, <2>3, <2>4 DEF Locks
<1>2. CASE job \in Shows
  <2>1. /\ \A seen : Accesses(job, seen) = Plan(job)
        /\ Plan(job) \in Seq(Reads \cup {Absent})
    BY <1>2, PlanOfShow
  <2>2. Plan(job) \in Seq(Access)
    BY <2>1 DEF Access
  <2>3. job.op = "show"
    BY <1>2 DEF Shows
  <2>. QED  BY <2>1, <2>2, <2>3 DEF Locks
<1>. QED  BY <1>1, <1>2 DEF Job

(* What everybody's job is, and that no job works unlocked.                *)
LEMMA JobOfCall ==
  ASSUME FilesOnly, IInv, NEW c \in Caller, call[c] # Idle
  PROVE  /\ call[c] \in Call /\ call[c].job \in Job
         /\ Todo(c) = Plan(call[c].job)
         /\ Plan(call[c].job) \in Seq(Access)
         /\ Locks(call[c].job)
<1>1. call[c] \in Call /\ call[c].job \in Job
  BY DEF IInv, CallOK, Call
<1>2. chip \in Chip
  BY DEF IInv, StateOK
<1>. QED  BY <1>1, <1>2, PlanOfJob DEF Todo

-----------------------------------------------------------------------------
(* One instruction of an access, on a chip in the position it needs.       *)

LEMMA DeviceByte == \A n \in LogicalDevice : Number(Binary(n)) = n
<1>1. Number(Binary(7)) = 7
  BY SMTT(30) DEF Binary, Bit, Number
<1>2. Number(Binary(8)) = 8
  BY SMTT(30) DEF Binary, Bit, Number
<1>3. Number(Binary(9)) = 9
  BY SMTT(30) DEF Binary, Bit, Number
<1>. QED  BY <1>1, <1>2, <1>3 DEF LogicalDevice, LD7, LD8, LD9

(* The chip's answer to the instruction, and what has been read then.      *)
Instruction(a, i, seen, seen2) ==
  \/ /\ \/ Code(a)[i] = "key"   /\ sio' = KeyByte
        \/ Code(a)[i] = "cr7"   /\ sio' = IndexByte(CR7)
        \/ Code(a)[i] = "index" /\ sio' = IndexByte(a.reg)
        \/ Code(a)[i] = "leave" /\ sio' = LeaveByte
     /\ high' = high /\ seen2 = seen
  \/ Code(a)[i] = "device" /\ DataOut(Binary(a.ld)) /\ seen2 = seen
  \/ Code(a)[i] = "in" /\ seen2 = Append(seen, DataIn) /\ UNCHANGED <<sio, high>>
  \/ Code(a)[i] = "out" /\ DataOut(Changed(a, seen[Len(seen)])) /\ seen2 = seen

LEMMA Codes ==
  /\ \A a \in Reads : Code(a) = <<"key", "key", "cr7", "device", "index", "in", "leave">>
  /\ \A a \in Writes :
       Code(a) = <<"key", "key", "cr7", "device", "index", "in", "index", "out", "leave">>
  /\ Code(Absent) = <<"key", "key">>
BY DEF Reads, Writes, Absent, Code

LEMMA Lengths == \A a \in Access : 1 <= Len(Code(a))
<1>1. \A a \in Reads : 1 <= Len(Code(a))
  BY Codes
<1>2. \A a \in Writes : 1 <= Len(Code(a))
  BY Codes
<1>3. 1 <= Len(Code(Absent))
  BY Codes
<1>. QED  BY <1>1, <1>2, <1>3 DEF Access

LEMMA DataInBits == DataIn \subseteq Bit
BY DEF DataIn, Binary, Bits

(* Where a data register is read, what is read is its bits.                *)
LEMMA DataInOf ==
  ASSUME NEW a \in Reads \cup Writes, sio.ext, sio.device = a.ld, sio.index = a.reg
  PROVE  DataIn = Bits(a.ld, a.reg)
<1>1. a.reg = 48 \/ a.reg \in 224 .. 255
  BY DEF Reads, Writes, Register, GPIO_USE_SEL, E0
<1>2. a.ld \in {7, 8, 9}
  BY DEF Reads, Writes, LogicalDevice, LD7, LD8, LD9
<1>3. sio.index # 7 /\ sio.index # 32 /\ sio.index # 33 /\ sio.device # HWM
  BY <1>1, <1>2 DEF HWM
<1>. QED  BY <1>3 DEF DataIn, CR7

(* Writing back what was read with one bit changed changes this bit.       *)
LEMMA DataOutOf ==
  ASSUME NEW a \in Writes, sio.ext, sio.device = a.ld, sio.index = a.reg,
         high \subseteq (Byte \X Byte \X Bit),
         DataOut(Changed(a, Bits(a.ld, a.reg)))
  PROVE  /\ sio' = sio
         /\ high' \subseteq (Byte \X Byte \X Bit)
         /\ Effect(high', a)
         /\ \A h \in (high \ high') \cup (high' \ high) :
              h = <<a.ld, a.reg, a.bit>> /\ (h \in high') = a.cmd
<1>. DEFINE bits == Changed(a, Bits(a.ld, a.reg))
<1>1. /\ a.reg \in Byte /\ a.reg # 7 /\ a.ld \in Byte /\ a.bit \in 0 .. 15 /\ a.cmd \in BOOLEAN
  BY DEF Writes, Register, GPIO_USE_SEL, E0, LogicalDevice, LD7, LD8, LD9, Byte
<1>2. /\ sio' = sio
      /\ high' = {h \in high : <<h[1], h[2]>> # <<a.ld, a.reg>>}
                 \cup {<<a.ld, a.reg, b>> : b \in bits}
  BY <1>1 DEF DataOut, CR7
<1>3. bits \subseteq Bit
  BY <1>1 DEF Changed, Bits
<1>4. \A h \in high : h \in Byte \X Byte \X Bit /\ h = <<h[1], h[2], h[3]>> /\ h[3] \in Bit
  OBVIOUS
<1>5. \A b \in Bit : <<a.ld, a.reg, b>> \in high' <=> b \in bits
  <2>. HIDE DEF bits
  <2>. QED  BY <1>2
<1>6. \A b \in Bit : b \in bits <=> IF b = a.bit THEN a.cmd ELSE <<a.ld, a.reg, b>> \in high
  BY <1>1 DEF Changed, Bits
<1>7. high' \subseteq (Byte \X Byte \X Bit)
  <2>. HIDE DEF bits
  <2>. QED  BY <1>1, <1>2, <1>3
<1>8. Effect(high', a)
  BY <1>1, <1>5, <1>6 DEF Effect
<1>9. ASSUME NEW h \in (high \ high') \cup (high' \ high)
      PROVE  h = <<a.ld, a.reg, a.bit>> /\ (h \in high') = a.cmd
  <2>1. h \in Byte \X Byte \X Bit
    BY <1>7
  <2>2. h = <<h[1], h[2], h[3]>> /\ h[3] \in Bit
    BY <2>1
  <2>3. h[1] = a.ld /\ h[2] = a.reg
    <3>. HIDE DEF bits
    <3>. QED  BY <1>2, <2>2
  <2>4. h = <<a.ld, a.reg, h[3]>>
    BY <2>2, <2>3
  <2>5. h[3] = a.bit
    BY <1>5, <1>6, <2>2, <2>4
  <2>6. a.bit \in Bit /\ h = <<a.ld, a.reg, a.bit>>
    BY <2>2, <2>4, <2>5
  <2>7. (h \in high') = a.cmd
    <3>1. h \in high' <=> a.cmd
      BY <1>5, <1>6, <2>6
    <3>. QED  BY <1>1, <3>1
  <2>. QED  BY <2>6, <2>7
<1>. QED  BY <1>2, <1>7, <1>8, <1>9

(* It depends on the chip alone, which does not change.                    *)
LEMMA PlanUnchanged ==
  ASSUME UNCHANGED chip, NEW c \in Caller
  PROVE  Plan(call[c].job)' = Plan(call'[c].job)
BY DEF Plan, Accesses, Set, Get, Led, Identification, GetRegister, SetRegister, Read, Write, Absent

(* Where an access has which instruction.                                  *)
LEMMA Places ==
  ASSUME NEW a \in Access, NEW i \in 1 .. Len(Code(a))
  PROVE  /\ Len(Code(a)) \in Nat /\ i \in 1 .. 9
         /\ a \in Reads \/ a \in Writes \/ a = Absent
         /\ a \in Writes => a.kind = "write" /\ a \notin Reads /\ a # Absent
         /\ a \notin Writes => a.kind # "write"
         /\ i = Len(Code(a)) => \/ a = Absent /\ i = 2
                                \/ a \in Reads /\ i = 7
                                \/ a \in Writes /\ i = 9
         /\ i < Len(Code(a)) => i + 1 \in 1 .. 9
         /\ i \in 3 .. 9 => a # Absent
         /\ i \in {8, 9} => a \in Writes
         /\ Code(a)[i] = "key" => i \in {1, 2}
         /\ Code(a)[i] = "cr7" => i = 3
         /\ Code(a)[i] = "device" => i = 4
         /\ Code(a)[i] = "index" => i \in {5, 7} /\ (i = 7 => a \in Writes)
         /\ Code(a)[i] = "in" => i = 6
         /\ Code(a)[i] = "out" => i = 8
         /\ Code(a)[i] # "next"
         /\ Code(a)[i] = "leave" => i = Len(Code(a)) /\ a # Absent
<1>1. CASE a \in Reads
  <2>1. Code(a) = <<"key", "key", "cr7", "device", "index", "in", "leave">> /\ a.kind = "read"
    BY <1>1, Codes DEF Reads
  <2>2. a \notin Writes /\ a # Absent
    BY <2>1 DEF Writes, Absent
  <2>3. Len(Code(a)) = 7
    BY <2>1
  <2>4. i \in {1, 2, 3, 4, 5, 6, 7}
    BY <2>3
  <2>5. /\ Code(a)[1] = "key" /\ Code(a)[2] = "key" /\ Code(a)[3] = "cr7"
        /\ Code(a)[4] = "device" /\ Code(a)[5] = "index" /\ Code(a)[6] = "in"
        /\ Code(a)[7] = "leave"
    BY <2>1
  <2>6. a.kind = "read"
    BY <2>1
  <2>. QED  BY <1>1, <2>2, <2>3, <2>4, <2>5, <2>6
<1>2. CASE a \in Writes
  <2>1. /\ Code(a) = <<"key", "key", "cr7", "device", "index", "in", "index", "out", "leave">>
        /\ a.kind = "write"
    BY <1>2, Codes DEF Writes
  <2>2. a # Absent /\ a \notin Reads
    BY <2>1 DEF Absent, Reads
  <2>3. Len(Code(a)) = 9
    BY <2>1
  <2>4. i \in {1, 2, 3, 4, 5, 6, 7, 8, 9}
    BY <2>3
  <2>. QED  BY <1>2, <2>1, <2>2, <2>3, <2>4
<1>3. CASE a = Absent
  <2>1. Code(a) = <<"key", "key">> /\ a.kind = "absent"
    BY <1>3, Codes DEF Absent
  <2>2. a \notin Writes /\ a \notin Reads
    BY <2>1 DEF Reads, Writes
  <2>3. Len(Code(a)) = 2
    BY <2>1
  <2>4. i \in {1, 2}
    BY <2>3
  <2>5. Code(a)[1] = "key" /\ Code(a)[2] = "key"
    BY <2>1
  <2>6. a.kind = "absent"
    BY <2>1
  <2>. QED  BY <1>3, <2>2, <2>3, <2>4, <2>5, <2>6
<1>. QED  BY <1>1, <1>2, <1>3 DEF Access

LEMMA Fields ==
  ASSUME NEW f \in FrontEnd, NEW k \in 0 .. 1, NEW e \in BOOLEAN, NEW x \in Byte
  PROVE  /\ [f EXCEPT !.keys = k, !.ext = e, !.index = x] \in FrontEnd
         /\ [f EXCEPT !.keys = k, !.ext = e] \in FrontEnd
         /\ [f EXCEPT !.keys = k, !.index = x] \in FrontEnd
<1>1. [f EXCEPT !.keys = k, !.ext = e, !.index = x] \in FrontEnd
  BY DEF FrontEnd
<1>2. [f EXCEPT !.keys = k, !.ext = e] \in FrontEnd
  BY DEF FrontEnd
<1>3. [f EXCEPT !.keys = k, !.index = x] \in FrontEnd
  BY DEF FrontEnd
<1>. QED  BY <1>1, <1>2, <1>3

(* What a byte to the first port does to the front end, and a device byte. *)
LEMMA KeyBytes ==
  ASSUME sio \in FrontEnd
  PROVE  /\ KeyByte \in FrontEnd
         /\ KeyByte.ext <=> sio.ext \/ sio.keys = 1
         /\ sio.ext \/ sio.keys = 0 => KeyByte.ext \/ KeyByte.keys = 1
<1>. DEFINE k == IF sio.ext THEN 0 ELSE 1 - sio.keys
            e == sio.ext \/ sio.keys = 1
            x == IF sio.ext THEN 135 ELSE sio.index
<1>1. k \in 0 .. 1 /\ x \in Byte
  BY DEF FrontEnd, Byte
<1>2. e \in BOOLEAN
  OBVIOUS
<1>3. KeyByte = [sio EXCEPT !.keys = k, !.ext = e, !.index = x]
  BY DEF KeyByte
<1>4. KeyByte \in FrontEnd
  <2>. HIDE DEF k, e, x
  <2>. QED  BY <1>1, <1>2, <1>3, Fields
<1>5. KeyByte.ext <=> sio.ext \/ sio.keys = 1
  BY DEF KeyByte, FrontEnd
<1>6. sio.ext \/ sio.keys = 0 => KeyByte.ext \/ KeyByte.keys = 1
  BY DEF KeyByte, FrontEnd
<1>. QED  BY <1>4, <1>5, <1>6

LEMMA IndexBytes ==
  ASSUME sio \in FrontEnd, sio.ext, NEW v \in Byte
  PROVE  /\ IndexByte(v) \in FrontEnd /\ IndexByte(v).ext
         /\ IndexByte(v).index = v /\ IndexByte(v).device = sio.device
<1>1. 0 \in 0 .. 1 /\ (IF sio.ext THEN v ELSE sio.index) \in Byte
  OBVIOUS
<1>2. IndexByte(v) \in FrontEnd
  BY <1>1, Fields, Zenon DEF IndexByte
<1>3. IndexByte(v).ext
  BY DEF IndexByte, FrontEnd
<1>4. IndexByte(v).index = v /\ IndexByte(v).device = sio.device
  BY DEF IndexByte, FrontEnd
<1>. QED  BY <1>2, <1>3, <1>4

LEMMA LeaveBytes ==
  ASSUME sio \in FrontEnd
  PROVE  LeaveByte \in FrontEnd /\ ~ LeaveByte.ext /\ LeaveByte.keys = 0
<1>1. 0 \in 0 .. 1 /\ FALSE \in BOOLEAN /\ sio.index \in Byte
  BY DEF FrontEnd
<1>2. LeaveByte \in FrontEnd
  BY <1>1, Fields, Zenon DEF LeaveByte
<1>3. LeaveByte.ext = FALSE
  BY DEF LeaveByte, FrontEnd
<1>4. LeaveByte.keys = 0
  BY DEF LeaveByte, FrontEnd
<1>. QED  BY <1>2, <1>3, <1>4

LEMMA DeviceBytes ==
  ASSUME sio \in FrontEnd, sio.ext, NEW v \in Byte
  PROVE  LET f == [sio EXCEPT !.device = v]
         IN  f \in FrontEnd /\ f.device = v /\ f.ext
<1>1. [sio EXCEPT !.device = v] \in FrontEnd
  BY DEF FrontEnd
<1>. QED  BY <1>1 DEF FrontEnd

(* Every instruction takes an access from one position to the next.        *)
LEMMA OneInstruction ==
  ASSUME NEW a \in Access, NEW i \in 1 .. Len(Code(a)),
         NEW seen \in Seq(SUBSET Bit), NEW seen2,
         sio \in FrontEnd, high \subseteq (Byte \X Byte \X Bit),
         Opened(sio, i), Aimed(sio, high, a, i, seen), Listed => a # Absent,
         Instruction(a, i, seen, seen2)
  PROVE  /\ sio' \in FrontEnd
         /\ high' \subseteq (Byte \X Byte \X Bit)
         /\ seen2 \in Seq(SUBSET Bit)
         /\ i < Len(Code(a)) => Opened(sio', i + 1) /\ Aimed(sio', high', a, i + 1, seen2)
         /\ i = Len(Code(a)) => Boundary(sio') /\ (a \in Writes => Effect(high', a))
         /\ \A h \in (high \ high') \cup (high' \ high) :
              /\ a \in Writes /\ h = <<a.ld, a.reg, a.bit>>
              /\ (h \in high') = a.cmd
<1>1. /\ i \in 1 .. 9
      /\ a \in Writes <=> a.kind = "write"
      /\ a # Absent => a.ld \in LogicalDevice /\ a.reg \in Byte
  <2>1. a \in Reads \cup Writes => a.ld \in LogicalDevice /\ a.reg \in Byte
    BY DEF Reads, Writes, Register, GPIO_USE_SEL, E0, Byte
  <2>. QED  BY <2>1, Places
<1>2. CASE Code(a)[i] = "key"
  <2>1. sio' = KeyByte /\ high' = high /\ seen2 = seen /\ i \in {1, 2}
    BY <1>2, Places DEF Instruction
  <2>2. sio' \in FrontEnd /\ (i = 1 => sio'.ext \/ sio'.keys = 1) /\ (i = 2 => sio'.ext)
    BY <2>1, KeyBytes DEF Opened, Boundary
  <2>3. i = 1 => i < Len(Code(a))
    BY Places
  <2>4. i = Len(Code(a)) => a \notin Writes /\ Boundary(sio')
    BY <2>1, <2>2, Places DEF Boundary
  <2>5. Opened(sio', i + 1) /\ Aimed(sio', high', a, i + 1, seen2)
    BY <2>1, <2>2 DEF Opened, Aimed
  <2>. QED  BY <2>1, <2>2, <2>4, <2>5
<1>3. CASE Code(a)[i] = "cr7"
  <2>1. sio' = IndexByte(CR7) /\ high' = high /\ seen2 = seen /\ i = 3 /\ i # Len(Code(a))
    BY <1>3, Places DEF Instruction
  <2>2. sio' \in FrontEnd /\ sio'.ext /\ sio'.index = CR7
    BY <2>1, IndexBytes DEF Opened, CR7, Byte
  <2>3. Opened(sio', i + 1) /\ Aimed(sio', high', a, i + 1, seen2)
    BY <2>1, <2>2 DEF Opened, Aimed
  <2>. QED  BY <2>1, <2>2, <2>3
<1>4. CASE Code(a)[i] = "device"
  <2>1. DataOut(Binary(a.ld)) /\ seen2 = seen /\ i = 4 /\ a # Absent /\ i # Len(Code(a))
    BY <1>4, Places DEF Instruction
  <2>2. sio.ext /\ sio' = [sio EXCEPT !.device = Number(Binary(a.ld))] /\ high' = high
    BY <2>1 DEF DataOut, Opened, Aimed
  <2>3. Number(Binary(a.ld)) = a.ld /\ a.ld \in Byte
    BY <1>1, <2>1, DeviceByte DEF LogicalDevice, LD7, LD8, LD9, Byte
  <2>4. sio' \in FrontEnd /\ sio'.ext /\ sio'.device = a.ld
    BY <2>2, <2>3, DeviceBytes
  <2>5. Opened(sio', i + 1) /\ Aimed(sio', high', a, i + 1, seen2)
    BY <2>1, <2>4 DEF Opened, Aimed
  <2>. QED  BY <2>1, <2>2, <2>4, <2>5
<1>5. CASE Code(a)[i] = "index"
  <2>1. /\ sio' = IndexByte(a.reg) /\ high' = high /\ seen2 = seen /\ i \in {5, 7}
        /\ a # Absent
    BY <1>5, Places DEF Instruction
  <2>2. sio.ext /\ a.reg \in Byte
    BY <1>1, <2>1, Places DEF Opened
  <2>3. sio' \in FrontEnd /\ sio'.ext /\ sio'.index = a.reg /\ sio'.device = sio.device
    BY <2>1, <2>2, IndexBytes
  <2>4. i # Len(Code(a))
    BY <1>5, <2>1, Places
  <2>5. Opened(sio', i + 1)
    BY <2>1, <2>3 DEF Opened
  <2>6. Aimed(sio', high', a, i + 1, seen2)
    BY <2>1, <2>3 DEF Aimed
  <2>. QED  BY <2>1, <2>3, <2>4, <2>5, <2>6
<1>6. CASE Code(a)[i] = "in"
  <2>1. seen2 = Append(seen, DataIn) /\ sio' = sio /\ high' = high /\ i = 6 /\ i # Len(Code(a))
    BY <1>6, Places DEF Instruction
  <2>2. seen2 \in Seq(SUBSET Bit) /\ seen2 # << >> /\ seen2[Len(seen2)] = DataIn
    BY <2>1, DataInBits
  <2>3. sio.ext /\ (a \in Writes => sio.device = a.ld /\ sio.index = a.reg)
    BY <1>1, <2>1 DEF Opened, Aimed
  <2>4. a \in Writes => DataIn = {b \in Bit : <<a.ld, a.reg, b>> \in high}
    BY <2>3, DataInOf DEF Bits
  <2>5. Opened(sio', i + 1) /\ Aimed(sio', high', a, i + 1, seen2)
    BY <1>1, <2>1, <2>2, <2>3, <2>4 DEF Opened, Aimed
  <2>. QED  BY <2>1, <2>2, <2>5
<1>7. CASE Code(a)[i] = "out"
  <2>1. DataOut(Changed(a, seen[Len(seen)])) /\ seen2 = seen /\ i = 8 /\ a \in Writes
    BY <1>7, Places DEF Instruction
  <2>2. sio.ext /\ sio.device = a.ld /\ sio.index = a.reg
    BY <1>1, <2>1 DEF Opened, Aimed
  <2>3. seen[Len(seen)] = Bits(a.ld, a.reg)
    BY <1>1, <2>1 DEF Aimed, Bits
  <2>4. /\ sio' = sio
        /\ high' \subseteq (Byte \X Byte \X Bit)
        /\ Effect(high', a)
        /\ \A h \in (high \ high') \cup (high' \ high) :
             h = <<a.ld, a.reg, a.bit>> /\ (h \in high') = a.cmd
    BY <2>1, <2>2, <2>3, DataOutOf
  <2>5. Opened(sio', i + 1) /\ Aimed(sio', high', a, i + 1, seen2)
    BY <2>1, <2>2, <2>4 DEF Opened, Aimed
  <2>6. i # Len(Code(a))
    BY <2>1, Places
  <2>. QED  BY <2>1, <2>4, <2>5, <2>6
<1>8. CASE Code(a)[i] = "leave"
  <2>1. sio' = LeaveByte /\ high' = high /\ seen2 = seen /\ i = Len(Code(a))
    BY <1>8, Places DEF Instruction
  <2>2. sio' \in FrontEnd /\ Boundary(sio')
    BY <2>1, LeaveBytes DEF Boundary
  <2>3. a \in Writes => i = 9
    BY <2>1, <1>8, Places
  <2>4. a \in Writes => Effect(high, a)
    BY <1>1, <2>3 DEF Aimed
  <2>. QED  BY <2>1, <2>2, <2>4
<1>. QED  BY <1>2, <1>3, <1>4, <1>5, <1>6, <1>7, <1>8 DEF Instruction

-----------------------------------------------------------------------------
(* What a caller who is inside is doing.                                   *)
LEMMA Doing ==
  ASSUME FilesOnly, IInv, NEW c \in Caller, Inside(c)
  PROVE  /\ owner = c /\ call[c] \in Call
         /\ Now(c) = Plan(call[c].job)[call[c].n] /\ call[c].n \in 1 .. Len(Plan(call[c].job))
         /\ Now(c) \in Access
         /\ call[c].i \in 1 .. Len(Code(Now(c)))
         /\ Opened(sio, call[c].i)
         /\ Aimed(sio, high, Now(c), call[c].i, call[c].seen)
         /\ Listed => Now(c) # Absent
         /\ OwnBoard(board) /\ Now(c) \in Writes =>
              Asked(call[c].job) = {<<<<Now(c).ld, Now(c).reg, Now(c).bit>>, Now(c).cmd>>}
         /\ call[c].job.op = "store" =>
              Now(c) \in Writes /\ call[c].n = 1 /\ Plan(call[c].job) = <<Now(c)>>
<1>. DEFINE job == call[c].job
            plan == Plan(job)
            n == call[c].n
<1>1. call[c] # Idle /\ call[c].phase = "inside"
  BY DEF Inside, Idle
<1>2. call[c] \in Call /\ job \in Job /\ Todo(c) = plan /\ plan \in Seq(Access)
  BY <1>1, JobOfCall
<1>3. n \in Nat \ {0} /\ n <= Len(plan) /\ call[c].i \in 1 .. 9
  BY <1>2 DEF Inside, Call
<1>4. n \in 1 .. Len(plan) /\ Now(c) = plan[n] /\ Now(c) \in Access
  <2>. HIDE DEF plan, n
  <2>1. n \in 1 .. Len(plan)
    BY <1>2, <1>3
  <2>2. Now(c) = plan[n]
    BY <1>2 DEF Now, n
  <2>. QED  BY <1>2, <2>1, <2>2
<1>5. owner = c /\ Position(sio, high, call[c], plan)
  BY <1>1 DEF IInv
<1>6. /\ call[c].i <= Len(Code(Now(c)))
      /\ Opened(sio, call[c].i)
      /\ Aimed(sio, high, Now(c), call[c].i, call[c].seen)
  BY <1>3, <1>4, <1>5 DEF Position
<1>7. Len(Code(Now(c))) \in Nat
  BY <1>4, Codes DEF Access
<1>8. call[c].i \in 1 .. Len(Code(Now(c)))
  BY <1>3, <1>6, <1>7
<1>9. chip \in Chip /\ board \in Hardware /\ chip = board.name
  BY DEF IInv, StateOK
<1>10. CASE job \in Stores
  <2>1. job.op = "store"
    BY <1>10 DEF Stores
  <2>2. plan # << >>
    BY <1>4
  <2>0. call[c].job \in Jobs(board, c)
    BY <1>1 DEF IInv, CallOK
  <2>3. PICK a \in Writes :
          plan = <<a>> /\ (OwnBoard(board) => Asked(job) = {<<<<a.ld, a.reg, a.bit>>, a.cmd>>})
    <3>1. OwnBoard(board) => (job.field = "select" /\ job.port \in DOMAIN Select(chip)
                               => job.port \in Ports(chip))
      BY <1>9, <2>0, <2>1 DEF OwnBoard
    <3>. HIDE DEF job
    <3>. QED  BY <1>9, <1>10, <2>2, <3>1, PlanOfStore
  <2>4. n = 1 /\ Now(c) = a
    <3>. HIDE DEF plan, n
    <3>. QED  BY <1>4, <2>3
  <2>5. a # Absent
    BY DEF Writes, Absent
  <2>. QED  BY <1>2, <1>4, <1>5, <1>6, <1>8, <2>3, <2>4, <2>5
<1>11. CASE job \in Shows
  <2>1. job.op = "show"
    BY <1>11 DEF Shows
  <2>2. /\ plan \in Seq(Reads \cup {Absent})
        /\ Listed => plan \in Seq(Reads)
    <3>. HIDE DEF job
    <3>. QED  BY <1>9, <1>11, PlanOfShow
  <2>3. Now(c) \in Reads \cup {Absent} /\ (Listed => Now(c) \in Reads)
    <3>. HIDE DEF plan, n
    <3>. QED  BY <1>4, <2>2
  <2>4. Now(c) \notin Writes /\ (Listed => Now(c) # Absent)
    BY <2>3 DEF Reads, Writes, Absent
  <2>. QED  BY <1>2, <1>4, <1>5, <1>6, <1>8, <2>1, <2>4
<1>. QED  BY <1>2, <1>10, <1>11 DEF Job

(* An instruction of the access a caller is at.                            *)
LEMMA StepInside ==
  ASSUME FilesOnly, IInv, NEW c \in Caller, Inside(c), NEW seen2,
         Instruction(Now(c), call[c].i, call[c].seen, seen2),
         Advance(c, seen2), UNCHANGED <<module, owner>>
  PROVE  /\ IInv'
         /\ OwnBoard(board) => \A h \in (high \ high') \cup (high' \ high) :
              <<h, h \in high'>> \in Asked(call[c].job)
<1>. DEFINE r == call[c]
            r2 == call'[c]
            a == Now(c)
            plan == Plan(r.job)
            last == r.i = Len(Code(a))
<1>1. /\ owner = c /\ r \in Call
      /\ a = plan[r.n] /\ r.n \in 1 .. Len(plan) /\ a \in Access
      /\ r.i \in 1 .. Len(Code(a))
      /\ Opened(sio, r.i) /\ Aimed(sio, high, a, r.i, r.seen)
      /\ Listed => a # Absent
      /\ OwnBoard(board) /\ a \in Writes => Asked(r.job) = {<<<<a.ld, a.reg, a.bit>>, a.cmd>>}
      /\ r.job.op = "store" => a \in Writes /\ r.n = 1 /\ plan = <<a>>
  BY Doing
<1>2. /\ StateOK /\ DOMAIN call = Caller /\ r.phase = "inside" /\ r # Idle
  BY DEF IInv, Inside, Idle
<1>3. r.seen \in Seq(SUBSET Bit) /\ r.left \in 0 .. Tries /\ r.job \in Job
  BY <1>1 DEF Call
<1>4. plan \in Seq(Access)
  BY <1>2, JobOfCall
<1>5. /\ sio' \in FrontEnd
      /\ high' \subseteq (Byte \X Byte \X Bit)
      /\ seen2 \in Seq(SUBSET Bit)
      /\ r.i < Len(Code(a)) => Opened(sio', r.i + 1) /\ Aimed(sio', high', a, r.i + 1, seen2)
      /\ last => Boundary(sio') /\ (a \in Writes => Effect(high', a))
      /\ \A h \in (high \ high') \cup (high' \ high) :
           /\ a \in Writes /\ h = <<a.ld, a.reg, a.bit>>
           /\ (h \in high') = a.cmd
  <2>. HIDE DEF a
  <2>1. sio \in FrontEnd /\ high \subseteq (Byte \X Byte \X Bit)
    BY <1>2 DEF StateOK
  <2>2. Instruction(a, r.i, r.seen, seen2)
    BY DEF a
  <2>. QED  BY <1>1, <1>3, <2>1, <2>2, OneInstruction
<1>6. OwnBoard(board) =>
        \A h \in (high \ high') \cup (high' \ high) : <<h, h \in high'>> \in Asked(r.job)
  <2>. HIDE DEF a, r
  <2>. QED  BY <1>1, <1>5
<1>7. StateOK'
  BY <1>2, <1>5 DEF StateOK, module
<1>8. DOMAIN call' = Caller /\ \A d \in Caller : d # c => call'[d] = call[d]
  BY <1>2 DEF Advance
<1>9. Len(Code(a)) \in Nat /\ r.i \in 1 .. 9 /\ (r.i < Len(Code(a)) => r.i + 1 \in 1 .. 9)
  BY <1>1, Places
<1>10. /\ r2.phase = "inside" /\ r2.job = r.job /\ r2 \in Call /\ r2.n <= Len(plan) + 1
       /\ ~ last => r2.n = r.n /\ r2.i = r.i + 1 /\ r2.seen = seen2
       /\ last => r2.n = r.n + 1 /\ r2.i = 1
  <2>. DEFINE s == IF a.kind = "absent" THEN Append(r.seen, Bit) ELSE seen2
  <2>1. r2 = IF r.i < Len(Code(a))
               THEN [r EXCEPT !.i = r.i + 1, !.seen = seen2]
               ELSE [r EXCEPT !.i = 1, !.n = r.n + 1, !.seen = s]
    BY <1>2 DEF Advance
  <2>2. s \in Seq(SUBSET Bit)
    BY <1>3, <1>5
  <2>3. Len(plan) \in Nat /\ r.n \in Nat \ {0} /\ r.n <= Len(plan)
    <3>. HIDE DEF plan, r
    <3>. QED  BY <1>1, <1>4
  <2>. HIDE DEF s, r, r2, a, plan
  <2>4. CASE ~ last
    <3>1. r2 = [r EXCEPT !.i = r.i + 1, !.seen = seen2]
      BY <1>1, <1>9, <2>1, <2>4
    <3>2. r.i + 1 \in 1 .. 9
      BY <1>1, <1>9, <2>4
    <3>3. /\ r2 \in Call /\ r2.phase = r.phase /\ r2.job = r.job
          /\ r2.n = r.n /\ r2.i = r.i + 1 /\ r2.seen = seen2
      <4>1. r \in Call /\ seen2 \in Seq(SUBSET Bit)
        BY <1>1, <1>5
      <4>. QED  BY <3>1, <3>2, <4>1 DEF Call
    <3>. QED  BY <1>2, <2>3, <2>4, <3>3 DEF r
  <2>5. CASE last
    <3>1. r2 = [r EXCEPT !.i = 1, !.n = r.n + 1, !.seen = s]
      BY <1>9, <2>1, <2>5
    <3>2. r.n + 1 \in Nat \ {0} /\ 1 \in 1 .. 9
      BY <2>3
    <3>3. r2 \in Call /\ r2.phase = r.phase /\ r2.job = r.job /\ r2.n = r.n + 1 /\ r2.i = 1
      <4>1. r \in Call
        BY <1>1
      <4>. QED  BY <2>2, <3>1, <3>2, <4>1 DEF Call
    <3>. QED  BY <1>2, <2>3, <2>5, <3>3 DEF r
  <2>. QED  BY <2>4, <2>5
<1>11. \A d \in Caller : call'[d].job = call[d].job
  BY <1>8, <1>10
<1>12. \A d \in Caller : Plan(call[d].job)' = Plan(call[d].job)
  BY <1>11, PlanUnchanged DEF module
<1>13. Position(sio', high', r2, plan)
  <2>. HIDE DEF r, r2, a, plan
  <2>1. CASE ~ last
    BY <1>1, <1>5, <1>9, <1>10, <2>1 DEF Position
  <2>2. CASE last
    <3>1. CASE r2.n <= Len(plan)
      <4>1. plan[r2.n] \in Access /\ r2.n > r.n
        BY <1>1, <1>4, <1>10, <2>2, <3>1
      <4>2. 1 <= Len(Code(plan[r2.n]))
        BY <4>1, Lengths
      <4>3. Opened(sio', 1) /\ Aimed(sio', high', plan[r2.n], 1, r2.seen)
        BY <1>5, <2>2 DEF Opened, Aimed
      <4>5. r2.n \in Nat /\ Len(plan) \in Nat
        BY <1>4, <1>10 DEF Call
      <4>6. ~ (r2.n > Len(plan))
        BY <3>1, <4>5
      <4>. QED  BY <1>10, <2>2, <4>2, <4>3, <4>6 DEF Position
    <3>2. CASE ~ (r2.n <= Len(plan))
      <4>1. r.job.op = "store" => Effect(high', plan[1])
        BY <1>1, <1>5, <2>2
      <4>. QED  BY <1>5, <1>10, <2>2, <3>2, <4>1 DEF Position
    <3>. QED  BY <3>1, <3>2
  <2>. QED  BY <2>1, <2>2
<1>14. ASSUME NEW d \in Caller
       PROVE  /\ CallOK(d)'
              /\ call'[d].phase = "inside" <=> owner' = d
              /\ call'[d].phase = "inside" =>
                   Position(sio', high', call'[d], Plan(call[d].job)')
  <2>1. CallOK(d) /\ (call[d].phase = "inside" <=> owner = d)
    BY DEF IInv
  <2>2. CASE d = c
    <3>1. r.job \in Jobs(board, c)
      BY <1>2, <2>1, <2>2 DEF CallOK
    <3>2. CallOK(c)'
      BY <1>10, <1>12, <3>1 DEF CallOK, module
    <3>. QED  BY <1>1, <1>10, <1>12, <1>13, <2>2, <3>2
  <2>3. CASE d # c
    <3>1. CallOK(d)'
      BY <1>8, <1>12, <2>1, <2>3 DEF CallOK, module
    <3>. QED  BY <1>1, <1>8, <2>1, <2>3, <3>1
  <2>. QED  BY <2>2, <2>3
<1>15. owner' # NoOne
  BY <1>1, CallerAssumption
<1>. QED  BY <1>6, <1>7, <1>8, <1>14, <1>15 DEF IInv

(* The four port actions are instructions of the access a caller is at.    *)
LEMMA PortInstruction ==
  ASSUME FilesOnly, IInv, NEW c \in Caller, Address(c) \/ Device(c) \/ Inb(c) \/ Outb(c)
  PROVE  /\ Inside(c) /\ UNCHANGED <<module, owner>>
         /\ \E seen2 : Instruction(Now(c), call[c].i, call[c].seen, seen2) /\ Advance(c, seen2)
<1>. DEFINE seen == call[c].seen
<1>1. CASE Address(c)
  <2>1. Instr(c) # "next"
    BY <1>1, Doing, Places DEF Address, Instr
  <2>2. UNCHANGED <<module, high, owner>> /\ Inside(c) /\ Advance(c, seen)
    BY <1>1 DEF Address
  <2>3. Instruction(Now(c), call[c].i, seen, seen)
    BY <1>1, <2>1, <2>2 DEF Address, Instruction, Instr
  <2>. QED  BY <2>2, <2>3
<1>2. CASE Device(c)
  <2>1. /\ Inside(c) /\ Instruction(Now(c), call[c].i, seen, seen)
        /\ Advance(c, seen) /\ UNCHANGED <<module, owner>>
    BY <1>2 DEF Device, Instruction, Instr
  <2>. QED  BY <2>1
<1>3. CASE Inb(c)
  <2>1. /\ Inside(c) /\ Instruction(Now(c), call[c].i, seen, Append(seen, DataIn))
        /\ Advance(c, Append(seen, DataIn)) /\ UNCHANGED <<module, owner>>
    BY <1>3 DEF Inb, Instruction, Instr
  <2>. QED  BY <2>1
<1>4. CASE Outb(c)
  <2>1. /\ Inside(c) /\ Instruction(Now(c), call[c].i, seen, seen)
        /\ Advance(c, seen) /\ UNCHANGED <<module, owner>>
    BY <1>4 DEF Outb, Instruction, Instr
  <2>. QED  BY <2>1
<1>. QED  BY <1>1, <1>2, <1>3, <1>4

LEMMA PortSteps ==
  ASSUME FilesOnly, IInv, NEW c \in Caller, Address(c) \/ Device(c) \/ Inb(c) \/ Outb(c)
  PROVE  /\ IInv'
         /\ Inside(c)
         /\ OwnBoard(board) => \A h \in (high \ high') \cup (high' \ high) :
              <<h, h \in high'>> \in Asked(call[c].job)
BY PortInstruction, StepInside

(* A step of one caller that leaves the chip alone.                        *)
LEMMA StepOutside ==
  ASSUME FilesOnly, IInv, NEW c \in Caller, UNCHANGED <<module, sio, high>>,
         NEW r2, call' = [call EXCEPT ![c] = r2],
         r2 = Idle \/ (/\ r2 \in Call
                       /\ r2.job \in Jobs(board, c)
                       /\ r2.n = 1 /\ r2.i = 1),
         r2.phase = "inside" <=> owner' = c,
         \A d \in Caller \ {c} : owner' = d <=> owner = d,
         owner' \in Caller \cup {NoOne},
         r2.phase = "inside" => Boundary(sio),
         owner' = NoOne => Boundary(sio)
  PROVE  IInv'
<1>1. StateOK /\ StateOK' /\ DOMAIN call = Caller
  BY DEF IInv, StateOK, module
<1>2. call'[c] = r2 /\ DOMAIN call' = Caller /\ \A d \in Caller \ {c} : call'[d] = call[d]
  BY <1>1
<1>3. ASSUME NEW d \in Caller, d # c
      PROVE  /\ CallOK(d)'
             /\ call'[d].phase = "inside" <=> owner' = d
             /\ call'[d].phase = "inside" =>
                  Position(sio', high', call'[d], Plan(call[d].job)')
  <2>1. /\ CallOK(d) /\ (call[d].phase = "inside" <=> owner = d)
        /\ call[d].phase = "inside" => Position(sio, high, call[d], Plan(call[d].job))
    BY DEF IInv
  <2>2. Plan(call[d].job)' = Plan(call[d].job)
    BY <1>2, <1>3, PlanUnchanged DEF module
  <2>3. call'[d] = call[d] /\ (owner' = d <=> owner = d)
    BY <1>2, <1>3
  <2>4. CallOK(d)'
    BY <2>1, <2>2, <2>3 DEF CallOK, module
  <2>. QED  BY <2>1, <2>2, <2>3, <2>4
<1>4. CASE r2 = Idle
  <2>1. r2.phase # "inside"
    BY <1>4 DEF Idle
  <2>2. CallOK(c)'
    BY <1>2, <1>4 DEF CallOK, Idle
  <2>. QED  BY <1>1, <1>2, <1>3, <2>1, <2>2 DEF IInv
<1>5. CASE r2 # Idle
  <2>. DEFINE plan == Plan(r2.job)
  <2>1. r2 \in Call /\ r2.job \in Jobs(board, c) /\ r2.n = 1 /\ r2.i = 1 /\ r2.job \in Job
    BY <1>5 DEF Call
  <2>2. plan \in Seq(Access) /\ Len(plan) \in Nat
    BY <1>1, <2>1, PlanOfJob DEF StateOK
  <2>3. Plan(call[c].job)' = plan
    BY <1>2, PlanUnchanged DEF module
  <2>4. CallOK(c)'
    BY <1>2, <2>1, <2>2, <2>3 DEF CallOK, module
  <2>5. ASSUME Boundary(sio)
        PROVE  Position(sio, high, r2, plan)
    <3>. HIDE DEF plan
    <3>1. CASE 1 <= Len(plan)
      <4>1. plan[1] \in Access
        BY <2>2, <3>1
      <4>2. 1 <= Len(Code(plan[1]))
        BY <4>1, Lengths
      <4>3. Opened(sio, 1) /\ Aimed(sio, high, plan[1], 1, r2.seen)
        BY <2>5 DEF Opened, Aimed
      <4>4. ~ (1 > Len(plan))
        BY <2>2, <3>1
      <4>. QED  BY <2>1, <4>2, <4>3, <4>4 DEF Position
    <3>2. CASE ~ (1 <= Len(plan))
      <4>1. plan = << >>
        BY <2>2, <3>2
      <4>. QED  BY <2>1, <2>5, <3>2, <4>1 DEF Position
    <3>. QED  BY <3>1, <3>2
  <2>6. r2.phase = "inside" => Position(sio', high', r2, plan)
    BY <2>5
  <2>. QED  BY <1>1, <1>2, <1>3, <2>3, <2>4, <2>6 DEF IInv
<1>. QED  BY <1>4, <1>5

-----------------------------------------------------------------------------
(* The other steps.  Registering and unregistering cannot happen: nobody   *)
(* loads or unloads.                                                       *)

LEMMA BeginStep ==
  ASSUME FilesOnly, IInv, NEW c \in Caller, Begin(c)
  PROVE  IInv'
<1>1. PICK job \in Jobs(board, c) :
        call' = [call EXCEPT ![c] = IF Locks(job) THEN Asking(job, Tries) ELSE Enter(job, Left(job))]
  BY DEF Begin
<1>2. UNCHANGED <<module, sio, high, owner>> /\ call[c].phase = "idle"
  BY DEF Begin
<1>3. chip \in Chip /\ job \in Job
  BY DEF IInv, StateOK, FilesOnly, Job
<1>4. Locks(job)
  BY <1>3, PlanOfJob
<1>. DEFINE r2 == Asking(job, Tries)
<1>5. r2 \in Call /\ r2.job = job /\ r2.n = 1 /\ r2.i = 1 /\ r2.phase = "asking"
  BY <1>3, TriesAssumption DEF Asking, Calling, Call
<1>6. call' = [call EXCEPT ![c] = r2]
  BY <1>1, <1>4
<1>7. owner # c /\ owner \in Caller \cup {NoOne} /\ (owner = NoOne => Boundary(sio))
  BY <1>2 DEF IInv, StateOK
<1>. HIDE DEF r2
<1>. QED  BY <1>2, <1>5, <1>6, <1>7, StepOutside

LEMMA TakeStep ==
  ASSUME FilesOnly, IInv, NEW c \in Caller, Take(c)
  PROVE  IInv'
<1>. DEFINE r2 == Enter(call[c].job, call[c].left)
<1>1. /\ call[c].phase = "asking" /\ owner = NoOne /\ owner' = c
      /\ call' = [call EXCEPT ![c] = r2] /\ UNCHANGED <<module, sio, high>>
  BY DEF Take
<1>2. call[c] \in Call /\ call[c].job \in Jobs(board, c)
  BY <1>1 DEF IInv, CallOK, Idle
<1>3. r2 \in Call /\ r2.job = call[c].job /\ r2.n = 1 /\ r2.i = 1 /\ r2.phase = "inside"
  BY <1>2 DEF Enter, Calling, Call
<1>4. Boundary(sio) /\ c # NoOne
  BY <1>1, CallerAssumption DEF IInv
<1>5. \A d \in Caller \ {c} : owner' = d <=> owner = d
  BY <1>1, CallerAssumption
<1>. HIDE DEF r2
<1>. QED  BY <1>1, <1>2, <1>3, <1>4, <1>5, StepOutside

LEMMA RetryStep ==
  ASSUME FilesOnly, IInv, NEW c \in Caller, Retry(c)
  PROVE  IInv'
<1>. DEFINE left == call[c].left - 1
            r2 == IF left > 0 THEN Asking(call[c].job, left) ELSE AfterFailure(call[c].job)
<1>1. /\ call[c].phase = "asking" /\ owner # NoOne
      /\ call' = [call EXCEPT ![c] = r2] /\ UNCHANGED <<module, sio, high, owner>>
  BY DEF Retry
<1>2. call[c] \in Call /\ call[c].job \in Jobs(board, c) /\ call[c] # Idle
  BY <1>1 DEF IInv, CallOK, Idle
<1>3. owner # c /\ owner \in Caller \cup {NoOne}
  BY <1>1 DEF IInv, StateOK
<1>4. call[c].job.op \in {"store", "show"}
  BY <1>2 DEF Call, Job, Stores, Shows
<1>5. CASE left > 0
  <2>1. r2 = Asking(call[c].job, left) /\ left \in 0 .. Tries
    BY <1>2, <1>5, TriesAssumption DEF Call
  <2>2. r2 \in Call /\ r2.job = call[c].job /\ r2.n = 1 /\ r2.i = 1 /\ r2.phase = "asking"
    <3>1. call[c].job \in Job
      BY <1>2 DEF Call
    <3>. HIDE DEF r2, left
    <3>. QED  BY <2>1, <3>1 DEF Asking, Calling, Call
  <2>. HIDE DEF r2
  <2>. QED  BY <1>1, <1>2, <1>3, <2>2, StepOutside
<1>6. CASE ~ (left > 0)
  <2>1. r2 = Idle /\ r2.phase # "inside"
    BY <1>4, <1>6 DEF AfterFailure, Idle
  <2>. HIDE DEF r2
  <2>. QED  BY <1>1, <1>3, <2>1, StepOutside
<1>. QED  BY <1>5, <1>6

LEMMA ReturnStep ==
  ASSUME FilesOnly, IInv, NEW c \in Caller, Return(c)
  PROVE  IInv'
<1>1. /\ Done(c) /\ call' = [call EXCEPT ![c] = Idle] /\ UNCHANGED <<module, sio, high>>
      /\ owner' = IF Locks(call[c].job) THEN NoOne ELSE owner
  BY DEF Return
<1>2. call[c].phase = "inside" /\ call[c] # Idle /\ call[c].n > Len(Todo(c))
  BY <1>1 DEF Done, Idle
<1>3. owner = c /\ owner' = NoOne /\ Todo(c) = Plan(call[c].job)
  BY <1>1, <1>2, JobOfCall DEF IInv
<1>4. Boundary(sio)
  BY <1>2, <1>3 DEF IInv, Position
<1>5. \A d \in Caller : owner' # d /\ (d # c => owner # d)
  BY <1>3, CallerAssumption
<1>6. Idle.phase # "inside"
  BY DEF Idle
<1>. QED  BY <1>1, <1>3, <1>4, <1>5, <1>6, StepOutside

LEMMA NoOtherStep ==
  ASSUME FilesOnly, IInv, NEW c \in Caller
  PROVE  ~ (\/ LookAgain(c) \/ Match(c) \/ RegisterFiles(c) \/ RegisterLed(c)
            \/ UnregisterLed(c) \/ UnregisterFiles(c))
<1>1. call[c].phase \in {"idle", "asking", "inside"}
  BY DEF IInv, CallOK, Call, Idle
<1>2. call[c].phase = "inside" => call[c].job.op \in {"store", "show"}
  <2>1. call[c] # Idle => call[c].job \in Job
    BY JobOfCall
  <2>. QED  BY <2>1 DEF Idle, Job, Stores, Shows
<1>. QED  BY <1>1, <1>2 DEF LookAgain, Match, RegisterFiles, RegisterLed, UnregisterLed, UnregisterFiles, Done

(* The invariant is inductive; and no step changes a register bit but to   *)
(* the value that somebody inside was asked to give it.                    *)
LEMMA NextIInv ==
  ASSUME FilesOnly, IInv, [Next]_vars
  PROVE  /\ IInv'
         /\ OwnBoard(board) => \A h \in (high \ high') \cup (high' \ high) :
              \E c \in Caller : Inside(c) /\ <<h, h \in high'>> \in Asked(call[c].job)
<1>. DEFINE Change == OwnBoard(board) => \A h \in (high \ high') \cup (high' \ high) :
              \E c \in Caller : Inside(c) /\ <<h, h \in high'>> \in Asked(call[c].job)
<1>1. CASE UNCHANGED vars
  <2>1. \A c \in Caller : Plan(call[c].job)' = Plan(call[c].job)
    BY <1>1, PlanUnchanged DEF vars
  <2>2. IInv'
    BY <1>1, <2>1 DEF vars, IInv, StateOK, CallOK
  <2>. QED  BY <1>1, <2>2 DEF vars
<1>2. ASSUME NEW c \in Caller, Begin(c) PROVE IInv' /\ Change
  BY <1>2, BeginStep DEF Begin
<1>3. ASSUME NEW c \in Caller, Take(c) PROVE IInv' /\ Change
  BY <1>3, TakeStep DEF Take
<1>4. ASSUME NEW c \in Caller, Retry(c) PROVE IInv' /\ Change
  BY <1>4, RetryStep DEF Retry
<1>5. ASSUME NEW c \in Caller, Address(c) \/ Device(c) \/ Inb(c) \/ Outb(c) PROVE IInv' /\ Change
  BY <1>5, PortSteps
<1>6. ASSUME NEW c \in Caller, Return(c) PROVE IInv' /\ Change
  BY <1>6, ReturnStep DEF Return
<1>. HIDE DEF Change
<1>7. IInv' /\ Change
  BY <1>1, <1>2, <1>3, <1>4, <1>5, <1>6, NoOtherStep DEF Next, Step, Change
<1>. QED  BY <1>7 DEF Change

LEMMA Inductive ==
  ASSUME FilesOnly
  PROVE  Spec => []IInv
<1>1. Init => IInv
  BY InitIInv
<1>2. IInv /\ [Next]_vars => IInv'
  BY NextIInv
<1>. QED  BY <1>1, <1>2, PTL DEF Spec

-----------------------------------------------------------------------------
(* Every variable has its type, and every caller is at an instruction of   *)
(* its job.  (g_priv, the ports, request_io_port.)                         *)
THEOREM TypeCorrect ==
  ASSUME FilesOnly
  PROVE  Spec => []TypeOK
<1>1. ASSUME IInv PROVE TypeOK
  <2>1. ASSUME NEW c \in Caller, call[c] # Idle
        PROVE  /\ call[c].phase \in {"asking", "inside", "matched", "filed", "leaving"}
               /\ call[c].job \in Jobs(board, c) \cup {LedOff}
               /\ call[c].left \in (0 .. Tries) \cup (1 .. Entries)
               /\ call[c].n \in 1 .. Len(Todo(c)) + 1
               /\ Inside(c) => call[c].i \in DOMAIN Code(Now(c))
               /\ call[c].seen \in Seq(SUBSET Bit)
    <3>1. call[c] \in Call /\ Todo(c) = Plan(call[c].job) /\ Plan(call[c].job) \in Seq(Access)
      BY <1>1, <2>1, JobOfCall
    <3>2. call[c].job \in Jobs(board, c) /\ call[c].n <= Len(Plan(call[c].job)) + 1
      BY <1>1, <2>1 DEF IInv, CallOK
    <3>3. call[c].n \in 1 .. Len(Todo(c)) + 1
      <4>1. call[c].n \in Nat \ {0} /\ Len(Todo(c)) \in Nat
        BY <3>1 DEF Call
      <4>. QED  BY <3>1, <3>2, <4>1
    <3>4. ASSUME Inside(c) PROVE call[c].i \in DOMAIN Code(Now(c))
      <4>1. Now(c) \in Access /\ call[c].i \in 1 .. Len(Code(Now(c)))
        BY <1>1, <3>4, Doing
      <4>2. DOMAIN Code(Now(c)) = 1 .. Len(Code(Now(c)))
        BY <4>1, Codes DEF Access
      <4>. QED  BY <4>1, <4>2
    <3>. QED  BY <3>1, <3>2, <3>3, <3>4 DEF Call
  <2>. QED  BY <1>1, <2>1 DEF TypeOK, IInv, StateOK, FrontEnd
<1>. QED  BY <1>1, Inductive, PTL

(* Nobody is inside the driver without holding the region, and the chip is *)
(* closed whenever nobody is inside, if the files list only ports the chip *)
(* has: every access leaves what it has opened.                            *)
THEOREM AlwaysRestsClosed ==
  ASSUME FilesOnly, Listed
  PROVE  Spec => []RestsClosed
<1>1. ASSUME IInv PROVE RestsClosed
  <2>1. ASSUME \A c \in Caller : call[c].phase # "inside" PROVE ~ sio.ext
    BY <1>1, <2>1 DEF IInv, StateOK, Boundary
  <2>2. owner = NoOne => \A c \in Caller : call[c].phase # "inside"
    BY <1>1, CallerAssumption DEF IInv
  <2>. QED  BY <2>1, <2>2 DEF RestsClosed
<1>. QED  BY <1>1, Inductive, PTL

(* When a store returns, the register has the bit it was asked for,        *)
(* although others have gone through the chip's index and device before    *)
(* and will after.                                                         *)
THEOREM StoresTakeEffect ==
  ASSUME FilesOnly
  PROVE  Spec => []StoreTakesEffect
<1>1. ASSUME IInv PROVE StoreTakesEffect
  <2>. SUFFICES ASSUME NEW c \in Caller, Done(c), NEW x \in Asked(call[c].job)
                PROVE  (x[1] \in high) = x[2]
    BY DEF StoreTakesEffect
  <2>. DEFINE job == call[c].job
              plan == Plan(job)
  <2>1. call[c].phase = "inside" /\ call[c] # Idle
    BY DEF Done, Idle
  <2>2. job \in Job /\ call[c].n > Len(plan) /\ chip \in Chip
    BY <1>1, <2>1, JobOfCall DEF Done, IInv, StateOK
  <2>3. Position(sio, high, call[c], plan)
    BY <1>1, <2>1 DEF IInv
  <2>4. job \notin Shows
    BY <2>2, PlanOfShow
  <2>5. job \in Stores /\ job.op = "store"
    BY <2>2, <2>4 DEF Job, Stores
  <2>. HIDE DEF plan, job
  <2>6. PICK a \in Writes : /\ plan = <<a>> /\ a.bit \in Bit
                            /\ Asked(job) = {<<<<a.ld, a.reg, a.bit>>, a.cmd>>}
    BY <2>2, <2>5, PlanOfStore DEF plan, job
  <2>7. Effect(high, a) /\ a.bit \in Bit
    BY <2>2, <2>3, <2>5, <2>6 DEF Position, job
  <2>8. x[1] = <<a.ld, a.reg, a.bit>> /\ x[2] = a.cmd /\ a.cmd \in BOOLEAN
    BY <2>6 DEF job, Writes
  <2>. QED  BY <2>7, <2>8 DEF Effect
<1>. QED  BY <1>1, Inductive, PTL

(* If nobody selects a port the chip lacks, no register bit changes but to *)
(* the value somebody inside was asked to give it: a read, modify and      *)
(* write of one user never undoes another's.                               *)
THEOREM OnlyAskedChanges ==
  ASSUME FilesOnly, OwnPorts
  PROVE  Spec => ChangesOnlyAsked
<1>1. ASSUME IInv, [Next]_vars
      PROVE  \A h \in (high \ high') \cup (high' \ high) :
               \E c \in Caller : Inside(c) /\ <<h, h \in high'>> \in Granted(call[c].job)
  <2>1. OwnBoard(board)
    BY <1>1 DEF IInv, StateOK, OwnPorts
  <2>. QED  BY <1>1, <2>1, NextIInv DEF Granted
<1>. QED  BY <1>1, Inductive, PTL DEF Spec, ChangesOnlyAsked
=============================================================================
