-------------------------- MODULE NuvotonReadProofs --------------------------
(***************************************************************************)
(* What the driver has read is what the chip holds: a file shows the       *)
(* registers that the setters write, and loading finds out which chip it   *)
(* is.  Both follow a caller instruction by instruction and say what the   *)
(* answers collected so far are answers to.                                *)
(***************************************************************************)
EXTENDS NuvotonGpioProofs

-----------------------------------------------------------------------------
(* Where the tables agree.  The files of direction and level do on every   *)
(* chip, that of the inversion not on the NCT6116D; the "select" file      *)
(* reports, on three chips, the ports it has; on two, also bits that       *)
(* belong to no port, if the firmware has set any; on the NCT6104D and     *)
(* NCT6796D it asks for other registers than the setters write.            *)
Stray(k, h) ==
  {x \in h : /\ x[2] = GPIO_USE_SEL /\ x[1] \in {GetSelect(k)[p] : p \in Ports(k)}
             /\ \A p \in Ports(k) : ~ (x[1] = Select(k)[p][1] /\ x[3] = Select(k)[p][2])}

Clean(b) == \A h \in Contents(b) : Stray(b.name, h) = {}

Agree(b, field) ==
  /\ field = "inverse" => b.name # "NCT6116D"
  /\ field = "select"  => \/ b.name \in {"NCT6775F", "NCT6776F", "NCT6779D"}
                          \/ b.name \in {"NCT5581D", "NCT6116D"} /\ Clean(b)

(* Every file that somebody shows is one whose tables agree.               *)
Agreeing ==
  \A b \in Hardware, c \in Caller : \A job \in Jobs(b, c) :
    job.op = "show" => Agree(b, job.field)

LEMMA SameDevice ==
  ASSUME NEW k \in Chip
  PROVE  GetDevice(k) = SetDevice(k)
<1>. USE DEF GetDevice, SetDevice
<1>1. CASE k \in {"NCT6775F", "NCT6776F"}
  BY <1>1 DEF GetDeviceNCT6775F, SetDeviceNCT6775F, GetDeviceNCT6776F, SetDeviceNCT6776F
<1>2. CASE k \in {"NCT6779D", "NCT6796D"}
  BY <1>2 DEF GetDeviceNCT6779D, SetDeviceNCT6779D, GetDeviceNCT6796D, SetDeviceNCT6796D
<1>3. CASE k \in {"NCT6104D", "NCT6116D"}
  BY <1>3 DEF GetDeviceNCT6104D, SetDeviceNCT6104D, GetDeviceNCT6116D, SetDeviceNCT6116D
<1>4. CASE k = "NCT5581D"
  BY <1>4 DEF GetDeviceNCT5581D, SetDeviceNCT5581D
<1>. QED  BY <1>1, <1>2, <1>3, <1>4 DEF Chip

(* The registers a getter reads are those the setter writes.               *)
LEMMA SameRegister ==
  ASSUME NEW k \in Chip, NEW f \in Field, NEW p \in Ports(k),
         f = "inverse" => k # "NCT6116D"
  PROVE  GetRegister(k, f, p) = SetRegister(k, f, p)
BY SameDevice DEF GetRegister, SetRegister, GetBase

Selected(h, ld) == {b \in Bit : <<ld, GPIO_USE_SEL, b>> \in h}
Chosen(k, h) == {p \in Ports(k) : <<Select(k)[p][1], GPIO_USE_SEL, Select(k)[p][2]>> \in h}

(* What the "select" file makes of the answers is the set of the ports     *)
(* whose bit is set.                                                       *)
LEMMA SameSelection ==
  ASSUME NEW k \in Chip, NEW h, NEW seen,
         \A n \in DOMAIN SelectAsks(k) : seen[n] = Selected(h, GetSelect(k)[SelectAsks(k)[n]]),
         \/ k \in {"NCT6775F", "NCT6776F", "NCT6779D"}
         \/ k \in {"NCT5581D", "NCT6116D"} /\ Stray(k, h) = {}
  PROVE  Reported(k, seen) = Chosen(k, h)
<1>. USE DEF Selected, Chosen
<1>. DEFINE On(ld) == {b \in Bit : <<ld, GPIO_USE_SEL, b>> \in h}
            place(p) == Select(k)[p]
            ports == {p \in Ports(k) : <<place(p)[1], GPIO_USE_SEL, place(p)[2]>> \in h}
            device(n) == GetSelect(k)[SelectAsks(k)[n]]
<1>0. \A n \in DOMAIN SelectAsks(k) : seen[n] = On(device(n))
  OBVIOUS
<1>1. CASE k = "NCT6775F"
  <2>1. seen[1] = On(7) /\ seen[2] = On(9) /\ seen[3] = On(8) /\ seen[4] = On(8)
    <3>1. /\ 1 .. 4 = DOMAIN SelectAsks(k)
          /\ device(1) = 7 /\ device(2) = 9 /\ device(3) = 8 /\ device(4) = 8
      BY <1>1 DEF SelectAsks, GetSelect, GetSelectNCT6775F, Devices, LD7, LD8, LD9
    <3>. HIDE DEF On, device
    <3>. QED  BY <1>0, <3>1
  <2>2. /\ Ports(k) = 0 .. 9
        /\ \A p \in 0 .. 9 : place(p) = CASE p \in 2 .. 5 -> <<9, p - 2>>
                                          [] p = 0 -> <<8, 2>>
                                          [] p = 1 -> <<8, 1>>
                                          [] OTHER -> <<7, p - 5>>
    BY <1>1 DEF AnyPort, Ports, Base, Select, SelectNCT6775F, LD7, LD8, LD9
  <2>3. ports = {p \in 6 .. 9 : p - 5 \in On(7)} \cup {p \in 2 .. 5 : p - 2 \in On(9)}
                \cup {p \in {0} : 2 \in On(8)} \cup {p \in {1} : 1 \in On(8)}
    <3>. HIDE DEF place
    <3>. QED  BY <2>2 DEF Bit
  <2>. QED  BY <1>1, <2>1, <2>3 DEF Reported
<1>2. CASE k = "NCT6776F"
  <2>1. seen[1] = On(7) /\ seen[2] = On(9) /\ seen[3] = On(8)
    <3>1. 1 .. 3 = DOMAIN SelectAsks(k) /\ device(1) = 7 /\ device(2) = 9 /\ device(3) = 8
      BY <1>2 DEF SelectAsks, GetSelect, GetSelectNCT6776F, Devices, LD7, LD8, LD9
    <3>. HIDE DEF On, device
    <3>. QED  BY <1>0, <3>1
  <2>2. /\ Ports(k) = 0 .. 9
        /\ \A p \in 0 .. 9 : place(p) = CASE p \in 1 .. 7 -> <<9, p>>
                                          [] p = 0 -> <<8, 1>>
                                          [] OTHER -> <<7, p - 8>>
    BY <1>2 DEF Ports, Base, Select, SelectNCT6776F, LD7, LD8, LD9
  <2>3. ports = {p \in {8, 9} : p - 8 \in On(7)} \cup {p \in 1 .. 7 : p \in On(9)}
                \cup {p \in {0} : 1 \in On(8)}
    <3>. HIDE DEF place
    <3>. QED  BY <2>2 DEF Bit
  <2>. QED  BY <1>2, <2>1, <2>3 DEF Reported
<1>3. CASE k = "NCT6779D"
  <2>1. seen[1] = On(9) /\ seen[2] = On(9) /\ seen[3] = On(8)
    <3>1. 1 .. 3 = DOMAIN SelectAsks(k) /\ device(1) = 9 /\ device(2) = 9 /\ device(3) = 8
      BY <1>3 DEF SelectAsks, GetSelect, GetSelectNCT6779D, Devices, LD7, LD8, LD9
    <3>. HIDE DEF On, device
    <3>. QED  BY <1>0, <3>1
  <2>2. /\ Ports(k) = 0 .. 8
        /\ \A p \in 0 .. 8 : place(p) = CASE p \in 1 .. 7 -> <<9, p>>
                                          [] p = 8 -> <<9, 0>>
                                          [] OTHER -> <<8, 1>>
    BY <1>3 DEF Ports, Base, Select, SelectNCT6779D, LD7, LD8, LD9
  <2>3. ports = {p \in {8} : 0 \in On(9)} \cup {p \in 1 .. 7 : p \in On(9)}
                \cup {p \in {0} : 1 \in On(8)}
    <3>. HIDE DEF place
    <3>. QED  BY <2>2 DEF Bit
  <2>. QED  BY <1>3, <2>1, <2>3 DEF Reported
<1>4. CASE k = "NCT5581D" /\ Stray(k, h) = {}
  <2>1. seen[1] = On(7) /\ seen[2] = On(9)
    <3>1. 1 .. 2 = DOMAIN SelectAsks(k) /\ device(1) = 7 /\ device(2) = 9
      BY <1>4 DEF SelectAsks, GetSelect, GetSelectNCT5581D, Devices, LD7, LD8, LD9
    <3>. HIDE DEF On, device
    <3>. QED  BY <1>0, <3>1
  <2>2. /\ Ports(k) = {2, 3, 5, 7, 8}
        /\ \A p \in {2, 3, 5, 7, 8} : place(p) = IF p \in {7, 8} THEN <<7, p - 6>> ELSE <<9, p - 2>>
    BY <1>4 DEF Ports, Base, Select, SelectNCT5581D, LD7, LD8, LD9
  <2>3. \A ld \in {7, 9} : \A b \in On(ld) :
          \E p \in Ports(k) : ld = place(p)[1] /\ b = place(p)[2]
    <3>1. GetSelect(k)[7] = 7 /\ GetSelect(k)[2] = 9 /\ 7 \in Ports(k) /\ 2 \in Ports(k)
      BY <1>4, <2>2 DEF GetSelect, GetSelectNCT5581D, Devices, LD7, LD8, LD9
    <3>2. {7, 9} \subseteq {GetSelect(k)[p] : p \in Ports(k)}
      BY <3>1
    <3>. HIDE DEF place
    <3>3. ASSUME NEW ld \in {7, 9}, NEW b \in On(ld)
          PROVE  \E p \in Ports(k) : ld = place(p)[1] /\ b = place(p)[2]
      <4>. DEFINE x == <<ld, GPIO_USE_SEL, b>>
      <4>1. x \in h /\ x[1] = ld /\ x[2] = GPIO_USE_SEL /\ x[3] = b
        OBVIOUS
      <4>2. x \notin Stray(k, h)
        BY <1>4
      <4>. HIDE DEF x
      <4>. QED  BY <3>2, <4>1, <4>2 DEF Stray, place
    <3>. QED  BY <3>3
  <2>4. ports = {6 + b : b \in On(7)} \cup {2 + b : b \in On(9)}
    <3>1. \A b \in Bit : b \in On(7) => b \in {1, 2}
      <4>. HIDE DEF place
      <4>. QED  BY <2>2, <2>3 DEF Bit
    <3>2. \A b \in Bit : b \in On(9) => b \in {0, 1, 3}
      <4>. HIDE DEF place
      <4>. QED  BY <2>2, <2>3 DEF Bit
    <3>3. \A S : S \subseteq {1, 2} => {6 + b : b \in S} = {p \in {7, 8} : p - 6 \in S}
      OBVIOUS
    <3>4. \A S : S \subseteq {0, 1, 3} => {2 + b : b \in S} = {p \in {2, 3, 5} : p - 2 \in S}
      OBVIOUS
    <3>5. /\ {6 + b : b \in On(7)} = {p \in {7, 8} : p - 6 \in On(7)}
          /\ {2 + b : b \in On(9)} = {p \in {2, 3, 5} : p - 2 \in On(9)}
      <4>1. On(7) \subseteq {1, 2} /\ On(9) \subseteq {0, 1, 3}
        BY <3>1, <3>2
      <4>. HIDE DEF On
      <4>. QED  BY <3>3, <3>4, <4>1
    <3>6. ports = {p \in {7, 8} : p - 6 \in On(7)} \cup {p \in {2, 3, 5} : p - 2 \in On(9)}
      <4>. HIDE DEF place
      <4>. QED  BY <2>2 DEF Bit
    <3>. HIDE DEF ports, On
    <3>. QED  BY <3>5, <3>6
  <2>. QED  BY <1>4, <2>1, <2>4 DEF Reported
<1>5. CASE k = "NCT6116D" /\ Stray(k, h) = {}
  <2>1. seen[1] = On(9) /\ seen[2] = On(7)
    <3>1. 1 .. 2 = DOMAIN SelectAsks(k) /\ device(1) = 9 /\ device(2) = 7
      BY <1>5 DEF SelectAsks, GetSelect, GetSelectNCT6116D, Devices, LD7, LD8, LD9
    <3>. HIDE DEF On, device
    <3>. QED  BY <1>0, <3>1
  <2>2. /\ Ports(k) = 0 .. 8
        /\ \A p \in 0 .. 8 : place(p) = IF p = 8 THEN <<9, 0>> ELSE <<7, p>>
    BY <1>5 DEF Ports, Base, Select, SelectNCT6116D, LD7, LD8, LD9
  <2>3. \A b \in On(9) : b = 0
    <3>1. GetSelect(k)[8] = 9 /\ 8 \in Ports(k)
      BY <1>5, <2>2 DEF GetSelect, GetSelectNCT6116D, Devices, LD7, LD8, LD9
    <3>. HIDE DEF place
    <3>2. ASSUME NEW b \in On(9)
          PROVE  b = 0
      <4>. DEFINE x == <<9, GPIO_USE_SEL, b>>
      <4>1. x \in h /\ x[1] = 9 /\ x[2] = GPIO_USE_SEL /\ x[3] = b
        OBVIOUS
      <4>2. x \notin Stray(k, h)
        BY <1>5
      <4>. HIDE DEF x
      <4>3. PICK p \in Ports(k) : 9 = place(p)[1] /\ b = place(p)[2]
        BY <3>1, <4>1, <4>2 DEF Stray, place
      <4>. HIDE DEF place
      <4>. QED  BY <2>2, <4>3
    <3>. QED  BY <3>2
  <2>4. ports = {8 + b : b \in On(9)} \cup On(7)
    <3>1. \A S : S \subseteq {0} => {8 + b : b \in S} = {p \in {8} : 0 \in S}
      OBVIOUS
    <3>2. {8 + b : b \in On(9)} = {p \in {8} : 0 \in On(9)}
      <4>1. On(9) \subseteq {0}
        BY <2>3
      <4>. HIDE DEF On
      <4>. QED  BY <3>1, <4>1
    <3>3. ports = {p \in {8} : 0 \in On(9)} \cup On(7)
      <4>. HIDE DEF place
      <4>. QED  BY <2>2 DEF Bit
    <3>. HIDE DEF ports, On
    <3>. QED  BY <3>2, <3>3
  <2>. QED  BY <1>5, <2>1, <2>4 DEF Reported
<1>. QED  BY <1>1, <1>2, <1>3, <1>4, <1>5

-----------------------------------------------------------------------------
(* The invariant of a caller who shows a file: it has an answer to every   *)
(* access it is past, and from the data byte on to the one it is at; an    *)
(* answer is what the register holds now, for nobody else has the region.  *)
Facing(f, a, i) ==
  a \in Reads => /\ i >= 5 => f.device = a.ld
                 /\ i = 6 => f.index = a.reg

Remembers(f, h, r, plan) ==
  /\ Len(r.seen) = IF r.n <= Len(plan) /\ r.i > 6 THEN r.n ELSE r.n - 1
  /\ \A k \in 1 .. Len(r.seen) : plan[k] \in Reads =>
       r.seen[k] = {b \in Bit : <<plan[k].ld, plan[k].reg, b>> \in h}
  /\ r.n <= Len(plan) => Facing(f, plan[r.n], r.i)

Reading(r) == r.phase = "inside" /\ r.job.op = "show"

(* The chips whose "select" file may report bits of no port: on them, the  *)
(* driver refuses to select a port the chip lacks.                         *)
Refusing(b) == b.name \in {"NCT5581D", "NCT6116D"}

LEMMA Refused ==
  ASSUME NEW b, Refusing(b)
  PROVE  OwnBoard(b)
<1>1. DOMAIN Select(b.name) = Ports(b.name)
  BY DEF Refusing, Select, SelectNCT5581D, SelectNCT6116D, Ports, Base
<1>. QED  BY <1>1 DEF OwnBoard

ShowInv ==
  /\ \A c \in Caller : Reading(call[c]) => Remembers(sio, high, call[c], Plan(call[c].job))
  /\ Refusing(board) /\ Clean(board) => Stray(chip, high) = {}

(* One instruction of a read, or of a port the chip lacks.                 *)
LEMMA ReadInstruction ==
  ASSUME NEW a \in Reads \cup {Absent}, NEW i \in 1 .. Len(Code(a)), NEW seen, NEW seen2,
         sio \in FrontEnd, Opened(sio, i), i = 4 => sio.index = CR7, Facing(sio, a, i),
         Instruction(a, i, seen, seen2)
  PROVE  /\ high' = high
         /\ i < Len(Code(a)) => Facing(sio', a, i + 1)
         /\ seen2 = IF i = 6 THEN Append(seen, Bits(a.ld, a.reg)) ELSE seen
<1>1. a \in Access /\ a \notin Writes
  BY DEF Access, Reads, Writes, Absent
<1>2. a \in Reads => a.ld \in LogicalDevice /\ a.reg \in Byte
  BY DEF Reads, Register, GPIO_USE_SEL, E0, Byte
<1>3. CASE Code(a)[i] = "key"
  <2>1. i \in {1, 2} /\ high' = high /\ seen2 = seen
    BY <1>1, <1>3, Places DEF Instruction
  <2>. QED  BY <2>1 DEF Facing
<1>4. CASE Code(a)[i] = "cr7"
  <2>1. i = 3 /\ high' = high /\ seen2 = seen
    BY <1>1, <1>4, Places DEF Instruction
  <2>. QED  BY <2>1 DEF Facing
<1>5. CASE Code(a)[i] = "device"
  <2>1. DataOut(Binary(a.ld)) /\ seen2 = seen /\ i = 4 /\ a \in Reads
    BY <1>1, <1>5, Places DEF Instruction
  <2>2. sio.ext /\ sio' = [sio EXCEPT !.device = Number(Binary(a.ld))] /\ high' = high
    BY <2>1 DEF DataOut, Opened
  <2>3. Number(Binary(a.ld)) = a.ld /\ a.ld \in Byte
    BY <1>2, <2>1, DeviceByte DEF LogicalDevice, LD7, LD8, LD9, Byte
  <2>4. sio'.device = a.ld
    BY <2>2, <2>3, DeviceBytes
  <2>. QED  BY <2>1, <2>2, <2>4 DEF Facing
<1>6. CASE Code(a)[i] = "index"
  <2>1. sio' = IndexByte(a.reg) /\ high' = high /\ seen2 = seen /\ i = 5 /\ a \in Reads
    BY <1>1, <1>6, Places DEF Instruction
  <2>2. sio'.index = a.reg /\ sio'.device = sio.device
    BY <1>2, <2>1, IndexBytes DEF Opened
  <2>. QED  BY <2>1, <2>2 DEF Facing
<1>7. CASE Code(a)[i] = "in"
  <2>1. /\ seen2 = Append(seen, DataIn) /\ sio' = sio /\ high' = high
        /\ i = 6 /\ a \in Reads
    BY <1>1, <1>7, Places DEF Instruction
  <2>2. sio.ext /\ sio.device = a.ld /\ sio.index = a.reg
    BY <2>1 DEF Facing, Opened
  <2>3. DataIn = Bits(a.ld, a.reg)
    BY <2>1, <2>2, DataInOf
  <2>. QED  BY <2>1, <2>2, <2>3 DEF Facing
<1>8. CASE Code(a)[i] = "leave"
  <2>1. i = Len(Code(a)) /\ i \in {2, 7} /\ high' = high /\ seen2 = seen
    BY <1>1, <1>8, Places DEF Instruction
  <2>. QED  BY <1>1, <2>1, Places
<1>9. Code(a)[i] # "out"
  BY <1>1, Places
<1>. QED  BY <1>3, <1>4, <1>5, <1>6, <1>7, <1>8, <1>9 DEF Instruction

(* Where a read is at its answer, and where it ends.                       *)
LEMMA ReadPlaces ==
  ASSUME NEW a \in Reads \cup {Absent}, NEW i \in 1 .. Len(Code(a))
  PROVE  /\ i = Len(Code(a)) => (a = Absent /\ i = 2) \/ (a \in Reads /\ i = 7)
         /\ i # Len(Code(a)) => i <= 6 /\ (i = 6 => a \in Reads) /\ i < Len(Code(a))
<1>1. CASE a \in Reads
  <2>1. Len(Code(a)) = 7
    BY <1>1, Codes
  <2>2. i \in 1 .. 7
    BY <2>1
  <2>. QED  BY <1>1, <2>1, <2>2
<1>2. CASE a = Absent
  <2>1. Len(Code(a)) = 2
    BY <1>2, Codes
  <2>2. i \in 1 .. 2
    BY <2>1
  <2>. QED  BY <1>2, <2>1, <2>2
<1>. QED  BY <1>1, <1>2

(* An instruction of somebody who shows a file keeps what it remembers.    *)
LEMMA ShowInstruction ==
  ASSUME FilesOnly, IInv, ShowInv, NEW c \in Caller, Inside(c), NEW seen2,
         Instruction(Now(c), call[c].i, call[c].seen, seen2), Advance(c, seen2),
         call[c].job.op = "show"
  PROVE  /\ high' = high
         /\ Remembers(sio', high', call'[c], Plan(call[c].job))
<1>. DEFINE r == call[c]
            r2 == call'[c]
            a == Now(c)
            plan == Plan(r.job)
            last == r.i = Len(Code(a))
            s == IF a.kind = "absent" THEN Append(r.seen, Bit) ELSE seen2
<1>1. /\ r \in Call /\ a = plan[r.n] /\ r.n \in 1 .. Len(plan) /\ a \in Access
      /\ r.i \in 1 .. Len(Code(a))
      /\ Opened(sio, r.i) /\ Aimed(sio, high, a, r.i, r.seen)
  BY Doing
<1>2. r.job \in Shows /\ chip \in Chip /\ sio \in FrontEnd /\ DOMAIN call = Caller
  BY <1>1 DEF Call, Job, Stores, IInv, StateOK
<1>3. plan \in Seq(Reads \cup {Absent}) /\ Len(plan) \in Nat
  BY <1>2, PlanOfShow
<1>4. a \in Reads \cup {Absent}
  <2>. HIDE DEF plan, a, r
  <2>. QED  BY <1>1, <1>3
<1>5. Remembers(sio, high, r, plan)
  BY DEF ShowInv, Reading, Inside
<1>6. /\ high' = high
      /\ r.i < Len(Code(a)) => Facing(sio', a, r.i + 1)
      /\ seen2 = IF r.i = 6 THEN Append(r.seen, Bits(a.ld, a.reg)) ELSE r.seen
  <2>1. Facing(sio, a, r.i) /\ (r.i = 4 => sio.index = CR7)
    <3>1. r.n <= Len(plan)
      BY <1>1, <1>3
    <3>. QED  BY <1>1, <1>5, <3>1 DEF Remembers, Aimed
  <2>2. Instruction(a, r.i, r.seen, seen2)
    OBVIOUS
  <2>. HIDE DEF a, r, plan
  <2>. QED  BY <1>1, <1>2, <1>4, <2>1, <2>2, ReadInstruction
<1>7. /\ ~ last => r2.n = r.n /\ r2.i = r.i + 1 /\ r2.seen = seen2
      /\ last => r2.n = r.n + 1 /\ r2.i = 1 /\ r2.seen = s
  <2>1. r2 = IF r.i < Len(Code(a))
               THEN [r EXCEPT !.i = r.i + 1, !.seen = seen2]
               ELSE [r EXCEPT !.i = 1, !.n = r.n + 1, !.seen = s]
    BY <1>2 DEF Advance
  <2>2. Len(Code(a)) \in Nat
    BY <1>1, Places
  <2>. HIDE DEF a, s, plan, r2, r
  <2>. QED  BY <1>1, <2>1, <2>2 DEF Call
<1>8. r.seen \in Seq(SUBSET Bit) /\ r.i \in Nat /\ r.n \in Nat
  BY <1>1 DEF Call
<1>9. /\ last => (a = Absent /\ r.i = 2) \/ (a \in Reads /\ r.i = 7)
      /\ ~ last => r.i <= 6 /\ (r.i = 6 => a \in Reads) /\ r.i < Len(Code(a))
      /\ a \in Reads => a.kind = "read"
  <2>1. a \in Reads => a.kind = "read"
    BY DEF Reads
  <2>. HIDE DEF a, r, plan
  <2>. QED  BY <1>1, <1>4, <2>1, ReadPlaces
<1>. HIDE DEF r, r2, a, plan, last, s
<1>10. CASE ~ last /\ r.i = 6
  <2>1. Len(r.seen) = r.n - 1 /\ a \in Reads /\ r.n <= Len(plan)
    BY <1>1, <1>3, <1>5, <1>9, <1>10 DEF Remembers
  <2>2. r2.n = r.n /\ r2.i = 7 /\ r2.seen = Append(r.seen, Bits(a.ld, a.reg))
    BY <1>6, <1>7, <1>10
  <2>3. Len(r2.seen) = r.n /\ r2.seen[r.n] = Bits(a.ld, a.reg)
    BY <1>8, <2>1, <2>2
  <2>4. \A k \in 1 .. r.n - 1 : r2.seen[k] = r.seen[k]
    BY <1>8, <2>1, <2>2
  <2>5. ASSUME NEW k \in 1 .. r.n, plan[k] \in Reads
        PROVE  r2.seen[k] = {b \in Bit : <<plan[k].ld, plan[k].reg, b>> \in high}
    <3>1. CASE k = r.n
      BY <1>1, <2>3, <3>1 DEF Bits
    <3>2. CASE k # r.n
      <4>1. k \in 1 .. r.n - 1
        BY <1>8, <3>2
      <4>2. r2.seen[k] = r.seen[k] /\ k \in 1 .. Len(r.seen)
        BY <2>1, <2>4, <4>1
      <4>3. r.seen[k] = {b \in Bit : <<plan[k].ld, plan[k].reg, b>> \in high}
        BY <1>5, <2>5, <4>2 DEF Remembers
      <4>. QED  BY <4>2, <4>3
    <3>. QED  BY <3>1, <3>2
  <2>6. Facing(sio', a, r2.i)
    BY <1>6, <1>9, <1>10, <2>2
  <2>7. Remembers(sio', high, r2, plan)
    BY <1>1, <2>1, <2>2, <2>3, <2>5, <2>6 DEF Remembers
  <2>. QED  BY <1>6, <2>7 DEF r, r2, plan
<1>11. CASE ~ last /\ r.i # 6
  <2>1. Len(r.seen) = r.n - 1 /\ r.n <= Len(plan) /\ r.i < 6
    BY <1>1, <1>3, <1>5, <1>8, <1>9, <1>11 DEF Remembers
  <2>2. r2.n = r.n /\ r2.i = r.i + 1 /\ r2.seen = r.seen
    BY <1>6, <1>7, <1>11
  <2>3. Facing(sio', a, r2.i)
    BY <1>6, <1>9, <1>11, <2>2
  <2>4. Remembers(sio', high, r2, plan)
    BY <1>1, <1>5, <1>8, <2>1, <2>2, <2>3 DEF Remembers
  <2>. QED  BY <1>6, <2>4 DEF r, r2, plan
<1>12. CASE last /\ a \in Reads
  <2>1. Len(r.seen) = r.n /\ r2.n = r.n + 1 /\ r2.i = 1 /\ r2.seen = r.seen
    <3>1. r.i = 7 /\ a.kind # "absent" /\ a # Absent
      BY <1>9, <1>12 DEF Absent
    <3>2. Len(r.seen) = r.n
      BY <1>1, <1>3, <1>5, <3>1 DEF Remembers
    <3>3. s = seen2 /\ seen2 = r.seen
      BY <1>6, <3>1 DEF s
    <3>. QED  BY <1>7, <1>12, <3>2, <3>3
  <2>2. r2.n <= Len(plan) => Facing(sio', plan[r2.n], r2.i)
    BY <2>1 DEF Facing
  <2>3. Remembers(sio', high, r2, plan)
    BY <1>5, <1>8, <2>1, <2>2 DEF Remembers
  <2>. QED  BY <1>6, <2>3 DEF r, r2, plan
<1>13. CASE last /\ a = Absent
  <2>1. a \notin Reads /\ a.kind = "absent" /\ r.i = 2
    BY <1>9, <1>13 DEF Absent, Reads
  <2>2. Len(r.seen) = r.n - 1
    BY <1>5, <2>1 DEF Remembers
  <2>3. r2.n = r.n + 1 /\ r2.i = 1 /\ r2.seen = Append(r.seen, Bit)
    BY <1>7, <1>13, <2>1 DEF s
  <2>4. Len(r2.seen) = r.n /\ \A k \in 1 .. r.n - 1 : r2.seen[k] = r.seen[k]
    BY <1>8, <2>2, <2>3
  <2>5. ASSUME NEW k \in 1 .. r.n, plan[k] \in Reads
        PROVE  r2.seen[k] = {b \in Bit : <<plan[k].ld, plan[k].reg, b>> \in high}
    <3>1. k \in 1 .. r.n - 1
      BY <1>1, <1>8, <2>1, <2>5
    <3>2. r2.seen[k] = r.seen[k] /\ k \in 1 .. Len(r.seen)
      BY <2>2, <2>4, <3>1
    <3>3. r.seen[k] = {b \in Bit : <<plan[k].ld, plan[k].reg, b>> \in high}
      BY <1>5, <2>5, <3>2 DEF Remembers
    <3>. QED  BY <3>2, <3>3
  <2>6. r2.n <= Len(plan) => Facing(sio', plan[r2.n], r2.i)
    BY <2>3 DEF Facing
  <2>7. Remembers(sio', high, r2, plan)
    BY <1>8, <2>3, <2>4, <2>5, <2>6 DEF Remembers
  <2>. QED  BY <1>6, <2>7 DEF r, r2, plan
<1>. QED  BY <1>4, <1>10, <1>11, <1>12, <1>13 DEF r, a

(* A step that leaves the chip alone keeps what everybody remembers.       *)
LEMMA ShowOutside ==
  ASSUME IInv, ShowInv, NEW c \in Caller, UNCHANGED <<module, sio, high>>,
         NEW r2, call' = [call EXCEPT ![c] = r2],
         r2.phase = "inside" => r2.n = 1 /\ r2.i = 1 /\ r2.seen = << >>
  PROVE  ShowInv'
<1>1. DOMAIN call = Caller
  BY DEF IInv
<1>2. ASSUME NEW d \in Caller, Reading(call'[d])
      PROVE  Remembers(sio', high', call'[d], Plan(call[d].job)')
  <2>1. Plan(call[d].job)' = Plan(call'[d].job)
    BY PlanUnchanged DEF module
  <2>2. CASE d = c
    <3>. DEFINE plan == Plan(r2.job)
    <3>1. call'[d] = r2
      BY <1>1, <2>2
    <3>2. r2.n = 1 /\ r2.i = 1 /\ r2.seen = << >>
      BY <1>2, <3>1 DEF Reading
    <3>3. Remembers(sio, high, r2, plan)
      <4>. HIDE DEF plan
      <4>. QED  BY <3>2 DEF Remembers, Facing
    <3>. QED  BY <2>1, <3>1, <3>3
  <2>3. CASE d # c
    <3>1. call'[d] = call[d]
      BY <1>1, <2>3
    <3>. QED  BY <1>2, <2>1, <3>1 DEF ShowInv
  <2>. QED  BY <2>2, <2>3
<1>3. (Refusing(board) /\ Clean(board))' => Stray(chip, high)' = {}
  BY DEF ShowInv, module, Clean, Stray, Refusing
<1>. QED  BY <1>2, <1>3 DEF ShowInv

(* Stores set no bit of the "use as GPIO" registers but those of ports.    *)
LEMMA StaysClean ==
  ASSUME FilesOnly, IInv, UNCHANGED module, NEW c \in Caller, Inside(c),
         Stray(chip, high) = {},
         \A h \in (high \ high') \cup (high' \ high) : <<h, h \in high'>> \in Asked(call[c].job)
  PROVE  Stray(chip, high') = {}
<1>. DEFINE job == call[c].job
<1>1. call[c] # Idle
  BY DEF Inside, Idle
<1>2. chip \in Chip /\ job \in Job
  BY <1>1, JobOfCall DEF IInv, StateOK
<1>. HIDE DEF job
<1>3. ASSUME NEW x \in Stray(chip, high')
      PROVE  FALSE
  <2>1. /\ x \in high' /\ x[2] = GPIO_USE_SEL
        /\ \A p \in Ports(chip) : ~ (x[1] = Select(chip)[p][1] /\ x[3] = Select(chip)[p][2])
    BY DEF Stray
  <2>2. x \notin high
    BY DEF Stray
  <2>3. \E v : <<x, v>> \in Asked(job)
    BY <2>1, <2>2, Zenon DEF job
  <2>4. job \in Stores /\ job.port \in Ports(chip)
    BY <1>2, <2>3, PlanOfShow DEF Asked, Job, Stores
  <2>5. x = BitOf(job.field, job.port, job.bit)
    BY <2>3, <2>4 DEF Asked, Stores
  <2>6. CASE job.field = "select"
    BY <2>1, <2>4, <2>5, <2>6 DEF BitOf
  <2>7. CASE job.field \in Field
    <3>1. job.field # "select"
      BY <2>7 DEF Field
    <3>2. x[2] = Base(chip)[job.port] + Offset[job.field]
      BY <2>5, <3>1 DEF BitOf, SetRegister
    <3>. QED  BY <1>2, <2>1, <2>4, <2>7, <3>2, Registers
  <2>. QED  BY <2>4, <2>6, <2>7 DEF Stores
<1>. QED  BY <1>3

LEMMA NextShow ==
  ASSUME FilesOnly, IInv, ShowInv, [Next]_vars
  PROVE  ShowInv'
<1>0. IInv'
  BY NextIInv
<1>1. CASE UNCHANGED vars
  <2>1. \A d \in Caller : Plan(call[d].job)' = Plan(call[d].job)
    BY <1>1, PlanUnchanged DEF vars
  <2>2. /\ Clean(board)' <=> Clean(board)
        /\ Refusing(board)' <=> Refusing(board)
    BY <1>1 DEF vars, Clean, Stray, Refusing
  <2>. QED  BY <1>1, <2>1, <2>2 DEF vars, ShowInv, Stray
<1>2. ASSUME NEW c \in Caller, Address(c) \/ Device(c) \/ Inb(c) \/ Outb(c)
      PROVE  ShowInv'
  <2>1. Inside(c) /\ UNCHANGED <<module, owner>>
    BY <1>2, PortInstruction
  <2>2. PICK seen2 : Instruction(Now(c), call[c].i, call[c].seen, seen2) /\ Advance(c, seen2)
    BY <1>2, PortInstruction
  <2>3. call'[c].job = call[c].job
    BY <2>2, Doing, <2>1 DEF Advance, IInv, Call
  <2>4. ASSUME NEW d \in Caller, Reading(call'[d])
        PROVE  Remembers(sio', high', call'[d], Plan(call[d].job)')
    <3>1. Plan(call[d].job)' = Plan(call'[d].job)
      BY <2>1, PlanUnchanged DEF module
    <3>2. d = c
      <4>1. owner = c
        BY <2>1, Doing
      <4>2. owner' = d
        BY <1>0, <2>4 DEF IInv, Reading
      <4>. QED  BY <2>1, <4>1, <4>2
    <3>. QED  BY <2>1, <2>2, <2>3, <2>4, <3>1, <3>2, ShowInstruction DEF Reading
  <2>5. (Refusing(board) /\ Clean(board))' => Stray(chip, high)' = {}
    <3>1. Refusing(board) =>
            \A h \in (high \ high') \cup (high' \ high) : <<h, h \in high'>> \in Asked(call[c].job)
      BY <1>2, PortSteps, Refused
    <3>2. Refusing(board) /\ Clean(board) => Stray(chip, high') = {}
      BY <2>1, <3>1, StaysClean DEF ShowInv
    <3>3. (Refusing(board) /\ Clean(board))' <=> Refusing(board) /\ Clean(board)
      BY <2>1 DEF module, Clean, Stray, Refusing
    <3>4. Stray(chip, high)' = Stray(chip, high')
      BY <2>1 DEF module, Stray
    <3>. QED  BY <3>2, <3>3, <3>4
  <2>. QED  BY <2>4, <2>5 DEF ShowInv
<1>3. ASSUME NEW c \in Caller, Begin(c) PROVE ShowInv'
  <2>1. PICK job \in Jobs(board, c) :
          call' = [call EXCEPT ![c] = IF Locks(job) THEN Asking(job, Tries) ELSE Enter(job, Left(job))]
    BY <1>3 DEF Begin
  <2>. DEFINE r2 == IF Locks(job) THEN Asking(job, Tries) ELSE Enter(job, Left(job))
  <2>2. r2.n = 1 /\ r2.i = 1 /\ r2.seen = << >>
    BY DEF Asking, Enter, Calling
  <2>3. call' = [call EXCEPT ![c] = r2] /\ UNCHANGED <<module, sio, high>>
    BY <1>3, <2>1 DEF Begin
  <2>. HIDE DEF r2
  <2>. QED  BY <2>2, <2>3, ShowOutside
<1>4. ASSUME NEW c \in Caller, Take(c) PROVE ShowInv'
  <2>. DEFINE r2 == Enter(call[c].job, call[c].left)
  <2>1. r2.n = 1 /\ r2.i = 1 /\ r2.seen = << >>
    BY DEF Enter, Calling
  <2>2. call' = [call EXCEPT ![c] = r2] /\ UNCHANGED <<module, sio, high>>
    BY <1>4 DEF Take
  <2>. HIDE DEF r2
  <2>. QED  BY <2>1, <2>2, ShowOutside
<1>5. ASSUME NEW c \in Caller, Retry(c) PROVE ShowInv'
  <2>. DEFINE left == call[c].left - 1
              r2 == IF left > 0 THEN Asking(call[c].job, left) ELSE AfterFailure(call[c].job)
  <2>1. r2.phase = "inside" => r2.n = 1 /\ r2.i = 1 /\ r2.seen = << >>
    BY DEF Asking, AfterFailure, Enter, Calling, Idle
  <2>2. call' = [call EXCEPT ![c] = r2] /\ UNCHANGED <<module, sio, high>>
    BY <1>5 DEF Retry
  <2>. HIDE DEF r2
  <2>. QED  BY <2>1, <2>2, ShowOutside
<1>6. ASSUME NEW c \in Caller, Return(c) PROVE ShowInv'
  <2>1. call' = [call EXCEPT ![c] = Idle] /\ UNCHANGED <<module, sio, high>>
    BY <1>6 DEF Return
  <2>2. Idle.phase # "inside"
    BY DEF Idle
  <2>. QED  BY <2>1, <2>2, ShowOutside
<1>. QED  BY <1>1, <1>2, <1>3, <1>4, <1>5, <1>6, NoOtherStep DEF Next, Step

LEMMA InitShow == FilesOnly /\ Init => ShowInv
<1>. SUFFICES ASSUME FilesOnly, Init PROVE ShowInv
  OBVIOUS
<1>1. \A c \in Caller : ~ Reading(call[c])
  BY DEF Init, Idle, Reading
<1>2. chip = board.name /\ high \in Contents(board)
  BY DEF Init, FilesOnly
<1>. QED  BY <1>1, <1>2 DEF ShowInv, Clean

(* Whoever shows a file, while others store: what it lists for a port when *)
(* it is done is what the registers hold that the setters write, wherever  *)
(* the chip's tables agree.  (The show functions, the getters and setters, *)
(* request_io_port.)                                                       *)
THEOREM FilesShowWhatWasSet ==
  ASSUME FilesOnly, Agreeing
  PROVE  Spec => []ShowsWhatWasSet
<1>1. ASSUME IInv, ShowInv PROVE ShowsWhatWasSet
  <2>. SUFFICES ASSUME NEW c \in Caller, Done(c), call[c].job.op = "show"
                PROVE  IF call[c].job.field = "select"
                       THEN Reported(chip, call[c].seen)
                              = {p \in Ports(chip) : BitOf("select", p, 0) \in high}
                       ELSE \A n \in DOMAIN ListedPorts(chip) :
                              LET r == SetRegister(chip, call[c].job.field, ListedPorts(chip)[n])
                              IN  ListedPorts(chip)[n] \in Ports(chip)
                                    => call[c].seen[n] = Bits(r[1], r[2])
    BY DEF ShowsWhatWasSet
  <2>. DEFINE job  == call[c].job
              seen == call[c].seen
              plan == Plan(job)
  <2>1. call[c].phase = "inside" /\ call[c] # Idle
    BY DEF Done, Idle
  <2>2. /\ call[c] \in Call /\ job \in Job /\ Todo(c) = plan /\ plan \in Seq(Access)
        /\ job \in Jobs(board, c) /\ call[c].n <= Len(plan) + 1 /\ call[c].n > Len(plan)
    BY <1>1, <2>1, JobOfCall DEF IInv, CallOK, Done
  <2>3. chip \in Chip /\ board \in Hardware /\ chip = board.name
    BY <1>1 DEF IInv, StateOK
  <2>4. job \in Shows /\ job.field \in Field \cup {"select"} /\ job.op = "show"
    BY <2>2 DEF Job, Stores, Shows
  <2>5. Remembers(sio, high, call[c], plan)
    BY <1>1, <2>1 DEF ShowInv, Reading
  <2>6. \A k \in 1 .. Len(plan) : plan[k] \in Reads =>
          seen[k] = {b \in Bit : <<plan[k].ld, plan[k].reg, b>> \in high}
    <3>1. Len(seen) = Len(plan)
      <4>1. call[c].n \in Nat /\ Len(plan) \in Nat
        BY <2>2 DEF Call
      <4>. HIDE DEF plan
      <4>. QED  BY <2>2, <2>5, <4>1 DEF Remembers
    <3>. QED  BY <2>5, <3>1 DEF Remembers
  <2>7. Agree(board, job.field)
    BY <2>2, <2>3, <2>4 DEF Agreeing
  <2>8. CASE job.field = "select"
    <3>. DEFINE asks == SelectAsks(chip)
                ld(n) == GetSelect(chip)[asks[n]]
    <3>1. plan = [n \in DOMAIN asks |-> Read(ld(n), GPIO_USE_SEL)]
      BY <2>4, <2>8 DEF Plan, Accesses
    <3>2. Len(plan) \in Nat /\ DOMAIN plan = 1 .. Len(plan)
      BY <2>2
    <3>. HIDE DEF plan, seen, job
    <3>3. ASSUME NEW n \in DOMAIN asks
          PROVE  seen[n] = {b \in Bit : <<ld(n), GPIO_USE_SEL, b>> \in high}
      <4>1. plan[n] = Read(ld(n), GPIO_USE_SEL) /\ n \in 1 .. Len(plan)
        BY <3>1, <3>2
      <4>2. ld(n) \in LogicalDevice
        BY <2>3, SelectFile, GetTables
      <4>. HIDE DEF ld
      <4>3. plan[n] \in Reads /\ plan[n].ld = ld(n) /\ plan[n].reg = GPIO_USE_SEL
        BY <4>1, <4>2 DEF Read, Reads, Register
      <4>. QED  BY <2>6, <4>1, <4>3
    <3>4. \/ chip \in {"NCT6775F", "NCT6776F", "NCT6779D"}
          \/ chip \in {"NCT5581D", "NCT6116D"} /\ Stray(chip, high) = {}
      BY <1>1, <2>3, <2>7, <2>8 DEF Agree, ShowInv, Refusing
    <3>5. Reported(chip, seen) =
            {p \in Ports(chip) : <<Select(chip)[p][1], GPIO_USE_SEL, Select(chip)[p][2]>> \in high}
      <4>1. \A n \in DOMAIN SelectAsks(chip) :
              seen[n] = Selected(high, GetSelect(chip)[SelectAsks(chip)[n]])
        BY <3>3 DEF Selected
      <4>2. Reported(chip, seen) = Chosen(chip, high)
        BY <2>3, <3>4, <4>1, SameSelection
      <4>. QED  BY <4>2 DEF Chosen
    <3>. QED  BY <2>8, <3>5 DEF BitOf, seen, job
  <2>9. CASE job.field \in Field
    <3>0. job.field # "select"
      BY <2>9 DEF Field
    <3>. DEFINE list == ListedPorts(chip)
    <3>1. plan = [n \in DOMAIN list |-> Get(job.field, list[n])]
      BY <2>4, <3>0 DEF Plan, Accesses
    <3>2. Len(plan) \in Nat /\ DOMAIN plan = 1 .. Len(plan)
      BY <2>2
    <3>. HIDE DEF plan, seen, job
    <3>3. ASSUME NEW n \in DOMAIN list, list[n] \in Ports(chip)
          PROVE  LET r == SetRegister(chip, job.field, list[n])
                 IN  seen[n] = Bits(r[1], r[2])
      <4>. DEFINE r == SetRegister(chip, job.field, list[n])
      <4>1. plan[n] = Get(job.field, list[n]) /\ n \in 1 .. Len(plan)
        BY <3>1, <3>2
      <4>2. GetRegister(chip, job.field, list[n]) = r
        BY <2>3, <2>7, <2>9, <3>3, SameRegister DEF Agree
      <4>3. plan[n] = Read(r[1], r[2])
        BY <3>3, <4>1, <4>2 DEF Get
      <4>4. r[1] \in LogicalDevice /\ r[2] \in Register
        BY <2>3, <2>9, <3>3, SetTables, Registers DEF SetRegister
      <4>. HIDE DEF r
      <4>5. plan[n] \in Reads /\ plan[n].ld = r[1] /\ plan[n].reg = r[2]
        BY <4>3, <4>4 DEF Read, Reads
      <4>6. seen[n] = Bits(r[1], r[2])
        BY <2>6, <4>1, <4>5 DEF Bits
      <4>. QED  BY <4>6 DEF r
    <3>. QED  BY <3>0, <3>3 DEF seen, job
  <2>. QED  BY <2>4, <2>8, <2>9
<1>2. Init => IInv /\ ShowInv
  BY InitIInv, InitShow
<1>3. IInv /\ ShowInv /\ [Next]_vars => IInv' /\ ShowInv'
  BY NextIInv, NextShow
<1>. QED  BY <1>1, <1>2, <1>3, PTL DEF Spec

-----------------------------------------------------------------------------
(* Loading the module, among callers who do anything the driver offers.    *)

(* What the chip answers when it is asked for its device id and for the    *)
(* port of its hardware monitor, and the monitor's enable register.        *)
Id1(b)   == Binary(b.id \div 16)
Id2(b)   == Binary(16 * (b.id % 16))
Port1(b) == Binary(b.hwm \div 256)
Port2(b) == Binary(b.hwm % 256)
Monitor(h) == {b \in Bit : <<HWM, ENABLE, b>> \in h}

LEMMA ByteNumber == \A n \in Byte : Number(Binary(n)) = n
<1>. SUFFICES ASSUME NEW n \in Byte PROVE Number(Binary(n)) = n
  OBVIOUS
<1>. DEFINE d(b) == IF (n \div 2 ^ b) % 2 = 1 THEN 1 ELSE 0
<1>1. Number(Binary(n)) =
        d(0) + 2 * d(1) + 4 * d(2) + 8 * d(3) + 16 * d(4) + 32 * d(5) + 64 * d(6) + 128 * d(7)
  <2>1. \A b \in Bit : b \in Binary(n) <=> (n \div 2 ^ b) % 2 = 1
    BY DEF Binary
  <2>. QED  BY <2>1 DEF Number, Bit
<1>2. /\ 2 ^ 0 = 1 /\ 2 ^ 1 = 2 /\ 2 ^ 2 = 4 /\ 2 ^ 3 = 8
      /\ 2 ^ 4 = 16 /\ 2 ^ 5 = 32 /\ 2 ^ 6 = 64 /\ 2 ^ 7 = 128
  OBVIOUS
<1>3. /\ d(0) = n % 2          /\ d(1) = (n \div 2) % 2  /\ d(2) = (n \div 4) % 2
      /\ d(3) = (n \div 8) % 2 /\ d(4) = (n \div 16) % 2 /\ d(5) = (n \div 32) % 2
      /\ d(6) = (n \div 64) % 2 /\ d(7) = (n \div 128) % 2
  BY <1>2 DEF Byte
<1>4. n = (n % 2) + 2 * ((n \div 2) % 2) + 4 * ((n \div 4) % 2) + 8 * ((n \div 8) % 2)
          + 16 * ((n \div 16) % 2) + 32 * ((n \div 32) % 2) + 64 * ((n \div 64) % 2)
          + 128 * ((n \div 128) % 2)
  BY SMTT(60) DEF Byte
<1>. HIDE DEF d
<1>. QED  BY <1>1, <1>3, <1>4

LEMMA Ranges ==
  /\ \A x \in DeviceNumber : x \in Int /\ 0 <= x /\ x <= 4095
  /\ \A x \in Word : x \in Int /\ 0 <= x /\ x <= 65535
<1>1. \A x \in DeviceNumber : x \in Int /\ 0 <= x /\ x <= 4095
  BY DEF DeviceNumber
<1>2. \A x \in Word : x \in Int /\ 0 <= x /\ x <= 65535
  BY SMTT(30) DEF Word
<1>. QED  BY <1>1, <1>2

(* A device number in two bytes, the second in its upper half; a word in   *)
(* two bytes.                                                              *)
LEMMA Digits ==
  /\ \A x \in DeviceNumber : \A q, r \in Int : q = x \div 16 /\ r = x % 16 =>
       x = 16 * q + r /\ q \in Byte /\ 16 * r \in Byte /\ (16 * r) \div 16 = r
  /\ \A x \in Word : \A q, r \in Int : q = x \div 256 /\ r = x % 256 =>
       x = 256 * q + r /\ q \in Byte /\ r \in Byte
<1>1. \A x, q, r \in Int : 0 <= x /\ x <= 4095 /\ q = x \div 16 /\ r = x % 16 =>
        x = 16 * q + r /\ q \in Byte /\ 16 * r \in Byte /\ (16 * r) \div 16 = r
  BY DEF Byte
<1>2. \A x, q, r \in Int : 0 <= x /\ x <= 65535 /\ q = x \div 256 /\ r = x % 256 =>
        x = 256 * q + r /\ q \in Byte /\ r \in Byte
  BY DEF Byte
<1>. QED  BY <1>1, <1>2, Ranges

LEMMA Answers ==
  ASSUME NEW b \in Board, NEW seen, seen[1] = Id1(b), seen[2] = Id2(b)
  PROVE  /\ DeviceId(seen) = b.id
         /\ seen[3] = Port1(b) /\ seen[4] = Port2(b) => HwmPort(seen) = b.hwm \div 8
<1>1. b.id \in DeviceNumber /\ b.hwm \in Word
  BY DEF Board
<1>2. b.id \in Int /\ b.hwm \in Int
  BY <1>1, Ranges
<1>3. DeviceId(seen) = b.id
  <2>. DEFINE q == b.id \div 16
              r == b.id % 16
  <2>1. q \in Int /\ r \in Int
    BY <1>2
  <2>2. b.id = 16 * q + r /\ q \in Byte /\ 16 * r \in Byte /\ (16 * r) \div 16 = r
    BY <1>1, <2>1, Digits
  <2>3. Number(seen[1]) = q /\ Number(seen[2]) = 16 * r
    BY <2>2, ByteNumber DEF Id1, Id2
  <2>. HIDE DEF q, r
  <2>. QED  BY <2>1, <2>2, <2>3 DEF DeviceId
<1>4. ASSUME seen[3] = Port1(b), seen[4] = Port2(b)
      PROVE  HwmPort(seen) = b.hwm \div 8
  <2>. DEFINE q == b.hwm \div 256
              r == b.hwm % 256
  <2>1. q \in Int /\ r \in Int
    BY <1>2
  <2>2. b.hwm = 256 * q + r /\ q \in Byte /\ r \in Byte
    BY <1>1, <2>1, Digits
  <2>3. Number(seen[3]) = q /\ Number(seen[4]) = r
    BY <1>4, <2>2, ByteNumber DEF Port1, Port2
  <2>. HIDE DEF q, r
  <2>. QED  BY <2>1, <2>2, <2>3 DEF HwmPort
<1>. QED  BY <1>3, <1>4

(* The front end, as far as every instruction keeps it.                    *)
FrontOK(f) ==
  DOMAIN f = {"ext", "keys", "index", "device"} /\ f.ext \in BOOLEAN /\ f.keys \in 0 .. 1

Opening(f, i) ==
  /\ i = 2 => f.ext \/ f.keys = 1
  /\ i >= 3 => f.ext

(* Where somebody who loads the module is in its script, and what it has   *)
(* been answered: the device id, then, for D42, the port of the hardware   *)
(* monitor, and, if there is one, the monitor's enable register, which is  *)
(* set in the end.                                                         *)
Wide(b) == b.id = D42 /\ b.hwm >= 8

AskingId(b, f, r) ==
  /\ r.n = 1
  /\ \/ r.i \in {1, 2, 3, 4} /\ r.seen = << >> /\ Opening(f, r.i) /\ (r.i = 4 => f.index = 32)
     \/ r.i \in {5, 6} /\ r.seen = <<Id1(b)>> /\ f.ext /\ (r.i = 6 => f.index = 33)
     \/ r.i = 7 /\ r.seen = <<Id1(b), Id2(b)>>

AskingPort(b, f, r) ==
  /\ r.n = 2
  /\ \/ r.i = 1 /\ r.seen = <<Id1(b), Id2(b)>>
     \/ /\ b.id = D42 /\ r.i \in {2, 3, 4, 5, 6} /\ r.seen = <<Id1(b), Id2(b)>>
        /\ Opening(f, r.i)
        /\ r.i = 4 => f.index = CR7
        /\ r.i >= 5 => f.device = HWM
        /\ r.i = 6 => f.index = 96
     \/ /\ b.id = D42 /\ r.i \in {7, 8} /\ r.seen = <<Id1(b), Id2(b), Port1(b)>>
        /\ f.ext /\ f.device = HWM /\ (r.i = 8 => f.index = 97)

AskingMonitor(b, f, r) ==
  /\ b.id = D42 /\ r.seen = <<Id1(b), Id2(b), Port1(b), Port2(b)>>
  /\ \/ ~ Wide(b) /\ r.n \in {3, 4} /\ r.i = 1
     \/ /\ Wide(b) /\ r.n = 3 /\ r.i \in {1, 2}
        /\ f.ext /\ f.device = HWM /\ (r.i = 2 => f.index = ENABLE)

Enabling(b, f, h, r) ==
  /\ Wide(b)
  /\ \E e : /\ r.seen = <<Id1(b), Id2(b), Port1(b), Port2(b), e>>
            /\ \/ /\ r.n = 4 /\ r.i \in {1, 2} /\ e = Monitor(h)
                  /\ f.ext /\ f.device = HWM
                  /\ r.i = 2 => f.index = ENABLE /\ 0 \notin e
               \/ r.n = 4 /\ r.i = 3 /\ 0 \notin e /\ 0 \in Monitor(h)
               \/ r.n = 5 /\ r.i = 1 /\ 0 \in Monitor(h)

Finding(b, f, h, r) ==
  \/ AskingId(b, f, r) \/ AskingPort(b, f, r)
  \/ AskingMonitor(b, f, r) \/ Enabling(b, f, h, r)

Entered(r) ==
  /\ DOMAIN r = {"phase", "job", "left", "n", "i", "seen"}
  /\ r.phase \in {"asking", "inside", "matched", "filed", "leaving"}
  /\ r.job.op \in Operations
  /\ r.phase = "asking" => Locks(r.job)
  /\ r.phase \in {"matched", "filed"} => r.job.op = "load"

Loading(r) == r.phase = "inside" /\ r.job.op = "load"

(* Loading is done alone: there are no files yet, and no exported function *)
(* works without a chip.                                                   *)
LoadInv ==
  /\ board \in Hardware /\ FrontOK(sio) /\ DOMAIN call = Caller
  /\ Identified
  /\ chip = NoChip => files = {} /\ \A c \in Caller : call[c] = Idle \/ Loading(call[c])
  /\ \A c \in Caller :
       /\ call[c] = Idle \/ Entered(call[c])
       /\ Loading(call[c]) => chip = NoChip /\ Finding(board, sio, high, call[c])
       /\ call[c].phase = "matched" => chip # NoChip /\ files = {}
       /\ Loading(call[c]) \/ call[c].phase = "matched" =>
            \A d \in Caller \ {c} : call[d] = Idle

-----------------------------------------------------------------------------
(* The front end, one byte at a time.                                      *)
LEMMA KeyFront ==
  ASSUME FrontOK(sio)
  PROVE  /\ FrontOK(KeyByte)
         /\ KeyByte.ext <=> sio.ext \/ sio.keys = 1
         /\ ~ sio.ext /\ sio.keys = 0 => KeyByte.keys = 1
<1>1. DOMAIN KeyByte = {"ext", "keys", "index", "device"}
  BY DEF KeyByte, FrontOK
<1>2. KeyByte.ext = (sio.ext \/ sio.keys = 1)
  BY DEF KeyByte, FrontOK
<1>3. KeyByte.keys = IF sio.ext THEN 0 ELSE 1 - sio.keys
  BY DEF KeyByte, FrontOK
<1>4. KeyByte.ext \in BOOLEAN
  BY <1>2
<1>5. KeyByte.keys \in 0 .. 1 /\ (~ sio.ext /\ sio.keys = 0 => KeyByte.keys = 1)
  BY <1>3 DEF FrontOK
<1>6. FrontOK(KeyByte)
  BY <1>1, <1>4, <1>5 DEF FrontOK
<1>7. KeyByte.ext <=> sio.ext \/ sio.keys = 1
  BY <1>2
<1>. QED  BY <1>5, <1>6, <1>7

LEMMA IndexFront ==
  ASSUME FrontOK(sio), NEW v
  PROVE  /\ FrontOK(IndexByte(v)) /\ IndexByte(v).ext = sio.ext
         /\ IndexByte(v).device = sio.device
         /\ sio.ext => IndexByte(v).index = v
BY DEF IndexByte, FrontOK

LEMMA LeaveFront ==
  ASSUME FrontOK(sio)
  PROVE  FrontOK(LeaveByte)
BY DEF LeaveByte, FrontOK

LEMMA DeviceFront ==
  ASSUME FrontOK(sio), NEW v
  PROVE  LET f == [sio EXCEPT !.device = v]
         IN  FrontOK(f) /\ f.ext = sio.ext /\ f.device = v
BY DEF FrontOK

LEMMA OutFront ==
  ASSUME FrontOK(sio), NEW bits, DataOut(bits)
  PROVE  FrontOK(sio')
BY DeviceFront DEF DataOut

(* An instruction of any access, and what has been read then.              *)
Performs(a, i, seen, seen2) ==
  \/ /\ \/ Code(a)[i] = "key"   /\ sio' = KeyByte
        \/ Code(a)[i] = "cr7"   /\ sio' = IndexByte(CR7)
        \/ Code(a)[i] = "index" /\ sio' = IndexByte(a.reg)
        \/ Code(a)[i] = "next"  /\ sio' = IndexByte(a.reg + 1)
        \/ Code(a)[i] = "leave" /\ sio' = LeaveByte
     /\ high' = high /\ seen2 = seen
  \/ Code(a)[i] = "device" /\ DataOut(Binary(a.ld)) /\ seen2 = seen
  \/ Code(a)[i] = "in" /\ seen2 = Append(seen, DataIn) /\ UNCHANGED <<sio, high>>
  \/ Code(a)[i] = "out" /\ DataOut(Changed(a, seen[Len(seen)])) /\ seen2 = seen

PortAction(c) == Address(c) \/ Device(c) \/ Inb(c) \/ Outb(c)

LEMMA Performing ==
  ASSUME NEW c \in Caller, PortAction(c)
  PROVE  /\ Inside(c) /\ UNCHANGED <<module, owner>>
         /\ \E seen2 : Performs(Now(c), call[c].i, call[c].seen, seen2) /\ Advance(c, seen2)
<1>1. CASE Address(c)
  BY <1>1 DEF Address, Performs, Instr
<1>2. CASE Device(c)
  BY <1>2 DEF Device, Performs, Instr
<1>3. CASE Inb(c)
  BY <1>3 DEF Inb, Performs, Instr
<1>4. CASE Outb(c)
  BY <1>4 DEF Outb, Performs, Instr
<1>. QED  BY <1>1, <1>2, <1>3, <1>4 DEF PortAction

(* What it does to whoever performs it, and to the front end.              *)
LEMMA Advancing ==
  ASSUME NEW c \in Caller, DOMAIN call = Caller, call[c] = Idle \/ Entered(call[c]),
         Inside(c), NEW seen2, Advance(c, seen2), FrontOK(sio),
         Performs(Now(c), call[c].i, call[c].seen, seen2)
  PROVE  LET r  == call[c]
             r2 == call'[c]
             l  == Len(Code(Now(c)))
         IN  /\ Entered(r2) /\ r2.phase = "inside" /\ r2.job = r.job
             /\ r.i < l => r2.n = r.n /\ r2.i = r.i + 1 /\ r2.seen = seen2
             /\ ~ (r.i < l) => /\ r2.n = r.n + 1 /\ r2.i = 1
                               /\ Now(c).kind # "absent" => r2.seen = seen2
             /\ DOMAIN call' = Caller /\ \A d \in Caller : d # c => call'[d] = call[d]
             /\ FrontOK(sio')
<1>. DEFINE r  == call[c]
            r2 == call'[c]
            l  == Len(Code(Now(c)))
            s == IF Now(c).kind = "absent" THEN Append(r.seen, Bit) ELSE seen2
<1>1. Entered(r) /\ r.phase = "inside"
  BY DEF Inside, Idle
<1>2. /\ r2 = IF r.i < l THEN [r EXCEPT !.i = r.i + 1, !.seen = seen2]
                         ELSE [r EXCEPT !.i = 1, !.n = r.n + 1, !.seen = s]
      /\ DOMAIN call' = Caller /\ \A d \in Caller : d # c => call'[d] = call[d]
  BY DEF Advance
<1>3. FrontOK(sio')
  BY KeyFront, IndexFront, LeaveFront, OutFront DEF Performs
<1>. HIDE DEF r, r2, l
<1>4. CASE r.i < l
  <2>1. /\ DOMAIN r2 = DOMAIN r /\ r2.phase = r.phase /\ r2.job = r.job
        /\ r2.n = r.n /\ r2.i = r.i + 1 /\ r2.seen = seen2
    BY <1>1, <1>2, <1>4 DEF Entered
  <2>2. Entered(r2)
    BY <1>1, <2>1 DEF Entered
  <2>. QED  BY <1>1, <1>2, <1>3, <1>4, <2>1, <2>2 DEF r, r2, l
<1>5. CASE ~ (r.i < l)
  <2>1. /\ DOMAIN r2 = DOMAIN r /\ r2.phase = r.phase /\ r2.job = r.job
        /\ r2.n = r.n + 1 /\ r2.i = 1 /\ r2.seen = s
    BY <1>1, <1>2, <1>5 DEF Entered
  <2>2. Entered(r2)
    BY <1>1, <2>1 DEF Entered
  <2>. QED  BY <1>1, <1>2, <1>3, <1>5, <2>1, <2>2 DEF r, r2, l
<1>. QED  BY <1>4, <1>5

-----------------------------------------------------------------------------
(* t is s with v at its end.                                               *)
Longer(s, t, v) ==
  /\ Len(t) = Len(s) + 1 /\ t[Len(s) + 1] = v
  /\ \A i \in 1 .. Len(s) : t[i] = s[i]

LEMMA OneLonger ==
  ASSUME NEW S, NEW s \in Seq(S), NEW t \in Seq(S), NEW v \in S, Longer(s, t, v)
  PROVE  s \o <<v>> = t /\ Append(s, v) = t
<1>1. Len(s) \in Nat /\ Len(Append(s, v)) = Len(t)
  BY AppendProperties DEF Longer
<1>2. \A i \in 1 .. Len(t) : Append(s, v)[i] = t[i]
  BY <1>1, AppendProperties DEF Longer
<1>3. Append(s, v) \in Seq(S)
  BY AppendProperties
<1>4. Append(s, v) = t
  BY <1>1, <1>2, <1>3, SeqEqual
<1>. QED  BY <1>4, AppendIsConcat

LEMMA Joined ==
  /\ \A w : <<w>> \o << >> \o << >> \o << >> = <<w>>
  /\ \A w, x : <<w>> \o <<x>> \o << >> \o << >> = <<w, x>>
  /\ \A w, x, y : <<w>> \o <<x>> \o <<y>> \o << >> = <<w, x, y>>
  /\ \A w, x, y, z : <<w>> \o <<x>> \o <<y>> \o <<z>> = <<w, x, y, z>>
<1>. DEFINE Ok(w, x, y, z) ==
              /\ <<w>> \o << >> \o << >> \o << >> = <<w>>
              /\ <<w>> \o <<x>> \o << >> \o << >> = <<w, x>>
              /\ <<w>> \o <<x>> \o <<y>> \o << >> = <<w, x, y>>
              /\ <<w>> \o <<x>> \o <<y>> \o <<z>> = <<w, x, y, z>>
<1>1. ASSUME NEW w, NEW x, NEW y, NEW z PROVE Ok(w, x, y, z)
  <2>. DEFINE S  == {w, x, y, z}
              s1 == <<w>>
              s2 == <<w, x>>
              s3 == <<w, x, y>>
              s4 == <<w, x, y, z>>
  <2>1. s1 \in Seq(S) /\ s2 \in Seq(S) /\ s3 \in Seq(S) /\ s4 \in Seq(S)
    OBVIOUS
  <2>2. x \in S /\ y \in S /\ z \in S
    OBVIOUS
  <2>3. Len(s1) = 1 /\ Len(s2) = 2 /\ Len(s3) = 3 /\ Len(s4) = 4
    OBVIOUS
  <2>4. /\ s2[1] = s1[1] /\ s2[2] = x
        /\ s3[1] = s2[1] /\ s3[2] = s2[2] /\ s3[3] = y
        /\ s4[1] = s3[1] /\ s4[2] = s3[2] /\ s4[3] = s3[3] /\ s4[4] = z
    OBVIOUS
  <2>. HIDE DEF S, s1, s2, s3, s4
  <2>6. Longer(s1, s2, x) /\ Longer(s2, s3, y) /\ Longer(s3, s4, z)
    BY <2>3, <2>4 DEF Longer
  <2>7. s1 \o <<x>> = s2 /\ s2 \o <<y>> = s3 /\ s3 \o <<z>> = s4
    BY <2>1, <2>2, <2>6, OneLonger
  <2>8. s1 \o << >> = s1 /\ s2 \o << >> = s2 /\ s3 \o << >> = s3
    BY <2>1, ConcatEmptySeq
  <2>. QED  BY <2>7, <2>8, Zenon DEF s1, s2, s3, s4
<1>2. \A w, x, y, z : Ok(w, x, y, z)
  <2>. HIDE DEF Ok
  <2>. QED  BY <1>1
<1>3. \A w : <<w>> \o << >> \o << >> \o << >> = <<w>>
  BY <1>2, Zenon
<1>4. \A w, x : <<w>> \o <<x>> \o << >> \o << >> = <<w, x>>
  BY <1>2, Zenon
<1>5. \A w, x, y : <<w>> \o <<x>> \o <<y>> \o << >> = <<w, x, y>>
  BY <1>2, Zenon
<1>6. \A w, x, y, z : <<w>> \o <<x>> \o <<y>> \o <<z>> = <<w, x, y, z>>
  BY <1>2, Zenon
<1>. QED  BY <1>3, <1>4, <1>5, <1>6, Zenon

(* The script of loading, by what has been answered.                       *)
LEMMA Scripts ==
  ASSUME NEW b \in Board
  PROVE  /\ Identification(<< >>) = <<Ident>>
         /\ Identification(<<Id1(b)>>) = <<Ident>>
         /\ Identification(<<Id1(b), Id2(b)>>)
              = IF b.id = D42 THEN <<Ident, HwmBase>> ELSE <<Ident>>
         /\ b.id = D42 => Identification(<<Id1(b), Id2(b), Port1(b)>>) = <<Ident, HwmBase>>
         /\ b.id = D42 => Identification(<<Id1(b), Id2(b), Port1(b), Port2(b)>>)
                            = <<Ident, HwmBase, IF Wide(b) THEN Peek ELSE Shut>>
         /\ Wide(b) => \A e : Identification(<<Id1(b), Id2(b), Port1(b), Port2(b), e>>)
                            = <<Ident, HwmBase, Peek, IF 0 \in e THEN Shut ELSE Enable>>
<1>1. Identification(<< >>) = <<Ident>> /\ Identification(<<Id1(b)>>) = <<Ident>>
  BY DEF Identification
<1>2. Identification(<<Id1(b), Id2(b)>>) = IF b.id = D42 THEN <<Ident, HwmBase>> ELSE <<Ident>>
  <2>. DEFINE seen == <<Id1(b), Id2(b)>>
  <2>1. DeviceId(seen) = b.id /\ Len(seen) = 2
    BY Answers
  <2>. HIDE DEF seen
  <2>2. Identification(seen) = <<Ident>> \o (IF b.id = D42 THEN <<HwmBase>> ELSE << >>)
                               \o << >> \o << >>
    BY <2>1 DEF Identification
  <2>3. Identification(seen) = IF b.id = D42 THEN <<Ident, HwmBase>> ELSE <<Ident>>
    BY <2>2, Joined
  <2>. QED  BY <2>3 DEF seen
<1>3. ASSUME b.id = D42
      PROVE  Identification(<<Id1(b), Id2(b), Port1(b)>>) = <<Ident, HwmBase>>
  <2>. DEFINE seen == <<Id1(b), Id2(b), Port1(b)>>
  <2>1. DeviceId(seen) = D42 /\ Len(seen) = 3
    BY <1>3, Answers
  <2>. HIDE DEF seen
  <2>2. Identification(seen) = <<Ident>> \o <<HwmBase>> \o << >> \o << >>
    BY <2>1 DEF Identification
  <2>3. Identification(seen) = <<Ident, HwmBase>>
    BY <2>2, Joined
  <2>. QED  BY <2>3 DEF seen
<1>4. \A k \in Int : 0 <= k => (k \div 8 = 0 <=> ~ (k >= 8))
  OBVIOUS
<1>5. b.hwm \in Int /\ 0 <= b.hwm
  <2>1. b.hwm \in Word
    BY DEF Board
  <2>. QED  BY <2>1, Ranges
<1>6. ASSUME b.id = D42
      PROVE  Identification(<<Id1(b), Id2(b), Port1(b), Port2(b)>>)
               = <<Ident, HwmBase, IF Wide(b) THEN Peek ELSE Shut>>
  <2>. DEFINE seen == <<Id1(b), Id2(b), Port1(b), Port2(b)>>
  <2>1. DeviceId(seen) = D42 /\ HwmPort(seen) = b.hwm \div 8 /\ Len(seen) = 4
    BY <1>6, Answers
  <2>2. HwmPort(seen) = 0 <=> ~ Wide(b)
    BY <1>4, <1>5, <1>6, <2>1 DEF Wide
  <2>. HIDE DEF seen
  <2>3. Identification(seen) = <<Ident>> \o <<HwmBase>>
                               \o (IF Wide(b) THEN <<Peek>> ELSE <<Shut>>) \o << >>
    BY <2>1, <2>2 DEF Identification
  <2>4. Identification(seen) = <<Ident, HwmBase, IF Wide(b) THEN Peek ELSE Shut>>
    BY <2>3, Joined
  <2>. QED  BY <2>4 DEF seen
<1>7. ASSUME Wide(b), NEW e
      PROVE  Identification(<<Id1(b), Id2(b), Port1(b), Port2(b), e>>)
               = <<Ident, HwmBase, Peek, IF 0 \in e THEN Shut ELSE Enable>>
  <2>. DEFINE seen == <<Id1(b), Id2(b), Port1(b), Port2(b), e>>
  <2>1. /\ DeviceId(seen) = D42 /\ HwmPort(seen) = b.hwm \div 8
        /\ Len(seen) = 5 /\ seen[5] = e
    BY <1>7, Answers DEF Wide
  <2>2. HwmPort(seen) # 0
    BY <1>4, <1>5, <1>7, <2>1 DEF Wide
  <2>. HIDE DEF seen
  <2>3. Identification(seen) = <<Ident>> \o <<HwmBase>> \o <<Peek>>
                               \o (IF 0 \in e THEN <<Shut>> ELSE <<Enable>>)
    BY <2>1, <2>2 DEF Identification
  <2>4. Identification(seen) = <<Ident, HwmBase, Peek, IF 0 \in e THEN Shut ELSE Enable>>
    <3>. DEFINE last == IF 0 \in e THEN Shut ELSE Enable
    <3>1. Identification(seen) = <<Ident>> \o <<HwmBase>> \o <<Peek>> \o <<last>>
      BY <2>3
    <3>. HIDE DEF last, Ident, HwmBase, Peek
    <3>2. <<Ident>> \o <<HwmBase>> \o <<Peek>> \o <<last>> = <<Ident, HwmBase, Peek, last>>
      BY Joined, Zenon
    <3>. QED  BY <3>1, <3>2 DEF last
  <2>. QED  BY <2>4 DEF seen
<1>. QED  BY <1>1, <1>2, <1>3, <1>6, <1>7

LEMMA LoadCodes ==
  /\ Code(Ident) = <<"key", "key", "index", "in", "next", "in", "leave">>
  /\ Code(HwmBase) = <<"key", "key", "cr7", "device", "index", "in", "next", "in">>
  /\ Code(Peek) = <<"index", "in">>
  /\ Code(Enable) = <<"index", "out", "leave">>
  /\ Code(Shut) = <<"leave">>
BY DEF Code, Ident, HwmBase, Peek, Enable, Shut

LEMMA MonitorDevice == Number(Binary(HWM)) = HWM
BY ByteNumber DEF HWM, Byte

(* What somebody who loads the module has been answered grows by one.      *)
LEMMA Appended ==
  /\ \A w : Append(<< >>, w) = <<w>>
  /\ \A w, x : Append(<<w>>, x) = <<w, x>>
  /\ \A w, x, y : Append(<<w, x>>, y) = <<w, x, y>>
  /\ \A w, x, y, z : Append(<<w, x, y>>, z) = <<w, x, y, z>>
  /\ \A w, x, y, z, v : Append(<<w, x, y, z>>, v) = <<w, x, y, z, v>>
<1>. DEFINE Ok(w, x, y, z, v) ==
              /\ Append(<< >>, w) = <<w>>
              /\ Append(<<w>>, x) = <<w, x>>
              /\ Append(<<w, x>>, y) = <<w, x, y>>
              /\ Append(<<w, x, y>>, z) = <<w, x, y, z>>
              /\ Append(<<w, x, y, z>>, v) = <<w, x, y, z, v>>
<1>1. ASSUME NEW w, NEW x, NEW y, NEW z, NEW v PROVE Ok(w, x, y, z, v)
  <2>. DEFINE S  == {w, x, y, z, v}
              s0 == << >>
              s1 == <<w>>
              s2 == <<w, x>>
              s3 == <<w, x, y>>
              s4 == <<w, x, y, z>>
              s5 == <<w, x, y, z, v>>
  <2>1. /\ s0 \in Seq(S) /\ s1 \in Seq(S) /\ s2 \in Seq(S) /\ s3 \in Seq(S)
        /\ s4 \in Seq(S) /\ s5 \in Seq(S)
    OBVIOUS
  <2>2. w \in S /\ x \in S /\ y \in S /\ z \in S /\ v \in S
    OBVIOUS
  <2>3. /\ Len(s0) = 0 /\ Len(s1) = 1 /\ Len(s2) = 2 /\ Len(s3) = 3
        /\ Len(s4) = 4 /\ Len(s5) = 5
    OBVIOUS
  <2>4. /\ s1[1] = w
        /\ s2[1] = s1[1] /\ s2[2] = x
        /\ s3[1] = s2[1] /\ s3[2] = s2[2] /\ s3[3] = y
        /\ s4[1] = s3[1] /\ s4[2] = s3[2] /\ s4[3] = s3[3] /\ s4[4] = z
    OBVIOUS
  <2>5. s5[1] = s4[1] /\ s5[2] = s4[2] /\ s5[3] = s4[3] /\ s5[4] = s4[4] /\ s5[5] = v
    OBVIOUS
  <2>. HIDE DEF S, s0, s1, s2, s3, s4, s5
  <2>6. /\ Longer(s0, s1, w) /\ Longer(s1, s2, x) /\ Longer(s2, s3, y)
        /\ Longer(s3, s4, z) /\ Longer(s4, s5, v)
    BY <2>3, <2>4, <2>5 DEF Longer
  <2>7. /\ Append(s0, w) = s1 /\ Append(s1, x) = s2 /\ Append(s2, y) = s3
        /\ Append(s3, z) = s4 /\ Append(s4, v) = s5
    BY <2>1, <2>2, <2>6, OneLonger
  <2>. QED  BY <2>7, Zenon DEF s0, s1, s2, s3, s4, s5
<1>2. \A w, x, y, z, v : Ok(w, x, y, z, v)
  <2>. HIDE DEF Ok
  <2>. QED  BY <1>1
<1>3. \A w : Append(<< >>, w) = <<w>>
  BY <1>2, Zenon
<1>4. \A w, x : Append(<<w>>, x) = <<w, x>>
  BY <1>2, Zenon
<1>5. \A w, x, y : Append(<<w, x>>, y) = <<w, x, y>>
  BY <1>2, Zenon
<1>6. \A w, x, y, z : Append(<<w, x, y>>, z) = <<w, x, y, z>>
  BY <1>2, Zenon
<1>7. \A w, x, y, z, v : Append(<<w, x, y, z>>, v) = <<w, x, y, z, v>>
  BY <1>2, Zenon
<1>. QED  BY <1>3, <1>4, <1>5, <1>6, <1>7, Zenon

(* One instruction of access a takes its performer from r to r2.           *)
Steps(a, r, r2) ==
  \E seen : /\ Performs(a, r.i, r.seen, seen)
            /\ IF r.i < Len(Code(a))
                 THEN r2.n = r.n /\ r2.i = r.i + 1 /\ r2.seen = seen
                 ELSE r2.n = r.n + 1 /\ r2.i = 1 /\ (a.kind # "absent" => r2.seen = seen)

(* The device id is read from registers 20h and 21h.                       *)
LEMMA IdStep ==
  ASSUME board \in Board, FrontOK(sio), NEW r, NEW r2, AskingId(board, sio, r),
         r.n <= Len(Identification(r.seen)), Steps(Identification(r.seen)[r.n], r, r2)
  PROVE  AskingId(board, sio', r2) \/ AskingPort(board, sio', r2)
<1>1. Steps(Ident, r, r2) /\ r.n = 1
  <2>1. r.n = 1 /\ r.seen \in {<< >>, <<Id1(board)>>, <<Id1(board), Id2(board)>>}
    BY DEF AskingId
  <2>2. Identification(r.seen) \in {<<Ident>>, <<Ident, HwmBase>>}
    BY <2>1, Scripts
  <2>. QED  BY <2>1, <2>2
<1>2. LET code == Code(Ident)
      IN  /\ code[1] = "key" /\ code[2] = "key" /\ code[3] = "index" /\ code[4] = "in"
          /\ code[5] = "next" /\ code[6] = "in" /\ code[7] = "leave" /\ Len(code) = 7
  BY LoadCodes
<1>3. Ident.kind # "absent" /\ Ident.reg = 32
  BY DEF Ident
<1>. HIDE DEF Ident
<1>4. CASE r.i = 1
  <2>1. r.seen = << >>
    BY <1>4 DEF AskingId
  <2>2. sio' = KeyByte /\ r2.n = 1 /\ r2.i = 2 /\ r2.seen = << >>
    BY <1>1, <1>2, <1>4, <2>1 DEF Steps, Performs
  <2>3. Opening(sio', 2)
    BY <2>2, KeyFront DEF Opening, FrontOK
  <2>. QED  BY <2>2, <2>3 DEF AskingId
<1>5. CASE r.i = 2
  <2>1. r.seen = << >> /\ (sio.ext \/ sio.keys = 1)
    BY <1>5 DEF AskingId, Opening
  <2>2. sio' = KeyByte /\ r2.n = 1 /\ r2.i = 3 /\ r2.seen = << >>
    BY <1>1, <1>2, <1>5, <2>1 DEF Steps, Performs
  <2>3. Opening(sio', 3)
    BY <2>1, <2>2, KeyFront DEF Opening
  <2>. QED  BY <2>2, <2>3 DEF AskingId
<1>6. CASE r.i = 3
  <2>1. r.seen = << >> /\ sio.ext
    BY <1>6 DEF AskingId, Opening
  <2>2. sio' = IndexByte(32) /\ r2.n = 1 /\ r2.i = 4 /\ r2.seen = << >>
    BY <1>1, <1>2, <1>3, <1>6, <2>1 DEF Steps, Performs
  <2>3. Opening(sio', 4) /\ sio'.index = 32
    BY <2>1, <2>2, IndexFront DEF Opening
  <2>. QED  BY <2>2, <2>3 DEF AskingId
<1>7. CASE r.i = 4
  <2>1. r.seen = << >> /\ sio.ext /\ sio.index = 32
    BY <1>7 DEF AskingId, Opening
  <2>2. DataIn = Id1(board)
    BY <2>1 DEF DataIn, Id1, CR7
  <2>3. sio' = sio /\ r2.n = 1 /\ r2.i = 5 /\ r2.seen = Append(<< >>, Id1(board))
    BY <1>1, <1>2, <1>7, <2>1, <2>2 DEF Steps, Performs
  <2>4. r2.seen = <<Id1(board)>>
    BY <2>3, Appended
  <2>. QED  BY <2>1, <2>3, <2>4 DEF AskingId
<1>8. CASE r.i = 5
  <2>1. r.seen = <<Id1(board)>> /\ sio.ext
    BY <1>8 DEF AskingId
  <2>2. sio' = IndexByte(33) /\ r2.n = 1 /\ r2.i = 6 /\ r2.seen = <<Id1(board)>>
    BY <1>1, <1>2, <1>3, <1>8, <2>1 DEF Steps, Performs
  <2>3. sio'.ext /\ sio'.index = 33
    BY <2>1, <2>2, IndexFront
  <2>. QED  BY <2>2, <2>3 DEF AskingId
<1>9. CASE r.i = 6
  <2>1. r.seen = <<Id1(board)>> /\ sio.ext /\ sio.index = 33
    BY <1>9 DEF AskingId
  <2>2. DataIn = Id2(board)
    BY <2>1 DEF DataIn, Id2, CR7
  <2>3. r2.n = 1 /\ r2.i = 7 /\ r2.seen = Append(<<Id1(board)>>, Id2(board))
    BY <1>1, <1>2, <1>9, <2>1, <2>2 DEF Steps, Performs
  <2>4. r2.seen = <<Id1(board), Id2(board)>>
    BY <2>3, Appended
  <2>. QED  BY <2>3, <2>4 DEF AskingId
<1>10. CASE r.i = 7
  <2>1. r.seen = <<Id1(board), Id2(board)>>
    BY <1>10 DEF AskingId
  <2>2. r2.n = 2 /\ r2.i = 1 /\ r2.seen = <<Id1(board), Id2(board)>>
    BY <1>1, <1>2, <1>3, <1>10, <2>1 DEF Steps, Performs
  <2>. QED  BY <2>2 DEF AskingPort
<1>. QED  BY <1>4, <1>5, <1>6, <1>7, <1>8, <1>9, <1>10 DEF AskingId

(* The port of the hardware monitor is read from registers 60h and 61h of  *)
(* its device, on boards that need it.                                     *)
LEMMA PortStep ==
  ASSUME board \in Board, FrontOK(sio), NEW r, NEW r2, AskingPort(board, sio, r),
         r.n <= Len(Identification(r.seen)), Steps(Identification(r.seen)[r.n], r, r2)
  PROVE  AskingPort(board, sio', r2) \/ AskingMonitor(board, sio', r2)
<1>1. r.n = 2 /\ board.id = D42 /\ Identification(r.seen) = <<Ident, HwmBase>>
  <2>1. r.n = 2 /\ (r.i # 1 => board.id = D42)
    BY DEF AskingPort
  <2>2. \/ r.seen = <<Id1(board), Id2(board)>>
        \/ r.seen = <<Id1(board), Id2(board), Port1(board)>> /\ board.id = D42
    BY DEF AskingPort
  <2>3. board.id = D42 => Identification(r.seen) = <<Ident, HwmBase>>
    BY <2>2, Scripts
  <2>4. board.id # D42 => Identification(r.seen) = <<Ident>>
    BY <2>2, Scripts
  <2>5. board.id # D42 => r.n <= 1
    BY <2>4 DEF Steps
  <2>. QED  BY <2>1, <2>3, <2>5
<1>2. r.n = 2 /\ Steps(HwmBase, r, r2)
  BY <1>1
<1>3. LET code == Code(HwmBase)
      IN  /\ code[1] = "key" /\ code[2] = "key" /\ code[3] = "cr7" /\ code[4] = "device"
          /\ code[5] = "index" /\ code[6] = "in" /\ code[7] = "next" /\ code[8] = "in"
          /\ Len(code) = 8
  BY LoadCodes
<1>4. HwmBase.kind # "absent" /\ HwmBase.reg = 96 /\ HwmBase.ld = HWM
  BY DEF HwmBase
<1>. HIDE DEF HwmBase
<1>. DEFINE two   == <<Id1(board), Id2(board)>>
            three == <<Id1(board), Id2(board), Port1(board)>>
            four  == <<Id1(board), Id2(board), Port1(board), Port2(board)>>
<1>5. Append(two, Port1(board)) = three /\ Append(three, Port2(board)) = four
  <2>1. Append(two, Port1(board)) = three
    BY Appended, Zenon
  <2>2. Append(three, Port2(board)) = four
    BY Appended, Zenon
  <2>. QED  BY <2>1, <2>2
<1>6. \/ r.i = 1 /\ r.seen = two
      \/ /\ r.i \in {2, 3, 4, 5, 6} /\ r.seen = two /\ Opening(sio, r.i)
         /\ r.i = 4 => sio.index = CR7
         /\ r.i >= 5 => sio.device = HWM
         /\ r.i = 6 => sio.index = 96
      \/ /\ r.i \in {7, 8} /\ r.seen = three /\ sio.ext /\ sio.device = HWM
         /\ r.i = 8 => sio.index = 97
  BY DEF AskingPort
<1>7. ASSUME \/ r2.i = 1 /\ r2.seen = two
             \/ /\ r2.i \in {2, 3, 4, 5, 6} /\ r2.seen = two /\ Opening(sio', r2.i)
                /\ r2.i = 4 => sio'.index = CR7
                /\ r2.i >= 5 => sio'.device = HWM
                /\ r2.i = 6 => sio'.index = 96
             \/ /\ r2.i \in {7, 8} /\ r2.seen = three /\ sio'.ext /\ sio'.device = HWM
                /\ r2.i = 8 => sio'.index = 97,
             r2.n = 2
      PROVE  AskingPort(board, sio', r2)
  BY <1>1, <1>7 DEF AskingPort
<1>. HIDE DEF two, three, four
<1>8. CASE r.i = 1
  <2>1. sio' = KeyByte /\ r2.n = 2 /\ r2.i = 2 /\ r2.seen = two
    BY <1>2, <1>3, <1>6, <1>8 DEF Steps, Performs
  <2>2. Opening(sio', 2)
    BY <2>1, KeyFront DEF Opening, FrontOK
  <2>. QED  BY <1>7, <2>1, <2>2
<1>9. CASE r.i = 2
  <2>1. sio' = KeyByte /\ r2.n = 2 /\ r2.i = 3 /\ r2.seen = two
    BY <1>2, <1>3, <1>6, <1>9 DEF Steps, Performs
  <2>2. Opening(sio', 3)
    BY <1>6, <1>9, <2>1, KeyFront DEF Opening
  <2>. QED  BY <1>7, <2>1, <2>2
<1>10. CASE r.i = 3
  <2>1. sio' = IndexByte(CR7) /\ r2.n = 2 /\ r2.i = 4 /\ r2.seen = two
    BY <1>2, <1>3, <1>6, <1>10 DEF Steps, Performs
  <2>2. Opening(sio', 4) /\ sio'.index = CR7
    BY <1>6, <1>10, <2>1, IndexFront DEF Opening
  <2>. QED  BY <1>7, <2>1, <2>2
<1>11. CASE r.i = 4
  <2>1. sio.ext /\ sio.index = CR7
    BY <1>6, <1>11 DEF Opening
  <2>2. DataOut(Binary(HWM)) /\ r2.n = 2 /\ r2.i = 5 /\ r2.seen = two
    BY <1>2, <1>3, <1>4, <1>6, <1>11 DEF Steps, Performs
  <2>3. sio' = [sio EXCEPT !.device = HWM]
    BY <2>1, <2>2, MonitorDevice DEF DataOut
  <2>4. Opening(sio', 5) /\ sio'.device = HWM
    BY <2>1, <2>3, DeviceFront DEF Opening
  <2>. QED  BY <1>7, <2>2, <2>4
<1>12. CASE r.i = 5
  <2>1. sio.ext /\ sio.device = HWM /\ r.seen = two
    BY <1>6, <1>12 DEF Opening
  <2>2. sio' = IndexByte(96) /\ r2.n = 2 /\ r2.i = 6 /\ r2.seen = two
    BY <1>2, <1>3, <1>4, <1>12, <2>1 DEF Steps, Performs
  <2>3. /\ IndexByte(96).ext = sio.ext /\ IndexByte(96).device = sio.device
        /\ sio.ext => IndexByte(96).index = 96
    BY IndexFront
  <2>4. Opening(sio', 6) /\ sio'.device = HWM /\ sio'.index = 96
    BY <2>1, <2>2, <2>3 DEF Opening
  <2>. QED  BY <1>7, <2>2, <2>4
<1>13. CASE r.i = 6
  <2>1. sio.ext /\ sio.device = HWM /\ sio.index = 96 /\ r.seen = two
    BY <1>6, <1>13 DEF Opening
  <2>2. DataIn = Port1(board)
    BY <2>1 DEF DataIn, Port1, CR7
  <2>3. sio' = sio /\ r2.n = 2 /\ r2.i = 7 /\ r2.seen = Append(two, Port1(board))
    BY <1>2, <1>3, <1>13, <2>1, <2>2 DEF Steps, Performs
  <2>. QED  BY <1>5, <1>7, <2>1, <2>3
<1>14. CASE r.i = 7
  <2>1. sio.ext /\ sio.device = HWM /\ r.seen = three
    BY <1>6, <1>14
  <2>2. sio' = IndexByte(97) /\ r2.n = 2 /\ r2.i = 8 /\ r2.seen = three
    BY <1>2, <1>3, <1>4, <1>14, <2>1 DEF Steps, Performs
  <2>3. /\ IndexByte(97).ext = sio.ext /\ IndexByte(97).device = sio.device
        /\ sio.ext => IndexByte(97).index = 97
    BY IndexFront
  <2>4. sio'.ext /\ sio'.device = HWM /\ sio'.index = 97
    BY <2>1, <2>2, <2>3
  <2>. QED  BY <1>7, <2>2, <2>4
<1>15. CASE r.i = 8
  <2>1. sio.ext /\ sio.device = HWM /\ sio.index = 97 /\ r.seen = three
    BY <1>6, <1>15
  <2>2. DataIn = Port2(board)
    BY <2>1 DEF DataIn, Port2, CR7
  <2>3. sio' = sio /\ r2.n = 3 /\ r2.i = 1 /\ r2.seen = Append(three, Port2(board))
    BY <1>2, <1>3, <1>4, <1>15, <2>1, <2>2 DEF Steps, Performs
  <2>4. r2.seen = four
    BY <1>5, <2>3
  <2>. QED  BY <1>1, <2>1, <2>3, <2>4 DEF AskingMonitor, four
<1>. QED  BY <1>6, <1>8, <1>9, <1>10, <1>11, <1>12, <1>13, <1>14, <1>15

(* Without a port the script ends there; with one, the monitor's enable    *)
(* register is read.                                                       *)
LEMMA MonitorStep ==
  ASSUME board \in Board, FrontOK(sio), NEW r, NEW r2, AskingMonitor(board, sio, r),
         r.n <= Len(Identification(r.seen)), Steps(Identification(r.seen)[r.n], r, r2)
  PROVE  AskingMonitor(board, sio', r2) \/ Enabling(board, sio', high', r2)
<1>. DEFINE four == <<Id1(board), Id2(board), Port1(board), Port2(board)>>
            last == IF Wide(board) THEN Peek ELSE Shut
<1>1. r.seen = four /\ board.id = D42
  BY DEF AskingMonitor
<1>2. Identification(r.seen) = <<Ident, HwmBase, last>>
  BY <1>1, Scripts
<1>3. \/ ~ Wide(board) /\ r.n \in {3, 4} /\ r.i = 1
      \/ /\ Wide(board) /\ r.n = 3 /\ r.i \in {1, 2}
         /\ sio.ext /\ sio.device = HWM /\ (r.i = 2 => sio.index = ENABLE)
  BY DEF AskingMonitor
<1>4. r.n = 3
  <2>. HIDE DEF last
  <2>. QED  BY <1>2, <1>3 DEF Steps
<1>5. Steps(last, r, r2)
  <2>. HIDE DEF last
  <2>. QED  BY <1>2, <1>4
<1>6. CASE ~ Wide(board)
  <2>1. last = Shut /\ Code(Shut) = <<"leave">> /\ Shut.kind # "absent"
    BY <1>6, LoadCodes DEF Shut
  <2>. HIDE DEF last, four, Shut
  <2>2. r2.n = 4 /\ r2.i = 1 /\ r2.seen = four
    BY <1>1, <1>3, <1>4, <1>5, <1>6, <2>1 DEF Steps, Performs
  <2>. QED  BY <1>1, <1>6, <2>2 DEF AskingMonitor, four
<1>7. CASE Wide(board)
  <2>1. last = Peek /\ Code(Peek) = <<"index", "in">> /\ Peek.kind # "absent" /\ Peek.reg = ENABLE
    BY <1>7, LoadCodes DEF Peek
  <2>. HIDE DEF last, four, Peek
  <2>2. CASE r.i = 1
    <3>1. sio' = IndexByte(ENABLE) /\ r2.n = 3 /\ r2.i = 2 /\ r2.seen = four
      BY <1>1, <1>4, <1>5, <2>1, <2>2 DEF Steps, Performs
    <3>2. sio'.ext /\ sio'.device = HWM /\ sio'.index = ENABLE
      BY <1>3, <1>7, <3>1, IndexFront
    <3>. QED  BY <1>1, <1>7, <3>1, <3>2 DEF AskingMonitor, four
  <2>3. CASE r.i = 2
    <3>1. sio.ext /\ sio.device = HWM /\ sio.index = ENABLE
      BY <1>3, <1>7, <2>3
    <3>2. DataIn = Monitor(high)
      BY <3>1 DEF DataIn, Monitor, Bits, ENABLE, CR7
    <3>3. /\ sio' = sio /\ high' = high /\ r2.n = 4 /\ r2.i = 1
          /\ r2.seen = Append(four, Monitor(high))
      BY <1>1, <1>4, <1>5, <2>1, <2>3, <3>2 DEF Steps, Performs
    <3>4. r2.seen = <<Id1(board), Id2(board), Port1(board), Port2(board), Monitor(high)>>
      <4>1. \A w, x, y, z, v : Append(<<w, x, y, z>>, v) = <<w, x, y, z, v>>
        BY Appended, Zenon
      <4>2. Append(<<Id1(board), Id2(board), Port1(board), Port2(board)>>, Monitor(high))
              = <<Id1(board), Id2(board), Port1(board), Port2(board), Monitor(high)>>
        BY <4>1, Zenon
      <4>. QED  BY <3>3, <4>2, Zenon DEF four
    <3>5. Monitor(high') = Monitor(high)
      BY <3>3
    <3>. QED  BY <1>7, <3>1, <3>3, <3>4, <3>5 DEF Enabling
  <2>. QED  BY <1>3, <1>7, <2>2, <2>3
<1>. QED  BY <1>6, <1>7

(* It is set if it is not, and the chip is left.                           *)
LEMMA EnableStep ==
  ASSUME board \in Board, FrontOK(sio), NEW r, NEW r2, Enabling(board, sio, high, r),
         r.n <= Len(Identification(r.seen)), Steps(Identification(r.seen)[r.n], r, r2)
  PROVE  Enabling(board, sio', high', r2)
<1>1. PICK e : /\ r.seen = <<Id1(board), Id2(board), Port1(board), Port2(board), e>>
               /\ \/ /\ r.n = 4 /\ r.i \in {1, 2} /\ e = Monitor(high)
                     /\ sio.ext /\ sio.device = HWM
                     /\ r.i = 2 => sio.index = ENABLE /\ 0 \notin e
                  \/ r.n = 4 /\ r.i = 3 /\ 0 \notin e /\ 0 \in Monitor(high)
                  \/ r.n = 5 /\ r.i = 1 /\ 0 \in Monitor(high)
  BY DEF Enabling
<1>. DEFINE five == <<Id1(board), Id2(board), Port1(board), Port2(board), e>>
            last == IF 0 \in e THEN Shut ELSE Enable
<1>2. Wide(board) /\ r.seen = five
  BY <1>1 DEF Enabling
<1>3. Identification(r.seen) = <<Ident, HwmBase, Peek, last>>
  BY <1>2, Scripts
<1>4. Len(five) = 5 /\ five[5] = e
  OBVIOUS
<1>. HIDE DEF five, last
<1>5. r.n = 4
  BY <1>1, <1>3
<1>6. Steps(last, r, r2)
  BY <1>3, <1>5
<1>7. ASSUME r2.seen = five,
             \/ /\ r2.n = 4 /\ r2.i \in {1, 2} /\ e = Monitor(high')
                /\ sio'.ext /\ sio'.device = HWM
                /\ r2.i = 2 => sio'.index = ENABLE /\ 0 \notin e
             \/ r2.n = 4 /\ r2.i = 3 /\ 0 \notin e /\ 0 \in Monitor(high')
             \/ r2.n = 5 /\ r2.i = 1 /\ 0 \in Monitor(high')
      PROVE  Enabling(board, sio', high', r2)
  BY <1>2, <1>7 DEF Enabling, five
<1>8. CASE 0 \in e
  <2>1. last = Shut /\ Len(Code(Shut)) = 1 /\ Code(Shut)[1] = "leave" /\ Shut.kind # "absent"
    BY <1>8, LoadCodes DEF Shut, last
  <2>2. r.i = 1 /\ 0 \in Monitor(high)
    BY <1>1, <1>5, <1>8
  <2>. HIDE DEF Shut
  <2>3. high' = high /\ r2.n = 5 /\ r2.i = 1 /\ r2.seen = five
    BY <1>2, <1>5, <1>6, <2>1, <2>2 DEF Steps, Performs
  <2>. QED  BY <1>7, <2>2, <2>3
<1>9. CASE 0 \notin e
  <2>1. /\ last = Enable /\ Len(Code(Enable)) = 3 /\ Code(Enable)[1] = "index"
        /\ Code(Enable)[2] = "out" /\ Code(Enable)[3] = "leave"
        /\ Enable.kind # "absent" /\ Enable.reg = ENABLE
        /\ 0 \in Changed(Enable, e)
    BY <1>9, LoadCodes DEF Enable, last, Changed, Bit
  <2>. HIDE DEF Enable
  <2>2. CASE r.i = 1
    <3>1. e = Monitor(high) /\ sio.ext /\ sio.device = HWM
      BY <1>1, <1>5, <2>2
    <3>2. sio' = IndexByte(ENABLE) /\ high' = high /\ r2.n = 4 /\ r2.i = 2 /\ r2.seen = five
      BY <1>2, <1>5, <1>6, <2>1, <2>2 DEF Steps, Performs
    <3>3. sio'.ext /\ sio'.device = HWM /\ sio'.index = ENABLE
      BY <3>1, <3>2, IndexFront
    <3>. QED  BY <1>7, <1>9, <3>1, <3>2, <3>3
  <2>3. CASE r.i = 2
    <3>1. sio.ext /\ sio.device = HWM /\ sio.index = ENABLE
      BY <1>1, <1>5, <2>3
    <3>2. DataOut(Changed(Enable, e)) /\ r2.n = 4 /\ r2.i = 3 /\ r2.seen = five
      BY <1>2, <1>4, <1>5, <1>6, <2>1, <2>3 DEF Steps, Performs
    <3>3. <<HWM, ENABLE, 0>> \in high'
      BY <2>1, <3>1, <3>2 DEF DataOut, CR7, ENABLE
    <3>4. 0 \in Monitor(high')
      BY <3>3 DEF Monitor, Bit
    <3>. QED  BY <1>7, <1>9, <3>2, <3>4
  <2>4. CASE r.i = 3
    <3>1. 0 \in Monitor(high)
      BY <1>1, <1>5, <2>4
    <3>2. high' = high /\ r2.n = 5 /\ r2.i = 1 /\ r2.seen = five
      BY <1>2, <1>5, <1>6, <2>1, <2>4 DEF Steps, Performs
    <3>. QED  BY <1>7, <3>1, <3>2
  <2>. QED  BY <1>1, <1>5, <2>2, <2>3, <2>4
<1>. QED  BY <1>8, <1>9

LEMMA LoadScript ==
  ASSUME LoadInv, NEW c \in Caller, Loading(call[c])
  PROVE  /\ Todo(c) = Identification(call[c].seen) /\ board \in Board
         /\ call[c] # Idle /\ Entered(call[c])
<1>1. Todo(c) = Identification(call[c].seen)
  BY DEF Todo, Accesses, Loading
<1>2. board \in Board
  BY HardwareAssumption DEF LoadInv
<1>. QED  BY <1>1, <1>2 DEF LoadInv, Loading, Idle

LEMMA LoadInstruction ==
  ASSUME LoadInv, NEW c \in Caller, Loading(call[c]), PortAction(c)
  PROVE  Finding(board, sio', high', call'[c])
<1>1. Todo(c) = Identification(call[c].seen) /\ board \in Board /\ Entered(call[c])
  BY LoadScript
<1>2. FrontOK(sio) /\ DOMAIN call = Caller /\ Finding(board, sio, high, call[c])
  BY DEF LoadInv
<1>3. Inside(c)
  BY Performing
<1>4. PICK seen2 : Performs(Now(c), call[c].i, call[c].seen, seen2) /\ Advance(c, seen2)
  BY Performing
<1>5. LET r  == call[c]
          r2 == call'[c]
          l  == Len(Code(Now(c)))
      IN  /\ r.i < l => r2.n = r.n /\ r2.i = r.i + 1 /\ r2.seen = seen2
          /\ ~ (r.i < l) => /\ r2.n = r.n + 1 /\ r2.i = 1
                            /\ Now(c).kind # "absent" => r2.seen = seen2
  BY <1>1, <1>2, <1>3, <1>4, Advancing
<1>. DEFINE r == call[c]
            r2 == call'[c]
<1>6. Steps(Now(c), r, r2)
  BY <1>4, <1>5 DEF Steps
<1>7. r.n <= Len(Identification(r.seen)) /\ Steps(Identification(r.seen)[r.n], r, r2)
  BY <1>1, <1>3, <1>6 DEF Inside, Now
<1>8. Finding(board, sio, high, r)
  BY <1>2
<1>. HIDE DEF r, r2
<1>9. Finding(board, sio', high', r2)
  BY <1>1, <1>2, <1>7, <1>8, IdStep, PortStep, MonitorStep, EnableStep DEF Finding
<1>. QED  BY <1>9 DEF r, r2

-----------------------------------------------------------------------------
(* The steps beside the port instructions.                                 *)

(* Whoever loads the module, or has just matched the chip, is alone: no    *)
(* one else takes a step but to begin, and nothing is offered to them.     *)
LEMMA Alone ==
  ASSUME LoadInv, NEW c \in Caller, call[c] # Idle, ~ Loading(call[c])
  PROVE  /\ chip # NoChip /\ Entered(call[c])
         /\ \A d \in Caller \ {c} : ~ Loading(call[d]) /\ call[d].phase # "matched"
BY DEF LoadInv

LEMMA LoadOutside ==
  ASSUME LoadInv, NEW c \in Caller, NEW x, call' = [call EXCEPT ![c] = x],
         UNCHANGED <<board, sio, high>>, Identified',
         x = Idle \/ Entered(x),
         chip' = NoChip => /\ files' = {} /\ (x = Idle \/ Loading(x))
                           /\ \A d \in Caller \ {c} : call[d] = Idle,
         Loading(x) => /\ chip' = NoChip /\ Finding(board, sio, high, x)
                       /\ \A d \in Caller \ {c} : call[d] = Idle,
         x.phase = "matched" => /\ chip' # NoChip /\ files' = {}
                                /\ \A d \in Caller \ {c} : call[d] = Idle,
         \A d \in Caller \ {c} : ~ Loading(call[d]) /\ call[d].phase # "matched"
  PROVE  LoadInv'
<1>1. DOMAIN call' = Caller /\ call'[c] = x /\ \A d \in Caller \ {c} : call'[d] = call[d]
  BY DEF LoadInv
<1>2. (board \in Hardware /\ FrontOK(sio) /\ DOMAIN call = Caller /\ Identified)'
  BY <1>1 DEF LoadInv
<1>3. (chip = NoChip => files = {} /\ \A d \in Caller : call[d] = Idle \/ Loading(call[d]))'
  BY <1>1
<1>4. ASSUME NEW d \in Caller
      PROVE  /\ call'[d] = Idle \/ Entered(call'[d])
             /\ Loading(call'[d]) => chip' = NoChip /\ Finding(board', sio', high', call'[d])
             /\ call'[d].phase = "matched" => chip' # NoChip /\ files' = {}
             /\ Loading(call'[d]) \/ call'[d].phase = "matched" =>
                  \A e \in Caller \ {d} : call'[e] = Idle
  <2>1. CASE d = c
    BY <1>1, <2>1
  <2>2. CASE d # c
    <3>1. call'[d] = call[d] /\ (call[d] = Idle \/ Entered(call[d]))
      BY <1>1, <2>2 DEF LoadInv
    <3>. QED  BY <2>2, <3>1
  <2>. QED  BY <2>1, <2>2
<1>. QED  BY <1>2, <1>3, <1>4 DEF LoadInv

LEMMA LoadPort ==
  ASSUME LoadInv, NEW c \in Caller, PortAction(c)
  PROVE  LoadInv'
<1>1. Inside(c) /\ UNCHANGED <<board, chip, files>>
  BY Performing DEF module
<1>2. call[c] # Idle /\ call[c].phase = "inside"
  BY <1>1 DEF Inside, Idle
<1>3. PICK seen2 : Performs(Now(c), call[c].i, call[c].seen, seen2) /\ Advance(c, seen2)
  BY Performing
<1>4. FrontOK(sio) /\ DOMAIN call = Caller /\ (call[c] = Idle \/ Entered(call[c]))
  BY DEF LoadInv
<1>5. /\ Entered(call'[c]) /\ call'[c].phase = "inside" /\ call'[c].job = call[c].job
      /\ DOMAIN call' = Caller /\ (\A d \in Caller : d # c => call'[d] = call[d])
      /\ FrontOK(sio')
  BY <1>1, <1>3, <1>4, Advancing
<1>6. (board \in Hardware /\ FrontOK(sio) /\ DOMAIN call = Caller /\ Identified)'
  BY <1>1, <1>5 DEF LoadInv, Identified
<1>7. Loading(call'[c]) <=> Loading(call[c])
  BY <1>2, <1>5 DEF Loading
<1>8. CASE Loading(call[c])
  <2>1. Finding(board, sio', high', call'[c])
    BY <1>8, LoadInstruction
  <2>2. chip = NoChip /\ files = {} /\ \A d \in Caller \ {c} : call[d] = Idle
    BY <1>8 DEF LoadInv
  <2>3. \A d \in Caller \ {c} : call'[d] = Idle
    BY <1>5, <2>2
  <2>4. ~ Loading(Idle) /\ Idle.phase # "matched"
    BY DEF Loading, Idle
  <2>5. (chip = NoChip => files = {} /\ \A d \in Caller : call[d] = Idle \/ Loading(call[d]))'
    BY <1>1, <1>7, <1>8, <2>2, <2>3
  <2>6. ASSUME NEW d \in Caller
        PROVE  /\ call'[d] = Idle \/ Entered(call'[d])
               /\ Loading(call'[d]) => chip' = NoChip /\ Finding(board', sio', high', call'[d])
               /\ call'[d].phase = "matched" => chip' # NoChip /\ files' = {}
               /\ Loading(call'[d]) \/ call'[d].phase = "matched" =>
                    \A e \in Caller \ {d} : call'[e] = Idle
    <3>1. CASE d = c
      BY <1>1, <1>5, <2>1, <2>2, <2>3, <3>1
    <3>2. CASE d # c
      BY <2>3, <2>4, <3>2
    <3>. QED  BY <3>1, <3>2
  <2>. QED  BY <1>6, <2>5, <2>6 DEF LoadInv
<1>9. CASE ~ Loading(call[c])
  <2>1. /\ chip # NoChip
        /\ \A d \in Caller \ {c} : ~ Loading(call[d]) /\ call[d].phase # "matched"
    BY <1>2, <1>9, Alone
  <2>2. ASSUME NEW d \in Caller
        PROVE  /\ call'[d] = Idle \/ Entered(call'[d])
               /\ ~ Loading(call'[d]) /\ call'[d].phase # "matched"
    <3>1. CASE d = c
      BY <1>5, <1>7, <1>9, <3>1
    <3>2. CASE d # c
      <4>1. call'[d] = call[d] /\ (call[d] = Idle \/ Entered(call[d]))
        BY <1>5, <3>2 DEF LoadInv
      <4>. QED  BY <2>1, <3>2, <4>1
    <3>. QED  BY <3>1, <3>2
  <2>. QED  BY <1>1, <1>6, <2>1, <2>2 DEF LoadInv
<1>. QED  BY <1>8, <1>9

(* Identification does not end before the device id is known.              *)
LEMMA NotAskingId ==
  ASSUME LoadInv, NEW c \in Caller, Done(c), Loading(call[c])
  PROVE  ~ AskingId(board, sio, call[c])
<1>. DEFINE seen == call[c].seen
<1>1. Todo(c) = Identification(seen) /\ board \in Board
  BY LoadScript
<1>2. call[c].n > Len(Identification(seen))
  BY <1>1 DEF Done
<1>3. ASSUME AskingId(board, sio, call[c]) PROVE FALSE
  <2>1. call[c].n = 1
    BY <1>3 DEF AskingId
  <2>2. seen \in {<< >>, <<Id1(board)>>, <<Id1(board), Id2(board)>>}
    BY <1>3 DEF AskingId
  <2>3. Identification(seen) \in {<<Ident>>, <<Ident, HwmBase>>}
    BY <1>1, <2>2, Scripts
  <2>4. Len(<<Ident>>) = 1 /\ Len(<<Ident, HwmBase>>) = 2
    OBVIOUS
  <2>5. CASE Identification(seen) = <<Ident>>
    <3>1. Len(Identification(seen)) = 1
      BY <2>4, <2>5
    <3>. QED  BY <1>2, <2>1, <3>1
  <2>6. CASE Identification(seen) = <<Ident, HwmBase>>
    <3>1. Len(Identification(seen)) = 2
      BY <2>4, <2>6
    <3>. QED  BY <1>2, <2>1, <3>1
  <2>. QED  BY <2>3, <2>5, <2>6
<1>. QED  BY <1>3

(* What nuvoton_match makes of the answers is the board's chip.            *)
LEMMA MatchFinds ==
  ASSUME LoadInv, NEW c \in Caller, Done(c), Loading(call[c]),
         LET seen == call[c].seen
             id   == DeviceId(seen)
         IN  \E fb \in IF id = D42 THEN FB(seen) ELSE {0} :
               id # 0 /\ chip' = Identify(id, fb),
         board.name \in Chip, board.id = D42 => board.hwm >= 8
  PROVE  chip' = board.name
<1>. DEFINE seen == call[c].seen
<1>1. Todo(c) = Identification(seen) /\ board \in Board /\ Finding(board, sio, high, call[c])
  BY LoadScript DEF LoadInv
<1>2. call[c].n > Len(Identification(seen))
  BY <1>1 DEF Done
<1>2a. ~ AskingId(board, sio, call[c])
  BY NotAskingId
<1>3. board.name = Identify(board.id, board.fb)
  BY GenuineAssumption DEF LoadInv
<1>4. seen[1] = Id1(board) /\ seen[2] = Id2(board)
  <2>1. ~ AskingId(board, sio, call[c])
    BY <1>2a
  <2>2. CASE AskingPort(board, sio, call[c])
    BY <2>2 DEF AskingPort
  <2>3. CASE AskingMonitor(board, sio, call[c])
    BY <2>3 DEF AskingMonitor
  <2>4. CASE Enabling(board, sio, high, call[c])
    BY <2>4 DEF Enabling
  <2>. QED  BY <1>1, <2>1, <2>2, <2>3, <2>4 DEF Finding
<1>5. DeviceId(seen) = board.id
  BY <1>1, <1>4, Answers
<1>6. CASE board.id # D42
  <2>1. chip' = Identify(board.id, 0)
    BY <1>5, <1>6
  <2>2. \A id, f, g : id # D42 => Identify(id, f) = Identify(id, g)
    BY DEF Identify
  <2>. QED  BY <1>3, <1>6, <2>1, <2>2
<1>7. CASE board.id = D42
  <2>1. Wide(board)
    BY <1>7 DEF Wide
  <2>2. \E e : /\ seen = <<Id1(board), Id2(board), Port1(board), Port2(board), e>>
               /\ 0 \in Monitor(high)
    <3>1. ~ AskingId(board, sio, call[c])
      BY <1>2a
    <3>2. CASE AskingPort(board, sio, call[c])
      <4>1. call[c].n = 2 /\ seen \in {<<Id1(board), Id2(board)>>,
                                       <<Id1(board), Id2(board), Port1(board)>>}
        BY <3>2 DEF AskingPort
      <4>2. Identification(seen) = <<Ident, HwmBase>>
        BY <1>1, <1>7, <4>1, Scripts
      <4>3. Len(Identification(seen)) = 2
        BY <4>2
      <4>. QED  BY <1>2, <4>1, <4>3
    <3>3. CASE AskingMonitor(board, sio, call[c])
      <4>1. call[c].n = 3 /\ seen = <<Id1(board), Id2(board), Port1(board), Port2(board)>>
        BY <2>1, <3>3 DEF AskingMonitor
      <4>2. Identification(seen) = <<Ident, HwmBase, IF Wide(board) THEN Peek ELSE Shut>>
        BY <1>1, <1>7, <4>1, Scripts
      <4>3. Len(Identification(seen)) = 3
        BY <4>2
      <4>4. call[c].n = 3
        BY <4>1
      <4>. QED  BY <1>2, <4>3, <4>4
    <3>4. CASE Enabling(board, sio, high, call[c])
      <4>1. PICK e : /\ seen = <<Id1(board), Id2(board), Port1(board), Port2(board), e>>
                     /\ call[c].n = 4 \/ (call[c].n = 5 /\ 0 \in Monitor(high))
        BY <3>4 DEF Enabling
      <4>2. Identification(seen) = <<Ident, HwmBase, Peek, IF 0 \in e THEN Shut ELSE Enable>>
        BY <1>1, <2>1, <4>1, Scripts
      <4>3. Len(Identification(seen)) = 4
        BY <4>2
      <4>4. call[c].n = 5 /\ 0 \in Monitor(high)
        <5>1. call[c].n # 4
          BY <1>2, <4>3
        <5>. QED  BY <4>1, <5>1
      <4>. QED  BY <4>1, <4>4
    <3>. QED  BY <1>1, <3>1, <3>2, <3>3, <3>4 DEF Finding
  <2>3. seen[3] = Port1(board) /\ seen[4] = Port2(board)
    BY <2>2
  <2>4. HwmPort(seen) = board.hwm \div 8
    BY <1>1, <1>4, <2>3, Answers
  <2>5. board.hwm \div 8 # 0
    <3>1. board.hwm \in Word
      BY <1>1 DEF Board
    <3>. QED  BY <1>7, <3>1, Ranges
  <2>6. 0 \in Bits(HWM, ENABLE)
    BY <2>2 DEF Bits, Monitor
  <2>7. FB(seen) = {board.fb}
    BY <2>4, <2>5, <2>6 DEF FB
  <2>. QED  BY <1>3, <1>5, <1>7, <2>7
<1>. QED  BY <1>6, <1>7

LEMMA LoadBegin ==
  ASSUME LoadInv, NEW c \in Caller, Begin(c)
  PROVE  LoadInv'
<1>1. PICK job \in Jobs(board, c) :
        /\ Offered(job)
        /\ call' = [call EXCEPT ![c] = IF Locks(job) THEN Asking(job, Tries)
                                                     ELSE Enter(job, Left(job))]
  BY DEF Begin
<1>. DEFINE x == IF Locks(job) THEN Asking(job, Tries) ELSE Enter(job, Left(job))
<1>2. call[c] = Idle /\ UNCHANGED <<board, chip, files, sio, high>>
  BY DEF Begin, LoadInv, Entered, module
<1>3. job.op \in Operations
  BY JobsAssumption DEF LoadInv
<1>4. Entered(x) /\ x.job = job /\ x.phase # "matched" /\ (Locks(job) => x.phase = "asking")
  BY <1>3 DEF Entered, Asking, Enter, Calling
<1>5. Loading(x) <=> job.op = "load"
  BY <1>4 DEF Loading, Locks, Asking, Enter, Calling
<1>6. \A d \in Caller : call[d] # Idle => call[d].phase # "idle"
  BY DEF LoadInv, Entered
<1>7. CASE job.op = "load"
  <2>1. chip = NoChip /\ Quiet
    BY <1>1, <1>7 DEF Offered
  <2>2. files = {} /\ \A d \in Caller : call[d] = Idle
    <3>1. files = {} /\ \A d \in Caller : call[d] = Idle \/ Loading(call[d])
      BY <2>1 DEF LoadInv
    <3>2. \A d \in Caller : call[d] # Idle => ~ Loading(call[d])
      BY <1>6, <2>1 DEF Quiet, Changing, Loading
    <3>. QED  BY <3>1, <3>2
  <2>3. AskingId(board, sio, x)
    BY <1>7 DEF AskingId, Opening, Locks, Enter, Calling
  <2>4. Finding(board, sio, high, x)
    BY <2>3 DEF Finding
  <2>5. Identified'
    BY <1>2, <2>1 DEF Identified
  <2>6. ~ Loading(Idle) /\ Idle.phase # "matched"
    BY DEF Loading, Idle
  <2>. HIDE DEF x
  <2>. QED  BY <1>1, <1>2, <1>4, <1>5, <1>7, <2>1, <2>2, <2>4, <2>5, <2>6, LoadOutside DEF x
<1>8. CASE job.op # "load"
  <2>1. chip # NoChip
    <3>1. chip = NoChip => files = {}
      BY DEF LoadInv
    <3>. QED  BY <1>1, <1>3, <1>8, <3>1 DEF Offered, Operations
  <2>2. \A d \in Caller : ~ Loading(call[d])
    BY <2>1 DEF LoadInv
  <2>3. ASSUME NEW d \in Caller, call[d].phase = "matched" PROVE FALSE
    <3>1. call[d] # Idle
      BY <2>3 DEF Idle
    <3>2. files = {} /\ call[d].job.op = "load"
      BY <2>3, <3>1 DEF LoadInv, Entered
    <3>3. ~ Quiet
      BY <2>3, <3>2 DEF Quiet, Changing
    <3>. QED  BY <1>1, <1>3, <1>8, <3>2, <3>3 DEF Offered, Operations
  <2>4. Identified'
    BY <1>2 DEF Identified, LoadInv
  <2>. HIDE DEF x
  <2>. QED  BY <1>1, <1>2, <1>4, <1>5, <1>8, <2>1, <2>2, <2>3, <2>4, LoadOutside DEF x
<1>. QED  BY <1>7, <1>8

(* The second look-up starts where the first did, with the device id known.*)
LEMMA LoadAgain ==
  ASSUME LoadInv, NEW c \in Caller, LookAgain(c)
  PROVE  LoadInv'
<1>. DEFINE seen == call[c].seen
            x    == [call[c] EXCEPT !.left = @ - 1, !.n = 2, !.i = 1, !.seen = <<@[1], @[2]>>]
<1>1. Loading(call[c]) /\ Done(c) /\ UNCHANGED <<board, chip, files, sio, high>>
  BY DEF LookAgain, Done, Loading, module
<1>2. call' = [call EXCEPT ![c] = x]
  BY DEF LookAgain
<1>3. /\ chip = NoChip /\ files = {} /\ \A d \in Caller \ {c} : call[d] = Idle
      /\ Entered(call[c]) /\ Finding(board, sio, high, call[c])
  BY <1>1, LoadScript DEF LoadInv
<1>4. ~ Loading(Idle) /\ Idle.phase # "matched"
  BY DEF Loading, Idle
<1>5. <<seen[1], seen[2]>> = <<Id1(board), Id2(board)>>
  <2>1. ~ AskingId(board, sio, call[c])
    BY <1>1, NotAskingId
  <2>2. CASE AskingPort(board, sio, call[c])
    BY <2>2 DEF AskingPort
  <2>3. CASE AskingMonitor(board, sio, call[c])
    BY <2>3 DEF AskingMonitor
  <2>4. CASE Enabling(board, sio, high, call[c])
    BY <2>4 DEF Enabling
  <2>. QED  BY <1>3, <2>1, <2>2, <2>3, <2>4 DEF Finding
<1>6. /\ x.n = 2 /\ x.i = 1 /\ x.seen = <<Id1(board), Id2(board)>>
      /\ Entered(x) /\ Loading(x) /\ x.phase # "matched"
  BY <1>1, <1>3, <1>5 DEF Entered, Loading
<1>. HIDE DEF x
<1>7. Finding(board, sio, high, x)
  BY <1>6 DEF Finding, AskingPort
<1>8. Identified'
  BY <1>1, <1>3 DEF Identified
<1>. QED  BY <1>1, <1>2, <1>3, <1>4, <1>6, <1>7, <1>8, LoadOutside

LEMMA LoadMatch ==
  ASSUME LoadInv, NEW c \in Caller, Match(c)
  PROVE  LoadInv'
<1>. DEFINE seen == call[c].seen
            id   == DeviceId(seen)
            x    == Calling("matched", call[c].job, Tries)
<1>1. Loading(call[c]) /\ Done(c) /\ UNCHANGED <<board, files, sio, high>>
  BY DEF Match, Done, Loading
<1>2. PICK fb \in IF id = D42 THEN FB(seen) ELSE {0} :
        IF id = 0 THEN call' = [call EXCEPT ![c] = Idle] /\ UNCHANGED chip
        ELSE call' = [call EXCEPT ![c] = x] /\ chip' = Identify(id, fb)
  BY DEF Match
<1>3. chip = NoChip /\ files = {} /\ \A d \in Caller \ {c} : call[d] = Idle
  BY <1>1 DEF LoadInv
<1>4. ~ Loading(Idle) /\ Idle.phase # "matched"
  BY DEF Loading, Idle
<1>5. CASE id = 0
  <2>1. call' = [call EXCEPT ![c] = Idle] /\ chip' = chip
    BY <1>2, <1>5
  <2>2. Identified'
    BY <1>3, <2>1 DEF Identified
  <2>. QED  BY <1>1, <1>3, <1>4, <2>1, <2>2, LoadOutside
<1>6. CASE id # 0
  <2>1. call' = [call EXCEPT ![c] = x] /\ chip' = Identify(id, fb)
    BY <1>2, <1>6
  <2>2. chip' # NoChip
    BY <2>1 DEF Identify, NoChip
  <2>3. Entered(call[c]) /\ call[c].job.op = "load"
    BY <1>1, LoadScript DEF Loading
  <2>4. Entered(x) /\ x.phase = "matched" /\ ~ Loading(x)
    BY <2>3 DEF Entered, Calling, Loading
  <2>5. ASSUME board.name \in Chip, board.id = D42 => board.hwm >= 8
        PROVE  chip' = board.name
    BY <1>1, <1>2, <1>6, <2>1, <2>5, MatchFinds
  <2>6. Identified'
    BY <1>1, <2>5 DEF Identified
  <2>. HIDE DEF x, id, seen
  <2>. QED  BY <1>1, <1>3, <1>4, <2>1, <2>2, <2>4, <2>6, LoadOutside
<1>. QED  BY <1>5, <1>6

(* Steps of whoever is neither loading the module nor has just matched.    *)
LEMMA LoadOther ==
  ASSUME LoadInv, NEW c \in Caller, call[c] # Idle, ~ Loading(call[c]),
         NEW x, call' = [call EXCEPT ![c] = x], x = Idle \/ Entered(x),
         ~ Loading(x), x.phase # "matched", UNCHANGED <<board, sio, high, chip>>
  PROVE  LoadInv'
<1>1. /\ chip # NoChip
      /\ \A d \in Caller \ {c} : ~ Loading(call[d]) /\ call[d].phase # "matched"
  BY Alone
<1>2. Identified'
  BY DEF Identified, LoadInv
<1>. QED  BY <1>1, <1>2, LoadOutside

LEMMA NextLoad ==
  ASSUME LoadInv, [Next]_vars
  PROVE  LoadInv'
<1>. USE DEF module
<1>1. CASE UNCHANGED vars
  <2>1. UNCHANGED <<board, chip, files, sio, high, call>>
    BY <1>1 DEF vars
  <2>2. Identified' /\ FrontOK(sio')
    BY <2>1 DEF Identified, LoadInv
  <2>. QED  BY <2>1, <2>2 DEF LoadInv
<1>2. ASSUME NEW c \in Caller, Begin(c) PROVE LoadInv'
  BY <1>2, LoadBegin
<1>3. ASSUME NEW c \in Caller, PortAction(c) PROVE LoadInv'
  BY <1>3, LoadPort
<1>4. ASSUME NEW c \in Caller, LookAgain(c) \/ Match(c) PROVE LoadInv'
  BY <1>4, LoadAgain, LoadMatch
<1>5. Idle.phase = "idle" /\ ~ Loading(Idle)
  BY DEF Idle, Loading
<1>6. ASSUME NEW c \in Caller, Take(c) PROVE LoadInv'
  <2>. DEFINE x == Enter(call[c].job, call[c].left)
  <2>1. call[c].phase = "asking" /\ call' = [call EXCEPT ![c] = x]
        /\ UNCHANGED <<board, sio, high, chip>>
    BY <1>6 DEF Take
  <2>2. call[c] # Idle /\ ~ Loading(call[c]) /\ Entered(call[c])
    BY <2>1, <1>5 DEF Loading, LoadInv
  <2>3. Entered(x) /\ ~ Loading(x) /\ x.phase # "matched"
    BY <2>1, <2>2 DEF Entered, Loading, Locks, Enter, Calling
  <2>. HIDE DEF x
  <2>. QED  BY <2>1, <2>2, <2>3, LoadOther
<1>7. ASSUME NEW c \in Caller, Retry(c) PROVE LoadInv'
  <2>. DEFINE left == call[c].left - 1
              x == IF left > 0 THEN Asking(call[c].job, left) ELSE AfterFailure(call[c].job)
  <2>1. call[c].phase = "asking" /\ call' = [call EXCEPT ![c] = x]
        /\ UNCHANGED <<board, sio, high, chip>>
    BY <1>7 DEF Retry
  <2>2. call[c] # Idle /\ ~ Loading(call[c]) /\ Entered(call[c])
    BY <2>1, <1>5 DEF Loading, LoadInv
  <2>3. (x = Idle \/ Entered(x)) /\ ~ Loading(x) /\ x.phase # "matched"
    BY <1>5, <2>1, <2>2 DEF Entered, Loading, Locks, AfterFailure, Asking, Enter, Calling
  <2>. HIDE DEF x
  <2>. QED  BY <2>1, <2>2, <2>3, LoadOther
<1>8. ASSUME NEW c \in Caller, Return(c) PROVE LoadInv'
  <2>1. call[c].phase = "inside" /\ call[c].job.op # "load" /\ call' = [call EXCEPT ![c] = Idle]
        /\ UNCHANGED <<board, sio, high, chip>>
    BY <1>8 DEF Return, Done, Changing
  <2>2. call[c] # Idle /\ ~ Loading(call[c])
    BY <2>1, <1>5 DEF Loading
  <2>. QED  BY <1>5, <2>1, <2>2, LoadOther
<1>9. ASSUME NEW c \in Caller, RegisterFiles(c) PROVE LoadInv'
  <2>1. call[c].phase = "matched" /\ UNCHANGED <<board, sio, high>>
    BY <1>9 DEF RegisterFiles
  <2>2. /\ call[c] # Idle /\ ~ Loading(call[c]) /\ Entered(call[c]) /\ files = {}
        /\ \A d \in Caller \ {c} : call[d] = Idle
    BY <2>1, <1>5 DEF Loading, LoadInv
  <2>3. CASE call' = [call EXCEPT ![c] = Idle] /\ chip' = NoChip /\ files' = files
    <3>1. Identified'
      BY <2>3 DEF Identified
    <3>. QED  BY <1>5, <2>1, <2>2, <2>3, <3>1, LoadOutside
  <2>4. CASE call' = [call EXCEPT ![c].phase = "filed"] /\ chip' = chip
    <3>. DEFINE x == [call[c] EXCEPT !.phase = "filed"]
    <3>1. call' = [call EXCEPT ![c] = x]
      BY <2>4
    <3>2. Entered(x) /\ ~ Loading(x) /\ x.phase # "matched"
      BY <2>1, <2>2 DEF Entered, Loading
    <3>. HIDE DEF x
    <3>. QED  BY <2>1, <2>2, <2>4, <3>1, <3>2, LoadOther
  <2>. QED  BY <1>9, <2>3, <2>4 DEF RegisterFiles
<1>10. ASSUME NEW c \in Caller, RegisterLed(c) PROVE LoadInv'
  <2>. DEFINE x == Asking(LedOff, Tries)
  <2>1. call[c].phase = "filed" /\ call' = [call EXCEPT ![c] = x]
        /\ UNCHANGED <<board, sio, high, chip>>
    BY <1>10 DEF RegisterLed
  <2>2. call[c] # Idle /\ ~ Loading(call[c])
    BY <2>1, <1>5 DEF Loading
  <2>3. Entered(x) /\ ~ Loading(x) /\ x.phase # "matched"
    BY DEF Entered, Loading, Locks, Asking, Calling, LedOff, Operations
  <2>. HIDE DEF x
  <2>. QED  BY <2>1, <2>2, <2>3, LoadOther
<1>11. ASSUME NEW c \in Caller, UnregisterLed(c) PROVE LoadInv'
  <2>. DEFINE x == [call[c] EXCEPT !.phase = "leaving"]
  <2>1. call[c].phase = "inside" /\ call[c].job.op = "unload" /\ call' = [call EXCEPT ![c] = x]
        /\ UNCHANGED <<board, sio, high, chip>>
    BY <1>11 DEF UnregisterLed, Done
  <2>2. call[c] # Idle /\ ~ Loading(call[c]) /\ Entered(call[c])
    BY <2>1, <1>5 DEF Loading, LoadInv
  <2>3. Entered(x) /\ ~ Loading(x) /\ x.phase # "matched"
    BY <2>1, <2>2 DEF Entered, Loading
  <2>. HIDE DEF x
  <2>. QED  BY <2>1, <2>2, <2>3, LoadOther
<1>12. ASSUME NEW c \in Caller, UnregisterFiles(c) PROVE LoadInv'
  <2>1. /\ call[c].phase = "leaving" /\ UNCHANGED <<board, sio, high>>
        /\ files' = {} /\ chip' = NoChip /\ call' = [call EXCEPT ![c] = Idle]
        /\ \A d \in Caller \ {c} : call[d].phase = "idle"
    BY <1>12 DEF UnregisterFiles
  <2>2. \A d \in Caller \ {c} : call[d] = Idle
    BY <2>1 DEF LoadInv, Entered
  <2>3. Identified'
    BY <2>1 DEF Identified
  <2>. QED  BY <1>5, <2>1, <2>2, <2>3, LoadOutside
<1>. QED
  BY <1>1, <1>2, <1>3, <1>4, <1>6, <1>7, <1>8, <1>9, <1>10, <1>11, <1>12
     DEF Next, Step, PortAction

LEMMA InitLoad == Init => LoadInv
<1>. SUFFICES ASSUME Init PROVE LoadInv
  OBVIOUS
<1>1. board \in Hardware /\ DOMAIN call = Caller /\ \A c \in Caller : call[c] = Idle
  BY DEF Init
<1>2. FrontOK(sio)
  BY DEF Init, FrontOK
<1>3. Identified /\ (chip = NoChip => files = {})
  <2>1. CASE board.loaded
    <3>1. chip = board.name /\ board.name \in Chip
      BY <2>1, HardwareAssumption DEF Init
    <3>2. NoChip \notin Chip
      BY DEF NoChip, Chip
    <3>. QED  BY <3>1, <3>2 DEF Identified
  <2>2. CASE ~ board.loaded
    BY <2>2 DEF Init, Identified
  <2>. QED  BY <2>1, <2>2
<1>4. ~ Loading(Idle) /\ Idle.phase # "matched"
  BY DEF Loading, Idle
<1>. QED  BY <1>1, <1>2, <1>3, <1>4 DEF LoadInv

(* However often the module is loaded and unloaded, among whatever other   *)
(* calls: a chip of the table is driven as what it is, if its hardware     *)
(* monitor has a port where the device id leaves two.  Nobody's bytes get  *)
(* between those that ask for the device id, and the monitor is enabled    *)
(* when it is asked.  (nuvoton_get_devid, get_io_mapping_addr,             *)
(* nuvoton_match.)                                                         *)
THEOREM ChipsAreIdentified == Spec => []Identified
<1>1. Init => LoadInv
  BY InitLoad
<1>2. LoadInv /\ [Next]_vars => LoadInv'
  BY NextLoad
<1>3. LoadInv => Identified
  BY DEF LoadInv
<1>. QED  BY <1>1, <1>2, <1>3, PTL DEF Spec
=============================================================================
