----------------------------- MODULE NuvotonChips -----------------------------
(***************************************************************************)
(* gpio-nuvoton: where each Super I/O chip keeps its GPIO registers.  A    *)
(* port has three registers (direction, level, inversion) at consecutive   *)
(* places of a logical device, and one bit of a "use as GPIO" register.    *)
(* The headers give every port one base; setters and getters choose the    *)
(* device each by switches of their own.                                   *)
(***************************************************************************)
EXTENDS Integers, Sequences

Chip == {"NCT6775F", "NCT6776F", "NCT6779D", "NCT6104D",
         "NCT6116D", "NCT6796D", "NCT5581D"}

LD7 == 7
LD8 == 8
LD9 == 9
GPIO_USE_SEL == 48

Bit   == 0 .. 7
Field == {"direction", "output", "inverse"}

(* GP_IO, GP_LVL and GPI_INV.                                              *)
Offset == [direction |-> 0, output |-> 1, inverse |-> 2]

E0 == 224
F0 == 240

(* The bases of ports 0 to 9 of the larger chips.                          *)
Classic == <<E0, F0, E0, E0 + 4, F0, F0 + 4, F0 + 4, E0, E0 + 4, E0 + 8>>

Base(chip) ==
  CASE chip \in {"NCT6775F", "NCT6776F"} -> [p \in 0 .. 9 |-> Classic[p + 1]]
    [] chip \in {"NCT6779D", "NCT6796D"} -> [p \in 0 .. 8 |-> Classic[p + 1]]
    [] chip = "NCT5581D"                 -> [p \in {2, 3, 5, 7, 8} |-> Classic[p + 1]]
    [] chip = "NCT6104D"                 -> [p \in 0 .. 7 |-> E0 + 4 * p]
    [] chip = "NCT6116D"                 -> [p \in 0 .. 8 |-> IF p = 8 THEN F0 ELSE E0 + 4 * p]

Ports(chip) == DOMAIN Base(chip)

Devices(ports, eight, nine) ==
  [p \in ports |-> IF p \in eight THEN LD8 ELSE IF p \in nine THEN LD9 ELSE LD7]

-----------------------------------------------------------------------------
(* What the setters of a chip do: the device of a port's registers, and    *)
(* device and bit of its "use as GPIO" bit.  The last test of the          *)
(* NCT6775F's and the NCT6796D's setter, >= 6 || <= 9 and >= 6 || <= 8,    *)
(* lets every port pass, and the bit goes on with the port.  set_bit works *)
(* on 16 bits, of which the register takes 8; for a port beyond AnyPort it *)
(* would write outside of them, which has no meaning to model.             *)
AnyPort == 0 .. 20

SetDeviceNCT6775F == Devices(0 .. 9, {0, 1}, 2 .. 5)
SetDeviceNCT6776F == Devices(0 .. 9, {0, 1}, 2 .. 5)
SetDeviceNCT6779D == Devices(0 .. 8, {0, 1}, 2 .. 5)
SetDeviceNCT6104D == Devices(0 .. 7, {}, {})
SetDeviceNCT6116D == Devices(0 .. 8, {}, {8})
SetDeviceNCT6796D == Devices(0 .. 8, {0, 1}, 2 .. 5)
SetDeviceNCT5581D == Devices({2, 3, 5, 7, 8}, {}, {2, 3, 5})

SetDevice(chip) ==
  CASE chip = "NCT6775F" -> SetDeviceNCT6775F
    [] chip = "NCT6776F" -> SetDeviceNCT6776F
    [] chip = "NCT6779D" -> SetDeviceNCT6779D
    [] chip = "NCT6104D" -> SetDeviceNCT6104D
    [] chip = "NCT6116D" -> SetDeviceNCT6116D
    [] chip = "NCT6796D" -> SetDeviceNCT6796D
    [] chip = "NCT5581D" -> SetDeviceNCT5581D

SelectNCT6775F ==
  [p \in AnyPort |-> CASE p \in 2 .. 5 -> <<LD9, p - 2>>
                      [] p = 0 -> <<LD8, 2>>
                      [] p = 1 -> <<LD8, 1>>
                      [] OTHER -> <<LD7, p - 5>>]
SelectNCT6776F ==
  [p \in 0 .. 9 |-> CASE p \in 1 .. 7 -> <<LD9, p>>
                      [] p = 0 -> <<LD8, 1>>
                      [] OTHER -> <<LD7, p - 8>>]
SelectNCT6779D ==
  [p \in 0 .. 8 |-> CASE p \in 1 .. 7 -> <<LD9, p>>
                      [] p = 8 -> <<LD9, 0>>
                      [] OTHER -> <<LD8, 1>>]
SelectNCT6104D == [p \in 0 .. 7 |-> <<LD9, p>>]
SelectNCT6116D == [p \in 0 .. 8 |-> IF p = 8 THEN <<LD9, 0>> ELSE <<LD7, p>>]
SelectNCT6796D ==
  [p \in AnyPort |-> CASE p \in 2 .. 5 -> <<LD9, p - 2>>
                      [] p \in {0, 1} -> <<LD8, 0>>
                      [] OTHER -> <<LD7, p - 6>>]
SelectNCT5581D ==
  [p \in {2, 3, 5, 7, 8} |-> IF p \in {7, 8} THEN <<LD7, p - 6>> ELSE <<LD9, p - 2>>]

Select(chip) ==
  CASE chip = "NCT6775F" -> SelectNCT6775F
    [] chip = "NCT6776F" -> SelectNCT6776F
    [] chip = "NCT6779D" -> SelectNCT6779D
    [] chip = "NCT6104D" -> SelectNCT6104D
    [] chip = "NCT6116D" -> SelectNCT6116D
    [] chip = "NCT6796D" -> SelectNCT6796D
    [] chip = "NCT5581D" -> SelectNCT5581D

SetRegister(chip, field, port) ==
  <<SetDevice(chip)[port], Base(chip)[port] + Offset[field]>>

-----------------------------------------------------------------------------
(* What the getters do, for the registers and for the "use as GPIO" one.   *)
GetDeviceNCT6775F == Devices(0 .. 9, {0, 1}, 2 .. 5)
GetDeviceNCT6776F == Devices(0 .. 9, {0, 1}, 2 .. 5)
GetDeviceNCT6779D == Devices(0 .. 8, {0, 1}, 2 .. 5)
GetDeviceNCT6104D == Devices(0 .. 7, {}, {})
GetDeviceNCT6116D == Devices(0 .. 8, {}, {8})
GetDeviceNCT6796D == Devices(0 .. 8, {0, 1}, 2 .. 5)
GetDeviceNCT5581D == Devices({2, 3, 5, 7, 8}, {}, {2, 3, 5})

GetDevice(chip) ==
  CASE chip = "NCT6775F" -> GetDeviceNCT6775F
    [] chip = "NCT6776F" -> GetDeviceNCT6776F
    [] chip = "NCT6779D" -> GetDeviceNCT6779D
    [] chip = "NCT6104D" -> GetDeviceNCT6104D
    [] chip = "NCT6116D" -> GetDeviceNCT6116D
    [] chip = "NCT6796D" -> GetDeviceNCT6796D
    [] chip = "NCT5581D" -> GetDeviceNCT5581D

GetSelectNCT6775F == Devices(0 .. 9, {0, 1}, 2 .. 5)
GetSelectNCT6776F == Devices(0 .. 9, {0}, 1 .. 7)
GetSelectNCT6779D == Devices(0 .. 8, {0}, 1 .. 8)
GetSelectNCT6104D == Devices(0 .. 7, {}, {})
GetSelectNCT6116D == Devices(0 .. 8, {}, {8})
GetSelectNCT6796D == Devices(0 .. 8, {0, 1}, 2 .. 5)
GetSelectNCT5581D == Devices({2, 3, 5, 7, 8}, {}, {2, 3, 5})

GetSelect(chip) ==
  CASE chip = "NCT6775F" -> GetSelectNCT6775F
    [] chip = "NCT6776F" -> GetSelectNCT6776F
    [] chip = "NCT6779D" -> GetSelectNCT6779D
    [] chip = "NCT6104D" -> GetSelectNCT6104D
    [] chip = "NCT6116D" -> GetSelectNCT6116D
    [] chip = "NCT6796D" -> GetSelectNCT6796D
    [] chip = "NCT5581D" -> GetSelectNCT5581D

(* The getter of the NCT6116D's inversions takes the base of port 7 for    *)
(* port 8.                                                                 *)
GetBase(chip, field, port) ==
  Base(chip)[IF chip = "NCT6116D" /\ field = "inverse" /\ port = 8 THEN 7 ELSE port]

GetRegisterLevel(chip, field, port) ==  \* mutant: the level's offset for the inversion's
  <<GetDevice(chip)[port],
    GetBase(chip, field, port) + Offset[IF field = "inverse" THEN "output" ELSE field]>>
GetRegister(chip, field, port) ==
  <<GetDevice(chip)[port], GetBase(chip, field, port) + Offset[field]>>

-----------------------------------------------------------------------------
(* The "select" file: the ports it asks the getter for, and the ports it   *)
(* reports by masks and shifts of the bits r[i] of the i-th answer.        *)
SelectAsks(chip) ==
  CASE chip = "NCT6775F" -> <<6, 2, 0, 0>>
    [] chip = "NCT6776F" -> <<8, 1, 0>>
    [] chip = "NCT6779D" -> <<8, 7, 0>>
    [] chip = "NCT6104D" -> <<7>>
    [] chip = "NCT6116D" -> <<8, 0>>
    [] chip = "NCT6796D" -> <<0, 7, 2, 0>>
    [] chip = "NCT5581D" -> <<7, 2>>

Reported(chip, r) ==
  CASE chip = "NCT6775F" ->
         {p \in 6 .. 9 : p - 5 \in r[1]} \cup {p \in 2 .. 5 : p - 2 \in r[2]}
         \cup {p \in {0} : 2 \in r[3]} \cup {p \in {1} : 1 \in r[4]}
    [] chip = "NCT6776F" ->
         {p \in {8, 9} : p - 8 \in r[1]} \cup {p \in 1 .. 7 : p \in r[2]}
         \cup {p \in {0} : 1 \in r[3]}
    [] chip = "NCT6779D" ->
         {p \in {8} : 0 \in r[1]} \cup {p \in 1 .. 7 : p \in r[2]}
         \cup {p \in {0} : 1 \in r[3]}
    [] chip = "NCT6104D" -> r[1]
    [] chip = "NCT6116D" -> {8 + b : b \in r[1]} \cup r[2]
    [] chip = "NCT6796D" ->
         {p \in {0} : 1 \in r[1] \/ 7 \in r[2]}
         \cup {p \in 2 .. 5 : p - 2 \in r[3]} \cup {p \in 6 .. 8 : p - 6 \in r[4]}
    [] chip = "NCT5581D" -> {6 + b : b \in r[1]} \cup {2 + b : b \in r[2]}

(* The ports the other files list, in order.                               *)
ListedPorts(chip) ==
  CASE chip \in {"NCT6775F", "NCT6776F", "NCT6796D"} -> [i \in 1 .. 10 |-> i - 1]
    [] chip \in {"NCT6779D", "NCT6116D"}             -> [i \in 1 .. 9 |-> i - 1]
    [] chip = "NCT6104D"                             -> [i \in 1 .. 8 |-> i - 1]
    [] chip = "NCT5581D"                             -> <<2, 3, 5, 7, 8>>
=============================================================================
