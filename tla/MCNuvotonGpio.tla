---------------------------- MODULE MCNuvotonGpio ----------------------------
(* Small instances of the GPIO driver: who calls it, for what, on which    *)
(* boards, and what the firmware left in the registers.                    *)
EXTENDS NuvotonGpio

(* Device ids as SIO_PRIV has them; one that the table does not list is    *)
(* driven as the NCT6775F is, and 0 ends the table.                        *)
Plain(name, id)     == [name |-> name, id |-> id, hwm |-> 0, fb |-> 0, loaded |-> FALSE]
Shared(name, p, fb) == [name |-> name, id |-> D42, hwm |-> p, fb |-> fb, loaded |-> FALSE]
Loaded(b)           == [b EXCEPT !.loaded = TRUE]

Other == Plain("other", 1)
None  == Plain("other", 0)
B6775 == Plain("NCT6775F", 2887)
B6776 == Plain("NCT6776F", 3123)
B6779 == Plain("NCT6779D", 3158)
B6104 == Plain("NCT6104D", 3141)
B6116 == Plain("NCT6116D", 3368)
B6796 == Shared("NCT6796D", 656, 0)
B5581 == Shared("NCT5581D", 656, 24)
NoHwm == Shared("NCT6796D", 0, 0)

Store(f, p, b, v) == [op |-> "store", field |-> f, port |-> p, bit |-> b, cmd |-> v]
Show(f)           == [op |-> "show", field |-> f]
BusSet(f, p, b, v) == [op |-> "bus_set", field |-> f, port |-> p, bit |-> b, cmd |-> v]
BusGet(f, p)      == [op |-> "bus_get", field |-> f, port |-> p]
LedSet(on)        == [op |-> "led_set", on |-> on]
LedGet            == [op |-> "led_get"]
Load              == [op |-> "load"]
Unload            == [op |-> "unload"]

(* On a loaded NCT5581D two users of the sysfs files, one showing and      *)
(* storing, one storing.  On other loaded boards one reader.  On the rest  *)
(* one caller who loads, unloads and, on some chips, sets.                 *)
Callers == {"u1", "u2"}

UserJobs(c) ==
  IF c = "u1" THEN {Show("direction"), Show("select"), Store("direction", 7, 0, TRUE)}
  ELSE {Store("direction", p, 7, v) : p \in {3, 7}, v \in BOOLEAN}
       \cup {Store("select", 7, 0, v) : v \in BOOLEAN}

Reads == {Show(f) : f \in Field \cup {"select"}}
         \cup {BusGet("output", 2), BusGet("direction", 2), LedGet}

Sets == {Store("inverse", 8, 0, v) : v \in BOOLEAN}
        \cup {Store("select", p, 0, TRUE) : p \in {0, 9, 15}}
        \cup {Store("output", 2, 8, TRUE)}
        \cup {BusSet(f, 2, 7, TRUE) : f \in {"output", "direction"}}

MCJobs(b, c) ==
  CASE b = Loaded(B5581) -> UserJobs(c)
    [] b # Loaded(B5581) /\ c = "u2" -> {}
    [] b # Loaded(B5581) /\ c = "u1" /\ b.loaded -> Reads
    [] OTHER -> {Load, Unload, LedSet(TRUE)} \cup (IF b.id = D42 THEN {} ELSE Sets)

MCBoards == {Loaded(b) : b \in {B5581, B6775, B6776, B6779}}
            \cup {Other, None, B6775, B6776, B6779, B6104, B6116, B6796, B5581, NoHwm}

(* Contents that tell every two places apart: by a binary digit of their   *)
(* register, by device, or by a digit of their bit.                        *)
Places(k) ==
  {<<SetRegister(k, f, p)[1], SetRegister(k, f, p)[2], 3>> : f \in Field, p \in Ports(k)}
  \cup {<<Select(k)[p][1], GPIO_USE_SEL, Select(k)[p][2]>> : p \in Ports(k)}
Digits(k) ==
  {{h \in Places(k) : b \in Binary(h[2])} : b \in 0 .. 4}
  \cup {{h \in Places(k) : h[1] = ld} : ld \in {LD8, LD9}}
  \cup {{h \in Places(k) : b \in Binary(h[3])} : b \in 0 .. 2}

MCContents(b) ==
  CASE b.id = D42 -> IF b.loaded THEN {{}} ELSE {{}, {<<HWM, ENABLE, 0>>}}
    [] b.id # D42 /\ b.loaded -> Digits(b.name)
    [] OTHER -> {{}, Places(Identify(b.id, b.fb))}

(* The inversion of the NCT6116D.                                          *)
One == {"one"}
InverseJobs(b, c) ==
  {Load, Unload, Show("inverse"), Store("inverse", 8, 0, TRUE), Store("inverse", 7, 0, TRUE)}
Board6116  == {B6116}
Cleared(b) == {{}}
=============================================================================
