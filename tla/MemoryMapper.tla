---------------------------- MODULE MemoryMapper ----------------------------
(***************************************************************************)
(* The memory mapper (gb_memory_mapper.cpp): who answers at an address.    *)
(*                                                                         *)
(* The PPU, the boot ROM, the cartridge and OAM DMA all map windows over   *)
(* one address space, some of them over each other, and replace them while *)
(* the program runs.  The mapper keeps one sorted vector and takes the     *)
(* first window that contains an address.  What it has not mapped are its  *)
(* own memories and registers, of which DIV is here.                       *)
(***************************************************************************)
EXTENDS Integers, Sequences

CONSTANTS
    Banks,          \* what the cartridge shows in a window
    Probes,         \* addresses looked up by the properties
    SmallRam,       \* last address of the RAM of a cartridge without controller
    DivStep,        \* cycles of one step of DIV: 256 in the code
    DivWrap,        \* where its 16 bits wrap around: 65536
    CounterWrap     \* where the cycle counter does: 2^32

ASSUME MapperAssumption ==
    /\ "unmapped" \notin Banks
    /\ Probes \subseteq Nat
    /\ SmallRam \in Nat /\ 40960 <= SmallRam /\ SmallRam <= 49151
    /\ DivStep \in Nat \ {0} /\ DivWrap \in Nat \ {0} /\ CounterWrap \in Nat \ {0}
    /\ DivWrap % DivStep = 0 /\ CounterWrap % DivWrap = 0

\* A mapping_key, the end inclusive
Window(first, last) == [start_address |-> first, end_address |-> last]

BootRom      == Window(0, 255)              \* 0000-00FF
Rom          == Window(0, 32767)            \* 0000-7FFF, without a controller
LowerRom     == Window(0, 16383)            \* 0000-3FFF
UpperRom     == Window(16384, 32767)        \* 4000-7FFF
VideoRam     == Window(32768, 40959)        \* 8000-9FFF
ExternalRam  == Window(40960, 49151)        \* A000-BFFF
PlainRam     == Window(40960, SmallRam)     \* its part there is, without a controller
Oam          == Window(65024, 65184)        \* FE00-FEA0
PpuRegisters == Window(65344, 65355)        \* FF40-FF4B

Windows == {BootRom, Rom, LowerRom, UpperRom, VideoRam, ExternalRam, PlainRam, Oam, PpuRegisters}
Contents == Banks \cup {"boot_rom", "vram", "oam", "registers", "nothing"}

VARIABLES
    mappings,           \* the vector: records of a window and what it shows
    stage,              \* "ppu", "boot", "cart", "run": what is mapped next
    controller,         \* the cartridge has one
    boot_rom_disable,
    failed,             \* remove_mapping has thrown
    timer_div_reset,
    clock               \* scheduler.get_cycle_counter()

(* What the properties compare with                                        *)
VARIABLES
    shown,          \* window -> what was mapped there last, "unmapped" if removed
    since           \* cycles since DIV was reset, below DivWrap

mapVars    == <<mappings, stage, controller, boot_rom_disable, failed, shown>>
divVars    == <<timer_div_reset, clock, since>>
mapperVars == <<mapVars, divVars>>

-----------------------------------------------------------------------------
(* The vector of mappings                                                  *)

\* mutant: operator< looks at the start only
BeforeByStart(v, w) == v.start_address < w.start_address

\* operator<
Before(v, w) ==
    \/ v.start_address < w.start_address
    \/ v.start_address = w.start_address /\ v.end_address < w.end_address

\* std::lower_bound: the first position that is not before the window
LowerBound(m, w) ==
    CHOOSE i \in 1..(Len(m) + 1) :
        /\ i <= Len(m) => ~ Before(m[i].window, w)
        /\ \A j \in 1..(i - 1) : Before(m[j].window, w)

IsAt(m, i, w) == i <= Len(m) /\ m[i].window = w

\* set_mapping
WithMapping(m, w, to) ==
    LET i == LowerBound(m, w)
        new == <<[window |-> w, to |-> to]>>
        rest == IF IsAt(m, i, w) THEN i + 1 ELSE i
    IN  SubSeq(m, 1, i - 1) \o new \o SubSeq(m, rest, Len(m))

\* remove_mapping, where there is such a mapping
WithoutMapping(m, w) ==
    LET i == LowerBound(m, w) IN SubSeq(m, 1, i - 1) \o SubSeq(m, i + 1, Len(m))

Contains(w, address) == w.start_address <= address /\ address <= w.end_address

\* find_mapping: what the first window that contains it shows
Lookup(m, address) ==
    LET found == {i \in 1..Len(m) : Contains(m[i].window, address)}
    IN  IF found = {} THEN "unmapped"
        ELSE m[CHOOSE i \in found : \A j \in found : i <= j].to

-----------------------------------------------------------------------------
(* Who maps what                                                           *)

\* Both windows at once or one
MapWindow(w, to) ==
    /\ mappings' = WithMapping(mappings, w, to)
    /\ shown' = [shown EXCEPT ![w] = to]

MapWindows(v, to_v, w, to_w) ==
    /\ mappings' = WithMapping(WithMapping(mappings, v, to_v), w, to_w)
    /\ shown' = [shown EXCEPT ![v] = to_v, ![w] = to_w]

\* The constructor of the PPU
Construct ==
    /\ stage = "ppu" /\ stage' = "boot"
    /\ mappings' = WithMapping(WithMapping(WithMapping(mappings,
           VideoRam, "vram"), Oam, "oam"), PpuRegisters, "registers")
    /\ shown' = [shown EXCEPT ![VideoRam] = "vram", ![Oam] = "oam", ![PpuRegisters] = "registers"]
    /\ UNCHANGED <<controller, boot_rom_disable, failed, divVars>>

\* load_boot_rom, before the cartridge
LoadBootRom ==
    /\ stage = "boot" /\ stage' = "cart"
    /\ boot_rom_disable' = FALSE
    /\ MapWindow(BootRom, "boot_rom")
    /\ UNCHANGED <<controller, failed, divVars>>

\* map_to, with a controller (whose RAM appears later) or without (RAM or none)
MapCart(banks) ==
    /\ stage = "cart" /\ stage' = "run"
    /\ \/ /\ controller
          /\ MapWindows(LowerRom, banks[1], UpperRom, banks[2])
       \/ /\ ~ controller
          /\ \/ MapWindow(Rom, banks[1])
             \/ MapWindows(Rom, banks[1], PlainRam, banks[2])
    /\ UNCHANGED <<controller, boot_rom_disable, failed, divVars>>

\* The handlers of the controller: banks of ROM, and RAM opened and closed
SwitchBank(w, to) ==
    /\ stage = "run" /\ controller
    /\ w \in {LowerRom, UpperRom, ExternalRam}
    /\ to = "nothing" => w = ExternalRam
    /\ MapWindow(w, to)
    /\ UNCHANGED <<stage, controller, boot_rom_disable, failed, divVars>>

\* OAM DMA takes OAM away and gives it back.
SwitchOam(to) ==
    /\ stage = "run"
    /\ MapWindow(Oam, to)
    /\ UNCHANGED <<stage, controller, boot_rom_disable, failed, divVars>>

\* update_stat in H-blank, and with the LCD off
RestoreAccess ==
    /\ stage = "run"
    /\ MapWindows(Oam, "oam", VideoRam, "vram")
    /\ UNCHANGED <<stage, controller, boot_rom_disable, failed, divVars>>

\* mutant: without the test of boot_rom_disable
WriteFF50Again ==
    /\ stage = "run"
    /\ boot_rom_disable' = TRUE
    /\ \/ /\ IsAt(mappings, LowerBound(mappings, BootRom), BootRom)
          /\ mappings' = WithoutMapping(mappings, BootRom)
          /\ shown' = [shown EXCEPT ![BootRom] = "unmapped"]
          /\ UNCHANGED failed
       \/ /\ ~ IsAt(mappings, LowerBound(mappings, BootRom), BootRom)
          /\ failed' = TRUE
          /\ UNCHANGED <<mappings, shown>>
    /\ UNCHANGED <<stage, controller, divVars>>

\* A write of FF50 removes the boot ROM, for good.
WriteFF50 ==
    /\ stage = "run"
    /\ ~ boot_rom_disable /\ boot_rom_disable' = TRUE
    /\ \/ /\ IsAt(mappings, LowerBound(mappings, BootRom), BootRom)
          /\ mappings' = WithoutMapping(mappings, BootRom)
          /\ shown' = [shown EXCEPT ![BootRom] = "unmapped"]
          /\ UNCHANGED failed
       \/ /\ ~ IsAt(mappings, LowerBound(mappings, BootRom), BootRom)
          /\ failed' = TRUE
          /\ UNCHANGED <<mappings, shown>>
    /\ UNCHANGED <<stage, controller, divVars>>

-----------------------------------------------------------------------------
(* DIV counts since it was written last, with no state of its own.         *)

\* read8(0xFF04): (uint16_t)(counter - timer_div_reset) >> 8
Div == (((clock - timer_div_reset) % CounterWrap) % DivWrap) \div DivStep

\* mutant: the counter starts again from where a step of DIV began
WriteDivInStep ==
    /\ stage = "run"
    /\ timer_div_reset' = clock - (clock % DivStep) /\ since' = 0
    /\ UNCHANGED <<mapVars, clock>>

\* write8(0xFF04)
WriteDiv ==
    /\ stage = "run"
    /\ timer_div_reset' = clock /\ since' = 0
    /\ UNCHANGED <<mapVars, clock>>

Pass ==
    /\ stage = "run"
    /\ clock' = (clock + 1) % CounterWrap
    /\ since' = (since + 1) % DivWrap
    /\ UNCHANGED <<mapVars, timer_div_reset>>

-----------------------------------------------------------------------------
MapperInit ==
    /\ mappings = <<>> /\ stage = "ppu" /\ controller \in BOOLEAN
    /\ boot_rom_disable = TRUE /\ failed = FALSE
    /\ shown = [w \in Windows |-> "unmapped"]
    /\ timer_div_reset = 0 /\ clock = 0 /\ since = 0

MapperNext ==
    \/ Construct
    \/ LoadBootRom
    \/ \E first, second \in Banks : MapCart(<<first, second>>)
    \/ \E w \in Windows, to \in Banks \cup {"nothing"} : SwitchBank(w, to)
    \/ \E to \in {"oam", "nothing"} : SwitchOam(to)
    \/ RestoreAccess
    \/ WriteFF50
    \/ WriteDiv
    \/ Pass

MapperSpec == MapperInit /\ [][MapperNext]_mapperVars

-----------------------------------------------------------------------------
(* Properties                                                              *)

Mapped == {w \in Windows : shown[w] # "unmapped"}

Within(v, w) == w.start_address <= v.start_address /\ v.end_address <= w.end_address

\* Whoever has mapped the narrowest window there
Owner(address) ==
    LET around == {w \in Mapped : Contains(w, address)}
    IN  IF around = {} THEN "unmapped"
        ELSE shown[CHOOSE w \in around : \A v \in around : Within(w, v)]

\* However often banks, OAM and video RAM are mapped again, at every address
\* the narrowest window answers, with what was mapped there last: the boot ROM
\* hides the cartridge until FF50 is written, which always finds it, and
\* uncovers the bank that is mapped by then (gb_memory_mapper.cpp:264-348).
LookupFindsOwner ==
    /\ \A address \in Probes : Lookup(mappings, address) = Owner(address)
    /\ ~ failed

\* DIV shows the time since it was written, exactly, although it is computed
\* from a counter that does not stop, wraps around elsewhere and counts other
\* steps (gb_memory_mapper.cpp:70-74, 203-207).
DivFollowsReset == Div = since \div DivStep
=============================================================================
