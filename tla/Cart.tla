-------------------------------- MODULE Cart --------------------------------
(***************************************************************************)
(* Cartridges with a memory bank controller (gb_cart.{h,cpp}): the writes  *)
(* of the CPU to the controller's registers, the banks of ROM and RAM that *)
(* they map, and the life of a cartridge that is mapped to an emulator,    *)
(* unmapped with it and mapped to the next one.                            *)
(*                                                                         *)
(* The code updates the mappings piece by piece as registers change.  Next *)
(* to its registers the model keeps the bytes the CPU wrote, so that the   *)
(* mappings can be compared with what those bytes select.                  *)
(***************************************************************************)
EXTENDS Integers

CONSTANTS
    Carts,          \* the ROM files that can be loaded
    Bytes           \* values written to the registers

Kind == {"null", "mbc1", "mbc2", "mbc3", "mbc5"}

\* Sizes are in banks of 16 KiB of ROM and units of 2 KiB of RAM; the 512
\* half-bytes inside an MBC2 count as one unit.
Unit == 4           \* units of RAM per bank of 8 KiB

\* What the constructors let through, and at least two banks: a file with a
\* single one would be mapped past its end
ASSUME CartAssumption ==
    /\ Bytes \subseteq 0..255
    /\ Carts \subseteq [kind : Kind, multicart : BOOLEAN, rom : Nat, ram : Nat]
    /\ \A c \in Carts :
        /\ c.rom >= 2 /\ c.ram \in {0, 1, 4, 16, 32, 64}
        /\ c.kind = "mbc1" => ~ (c.rom > 32 /\ c.ram > Unit)
        /\ c.kind = "mbc2" => c.ram = 1
        /\ c.multicart => <<c.kind, c.rom>> \in {<<"mbc1", 64>>, <<"mbc3", 16>>}

None == -1          \* reads as FF, and writes are ignored
Handler == -2       \* MBC2 answers itself

VARIABLES
    cart,           \* the ROM file
    mapped, reset,  \* mapped_to # nullptr; the registers are reset before the next use
    thrown,         \* a write threw an exception
    rom_bank, ram_bank, ram_enabled, banking_mode,  \* the members of the controller
    rom0, rom1,     \* the banks of ROM mapped at 0000 and 4000
    rom1_writes,    \* writes to 4000-7FFF reach handle_write
    ram,            \* the unit of RAM mapped at A000
    written         \* the last byte written to every register since it was reset

life      == <<cart, mapped, reset>>
registers == <<rom_bank, ram_bank, ram_enabled, banking_mode>>
windows   == <<rom0, rom1, rom1_writes, ram>>
vars      == <<life, thrown, registers, windows, written>>

Register == {"enable", "rom", "rom_high", "bank", "mode"}
Fresh == [r \in Register |-> IF r = "rom" THEN 1 ELSE 0]

TypeOK ==
    /\ cart \in Carts
    /\ mapped \in BOOLEAN /\ reset \in BOOLEAN /\ thrown \in BOOLEAN
    /\ rom_bank \in 0..511 /\ ram_bank \in 0..15
    /\ ram_enabled \in BOOLEAN /\ banking_mode \in 0..1
    /\ rom0 \in 0..(cart.rom - 1) /\ rom1 \in 0..(cart.rom - 1)
    /\ rom1_writes \in BOOLEAN
    /\ ram \in {None, Handler} \cup Nat /\ (ram >= 0 => ram < cart.ram)
    /\ written \in [Register -> 0..255]

-----------------------------------------------------------------------------
(* Loading, mapping and unmapping                                          *)

Is(kind) == cart.kind = kind

\* The members of a controller that was just constructed
ResetRegisters ==
    /\ rom_bank' = 1 /\ ram_bank' = 0
    /\ ram_enabled' = FALSE /\ banking_mode' = 0
    /\ written' = Fresh

Init ==
    /\ cart \in Carts
    /\ mapped = FALSE /\ reset = FALSE /\ thrown = FALSE
    /\ rom_bank = 1 /\ ram_bank = 0 /\ ram_enabled = FALSE /\ banking_mode = 0
    /\ rom0 = 0 /\ rom1 = 1 /\ rom1_writes = FALSE /\ ram = None
    /\ written = Fresh

\* mutant: the registers keep their values when the cartridge is used again
MapNoReset ==
    /\ ~ mapped /\ ~ thrown /\ mapped' = TRUE
    /\ UNCHANGED <<registers, written>>
    /\ rom0' = 0 /\ rom1' = 1
    /\ rom1_writes' = (cart.kind \in {"mbc1", "mbc3", "mbc5"})
    /\ ram' = IF Is("null") /\ cart.ram > 0 THEN 0 ELSE None
    /\ UNCHANGED <<cart, reset, thrown>>

\* cart::map to a new emulator, which has mapped nothing at A000 yet
Map ==
    /\ ~ mapped /\ ~ thrown /\ mapped' = TRUE
    /\ IF reset THEN ResetRegisters ELSE UNCHANGED <<registers, written>>
    /\ rom0' = 0 /\ rom1' = 1
    /\ rom1_writes' = (cart.kind \in {"mbc1", "mbc3", "mbc5"})
    /\ ram' = IF Is("null") /\ cart.ram > 0 THEN 0 ELSE None
    /\ UNCHANGED <<cart, reset, thrown>>

\* cart::unmap, when its emulator is destroyed
Unmap ==
    /\ mapped /\ mapped' = FALSE
    /\ reset' = TRUE
    /\ UNCHANGED <<cart, thrown, registers, windows, written>>

\* Another ROM file takes its place
Load(c) ==
    /\ ~ mapped /\ ~ thrown
    /\ cart' = c /\ reset' = FALSE
    /\ ResetRegisters
    /\ rom0' = 0 /\ rom1' = 1 /\ rom1_writes' = FALSE /\ ram' = None
    /\ UNCHANGED <<mapped, thrown>>

-----------------------------------------------------------------------------
(* Writes to the registers                                                 *)

Larger(a, b) == IF a > b THEN a ELSE b

MapRom0(bank) == rom0' = bank % cart.rom
MapRom1(bank) == rom1' = bank % cart.rom

\* mutant: does not wrap around at the end of the RAM
MapRamBeyond(bank) == ram' = IF cart.ram >= Unit THEN bank * Unit ELSE ram

\* mbc_base::map_ram; RAM smaller than a bank is not mapped
MapRam(bank) == ram' = IF cart.ram >= Unit THEN (bank * Unit) % cart.ram ELSE ram
UnmapRam == ram' = IF cart.ram > 0 THEN None ELSE ram

\* How far the upper bits of the bank number are shifted: MBC1 multicarts use
\* four bits of the lower register
Outer == IF cart.multicart THEN 16 ELSE 32

\* mutant: enabling maps the selected bank in both modes
Mbc1EnableBanked(v) ==
    /\ ram_enabled' = (v % 16 = 10)
    /\ \/ ram_enabled' = ram_enabled /\ UNCHANGED ram
       \/ ~ ram_enabled /\ ram_enabled' /\ MapRam(ram_bank)
       \/ ram_enabled /\ ~ ram_enabled' /\ UnmapRam
    /\ UNCHANGED <<rom_bank, ram_bank, banking_mode, rom0, rom1, rom1_writes>>

Mbc1Enable(v) ==
    /\ ram_enabled' = (v % 16 = 10)
    /\ \/ ram_enabled' = ram_enabled /\ UNCHANGED ram
       \/ ~ ram_enabled /\ ram_enabled' /\ MapRam(IF banking_mode = 1 THEN ram_bank ELSE 0)
       \/ ram_enabled /\ ~ ram_enabled' /\ UnmapRam
    /\ UNCHANGED <<rom_bank, ram_bank, banking_mode, rom0, rom1, rom1_writes>>

\* The lower five bits of the bank number; 0 stands for 1
Mbc1Rom(v) ==
    /\ rom_bank' = (rom_bank \div Outer) * Outer + (Larger(v % 32, 1) % Outer)
    /\ MapRom1(rom_bank')
    /\ UNCHANGED <<ram_bank, ram_enabled, banking_mode, rom0, rom1_writes, ram>>

\* The upper two bits of the bank number, or the bank of RAM
Mbc1Bank(v) ==
    /\ ram_bank' = v % 4
    /\ rom_bank' = (rom_bank % Outer) + ram_bank' * Outer
    /\ MapRom1(rom_bank')
    /\ IF banking_mode = 1 THEN MapRom0(ram_bank' * Outer) ELSE UNCHANGED rom0
    /\ IF banking_mode = 1 /\ ram_enabled /\ cart.ram > Unit THEN MapRam(ram_bank') ELSE UNCHANGED ram
    /\ UNCHANGED <<ram_enabled, banking_mode, rom1_writes>>

\* Mode 0 maps the first banks at 0000 and A000, mode 1 the selected ones
Mbc1Mode(v) ==
    /\ banking_mode' = v % 2
    /\ \/ banking_mode' = banking_mode /\ UNCHANGED <<rom0, ram>>
       \/ /\ banking_mode' # banking_mode /\ banking_mode' = 0
          /\ MapRom0(0)
          /\ IF ram_enabled /\ cart.ram > Unit /\ ram_bank # 0 THEN MapRam(0) ELSE UNCHANGED ram
       \/ /\ banking_mode' # banking_mode /\ banking_mode' = 1
          /\ MapRom0(ram_bank * Outer)
          /\ IF ram_enabled /\ cart.ram > Unit THEN MapRam(ram_bank) ELSE UNCHANGED ram
    /\ UNCHANGED <<rom_bank, ram_bank, ram_enabled, rom1, rom1_writes>>

Mbc2Enable(v) ==
    /\ ram_enabled' = (v % 16 = 10)
    /\ \/ ram_enabled' = ram_enabled /\ UNCHANGED ram
       \/ ~ ram_enabled /\ ram_enabled' /\ ram' = Handler
       \/ ram_enabled /\ ~ ram_enabled' /\ UnmapRam
    /\ UNCHANGED <<rom_bank, ram_bank, banking_mode, rom0, rom1, rom1_writes>>

Mbc2Rom(v) ==
    /\ rom_bank' = (rom_bank \div 16) * 16 + Larger(v % 16, 1)
    /\ MapRom1(rom_bank')
    /\ rom1_writes' = FALSE
    /\ UNCHANGED <<ram_bank, ram_enabled, banking_mode, rom0, ram>>

\* MBC3 and MBC5: "if (ram_enabled != !old_ram_enabled)"
Mbc35Enable(v) ==
    /\ ram_enabled' = (v % 16 = 10)
    /\ \/ ram_enabled' # ram_enabled /\ UNCHANGED ram
       \/ ram_enabled /\ ram_enabled' /\ MapRam(ram_bank)
       \/ ~ ram_enabled /\ ~ ram_enabled' /\ UnmapRam
    /\ UNCHANGED <<rom_bank, ram_bank, banking_mode, rom0, rom1, rom1_writes>>

Mbc3Rom(v) ==
    /\ rom_bank' = Larger(v % 128, 1)
    /\ IF cart.multicart THEN UNCHANGED rom1 ELSE MapRom1(rom_bank')
    /\ UNCHANGED <<ram_bank, ram_enabled, banking_mode, rom0, rom1_writes, ram>>

\* The bank of RAM; in a multicart, the pair of banks of ROM
Mbc3Bank(v) ==
    /\ (v \div 8) % 2 = 0
    /\ ram_bank' = v % 8
    /\ \/ /\ ~ cart.multicart
          /\ IF ram_enabled /\ cart.ram > Unit THEN MapRam(ram_bank') ELSE UNCHANGED ram
          /\ UNCHANGED <<rom0, rom1>>
       \/ /\ cart.multicart
          /\ MapRom0(ram_bank' * 2) /\ MapRom1(ram_bank' * 2 + 1)
          /\ UNCHANGED ram
    /\ UNCHANGED <<rom_bank, ram_enabled, banking_mode, rom1_writes>>

\* The lower eight bits of the bank number.  The new mapping ignores writes.
Mbc5Rom(v) ==
    /\ rom_bank' = (rom_bank \div 256) * 256 + v
    /\ MapRom1(rom_bank')
    /\ rom1_writes' = FALSE
    /\ UNCHANGED <<ram_bank, ram_enabled, banking_mode, rom0, ram>>

Mbc5RomHigh(v) ==
    /\ rom_bank' = (v % 2) * 256 + (rom_bank % 256)
    /\ MapRom1(rom_bank')
    /\ rom1_writes' = FALSE
    /\ UNCHANGED <<ram_bank, ram_enabled, banking_mode, rom0, ram>>

Mbc5Bank(v) ==
    /\ ram_bank' = v % 16
    /\ IF ram_enabled /\ cart.ram > Unit THEN MapRam(ram_bank') ELSE UNCHANGED ram
    /\ UNCHANGED <<rom_bank, ram_enabled, banking_mode, rom0, rom1, rom1_writes>>

\* handle_write of the controller, or the mapping that ignores the write
HandleWrite(r, v) ==
    \/ Is("mbc1") /\ \/ r = "enable" /\ Mbc1Enable(v)
                     \/ r = "rom" /\ Mbc1Rom(v)
                     \/ r = "bank" /\ Mbc1Bank(v)
                     \/ r = "mode" /\ Mbc1Mode(v)
    \/ Is("mbc2") /\ \/ r = "enable" /\ Mbc2Enable(v)
                     \/ r = "rom" /\ Mbc2Rom(v)
    \/ Is("mbc3") /\ \/ r = "enable" /\ Mbc35Enable(v)
                     \/ r = "rom" /\ Mbc3Rom(v)
                     \/ r = "bank" /\ Mbc3Bank(v)
    \/ Is("mbc5") /\ \/ r = "enable" /\ Mbc35Enable(v)
                     \/ r = "rom" /\ Mbc5Rom(v)
                     \/ r = "rom_high" /\ Mbc5RomHigh(v)
                     \/ r = "bank" /\ rom1_writes /\ Mbc5Bank(v)
                     \/ r = "bank" /\ ~ rom1_writes /\ UNCHANGED <<registers, windows>>

\* The CPU writes v to register r
Write(r, v) ==
    /\ mapped /\ ~ thrown
    /\ HandleWrite(r, v)
    /\ written' = [written EXCEPT ![r] = v]
    /\ UNCHANGED <<life, thrown>>

\* Registers of the clock: "mbc3 timer not supported"
SelectClock(v) ==
    /\ mapped /\ ~ thrown
    /\ Is("mbc3") /\ (v \div 8) % 2 = 1
    /\ thrown' = TRUE
    /\ UNCHANGED <<life, registers, windows, written>>

-----------------------------------------------------------------------------
Next ==
    \/ Map \/ Unmap
    \/ \E c \in Carts : Load(c)
    \/ \E r \in Register, v \in Bytes : Write(r, v)
    \/ \E v \in Bytes : SelectClock(v)

Spec == Init /\ [][Next]_vars
-----------------------------------------------------------------------------
(* Properties                                                              *)

\* The bank that the bytes written to the registers select for 4000-7FFF
SelectedRom1 ==
    CASE Is("null") -> 1
      [] Is("mbc1") -> (written["bank"] % 4) * Outer + (Larger(written["rom"] % 32, 1) % Outer)
      [] Is("mbc2") -> Larger(written["rom"] % 16, 1)
      [] Is("mbc3") -> IF cart.multicart THEN (written["bank"] % 8) * 2 + 1
                                         ELSE Larger(written["rom"] % 128, 1)
      [] Is("mbc5") -> (written["rom_high"] % 2) * 256 + written["rom"]

\* And for 0000-3FFF
SelectedRom0 ==
    CASE Is("mbc1") /\ written["mode"] % 2 = 1 -> (written["bank"] % 4) * Outer
      [] Is("mbc3") /\ cart.multicart -> (written["bank"] % 8) * 2
      [] OTHER -> 0

\* Whatever the order in which the registers are written, and also after a
\* reset that uses the cartridge again, the mapped banks of ROM are the ones
\* that the registers select (gb_cart.cpp:355-450, 486-494, 569-618, 685-699).
RomFollowsRegisters ==
    mapped => rom0 = SelectedRom0 % cart.rom /\ rom1 = SelectedRom1 % cart.rom

RamEnabled == written["enable"] % 16 = 10

\* RAM is accessible exactly while it is enabled, in MBC1 with the bank that
\* the registers select in the current mode (gb_cart.cpp:329-354, 384-450, 467-485).
RamFollowsRegisters ==
    /\ Is("mbc1") /\ mapped /\ cart.ram >= Unit =>
         ram = IF ~ RamEnabled THEN None
               ELSE IF written["mode"] % 2 = 0 THEN 0
               ELSE ((written["bank"] % 4) * Unit) % cart.ram
    /\ Is("mbc2") /\ mapped => ram = IF RamEnabled THEN Handler ELSE None

\* "Writing a value in range for 00h-0Fh maps the corresponding external RAM
\* Bank (if any)" (gb_cart.cpp:702)
BankIsObeyed == Is("mbc5") /\ mapped => ram_bank = written["bank"] % 16
=============================================================================
