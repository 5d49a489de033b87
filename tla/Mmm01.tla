-------------------------------- MODULE Mmm01 --------------------------------
(***************************************************************************)
(* The MMM01 (gb_cart.{h,cpp}), the controller of the cartridges that hold *)
(* several games behind a menu.  It starts in the last banks of the ROM,   *)
(* where the menu is.  The menu sets the bits of the bank numbers that a   *)
(* game may not change and then sets the map bit, which locks them.        *)
(*                                                                         *)
(* Bytes, bank numbers and masks are the sets of their bits.  ROM and RAM  *)
(* have a power of two of banks, so that the modulo of the code keeps the  *)
(* lowest bits of a number.                                                *)
(***************************************************************************)
EXTENDS Integers

CONSTANTS
    MmmRoms,        \* the ROM files: bits of their numbers of banks of ROM and RAM
    MmmBytes        \* values written to the registers, as sets of bits

NoBank == -1        \* no RAM, or less than a bank of it

\* 256 KiB to 8 MiB of ROM; 8, 32, 64 or 128 KiB of RAM, or no bank of it
ASSUME MmmAssumption ==
    /\ MmmRoms \subseteq [rom : 4..9, ram : {NoBank, 0, 2, 3, 4}]
    /\ MmmBytes \subseteq SUBSET (0..7)

\* The fields of rom_bank_t and ram_bank_t
Low  == 0..4
Mid  == 5..6
High == 7..8
RamLow  == 0..1
RamHigh == 2..3

Shift(bits, n) == {b + n : b \in bits}

Closed == {NoBank}  \* A000 reads as FF, and writes are ignored

VARIABLES
    file,           \* the ROM file
    in_use,         \* mapped_to # nullptr
    used,           \* it was unmapped: the members are reset before the next use
    mbc,            \* the members of the controller
    bank0, bank1,   \* the banks of ROM mapped at 0000 and 4000
    ram_window      \* the bank of RAM mapped at A000

mmmVars == <<file, in_use, used, mbc, bank0, bank1, ram_window>>

Members == [
    rom_bank : SUBSET (0..8), ram_bank : SUBSET (0..3),
    rom_bank_nwrite_enable : SUBSET (1..4), ram_bank_nwrite_enable : SUBSET RamLow,
    ram_enabled : BOOLEAN, banking_mode : BOOLEAN, banking_mode_nwrite_enable : BOOLEAN,
    mapped : BOOLEAN, multiplex : BOOLEAN]

MmmTypeOK ==
    /\ file \in MmmRoms /\ in_use \in BOOLEAN /\ used \in BOOLEAN
    /\ mbc \in Members
    /\ bank0 \subseteq 0..(file.rom - 1) /\ bank1 \subseteq 0..(file.rom - 1)
    /\ ram_window = Closed \/ (file.ram # NoBank /\ ram_window \subseteq 0..(file.ram - 1))

-----------------------------------------------------------------------------
(* The windows                                                             *)

MapBank0(bank) == bank0' = bank \cap 0..(file.rom - 1)
MapBank1(bank) == bank1' = bank \cap 0..(file.rom - 1)
MapRamBankBeyond(bank) == ram_window' = IF file.ram = NoBank THEN ram_window ELSE bank  \* mutant
MapRamBank(bank) ==
    ram_window' = IF file.ram = NoBank THEN ram_window ELSE bank \cap 0..(file.ram - 1)

Banked == file.ram > 0      \* ram.size() > 0x2000

\* rom0_bank: the locked part of the lower bits
FixedBank(m) == (m.rom_bank \ Low) \cup (m.rom_bank \cap m.rom_bank_nwrite_enable)

\* rom1_bank: where all that a game may change is 0, 0 stands for 1
SwitchedBank(m) ==
    m.rom_bank \cup (IF (m.rom_bank \cap Low) \ m.rom_bank_nwrite_enable = {} THEN {0} ELSE {})

MenuBank == 1..8            \* 1FE

-----------------------------------------------------------------------------
(* Loading, mapping and unmapping                                          *)

NewMbc == [
    rom_bank |-> {}, ram_bank |-> {},
    rom_bank_nwrite_enable |-> {}, ram_bank_nwrite_enable |-> {},
    ram_enabled |-> FALSE, banking_mode |-> FALSE, banking_mode_nwrite_enable |-> FALSE,
    mapped |-> FALSE, multiplex |-> FALSE]

MmmInit ==
    /\ file \in MmmRoms
    /\ in_use = FALSE /\ used = FALSE
    /\ mbc = NewMbc
    /\ bank0 = {} /\ bank1 = {} /\ ram_window = Closed

\* cart::map to a new emulator
MmmMap ==
    /\ ~ in_use /\ in_use' = TRUE
    /\ mbc' = IF used THEN NewMbc ELSE mbc
    /\ MapBank0(MenuBank) /\ MapBank1(MenuBank \cup {0})
    /\ ram_window' = Closed
    /\ UNCHANGED <<file, used>>

\* cart::unmap, when its emulator is destroyed
MmmUnmap ==
    /\ in_use /\ in_use' = FALSE
    /\ used' = TRUE
    /\ UNCHANGED <<file, mbc, bank0, bank1, ram_window>>

\* Another ROM file takes its place
MmmLoad(f) ==
    /\ ~ in_use
    /\ file' = f /\ used' = FALSE
    /\ mbc' = NewMbc
    /\ bank0' = {} /\ bank1' = {} /\ ram_window' = Closed
    /\ UNCHANGED in_use

-----------------------------------------------------------------------------
(* Writes to the registers                                                 *)

\* set[mask] := bits
Replace(set, mask, bits) == (set \ mask) \cup (bits \cap mask)

\* The members after a write to 0000-1FFF: the menu may set the map bit
Enable(v) == [mbc EXCEPT
    !.ram_enabled = (v \cap (0..3) = {1, 3}),
    !.ram_bank_nwrite_enable = IF mbc.mapped THEN @ ELSE Shift(v \cap {4, 5}, -4),
    !.mapped = @ \/ 6 \in v]

MmmEnable(v) ==
    /\ mbc' = Enable(v)
    /\ \/ mbc'.ram_enabled = mbc.ram_enabled /\ UNCHANGED ram_window
       \/ /\ ~ mbc.ram_enabled /\ mbc'.ram_enabled
          /\ MapRamBank(IF mbc.banking_mode THEN mbc.ram_bank ELSE mbc.ram_bank \ RamLow)
       \/ mbc.ram_enabled /\ ~ mbc'.ram_enabled /\ ram_window' = Closed
    /\ \/ mbc'.mapped = mbc.mapped /\ UNCHANGED <<bank0, bank1>>
       \/ /\ ~ mbc.mapped /\ mbc'.mapped
          /\ MapBank0(FixedBank(mbc)) /\ MapBank1(SwitchedBank(mbc))

\* mutant: a game may write the locked bits
BankBitsUnlocked == Low \cup (IF mbc.mapped \/ mbc.multiplex THEN {} ELSE Mid)

\* The bits of rom_bank that a write to 2000-3FFF changes
BankBits == (Low \ mbc.rom_bank_nwrite_enable) \cup
            (IF mbc.mapped \/ mbc.multiplex THEN {} ELSE Mid)

\* When multiplexed, the menu sets the bank of RAM with the bits in the middle
MmmRomBank(v) ==
    LET swaps == ~ mbc.mapped /\ mbc.multiplex IN
    /\ mbc' = [mbc EXCEPT
           !.rom_bank = Replace(@, BankBits, v),
           !.ram_bank = IF swaps THEN Replace(@, RamLow, Shift(v \cap Mid, -5)) ELSE @]
    /\ IF swaps /\ mbc.ram_enabled /\ Banked THEN MapRamBank(mbc'.ram_bank) ELSE UNCHANGED ram_window
    /\ MapBank1(IF mbc.mapped THEN SwitchedBank(mbc') ELSE SwitchedBank(mbc') \cup MenuBank)
    /\ UNCHANGED bank0

\* The members after a write to 4000-5FFF: the lower bits of the bank of RAM
\* or, when multiplexed, the middle bits of the bank of ROM
UpperBits(v) ==
    LET free == RamLow \ mbc.ram_bank_nwrite_enable
        m == IF mbc.multiplex
             THEN [mbc EXCEPT !.rom_bank = Replace(@, Shift(free, 5), Shift(v, 5))]
             ELSE [mbc EXCEPT !.ram_bank = Replace(@, free, v)]
    IN  IF mbc.mapped THEN m
        ELSE [m EXCEPT !.ram_bank = Replace(@, RamHigh, v),
                       !.rom_bank = Replace(@, High, Shift(v, 3)),
                       !.banking_mode_nwrite_enable = (6 \in v)]

MmmRamBank(v) ==
    /\ mbc' = UpperBits(v)
    /\ IF mbc.ram_enabled /\ (~ mbc.mapped \/ (~ mbc.multiplex /\ mbc.banking_mode))
       THEN MapRamBank(mbc'.ram_bank) ELSE UNCHANGED ram_window
    /\ \/ /\ mbc.multiplex /\ mbc.mapped
          /\ IF mbc.banking_mode THEN MapBank0(FixedBank(mbc')) ELSE UNCHANGED bank0
          /\ MapBank1(SwitchedBank(mbc'))
       \/ ~ (mbc.multiplex /\ mbc.mapped) /\ UNCHANGED <<bank0, bank1>>

\* The members after a write to 6000-7FFF.  Turning the multiplexer on or off
\* swaps the bits that it exchanges.
Mode(v) ==
    LET m == [mbc EXCEPT !.banking_mode = IF mbc.banking_mode_nwrite_enable THEN @ ELSE 0 \in v]
        swap == (6 \in v) # mbc.multiplex
    IN  IF mbc.mapped THEN m
        ELSE [m EXCEPT
            !.rom_bank_nwrite_enable = Shift(v \cap (2..5), -1),
            !.multiplex = (6 \in v),
            !.rom_bank = IF swap THEN Replace(@, Mid, Shift(mbc.ram_bank, 5)) ELSE @,
            !.ram_bank = IF swap THEN Replace(@, RamLow, Shift(mbc.rom_bank, -5)) ELSE @]

\* mutant: remaps the lower bank whether or not the cartridge is mapped
ModeBankUnmapped ==
    /\ mbc.multiplex
    /\ mbc'.banking_mode # mbc.banking_mode /\ mbc.rom_bank \cap Mid # {}

\* In mode 0 the multiplexed bits of the lower bank are 0
ModeBank ==
    /\ mbc.mapped /\ mbc.multiplex
    /\ mbc'.banking_mode # mbc.banking_mode /\ mbc.rom_bank \cap Mid # {}

\* The mode of a bank of RAM that is not multiplexed; a swap maps all of it
ModeRam ==
    \/ /\ mbc'.multiplex # mbc.multiplex
       /\ MapRamBank(mbc'.ram_bank)
    \/ /\ mbc'.multiplex = mbc.multiplex
       /\ ~ mbc.multiplex /\ mbc'.banking_mode # mbc.banking_mode /\ mbc.ram_bank \cap RamLow # {}
       /\ MapRamBank(IF mbc'.banking_mode THEN mbc.ram_bank ELSE mbc.ram_bank \ RamLow)
    \/ /\ mbc'.multiplex = mbc.multiplex
       /\ mbc.multiplex \/ mbc'.banking_mode = mbc.banking_mode \/ mbc.ram_bank \cap RamLow = {}
       /\ UNCHANGED ram_window

MmmMode(v) ==
    /\ mbc' = Mode(v)
    /\ IF ModeBank
       THEN MapBank0(IF mbc'.banking_mode THEN FixedBank(mbc) ELSE FixedBank(mbc) \ Mid)
       ELSE UNCHANGED bank0
    /\ UNCHANGED bank1
    /\ IF mbc.ram_enabled /\ Banked THEN ModeRam ELSE UNCHANGED ram_window

\* The CPU writes v to the register at one of 0000, 2000, 4000, 6000
MmmWrite(v) ==
    /\ in_use
    /\ MmmEnable(v) \/ MmmRomBank(v) \/ MmmRamBank(v) \/ MmmMode(v)
    /\ UNCHANGED <<file, in_use, used>>

-----------------------------------------------------------------------------
MmmNext ==
    \/ MmmMap \/ MmmUnmap
    \/ \E f \in MmmRoms : MmmLoad(f)
    \/ \E v \in MmmBytes : MmmWrite(v)

MmmSpec == MmmInit /\ [][MmmNext]_mmmVars
-----------------------------------------------------------------------------
(* Properties                                                              *)

\* What the windows show follows from the members, although each register
\* updates only the windows it affects: the last banks until the cartridge is
\* mapped, then the selected ones.  While multiplexed, the lower bank may keep
\* middle bits of an earlier mode or bank (gb_cart.cpp:770-783, 862-873, 901-910).
MmmRomFollowsMembers ==
    in_use =>
        \/ /\ ~ mbc.mapped
           /\ bank0 = MenuBank \cap 0..(file.rom - 1)
           /\ bank1 \cup {0} = 0..(file.rom - 1)
        \/ /\ mbc.mapped
           /\ bank1 = SwitchedBank(mbc) \cap 0..(file.rom - 1)
           /\ LET hidden == IF mbc.multiplex THEN Mid ELSE {}
              IN  bank0 \ hidden = (FixedBank(mbc) \cap 0..(file.rom - 1)) \ hidden

\* The bits of bank numbers that the menu has locked
LockedBits == mbc.rom_bank_nwrite_enable \cup High \cup
              (IF mbc.multiplex THEN Shift(mbc.ram_bank_nwrite_enable, 5) ELSE Mid)
LockedBits0 == Low \cup High \cup (IF mbc.multiplex THEN {} ELSE Mid)

\* Once mapped, a game stays in the block of ROM that the menu chose for it:
\* no sequence of its writes changes a locked bit of the bank in a window, nor
\* a lock, nor the upper bits of the bank of RAM (gb_cart.cpp:765, 790-812, 836-849, 929).
GameStaysInBlock ==
    [][in_use /\ mbc.mapped /\ in_use' =>
        /\ bank1' \cap LockedBits = bank1 \cap LockedBits
        /\ bank0' \cap LockedBits0 = bank0 \cap LockedBits0
        /\ LockedBits' = LockedBits
        /\ mbc'.mapped /\ mbc'.ram_bank \cap RamHigh = mbc.ram_bank \cap RamHigh]_mmmVars

\* RAM is open exactly while it is enabled and there is some, and shows a bank
\* of the part of it that the upper bits select (gb_cart.cpp:743-763, 806-810,
\* 854-858, 916-924, 944-952).
RamWindowInPart ==
    in_use =>
        \/ ram_window = Closed /\ ~ (mbc.ram_enabled /\ file.ram # NoBank)
        \/ /\ mbc.ram_enabled /\ file.ram # NoBank
           /\ ram_window \cap RamHigh = (mbc.ram_bank \cap RamHigh) \cap 0..(file.ram - 1)

\* Both: whatever is written to the four registers, in whatever order, the
\* windows of ROM and RAM are those that the members call for, although each
\* register updates only some of them (gb_cart.cpp:732-956).
WindowsFollowMembers == MmmRomFollowsMembers /\ RamWindowInPart

\* "if not multiplexed then ram_bank_low switches between its real value and 0
\* based on the banking mode" (gb_cart.cpp:914)
ModeZeroHidesRamBank ==
    in_use /\ mbc.mapped /\ mbc.ram_enabled /\ ~ mbc.multiplex /\ ~ mbc.banking_mode /\ file.ram # NoBank
        => ram_window \cap RamLow = {}
=============================================================================
