--------------------------- MODULE CartSlotProofs ---------------------------
(***************************************************************************)
(* Proofs about the cartridges, for every size of ROM and RAM and every    *)
(* value written.                                                          *)
(*                                                                         *)
(* Cart: the members of a controller always hold what the bytes written to *)
(* its registers say (Decoded), which makes every piecemeal update of a    *)
(* mapping agree with the bank that those bytes select.                    *)
(*                                                                         *)
(* Mmm01: the windows follow from the members (MmmRomFollowsMembers), and  *)
(* no write of a mapped cartridge changes a locked bit of the members: so  *)
(* the windows stay in the block of ROM that the menu chose.               *)
(*                                                                         *)
(* CartSlot: the two hold for the cartridges of an emulator one after the  *)
(* other.                                                                  *)
(***************************************************************************)
EXTENDS CartSlot, TLAPS


\* The types of the members, and of the bytes written
Types ==
    /\ cart \in Carts
    /\ mapped \in BOOLEAN /\ reset \in BOOLEAN /\ thrown \in BOOLEAN
    /\ rom_bank \in 0..511 /\ ram_bank \in 0..15
    /\ ram_enabled \in BOOLEAN /\ banking_mode \in 0..1
    /\ written \in [Register -> 0..255]
    /\ rom1_writes \in BOOLEAN

\* The members hold what was written
Decoded ==
    /\ Is("mbc1") =>
        /\ rom_bank = (written["bank"] % 4) * Outer + (Larger(written["rom"] % 32, 1) % Outer)
        /\ ram_bank = written["bank"] % 4
        /\ banking_mode = written["mode"] % 2
    /\ Is("mbc2") => rom_bank = Larger(written["rom"] % 16, 1)
    /\ Is("mbc3") => ram_bank = written["bank"] % 8
    /\ Is("mbc5") => rom_bank = (written["rom_high"] % 2) * 256 + written["rom"]

\* A cartridge that need not be reset is as good as new
NewIsFresh == ~ mapped /\ ~ reset => written = Fresh

RomInv == Types /\ Decoded /\ NewIsFresh /\ RomFollowsRegisters

-----------------------------------------------------------------------------
(* Arithmetic                                                              *)

\* Bank numbers wrap around at the size of the ROM (gb_cart.cpp:374).
LEMMA Modulo ==
    ASSUME NEW n \in Nat, n >= 2
    PROVE  /\ 0 % n = 0 /\ 1 % n = 1
           /\ \A x \in Nat : x % n \in 0..(n - 1)
OBVIOUS

\* A bank number is put together of its outer and its inner part, and the two
\* can be taken apart again (gb_cart.cpp:363-372, 386-394, 688, 696).
LEMMA Parts ==
    ASSUME NEW k \in {16, 32, 256}, NEW a \in 0..15, NEW b \in 0..(k - 1)
    PROVE  /\ (a * k + b) \div k = a
           /\ (a * k + b) % k = b
<1>1. CASE k = 16
    BY <1>1
<1>2. CASE k = 32
    BY <1>2
<1>3. CASE k = 256
    BY <1>3
<1> QED
    BY <1>1, <1>2, <1>3

\* The inner part fits into its bits.
LEMMA Inner ==
    ASSUME NEW k \in {16, 32}, NEW x \in 1..31
    PROVE  x % k \in 0..(k - 1)
<1>1. CASE k = 16
    BY <1>1
<1>2. CASE k = 32
    BY <1>2
<1> QED
    BY <1>1, <1>2

\* The fields of a byte (gb_cart.h:93-97, 107-108, 122-124, 139-141).
LEMMA Fields ==
    ASSUME NEW v \in 0..255
    PROVE  /\ v % 2 \in 0..1 /\ v % 4 \in 0..3 /\ v % 8 \in 0..7 /\ v % 16 \in 0..15
           /\ Larger(v % 16, 1) \in 1..15
           /\ Larger(v % 32, 1) \in 1..31
           /\ Larger(v % 128, 1) \in 1..127
BY DEF Larger

\* Every cartridge has two banks of ROM at least.
LEMMA CartHasBanks ==
    ASSUME cart \in Carts
    PROVE  cart.rom \in Nat /\ cart.rom >= 2
BY CartAssumption

\* The bytes that were written are bytes.
LEMMA WrittenBytes ==
    ASSUME Types
    PROVE  \A q \in Register : written[q] \in 0..255
BY DEF Types

-----------------------------------------------------------------------------
(* Writes                                                                  *)

\* MBC1: the bank number follows both registers, and the two windows follow
\* the bank number and the mode (gb_cart.cpp:355-450).
LEMMA Mbc1Write ==
    ASSUME RomInv, Is("mbc1"), NEW r \in Register, NEW v \in 0..255, mapped,
           HandleWrite(r, v), written' = [written EXCEPT ![r] = v], cart' = cart
    PROVE  /\ rom_bank' = (written'["bank"] % 4) * Outer + (Larger(written'["rom"] % 32, 1) % Outer)
           /\ ram_bank' = written'["bank"] % 4
           /\ banking_mode' = written'["mode"] % 2
           /\ rom1' = rom_bank' % cart.rom
           /\ rom0' = (IF written'["mode"] % 2 = 1 THEN (written'["bank"] % 4) * Outer ELSE 0) % cart.rom
           /\ rom_bank' \in 0..511 /\ ram_bank' \in 0..15
           /\ ram_enabled' \in BOOLEAN /\ rom1_writes' = rom1_writes
<1> DEFINE high == written["bank"] % 4
           low  == Larger(written["rom"] % 32, 1) % Outer
<1>1. Outer \in {16, 32}
    BY DEF Outer
<1>2. /\ high \in 0..3 /\ low \in 0..(Outer - 1) /\ low \in Nat
      /\ v % 4 \in 0..3 /\ v % 2 \in 0..1
      /\ Larger(v % 32, 1) % Outer \in 0..(Outer - 1)
    <2>1. written["bank"] \in 0..255 /\ written["rom"] \in 0..255
        BY WrittenBytes DEF RomInv, Register
    <2>2. /\ high \in 0..3 /\ v % 4 \in 0..3 /\ v % 2 \in 0..1
          /\ Larger(written["rom"] % 32, 1) \in 1..31 /\ Larger(v % 32, 1) \in 1..31
        BY <2>1, Fields
    <2>3. low \in 0..(Outer - 1) /\ Larger(v % 32, 1) % Outer \in 0..(Outer - 1)
        BY <1>1, <2>2, Inner
    <2> QED
        BY <1>1, <2>2, <2>3
<1>3. /\ rom_bank = high * Outer + low /\ ram_bank = high /\ banking_mode = written["mode"] % 2
    BY DEF RomInv, Decoded
<1>4. rom_bank \div Outer = high /\ rom_bank % Outer = low
    <2>1. high \in 0..15 /\ low \in 0..(Outer - 1) /\ Outer \in {16, 32, 256}
        BY <1>1, <1>2
    <2>2. (high * Outer + low) \div Outer = high /\ (high * Outer + low) % Outer = low
        BY <2>1, Parts
    <2> QED
        BY <1>3, <2>2
<1>5. rom0 = (IF banking_mode = 1 THEN high * Outer ELSE 0) % cart.rom /\ rom1 = rom_bank % cart.rom
    <2>1. SelectedRom1 = high * Outer + low
        BY DEF SelectedRom1, Is
    <2>2. SelectedRom0 = IF banking_mode = 1 THEN high * Outer ELSE 0
        BY <1>3 DEF SelectedRom0, Is
    <2> QED
        BY <1>3, <2>1, <2>2 DEF RomInv, RomFollowsRegisters
<1>6. /\ written \in [Register -> 0..255]
      /\ rom_bank \in 0..511 /\ ram_bank \in 0..15 /\ ram_enabled \in BOOLEAN
    BY DEF RomInv, Types
<1>7. \/ r = "enable" /\ Mbc1Enable(v)
      \/ r = "rom" /\ Mbc1Rom(v)
      \/ r = "bank" /\ Mbc1Bank(v)
      \/ r = "mode" /\ Mbc1Mode(v)
    BY DEF HandleWrite, Is
<1>8. CASE r = "enable" /\ Mbc1Enable(v)
    <2>1. written'["bank"] = written["bank"] /\ written'["rom"] = written["rom"] /\ written'["mode"] = written["mode"]
        BY <1>6, <1>8 DEF Register
    <2> QED
        BY <1>3, <1>5, <1>6, <1>8, <2>1 DEF Mbc1Enable
<1>9. CASE r = "rom" /\ Mbc1Rom(v)
    <2>1. written'["bank"] = written["bank"] /\ written'["rom"] = v /\ written'["mode"] = written["mode"]
        BY <1>6, <1>9 DEF Register
    <2>2. rom_bank' = high * Outer + (Larger(v % 32, 1) % Outer)
        BY <1>4, <1>9 DEF Mbc1Rom
    <2>3. rom_bank' \in 0..511
        BY <1>1, <1>2, <2>2
    <2> QED
        BY <1>3, <1>5, <1>6, <1>9, <2>1, <2>2, <2>3 DEF Mbc1Rom, MapRom1
<1>10. CASE r = "bank" /\ Mbc1Bank(v)
    <2>1. written'["bank"] = v /\ written'["rom"] = written["rom"] /\ written'["mode"] = written["mode"]
        BY <1>6, <1>10 DEF Register
    <2>2. ram_bank' = v % 4 /\ rom_bank' = (v % 4) * Outer + low
        BY <1>1, <1>2, <1>4, <1>10 DEF Mbc1Bank
    <2>3. rom_bank' \in 0..511 /\ ram_bank' \in 0..15
        BY <1>1, <1>2, <2>2
    <2>4. rom0' = (IF written'["mode"] % 2 = 1 THEN (written'["bank"] % 4) * Outer ELSE 0) % cart.rom
        BY <1>3, <1>5, <1>10, <2>1, <2>2 DEF Mbc1Bank, MapRom0
    <2> QED
        BY <1>3, <1>6, <1>10, <2>1, <2>2, <2>3, <2>4 DEF Mbc1Bank, MapRom1
<1>11. CASE r = "mode" /\ Mbc1Mode(v)
    <2>1. written'["bank"] = written["bank"] /\ written'["rom"] = written["rom"] /\ written'["mode"] = v
        BY <1>6, <1>11 DEF Register
    <2>2. banking_mode' = v % 2 /\ rom_bank' = rom_bank /\ ram_bank' = high
        BY <1>3, <1>11 DEF Mbc1Mode
    <2>3. rom0' = (IF v % 2 = 1 THEN high * Outer ELSE 0) % cart.rom
        BY <1>2, <1>3, <1>5, <1>11 DEF Mbc1Mode, MapRom0
    <2>4. rom1' = rom1 /\ rom1_writes' = rom1_writes /\ ram_enabled' = ram_enabled
        BY <1>11 DEF Mbc1Mode
    <2>5. rom_bank' = high * Outer + low
        BY <1>3, <2>2
    <2>6. rom_bank' \in 0..511 /\ ram_bank' \in 0..15
        BY <1>2, <1>6, <2>2
    <2> QED
        BY <1>5, <1>6, <2>1, <2>2, <2>3, <2>4, <2>5, <2>6
<1> QED
    BY <1>7, <1>8, <1>9, <1>10, <1>11

\* MBC2: the lower four bits, never 0 (gb_cart.cpp:486-494).
LEMMA Mbc2Write ==
    ASSUME RomInv, Is("mbc2"), NEW r \in Register, NEW v \in 0..255, mapped,
           HandleWrite(r, v), written' = [written EXCEPT ![r] = v], cart' = cart
    PROVE  /\ rom_bank' = Larger(written'["rom"] % 16, 1)
           /\ rom1' = rom_bank' % cart.rom /\ rom0' = 0 % cart.rom
           /\ rom_bank' \in 0..511 /\ ram_bank' = ram_bank /\ banking_mode' = banking_mode
           /\ ram_enabled' \in BOOLEAN /\ rom1_writes' \in BOOLEAN
<1>1. /\ written \in [Register -> 0..255]
      /\ rom_bank = Larger(written["rom"] % 16, 1)
      /\ ram_enabled \in BOOLEAN /\ rom1_writes \in BOOLEAN
    BY DEF RomInv, Types, Decoded
<1>2. /\ Larger(v % 16, 1) \in 1..15 /\ rom_bank \in 1..15
    BY <1>1, WrittenBytes, Fields DEF RomInv, Register
<1>3. rom0 = 0 % cart.rom /\ rom1 = rom_bank % cart.rom
    <2>1. SelectedRom1 = Larger(written["rom"] % 16, 1) /\ SelectedRom0 = 0
        BY DEF SelectedRom1, SelectedRom0, Is
    <2> QED
        BY <1>1, <2>1 DEF RomInv, RomFollowsRegisters
<1>4. (r = "enable" /\ Mbc2Enable(v)) \/ (r = "rom" /\ Mbc2Rom(v))
    BY DEF HandleWrite, Is
<1>5. CASE r = "enable" /\ Mbc2Enable(v)
    <2>1. written'["rom"] = written["rom"]
        BY <1>1, <1>5 DEF Register
    <2> QED
        BY <1>1, <1>2, <1>3, <1>5, <2>1 DEF Mbc2Enable
<1>6. CASE r = "rom" /\ Mbc2Rom(v)
    <2>1. written'["rom"] = v
        BY <1>1, <1>6 DEF Register
    <2>2. rom_bank' = Larger(v % 16, 1)
        BY <1>2, <1>6 DEF Mbc2Rom
    <2>3. rom_bank' \in 0..511
        BY <1>2, <2>2
    <2>4. rom1' = rom_bank' % cart.rom /\ rom0' = rom0
        BY <1>6 DEF Mbc2Rom, MapRom1
    <2>5. /\ ram_enabled' \in BOOLEAN /\ rom1_writes' \in BOOLEAN
          /\ ram_bank' = ram_bank /\ banking_mode' = banking_mode
        BY <1>1, <1>6 DEF Mbc2Rom
    <2> QED
        BY <1>3, <2>1, <2>2, <2>3, <2>4, <2>5
<1> QED
    BY <1>4, <1>5, <1>6

\* MBC3: seven bits, or in a multicart a pair of banks (gb_cart.cpp:569-618).
LEMMA Mbc3Write ==
    ASSUME RomInv, Is("mbc3"), NEW r \in Register, NEW v \in 0..255, mapped,
           HandleWrite(r, v), written' = [written EXCEPT ![r] = v], cart' = cart
    PROVE  /\ ram_bank' = written'["bank"] % 8
           /\ rom1' = (IF cart.multicart THEN (written'["bank"] % 8) * 2 + 1
                                         ELSE Larger(written'["rom"] % 128, 1)) % cart.rom
           /\ rom0' = (IF cart.multicart THEN (written'["bank"] % 8) * 2 ELSE 0) % cart.rom
           /\ rom_bank' \in 0..511 /\ ram_bank' \in 0..15 /\ banking_mode' = banking_mode
           /\ ram_enabled' \in BOOLEAN /\ rom1_writes' = rom1_writes
<1>1. /\ written \in [Register -> 0..255]
      /\ ram_bank = written["bank"] % 8 /\ ram_bank \in 0..15 /\ rom_bank \in 0..511
      /\ ram_enabled \in BOOLEAN
    BY DEF RomInv, Types, Decoded
<1>2. Larger(v % 128, 1) \in 1..127 /\ v % 8 \in 0..7
    BY Fields
<1>3. /\ rom0 = (IF cart.multicart THEN (written["bank"] % 8) * 2 ELSE 0) % cart.rom
      /\ rom1 = (IF cart.multicart THEN (written["bank"] % 8) * 2 + 1
                                   ELSE Larger(written["rom"] % 128, 1)) % cart.rom
    <2>1. SelectedRom1 = IF cart.multicart THEN (written["bank"] % 8) * 2 + 1
                                           ELSE Larger(written["rom"] % 128, 1)
        BY DEF SelectedRom1, Is
    <2>2. SelectedRom0 = IF cart.multicart THEN (written["bank"] % 8) * 2 ELSE 0
        BY DEF SelectedRom0, Is
    <2> QED
        BY <2>1, <2>2 DEF RomInv, RomFollowsRegisters
<1>4. (r = "enable" /\ Mbc35Enable(v)) \/ (r = "rom" /\ Mbc3Rom(v)) \/ (r = "bank" /\ Mbc3Bank(v))
    BY DEF HandleWrite, Is
<1>5. CASE r = "enable" /\ Mbc35Enable(v)
    <2>1. written'["rom"] = written["rom"] /\ written'["bank"] = written["bank"]
        BY <1>1, <1>5 DEF Register
    <2> QED
        BY <1>1, <1>3, <1>5, <2>1 DEF Mbc35Enable
<1>6. CASE r = "rom" /\ Mbc3Rom(v)
    <2>1. written'["rom"] = v /\ written'["bank"] = written["bank"]
        BY <1>1, <1>6 DEF Register
    <2> QED
        BY <1>1, <1>2, <1>3, <1>6, <2>1 DEF Mbc3Rom, MapRom1
<1>7. CASE r = "bank" /\ Mbc3Bank(v)
    <2>1. written'["rom"] = written["rom"] /\ written'["bank"] = v
        BY <1>1, <1>7 DEF Register
    <2> QED
        BY <1>1, <1>2, <1>3, <1>7, <2>1 DEF Mbc3Bank, MapRom0, MapRom1
<1> QED
    BY <1>4, <1>5, <1>6, <1>7

\* MBC5: eight bits and a ninth, in registers of their own (gb_cart.cpp:685-699).
LEMMA Mbc5Write ==
    ASSUME RomInv, Is("mbc5"), NEW r \in Register, NEW v \in 0..255, mapped,
           HandleWrite(r, v), written' = [written EXCEPT ![r] = v], cart' = cart
    PROVE  /\ rom_bank' = (written'["rom_high"] % 2) * 256 + written'["rom"]
           /\ rom1' = rom_bank' % cart.rom /\ rom0' = 0 % cart.rom
           /\ rom_bank' \in 0..511 /\ ram_bank' \in 0..15 /\ banking_mode' = banking_mode
           /\ ram_enabled' \in BOOLEAN /\ rom1_writes' \in BOOLEAN
<1> DEFINE high == written["rom_high"] % 2
           low  == written["rom"]
<1>1. /\ written \in [Register -> 0..255]
      /\ rom_bank = high * 256 + low /\ rom_bank \in 0..511 /\ ram_bank \in 0..15
      /\ ram_enabled \in BOOLEAN /\ rom1_writes \in BOOLEAN
    BY DEF RomInv, Types, Decoded
<1>2. high \in 0..1 /\ low \in 0..255 /\ v % 2 \in 0..1 /\ v % 16 \in 0..15
    BY WrittenBytes, Fields DEF RomInv, Register
<1>3. rom_bank \div 256 = high /\ rom_bank % 256 = low
    BY <1>1, <1>2
<1>4. rom0 = 0 % cart.rom /\ rom1 = rom_bank % cart.rom
    <2>1. SelectedRom1 = high * 256 + low /\ SelectedRom0 = 0
        BY DEF SelectedRom1, SelectedRom0, Is
    <2> QED
        BY <1>1, <2>1 DEF RomInv, RomFollowsRegisters
<1>5. \/ r = "enable" /\ Mbc35Enable(v)
      \/ r = "rom" /\ Mbc5Rom(v)
      \/ r = "rom_high" /\ Mbc5RomHigh(v)
      \/ r = "bank" /\ (Mbc5Bank(v) \/ UNCHANGED <<registers, windows>>)
    BY DEF HandleWrite, Is
<1>6. CASE r = "enable" /\ Mbc35Enable(v)
    <2>1. written'["rom"] = low /\ written'["rom_high"] = written["rom_high"]
        BY <1>1, <1>6 DEF Register
    <2> QED
        BY <1>1, <1>4, <1>6, <2>1 DEF Mbc35Enable
<1>7. CASE r = "rom" /\ Mbc5Rom(v)
    <2>1. written'["rom"] = v /\ written'["rom_high"] = written["rom_high"]
        BY <1>1, <1>7 DEF Register
    <2>2. rom_bank' = high * 256 + v
        BY <1>3, <1>7 DEF Mbc5Rom
    <2>3. rom_bank' \in 0..511
        BY <1>2, <2>2
    <2>4. rom1' = rom_bank' % cart.rom /\ rom0' = rom0
        BY <1>7 DEF Mbc5Rom, MapRom1
    <2>5. /\ ram_enabled' \in BOOLEAN /\ rom1_writes' \in BOOLEAN
          /\ ram_bank' \in 0..15 /\ banking_mode' = banking_mode
        BY <1>1, <1>7 DEF Mbc5Rom
    <2> QED
        BY <1>4, <2>1, <2>2, <2>3, <2>4, <2>5
<1>8. CASE r = "rom_high" /\ Mbc5RomHigh(v)
    <2>1. written'["rom"] = low /\ written'["rom_high"] = v
        BY <1>1, <1>8 DEF Register
    <2>2. rom_bank' = (v % 2) * 256 + low
        BY <1>3, <1>8 DEF Mbc5RomHigh
    <2>3. rom_bank' \in 0..511
        BY <1>2, <2>2
    <2>4. rom1' = rom_bank' % cart.rom /\ rom0' = rom0
        BY <1>8 DEF Mbc5RomHigh, MapRom1
    <2>5. /\ ram_enabled' \in BOOLEAN /\ rom1_writes' \in BOOLEAN
          /\ ram_bank' \in 0..15 /\ banking_mode' = banking_mode
        BY <1>1, <1>8 DEF Mbc5RomHigh
    <2> QED
        BY <1>4, <2>1, <2>2, <2>3, <2>4, <2>5
<1>9. CASE r = "bank" /\ (Mbc5Bank(v) \/ UNCHANGED <<registers, windows>>)
    <2>1. written'["rom"] = low /\ written'["rom_high"] = written["rom_high"]
        BY <1>1, <1>9 DEF Register
    <2> QED
        BY <1>1, <1>2, <1>4, <1>9, <2>1 DEF Mbc5Bank, registers, windows
<1> QED
    BY <1>5, <1>6, <1>7, <1>8, <1>9
-----------------------------------------------------------------------------
(* The invariant                                                           *)

\* The registers of a new controller select the first two banks, which are
\* the ones that mapping it installs (gb_cart.h:93-97, 107-108, 122-124, 139-141).
LEMMA FreshSelects ==
    cart \in Carts /\ written = Fresh => SelectedRom0 = 0 /\ SelectedRom1 = 1
<1> SUFFICES ASSUME cart \in Carts, written = Fresh
             PROVE  SelectedRom0 = 0 /\ SelectedRom1 = 1
    OBVIOUS
<1>1. /\ written["enable"] = 0 /\ written["rom"] = 1 /\ written["rom_high"] = 0
      /\ written["bank"] = 0 /\ written["mode"] = 0
    BY DEF Fresh, Register
<1>2. cart.kind \in Kind
    BY CartAssumption
<1>3. 0 % 2 = 0 /\ 0 % 4 = 0 /\ 0 % 8 = 0 /\ 1 % 16 = 1 /\ 1 % 32 = 1 /\ 1 % 128 = 1
    OBVIOUS
<1>4. SelectedRom0 = 0
    <2>1. CASE Is("mbc3") /\ cart.multicart
        BY <1>1, <1>3, <2>1 DEF SelectedRom0, Is
    <2>2. CASE ~ (Is("mbc3") /\ cart.multicart)
        BY <1>1, <1>3, <2>2 DEF SelectedRom0, Is
    <2> QED
        BY <2>1, <2>2
<1>5. SelectedRom1 = 1
    <2>1. CASE Is("null")
        BY <2>1 DEF SelectedRom1, Is
    <2>2. CASE Is("mbc1")
        BY <1>1, <1>3, <2>2 DEF SelectedRom1, Is, Outer, Larger
    <2>3. CASE Is("mbc2")
        BY <1>1, <1>3, <2>3 DEF SelectedRom1, Is, Larger
    <2>4. CASE Is("mbc3")
        BY <1>1, <1>3, <2>4 DEF SelectedRom1, Is, Larger
    <2>5. CASE Is("mbc5")
        BY <1>1, <1>3, <2>5 DEF SelectedRom1, Is
    <2> QED
        BY <1>2, <2>1, <2>2, <2>3, <2>4, <2>5 DEF Is, Kind
<1> QED
    BY <1>4, <1>5

\* The registers of a new controller hold bytes (gb_cart.h:93-97, 107-108, 122-124, 139-141).
LEMMA FreshBytes ==
    Fresh \in [Register -> 0..255]
BY DEF Fresh

\* The members of a new controller hold what Fresh says.
LEMMA FreshDecodes ==
    cart \in Carts /\ written = Fresh /\ rom_bank = 1 /\ ram_bank = 0 /\ banking_mode = 0 => Decoded
<1> SUFFICES ASSUME cart \in Carts, written = Fresh, rom_bank = 1, ram_bank = 0, banking_mode = 0
             PROVE  Decoded
    OBVIOUS
<1>1. /\ written["enable"] = 0 /\ written["rom"] = 1 /\ written["rom_high"] = 0
      /\ written["bank"] = 0 /\ written["mode"] = 0
    BY DEF Fresh, Register
<1>2. 0 % 2 = 0 /\ 0 % 4 = 0 /\ 0 % 8 = 0 /\ 1 % 16 = 1 /\ 1 % 32 = 1 /\ 1 % 128 = 1
    OBVIOUS
<1> QED
    BY <1>1, <1>2 DEF Decoded, Outer, Larger

\* The registers of a new controller select the first two banks also after a
\* step that made it new (gb_cart.cpp:21-36).
LEMMA NewSelects ==
    (cart \in Carts /\ written = Fresh => SelectedRom0 = 0 /\ SelectedRom1 = 1)'
BY FreshSelects, PTL

\* And its members hold what those registers say (gb_cart.cpp:21-36).
LEMMA NewDecodes ==
    (cart \in Carts /\ written = Fresh /\ rom_bank = 1 /\ ram_bank = 0 /\ banking_mode = 0 => Decoded)'
BY FreshDecodes, PTL

\* A new cartridge satisfies the invariant (gb_cart.h:93-97, 107-108, 122-124, 139-141).
LEMMA InitRomInv == Init => RomInv
<1> SUFFICES ASSUME Init PROVE RomInv
    OBVIOUS
<1>1. Types
    <2>1. written \in [Register -> 0..255]
        BY FreshBytes DEF Init
    <2>2. rom_bank \in 0..511 /\ ram_bank \in 0..15 /\ banking_mode \in 0..1
        BY DEF Init
    <2>3. /\ cart \in Carts /\ mapped \in BOOLEAN /\ reset \in BOOLEAN /\ thrown \in BOOLEAN
          /\ ram_enabled \in BOOLEAN /\ rom1_writes \in BOOLEAN
        BY DEF Init
    <2> QED
        BY <2>1, <2>2, <2>3 DEF Types
<1>2. Decoded
    BY FreshDecodes DEF Init
<1>3. NewIsFresh /\ RomFollowsRegisters
    BY DEF Init, NewIsFresh, RomFollowsRegisters
<1> QED
    BY <1>1, <1>2, <1>3 DEF RomInv

\* So does one that is mapped to an emulator, for the first time or again
\* (gb_cart.cpp:21-36).
LEMMA MapRomInv == RomInv /\ Map => RomInv'
<1> SUFFICES ASSUME RomInv, Map PROVE RomInv'
    OBVIOUS
<1>1. /\ cart' = cart /\ cart \in Carts /\ mapped' = TRUE /\ reset' = reset /\ thrown' = thrown
      /\ ~ mapped /\ rom0' = 0 /\ rom1' = 1
    BY DEF Map, RomInv, Types
<1>2. written' = Fresh
    BY DEF Map, RomInv, NewIsFresh, ResetRegisters
<1>3. rom1_writes' \in BOOLEAN
    BY DEF Map
<1>4. /\ written' \in [Register -> 0..255]
      /\ rom_bank' \in 0..511 /\ ram_bank' \in 0..15 /\ banking_mode' \in 0..1
    <2>1. CASE reset
        BY <1>2, <2>1, FreshBytes DEF Map, ResetRegisters
    <2>2. CASE ~ reset
        BY <2>2 DEF RomInv, Map, Types, registers
    <2> QED
        BY <2>1, <2>2
<1>5. ram_enabled' \in BOOLEAN
    BY DEF RomInv, Map, Types, ResetRegisters, registers
<1>6. Types'
    BY <1>1, <1>3, <1>4, <1>5 DEF RomInv, Types
<1>7. Decoded'
    <2>1. CASE reset
        BY <1>1, <2>1, NewDecodes DEF Map, ResetRegisters
    <2>2. CASE ~ reset
        BY <1>1, <2>2 DEF RomInv, Map, Decoded, registers, Is, Outer
    <2> QED
        BY <2>1, <2>2
<1>8. RomFollowsRegisters'
    BY <1>1, <1>2, CartHasBanks, Modulo, NewSelects DEF RomFollowsRegisters
<1> QED
    BY <1>1, <1>6, <1>7, <1>8 DEF RomInv, NewIsFresh

\* And one whose registers were written: the members and windows that the
\* write updates are the ones that depend on the register (gb_cart.cpp:327-711).
LEMMA WriteRomInv ==
    ASSUME RomInv, NEW r \in Register, NEW v \in Bytes, Write(r, v)
    PROVE  RomInv'
<1>1. /\ cart' = cart /\ cart \in Carts /\ mapped' = mapped /\ mapped /\ reset' = reset /\ thrown' = thrown
      /\ reset \in BOOLEAN /\ thrown \in BOOLEAN
      /\ HandleWrite(r, v) /\ written' = [written EXCEPT ![r] = v] /\ v \in 0..255
    BY CartAssumption DEF RomInv, Types, Write, life
<1>2. written' \in [Register -> 0..255]
    BY <1>1 DEF RomInv, Types
<1>3. banking_mode \in 0..1 /\ ram_bank \in 0..15 /\ rom1_writes \in BOOLEAN
    BY DEF RomInv, Types
<1>4. \A k \in Kind : (Is(k))' <=> Is(k)
    BY <1>1 DEF Is
<1>5. Outer' = Outer
    BY <1>1 DEF Outer
<1>6. NewIsFresh'
    BY <1>1 DEF NewIsFresh
<1>7. CASE Is("mbc1")
    <2>1. /\ rom_bank' \in 0..511 /\ ram_bank' \in 0..15
          /\ ram_enabled' \in BOOLEAN /\ rom1_writes' \in BOOLEAN
        BY <1>1, <1>3, <1>7, Mbc1Write
    <2>2. banking_mode' \in 0..1
        <3>1. written'["mode"] \in 0..255
            BY <1>2 DEF Register
        <3>2. banking_mode' = written'["mode"] % 2
            BY <1>1, <1>7, Mbc1Write
        <3> QED
            BY <3>1, <3>2, Fields
    <2>3. Types'
        BY <1>1, <1>2, <2>1, <2>2 DEF Types
    <2>4. Decoded'
        BY <1>1, <1>7, Mbc1Write DEF Decoded, Is, Outer
    <2>5. SelectedRom0' = IF written'["mode"] % 2 = 1 THEN (written'["bank"] % 4) * Outer ELSE 0
        BY <1>1, <1>7 DEF SelectedRom0, Is, Outer
    <2>6. SelectedRom1' = (written'["bank"] % 4) * Outer + (Larger(written'["rom"] % 32, 1) % Outer)
        BY <1>1, <1>7 DEF SelectedRom1, Is, Outer
    <2>7. /\ rom0' = (IF written'["mode"] % 2 = 1 THEN (written'["bank"] % 4) * Outer ELSE 0) % cart.rom
          /\ rom1' = ((written'["bank"] % 4) * Outer + (Larger(written'["rom"] % 32, 1) % Outer)) % cart.rom
        BY <1>1, <1>7, Mbc1Write
    <2> QED
        BY <1>1, <1>6, <2>3, <2>4, <2>5, <2>6, <2>7 DEF RomInv, RomFollowsRegisters
<1>8. CASE Is("mbc2")
    <2>1. /\ rom_bank' \in 0..511 /\ ram_bank' \in 0..15
          /\ ram_enabled' \in BOOLEAN /\ rom1_writes' \in BOOLEAN
        BY <1>1, <1>3, <1>8, Mbc2Write
    <2>2. banking_mode' \in 0..1
        BY <1>1, <1>3, <1>8, Mbc2Write
    <2>3. Types'
        BY <1>1, <1>2, <2>1, <2>2 DEF Types
    <2>4. Decoded'
        BY <1>1, <1>8, Mbc2Write DEF Decoded, Is
    <2>5. SelectedRom0' = 0
        BY <1>1, <1>8 DEF SelectedRom0, Is
    <2>6. SelectedRom1' = Larger(written'["rom"] % 16, 1)
        BY <1>1, <1>8 DEF SelectedRom1, Is
    <2>7. rom0' = 0 % cart.rom /\ rom1' = (Larger(written'["rom"] % 16, 1)) % cart.rom
        BY <1>1, <1>8, Mbc2Write
    <2> QED
        BY <1>1, <1>6, <2>3, <2>4, <2>5, <2>6, <2>7 DEF RomInv, RomFollowsRegisters
<1>9. CASE Is("mbc3")
    <2>1. /\ rom_bank' \in 0..511 /\ ram_bank' \in 0..15
          /\ ram_enabled' \in BOOLEAN /\ rom1_writes' \in BOOLEAN
        BY <1>1, <1>3, <1>9, Mbc3Write
    <2>2. banking_mode' \in 0..1
        BY <1>1, <1>3, <1>9, Mbc3Write
    <2>3. Types'
        BY <1>1, <1>2, <2>1, <2>2 DEF Types
    <2>4. Decoded'
        BY <1>1, <1>9, Mbc3Write DEF Decoded, Is
    <2>5. SelectedRom0' = IF cart.multicart THEN (written'["bank"] % 8) * 2 ELSE 0
        BY <1>1, <1>9 DEF SelectedRom0, Is
    <2>6. SelectedRom1' = IF cart.multicart THEN (written'["bank"] % 8) * 2 + 1 ELSE Larger(written'["rom"] % 128, 1)
        BY <1>1, <1>9 DEF SelectedRom1, Is
    <2>7. /\ rom0' = (IF cart.multicart THEN (written'["bank"] % 8) * 2 ELSE 0) % cart.rom
          /\ rom1' = (IF cart.multicart THEN (written'["bank"] % 8) * 2 + 1 ELSE Larger(written'["rom"] % 128, 1)) % cart.rom
        BY <1>1, <1>9, Mbc3Write
    <2> QED
        BY <1>1, <1>6, <2>3, <2>4, <2>5, <2>6, <2>7 DEF RomInv, RomFollowsRegisters
<1>10. CASE Is("mbc5")
    <2>1. /\ rom_bank' \in 0..511 /\ ram_bank' \in 0..15
          /\ ram_enabled' \in BOOLEAN /\ rom1_writes' \in BOOLEAN
        BY <1>1, <1>3, <1>10, Mbc5Write
    <2>2. banking_mode' \in 0..1
        BY <1>1, <1>3, <1>10, Mbc5Write
    <2>3. Types'
        BY <1>1, <1>2, <2>1, <2>2 DEF Types
    <2>4. Decoded'
        BY <1>1, <1>10, Mbc5Write DEF Decoded, Is
    <2>5. SelectedRom0' = 0
        BY <1>1, <1>10 DEF SelectedRom0, Is
    <2>6. SelectedRom1' = (written'["rom_high"] % 2) * 256 + written'["rom"]
        BY <1>1, <1>10 DEF SelectedRom1, Is
    <2>7. rom0' = 0 % cart.rom /\ rom1' = ((written'["rom_high"] % 2) * 256 + written'["rom"]) % cart.rom
        BY <1>1, <1>10, Mbc5Write
    <2> QED
        BY <1>1, <1>6, <2>3, <2>4, <2>5, <2>6, <2>7 DEF RomInv, RomFollowsRegisters
<1>11. Is("mbc1") \/ Is("mbc2") \/ Is("mbc3") \/ Is("mbc5")
    BY <1>1 DEF HandleWrite
<1> QED
    BY <1>7, <1>8, <1>9, <1>10, <1>11

\* The selected banks are a function of the cartridge and the bytes written
\* (gb_cart.cpp:355-450, 486-494, 569-618, 685-699).
LEMMA SameSelection ==
    ASSUME cart' = cart, written' = written
    PROVE  SelectedRom0' = SelectedRom0 /\ SelectedRom1' = SelectedRom1
BY DEF SelectedRom0, SelectedRom1, Is, Outer

\* Everything else leaves the registers and the windows of a mapped cartridge
\* alone (gb_cart.cpp:38-44).
LEMMA OtherRomInv ==
    ASSUME RomInv,
           \/ Unmap \/ (\E c \in Carts : Load(c)) \/ (\E v \in Bytes : SelectClock(v))
           \/ UNCHANGED vars
    PROVE  RomInv'
<1>1. CASE UNCHANGED vars
    <2>1. /\ UNCHANGED <<cart, mapped, reset, thrown>> /\ UNCHANGED <<rom0, rom1, rom1_writes, written>>
          /\ UNCHANGED <<rom_bank, ram_bank, ram_enabled, banking_mode>>
        BY <1>1 DEF vars, life, registers, windows
    <2>2. Types'
        BY <2>1 DEF RomInv, Types
    <2>3. Decoded' /\ NewIsFresh'
        BY <2>1 DEF RomInv, Decoded, NewIsFresh, Is, Outer
    <2> QED
        BY <2>1, <2>2, <2>3, SameSelection DEF RomInv, RomFollowsRegisters
<1>2. CASE Unmap
    <2>1. Types'
        BY <1>2 DEF Unmap, registers, windows, RomInv, Types
    <2>2. Decoded'
        BY <1>2 DEF Unmap, registers, windows, RomInv, Decoded, Is, Outer
    <2> QED
        BY <1>2, <2>1, <2>2 DEF Unmap, RomInv, NewIsFresh, RomFollowsRegisters
<1>3. CASE \E c \in Carts : Load(c)
    <2>1. PICK c \in Carts : Load(c)
        BY <1>3
    <2>2. /\ cart' \in Carts /\ mapped' = mapped /\ ~ mapped /\ reset' = FALSE /\ thrown' = thrown
          /\ rom_bank' = 1 /\ ram_bank' = 0 /\ banking_mode' = 0 /\ ram_enabled' = FALSE
          /\ written' = Fresh /\ rom1_writes' = FALSE
        BY <2>1 DEF Load, ResetRegisters
    <2>3. written' \in [Register -> 0..255]
        BY <2>2, FreshBytes
    <2>4. rom_bank' \in 0..511 /\ ram_bank' \in 0..15 /\ banking_mode' \in 0..1
        BY <2>2
    <2>5. Types'
        BY <2>2, <2>3, <2>4 DEF RomInv, Types
    <2>6. Decoded'
        BY <2>2, NewDecodes
    <2> QED
        BY <2>2, <2>5, <2>6 DEF RomInv, NewIsFresh, RomFollowsRegisters
<1>4. CASE \E v \in Bytes : SelectClock(v)
    <2>1. /\ thrown' = TRUE /\ UNCHANGED <<cart, mapped, reset>> /\ UNCHANGED <<rom0, rom1, rom1_writes, written>>
          /\ UNCHANGED <<rom_bank, ram_bank, ram_enabled, banking_mode>>
        BY <1>4 DEF SelectClock, life, registers, windows
    <2>2. Types'
        BY <2>1 DEF RomInv, Types
    <2>3. Decoded' /\ NewIsFresh'
        BY <2>1 DEF RomInv, Decoded, NewIsFresh, Is, Outer
    <2> QED
        BY <2>1, <2>2, <2>3, SameSelection DEF RomInv, RomFollowsRegisters
<1> QED
    BY <1>1, <1>2, <1>3, <1>4

\* The invariant holds in every state (gb_cart.cpp:21-44, 327-711).
THEOREM RomInvariant == Spec => []RomInv
<1>1. Init => RomInv
    BY InitRomInv
<1>2. RomInv /\ [Next]_vars => RomInv'
    BY MapRomInv, WriteRomInv, OtherRomInv DEF Next
<1> QED
    BY <1>1, <1>2, PTL DEF Spec

\* Whatever the order and the number of the writes, for every size of ROM, and
\* also when a cartridge is used again, the banks mapped at 0000 and 4000 are
\* those that the bytes written last select (gb_cart.cpp:355-450, 486-494,
\* 569-618, 685-699).
THEOREM RomStaysSelected == Spec => []RomFollowsRegisters
<1>1. RomInv => RomFollowsRegisters
    BY DEF RomInv
<1> QED
    BY <1>1, RomInvariant, PTL

-----------------------------------------------------------------------------
(* The RAM, and the types                                                  *)

\* The enable flag is what the byte written last says.
EnableDecoded == Is("mbc1") \/ Is("mbc2") => (ram_enabled <=> RamEnabled)

\* No window lies beyond the end of the ROM or the RAM.
RomFits == rom0 \in 0..(cart.rom - 1) /\ rom1 \in 0..(cart.rom - 1)
RamFits == ram \in {None, Handler} \cup Nat /\ (ram >= 0 => ram < cart.ram)

CartInv == RomInv /\ EnableDecoded /\ RamFollowsRegisters /\ RomFits /\ RamFits

\* What map_ram and unmap_ram leave mapped (gb_cart.cpp:249-267)
LEMMA RamWindow ==
    ASSUME cart \in Carts
    PROVE  /\ \A b \in Nat : MapRam(b) => ram' = ram \/ (ram' \in Nat /\ ram' < cart.ram)
           /\ UnmapRam => ram' = ram \/ ram' = None
<1>1. cart.ram \in Nat
    BY CartAssumption
<1>2. \A b \in Nat : cart.ram >= Unit => (b * Unit) % cart.ram \in Nat /\ (b * Unit) % cart.ram < cart.ram
    BY <1>1 DEF Unit
<1> QED
    BY <1>2 DEF MapRam, UnmapRam

\* The first bank of RAM starts at its beginning.
LEMMA FirstBank ==
    ASSUME cart \in Carts, cart.ram >= Unit
    PROVE  /\ (0 * Unit) % cart.ram = 0
           /\ ~ cart.ram > Unit => \A b \in 0..3 : (b * Unit) % cart.ram = 0
<1>1. cart.ram \in {4, 16, 32, 64}
    BY CartAssumption DEF Unit
<1> QED
    BY <1>1 DEF Unit

\* In a mapped cartridge the windows of ROM are remainders of its size.
LEMMA RomFitsIfSelected ==
    ASSUME RomInv, mapped
    PROVE  RomFits
<1>1. /\ rom0 = SelectedRom0 % cart.rom /\ rom1 = SelectedRom1 % cart.rom
      /\ cart.rom \in Nat /\ cart.rom >= 2 /\ cart.kind \in Kind
    BY CartAssumption DEF RomInv, Types, RomFollowsRegisters
<1>2. \A q \in Register : written[q] \in 0..255
    BY WrittenBytes DEF RomInv
<1>3. /\ written["bank"] % 4 \in Nat /\ written["bank"] % 8 \in Nat /\ written["rom_high"] % 2 \in Nat
      /\ written["rom"] \in Nat
      /\ Larger(written["rom"] % 16, 1) \in 1..15 /\ Larger(written["rom"] % 32, 1) \in 1..31
      /\ Larger(written["rom"] % 128, 1) \in 1..127
    <2>1. written["bank"] \in 0..255 /\ written["rom_high"] \in 0..255 /\ written["rom"] \in 0..255
        BY <1>2 DEF Register
    <2>2. /\ written["bank"] % 4 \in 0..3 /\ written["bank"] % 8 \in 0..7 /\ written["rom_high"] % 2 \in 0..1
          /\ Larger(written["rom"] % 16, 1) \in 1..15 /\ Larger(written["rom"] % 32, 1) \in 1..31
          /\ Larger(written["rom"] % 128, 1) \in 1..127
        BY <2>1, Fields
    <2> QED
        BY <2>1, <2>2
<1>4. Outer \in {16, 32}
    BY DEF Outer
<1>5. Larger(written["rom"] % 32, 1) % Outer \in Nat
    BY <1>3, <1>4, Inner
<1>6. SelectedRom0 \in Nat
    BY <1>3, <1>4 DEF SelectedRom0
<1>7. SelectedRom1 \in Nat
    <2>1. CASE Is("null")
        BY <2>1 DEF SelectedRom1, Is
    <2>2. CASE Is("mbc1")
        BY <1>3, <1>4, <1>5, <2>2 DEF SelectedRom1, Is
    <2>3. CASE Is("mbc2")
        BY <1>3, <2>3 DEF SelectedRom1, Is
    <2>4. CASE Is("mbc3")
        BY <1>3, <2>4 DEF SelectedRom1, Is
    <2>5. CASE Is("mbc5")
        BY <1>3, <2>5 DEF SelectedRom1, Is
    <2> QED
        BY <1>1, <2>1, <2>2, <2>3, <2>4, <2>5 DEF Is, Kind
<1> QED
    BY <1>1, <1>6, <1>7, Modulo DEF RomFits

\* The same after a step
LEMMA RomFitsIfSelectedNext == (RomInv /\ mapped => RomFits)'
<1>1. RomInv /\ mapped => RomFits
    BY RomFitsIfSelected
<1> QED
    BY <1>1, PTL

\* No write maps RAM beyond its end (gb_cart.cpp:249-267, 329-711).
LEMMA RamFitsAfterWrite ==
    ASSUME CartInv, NEW r \in Register, NEW v \in Bytes, Write(r, v)
    PROVE  RamFits'
<1>1. /\ cart' = cart /\ cart \in Carts /\ HandleWrite(r, v) /\ v \in 0..255 /\ ram_bank \in 0..15
    BY CartAssumption DEF CartInv, RomInv, Types, Write, life
<1>2. v % 4 \in Nat /\ v % 8 \in Nat /\ v % 16 \in Nat
    BY <1>1, Fields
<1>3. ram' = ram \/ ram' = None \/ ram' = Handler \/ (ram' \in Nat /\ ram' < cart.ram)
    <2>1. (\E b \in Nat : MapRam(b)) \/ UnmapRam \/ ram' = ram \/ ram' = Handler
        <3>1. CASE Mbc1Enable(v) \/ Mbc2Enable(v) \/ Mbc35Enable(v)
            BY <1>1, <3>1 DEF Mbc1Enable, Mbc2Enable, Mbc35Enable
        <3>2. CASE Mbc1Bank(v) \/ Mbc3Bank(v) \/ Mbc5Bank(v)
            BY <1>1, <1>2, <3>2 DEF Mbc1Bank, Mbc3Bank, Mbc5Bank
        <3>3. CASE Mbc1Mode(v)
            BY <1>1, <3>3 DEF Mbc1Mode
        <3>4. CASE Mbc1Rom(v) \/ Mbc2Rom(v) \/ Mbc3Rom(v) \/ Mbc5Rom(v) \/ Mbc5RomHigh(v)
            BY <3>4 DEF Mbc1Rom, Mbc2Rom, Mbc3Rom, Mbc5Rom, Mbc5RomHigh
        <3>5. CASE UNCHANGED <<registers, windows>>
            BY <3>5 DEF windows
        <3> QED
            BY <1>1, <3>1, <3>2, <3>3, <3>4, <3>5 DEF HandleWrite
    <2> QED
        BY <1>1, <2>1, RamWindow
<1>4. cart.ram \in Nat /\ ram \in {None, Handler} \cup Nat /\ (ram >= 0 => ram < cart.ram)
    BY <1>1, CartAssumption DEF CartInv, RamFits
<1> QED
    BY <1>1, <1>3, <1>4 DEF RamFits, None, Handler

\* Where bank b starts in a RAM of n units, and what an MBC1 maps by its members
Start(n, b) == (b * Unit) % n
MembersSelectRam ==
    cart.ram >= Unit => /\ ~ ram_enabled => ram = None
                        /\ ram_enabled /\ banking_mode = 0 => ram = 0
                        /\ ram_enabled /\ banking_mode = 1 => ram = Start(cart.ram, ram_bank)

\* MBC1: what is mapped at A000 follows the enable flag, the mode and the bank
\* of RAM, whichever of the registers is written (gb_cart.cpp:327-450).
LEMMA Mbc1Window ==
    ASSUME MembersSelectRam, cart \in Carts, NEW v \in 0..255, cart' = cart,
           ram_bank \in 0..3, banking_mode \in 0..1, ram_enabled \in BOOLEAN,
           Mbc1Enable(v) \/ Mbc1Rom(v) \/ Mbc1Bank(v) \/ Mbc1Mode(v)
    PROVE  MembersSelectRam'
<1> SUFFICES ASSUME cart.ram >= Unit
             PROVE  /\ ~ ram_enabled' => ram' = None
                    /\ ram_enabled' /\ banking_mode' = 0 => ram' = 0
                    /\ ram_enabled' /\ banking_mode' = 1 => ram' = Start(cart.ram, ram_bank')
    BY DEF MembersSelectRam
<1>1. /\ ~ ram_enabled => ram = None
      /\ ram_enabled /\ banking_mode = 0 => ram = 0
      /\ ram_enabled /\ banking_mode = 1 => ram = Start(cart.ram, ram_bank)
    BY DEF MembersSelectRam
<1>2. /\ Start(cart.ram, 0) = 0
      /\ ~ cart.ram > Unit => \A b \in 0..3 : Start(cart.ram, b) = 0
    BY FirstBank DEF Start
<1>3. cart.ram \in Nat /\ cart.ram > 0
    BY CartAssumption DEF Unit
<1>4. \A b : MapRam(b) => ram' = Start(cart.ram, b)
    BY DEF MapRam, Start
<1>5. UnmapRam => ram' = None
    BY <1>3 DEF UnmapRam
<1>6. v % 4 \in 0..3 /\ v % 2 \in 0..1
    BY Fields
<1>7. CASE Mbc1Enable(v)
    <2>1. ram_enabled' \in BOOLEAN /\ banking_mode' = banking_mode /\ ram_bank' = ram_bank
        BY <1>7 DEF Mbc1Enable
    <2>2. CASE ram_enabled' = ram_enabled /\ ram' = ram
        BY <1>1, <2>1, <2>2
    <2>3. CASE ram_enabled' /\ MapRam(IF banking_mode = 1 THEN ram_bank ELSE 0)
        <3>1. banking_mode = 1 => ram' = Start(cart.ram, ram_bank)
            BY <1>4, <2>3
        <3>2. banking_mode = 0 => ram' = 0
            BY <1>2, <1>4, <2>3
        <3> QED
            BY <2>1, <2>3, <3>1, <3>2
    <2>4. CASE ~ ram_enabled' /\ UnmapRam
        BY <1>5, <2>4
    <2> QED
        BY <1>7, <2>2, <2>3, <2>4 DEF Mbc1Enable
<1>8. CASE Mbc1Rom(v)
    BY <1>1, <1>8 DEF Mbc1Rom
<1>9. CASE Mbc1Bank(v)
    <2>1. ram_enabled' = ram_enabled /\ banking_mode' = banking_mode /\ ram_bank' = v % 4
        BY <1>9 DEF Mbc1Bank
    <2>2. CASE banking_mode = 1 /\ ram_enabled /\ cart.ram > Unit
        BY <1>4, <1>9, <2>1, <2>2 DEF Mbc1Bank
    <2>3. CASE ~ (banking_mode = 1 /\ ram_enabled /\ cart.ram > Unit)
        <3>1. ram' = ram
            BY <1>9, <2>3 DEF Mbc1Bank
        <3>2. CASE banking_mode = 1 /\ ram_enabled
            BY <1>1, <1>2, <1>6, <2>1, <2>3, <3>1, <3>2
        <3> QED
            BY <1>1, <2>1, <3>1, <3>2
    <2> QED
        BY <2>2, <2>3
<1>10. CASE Mbc1Mode(v)
    <2>1. ram_enabled' = ram_enabled /\ ram_bank' = ram_bank
        BY <1>10 DEF Mbc1Mode
    <2>2. CASE banking_mode' = banking_mode /\ ram' = ram
        BY <1>1, <2>1, <2>2
    <2>3. CASE /\ banking_mode' = 0
               /\ IF ram_enabled /\ cart.ram > Unit /\ ram_bank # 0 THEN MapRam(0) ELSE UNCHANGED ram
               /\ banking_mode' # banking_mode
        <3>1. CASE ram_enabled /\ cart.ram > Unit /\ ram_bank # 0
            BY <1>2, <1>4, <2>1, <2>3, <3>1
        <3>2. CASE ~ (ram_enabled /\ cart.ram > Unit /\ ram_bank # 0)
            <4>1. ram' = ram /\ banking_mode = 1
                BY <2>3, <3>2
            <4>2. ram_enabled => Start(cart.ram, ram_bank) = 0
                BY <1>2, <3>2
            <4> QED
                BY <1>1, <2>1, <2>3, <4>1, <4>2
        <3> QED
            BY <3>1, <3>2
    <2>4. CASE /\ banking_mode' = 1
               /\ IF ram_enabled /\ cart.ram > Unit THEN MapRam(ram_bank) ELSE UNCHANGED ram
               /\ banking_mode' # banking_mode
        <3>1. CASE ram_enabled /\ cart.ram > Unit
            BY <1>4, <2>1, <2>4, <3>1
        <3>2. CASE ~ (ram_enabled /\ cart.ram > Unit)
            <4>1. ram' = ram /\ banking_mode = 0
                BY <2>4, <3>2
            <4>2. ram_enabled => Start(cart.ram, ram_bank) = 0
                BY <1>2, <3>2
            <4> QED
                BY <1>1, <2>1, <2>4, <4>1, <4>2
        <3> QED
            BY <3>1, <3>2
    <2> QED
        BY <1>10, <2>2, <2>3, <2>4 DEF Mbc1Mode
<1> QED
    BY <1>7, <1>8, <1>9, <1>10

\* What its members select is what the bytes written to its registers select
\* (gb_cart.cpp:331-450).
LEMMA Mbc1MembersRam ==
    ASSUME RomInv, EnableDecoded, Is("mbc1"), mapped
    PROVE  RamFollowsRegisters <=> MembersSelectRam
<1>1. /\ ram_enabled <=> RamEnabled
      /\ banking_mode = written["mode"] % 2 /\ ram_bank = written["bank"] % 4 /\ banking_mode \in 0..1
    BY DEF RomInv, Types, Decoded, EnableDecoded
<1>2. ~ Is("mbc2")
    BY DEF Is
<1>3. RamFollowsRegisters <=>
        (cart.ram >= Unit => ram = IF ~ RamEnabled THEN None
                                   ELSE IF banking_mode = 0 THEN 0 ELSE Start(cart.ram, ram_bank))
    BY <1>1, <1>2, Zenon DEF RamFollowsRegisters, Start
<1> QED
    BY <1>1, <1>3 DEF MembersSelectRam

\* The same after a step
LEMMA Mbc1MembersRamNext ==
    (RomInv /\ EnableDecoded /\ Is("mbc1") /\ mapped => (RamFollowsRegisters <=> MembersSelectRam))'
<1>1. RomInv /\ EnableDecoded /\ Is("mbc1") /\ mapped => (RamFollowsRegisters <=> MembersSelectRam)
    BY Mbc1MembersRam
<1> QED
    BY <1>1, PTL

\* MBC1: the flag and the window follow the bytes written (gb_cart.cpp:327-450).
LEMMA Mbc1Ram ==
    ASSUME CartInv, RomInv', Is("mbc1"), NEW r \in Register, NEW v \in 0..255, mapped, mapped' = mapped,
           HandleWrite(r, v), written' = [written EXCEPT ![r] = v], cart' = cart
    PROVE  (EnableDecoded /\ RamFollowsRegisters)'
<1>1. /\ written \in [Register -> 0..255] /\ ram_enabled \in BOOLEAN
      /\ cart \in Carts /\ banking_mode \in 0..1 /\ ram_bank = written["bank"] % 4
    BY DEF CartInv, RomInv, Types, Decoded, EnableDecoded
<1>2. ram_enabled <=> RamEnabled
    BY DEF CartInv, EnableDecoded
<1>3. MembersSelectRam
    BY Mbc1MembersRam DEF CartInv
<1>4. \/ r = "enable" /\ Mbc1Enable(v)
      \/ r = "rom" /\ Mbc1Rom(v)
      \/ r = "bank" /\ Mbc1Bank(v)
      \/ r = "mode" /\ Mbc1Mode(v)
    BY DEF HandleWrite, Is
<1>5. MembersSelectRam'
    <2>1. ram_bank \in 0..3
        BY <1>1, WrittenBytes, Fields DEF CartInv, RomInv, Register
    <2> QED
        <3>1. Mbc1Enable(v) \/ Mbc1Rom(v) \/ Mbc1Bank(v) \/ Mbc1Mode(v)
            BY <1>4
        <3> QED
            BY <1>1, <1>3, <2>1, <3>1, Mbc1Window
<1>6. EnableDecoded'
    <2>1. CASE r = "enable" /\ Mbc1Enable(v)
        <3>1. written'["enable"] = v
            BY <1>1, <2>1 DEF Register
        <3>2. ram_enabled' = (v % 16 = 10)
            BY <2>1 DEF Mbc1Enable
        <3>3. ram_enabled' <=> RamEnabled'
            BY <3>1, <3>2, Zenon DEF RamEnabled
        <3> QED
            BY <3>3 DEF EnableDecoded
    <2>2. CASE r # "enable" /\ (Mbc1Rom(v) \/ Mbc1Bank(v) \/ Mbc1Mode(v))
        <3>1. written'["enable"] = written["enable"] /\ ram_enabled' = ram_enabled
            BY <1>1, <2>2 DEF Register, Mbc1Rom, Mbc1Bank, Mbc1Mode
        <3>2. ram_enabled' <=> RamEnabled'
            BY <1>2, <3>1, Zenon DEF RamEnabled
        <3> QED
            BY <3>2 DEF EnableDecoded
    <2> QED
        BY <1>4, <2>1, <2>2
<1>7. (Is("mbc1"))'
    BY DEF Is
<1> QED
    BY <1>5, <1>6, <1>7, Mbc1MembersRamNext

\* MBC2: the controller answers itself while it is enabled (gb_cart.cpp:467-485).
LEMMA Mbc2Ram ==
    ASSUME CartInv, Is("mbc2"), NEW r \in Register, NEW v \in 0..255, mapped,
           HandleWrite(r, v), written' = [written EXCEPT ![r] = v], cart' = cart
    PROVE  (EnableDecoded /\ RamFollowsRegisters)'
<1> DEFINE Enabled(w) == w["enable"] % 16 = 10
           Mapped(w) == IF Enabled(w) THEN Handler ELSE None
<1>1. /\ written \in [Register -> 0..255] /\ ram_enabled = Enabled(written)
      /\ ram = Mapped(written) /\ cart.ram = 1
    BY CartAssumption DEF CartInv, RomInv, Types, EnableDecoded, RamFollowsRegisters, RamEnabled, Is
<1>2. ram_enabled' = Enabled(written') /\ ram' = Mapped(written')
    <2>1. CASE r = "enable" /\ Mbc2Enable(v)
        <3>1. written'["enable"] = v
            BY <1>1, <2>1 DEF Register
        <3>2. ram_enabled' = Enabled(written') /\ ram_enabled' \in BOOLEAN /\ ram_enabled \in BOOLEAN
            BY <1>1, <2>1, <3>1 DEF Mbc2Enable
        <3>3. ram' = IF ram_enabled' THEN Handler ELSE None
            <4>1. ram = IF ram_enabled THEN Handler ELSE None
                BY <1>1
            <4>2. cart.ram > 0
                BY <1>1
            <4> QED
                BY <2>1, <3>2, <4>1, <4>2 DEF Mbc2Enable, UnmapRam
        <3> QED
            BY <3>2, <3>3
    <2>2. CASE r = "rom" /\ Mbc2Rom(v)
        <3>1. written'["enable"] = written["enable"]
            BY <1>1, <2>2 DEF Register
        <3> QED
            BY <1>1, <2>2, <3>1 DEF Mbc2Rom
    <2> QED
        BY <2>1, <2>2 DEF HandleWrite, Is
<1>3. cart'.kind = "mbc2"
    BY DEF Is
<1> QED
    BY <1>2, <1>3 DEF EnableDecoded, RamFollowsRegisters, RamEnabled, Is

\* A new controller has no RAM enabled (gb_cart.h:93-97, 107-108).
LEMMA FreshDisables == written = Fresh => ~ RamEnabled
<1>1. written = Fresh => written["enable"] = 0
    BY DEF Fresh, Register
<1> QED
    BY <1>1 DEF RamEnabled

\* The same after a step that made it new
LEMMA NewDisables == (written = Fresh => ~ RamEnabled)'
BY FreshDisables, PTL

\* The invariant holds of a new cartridge (gb_cart.cpp:21-36).
LEMMA InitCartInv == Init => CartInv
<1> SUFFICES ASSUME Init PROVE CartInv
    OBVIOUS
<1>1. RomInv
    BY InitRomInv
<1>2. EnableDecoded
    BY FreshDisables DEF Init, EnableDecoded
<1>3. RamFollowsRegisters
    BY DEF Init, RamFollowsRegisters
<1>4. RomFits
    BY CartHasBanks DEF Init, RomFits
<1>5. RamFits
    BY DEF Init, RamFits, None
<1> QED
    BY <1>1, <1>2, <1>3, <1>4, <1>5 DEF CartInv

\* A write preserves it (gb_cart.cpp:327-711).
LEMMA WriteCartInv ==
    ASSUME CartInv, NEW r \in Register, NEW v \in Bytes, Write(r, v)
    PROVE  CartInv'
<1>1. /\ cart' = cart /\ cart \in Carts /\ mapped' = mapped /\ mapped /\ v \in 0..255
      /\ HandleWrite(r, v) /\ written' = [written EXCEPT ![r] = v]
    BY CartAssumption DEF CartInv, RomInv, Types, Write, life
<1>2. RomInv'
    BY WriteRomInv DEF CartInv
<1>3. RomFits'
    BY <1>1, <1>2, RomFitsIfSelectedNext
<1>4. RamFits'
    BY RamFitsAfterWrite
<1>5. (EnableDecoded /\ RamFollowsRegisters)'
    <2>1. CASE Is("mbc1")
        BY <1>1, <1>2, <2>1, Mbc1Ram
    <2>2. CASE Is("mbc2")
        BY <1>1, <2>2, Mbc2Ram
    <2>3. CASE ~ Is("mbc1") /\ ~ Is("mbc2")
        BY <1>1, <2>3 DEF EnableDecoded, RamFollowsRegisters, Is
    <2> QED
        BY <2>1, <2>2, <2>3
<1> QED
    BY <1>2, <1>3, <1>4, <1>5 DEF CartInv

\* So does mapping the cartridge to an emulator: nothing is enabled in one
\* that is new or was reset (gb_cart.cpp:21-36).
LEMMA MapCartInv == CartInv /\ Map => CartInv'
<1> SUFFICES ASSUME CartInv, Map PROVE CartInv'
    OBVIOUS
<1>1. RomInv'
    BY MapRomInv DEF CartInv
<1>2. /\ cart' = cart /\ cart \in Carts /\ mapped' = TRUE /\ rom0' = 0 /\ rom1' = 1
      /\ ram' = IF Is("null") /\ cart.ram > 0 THEN 0 ELSE None
    BY DEF Map, CartInv, RomInv, Types
<1>3. written' = Fresh
    BY DEF Map, CartInv, RomInv, NewIsFresh, ResetRegisters
<1>4. ~ RamEnabled'
    BY <1>3, NewDisables
<1>5. EnableDecoded'
    <2>1. CASE reset
        BY <1>4, <2>1 DEF Map, ResetRegisters, EnableDecoded
    <2>2. CASE ~ reset
        <3>1. written = Fresh /\ ram_enabled' = ram_enabled
            BY <2>2 DEF Map, CartInv, RomInv, NewIsFresh, registers
        <3> QED
            BY <1>2, <1>4, <3>1, FreshDisables DEF CartInv, EnableDecoded, Is
    <2> QED
        BY <2>1, <2>2
<1>6. RamFollowsRegisters'
    BY <1>2, <1>4 DEF RamFollowsRegisters, Is
<1>7. RomFits' /\ RamFits'
    BY <1>2, CartHasBanks, CartAssumption DEF RomFits, RamFits, None
<1> QED
    BY <1>1, <1>5, <1>6, <1>7 DEF CartInv

\* And every other step (gb_cart.cpp:38-44).
LEMMA OtherCartInv ==
    ASSUME CartInv,
           \/ Unmap \/ (\E c \in Carts : Load(c)) \/ (\E v \in Bytes : SelectClock(v))
           \/ UNCHANGED vars
    PROVE  CartInv'
<1>1. RomInv'
    BY OtherRomInv DEF CartInv
<1>2. CASE \E c \in Carts : Load(c)
    <2>1. /\ cart' \in Carts /\ rom0' = 0 /\ rom1' = 1 /\ ram' = None /\ ~ mapped /\ mapped' = mapped
          /\ written' = Fresh /\ ram_enabled' = FALSE
        BY <1>2 DEF Load, ResetRegisters
    <2>2. EnableDecoded'
        BY <2>1, NewDisables DEF EnableDecoded
    <2>3. RomFits' /\ RamFits'
        BY <2>1, CartAssumption DEF RomFits, RamFits, None
    <2> QED
        BY <1>1, <2>1, <2>2, <2>3 DEF CartInv, RamFollowsRegisters
<1>3. CASE Unmap \/ (\E v \in Bytes : SelectClock(v)) \/ UNCHANGED vars
    <2>1. /\ UNCHANGED <<cart, ram_enabled, rom0, rom1, ram, written>>
          /\ mapped' => mapped
        BY <1>3 DEF Unmap, SelectClock, vars, life, registers, windows
    <2>2. EnableDecoded' /\ RomFits' /\ RamFits'
        BY <2>1 DEF CartInv, EnableDecoded, RamEnabled, RomFits, RamFits, Is
    <2>3. RamFollowsRegisters'
        BY <2>1 DEF CartInv, RamFollowsRegisters, RamEnabled, Is
    <2> QED
        BY <1>1, <2>2, <2>3 DEF CartInv
<1> QED
    BY <1>2, <1>3

\* The invariant with the RAM holds in every state (gb_cart.cpp:21-44, 327-711).
THEOREM CartInvariant == Spec => []CartInv
<1>1. Init => CartInv
    BY InitCartInv
<1>2. CartInv /\ [Next]_vars => CartInv'
    BY MapCartInv, WriteCartInv, OtherCartInv DEF Next
<1> QED
    BY <1>1, <1>2, PTL DEF Spec

\* Whatever the order of the writes to the enable, bank and mode registers,
\* and also when a cartridge is used again, the RAM of an MBC1 and the memory
\* of an MBC2 are accessible exactly while enabled, with the selected bank
\* (gb_cart.cpp:329-354, 384-450, 467-485).
THEOREM RamStaysSelected == Spec => []RamFollowsRegisters
<1>1. CartInv => RamFollowsRegisters
    BY DEF CartInv
<1> QED
    BY <1>1, CartInvariant, PTL

\* The members have their types, and for every size of ROM and RAM no window
\* lies beyond the end of the file (gb_cart.cpp:249-267, 355-711).
THEOREM CartTypeCorrect == Spec => []TypeOK
<1>1. CartInv => TypeOK
    BY DEF CartInv, RomInv, Types, RomFits, RamFits, TypeOK
<1> QED
    BY <1>1, CartInvariant, PTL

-----------------------------------------------------------------------------
(* The MMM01                                                               *)


\* A cartridge that need not be reset is as good as new
MmmNewIsFresh == ~ in_use /\ ~ used => mbc = NewMbc

MmmInv == MmmTypeOK /\ MmmRomFollowsMembers /\ RamWindowInPart /\ MmmNewIsFresh

-----------------------------------------------------------------------------
(* Bits                                                                    *)

\* Where the fields of the numbers are (gb_cart.h:191-208).
LEMMA Masks ==
    /\ Low \in SUBSET (0..8) /\ Mid \in SUBSET (0..8) /\ High \in SUBSET (0..8)
    /\ RamLow \in SUBSET (0..3) /\ RamHigh \in SUBSET (0..3)
BY DEF Low, Mid, High, RamLow, RamHigh

\* The fields of the registers are moved to their places in the bank numbers
\* (gb_cart.cpp:767, 840, 932).
LEMMA ShiftedFields ==
    ASSUME NEW v
    PROVE  /\ Shift(v \cap {4, 5}, -4) \in SUBSET RamLow
           /\ Shift(v \cap (2..5), -1) \in SUBSET (1..4)
           /\ \A free \in SUBSET RamLow : Shift(free, 5) \in SUBSET Mid
<1>1. \A b \in v \cap {4, 5} : b + (-4) \in RamLow
    BY DEF RamLow
<1>2. \A b \in v \cap (2..5) : b + (-1) \in 1..4
    OBVIOUS
<1>3. \A b \in RamLow : b + 5 \in Mid
    BY DEF RamLow, Mid
<1> QED
    BY <1>1, <1>2, <1>3 DEF Shift

\* Replacing some bits of a number keeps its range, and the other bits.
LEMMA Replaced ==
    ASSUME NEW bits
    PROVE  /\ \A set, mask \in SUBSET (0..8) : Replace(set, mask, bits) \in SUBSET (0..8)
           /\ \A set, mask \in SUBSET (0..3) : Replace(set, mask, bits) \in SUBSET (0..3)
           /\ \A set, mask, other : other \cap mask = {} =>
                  Replace(set, mask, bits) \cap other = set \cap other
BY DEF Replace

\* The members of a new controller have their types (gb_cart.h:210-219).
LEMMA NewMbcType == NewMbc \in Members
<1>1. {} \in SUBSET (0..8) /\ {} \in SUBSET (0..3) /\ {} \in SUBSET (1..4) /\ {} \in SUBSET RamLow
    OBVIOUS
<1> QED
    BY <1>1 DEF NewMbc, Members

\* And their fields
LEMMA MemberTypes ==
    ASSUME NEW m \in Members
    PROVE  /\ m.rom_bank \in SUBSET (0..8) /\ m.ram_bank \in SUBSET (0..3)
           /\ m.rom_bank_nwrite_enable \in SUBSET (1..4)
           /\ m.ram_bank_nwrite_enable \in SUBSET RamLow
           /\ m.ram_enabled \in BOOLEAN /\ m.banking_mode \in BOOLEAN
           /\ m.banking_mode_nwrite_enable \in BOOLEAN
           /\ m.mapped \in BOOLEAN /\ m.multiplex \in BOOLEAN
BY DEF Members

\* The banks change, and nothing else does.
LEMMA NewBanks ==
    ASSUME NEW m \in Members, NEW rom \in SUBSET (0..8), NEW rams \in SUBSET (0..3)
    PROVE  [m EXCEPT !.rom_bank = rom, !.ram_bank = rams] \in Members
BY DEF Members

\* The members keep their types when the enable register is written
\* (gb_cart.cpp:734-785).
LEMMA EnableType ==
    ASSUME mbc \in Members, NEW v
    PROVE  Enable(v) \in Members
BY ShiftedFields, MemberTypes DEF Enable, Members

\* The same for the lower bits of the bank of ROM (gb_cart.cpp:786-827).
LEMMA RomBankType ==
    ASSUME mbc \in Members, NEW v
    PROVE  MmmRomBank(v) => mbc' \in Members
<1> DEFINE rom == Replace(mbc.rom_bank, BankBits, v)
           rams == IF ~ mbc.mapped /\ mbc.multiplex
                  THEN Replace(mbc.ram_bank, RamLow, Shift(v \cap Mid, -5)) ELSE mbc.ram_bank
<1>1. BankBits \in SUBSET (0..8)
    BY Masks DEF BankBits
<1>2. rom \in SUBSET (0..8) /\ rams \in SUBSET (0..3)
    <2>1. rom \in SUBSET (0..8)
        BY <1>1, MemberTypes, Replaced
    <2>2. Replace(mbc.ram_bank, RamLow, Shift(v \cap Mid, -5)) \in SUBSET (0..3)
        BY Masks, MemberTypes, Replaced
    <2> QED
        BY <2>1, <2>2, MemberTypes
<1>3. MmmRomBank(v) => mbc' = [mbc EXCEPT !.rom_bank = rom, !.ram_bank = rams]
    BY DEF MmmRomBank
<1> HIDE DEF rom, rams
<1> QED
    BY <1>2, <1>3, NewBanks

\* The same for the upper bits (gb_cart.cpp:828-849).
LEMMA UpperBitsType ==
    ASSUME mbc \in Members, NEW v
    PROVE  UpperBits(v) \in Members
<1> DEFINE free == RamLow \ mbc.ram_bank_nwrite_enable
           rom  == IF mbc.multiplex THEN Replace(mbc.rom_bank, Shift(free, 5), Shift(v, 5)) ELSE mbc.rom_bank
           rams == IF mbc.multiplex THEN mbc.ram_bank ELSE Replace(mbc.ram_bank, free, v)
           m    == [mbc EXCEPT !.rom_bank = rom, !.ram_bank = rams]
           high == Replace(rom, High, Shift(v, 3))
           part == Replace(rams, RamHigh, v)
           lock == 6 \in v
<1>1. free \in SUBSET (0..3) /\ Shift(free, 5) \in SUBSET (0..8)
    BY Masks, ShiftedFields
<1>2. rom \in SUBSET (0..8) /\ rams \in SUBSET (0..3)
    <2>1. /\ Replace(mbc.rom_bank, Shift(free, 5), Shift(v, 5)) \in SUBSET (0..8)
          /\ Replace(mbc.ram_bank, free, v) \in SUBSET (0..3)
        BY <1>1, MemberTypes, Replaced
    <2> QED
        BY <2>1, MemberTypes
<1>3. UpperBits(v) = IF mbc.mapped THEN m
      ELSE [m EXCEPT !.ram_bank = part, !.rom_bank = high, !.banking_mode_nwrite_enable = lock]
    <2>1. CASE mbc.multiplex
        BY <2>1 DEF UpperBits, Members
    <2>2. CASE ~ mbc.multiplex
        BY <2>2 DEF UpperBits, Members
    <2> QED
        BY <2>1, <2>2
<1>4. lock \in BOOLEAN
    OBVIOUS
<1> HIDE DEF rom, rams, lock
<1>5. high \in SUBSET (0..8) /\ part \in SUBSET (0..3)
    <2>1. high \in SUBSET (0..8)
        BY <1>2, Masks, Replaced
    <2>2. part \in SUBSET (0..3)
        BY <1>2, Masks, Replaced
    <2> QED
        BY <2>1, <2>2
<1> HIDE DEF high, part
<1>6. m \in Members
    BY <1>2, NewBanks
<1>7. [m EXCEPT !.ram_bank = part, !.rom_bank = high, !.banking_mode_nwrite_enable = lock] \in Members
    BY <1>4, <1>5, <1>6 DEF Members
<1> QED
    BY <1>3, <1>6, <1>7

\* The same for the mode, and the swap of the multiplexed bits
\* (gb_cart.cpp:884-955).
LEMMA ModeType ==
    ASSUME mbc \in Members, NEW v
    PROVE  Mode(v) \in Members
<1> DEFINE swap == (6 \in v) # mbc.multiplex
           rom  == IF swap THEN Replace(mbc.rom_bank, Mid, Shift(mbc.ram_bank, 5)) ELSE mbc.rom_bank
           rams == IF swap THEN Replace(mbc.ram_bank, RamLow, Shift(mbc.rom_bank, -5)) ELSE mbc.ram_bank
           mode == IF mbc.banking_mode_nwrite_enable THEN mbc.banking_mode ELSE 0 \in v
           plex == 6 \in v
           lock == Shift(v \cap (2..5), -1)
           m    == [mbc EXCEPT !.banking_mode = mode]
<1>1. /\ rom \in SUBSET (0..8) /\ rams \in SUBSET (0..3)
      /\ mode \in BOOLEAN /\ plex \in BOOLEAN /\ lock \in SUBSET (1..4)
    <2>1. /\ Replace(mbc.rom_bank, Mid, Shift(mbc.ram_bank, 5)) \in SUBSET (0..8)
          /\ Replace(mbc.ram_bank, RamLow, Shift(mbc.rom_bank, -5)) \in SUBSET (0..3)
        BY Masks, MemberTypes, Replaced
    <2>2. rom \in SUBSET (0..8) /\ rams \in SUBSET (0..3)
        BY <2>1, MemberTypes
    <2>3. mode \in BOOLEAN /\ plex \in BOOLEAN
        <3>1. CASE mbc.banking_mode_nwrite_enable
            BY <3>1, MemberTypes
        <3>2. CASE ~ mbc.banking_mode_nwrite_enable
            BY <3>2
        <3> QED
            BY <3>1, <3>2
    <2>4. lock \in SUBSET (1..4)
        BY ShiftedFields
    <2> QED
        BY <2>2, <2>3, <2>4
<1>2. Mode(v) = IF mbc.mapped THEN m
      ELSE [m EXCEPT !.rom_bank_nwrite_enable = lock, !.multiplex = plex, !.rom_bank = rom, !.ram_bank = rams]
    BY DEF Mode, Members
<1> HIDE DEF rom, rams, mode, plex, lock
<1>3. m \in Members
    BY <1>1 DEF Members
<1> HIDE DEF m
<1>4. [m EXCEPT !.rom_bank_nwrite_enable = lock, !.multiplex = plex, !.rom_bank = rom, !.ram_bank = rams] \in Members
    BY <1>1, <1>3 DEF Members
<1> QED
    BY <1>2, <1>3, <1>4

-----------------------------------------------------------------------------
(* What a write leaves alone once the cartridge is mapped                  *)

\* The enable register only enables RAM (gb_cart.cpp:765).
LEMMA EnableKeeps ==
    ASSUME mbc \in Members, NEW v
    PROVE  LET m == Enable(v) IN
           /\ m.rom_bank = mbc.rom_bank /\ m.ram_bank = mbc.ram_bank
           /\ m.rom_bank_nwrite_enable = mbc.rom_bank_nwrite_enable
           /\ m.multiplex = mbc.multiplex /\ m.banking_mode = mbc.banking_mode
           /\ mbc.mapped => m.mapped /\ m.ram_bank_nwrite_enable = mbc.ram_bank_nwrite_enable
BY DEF Enable, Members

\* The lower bits of the bank of ROM that are not locked (gb_cart.cpp:790-812)
LEMMA RomBankKeeps ==
    ASSUME mbc \in Members, NEW v, MmmRomBank(v)
    PROVE  /\ mbc'.rom_bank = Replace(mbc.rom_bank, BankBits, v)
           /\ mbc'.ram_bank \cap RamHigh = mbc.ram_bank \cap RamHigh
           /\ mbc.mapped => mbc'.ram_bank = mbc.ram_bank
           /\ mbc'.rom_bank_nwrite_enable = mbc.rom_bank_nwrite_enable
           /\ mbc'.ram_bank_nwrite_enable = mbc.ram_bank_nwrite_enable
           /\ mbc'.multiplex = mbc.multiplex /\ mbc'.banking_mode = mbc.banking_mode
           /\ mbc'.mapped = mbc.mapped /\ mbc'.ram_enabled = mbc.ram_enabled
<1> DEFINE rom == Replace(mbc.rom_bank, BankBits, v)
           rams == IF ~ mbc.mapped /\ mbc.multiplex
                  THEN Replace(mbc.ram_bank, RamLow, Shift(v \cap Mid, -5)) ELSE mbc.ram_bank
<1>1. mbc' = [mbc EXCEPT !.rom_bank = rom, !.ram_bank = rams]
    BY DEF MmmRomBank
<1>2. rams \cap RamHigh = mbc.ram_bank \cap RamHigh
    <2>1. RamHigh \cap RamLow = {}
        BY DEF RamLow, RamHigh
    <2>2. Replace(mbc.ram_bank, RamLow, Shift(v \cap Mid, -5)) \cap RamHigh = mbc.ram_bank \cap RamHigh
        BY <2>1, Replaced
    <2> QED
        BY <2>2
<1>3. mbc.mapped => rams = mbc.ram_bank
    OBVIOUS
<1> HIDE DEF rom, rams
<1>4. /\ mbc'.rom_bank = rom /\ mbc'.ram_bank = rams
      /\ mbc'.rom_bank_nwrite_enable = mbc.rom_bank_nwrite_enable
      /\ mbc'.ram_bank_nwrite_enable = mbc.ram_bank_nwrite_enable
      /\ mbc'.multiplex = mbc.multiplex /\ mbc'.banking_mode = mbc.banking_mode
      /\ mbc'.mapped = mbc.mapped /\ mbc'.ram_enabled = mbc.ram_enabled
    BY <1>1 DEF Members
<1> QED
    BY <1>2, <1>3, <1>4 DEF rom

\* The upper bits: of a mapped cartridge only those of the register that is
\* selected, and not locked (gb_cart.cpp:834-849)
LEMMA UpperBitsKeeps ==
    ASSUME mbc \in Members, NEW v
    PROVE  LET m == UpperBits(v)
               free == RamLow \ mbc.ram_bank_nwrite_enable
           IN  /\ m.rom_bank_nwrite_enable = mbc.rom_bank_nwrite_enable
               /\ m.ram_bank_nwrite_enable = mbc.ram_bank_nwrite_enable
               /\ m.multiplex = mbc.multiplex /\ m.banking_mode = mbc.banking_mode
               /\ m.mapped = mbc.mapped /\ m.ram_enabled = mbc.ram_enabled
               /\ mbc.mapped => m.rom_bank = (IF mbc.multiplex
                      THEN Replace(mbc.rom_bank, Shift(free, 5), Shift(v, 5)) ELSE mbc.rom_bank)
               /\ mbc.mapped => m.ram_bank = (IF mbc.multiplex
                      THEN mbc.ram_bank ELSE Replace(mbc.ram_bank, free, v))
<1>1. CASE mbc.multiplex
    BY <1>1 DEF UpperBits, Members
<1>2. CASE ~ mbc.multiplex
    BY <1>2 DEF UpperBits, Members
<1> QED
    BY <1>1, <1>2

\* The mode alone (gb_cart.cpp:888-894, 929)
LEMMA ModeKeeps ==
    ASSUME mbc \in Members, NEW v
    PROVE  LET m == Mode(v) IN
           /\ m.ram_bank_nwrite_enable = mbc.ram_bank_nwrite_enable
           /\ m.mapped = mbc.mapped /\ m.ram_enabled = mbc.ram_enabled
           /\ mbc.mapped => /\ m.rom_bank = mbc.rom_bank /\ m.ram_bank = mbc.ram_bank
                            /\ m.rom_bank_nwrite_enable = mbc.rom_bank_nwrite_enable
                            /\ m.multiplex = mbc.multiplex
           /\ m.multiplex = mbc.multiplex => m.ram_bank = mbc.ram_bank
<1> DEFINE mode == IF mbc.banking_mode_nwrite_enable THEN mbc.banking_mode ELSE 0 \in v
           plex == 6 \in v
           m    == [mbc EXCEPT !.banking_mode = mode]
           rom  == IF plex # mbc.multiplex THEN Replace(mbc.rom_bank, Mid, Shift(mbc.ram_bank, 5)) ELSE mbc.rom_bank
           rams == IF plex # mbc.multiplex THEN Replace(mbc.ram_bank, RamLow, Shift(mbc.rom_bank, -5)) ELSE mbc.ram_bank
           lock == Shift(v \cap (2..5), -1)
<1>1. Mode(v) = IF mbc.mapped THEN m
      ELSE [m EXCEPT !.rom_bank_nwrite_enable = lock, !.multiplex = plex, !.rom_bank = rom, !.ram_bank = rams]
    BY DEF Mode, Members
<1>2. plex = mbc.multiplex => rams = mbc.ram_bank
    OBVIOUS
<1> HIDE DEF mode, plex, rom, rams, lock
<1> QED
    BY <1>1, <1>2 DEF Members

-----------------------------------------------------------------------------
(* RAM                                                                     *)

\* The ways in which a write treats the window of RAM
RamIsClosed  == ram_window' = Closed /\ ~ mbc'.ram_enabled
RamIsMapped  == /\ mbc'.ram_enabled
                /\ \E bank : bank \cap RamHigh = mbc'.ram_bank \cap RamHigh /\ MapRamBank(bank)
RamIsUnchanged ==
    /\ UNCHANGED ram_window
    /\ mbc'.ram_enabled = mbc.ram_enabled
    /\ \/ mbc'.ram_bank \cap RamHigh = mbc.ram_bank \cap RamHigh
       \/ ~ mbc.ram_enabled
       \/ file.ram = NoBank \/ ~ Banked

\* Each of them keeps the window where the members say it is.
LEMMA RamWays ==
    ASSUME MmmTypeOK, RamWindowInPart, in_use, mbc' \in Members, file' = file,
           RamIsClosed \/ RamIsMapped \/ RamIsUnchanged
    PROVE  /\ RamWindowInPart'
           /\ ram_window' = Closed \/ (file.ram # NoBank /\ ram_window' \subseteq 0..(file.ram - 1))
<1>1. file.ram \in {NoBank, 0, 2, 3, 4} /\ NoBank = -1 /\ Closed \cap RamHigh = {}
    BY MmmAssumption DEF MmmTypeOK, NoBank, Closed, RamHigh
<1>2. CASE RamIsClosed
    BY <1>2 DEF RamIsClosed, RamWindowInPart
<1>3. CASE RamIsMapped
    BY <1>1, <1>3 DEF RamIsMapped, RamWindowInPart, MapRamBank, MmmTypeOK
<1>4. CASE RamIsUnchanged
    <2>1. CASE ~ mbc.ram_enabled \/ file.ram = NoBank
        BY <1>4, <2>1 DEF RamIsUnchanged, RamWindowInPart, MmmTypeOK
    <2>2. CASE mbc.ram_enabled /\ file.ram # NoBank /\ mbc'.ram_bank \cap RamHigh = mbc.ram_bank \cap RamHigh
        BY <1>4, <2>2 DEF RamIsUnchanged, RamWindowInPart, MmmTypeOK
    <2>3. CASE mbc.ram_enabled /\ file.ram # NoBank /\ ~ Banked
        <3>1. file.ram = 0 /\ 0..(file.ram - 1) = {}
            BY <1>1, <2>3 DEF Banked
        <3>2. ram_window \cap RamHigh = {}
            BY <1>1, <3>1 DEF MmmTypeOK
        <3> QED
            BY <1>4, <2>3, <3>1, <3>2 DEF RamIsUnchanged, RamWindowInPart, MmmTypeOK
    <2> QED
        BY <1>4, <2>1, <2>2, <2>3 DEF RamIsUnchanged
<1> QED
    BY <1>2, <1>3, <1>4

\* And every write is one of them.
LEMMA RamOfWrites ==
    ASSUME MmmTypeOK, RamWindowInPart, in_use, NEW v,
           MmmEnable(v) \/ MmmRomBank(v) \/ MmmRamBank(v) \/ MmmMode(v)
    PROVE  RamIsClosed \/ RamIsMapped \/ RamIsUnchanged
<1> USE DEF MmmTypeOK
<1>1. (mbc.ram_bank \ RamLow) \cap RamHigh = mbc.ram_bank \cap RamHigh /\ RamLow \cap RamHigh = {}
    BY DEF RamLow, RamHigh
<1>2. mbc.ram_enabled \in BOOLEAN
    BY MemberTypes
<1>3. CASE MmmEnable(v)
    <2>1. mbc'.ram_bank = mbc.ram_bank /\ mbc'.ram_enabled \in BOOLEAN
        BY <1>3, EnableKeeps, EnableType, MemberTypes DEF MmmEnable
    <2>2. CASE mbc'.ram_enabled = mbc.ram_enabled
        BY <1>3, <2>1, <2>2 DEF MmmEnable, RamIsUnchanged
    <2>3. CASE ~ mbc.ram_enabled /\ mbc'.ram_enabled
        BY <1>1, <1>3, <2>1, <2>3 DEF MmmEnable, RamIsMapped
    <2>4. CASE mbc.ram_enabled /\ ~ mbc'.ram_enabled
        BY <1>3, <2>4 DEF MmmEnable, RamIsClosed
    <2> QED
        BY <1>2, <2>1, <2>2, <2>3, <2>4
<1>4. CASE MmmRomBank(v)
    <2>1. mbc'.ram_bank \cap RamHigh = mbc.ram_bank \cap RamHigh /\ mbc'.ram_enabled = mbc.ram_enabled
        BY <1>4, RomBankKeeps
    <2>2. (MapRamBank(mbc'.ram_bank) /\ mbc.ram_enabled) \/ UNCHANGED ram_window
        BY <1>4 DEF MmmRomBank
    <2> QED
        BY <2>1, <2>2 DEF RamIsMapped, RamIsUnchanged
<1>5. CASE MmmRamBank(v)
    <2>1. mbc'.ram_enabled = mbc.ram_enabled
        BY <1>5, UpperBitsKeeps DEF MmmRamBank
    <2>2. CASE mbc.ram_enabled /\ (~ mbc.mapped \/ (~ mbc.multiplex /\ mbc.banking_mode))
        BY <1>5, <2>1, <2>2 DEF MmmRamBank, RamIsMapped
    <2>3. CASE ~ mbc.ram_enabled
        BY <1>5, <2>1, <2>3 DEF MmmRamBank, RamIsUnchanged
    <2>4. CASE mbc.ram_enabled /\ mbc.mapped /\ ~ (~ mbc.multiplex /\ mbc.banking_mode)
        <3>1. UNCHANGED ram_window
            BY <1>5, <2>4 DEF MmmRamBank
        <3> DEFINE free == RamLow \ mbc.ram_bank_nwrite_enable
        <3>2. mbc'.ram_bank = IF mbc.multiplex THEN mbc.ram_bank ELSE Replace(mbc.ram_bank, free, v)
            BY <1>5, <2>4, UpperBitsKeeps DEF MmmRamBank
        <3>3. RamHigh \cap free = {}
            BY <1>1
        <3>4. Replace(mbc.ram_bank, free, v) \cap RamHigh = mbc.ram_bank \cap RamHigh
            BY <3>3, Replaced
        <3>5. mbc'.ram_bank \cap RamHigh = mbc.ram_bank \cap RamHigh
            BY <3>2, <3>4
        <3> QED
            BY <2>1, <3>1, <3>5 DEF RamIsUnchanged
    <2> QED
        BY <1>2, <2>2, <2>3, <2>4
<1>6. CASE MmmMode(v)
    <2>1. mbc'.ram_enabled = mbc.ram_enabled /\ (mbc'.multiplex = mbc.multiplex => mbc'.ram_bank = mbc.ram_bank)
        BY <1>6, ModeKeeps DEF MmmMode
    <2>2. CASE ~ (mbc.ram_enabled /\ Banked)
        BY <1>6, <2>1, <2>2 DEF MmmMode, RamIsUnchanged
    <2>3. CASE mbc.ram_enabled /\ Banked
        BY <1>1, <1>6, <2>1, <2>3 DEF MmmMode, ModeRam, RamIsMapped, RamIsUnchanged
    <2> QED
        BY <2>2, <2>3
<1> QED
    BY <1>3, <1>4, <1>5, <1>6

-----------------------------------------------------------------------------
(* ROM                                                                     *)

Hidden(m) == IF m.multiplex THEN Mid ELSE {}

\* The two windows of a mapped cartridge, and of one that shows its menu
GameWindows(m, b0, b1) ==
    /\ b1 = SwitchedBank(m) \cap 0..(file.rom - 1)
    /\ b0 \ Hidden(m) = (FixedBank(m) \cap 0..(file.rom - 1)) \ Hidden(m)
MenuWindows(b0, b1) ==
    /\ b0 = MenuBank \cap 0..(file.rom - 1)
    /\ b1 \cup {0} = 0..(file.rom - 1)

\* The invariant in these terms
LEMMA RomInvariantIs ==
    /\ MmmRomFollowsMembers <=> (in_use => IF mbc.mapped THEN GameWindows(mbc, bank0, bank1) ELSE MenuWindows(bank0, bank1))
    /\ file' = file => (MmmRomFollowsMembers' <=>
           (in_use' => IF mbc'.mapped THEN GameWindows(mbc', bank0', bank1') ELSE MenuWindows(bank0', bank1')))
BY DEF MmmRomFollowsMembers, GameWindows, MenuWindows, Hidden

\* The windows depend on the bank of ROM, its lock and the multiplexer alone;
\* the lower one, on what the lock and the multiplexer leave of the bank.
LEMMA WindowsDependOn ==
    ASSUME NEW m, NEW n,
           n.rom_bank_nwrite_enable = m.rom_bank_nwrite_enable, n.multiplex = m.multiplex
    PROVE  /\ n.rom_bank = m.rom_bank => SwitchedBank(n) = SwitchedBank(m) /\ FixedBank(n) = FixedBank(m)
           /\ Hidden(n) = Hidden(m)
BY DEF SwitchedBank, FixedBank, Hidden

\* Every write keeps the windows of ROM what the members say
\* (gb_cart.cpp:765-784, 786-827, 851-882, 884-910).
LEMMA RomOfWrites ==
    ASSUME MmmTypeOK, MmmRomFollowsMembers, in_use, NEW v, UNCHANGED <<file, in_use>>,
           MmmEnable(v) \/ MmmRomBank(v) \/ MmmRamBank(v) \/ MmmMode(v)
    PROVE  /\ MmmRomFollowsMembers'
           /\ bank0' \subseteq 0..(file.rom - 1) /\ bank1' \subseteq 0..(file.rom - 1)
<1> USE DEF MmmTypeOK
<1>1. file.rom \in 4..9
    BY MmmAssumption
<1>2. /\ mbc.mapped => GameWindows(mbc, bank0, bank1)
      /\ ~ mbc.mapped => MenuWindows(bank0, bank1)
    BY RomInvariantIs
<1>3. SUFFICES /\ mbc'.mapped => GameWindows(mbc', bank0', bank1')
               /\ ~ mbc'.mapped => MenuWindows(bank0', bank1')
               /\ bank0' \subseteq 0..(file.rom - 1) /\ bank1' \subseteq 0..(file.rom - 1)
    BY RomInvariantIs
<1>4. mbc.mapped \in BOOLEAN /\ mbc.multiplex \in BOOLEAN
    BY MemberTypes
<1>5. CASE MmmEnable(v)
    <2>1. /\ mbc'.rom_bank = mbc.rom_bank /\ mbc'.multiplex = mbc.multiplex
          /\ mbc'.rom_bank_nwrite_enable = mbc.rom_bank_nwrite_enable
          /\ mbc.mapped => mbc'.mapped
        BY <1>5, EnableKeeps DEF MmmEnable
    <2>2. /\ SwitchedBank(mbc') = SwitchedBank(mbc) /\ FixedBank(mbc') = FixedBank(mbc)
          /\ Hidden(mbc') = Hidden(mbc)
        BY <2>1, WindowsDependOn
    <2>3. CASE mbc'.mapped = mbc.mapped
        BY <1>2, <1>5, <2>2, <2>3 DEF MmmEnable, GameWindows
    <2>4. CASE ~ mbc.mapped /\ mbc'.mapped
        BY <1>5, <2>2, <2>4 DEF MmmEnable, GameWindows, MapBank0, MapBank1
    <2> QED
        BY <1>5, <2>3, <2>4 DEF MmmEnable
<1>6. CASE MmmRomBank(v)
    <2>1. /\ mbc'.rom_bank = Replace(mbc.rom_bank, BankBits, v)
          /\ mbc'.mapped = mbc.mapped /\ mbc'.multiplex = mbc.multiplex
          /\ mbc'.rom_bank_nwrite_enable = mbc.rom_bank_nwrite_enable
          /\ Hidden(mbc') = Hidden(mbc)
        BY <1>6, RomBankKeeps, WindowsDependOn
    <2>2. CASE mbc.mapped
        <3>1. BankBits = Low \ mbc.rom_bank_nwrite_enable
            BY <2>2 DEF BankBits
        <3>2. FixedBank(mbc') = FixedBank(mbc)
            BY <2>1, <3>1 DEF FixedBank, Replace
        <3>3. bank1' = SwitchedBank(mbc') \cap 0..(file.rom - 1) /\ bank0' = bank0
            BY <1>6, <2>2 DEF MmmRomBank, MapBank1
        <3> QED
            BY <1>2, <2>1, <2>2, <3>2, <3>3 DEF GameWindows
    <2>3. CASE ~ mbc.mapped
        <3>1. bank1' = (SwitchedBank(mbc') \cup MenuBank) \cap 0..(file.rom - 1) /\ bank0' = bank0
            BY <1>6, <2>3 DEF MmmRomBank, MapBank1
        <3>2. 0..(file.rom - 1) \subseteq MenuBank \cup {0} /\ 0 \in 0..(file.rom - 1)
            BY <1>1 DEF MenuBank
        <3>3. bank1' \cup {0} = 0..(file.rom - 1)
            BY <3>1, <3>2
        <3> QED
            BY <1>2, <2>1, <2>3, <3>1, <3>3 DEF MenuWindows
    <2> QED
        BY <1>4, <2>2, <2>3
<1>7. CASE MmmRamBank(v)
    <2> DEFINE free == RamLow \ mbc.ram_bank_nwrite_enable
    <2>1. /\ mbc'.mapped = mbc.mapped /\ mbc'.multiplex = mbc.multiplex
          /\ mbc'.rom_bank_nwrite_enable = mbc.rom_bank_nwrite_enable
          /\ Hidden(mbc') = Hidden(mbc)
          /\ mbc.mapped => mbc'.rom_bank =
                 IF mbc.multiplex THEN Replace(mbc.rom_bank, Shift(free, 5), Shift(v, 5)) ELSE mbc.rom_bank
        BY <1>7, UpperBitsKeeps, WindowsDependOn DEF MmmRamBank
    <2>2. CASE mbc.mapped /\ mbc.multiplex
        <3>1. bank1' = SwitchedBank(mbc') \cap 0..(file.rom - 1)
            BY <1>7, <2>2 DEF MmmRamBank, MapBank1
        <3>2. bank0' = FixedBank(mbc') \cap 0..(file.rom - 1) \/ bank0' = bank0
            BY <1>7, <2>2 DEF MmmRamBank, MapBank0
        <3>3. Shift(free, 5) \subseteq Mid
            BY ShiftedFields
        <3>4. FixedBank(mbc') \ Mid = FixedBank(mbc) \ Mid
            <4>1. mbc'.rom_bank \ Mid = mbc.rom_bank \ Mid
                BY <2>1, <2>2, <3>3 DEF Replace
            <4> QED
                BY <2>1, <4>1 DEF FixedBank
        <3>5. bank0 \ Mid = (FixedBank(mbc) \cap 0..(file.rom - 1)) \ Mid
            BY <1>2, <2>2 DEF GameWindows, Hidden
        <3>6. bank0' \ Mid = (FixedBank(mbc') \cap 0..(file.rom - 1)) \ Mid
            BY <3>2, <3>4, <3>5
        <3> QED
            BY <2>1, <2>2, <3>1, <3>2, <3>6 DEF GameWindows, Hidden
    <2>3. CASE ~ (mbc.mapped /\ mbc.multiplex)
        <3>1. UNCHANGED <<bank0, bank1>>
            BY <1>7, <2>3 DEF MmmRamBank
        <3>2. mbc.mapped => SwitchedBank(mbc') = SwitchedBank(mbc) /\ FixedBank(mbc') = FixedBank(mbc)
            BY <2>1, <2>3, WindowsDependOn
        <3> QED
            BY <1>2, <2>1, <3>1, <3>2 DEF GameWindows
    <2> QED
        BY <2>2, <2>3
<1>8. CASE MmmMode(v)
    <2>1. /\ mbc'.mapped = mbc.mapped
          /\ mbc.mapped => /\ mbc'.multiplex = mbc.multiplex
                           /\ SwitchedBank(mbc') = SwitchedBank(mbc) /\ FixedBank(mbc') = FixedBank(mbc)
                           /\ Hidden(mbc') = Hidden(mbc)
        BY <1>8, ModeKeeps, WindowsDependOn DEF MmmMode
    <2>2. bank1' = bank1
        BY <1>8 DEF MmmMode
    <2>3. CASE ModeBank
        <3>1. mbc.mapped /\ mbc.multiplex
            BY <2>3 DEF ModeBank
        <3>2. \/ bank0' = FixedBank(mbc) \cap 0..(file.rom - 1)
              \/ bank0' = (FixedBank(mbc) \ Mid) \cap 0..(file.rom - 1)
            BY <1>8, <2>3 DEF MmmMode, MapBank0
        <3>3. bank0' \ Mid = (FixedBank(mbc) \cap 0..(file.rom - 1)) \ Mid
            BY <3>2
        <3> QED
            BY <1>2, <2>1, <2>2, <3>1, <3>2, <3>3 DEF GameWindows, Hidden
    <2>4. CASE ~ ModeBank
        <3>1. bank0' = bank0
            BY <1>8, <2>4 DEF MmmMode
        <3> QED
            BY <1>2, <2>1, <2>2, <3>1 DEF GameWindows
    <2> QED
        BY <2>3, <2>4
<1> QED
    BY <1>5, <1>6, <1>7, <1>8

-----------------------------------------------------------------------------
(* The invariant                                                           *)

\* A cartridge that was loaded has its members and windows in range.
LEMMA MmmInitInv == MmmInit => MmmInv
BY NewMbcType DEF MmmInit, MmmInv, MmmTypeOK, MmmRomFollowsMembers, RamWindowInPart, MmmNewIsFresh

\* Mapping shows the menu, whatever the cartridge was used for before
\* (gb_cart.cpp:21-36, 723-730).
LEMMA MmmMapInv == MmmInv /\ MmmMap => MmmInv'
<1> SUFFICES ASSUME MmmInv, MmmMap
             PROVE  MmmInv'
    OBVIOUS
<1> USE DEF MmmInv, MmmTypeOK
<1>1. file.rom \in 4..9 /\ file' = file /\ in_use' = TRUE /\ used' = used
    BY MmmAssumption DEF MmmMap
<1>2. mbc' = IF used THEN NewMbc ELSE mbc
    BY DEF MmmMap
<1>3. bank0' = MenuBank \cap 0..(file.rom - 1) /\ bank1' = (MenuBank \cup {0}) \cap 0..(file.rom - 1)
    BY DEF MmmMap, MapBank0, MapBank1
<1>4. bank1' \cup {0} = 0..(file.rom - 1)
    BY <1>1, <1>3 DEF MenuBank
<1>5. ram_window' = Closed
    BY DEF MmmMap
<1>6. mbc' = NewMbc /\ mbc' \in Members
    BY <1>2, NewMbcType DEF MmmMap, MmmNewIsFresh
<1>7. ~ mbc'.mapped /\ ~ mbc'.ram_enabled
    BY <1>6 DEF NewMbc
<1>8. MmmTypeOK'
    BY <1>1, <1>3, <1>4, <1>5, <1>6
<1>9. MmmRomFollowsMembers' /\ RamWindowInPart' /\ MmmNewIsFresh'
    BY <1>1, <1>3, <1>4, <1>5, <1>7 DEF MmmRomFollowsMembers, RamWindowInPart, MmmNewIsFresh
<1> QED
    BY <1>8, <1>9

\* A write keeps it.
LEMMA MmmWriteInv ==
    ASSUME NEW v
    PROVE  MmmInv /\ MmmWrite(v) => MmmInv'
<1> SUFFICES ASSUME MmmInv, MmmWrite(v)
             PROVE  MmmInv'
    OBVIOUS
<1>1. /\ MmmEnable(v) \/ MmmRomBank(v) \/ MmmRamBank(v) \/ MmmMode(v)
      /\ in_use /\ UNCHANGED <<file, in_use, used>>
    BY DEF MmmWrite
<1>2. mbc' \in Members
    BY <1>1, EnableType, RomBankType, UpperBitsType, ModeType
       DEF MmmInv, MmmTypeOK, MmmEnable, MmmRamBank, MmmMode
<1>3. /\ MmmRomFollowsMembers'
      /\ bank0' \subseteq 0..(file.rom - 1) /\ bank1' \subseteq 0..(file.rom - 1)
    BY <1>1, RomOfWrites DEF MmmInv
<1>4. /\ RamWindowInPart'
      /\ ram_window' = Closed \/ (file.ram # NoBank /\ ram_window' \subseteq 0..(file.ram - 1))
    BY <1>1, <1>2, RamOfWrites, RamWays DEF MmmInv
<1>5. MmmTypeOK'
    BY <1>1, <1>2, <1>3, <1>4 DEF MmmInv, MmmTypeOK
<1> QED
    BY <1>1, <1>3, <1>4, <1>5 DEF MmmInv, MmmNewIsFresh

\* And so does every other step.
LEMMA MmmNextInv == MmmInv /\ [MmmNext]_mmmVars => MmmInv'
<1> SUFFICES ASSUME MmmInv, [MmmNext]_mmmVars
             PROVE  MmmInv'
    OBVIOUS
<1> USE DEF MmmInv
<1>1. CASE MmmMap
    BY <1>1, MmmMapInv
<1>2. CASE MmmUnmap
    BY <1>2 DEF MmmUnmap, MmmTypeOK, MmmRomFollowsMembers, RamWindowInPart, MmmNewIsFresh
<1>3. ASSUME NEW f \in MmmRoms, MmmLoad(f)
      PROVE  MmmInv'
    BY <1>3, NewMbcType DEF MmmLoad, MmmTypeOK, MmmRomFollowsMembers, RamWindowInPart, MmmNewIsFresh
<1>4. ASSUME NEW v \in MmmBytes, MmmWrite(v)
      PROVE  MmmInv'
    BY <1>4, MmmWriteInv
<1>5. CASE UNCHANGED mmmVars
    BY <1>5 DEF mmmVars, MmmTypeOK, MmmRomFollowsMembers, RamWindowInPart, MmmNewIsFresh
<1> QED
    BY <1>1, <1>2, <1>3, <1>4, <1>5 DEF MmmNext

\* The inductive invariant
THEOREM MmmInvariant == MmmSpec => []MmmInv
BY MmmInitInv, MmmNextInv, PTL DEF MmmSpec

\* The windows show the banks that the members select, and nothing beyond the
\* data (gb_cart.cpp:723-956): no member and no bank leaves its range.
THEOREM MmmTypeCorrect == MmmSpec => []MmmTypeOK
<1>1. MmmInv => MmmTypeOK
    BY DEF MmmInv
<1> QED
    BY <1>1, MmmInvariant, PTL

\* The windows of ROM show the banks that the members select, and RAM is open
\* exactly while it is enabled, in its part (gb_cart.cpp:732-956).
THEOREM WindowsAlwaysFollow == MmmSpec => []WindowsFollowMembers
<1>1. MmmInv => WindowsFollowMembers
    BY DEF MmmInv, WindowsFollowMembers
<1> QED
    BY <1>1, MmmInvariant, PTL

-----------------------------------------------------------------------------
(* The block of a game                                                     *)

\* What the members say a window shows of the bits that are locked
BlockOf(m) == m.rom_bank \cap (m.rom_bank_nwrite_enable \cup High \cup
                  (IF m.multiplex THEN Shift(m.ram_bank_nwrite_enable, 5) ELSE Mid))
LocksOf(m) == <<m.rom_bank_nwrite_enable, m.ram_bank_nwrite_enable, m.multiplex, m.mapped>>

\* No write of a mapped cartridge changes a locked bit of the members
\* (gb_cart.cpp:765, 790-812, 836-849, 929).
LEMMA MembersStayInBlock ==
    ASSUME MmmInv, mbc.mapped, NEW v, MmmWrite(v)
    PROVE  /\ LocksOf(mbc') = LocksOf(mbc)
           /\ BlockOf(mbc') = BlockOf(mbc)
           /\ mbc'.rom_bank \ (Low \cup Mid) = mbc.rom_bank \ (Low \cup Mid)
           /\ ~ mbc.multiplex => mbc'.rom_bank \cap Mid = mbc.rom_bank \cap Mid
           /\ mbc'.ram_bank \cap RamHigh = mbc.ram_bank \cap RamHigh
<1> USE DEF MmmInv, MmmTypeOK
<1>1. mbc.mapped \in BOOLEAN /\ mbc.multiplex \in BOOLEAN /\ mbc.ram_bank_nwrite_enable \subseteq RamLow
    BY MemberTypes
<1>2. Low \cap Mid = {} /\ Low \cap High = {} /\ Mid \cap High = {} /\ RamLow \cap RamHigh = {}
    BY DEF Low, Mid, High, RamLow, RamHigh
<1>3. CASE MmmEnable(v)
    <2>1. /\ mbc'.rom_bank = mbc.rom_bank /\ mbc'.ram_bank = mbc.ram_bank
          /\ LocksOf(mbc') = LocksOf(mbc)
        <3>1. mbc'.mapped = mbc.mapped
            BY <1>1, <1>3, EnableKeeps, EnableType, MemberTypes DEF MmmEnable
        <3> QED
            BY <1>3, <3>1, EnableKeeps DEF MmmEnable, LocksOf
    <2> QED
        BY <2>1 DEF LocksOf, BlockOf
<1>4. CASE MmmRomBank(v)
    <2>1. BankBits = Low \ mbc.rom_bank_nwrite_enable
        BY DEF BankBits
    <2>2. /\ mbc'.rom_bank = Replace(mbc.rom_bank, BankBits, v) /\ mbc'.ram_bank = mbc.ram_bank
          /\ LocksOf(mbc') = LocksOf(mbc)
        BY <1>4, RomBankKeeps DEF LocksOf
    <2>3. Shift(mbc.ram_bank_nwrite_enable, 5) \subseteq Mid
        BY <1>1, ShiftedFields
    <2>4. BlockOf(mbc') = BlockOf(mbc)
        BY <1>2, <2>1, <2>2, <2>3 DEF BlockOf, LocksOf, Replace
    <2> QED
        BY <1>2, <2>1, <2>2, <2>4 DEF Replace
<1>5. CASE MmmRamBank(v)
    <2> DEFINE free == RamLow \ mbc.ram_bank_nwrite_enable
    <2>1. /\ mbc'.rom_bank = IF mbc.multiplex THEN Replace(mbc.rom_bank, Shift(free, 5), Shift(v, 5)) ELSE mbc.rom_bank
          /\ mbc'.ram_bank = IF mbc.multiplex THEN mbc.ram_bank ELSE Replace(mbc.ram_bank, free, v)
          /\ LocksOf(mbc') = LocksOf(mbc)
        BY <1>5, UpperBitsKeeps DEF MmmRamBank, LocksOf
    <2>2. Shift(free, 5) \subseteq Mid /\ Shift(free, 5) \cap Shift(mbc.ram_bank_nwrite_enable, 5) = {}
        <3>1. \A a \in free, b \in mbc.ram_bank_nwrite_enable : a + 5 # b + 5
            BY <1>1 DEF RamLow
        <3>2. Shift(free, 5) \cap Shift(mbc.ram_bank_nwrite_enable, 5) = {}
            BY <3>1 DEF Shift
        <3>3. Shift(free, 5) \subseteq Mid
            BY ShiftedFields
        <3> QED
            BY <3>2, <3>3
    <2>3. mbc'.ram_bank \cap RamHigh = mbc.ram_bank \cap RamHigh
        BY <1>2, <2>1 DEF Replace
    <2>4. CASE mbc.multiplex
        <3>1. mbc.rom_bank_nwrite_enable \subseteq Low
            BY MemberTypes DEF Low
        <3>2. BlockOf(mbc') = BlockOf(mbc)
            BY <1>2, <2>1, <2>2, <2>4, <3>1 DEF BlockOf, LocksOf, Replace
        <3> QED
            BY <1>2, <2>1, <2>2, <2>3, <2>4, <3>2 DEF Replace
    <2>5. CASE ~ mbc.multiplex
        BY <2>1, <2>3, <2>5 DEF BlockOf, LocksOf
    <2> QED
        BY <2>4, <2>5
<1>6. CASE MmmMode(v)
    <2>1. /\ mbc'.rom_bank = mbc.rom_bank /\ mbc'.ram_bank = mbc.ram_bank
          /\ LocksOf(mbc') = LocksOf(mbc)
        BY <1>6, ModeKeeps DEF MmmMode, LocksOf
    <2> QED
        BY <2>1 DEF LocksOf, BlockOf
<1> QED
    BY <1>3, <1>4, <1>5, <1>6 DEF MmmWrite

\* A write of a mapped cartridge leaves the windows in the block.
LEMMA WindowsStayInBlock ==
    ASSUME MmmInv, mbc.mapped, NEW v, MmmWrite(v)
    PROVE  /\ bank1' \cap LockedBits = bank1 \cap LockedBits
           /\ bank0' \cap LockedBits0 = bank0 \cap LockedBits0
<1> DEFINE R == 0..(file.rom - 1)
<1>1. MmmInv' /\ in_use /\ in_use' /\ file' = file
    BY MmmWriteInv DEF MmmWrite
<1>2. /\ LocksOf(mbc') = LocksOf(mbc) /\ BlockOf(mbc') = BlockOf(mbc)
      /\ mbc'.rom_bank \ (Low \cup Mid) = mbc.rom_bank \ (Low \cup Mid)
      /\ ~ mbc.multiplex => mbc'.rom_bank \cap Mid = mbc.rom_bank \cap Mid
    BY MembersStayInBlock
<1>3. GameWindows(mbc, bank0, bank1) /\ GameWindows(mbc', bank0', bank1')
    BY <1>1, <1>2, RomInvariantIs DEF MmmInv, LocksOf
<1>4. /\ mbc.rom_bank_nwrite_enable \in SUBSET (1..4)
      /\ mbc.ram_bank_nwrite_enable \in SUBSET RamLow
    BY MemberTypes DEF MmmInv, MmmTypeOK
<1>5. 0 \notin LockedBits
    <2>1. 0 \notin Mid /\ 0 \notin High /\ 0 \notin 1..4
        BY DEF Mid, High
    <2>2. Shift(mbc.ram_bank_nwrite_enable, 5) \in SUBSET Mid
        BY <1>4, ShiftedFields
    <2> QED
        BY <1>4, <2>1, <2>2 DEF LockedBits
<1>6. /\ BlockOf(mbc) = mbc.rom_bank \cap LockedBits
      /\ BlockOf(mbc') = mbc'.rom_bank \cap LockedBits
    BY <1>2 DEF BlockOf, LocksOf, LockedBits
<1>7. bank1' \cap LockedBits = bank1 \cap LockedBits
    <2>1. /\ bank1 = SwitchedBank(mbc) \cap R /\ bank1' = SwitchedBank(mbc') \cap R
        BY <1>1, <1>3 DEF GameWindows
    <2>2. /\ SwitchedBank(mbc) \cap LockedBits = mbc.rom_bank \cap LockedBits
          /\ SwitchedBank(mbc') \cap LockedBits = mbc'.rom_bank \cap LockedBits
        BY <1>5 DEF SwitchedBank
    <2> QED
        BY <1>2, <1>6, <2>1, <2>2
<1>8. Low \cap Mid = {} /\ Mid \cap High = {} /\ Low \cap High = {} /\ mbc.rom_bank_nwrite_enable \subseteq Low
    BY <1>4 DEF Low, Mid, High
<1>9. bank0' \cap LockedBits0 = bank0 \cap LockedBits0
    <2>1. Hidden(mbc') = Hidden(mbc) /\ mbc'.rom_bank_nwrite_enable = mbc.rom_bank_nwrite_enable
        BY <1>2 DEF Hidden, LocksOf
    <2>2. LockedBits0 \cap Hidden(mbc) = {}
        BY <1>8 DEF LockedBits0, Hidden
    <2>3. /\ bank0 \ Hidden(mbc) = (FixedBank(mbc) \cap R) \ Hidden(mbc)
          /\ bank0' \ Hidden(mbc) = (FixedBank(mbc') \cap R) \ Hidden(mbc)
        BY <1>1, <1>3, <2>1 DEF GameWindows
    <2>4. mbc'.rom_bank \cap mbc.rom_bank_nwrite_enable = mbc.rom_bank \cap mbc.rom_bank_nwrite_enable
        BY <1>2, <1>6 DEF LockedBits
    <2>5. FixedBank(mbc') \cap LockedBits0 = FixedBank(mbc) \cap LockedBits0
        BY <1>2, <1>8, <2>1, <2>4 DEF FixedBank, LockedBits0
    <2> QED
        BY <2>2, <2>3, <2>5
<1> QED
    BY <1>7, <1>9

\* Once mapped, a game stays in the block of ROM that the menu chose.
THEOREM GameNeverLeavesBlock == MmmSpec => GameStaysInBlock
<1>1. ASSUME MmmInv, [MmmNext]_mmmVars, in_use, mbc.mapped, in_use'
      PROVE  /\ bank1' \cap LockedBits = bank1 \cap LockedBits
             /\ bank0' \cap LockedBits0 = bank0 \cap LockedBits0
             /\ LockedBits' = LockedBits
             /\ mbc'.mapped /\ mbc'.ram_bank \cap RamHigh = mbc.ram_bank \cap RamHigh
    <2>1. ASSUME NEW v \in MmmBytes, MmmWrite(v)
          PROVE  /\ bank1' \cap LockedBits = bank1 \cap LockedBits
                 /\ bank0' \cap LockedBits0 = bank0 \cap LockedBits0
                 /\ LockedBits' = LockedBits
                 /\ mbc'.mapped /\ mbc'.ram_bank \cap RamHigh = mbc.ram_bank \cap RamHigh
        <3>1. /\ LocksOf(mbc') = LocksOf(mbc)
              /\ mbc'.ram_bank \cap RamHigh = mbc.ram_bank \cap RamHigh
            BY <1>1, <2>1, MembersStayInBlock
        <3>2. LockedBits' = LockedBits /\ mbc'.mapped
            BY <1>1, <3>1 DEF LocksOf, LockedBits
        <3> QED
            BY <1>1, <2>1, <3>1, <3>2, WindowsStayInBlock
    <2>2. CASE UNCHANGED mmmVars
        BY <1>1, <2>2 DEF mmmVars, LockedBits, LockedBits0
    <2>3. ~ MmmMap /\ ~ MmmUnmap /\ \A f \in MmmRoms : ~ MmmLoad(f)
        BY <1>1 DEF MmmMap, MmmUnmap, MmmLoad
    <2> QED
        BY <1>1, <2>1, <2>2, <2>3 DEF MmmNext
<1>2. [MmmNext]_mmmVars /\ MmmInv =>
          [in_use /\ mbc.mapped /\ in_use' =>
              /\ bank1' \cap LockedBits = bank1 \cap LockedBits
              /\ bank0' \cap LockedBits0 = bank0 \cap LockedBits0
              /\ LockedBits' = LockedBits
              /\ mbc'.mapped /\ mbc'.ram_bank \cap RamHigh = mbc.ram_bank \cap RamHigh]_mmmVars
    BY <1>1
<1> QED
    BY <1>2, MmmInvariant, PTL DEF MmmSpec, GameStaysInBlock

-----------------------------------------------------------------------------
(* The slot                                                                *)

\* The inductive invariants of both sorts of controller hold whichever is there:
\* the other one rests in a state that its own operations reach (gb_cart.cpp:1013).
THEOREM SlotInvariant == SlotSpec => [](CartInv /\ MmmInv)
<1>1. SlotInit => CartInv /\ MmmInv
    BY InitCartInv, MmmInitInv DEF SlotInit
<1>2. (CartInv /\ MmmInv) /\ [SlotNext]_slotVars => (CartInv /\ MmmInv)'
    <2> SUFFICES ASSUME CartInv, MmmInv, [SlotNext]_slotVars
                 PROVE  CartInv' /\ MmmInv'
        OBVIOUS
    <2>1. [Next]_vars => CartInv'
        BY MapCartInv, WriteCartInv, OtherCartInv DEF Next
    <2>2. [MmmNext]_mmmVars => MmmInv'
        BY MmmNextInv
    <2>3. LoadOther => Next /\ MmmNext
        <3>1. \A c \in (IF is_mmm01 THEN Carts ELSE {NoCart}) : c \in Carts
            BY SlotAssumption DEF NoCart
        <3>2. \A f \in (IF is_mmm01 THEN {NoMmm} ELSE MmmRoms) : f \in MmmRoms
            BY SlotAssumption DEF NoMmm
        <3> QED
            BY <3>1, <3>2 DEF LoadOther, Next, MmmNext
    <2>4. [Next]_vars /\ [MmmNext]_mmmVars
        BY <2>3 DEF SlotNext, slotVars
    <2> QED
        BY <2>1, <2>2, <2>4
<1> QED
    BY <1>1, <1>2, PTL DEF SlotSpec

\* Whichever controllers take turns in the slot, members keep their types and no
\* window of any lies beyond the end of its ROM or RAM (gb_cart.cpp:254-956).
THEOREM SlotTypeCorrect == SlotSpec => []SlotTypeOK
<1>1. CartInv /\ MmmInv => SlotTypeOK
    BY DEF CartInv, RomInv, Types, RomFits, RamFits, TypeOK, MmmInv, SlotTypeOK
<1> QED
    BY <1>1, SlotInvariant, PTL

\* The banks of ROM and RAM that are mapped stay the selected ones when
\* cartridges of all sorts follow each other (gb_cart.cpp:327-956).
THEOREM SlotStaysSelected ==
    SlotSpec => [](RomFollowsRegisters /\ RamFollowsRegisters /\ WindowsFollowMembers)
<1>1. CartInv /\ MmmInv => RomFollowsRegisters /\ RamFollowsRegisters /\ WindowsFollowMembers
    BY DEF CartInv, RomInv, MmmInv, WindowsFollowMembers
<1> QED
    BY <1>1, SlotInvariant, PTL
=============================================================================
