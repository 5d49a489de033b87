------------------------------- MODULE MCCart -------------------------------
(***************************************************************************)
(* Cartridges of every kind, with sizes that exist, and bytes that reach   *)
(* every part of the registers.                                            *)
(***************************************************************************)
EXTENDS Cart

Rom(kind, multicart, rom, size) == [kind |-> kind, multicart |-> multicart, rom |-> rom, ram |-> size]

\* 2 MiB of ROM and 8 KiB of RAM, 512 KiB and 32 KiB, a multicart, 2 KiB of
\* RAM; an MBC2; 2 MiB and 32 KiB, and a multicart with an MBC3; 8 MiB and
\* 128 KiB with an MBC5; RAM without a controller
MCCarts == {
    Rom("mbc1", FALSE, 128, 4), Rom("mbc1", FALSE, 32, 16), Rom("mbc1", TRUE, 64, 4),
    Rom("mbc1", FALSE, 4, 1), Rom("mbc2", FALSE, 16, 1),
    Rom("mbc3", FALSE, 128, 16), Rom("mbc3", TRUE, 16, 0),
    Rom("mbc5", FALSE, 512, 64), Rom("null", FALSE, 2, 4)}

MCMbc5 == {Rom("mbc5", FALSE, 512, 64)}

\* 0A enables RAM; the others cover bank 0 and its neighbours, the fifth bit
\* of the lower register, the upper bits and the clock registers
MCBytes == {0, 1, 10, 16, 18, 35, 255}
=============================================================================
