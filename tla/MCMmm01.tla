------------------------------ MODULE MCMmm01 ------------------------------
(***************************************************************************)
(* A cartridge with an MMM01, 8 MiB of ROM and 64 KiB of RAM, and bytes    *)
(* that enable RAM with and without the map bit, set every sort of lock    *)
(* and of bank, and turn the multiplexer on and off.                       *)
(***************************************************************************)
EXTENDS Mmm01

MCMmmRoms == {[rom |-> 9, ram |-> 3]}

\* 00, 0A, 5A, 25, 6A
MCMmmBytes == {{}, {1, 3}, {1, 3, 4, 6}, {0, 2, 5}, {1, 3, 5, 6}}
=============================================================================
