----------------------------- MODULE MCCpuCore -----------------------------
(***************************************************************************)
(* Instances of the three parts.  The counter of the interrupts wraps      *)
(* around within every dispatch, and the program writes no, one or two     *)
(* interrupts.  The numbers lie around the carries of both bytes and both  *)
(* digits.  The mapper is asked for the first and the last address of      *)
(* every window and the one after it.                                      *)
(***************************************************************************)
EXTENDS CpuCore

MCBytes == {{}, {"stat"}, {"vblank", "joypad"}}

MCOperands == {0, 1, 15, 16, 127, 128, 255, 256, 4095, 4096, 4681, 32767, 32768,
               43981, 61455, 65280, 65535}
MCDigits == {0, 4, 5, 9}
MCDecimals == {4096 * a + 256 * b + 16 * c + d : a \in {0, 9}, b \in {0, 5, 9}, c, d \in MCDigits}

CONSTANTS bank_a, bank_b
MCBanks == {bank_a, bank_b}
MCProbes == UNION {{w.start_address, w.end_address, w.end_address + 1} : w \in Windows}
=============================================================================
