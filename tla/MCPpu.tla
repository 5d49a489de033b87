------------------------------- MODULE MCPpu -------------------------------
(***************************************************************************)
(* Instances of the PPU.  Most have two visible lines and V-blank lines 2  *)
(* to 4, with line 4 in the part of line 153; line lengths are those of    *)
(* the code.                                                               *)
(***************************************************************************)
EXTENDS Ppu

\* Writes of STAT: modes 0 and 2, or mode 1 and LY
MCStatValues == {{"hblank", "oam"}, {"vblank", "coincidence"}}

\* Writes of IE: both interrupts or none
MCIeValues == {{}, {"vblank", "stat"}}

\* Writes of STAT and IE where the interrupt sources do not matter
NoSource == {{}}
=============================================================================
