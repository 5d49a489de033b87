------------------------------ MODULE MCOamDma ------------------------------
(***************************************************************************)
(* Instances of the OAM DMA unit.  The first wait has the length it has in *)
(* the code, the second is 40 cycles instead of 640.                       *)
(***************************************************************************)
EXTENDS OamDma

\* C000, DFFF and the first mirrored page, FE00
MCPages == {192, 223, 224, 254}
=============================================================================
