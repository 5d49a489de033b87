-------------------------------- MODULE MCHost --------------------------------
(***************************************************************************)
(* For the session two ROMs of one name whose RAM has different sizes, one *)
(* with a file of its own and one without RAM.  For the main loop, in the  *)
(* .cfg, the unit of time is a line of the screen, 456 cycles: a tick, a   *)
(* frame and what is worth a tick have the proportions of the code.        *)
(***************************************************************************)
EXTENDS Host, TLC

CONSTANTS big, small, other, plain, shared, own

MCRoms == {big, small, other, plain}
MCSavePath == (big :> shared) @@ (small :> shared) @@ (other :> own) @@ (plain :> own)
MCRamSize == (big :> 2) @@ (small :> 1) @@ (other :> 1) @@ (plain :> 0)
=============================================================================
