----------------------------- MODULE MCPpuUnits -----------------------------
(***************************************************************************)
(* The instances of MCOamDma and MCPixelPipeline, either one or the other. *)
(***************************************************************************)
EXTENDS MCOamDma, MCPixelPipeline, PpuUnits
=============================================================================
