------------------------------ MODULE PpuUnits ------------------------------
(***************************************************************************)
(* The two units of the PPU that work under the frame loop: the OAM DMA    *)
(* unit and the pixel pipeline.  They have no state in common, so they are *)
(* examined one at a time; the other one rests in a fixed state.           *)
(***************************************************************************)
EXTENDS OamDma, PixelPipeline

VARIABLE unit       \* the unit that works: "dma" or "line"

unitVars == <<vars, pixelVars, unit>>

ASSUME UnitAssumption == Pages # {} /\ WxValues # {}

NoPage == CHOOSE page \in Pages : TRUE
NoWx   == CHOOSE value \in WxValues : TRUE

UnitInit ==
    /\ unit \in {"dma", "line"}
    /\ Init /\ LineInit
    /\ unit = "dma" => wx = NoWx
    /\ unit = "line" => dma_start = NoPage

DmaWorks  == unit = "dma" /\ UNCHANGED <<pixelVars, unit>>
LineWorks == unit = "line" /\ UNCHANGED <<vars, unit>>

UnitNext ==
    \/ DmaWorks /\ Next
    \/ LineWorks /\ LineNext

UnitSpec == UnitInit /\ [][UnitNext]_unitVars

\* What is due runs, as in FairSpec and PixelFairSpec
UnitFairSpec ==
    /\ UnitSpec
    /\ WF_unitVars(DmaWorks /\ Dma)
    /\ WF_unitVars(DmaWorks /\ \E d \in 1..Duration : Elapse(d))
    /\ WF_unitVars(LineWorks /\ Draw)

-----------------------------------------------------------------------------
\* The types of both units.  Among other things, DMA never copies from E000 or
\* above (gb_ppu.cpp:753), and neither the FIFO, the number of the tile nor the
\* time of a fetch leaves its range (gb_ppu.cpp:45-105, 456-488).
UnitTypeOK == TypeOK /\ PixelTypeOK

\* Both units get back to rest: a request leads to a copy unless the CPU makes
\* new ones forever, and a line ends whatever the CPU writes meanwhile
\* (gb_ppu.cpp:745-769, 205-498).
UnitsFinish == RequestsFinish /\ LineEnds
=============================================================================
