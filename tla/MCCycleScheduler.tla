-------------------------- MODULE MCCycleScheduler --------------------------
(***************************************************************************)
(* A small instance of the cycle scheduler.  The CPU waits for 1 or 2      *)
(* cycles (2 or 4 in the code), the DMA for 2 and 5 (8 and 640), the PPU   *)
(* for 3 after an update_stat (5, 74, 80, ... in the code) and for 1       *)
(* between pixels; the callback of update_stat is queued 2 (4) ahead.      *)
(***************************************************************************)
EXTENDS CycleScheduler

MCSleep == [dma |-> {2}, cpu |-> {1, 2}, ppu |-> {}]
MCInterruptibleSleep == [dma |-> {5}, cpu |-> {}, ppu |-> {1}]
MCTriggers == [dma |-> {}, cpu |-> Unit, ppu |-> {"cpu"}, callback |-> {"cpu"}]
=============================================================================
