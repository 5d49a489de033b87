------------------------------- MODULE OamDma -------------------------------
(***************************************************************************)
(* The OAM DMA unit (ppu::run_dma, gb_ppu.cpp:737-780), the register write *)
(* that starts or restarts it, and the mapping of OAM that it shares with  *)
(* the h-blank code of the PPU.                                            *)
(*                                                                         *)
(* The unit is a coroutine with two waits: a plain one after a request and *)
(* an interruptible one until the copy.  The interrupt dma_trigger wakes   *)
(* it where it waits for it; otherwise a trigger is remembered.  The bytes *)
(* are represented by the page they come from.                             *)
(***************************************************************************)
EXTENDS Integers

CONSTANTS
    StartCycles,        \* from the request to the start of the transfer (8)
    TransferCycles,     \* from there to the copy (640)
    Spacing,            \* cycles between two stores of the CPU to one address (8)
    Pages               \* values written to FF46

ASSUME DmaAssumption ==
    /\ StartCycles \in Nat \ {0} /\ TransferCycles \in Nat \ {0}
    /\ Spacing \in Nat
    /\ Pages \subseteq 0..255

VARIABLES
    dma_start,          \* registers.dma_start
    shadow_dma_start,
    pc,                 \* "idle": awaits dma_trigger; "start", "transfer": its two cycle waits
    left,               \* cycles until its queue entry is due
    is_triggered,       \* dma_trigger fired with nobody bound to it
    oam_mapped,         \* the CPU can access FE00-FEA0
    oam,                \* the page that the bytes in OAM were copied from
    busy,               \* cycles until the CPU can write FF46 again
    age,                \* cycles since FF46 was written last
    paced               \* since the unit was idle, no two writes within the first wait

vars == <<dma_start, shadow_dma_start, pc, left, is_triggered, oam_mapped, oam, busy, age, paced>>

Byte == 0..255
Never == -1             \* nothing queued
Elsewhere == -1         \* not copied, or overwritten by the CPU

Duration == StartCycles + TransferCycles

TypeOK ==
    /\ dma_start \in Byte /\ shadow_dma_start \in 0..223
    /\ pc \in {"idle", "start", "transfer"}
    /\ left \in Int /\ busy \in 0..Spacing
    /\ is_triggered \in BOOLEAN /\ oam_mapped \in BOOLEAN
    /\ oam \in Byte \cup {Elsewhere}
    /\ age \in 0..(Duration + 1) /\ paced \in BOOLEAN

Init ==
    /\ dma_start \in Pages /\ shadow_dma_start = 0      \* dma_start is uninitialized
    /\ pc = "idle" /\ left = Never
    /\ is_triggered = FALSE
    /\ oam_mapped = TRUE /\ oam = Elsewhere
    /\ busy = Spacing /\ age = Duration + 1 /\ paced = TRUE

\* mutant: E000-E0FF is not mirrored
MirroredAbove(page) == IF page > 224 THEN page - 32 ELSE page

\* E000-FFFF reads C000-DFFF
Mirrored(page) == IF page >= 224 THEN page - 32 ELSE page

-----------------------------------------------------------------------------
(* The DMA unit.  It goes before the CPU and the PPU in a cycle.           *)

Due == left = 0

\* Back to the top: interrupts.dma_trigger.reset(), and wait for it
Idle == pc' = "idle" /\ left' = Never /\ is_triggered' = FALSE

\* Copies the bytes and gives OAM back
Copy(page) == oam' = page /\ oam_mapped' = TRUE

\* mutant: copies from what the register holds by now
BeginTransferLatched ==
    /\ pc = "start" /\ Due
    /\ UNCHANGED shadow_dma_start
    /\ oam_mapped' = FALSE /\ pc' = "transfer" /\ left' = TransferCycles
    /\ UNCHANGED <<dma_start, is_triggered, oam, busy, age, paced>>

\* After the first wait.  The second ends at once if a trigger is remembered.
BeginTransfer ==
    /\ pc = "start" /\ Due
    /\ shadow_dma_start' = Mirrored(dma_start)
    /\ \/ /\ ~ is_triggered
          /\ oam_mapped' = FALSE /\ pc' = "transfer" /\ left' = TransferCycles
          /\ UNCHANGED <<is_triggered, oam>>
       \/ /\ is_triggered
          /\ Copy(shadow_dma_start') /\ Idle
    /\ UNCHANGED <<dma_start, busy, age, paced>>

\* mutant: OAM is not given back
FinishTransferBlocked ==
    /\ pc = "transfer" /\ Due
    /\ oam' = shadow_dma_start /\ Idle
    /\ UNCHANGED <<dma_start, shadow_dma_start, oam_mapped, busy, age, paced>>

FinishTransfer ==
    /\ pc = "transfer" /\ Due
    /\ Copy(shadow_dma_start) /\ Idle
    /\ UNCHANGED <<dma_start, shadow_dma_start, busy, age, paced>>

-----------------------------------------------------------------------------
(* The CPU and the PPU                                                     *)

\* mutant: withdraws the wait of a transfer and does not resume the unit
WriteDmaNoResume(page) ==
    /\ ~ Due /\ busy = 0
    /\ dma_start' = page
    /\ \/ pc = "idle" /\ pc' = "start" /\ left' = StartCycles /\ UNCHANGED is_triggered
       \/ pc = "transfer" /\ left' = Never /\ UNCHANGED <<pc, is_triggered>>
       \/ pc = "start" /\ is_triggered' = TRUE /\ UNCHANGED <<pc, left>>
    /\ busy' = Spacing /\ age' = 0
    /\ paced' = ((paced \/ pc = "idle") /\ age >= StartCycles)
    /\ UNCHANGED <<shadow_dma_start, oam_mapped, oam>>

\* mutant: the CPU goes first in a cycle
WriteDmaFirst(page) ==
    /\ busy = 0
    /\ dma_start' = page
    /\ \/ /\ pc \in {"idle", "transfer"}
          /\ pc' = "start" /\ left' = StartCycles
          /\ UNCHANGED is_triggered
       \/ /\ pc = "start"
          /\ is_triggered' = TRUE
          /\ UNCHANGED <<pc, left>>
    /\ busy' = Spacing /\ age' = 0
    /\ paced' = ((paced \/ pc = "idle") /\ age >= StartCycles)
    /\ UNCHANGED <<shadow_dma_start, oam_mapped, oam>>

\* A write of FF46.  The trigger starts the unit, interrupts the transfer (and
\* starts over), or is remembered.
WriteDma(page) ==
    /\ ~ Due /\ busy = 0
    /\ dma_start' = page
    /\ \/ /\ pc \in {"idle", "transfer"}
          /\ pc' = "start" /\ left' = StartCycles
          /\ UNCHANGED is_triggered
       \/ /\ pc = "start"
          /\ is_triggered' = TRUE
          /\ UNCHANGED <<pc, left>>
    /\ busy' = Spacing /\ age' = 0
    /\ paced' = ((paced \/ pc = "idle") /\ age >= StartCycles)
    /\ UNCHANGED <<shadow_dma_start, oam_mapped, oam>>

\* A write to OAM, which is lost while OAM is not mapped
WriteOam ==
    /\ ~ Due /\ oam_mapped
    /\ oam' = Elsewhere
    /\ UNCHANGED <<dma_start, shadow_dma_start, pc, left, is_triggered, oam_mapped, busy, age, paced>>

\* ppu::update_stat in h-blank, and when the LCD is turned on: "restore access to oam"
HBlank ==
    /\ ~ Due
    /\ oam_mapped' = TRUE
    /\ UNCHANGED <<dma_start, shadow_dma_start, pc, left, is_triggered, oam, busy, age, paced>>

Larger(a, b) == IF a > b THEN a ELSE b
Smaller(a, b) == IF a < b THEN a ELSE b

\* d cycles pass, up to the next one with something to do for the unit
Elapse(d) ==
    /\ ~ Due
    /\ pc # "idle" => d <= left
    /\ left' = IF pc = "idle" THEN left ELSE left - d
    /\ busy' = Larger(busy - d, 0)
    /\ age' = Smaller(age + d, Duration + 1)
    /\ UNCHANGED <<dma_start, shadow_dma_start, pc, is_triggered, oam_mapped, oam, paced>>

-----------------------------------------------------------------------------
Dma == BeginTransfer \/ FinishTransfer

Next ==
    \/ Dma
    \/ \E page \in Pages : WriteDma(page)
    \/ WriteOam
    \/ HBlank
    \/ \E d \in 1..Duration : Elapse(d)

Spec == Init /\ [][Next]_vars

\* tick() is called again and again and runs whatever is due
FairSpec == Spec /\ WF_vars(Dma) /\ WF_vars(\E d \in 1..Duration : Elapse(d))
-----------------------------------------------------------------------------
(* Properties                                                              *)

Copies == pc # "idle" /\ pc' = "idle"

\* What lands in OAM is the page requested last, also when a request comes
\* while the previous one is being started or transferred (gb_ppu.cpp:745-769).
CopyIsOfLastRequest == [][Copies => oam' = Mirrored(dma_start)]_vars

\* If the requests are at least the first wait apart, a copy happens exactly
\* 648 cycles after the last: no remembered trigger cuts the second wait
\* short (gb_cycle_scheduler.h:180), because the unit, which goes before the
\* CPU, is past its first wait when the next one comes.
TransferTakesItsTime == [][Copies /\ paced => age = Duration]_vars

\* A unit at rest has given OAM back, and no trigger is left over that would
\* cut the next transfer short (gb_ppu.cpp:741, 778).
RestIsClean == pc = "idle" => oam_mapped /\ ~ is_triggered

\* Such requests never find the unit in the wait that it cannot interrupt.
NothingRemembered == paced => ~ is_triggered

\* Every request leads to a copy, unless the CPU makes new ones forever.
RequestsFinish ==
    []<><<\E page \in Pages : WriteDma(page)>>_vars \/ []<>(pc = "idle")

\* "block access to oam" (gb_ppu.cpp:759) until "restore access to oam" (777)
OamBlocked == pc = "transfer" => ~ oam_mapped
=============================================================================
