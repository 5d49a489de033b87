--------------------------- MODULE CpuInterrupts ---------------------------
(***************************************************************************)
(* Interrupts as the CPU sees them (cpu::run in gb_cpu.cpp): the check     *)
(* between two instructions, the dispatch that looks again half-way, EI    *)
(* with its delay, DI, RETI, HALT with its bug, and who wakes it up.       *)
(*                                                                         *)
(* The CPU is a coroutine; pc names the co_await it is suspended in and an *)
(* action is the code from there to the next one.  Waits for time count    *)
(* down in wait.  Instructions without a part in interrupts are sequences  *)
(* of memory accesses that may hit the two interrupt registers.            *)
(***************************************************************************)
EXTENDS Integers

CONSTANTS
    K,              \* the cycle counter wraps around at 4 * K: 2^32 in the code
    MaxAccesses,    \* bound: memory accesses of one instruction after the opcode
    Bytes           \* values the program writes, as sets of interrupt bits

Interrupts == {"vblank", "stat", "timer", "serial", "joypad"}
Rank == [vblank |-> 0, stat |-> 1, timer |-> 2, serial |-> 3, joypad |-> 4]

ASSUME CpuAssumption ==
    /\ K \in Nat \ {0} /\ MaxAccesses \in Nat
    /\ Bytes \subseteq SUBSET Interrupts

W == 4 * K

\* dummy_wait() of the instructions, carried over to their next wait
Dummies == {0, 4, 8}

\* Where a write goes: anywhere else, IF or IE
Targets == {"memory", "FF0F", "FFFF"}

VARIABLES
    enable_interrupts, enable_interrupts_delay,
    interrupt_flag, interrupt_enable,
    halt_bug,       \* the next opcode is read without incrementing PC
    is_triggered,   \* interrupts.cpu_wake fired with nobody bound to it
    halt_start,     \* halt_start_cycles
    cycle_counter,
    pc, wait,       \* the wait the CPU is in and the cycles left of it
    accesses,       \* memory accesses left of the instruction
    returns,        \* that instruction is RETI
    triggered,      \* triggered_interrupts
    started,        \* what was pending when the dispatch began
    pushed,         \* where it pushed the high byte of PC
    shadow          \* EI has armed the interrupts, no opcode was read since

ime   == <<enable_interrupts, enable_interrupts_delay>>
bits  == <<interrupt_flag, interrupt_enable>>
entry == <<triggered, started, pushed>>
instr == <<accesses, returns>>
halt  == <<is_triggered, halt_start>>
vars  == <<ime, bits, entry, instr, halt, halt_bug, cycle_counter, pc, wait, shadow>>

Label == {"fetch", "check", "push_high", "recheck", "push_low", "access", "halted"}

TypeOK ==
    /\ enable_interrupts \in BOOLEAN /\ enable_interrupts_delay \in BOOLEAN
    /\ interrupt_flag \subseteq Interrupts /\ interrupt_enable \subseteq Interrupts
    /\ halt_bug \in BOOLEAN /\ is_triggered \in BOOLEAN
    /\ halt_start \in 0..(W - 1) /\ cycle_counter \in 0..(W - 1)
    /\ pc \in Label /\ wait \in 0..14
    /\ accesses \in 0..MaxAccesses /\ returns \in BOOLEAN
    /\ triggered \subseteq Interrupts /\ started \subseteq Interrupts
    /\ pushed \in Targets /\ shadow \in BOOLEAN

Init ==
    /\ enable_interrupts = FALSE /\ enable_interrupts_delay = FALSE
    /\ interrupt_flag = {} /\ interrupt_enable = {}
    /\ halt_bug = FALSE /\ is_triggered = FALSE /\ halt_start = 0
    /\ cycle_counter = 0
    /\ pc = "fetch" /\ wait = 8
    /\ accesses = 0 /\ returns = FALSE
    /\ triggered = {} /\ started = {} /\ pushed = "memory"
    /\ shadow = FALSE

Pending == interrupt_flag \cap interrupt_enable
Due == pc # "halted" /\ wait = 0

-----------------------------------------------------------------------------
(* Building blocks                                                         *)

Await(label, cycles) == pc' = label /\ wait' = cycles

\* The top of the loop, with the interrupts enabled or not: the check comes
\* half an M-cycle before the opcode.  dummy is what is left to wait.
NextInstruction(enable, delay, dummy) ==
    /\ enable_interrupts_delay' = delay
    /\ \/ enable /\ enable_interrupts' = TRUE /\ Await("check", dummy + 2)
       \/ ~ enable /\ enable_interrupts' = delay /\ Await("fetch", dummy + 4)

\* memory.write8
Write(target, byte) ==
    /\ interrupt_flag' = IF target = "FF0F" THEN byte ELSE interrupt_flag
    /\ interrupt_enable' = IF target = "FFFF" THEN byte ELSE interrupt_enable

\* mutant: no realignment after HALT
TriggerCpuWakeUnaligned ==
    \/ /\ pc = "halted"
       /\ NextInstruction(enable_interrupts, enable_interrupts_delay, 4)
       /\ UNCHANGED is_triggered
    \/ /\ pc # "halted"
       /\ is_triggered' = TRUE
       /\ UNCHANGED <<ime, pc, wait>>

\* interrupts.cpu_wake.trigger(): resumes the CPU where it is halted, and
\* brings it back to its 4-cycle grid
TriggerCpuWake ==
    \/ /\ pc = "halted"
       /\ NextInstruction(enable_interrupts, enable_interrupts_delay,
                          4 - ((cycle_counter - halt_start) % 4))
       /\ UNCHANGED is_triggered
    \/ /\ pc # "halted"
       /\ is_triggered' = TRUE
       /\ UNCHANGED <<ime, pc, wait>>

-----------------------------------------------------------------------------
(* Dispatch                                                                *)

\* The interrupt served: the first bit; none in the "interrupt bug!" branch
Served(set) == {i \in set : \A j \in set : Rank[i] <= Rank[j]}

\* mutant: acknowledges the interrupt before the pushes
CheckAcknowledging ==
    /\ pc = "check" /\ Due
    /\ \/ /\ Pending = {}
          /\ Await("fetch", 2)
          /\ UNCHANGED <<ime, bits, started>>
       \/ /\ Pending # {}
          /\ enable_interrupts' = FALSE /\ enable_interrupts_delay' = FALSE
          /\ started' = Pending
          /\ interrupt_flag' = interrupt_flag \ Served(Pending)
          /\ UNCHANGED interrupt_enable
          /\ Await("push_high", 14)
    /\ UNCHANGED <<triggered, pushed, instr, halt, halt_bug, cycle_counter, shadow>>

\* mutant: masks with 0x0F
CheckWithoutJoypad ==
    /\ pc = "check" /\ Due
    /\ \/ /\ Pending \ {"joypad"} = {}
          /\ Await("fetch", 2)
          /\ UNCHANGED <<ime, started>>
       \/ /\ Pending \ {"joypad"} # {}
          /\ enable_interrupts' = FALSE /\ enable_interrupts_delay' = FALSE
          /\ started' = Pending
          /\ Await("push_high", 14)
    /\ UNCHANGED <<bits, triggered, pushed, instr, halt, halt_bug, cycle_counter, shadow>>

\* Two cycles before the next opcode.  A dispatch waits for the end of the
\* M-cycle, drops the opcode and decrements SP before it pushes.
Check ==
    /\ pc = "check" /\ Due
    /\ \/ /\ Pending = {}
          /\ Await("fetch", 2)
          /\ UNCHANGED <<ime, started>>
       \/ /\ Pending # {}
          /\ enable_interrupts' = FALSE /\ enable_interrupts_delay' = FALSE
          /\ started' = Pending
          /\ Await("push_high", 14)
    /\ UNCHANGED <<bits, triggered, pushed, instr, halt, halt_bug, cycle_counter, shadow>>

\* The high byte of PC is pushed, over an interrupt register if SP says so.
PushHigh(target, byte) ==
    /\ pc = "push_high" /\ Due
    /\ Write(target, byte)
    /\ pushed' = target
    /\ Await("recheck", 2)
    /\ UNCHANGED <<ime, triggered, started, instr, halt, halt_bug, cycle_counter, shadow>>

\* "interrupts are re-checked"
Recheck ==
    /\ pc = "recheck" /\ Due
    /\ triggered' = Pending
    /\ Await("push_low", 2)
    /\ UNCHANGED <<ime, bits, started, pushed, instr, halt, halt_bug, cycle_counter, shadow>>

\* The low byte of PC is pushed and the interrupt acknowledged.  The high byte
\* and the low byte cannot both hit a register: they are not neighbours.
PushLow(target, byte) ==
    /\ pc = "push_low" /\ Due
    /\ pushed # "memory" => target = "memory"
    /\ LET flag == IF target = "FF0F" THEN byte ELSE interrupt_flag
       IN  interrupt_flag' = flag \ Served(triggered)
    /\ interrupt_enable' = IF target = "FFFF" THEN byte ELSE interrupt_enable
    /\ triggered' = {} /\ started' = {} /\ pushed' = "memory"
    /\ Await("fetch", 4)
    /\ UNCHANGED <<ime, instr, halt, halt_bug, cycle_counter, shadow>>

-----------------------------------------------------------------------------
(* Instructions.  Each begins where its opcode has been read.              *)

Fetch == pc = "fetch" /\ Due /\ shadow' = FALSE

\* Any other instruction that accesses memory n times after its opcode (RETI
\* pops PC in two accesses)
Execute(n, reti, dummy) ==
    /\ Fetch
    /\ halt_bug' = FALSE
    /\ reti => n = 2 /\ dummy = 0
    /\ \/ n = 0 /\ NextInstruction(enable_interrupts, enable_interrupts_delay, dummy)
       \/ n > 0 /\ Await("access", dummy + 4) /\ UNCHANGED ime
    /\ accesses' = n /\ returns' = reti
    /\ UNCHANGED <<bits, entry, halt, cycle_counter>>

\* An access, and the end of the instruction after the last one
Access(target, byte, dummy) ==
    /\ pc = "access" /\ Due
    /\ returns => target = "memory" /\ dummy = IF accesses = 1 THEN 4 ELSE 0
    /\ Write(target, byte)
    /\ accesses' = accesses - 1
    /\ \/ /\ accesses > 1
          /\ Await("access", dummy + 4)
          /\ UNCHANGED <<ime, returns>>
       \/ /\ accesses = 1
          /\ NextInstruction(enable_interrupts \/ returns,
                             enable_interrupts_delay \/ returns, dummy)
          /\ returns' = FALSE
    /\ UNCHANGED <<entry, halt, halt_bug, cycle_counter, shadow>>

Di ==
    /\ Fetch
    /\ halt_bug' = FALSE
    /\ NextInstruction(FALSE, FALSE, 0)
    /\ UNCHANGED <<bits, entry, instr, halt, cycle_counter>>

\* mutant: no delay
EiAtOnce ==
    /\ pc = "fetch" /\ Due
    /\ shadow' = ~ enable_interrupts
    /\ halt_bug' = FALSE
    /\ NextInstruction(TRUE, TRUE, 0)
    /\ UNCHANGED <<bits, entry, instr, halt, cycle_counter>>

\* Takes effect after the next instruction: the loop enables the interrupts
\* instead of checking for them.
Ei ==
    /\ pc = "fetch" /\ Due
    /\ shadow' = ~ enable_interrupts
    /\ halt_bug' = FALSE
    /\ NextInstruction(enable_interrupts, TRUE, 0)
    /\ UNCHANGED <<bits, entry, instr, halt, cycle_counter>>

\* mutant: sleeps whatever is pending
HaltRegardless ==
    /\ Fetch
    /\ halt_bug' = FALSE
    /\ Await("halted", 0)
    /\ enable_interrupts' = enable_interrupts_delay
    /\ is_triggered' = FALSE /\ halt_start' = cycle_counter
    /\ UNCHANGED <<enable_interrupts_delay, bits, entry, instr, cycle_counter>>

\* Sleeps if nothing is pending.  If something is and the interrupts are
\* disabled, "oh no!": the next opcode is read twice.
Halt ==
    /\ Fetch
    /\ \/ /\ Pending = {}
          /\ enable_interrupts' = enable_interrupts_delay
          /\ Await("halted", 0)
          /\ is_triggered' = FALSE /\ halt_start' = cycle_counter
          /\ halt_bug' = FALSE
          /\ UNCHANGED enable_interrupts_delay
       \/ /\ Pending # {}
          /\ halt_bug' = ~ enable_interrupts_delay
          /\ NextInstruction(enable_interrupts_delay, enable_interrupts_delay, 0)
          /\ UNCHANGED halt
    /\ UNCHANGED <<bits, entry, instr, cycle_counter>>

-----------------------------------------------------------------------------
(* The PPU, the player, and time.  The CPU goes before the PPU in a cycle. *)

\* ppu::update_interrupt_flags when a line has risen
PpuRequest(requests) ==
    /\ ~ Due
    /\ "vblank" \in requests => "vblank" \notin interrupt_flag
    /\ interrupt_flag' = interrupt_flag \cup requests
    /\ \/ interrupt_flag' \cap interrupt_enable # {} /\ TriggerCpuWake
       \/ /\ interrupt_flag' \cap interrupt_enable = {}
          /\ UNCHANGED <<ime, is_triggered, pc, wait>>
    /\ UNCHANGED <<interrupt_enable, entry, instr, halt_start, halt_bug, cycle_counter, shadow>>

\* emu::input between two calls of tick(): a button wakes the CPU up, but
\* requests no interrupt
Input ==
    /\ TriggerCpuWake
    /\ UNCHANGED <<bits, entry, instr, halt_start, halt_bug, cycle_counter, shadow>>

Elapse ==
    /\ ~ Due
    /\ cycle_counter' = IF cycle_counter = W - 1 THEN 0 ELSE cycle_counter + 1
    /\ wait' = IF pc = "halted" THEN wait ELSE wait - 1
    /\ UNCHANGED <<ime, bits, entry, instr, halt, halt_bug, pc, shadow>>

-----------------------------------------------------------------------------
Instruction ==
    \/ \E n \in 0..MaxAccesses, reti \in BOOLEAN, dummy \in Dummies : Execute(n, reti, dummy)
    \/ Di
    \/ Ei
    \/ Halt

Cpu ==
    \/ Check
    \/ \E target \in Targets, byte \in Bytes : PushHigh(target, byte)
    \/ Recheck
    \/ \E target \in Targets, byte \in Bytes : PushLow(target, byte)
    \/ Instruction
    \/ \E target \in Targets, byte \in Bytes, dummy \in Dummies : Access(target, byte, dummy)

Next ==
    \/ Cpu
    \/ \E requests \in SUBSET {"vblank", "stat"} \ {{}} : PpuRequest(requests)
    \/ Input
    \/ Elapse

Spec == Init /\ [][Next]_vars

\* tick() is called again and again and resumes the CPU when it is due
FairSpec == Spec /\ WF_vars(Cpu) /\ WF_vars(Elapse)

-----------------------------------------------------------------------------
(* Properties                                                              *)

\* Whatever the CPU went through (dispatch, HALT ended at any cycle, a counter
\* that wrapped in between), it accesses memory on its 4-cycle grid and looks
\* for interrupts half-way between (gb_cpu.cpp:129, 182, 618-621).
OnTheGrid ==
    /\ pc \in {"fetch", "push_high", "push_low", "access"} => (cycle_counter + wait) % 4 = 0
    /\ pc \in {"check", "recheck"} => (cycle_counter + wait) % 4 = 2

\* The CPU never sleeps on an interrupt that would have woken it: whoever makes
\* one pending while it does wakes it up (gb_cpu.cpp:607-613, gb_ppu.cpp:690-698).
NoMissedWakeUp == pc = "halted" => Pending = {}

\* The dispatch goes astray to 0000 (gb_cpu.cpp:173) only if the push of the
\* high byte has overwritten an interrupt register: otherwise whatever began it
\* is still there when the interrupts are checked again, with later ones.
DispatchFindsInterrupt ==
    pc = "push_low" /\ pushed = "memory" => started # {} /\ started \subseteq triggered

\* Between EI and the next opcode no interrupt is taken, so that EI; DI lets
\* none through (gb_cpu.cpp:186, 993).
EiShadowsCheck == shadow => pc = "fetch"

\* The opcode that the HALT bug reads twice is the one after HALT, never the
\* first of an interrupt handler: the interrupts are off until it has been read
\* (gb_cpu.cpp:203-211, 626-630).
HaltBugStaysInProgram == halt_bug => pc = "fetch" /\ ~ enable_interrupts /\ ~ enable_interrupts_delay

\* Both: what is irregular about EI and HALT concerns the next opcode of the
\* program, and an interrupt never comes in between.
NextOpcodeIsPrograms == EiShadowsCheck /\ HaltBugStaysInProgram

\* The two flags of the master enable are the same wherever the CPU waits: EI
\* sets them apart only up to the top of the loop, and nothing else may.  HALT
\* relies on it (gb_cpu.cpp:606), and so do handlers, which start with both off.
DelaySettled == enable_interrupts = enable_interrupts_delay

\* An enabled interrupt that is pending does not stay so: the CPU takes it or
\* the program withdraws it.
PendingIsTaken ==
    enable_interrupts /\ Pending # {} ~> ~ enable_interrupts \/ Pending = {}
=============================================================================
