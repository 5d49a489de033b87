------------------------ MODULE CpuInterruptsProofs ------------------------
(***************************************************************************)
(* Proofs about the interrupts of the CPU: for every size of the counter,  *)
(* all instructions and all values written, its safety properties hold.    *)
(***************************************************************************)
EXTENDS CpuInterrupts, TLAPS

\* The dispatch keeps what began it, unless it overwrites a register itself.
DispatchKeepsInterrupt ==
    /\ pc \in {"push_high", "recheck", "push_low"} => started # {}
    /\ pc = "push_high" => started \subseteq Pending
    /\ pc = "recheck" /\ pushed = "memory" => started \subseteq Pending
    /\ pc = "push_low" /\ pushed = "memory" => started \subseteq triggered

\* HALT starts on the grid and sleeps while nothing is pending.
Sleeps == pc = "halted" => wait = 0 /\ halt_start % 4 = 0 /\ Pending = {}

\* An instruction waits for an access only if it has one left.
AccessesLeft == pc = "access" => accesses > 0

\* TypeOK, with the Boolean variables apart from the others
Flags ==
    /\ enable_interrupts \in BOOLEAN /\ enable_interrupts_delay \in BOOLEAN
    /\ halt_bug \in BOOLEAN /\ is_triggered \in BOOLEAN
    /\ returns \in BOOLEAN /\ shadow \in BOOLEAN

Numbers ==
    /\ interrupt_flag \subseteq Interrupts /\ interrupt_enable \subseteq Interrupts
    /\ halt_start \in 0..(W - 1) /\ cycle_counter \in 0..(W - 1)
    /\ pc \in Label /\ wait \in 0..14
    /\ accesses \in 0..MaxAccesses
    /\ triggered \subseteq Interrupts /\ started \subseteq Interrupts
    /\ pushed \in Targets

\* The inductive invariant
IInv ==
    /\ Flags
    /\ Numbers
    /\ OnTheGrid
    /\ DispatchKeepsInterrupt
    /\ Sleeps
    /\ AccessesLeft
    /\ EiShadowsCheck
    /\ HaltBugStaysInProgram
    /\ DelaySettled

-----------------------------------------------------------------------------
(* The start                                                               *)

\* The CPU starts on the grid, with the interrupts off (gb_cpu.cpp:102-108, gb_cpu.h:56-57).
LEMMA InitEstablishes == Init => IInv
<1> SUFFICES ASSUME Init PROVE IInv
  OBVIOUS
<1>1. Flags /\ DelaySettled
  BY Zenon DEF Init, Flags, DelaySettled
<1>2. Numbers
  BY CpuAssumption DEF Init, Numbers, Label, Targets, W
<1>3. OnTheGrid /\ DispatchKeepsInterrupt /\ Sleeps /\ AccessesLeft
  BY DEF Init, OnTheGrid, DispatchKeepsInterrupt, Sleeps, AccessesLeft
<1>4. EiShadowsCheck /\ HaltBugStaysInProgram
  BY DEF Init, EiShadowsCheck, HaltBugStaysInProgram
<1> QED BY <1>1, <1>2, <1>3, <1>4 DEF IInv

-----------------------------------------------------------------------------
(* Dispatch                                                                *)

\* The check takes note of what is pending and turns the interrupts off
\* (gb_cpu.cpp:121-135).
LEMMA CheckPreserves ==
    ASSUME IInv, Check
    PROVE  IInv'
<1>1. Flags'
  BY Zenon DEF IInv, Flags, Check, Await, Due, Pending, ime, bits, instr, halt
<1>2. Numbers'
  BY CpuAssumption DEF IInv, Numbers, Check, Await, Due, Pending, ime, bits, instr,
         halt, Label
<1>3. OnTheGrid'
  BY DEF IInv, OnTheGrid, Check, Await, Due, Pending, ime, bits, instr, halt, Numbers
<1>4. DispatchKeepsInterrupt'
  BY DEF IInv, DispatchKeepsInterrupt, Check, Await, Due, Pending, ime, bits, instr,
         halt
<1>5. Sleeps'
  BY DEF IInv, Sleeps, Check, Await, Due, Pending, ime, bits, instr, halt
<1>6. AccessesLeft' /\ EiShadowsCheck' /\ HaltBugStaysInProgram'
  BY DEF IInv, AccessesLeft, EiShadowsCheck, HaltBugStaysInProgram, Check, Await, Due,
         Pending, ime, bits, instr, halt
<1>7. DelaySettled'
  BY Zenon DEF IInv, DelaySettled, Check, Await, Due, Pending, ime, bits, instr, halt
<1> QED BY <1>1, <1>2, <1>3, <1>4, <1>5, <1>6, <1>7 DEF IInv

\* The first push leaves what is pending alone unless it hits IF or IE
\* (gb_cpu.cpp:136).
LEMMA PushHighPreserves ==
    ASSUME NEW target \in Targets, NEW byte \in Bytes, IInv, PushHigh(target, byte)
    PROVE  IInv'
<1>1. Flags'
  BY Zenon DEF IInv, Flags, PushHigh, Await, Due, Write, ime, instr, halt
<1>2. Numbers'
  BY CpuAssumption DEF IInv, Numbers, PushHigh, Await, Due, Write, ime, instr, halt,
         Label
<1>3. OnTheGrid'
  BY DEF IInv, OnTheGrid, PushHigh, Await, Due, Write, ime, instr, halt, Numbers
<1>4. DispatchKeepsInterrupt'
  BY DEF IInv, DispatchKeepsInterrupt, PushHigh, Await, Due, Write, ime, instr, halt,
         Pending
<1>5. Sleeps'
  BY DEF IInv, Sleeps, PushHigh, Await, Due, Write, ime, instr, halt, Pending
<1>6. AccessesLeft' /\ EiShadowsCheck' /\ HaltBugStaysInProgram'
  BY DEF IInv, AccessesLeft, EiShadowsCheck, HaltBugStaysInProgram, PushHigh, Await,
         Due, Write, ime, instr, halt
<1>7. DelaySettled'
  BY Zenon DEF IInv, DelaySettled, PushHigh, Await, Due, Write, ime, instr, halt
<1> QED BY <1>1, <1>2, <1>3, <1>4, <1>5, <1>6, <1>7 DEF IInv

\* The second look sees whatever the first saw (gb_cpu.cpp:137-138).
LEMMA RecheckPreserves ==
    ASSUME IInv, Recheck
    PROVE  IInv'
<1>1. Flags'
  BY Zenon DEF IInv, Flags, Recheck, Await, Due, Pending, ime, bits, instr, halt
<1>2. Numbers'
  BY CpuAssumption DEF IInv, Numbers, Recheck, Await, Due, Pending, ime, bits, instr,
         halt, Label
<1>3. OnTheGrid'
  BY DEF IInv, OnTheGrid, Recheck, Await, Due, Pending, ime, bits, instr, halt, Numbers
<1>4. DispatchKeepsInterrupt'
  BY DEF IInv, DispatchKeepsInterrupt, Recheck, Await, Due, Pending, ime, bits, instr,
         halt
<1>5. Sleeps'
  BY DEF IInv, Sleeps, Recheck, Await, Due, Pending, ime, bits, instr, halt
<1>6. AccessesLeft' /\ EiShadowsCheck' /\ HaltBugStaysInProgram'
  BY DEF IInv, AccessesLeft, EiShadowsCheck, HaltBugStaysInProgram, Recheck, Await, Due,
         Pending, ime, bits, instr, halt
<1>7. DelaySettled'
  BY Zenon DEF IInv, DelaySettled, Recheck, Await, Due, Pending, ime, bits, instr, halt
<1> QED BY <1>1, <1>2, <1>3, <1>4, <1>5, <1>6, <1>7 DEF IInv

\* The handler is entered with the interrupts off, on the grid (gb_cpu.cpp:139-182).
LEMMA PushLowPreserves ==
    ASSUME NEW target \in Targets, NEW byte \in Bytes, IInv, PushLow(target, byte)
    PROVE  IInv'
<1>1. Flags'
  BY Zenon DEF IInv, Flags, PushLow, Await, Due, ime, instr, halt
<1>2. Numbers'
  BY CpuAssumption DEF IInv, Numbers, PushLow, Await, Due, ime, instr, halt, Label
<1>3. OnTheGrid'
  BY DEF IInv, OnTheGrid, PushLow, Await, Due, ime, instr, halt, Numbers
<1>4. DispatchKeepsInterrupt'
  BY DEF IInv, DispatchKeepsInterrupt, PushLow, Await, Due, ime, instr, halt, Pending
<1>5. Sleeps'
  BY DEF IInv, Sleeps, PushLow, Await, Due, ime, instr, halt, Pending
<1>6. AccessesLeft' /\ EiShadowsCheck' /\ HaltBugStaysInProgram'
  BY DEF IInv, AccessesLeft, EiShadowsCheck, HaltBugStaysInProgram, PushLow, Await, Due,
         ime, instr, halt
<1>7. DelaySettled'
  BY Zenon DEF IInv, DelaySettled, PushLow, Await, Due, ime, instr, halt
<1> QED BY <1>1, <1>2, <1>3, <1>4, <1>5, <1>6, <1>7 DEF IInv

-----------------------------------------------------------------------------
(* Instructions                                                            *)

\* An ordinary instruction begins (gb_cpu.cpp:202-211).
LEMMA ExecutePreserves ==
    ASSUME NEW n \in 0..MaxAccesses, NEW reti \in BOOLEAN, NEW dummy \in Dummies, IInv, Execute(n, reti, dummy)
    PROVE  IInv'
<1>1. Flags'
  BY Zenon DEF IInv, Flags, Execute, Await, Fetch, Due, NextInstruction, ime, bits,
         entry, halt
<1>2. Numbers'
  BY CpuAssumption DEF IInv, Numbers, Execute, Await, Fetch, Due, NextInstruction, ime,
         bits, entry, halt, Label, Dummies
<1>3. OnTheGrid'
  BY DEF IInv, OnTheGrid, Execute, Await, Fetch, Due, NextInstruction, ime, bits, entry,
         halt, Numbers, Dummies
<1>4. DispatchKeepsInterrupt'
  BY DEF IInv, DispatchKeepsInterrupt, Execute, Await, Fetch, Due, NextInstruction, ime,
         bits, entry, halt, Pending
<1>5. Sleeps'
  BY DEF IInv, Sleeps, Execute, Await, Fetch, Due, NextInstruction, ime, bits, entry,
         halt, Pending
<1>6. AccessesLeft' /\ EiShadowsCheck' /\ HaltBugStaysInProgram'
  BY DEF IInv, AccessesLeft, EiShadowsCheck, HaltBugStaysInProgram, Execute, Await,
         Fetch, Due, NextInstruction, ime, bits, entry, halt
<1>7. DelaySettled'
  BY Zenon DEF IInv, DelaySettled, Execute, Await, Fetch, Due, NextInstruction, ime,
         bits, entry, halt
<1> QED BY <1>1, <1>2, <1>3, <1>4, <1>5, <1>6, <1>7 DEF IInv

\* An access, and with the last one the end of the instruction: RETI turns both
\* flags on, any other leaves them alone (gb_cpu.cpp:31-69, 899-905).
LEMMA AccessPreserves ==
    ASSUME NEW target \in Targets, NEW byte \in Bytes, NEW dummy \in Dummies, IInv, Access(target, byte, dummy)
    PROVE  IInv'
<1>1. Flags'
  BY Zenon DEF IInv, Flags, Access, Await, Due, Write, NextInstruction, ime, entry, halt
<1>2. Numbers'
  BY CpuAssumption DEF IInv, Numbers, Access, Await, Due, Write, NextInstruction, ime,
         entry, halt, Label, Dummies
<1>3. OnTheGrid'
  BY DEF IInv, OnTheGrid, Access, Await, Due, Write, NextInstruction, ime, entry, halt,
         Numbers, Dummies
<1>4. DispatchKeepsInterrupt'
  BY DEF IInv, DispatchKeepsInterrupt, Access, Await, Due, Write, NextInstruction, ime,
         entry, halt, Pending
<1>5. Sleeps'
  BY DEF IInv, Sleeps, Access, Await, Due, Write, NextInstruction, ime, entry, halt,
         Pending
<1>6. AccessesLeft' /\ EiShadowsCheck' /\ HaltBugStaysInProgram'
  BY DEF IInv, AccessesLeft, EiShadowsCheck, HaltBugStaysInProgram, Access, Await, Due,
         Write, NextInstruction, ime, entry, halt, Numbers
<1>7. DelaySettled'
  <2>1. CASE accesses > 1
    BY <2>1 DEF IInv, DelaySettled, Numbers, Access, ime
  <2>2. CASE accesses = 1
    <3>0. ~ (accesses > 1)
      BY <2>2
    <3>1. enable_interrupts_delay' = (enable_interrupts_delay \/ returns)
      BY <3>0, Zenon DEF Access, NextInstruction
    <3>2. CASE returns
      <4>1. enable_interrupts' = TRUE
        BY <3>0, <3>2, Zenon DEF Access, NextInstruction
      <4>2. (enable_interrupts_delay \/ returns) = TRUE
        BY <3>2
      <4> QED BY <3>1, <4>1, <4>2 DEF DelaySettled
    <3>3. CASE ~ returns
      <4>1. (enable_interrupts_delay \/ returns) = enable_interrupts_delay
        BY <3>3 DEF IInv, Flags
      <4>2. enable_interrupts' = enable_interrupts_delay
        BY <3>0, <3>1, <4>1, <3>3, Zenon DEF IInv, Flags, DelaySettled, Access, NextInstruction
      <4> QED BY <3>1, <4>1, <4>2 DEF DelaySettled
    <3> QED BY <3>2, <3>3
  <2> QED BY <2>1, <2>2 DEF IInv, Numbers, Access
<1> QED BY <1>1, <1>2, <1>3, <1>4, <1>5, <1>6, <1>7 DEF IInv

\* DI turns both flags off (gb_cpu.cpp:984-989).
LEMMA DiPreserves ==
    ASSUME IInv, Di
    PROVE  IInv'
<1>1. Flags'
  BY Zenon DEF IInv, Flags, Di, Fetch, Due, NextInstruction, Await, bits, entry, instr,
         halt
<1>2. Numbers'
  BY CpuAssumption DEF IInv, Numbers, Di, Fetch, Due, NextInstruction, Await, bits,
         entry, instr, halt, Label
<1>3. OnTheGrid'
  BY DEF IInv, OnTheGrid, Di, Fetch, Due, NextInstruction, Await, bits, entry, instr,
         halt, Numbers
<1>4. DispatchKeepsInterrupt'
  BY DEF IInv, DispatchKeepsInterrupt, Di, Fetch, Due, NextInstruction, Await, bits,
         entry, instr, halt, Pending
<1>5. Sleeps'
  BY DEF IInv, Sleeps, Di, Fetch, Due, NextInstruction, Await, bits, entry, instr, halt,
         Pending
<1>6. AccessesLeft' /\ EiShadowsCheck' /\ HaltBugStaysInProgram'
  BY DEF IInv, AccessesLeft, EiShadowsCheck, HaltBugStaysInProgram, Di, Fetch, Due,
         NextInstruction, Await, bits, entry, instr, halt
<1>7. DelaySettled'
  BY Zenon DEF IInv, DelaySettled, Di, Fetch, Due, NextInstruction, Await, bits, entry,
         instr, halt
<1> QED BY <1>1, <1>2, <1>3, <1>4, <1>5, <1>6, <1>7 DEF IInv

\* EI turns the second flag on, and the top of the loop the first; nothing is
\* checked on the way (gb_cpu.cpp:186, 991-995).
LEMMA EiPreserves ==
    ASSUME IInv, Ei
    PROVE  IInv'
<1>1. Flags'
  BY Zenon DEF IInv, Flags, Ei, Due, NextInstruction, Await, bits, entry, instr, halt
<1>2. Numbers'
  BY CpuAssumption DEF IInv, Numbers, Ei, Due, NextInstruction, Await, bits, entry,
         instr, halt, Label
<1>3. OnTheGrid'
  BY DEF IInv, OnTheGrid, Ei, Due, NextInstruction, Await, bits, entry, instr, halt,
         Numbers
<1>4. DispatchKeepsInterrupt'
  BY DEF IInv, DispatchKeepsInterrupt, Ei, Due, NextInstruction, Await, bits, entry,
         instr, halt, Pending
<1>5. Sleeps'
  BY DEF IInv, Sleeps, Ei, Due, NextInstruction, Await, bits, entry, instr, halt,
         Pending
<1>6. AccessesLeft' /\ EiShadowsCheck' /\ HaltBugStaysInProgram'
  BY DEF IInv, AccessesLeft, EiShadowsCheck, HaltBugStaysInProgram, Ei, Due,
         NextInstruction, Await, bits, entry, instr, halt
<1>7. DelaySettled'
  BY Zenon DEF IInv, DelaySettled, Ei, Due, NextInstruction, Await, bits, entry, instr,
         halt
<1> QED BY <1>1, <1>2, <1>3, <1>4, <1>5, <1>6, <1>7 DEF IInv

\* HALT sleeps only while nothing is pending (gb_cpu.cpp:604-634).
LEMMA HaltPreserves ==
    ASSUME IInv, Halt
    PROVE  IInv'
<1>1. Flags'
  BY Zenon DEF IInv, Flags, Halt, Await, Pending, Fetch, Due, NextInstruction, bits,
         entry, instr, halt
<1>2. Numbers'
  BY CpuAssumption DEF IInv, Numbers, Halt, Await, Pending, Fetch, Due, NextInstruction,
         bits, entry, instr, halt, Label
<1>3. OnTheGrid'
  BY DEF IInv, OnTheGrid, Halt, Await, Pending, Fetch, Due, NextInstruction, bits,
         entry, instr, halt, Numbers
<1>4. DispatchKeepsInterrupt'
  BY DEF IInv, DispatchKeepsInterrupt, Halt, Await, Pending, Fetch, Due,
         NextInstruction, bits, entry, instr, halt
<1>5. Sleeps'
  BY DEF IInv, Sleeps, Halt, Await, Pending, Fetch, Due, NextInstruction, bits, entry,
         instr, halt, OnTheGrid, Numbers
<1>6. AccessesLeft' /\ EiShadowsCheck'
  BY DEF IInv, AccessesLeft, EiShadowsCheck, Halt, Await, Pending, Fetch, Due,
         NextInstruction, bits, entry, instr, halt
<1>7. HaltBugStaysInProgram'
  BY DEF IInv, HaltBugStaysInProgram, Halt, Await, Pending, Fetch, Due, NextInstruction,
         bits, entry, instr, halt
<1>8. DelaySettled'
  BY Zenon DEF IInv, DelaySettled, Halt, Await, Pending, Fetch, Due, NextInstruction,
         bits, entry, instr, halt
<1> QED BY <1>1, <1>2, <1>3, <1>4, <1>5, <1>6, <1>7, <1>8 DEF IInv

-----------------------------------------------------------------------------
(* The PPU, the player, and time                                           *)

\* A request adds to what is pending and wakes a sleeping CPU, which comes back
\* on the grid (gb_ppu.cpp:676-698, gb_cpu.cpp:613-624).
LEMMA PpuRequestPreserves ==
    ASSUME NEW requests \in SUBSET {"vblank", "stat"}, IInv, PpuRequest(requests)
    PROVE  IInv'
<1>1. Flags'
  BY Zenon DEF IInv, Flags, PpuRequest, Due, TriggerCpuWake, NextInstruction, Await,
         ime, entry, instr
<1>2. Numbers'
  BY CpuAssumption DEF IInv, Numbers, PpuRequest, Due, TriggerCpuWake, NextInstruction,
         Await, ime, entry, instr, Label, Interrupts, Sleeps
<1>3. OnTheGrid'
  BY DEF IInv, OnTheGrid, PpuRequest, Due, TriggerCpuWake, NextInstruction, Await, ime,
         entry, instr, Numbers, Sleeps
<1>4. DispatchKeepsInterrupt'
  BY DEF IInv, DispatchKeepsInterrupt, PpuRequest, Due, TriggerCpuWake, NextInstruction,
         Await, ime, entry, instr, Pending
<1>5. Sleeps'
  BY DEF IInv, Sleeps, PpuRequest, Due, TriggerCpuWake, NextInstruction, Await, ime,
         entry, instr, Pending
<1>6. AccessesLeft' /\ EiShadowsCheck' /\ HaltBugStaysInProgram'
  BY DEF IInv, AccessesLeft, EiShadowsCheck, HaltBugStaysInProgram, PpuRequest, Due,
         TriggerCpuWake, NextInstruction, Await, ime, entry, instr
<1>7. DelaySettled'
  BY Zenon DEF IInv, DelaySettled, PpuRequest, Due, TriggerCpuWake, NextInstruction,
         Await, ime, entry, instr
<1> QED BY <1>1, <1>2, <1>3, <1>4, <1>5, <1>6, <1>7 DEF IInv

\* So does a button, with nothing pending (gb_emu.h:141-145).
LEMMA InputPreserves ==
    ASSUME IInv, Input
    PROVE  IInv'
<1>1. Flags'
  BY Zenon DEF IInv, Flags, Input, TriggerCpuWake, NextInstruction, Await, ime, bits,
         entry, instr
<1>2. Numbers'
  BY CpuAssumption DEF IInv, Numbers, Input, TriggerCpuWake, NextInstruction, Await,
         ime, bits, entry, instr, Label, Sleeps
<1>3. OnTheGrid'
  BY DEF IInv, OnTheGrid, Input, TriggerCpuWake, NextInstruction, Await, ime, bits,
         entry, instr, Numbers, Sleeps
<1>4. DispatchKeepsInterrupt'
  BY DEF IInv, DispatchKeepsInterrupt, Input, TriggerCpuWake, NextInstruction, Await,
         ime, bits, entry, instr, Pending
<1>5. Sleeps'
  BY DEF IInv, Sleeps, Input, TriggerCpuWake, NextInstruction, Await, ime, bits, entry,
         instr, Pending
<1>6. AccessesLeft' /\ EiShadowsCheck' /\ HaltBugStaysInProgram'
  BY DEF IInv, AccessesLeft, EiShadowsCheck, HaltBugStaysInProgram, Input,
         TriggerCpuWake, NextInstruction, Await, ime, bits, entry, instr
<1>7. DelaySettled'
  BY Zenon DEF IInv, DelaySettled, Input, TriggerCpuWake, NextInstruction, Await, ime,
         bits, entry, instr
<1> QED BY <1>1, <1>2, <1>3, <1>4, <1>5, <1>6, <1>7 DEF IInv

\* A cycle brings the counter, which wraps around at a multiple of 4, closer to
\* the end of the wait by one.
LEMMA ElapsePreserves ==
    ASSUME IInv, Elapse
    PROVE  IInv'
<1>1. Flags'
  BY Zenon DEF IInv, Flags, Elapse, Due, ime, bits, entry, instr, halt
<1>2. Numbers'
  BY CpuAssumption DEF IInv, Numbers, Elapse, Due, ime, bits, entry, instr, halt, Label,
         W
<1>3. OnTheGrid'
  BY CpuAssumption DEF IInv, OnTheGrid, Elapse, Due, ime, bits, entry, instr, halt,
         Numbers, W
<1>4. DispatchKeepsInterrupt'
  BY DEF IInv, DispatchKeepsInterrupt, Elapse, Due, ime, bits, entry, instr, halt,
         Pending
<1>5. Sleeps'
  BY DEF IInv, Sleeps, Elapse, Due, ime, bits, entry, instr, halt, Pending
<1>6. AccessesLeft' /\ EiShadowsCheck' /\ HaltBugStaysInProgram'
  BY DEF IInv, AccessesLeft, EiShadowsCheck, HaltBugStaysInProgram, Elapse, Due, ime,
         bits, entry, instr, halt
<1>7. DelaySettled'
  BY Zenon DEF IInv, DelaySettled, Elapse, Due, ime, bits, entry, instr, halt
<1> QED BY <1>1, <1>2, <1>3, <1>4, <1>5, <1>6, <1>7 DEF IInv

-----------------------------------------------------------------------------
(* The theorems                                                            *)

\* Nothing happens while no variable changes.
LEMMA StutterPreserves == IInv /\ UNCHANGED vars => IInv'
<1> SUFFICES ASSUME IInv, UNCHANGED vars PROVE IInv'
  OBVIOUS
<1>1. Flags' /\ DelaySettled'
  BY Zenon DEF IInv, Flags, DelaySettled, vars, ime, instr, halt
<1>2. Numbers' /\ AccessesLeft'
  BY DEF IInv, Numbers, AccessesLeft, vars, bits, entry, instr, halt
<1>3. OnTheGrid' /\ DispatchKeepsInterrupt' /\ Sleeps'
  BY DEF IInv, OnTheGrid, DispatchKeepsInterrupt, Sleeps, Pending, vars, bits, entry, halt
<1>4. EiShadowsCheck' /\ HaltBugStaysInProgram'
  BY Zenon DEF IInv, EiShadowsCheck, HaltBugStaysInProgram, vars, ime
<1> QED BY <1>1, <1>2, <1>3, <1>4 DEF IInv

\* Whatever the CPU, the PPU and the player do, the invariant holds.
THEOREM InterruptInvariant == Spec => []IInv
<1>1. IInv /\ [Next]_vars => IInv'
  <2> SUFFICES ASSUME IInv, [Next]_vars PROVE IInv'
    OBVIOUS
  <2>1. CASE Cpu
    <3>1. CASE Instruction
      BY <3>1, ExecutePreserves, DiPreserves, EiPreserves, HaltPreserves DEF Instruction
    <3>2. CASE Check \/ Recheck
      BY <3>2, CheckPreserves, RecheckPreserves
    <3>3. CASE \E target \in Targets, byte \in Bytes :
                  PushHigh(target, byte) \/ PushLow(target, byte)
      BY <3>3, PushHighPreserves, PushLowPreserves
    <3>4. CASE \E target \in Targets, byte \in Bytes, dummy \in Dummies :
                  Access(target, byte, dummy)
      BY <3>4, AccessPreserves
    <3> QED BY <2>1, <3>1, <3>2, <3>3, <3>4 DEF Cpu
  <2>2. CASE \E requests \in SUBSET {"vblank", "stat"} \ {{}} : PpuRequest(requests)
    BY <2>2, PpuRequestPreserves
  <2>3. CASE Input \/ Elapse
    BY <2>3, InputPreserves, ElapsePreserves
  <2>4. CASE UNCHANGED vars
    BY <2>4, StutterPreserves
  <2> QED BY <2>1, <2>2, <2>3, <2>4 DEF Next
<1> QED BY InitEstablishes, <1>1, PTL DEF Spec

\* The variables keep their types for every size of the counter; above all no
\* wait is ever longer than 14 cycles (int8_t additional_cycles, gb_cpu.cpp:105).
THEOREM InterruptsTypeCorrect == Spec => []TypeOK
<1>1. IInv => TypeOK
  BY DEF IInv, Flags, Numbers, TypeOK
<1> QED BY InterruptInvariant, <1>1, PTL

\* Accesses on the grid and checks half-way, also after HALT and across the
\* wrap-around of the counter (gb_cpu.cpp:618-621).
THEOREM GridIsKept == Spec => []OnTheGrid
<1>1. IInv => OnTheGrid
  BY DEF IInv
<1> QED BY InterruptInvariant, <1>1, PTL

\* No interrupt is made pending behind the back of a sleeping CPU
\* (gb_cpu.cpp:607-613, gb_ppu.cpp:690-698).
THEOREM WakeUpsAreNotMissed == Spec => []NoMissedWakeUp
<1>1. IInv => NoMissedWakeUp
  BY DEF IInv, Sleeps, NoMissedWakeUp
<1> QED BY InterruptInvariant, <1>1, PTL

\* Only a push over IF or IE sends the dispatch to 0000 (gb_cpu.cpp:173).
THEOREM DispatchHasTarget == Spec => []DispatchFindsInterrupt
<1>1. IInv => DispatchFindsInterrupt
  BY DEF IInv, DispatchKeepsInterrupt, DispatchFindsInterrupt
<1> QED BY InterruptInvariant, <1>1, PTL

\* EI lets no interrupt in before the next opcode (gb_cpu.cpp:186, 993), and the
\* HALT bug repeats no byte of a handler (gb_cpu.cpp:203-211, 626-630).
THEOREM NextOpcodeStaysPrograms == Spec => []NextOpcodeIsPrograms
<1>1. IInv => NextOpcodeIsPrograms
  BY DEF IInv, NextOpcodeIsPrograms
<1> QED BY InterruptInvariant, <1>1, PTL

\* The two flags of the master enable agree wherever the CPU waits, as HALT and
\* the handlers assume (gb_cpu.cpp:606).
THEOREM DelayIsSettled == Spec => []DelaySettled
<1>1. IInv => DelaySettled
  BY DEF IInv
<1> QED BY InterruptInvariant, <1>1, PTL
=============================================================================
