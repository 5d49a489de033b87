------------------------------ MODULE CpuCore ------------------------------
(***************************************************************************)
(* The CPU and the memory mapper it works with: how it is interrupted, in  *)
(* CpuInterrupts, how it calculates, in CpuArithmetic, and who answers its *)
(* accesses, in MemoryMapper.  The parts meet in an instruction, which is  *)
(* abstract in the first and the third, so that they have no state in      *)
(* common: they are examined one at a time, and the others rest.           *)
(***************************************************************************)
EXTENDS CpuInterrupts, CpuArithmetic, MemoryMapper

VARIABLE part       \* "interrupts", "arithmetic" or "mapper"

coreVars == <<vars, arithmeticVars, mapperVars, part>>

ASSUME CoreAssumption == Operands # {}

NoOperand == CHOOSE v \in Operands : TRUE

CoreInit ==
    /\ part \in {"interrupts", "arithmetic", "mapper"}
    /\ Init /\ ArithmeticInit /\ MapperInit
    /\ part # "arithmetic" =>
          sequence = "add" /\ x = NoOperand /\ y = NoOperand /\ f.zero = 0
    /\ part # "mapper" => controller

InterruptsWork == part = "interrupts" /\ UNCHANGED <<arithmeticVars, mapperVars, part>>
ArithmeticWorks == part = "arithmetic" /\ UNCHANGED <<vars, mapperVars, part>>
MapperWorks == part = "mapper" /\ UNCHANGED <<vars, arithmeticVars, part>>

CoreNext ==
    \/ InterruptsWork /\ Next
    \/ ArithmeticWorks /\ ArithmeticNext
    \/ MapperWorks /\ MapperNext

CoreSpec == CoreInit /\ [][CoreNext]_coreVars

\* What is due runs, as in FairSpec of CpuInterrupts
CoreFairSpec ==
    /\ CoreSpec
    /\ WF_coreVars(InterruptsWork /\ Cpu)
    /\ WF_coreVars(InterruptsWork /\ Elapse)
=============================================================================
