--------------------------- MODULE CpuArithmetic ---------------------------
(***************************************************************************)
(* Calculations on numbers of two bytes (gb_cpu.cpp).  The ALU works on    *)
(* one byte at a time, and everything that one byte has to tell the next   *)
(* goes through the flags of F: each instruction must leave, change or     *)
(* clear exactly the right ones.  The program takes two numbers in HL and  *)
(* DE and one of the usual sequences of instructions, and executes it.     *)
(***************************************************************************)
EXTENDS Integers, Sequences, FiniteSets

CONSTANTS
    Operands,       \* numbers calculated with, 0..65535
    DecimalOperands \* those in BCD, four digits

\* A number in BCD: each half of its bytes is a decimal digit.
Digits(v) == <<v \div 4096, (v \div 256) % 16, (v \div 16) % 16, v % 16>>
IsDecimal(v) == \A i \in 1..4 : Digits(v)[i] <= 9

ASSUME ArithmeticAssumption ==
    /\ \A v \in Operands : v \in Nat /\ v < 65536
    /\ \A v \in DecimalOperands : v \in Nat /\ v < 65536 /\ IsDecimal(v)

Byte == 0..255
Registers == {"A", "B", "C", "D", "E", "H", "L"}

VARIABLES
    r,              \* registers: the 8-bit ones
    f,              \* registers.F
    sequence,       \* the name of the instructions that run
    done,           \* how many of them have been executed
    x, y            \* the numbers calculated with

arithmeticVars == <<r, f, sequence, done, x, y>>

-----------------------------------------------------------------------------
(* Bytes and bits                                                          *)

Bit(v, i) == (v \div 2^i) % 2

\* The byte of the bits b[0] to b[7]
FromBits(b) == b[0] + 2*b[1] + 4*b[2] + 8*b[3] + 16*b[4] + 32*b[5] + 64*b[6] + 128*b[7]

And(v, w) == FromBits([i \in 0..7 |-> Bit(v, i) * Bit(w, i)])
Xor(v, w) == FromBits([i \in 0..7 |-> (Bit(v, i) + Bit(w, i)) % 2])
Or(v, w)  == And(v, w) + Xor(v, w)

Flag(condition) == IF condition THEN 1 ELSE 0

Flags(carry, half_carry, subtract, zero) ==
    [carry |-> carry, half_carry |-> half_carry, subtract |-> subtract, zero |-> zero]

-----------------------------------------------------------------------------
(* The ALU                                                                 *)

\* mutant: a subtraction takes the carry for what to add, not for a borrow
RunAluWithoutBorrow(value_a, value_b, subtract, carry_in) ==
    LET b == IF subtract = 1 THEN 255 - value_b ELSE value_b
        sum == value_a + b + carry_in
        half == (value_a % 16) + (b % 16) + carry_in
    IN  [value |-> sum % 256,
         flags |-> Flags(Flag((sum > 255) # (subtract = 1)), Flag((half > 15) # (subtract = 1)),
                         subtract, Flag(sum % 256 = 0))]

\* run_alu: it subtracts by adding the complement, with the carry inverted on
\* its way in and out
RunAlu(value_a, value_b, subtract, carry_in) ==
    LET b == IF subtract = 1 THEN 255 - value_b ELSE value_b
        c == IF subtract = 1 THEN 1 - carry_in ELSE carry_in
        sum == value_a + b + c
        half == (value_a % 16) + (b % 16) + c
    IN  [value |-> sum % 256,
         flags |-> Flags(Flag((sum > 255) # (subtract = 1)), Flag((half > 15) # (subtract = 1)),
                         subtract, Flag(sum % 256 = 0))]

\* DAA: A, the sum or the difference of two BCD bytes, becomes one again.
Daa(a, flags) ==
    LET add   == flags.subtract = 0
        low   == flags.half_carry = 1 \/ (add /\ a % 16 > 9)
        high  == flags.carry = 1 \/ (add /\ a > 153)
        fixed == RunAlu(a, (IF low THEN 6 ELSE 0) + (IF high THEN 96 ELSE 0), flags.subtract, 0)
    IN  [value |-> fixed.value,
         flags |-> Flags(Flag(high), 0, flags.subtract, fixed.flags.zero)]

-----------------------------------------------------------------------------
(* What an instruction does to registers and flags                         *)

Logic == {"and", "or", "xor"}
Sums  == {"add", "adc", "sub", "sbc", "cp"}

\* add, adc, sub, sbc, cp
Sum(op, value) ==
    LET subtract == Flag(op \in {"sub", "sbc", "cp"})
        result == RunAlu(r["A"], value, subtract, IF op \in {"adc", "sbc"} THEN f.carry ELSE 0)
    IN  /\ r' = IF op = "cp" THEN r ELSE [r EXCEPT !["A"] = result.value]
        /\ f' = result.flags

\* and, or, xor
Combine(op, value) ==
    LET result == CASE op = "and" -> And(r["A"], value)
                    [] op = "or"  -> Or(r["A"], value)
                    [] op = "xor" -> Xor(r["A"], value)
    IN  /\ r' = [r EXCEPT !["A"] = result]
        /\ f' = Flags(0, Flag(op = "and"), 0, Flag(result = 0))

\* mutant: DEC and INC set the carry like a subtraction or an addition
StepCarrying(op, reg) ==
    LET result == RunAlu(r[reg], 1, Flag(op = "dec"), 0)
    IN  r' = [r EXCEPT ![reg] = result.value] /\ f' = result.flags

\* inc r8, dec r8: the carry stays, for loops over the bytes of a number
Step(op, reg) ==
    LET result == (r[reg] + (IF op = "inc" THEN 1 ELSE -1)) % 256
    IN  /\ r' = [r EXCEPT ![reg] = result]
        /\ f' = Flags(f.carry, Flag(result % 16 = IF op = "inc" THEN 0 ELSE 15),
                      Flag(op = "dec"), Flag(result = 0))

\* Rotates and shifts: the value and the carry
Left  == {"rlc", "rl", "sla"}
Right == {"rrc", "rr", "sra", "srl"}
Rotated(op, value, carry) ==
    LET top == value \div 128
        low == value % 2
        enters == CASE op = "rlc" -> top [] op = "rrc" -> low [] op \in {"rl", "rr"} -> carry
                    [] op \in {"sla", "srl"} -> 0 [] op = "sra" -> top
    IN  IF op \in Left THEN <<((2 * value) % 256) + enters, top>>
                       ELSE <<(value \div 2) + 128 * enters, low>>

\* The four of them that exist as instructions of A without the prefix CB
OfA == [rlca |-> "rlc", rrca |-> "rrc", rla |-> "rl", rra |-> "rr"]

\* With the prefix; the four without it leave zero 0.
Shift(op, reg, prefixed) ==
    LET result == Rotated(op, r[reg], f.carry)
    IN  /\ r' = [r EXCEPT ![reg] = result[1]]
        /\ f' = Flags(result[2], 0, 0, Flag(prefixed /\ result[1] = 0))

Swap(reg) ==
    LET result == ((r[reg] % 16) * 16) + (r[reg] \div 16)
    IN  r' = [r EXCEPT ![reg] = result] /\ f' = Flags(0, 0, 0, Flag(result = 0))

Pair(high, low) == 256 * r[high] + r[low]

\* add hl, r16: zero stays
AddHl(high, low) ==
    LET sum  == Pair("H", "L") + Pair(high, low)
        half == (Pair("H", "L") % 4096) + (Pair(high, low) % 4096)
    IN  /\ r' = [r EXCEPT !["H"] = (sum % 65536) \div 256, !["L"] = sum % 256]
        /\ f' = Flags(Flag(sum > 65535), Flag(half > 4095), 0, f.zero)

\* Instructions that change nothing but flags, or A and flags
ForA(op) ==
    \/ op = "daa" /\ r' = [r EXCEPT !["A"] = Daa(r["A"], f).value] /\ f' = Daa(r["A"], f).flags
    \/ op = "cpl" /\ r' = [r EXCEPT !["A"] = 255 - @] /\ f' = [f EXCEPT !.half_carry = 1, !.subtract = 1]
    \/ op = "scf" /\ f' = Flags(1, 0, 0, f.zero) /\ UNCHANGED r
    \/ op = "ccf" /\ f' = Flags(1 - f.carry, 0, 0, f.zero) /\ UNCHANGED r

-----------------------------------------------------------------------------
(* The sequences, as <<operation, register, register>>                     *)

Run(op, dst, src) == <<op, dst, src>>
OnA(op) == Run(op, "A", "A")

\* A two-byte operation by way of A, with a loop counter between the bytes
ByWay(before, first, second, fix) ==
    before \o <<Run("ld", "A", "L"), Run(first, "A", "E")>> \o fix
           \o <<Run("ld", "L", "A"), Run("dec", "B", "B"), Run("ld", "A", "H"), Run(second, "A", "D")>>
           \o fix \o <<Run("ld", "H", "A")>>

Sequences == [
    add          |-> ByWay(<<>>, "add", "adc", <<>>),
    subtract     |-> ByWay(<<>>, "sub", "sbc", <<>>),
    decimal_add  |-> ByWay(<<>>, "add", "adc", <<OnA("daa")>>),
    decimal_sub  |-> ByWay(<<>>, "sub", "sbc", <<OnA("daa")>>),
    \* x + ~y + 1, with the borrow at last
    complement   |-> <<Run("ld", "A", "E"), OnA("cpl"), Run("ld", "E", "A"),
                       Run("ld", "A", "D"), OnA("cpl"), Run("ld", "D", "A")>>
                     \o ByWay(<<OnA("scf")>>, "adc", "adc", <<>>) \o <<OnA("ccf")>>,
    compare      |-> <<Run("ld", "A", "L"), Run("cp", "A", "E"), Run("ld", "A", "H"), Run("sbc", "A", "D")>>,
    negate       |-> <<Run("xor", "A", "A"), Run("sub", "A", "L"), Run("ld", "L", "A"),
                       Run("sbc", "A", "A"), Run("sub", "A", "H"), Run("ld", "H", "A")>>,
    add_word     |-> <<Run("add_hl", "D", "E")>>,
    increment    |-> <<Run("inc", "L", "L"), Run("skip_nz", "A", "A"), Run("inc", "H", "H")>>,
    double       |-> <<Run("sla", "L", "L"), Run("inc", "B", "B"), Run("rl", "H", "H")>>,
    double_in_a  |-> <<Run("ld", "A", "L"), Run("or", "A", "A"), OnA("rla"), Run("ld", "L", "A"),
                       Run("ld", "A", "H"), OnA("rla"), Run("ld", "H", "A")>>,
    halve        |-> <<Run("srl", "H", "H"), Run("dec", "B", "B"), Run("rr", "L", "L")>>,
    halve_in_a   |-> <<Run("ld", "A", "H"), Run("and", "A", "A"), OnA("rra"), Run("ld", "H", "A"),
                       Run("ld", "A", "L"), OnA("rra"), Run("ld", "L", "A")>>,
    halve_signed |-> <<Run("sra", "H", "H"), Run("rr", "L", "L")>>,
    \* the bits of L around and back, once with the prefix and once without
    round        |-> <<Run("rlc", "L", "L"), Run("ld", "A", "L"), OnA("rrca"), OnA("rlca"),
                       Run("ld", "L", "A"), Run("rrc", "L", "L")>>,
    \* the two digits of L, one in H and one in L
    unpack       |-> <<Run("ld", "A", "L"), Run("swap", "A", "A"), Run("and", "A", "C"), Run("ld", "H", "A"),
                       Run("ld", "A", "L"), Run("and", "A", "C"), Run("ld", "L", "A")>>,
    \* and back, from the low digits of H and L
    pack         |-> <<Run("swap", "H", "H"), Run("ld", "A", "L"), Run("xor", "A", "H"),
                       Run("and", "A", "C"), Run("xor", "A", "H"), Run("ld", "L", "A")>> ]

-----------------------------------------------------------------------------
\* The numbers in HL and DE, a loop counter in B and a mask in C
Loaded == [A |-> 0, B |-> 2, C |-> 15, D |-> y \div 256, E |-> y % 256,
           H |-> x \div 256, L |-> x % 256]

ArithmeticInit ==
    /\ sequence \in DOMAIN Sequences
    /\ done = 0
    /\ \E decimal \in {sequence \in {"decimal_add", "decimal_sub"}} :
           LET values == IF decimal THEN DecimalOperands ELSE Operands
           IN  x \in values /\ y \in values
    /\ r = Loaded
    /\ f \in {Flags(0, 0, 0, 0), Flags(1, 1, 1, 1)}

Instruct(op, dst, src) ==
    \/ op \in Sums /\ Sum(op, r[src])
    \/ op \in Logic /\ Combine(op, r[src])
    \/ op \in {"inc", "dec"} /\ Step(op, dst)
    \/ op \in Left \cup Right /\ Shift(op, dst, TRUE)
    \/ op \in DOMAIN OfA /\ Shift(OfA[op], "A", FALSE)
    \/ op = "swap" /\ Swap(dst)
    \/ op = "add_hl" /\ AddHl(dst, src)
    \/ op = "ld" /\ r' = [r EXCEPT ![dst] = r[src]] /\ UNCHANGED f
    \/ op = "skip_nz" /\ UNCHANGED <<r, f>>
    \/ ForA(op)

\* jr nz, over one instruction
Skips(op) == op = "skip_nz" /\ f.zero = 0

Execute8 ==
    /\ done < Len(Sequences[sequence])
    /\ LET instruction == Sequences[sequence][done + 1]
       IN  /\ Instruct(instruction[1], instruction[2], instruction[3])
           /\ done' = done + (IF Skips(instruction[1]) THEN 2 ELSE 1)
    /\ UNCHANGED <<sequence, x, y>>

\* The program calculates again, with whatever the flags are by now.
Again ==
    /\ done = Len(Sequences[sequence]) /\ done' = 0
    /\ r' = Loaded
    /\ UNCHANGED <<f, sequence, x, y>>

ArithmeticNext == Execute8 \/ Again

ArithmeticSpec == ArithmeticInit /\ [][ArithmeticNext]_arithmeticVars

-----------------------------------------------------------------------------
(* Properties                                                              *)

Number == Pair("H", "L")

Decimal(v) == 1000 * Digits(v)[1] + 100 * Digits(v)[2] + 10 * Digits(v)[3] + Digits(v)[4]

\* What each sequence is for: the numbers in HL and, where it tells something,
\* in the carry, from the numbers it began with
Intended ==
    /\ sequence \in {"add", "add_word"} => (65536 * f.carry) + Number = x + y
    /\ sequence \in {"subtract", "complement"} => Number - (65536 * f.carry) = x - y
    /\ sequence = "decimal_add" =>
          (IsDecimal(Number) /\ (10000 * f.carry) + Decimal(Number) = Decimal(x) + Decimal(y))
    /\ sequence = "decimal_sub" =>
          (IsDecimal(Number) /\ Decimal(Number) - (10000 * f.carry) = Decimal(x) - Decimal(y))
    /\ sequence = "compare" => (f.carry = Flag(x < y) /\ Number = x /\ Pair("D", "E") = y)
    /\ sequence = "negate" => Number = (65536 - x) % 65536
    /\ sequence = "increment" => Number = (x + 1) % 65536
    /\ sequence \in {"double", "double_in_a"} => (65536 * f.carry) + Number = 2 * x
    /\ sequence \in {"halve", "halve_in_a"} => (2 * Number) + f.carry = x
    /\ sequence = "halve_signed" =>
          (2 * Number) + f.carry = x + (IF x > 32767 THEN 65536 ELSE 0)
    /\ sequence = "round" => Number = x
    /\ sequence = "unpack" => (r["H"] = (x % 256) \div 16 /\ r["L"] = x % 16)
    /\ sequence = "pack" => r["L"] = (16 * ((x \div 256) % 16)) + (x % 16)

\* The two bytes of a calculation make one number: carry and borrow, and for
\* DAA the half carry and the kind of the last operation, get from one
\* instruction to the next, past those that have no business with them
\* (gb_cpu.cpp:77-100, 444-487, 559-600, 1177-1221).
CalculationsAgree == done = Len(Sequences[sequence]) => Intended
=============================================================================
