---------------------------- MODULE CpuCoreProofs ----------------------------
(***************************************************************************)
(* Proof that the calculations on two bytes are right (CalculationsAgree): *)
(* for all numbers of 16 bits, all BCD numbers where the sequence is       *)
(* decimal, and every state that the flags can be in at the start of a     *)
(* sequence.  The inductive invariant is one assertion for every point of  *)
(* every sequence, as in a proof of a program: what A, the registers of    *)
(* the two numbers and the carry hold there in terms of the numbers it     *)
(* began with.  Below it are lemmas about the bits of a byte, the ALU and  *)
(* DAA, one about each instruction, and a pair about each sequence: the    *)
(* instructions it consists of, and that they lead from point to point.    *)
(***************************************************************************)
EXTENDS CpuCore, TLAPS

\* What a program knows of A and the flags after the ALU
FromAlu(a, b, subtract, carry_in) ==
  /\ r["A"] = RunAlu(a, b, subtract, carry_in).value
  /\ f = RunAlu(a, b, subtract, carry_in).flags

FromAluNext(a, b, subtract, carry_in) ==
  /\ r'["A"] = RunAlu(a, b, subtract, carry_in).value
  /\ f' = RunAlu(a, b, subtract, carry_in).flags

\* The two digits of a byte in BCD, and the number they stand for
Tens(v) == v \div 16
Ones(v) == v % 16
IsBcd(v) == Tens(v) <= 9 /\ Ones(v) <= 9
Bcd(v) == (10 * Tens(v)) + Ones(v)
DecimalPair(h, l) == (100 * Bcd(h)) + Bcd(l)

\* A byte turned left by one bit, and one with its digits exchanged
RotatedLeft(v) == ((2 * v) % 256) + (v \div 128)
Swapped(v) == (16 * (v % 16)) + (v \div 16)

\* The registers hold bytes and the flags bits.
FlagsType == [carry : 0..1, half_carry : 0..1, subtract : 0..1, zero : 0..1]
CpuTyped == r \in [Registers -> Byte] /\ f \in FlagsType

\* Every register but one stays as it is.
Keeps(reg) == \A q \in Registers \ {reg} : r'[q] = r[q]

-----------------------------------------------------------------------------
(* The bits of a byte                                                      *)

\* A bit is 0 or 1.
LEMMA BitRange == ASSUME NEW v \in Byte, NEW i \in 0..7 PROVE Bit(v, i) \in 0..1
<1>1. i \in {0,1,2,3,4,5,6,7} OBVIOUS
<1> QED BY <1>1 DEF Bit, Byte

\* The bits of a byte, as quotients that the prover can compute with
LEMMA BitIs ==
  ASSUME NEW v \in Byte
  PROVE  /\ Bit(v, 0) = v % 2          /\ Bit(v, 1) = (v \div 2) % 2
         /\ Bit(v, 2) = (v \div 4) % 2  /\ Bit(v, 3) = (v \div 8) % 2
         /\ Bit(v, 4) = (v \div 16) % 2 /\ Bit(v, 5) = (v \div 32) % 2
         /\ Bit(v, 6) = (v \div 64) % 2 /\ Bit(v, 7) = v \div 128
BY DEF Bit, Byte

\* A byte is the sum of its bits,
LEMMA SumOfBits ==
  ASSUME NEW v \in Byte
  PROVE v = Bit(v,0) + 2*Bit(v,1) + 4*Bit(v,2) + 8*Bit(v,3) + 16*Bit(v,4) + 32*Bit(v,5) + 64*Bit(v,6) + 128*Bit(v,7)
BY BitIs DEF Byte

\* and bits that make up a byte are the bits of that byte.
LEMMA BitsOfSum ==
  ASSUME NEW b0 \in 0..1, NEW b1 \in 0..1, NEW b2 \in 0..1, NEW b3 \in 0..1,
         NEW b4 \in 0..1, NEW b5 \in 0..1, NEW b6 \in 0..1, NEW b7 \in 0..1,
         NEW v, v = b0 + 2*b1 + 4*b2 + 8*b3 + 16*b4 + 32*b5 + 64*b6 + 128*b7
  PROVE  /\ v \in Byte
         /\ Bit(v,0) = b0 /\ Bit(v,1) = b1 /\ Bit(v,2) = b2 /\ Bit(v,3) = b3
         /\ Bit(v,4) = b4 /\ Bit(v,5) = b5 /\ Bit(v,6) = b6 /\ Bit(v,7) = b7
<1>1. v \in Byte BY DEF Byte
<1>2. /\ v % 2 = b0 /\ v \div 2 = b1 + 2*b2 + 4*b3 + 8*b4 + 16*b5 + 32*b6 + 64*b7
      /\ v \div 4 = b2 + 2*b3 + 4*b4 + 8*b5 + 16*b6 + 32*b7
      /\ v \div 8 = b3 + 2*b4 + 4*b5 + 8*b6 + 16*b7
      /\ v \div 16 = b4 + 2*b5 + 4*b6 + 8*b7
      /\ v \div 32 = b5 + 2*b6 + 4*b7
      /\ v \div 64 = b6 + 2*b7
      /\ v \div 128 = b7
  OBVIOUS
<1>3. v % 2 = b0 /\ (v \div 2) % 2 = b1 /\ (v \div 4) % 2 = b2 /\ (v \div 8) % 2 = b3 BY <1>2
<1>4. (v \div 16) % 2 = b4 /\ (v \div 32) % 2 = b5 /\ (v \div 64) % 2 = b6 BY <1>2
<1> QED BY <1>1, <1>2, <1>3, <1>4, BitIs

\* XOR, bit by bit (gb_cpu.cpp:462-471)
LEMMA XorBits ==
  ASSUME NEW v \in Byte, NEW w \in Byte
  PROVE Xor(v,w) \in Byte /\ \A i \in 0..7 : Bit(Xor(v,w), i) = (Bit(v,i)+Bit(w,i))%2
<1> DEFINE b == [i \in 0..7 |-> (Bit(v, i) + Bit(w, i)) % 2]
<1>1. b \in [0..7 -> 0..1]
  <2>1. \A i \in 0..7 : (Bit(v, i) + Bit(w, i)) % 2 \in 0..1 BY BitRange
  <2> QED BY <2>1
<1>2. \A i \in 0..7 : b[i] = (Bit(v, i) + Bit(w, i)) % 2 OBVIOUS
<1>3. Xor(v,w) = FromBits(b) BY DEF Xor
<1> HIDE DEF b
<1>4. FromBits(b) \in Byte /\ \A i \in 0..7 : Bit(FromBits(b), i) = b[i]
  BY <1>1, BitsOfSum DEF FromBits
<1> QED BY <1>2, <1>3, <1>4

\* AND, bit by bit (gb_cpu.cpp:451-460)
LEMMA AndBits ==
  ASSUME NEW v \in Byte, NEW w \in Byte
  PROVE And(v,w) \in Byte /\ \A i \in 0..7 : Bit(And(v,w), i) = Bit(v,i)*Bit(w,i)
<1> DEFINE b == [i \in 0..7 |-> Bit(v, i) * Bit(w, i)]
<1>1. b \in [0..7 -> 0..1]
  <2>1. \A i \in 0..7 : Bit(v, i) * Bit(w, i) \in 0..1 BY BitRange
  <2> QED BY <2>1
<1>2. \A i \in 0..7 : b[i] = Bit(v, i) * Bit(w, i) OBVIOUS
<1>3. And(v,w) = FromBits(b) BY DEF And
<1> HIDE DEF b
<1>4. FromBits(b) \in Byte /\ \A i \in 0..7 : Bit(FromBits(b), i) = b[i]
  BY <1>1, BitsOfSum DEF FromBits
<1> QED BY <1>2, <1>3, <1>4

\* Bytes with the same bits are the same.
LEMMA SameBits ==
  ASSUME NEW v \in Byte, NEW w \in Byte, \A i \in 0..7 : Bit(v,i) = Bit(w,i)
  PROVE v = w
BY SumOfBits

\* The bits of 15, the mask that the sequences have in C
LEMMA MaskBits ==
  /\ 15 \in Byte /\ Bit(15,0) = 1 /\ Bit(15,1) = 1 /\ Bit(15,2) = 1 /\ Bit(15,3) = 1
  /\ Bit(15,4) = 0 /\ Bit(15,5) = 0 /\ Bit(15,6) = 0 /\ Bit(15,7) = 0
BY BitIs DEF Byte

\* The low half of a byte has its lower four bits,
LEMMA LowDigit ==
  ASSUME NEW v \in Byte
  PROVE  v % 16 = Bit(v,0) + 2*Bit(v,1) + 4*Bit(v,2) + 8*Bit(v,3)
BY BitIs DEF Byte
\* and the high half its upper four.
LEMMA HighDigit ==
  ASSUME NEW v \in Byte
  PROVE  v \div 16 = Bit(v,4) + 2*Bit(v,5) + 4*Bit(v,6) + 8*Bit(v,7)
BY BitIs DEF Byte

\* AND with 15 leaves the low digit.
LEMMA AndMask ==
  ASSUME NEW v \in Byte
  PROVE And(v, 15) = v % 16
<1>1. And(v, 15) \in Byte /\ \A i \in 0..7 : Bit(And(v,15), i) = Bit(v,i)*Bit(15,i) BY AndBits, MaskBits
<1>2. /\ Bit(And(v,15), 0) = Bit(v,0) /\ Bit(And(v,15), 1) = Bit(v,1)
      /\ Bit(And(v,15), 2) = Bit(v,2) /\ Bit(And(v,15), 3) = Bit(v,3)
      /\ Bit(And(v,15), 4) = 0 /\ Bit(And(v,15), 5) = 0
      /\ Bit(And(v,15), 6) = 0 /\ Bit(And(v,15), 7) = 0
  BY <1>1, MaskBits, BitRange
<1>3. And(v,15) = Bit(v,0) + 2*Bit(v,1) + 4*Bit(v,2) + 8*Bit(v,3)
  BY <1>1, <1>2, BitRange, SumOfBits
<1> QED BY <1>3, LowDigit
\* AND of A with itself changes nothing: it only clears the carry.
LEMMA AndSelf ==
  ASSUME NEW v \in Byte
  PROVE And(v, v) = v
<1>1. And(v, v) \in Byte /\ \A i \in 0..7 : Bit(And(v,v), i) = Bit(v,i)*Bit(v,i) BY AndBits
<1>2. \A i \in 0..7 : Bit(v,i)*Bit(v,i) = Bit(v,i)
  BY BitRange
<1> QED BY <1>1, <1>2, SameBits
\* XOR of A with itself is 0.
LEMMA XorSelf ==
  ASSUME NEW v \in Byte
  PROVE Xor(v, v) = 0
<1>1. Xor(v, v) \in Byte /\ \A i \in 0..7 : Bit(Xor(v,v), i) = (Bit(v,i)+Bit(v,i)) % 2 BY XorBits
<1>2. \A i \in 0..7 : (Bit(v,i)+Bit(v,i)) % 2 = 0
  BY BitRange
<1> QED BY <1>1, <1>2, SumOfBits
\* OR of A with itself changes nothing: it only clears the carry.
LEMMA OrSelf == ASSUME NEW v \in Byte PROVE Or(v,v) = v
BY AndSelf, XorSelf DEF Or, Byte

\* XOR, AND with the mask and XOR again: the low digit of one byte
\* below the high digit of another.
LEMMA Packing ==
  ASSUME NEW l \in Byte, NEW h \in Byte
  PROVE Xor(And(Xor(l, h), 15), h) = (16 * (h \div 16)) + (l % 16)
<1> DEFINE m == Xor(l, h)
           n == And(m, 15)
<1>1. m \in Byte /\ \A i \in 0..7 : Bit(m, i) = (Bit(l,i)+Bit(h,i)) % 2 BY XorBits
<1> HIDE DEF m
<1>2. n \in Byte /\ \A i \in 0..7 : Bit(n, i) = Bit(m,i)*Bit(15,i) BY <1>1, AndBits, MaskBits
<1> HIDE DEF n
<1>3. \A i \in 0..3 : Bit(n,i) = Bit(m,i)
  <2>1. \A i \in 0..3 : Bit(15, i) = 1 /\ Bit(m,i) \in 0..1 BY MaskBits, <1>1, BitRange
  <2> QED BY <1>2, <2>1
<1>4. \A i \in 4..7 : Bit(n,i) = 0
  <2>1. \A i \in 4..7 : Bit(15, i) = 0 /\ Bit(m,i) \in 0..1 BY MaskBits, <1>1, BitRange
  <2> QED BY <1>2, <2>1
<1>5. Xor(n, h) \in Byte /\ \A i \in 0..7 : Bit(Xor(n,h), i) = (Bit(n,i)+Bit(h,i)) % 2 BY <1>2, XorBits
<1>6. \A i \in 0..3 : Bit(Xor(n,h), i) = Bit(l, i)
  <2>1. \A p \in 0..1, q \in 0..1 : (((p + q) % 2) + q) % 2 = p OBVIOUS
  <2>2. \A i \in 0..3 : Bit(l,i) \in 0..1 /\ Bit(h,i) \in 0..1 BY BitRange
  <2> QED BY <1>1, <1>3, <1>5, <2>1, <2>2
<1>7. \A i \in 4..7 : Bit(Xor(n,h), i) = Bit(h, i)
  <2>2. \A i \in 4..7 : Bit(h,i) \in 0..1 BY BitRange
  <2> QED BY <1>4, <1>5, <2>2
<1>8. Xor(n,h) = (16 * (h \div 16)) + (l % 16)
  <2> DEFINE z == Xor(n, h)
  <2>1. z \in Byte /\ (\A i \in 0..3 : Bit(z, i) = Bit(l, i)) /\ (\A i \in 4..7 : Bit(z, i) = Bit(h, i))
    BY <1>5, <1>6, <1>7
  <2> HIDE DEF z
  <2>2. z = Bit(z,0) + 2*Bit(z,1) + 4*Bit(z,2) + 8*Bit(z,3) + 16*Bit(z,4) + 32*Bit(z,5) + 64*Bit(z,6) + 128*Bit(z,7)
    BY <2>1, SumOfBits
  <2>3. l % 16 = Bit(z,0) + 2*Bit(z,1) + 4*Bit(z,2) + 8*Bit(z,3)
    BY <2>1, LowDigit
  <2>4. h \div 16 = Bit(z,4) + 2*Bit(z,5) + 4*Bit(z,6) + 8*Bit(z,7)
    BY <2>1, HighDigit
  <2>5. \A i \in 0..7 : Bit(z,i) \in Int BY <2>1, BitRange
  <2>6. z = (16 * (h \div 16)) + (l % 16)
    BY <2>2, <2>3, <2>4, <2>5
  <2> QED BY <2>6 DEF z
<1> QED BY <1>8 DEF m, n

-----------------------------------------------------------------------------
(* The ALU, DAA and the rotations                                          *)

\* The ALU returns a byte and four flags.
LEMMA AluType ==
  ASSUME NEW a \in Byte, NEW b \in Byte, NEW s \in 0..1, NEW c \in 0..1
  PROVE  RunAlu(a, b, s, c).value \in Byte /\ RunAlu(a, b, s, c).flags \in FlagsType
<1>1. RunAlu(a, b, s, c).value \in Byte BY DEF RunAlu, Byte
<1>2. \A cond : Flag(cond) \in 0..1 BY DEF Flag
<1> QED BY <1>1, <1>2 DEF RunAlu, Flags, FlagsType

\* An addition: value and carry make the sum.
LEMMA Adding ==
  ASSUME NEW a \in Byte, NEW b \in Byte, NEW c \in 0..1
  PROVE  LET result == RunAlu(a, b, 0, c)
         IN  /\ result.value + (256 * result.flags.carry) = a + b + c
             /\ result.flags.half_carry = Flag(Ones(a) + Ones(b) + c > 15)
             /\ result.flags.subtract = 0
             /\ result.flags.zero = Flag(result.value = 0)
BY DEF RunAlu, Flags, Flag, Byte, Ones

\* A subtraction by the complement: value and borrow make the difference.
LEMMA Subtracting ==
  ASSUME NEW a \in Byte, NEW b \in Byte, NEW c \in 0..1
  PROVE  LET result == RunAlu(a, b, 1, c)
         IN  /\ result.value - (256 * result.flags.carry) = a - (b + c)
             /\ result.flags.half_carry = Flag(Ones(a) < Ones(b) + c)
             /\ result.flags.subtract = 1
             /\ result.flags.zero = Flag(result.value = 0)
BY DEF RunAlu, Flags, Flag, Byte, Ones

\* DAA, case by case
LEMMA DaaIs ==
  ASSUME NEW a \in Byte, NEW fl \in FlagsType
  PROVE  LET add   == fl.subtract = 0
             low   == fl.half_carry = 1 \/ (add /\ a % 16 > 9)
             high  == fl.carry = 1 \/ (add /\ a > 153)
             fix == (IF low THEN 6 ELSE 0) + (IF high THEN 96 ELSE 0)
         IN  /\ Daa(a, fl).value = IF add THEN (a + fix) % 256 ELSE (a - fix) % 256
             /\ Daa(a, fl).flags.carry = Flag(high)
BY DEF Daa, Flags, RunAlu, FlagsType, Byte


\* A byte whose halves are decimal digits is the one of these digits.
LEMMA BcdDigits ==
  ASSUME NEW v \in Byte, IsBcd(v)
  PROVE  /\ Tens(v) \in 0..9 /\ Ones(v) \in 0..9 /\ v = (16 * Tens(v)) + Ones(v)
         /\ Bcd(v) = (10 * Tens(v)) + Ones(v)
BY DEF Tens, Ones, IsBcd, Bcd, Byte

\* Two decimal digits make a byte in BCD.
LEMMA BcdOfDigits ==
  ASSUME NEW v, NEW t \in 0..9, NEW o \in 0..9, v = (16 * t) + o
  PROVE  v \in Byte /\ IsBcd(v) /\ Bcd(v) = (10 * t) + o
BY DEF Tens, Ones, IsBcd, Bcd, Byte

\* DAA after an addition of BCD bytes: value and carry make their sum.
LEMMA DaaAdds ==
  ASSUME NEW a \in Byte, NEW b \in Byte, NEW c \in 0..1, IsBcd(a), IsBcd(b)
  PROVE  LET result == RunAlu(a, b, 0, c)
             fixed  == Daa(result.value, result.flags)
         IN  /\ fixed.value \in Byte /\ IsBcd(fixed.value)
             /\ Bcd(fixed.value) + (100 * fixed.flags.carry) = Bcd(a) + Bcd(b) + c
<1> DEFINE s == RunAlu(a, b, 0, c).value
           k == RunAlu(a, b, 0, c).flags
           ones == Ones(a) + Ones(b) + c
           tens == Tens(a) + Tens(b)
           d == Daa(s, k).value
           cc == Daa(s,k).flags.carry
<1>1. s \in Byte /\ k \in FlagsType
      /\ s + (256 * k.carry) = a + b + c /\ k.subtract = 0 /\ k.half_carry = Flag(ones > 15)
  BY AluType, Adding
<1>2. /\ ones \in 0..19 /\ tens \in 0..18 /\ a + b + c = (16 * tens) + ones
      /\ Bcd(a) + Bcd(b) + c = (10 * tens) + ones
  <2>1. /\ Tens(a) \in 0..9 /\ Ones(a) \in 0..9 /\ a = (16 * Tens(a)) + Ones(a)
        /\ Bcd(a) = (10 * Tens(a)) + Ones(a)
    BY BcdDigits
  <2>2. /\ Tens(b) \in 0..9 /\ Ones(b) \in 0..9 /\ b = (16 * Tens(b)) + Ones(b)
        /\ Bcd(b) = (10 * Tens(b)) + Ones(b)
    BY BcdDigits
  <2>3. ones \in 0..19 /\ tens \in 0..18 BY <2>1, <2>2
  <2>4. a + b + c = (16 * tens) + ones BY <2>1, <2>2
  <2>5. Bcd(a) + Bcd(b) + c = (10 * tens) + ones BY <2>1, <2>2
  <2> QED BY <2>3, <2>4, <2>5
<1> HIDE DEF s, k, ones, tens
<1>3. s \in 0..255 /\ k.carry \in 0..1 /\ s + (256 * k.carry) = (16 * tens) + ones
  BY <1>1, <1>2 DEF FlagsType, Byte
<1>4. (k.half_carry = 1 \/ s % 16 > 9) <=> ones > 9
  <2>1. s % 16 = ones % 16 BY <1>2, <1>3
  <2> QED BY <1>1, <1>2, <2>1 DEF Flag
<1>5. (k.carry = 1 \/ s > 153) <=> (16 * tens) + ones > 153
  <2>1. (16 * tens) + ones <= 307 BY <1>2
  <2>2. k.carry = 1 => (16 * tens) + ones >= 256 BY <1>3
  <2> QED BY <1>2, <1>3, <2>1, <2>2
<1>6. /\ d = (s + ((IF ones > 9 THEN 6 ELSE 0) + (IF (16 * tens) + ones > 153 THEN 96 ELSE 0))) % 256
      /\ cc = Flag((16 * tens) + ones > 153)
  <2>1. /\ d = (s + ((IF k.half_carry = 1 \/ s % 16 > 9 THEN 6 ELSE 0)
                     + (IF k.carry = 1 \/ s > 153 THEN 96 ELSE 0))) % 256
        /\ cc = Flag(k.carry = 1 \/ s > 153)
    BY <1>1, DaaIs
  <2> HIDE DEF d, cc
  <2> QED BY <1>4, <1>5, <2>1
<1>7. PICK t \in 0..9, o \in 0..9 : d = (16 * t) + o /\ (10 * t) + o + (100 * cc) = (10 * tens) + ones
  <2> HIDE DEF d, cc
  <2>1. CASE ones <= 9 /\ tens <= 9
    <3>1. d = s % 256 /\ cc = 0 BY <2>1, <1>2, <1>3, <1>6 DEF Flag
    <3>2. s = (16 * tens) + ones BY <2>1, <1>3, <1>2
    <3>3. (16 * tens) + ones \in 0..255 BY <2>1, <1>2
    <3>4. d = (16 * tens) + ones BY <3>1, <3>2, <3>3
    <3> QED BY <2>1, <3>1, <3>4, <1>2
  <2>2. CASE ones > 9 /\ tens < 9
    <3>1. d = (s + 6) % 256 /\ cc = 0 BY <2>2, <1>2, <1>6 DEF Flag
    <3>2. s + 6 = (16 * (tens + 1)) + (ones - 10) BY <2>2, <1>3, <1>2
    <3>3. (16 * (tens + 1)) + (ones - 10) \in 0..255 BY <2>2, <1>2
    <3>4. d = (16 * (tens + 1)) + (ones - 10) BY <3>1, <3>2, <3>3
    <3> QED BY <2>2, <3>1, <3>4, <1>2
  <2>3. CASE ones <= 9 /\ tens > 9
    <3>1. d = (s + 96) % 256 /\ cc = 1 BY <2>3, <1>2, <1>6 DEF Flag
    <3>2. s + 96 = (16 * (tens - 10)) + ones \/ s + 96 = (16 * (tens - 10)) + ones + 256
      BY <1>3, <1>2
    <3>3. (16 * (tens - 10)) + ones \in 0..255 BY <2>3, <1>2
    <3>4. d = (16 * (tens - 10)) + ones BY <3>1, <3>2, <3>3
    <3> QED BY <2>3, <3>1, <3>4, <1>2
  <2>4. CASE ones > 9 /\ tens >= 9
    <3>1. d = (s + 102) % 256 /\ cc = 1 BY <2>4, <1>2, <1>6 DEF Flag
    <3>2. s + 102 = (16 * (tens - 9)) + (ones - 10) \/ s + 102 = (16 * (tens - 9)) + (ones - 10) + 256
      BY <1>3, <1>2
    <3>3. (16 * (tens - 9)) + (ones - 10) \in 0..255 BY <2>4, <1>2
    <3>4. d = (16 * (tens - 9)) + (ones - 10) BY <3>1, <3>2, <3>3
    <3> QED BY <2>4, <3>1, <3>4, <1>2
  <2> QED BY <1>2, <2>1, <2>2, <2>3, <2>4
<1>8. d \in Byte /\ IsBcd(d) /\ Bcd(d) = (10 * t) + o
  BY <1>7, BcdOfDigits
<1> HIDE DEF d, cc
<1>9. cc \in 0..1 BY <1>6 DEF Flag
<1>10. Bcd(d) + (100 * cc) = Bcd(a) + Bcd(b) + c BY <1>2, <1>7, <1>8, <1>9
<1> QED BY <1>8, <1>10 DEF d, cc, s, k

\* DAA after a subtraction of BCD bytes: value and borrow make their
\* difference.
LEMMA DaaSubtracts ==
  ASSUME NEW a \in Byte, NEW b \in Byte, NEW c \in 0..1, IsBcd(a), IsBcd(b)
  PROVE  LET result == RunAlu(a, b, 1, c)
             fixed  == Daa(result.value, result.flags)
         IN  /\ fixed.value \in Byte /\ IsBcd(fixed.value)
             /\ Bcd(fixed.value) - (100 * fixed.flags.carry) = Bcd(a) - (Bcd(b) + c)
<1> DEFINE s == RunAlu(a, b, 1, c).value
           k == RunAlu(a, b, 1, c).flags
           ones == Ones(a) - (Ones(b) + c)
           tens == Tens(a) - Tens(b)
           d == Daa(s, k).value
           cc == Daa(s,k).flags.carry
<1>1. s \in Byte /\ k \in FlagsType
      /\ s - (256 * k.carry) = a - (b + c) /\ k.subtract = 1
      /\ k.half_carry = Flag(Ones(a) < Ones(b) + c)
  <2>1. s \in Byte /\ k \in FlagsType BY AluType
  <2>2. s - (256 * k.carry) = a - (b + c)
    BY Subtracting
  <2>3. k.subtract = 1 /\ k.half_carry = Flag(Ones(a) < Ones(b) + c)
    BY Subtracting
  <2> QED BY <2>1, <2>2, <2>3
<1>2. /\ ones \in Int
      /\ -10 <= ones
      /\ ones <= 9
      /\ tens \in Int
      /\ -9 <= tens
      /\ tens <= 9
      /\ a - (b + c) = (16 * tens) + ones
      /\ Bcd(a) - (Bcd(b) + c) = (10 * tens) + ones
      /\ (Ones(a) < Ones(b) + c) <=> ones < 0
  <2>1. PICK a1 \in 0..9, a0 \in 0..9 :
            Tens(a) = a1 /\ Ones(a) = a0 /\ a = (16 * a1) + a0 /\ Bcd(a) = (10 * a1) + a0
    BY BcdDigits
  <2>2. PICK b1 \in 0..9, b0 \in 0..9 :
            Tens(b) = b1 /\ Ones(b) = b0 /\ b = (16 * b1) + b0 /\ Bcd(b) = (10 * b1) + b0
    BY BcdDigits
  <2>3. ones = a0 - (b0 + c) /\ tens = a1 - b1 BY <2>1, <2>2
  <2>4. (Ones(a) < Ones(b) + c) <=> ones < 0 BY <2>1, <2>2
  <2> HIDE DEF ones, tens
  <2>5. ones \in Int /\ -10 <= ones /\ ones <= 9 /\ tens \in Int /\ -9 <= tens /\ tens <= 9 BY <2>3
  <2>6. a - (b + c) = (16 * tens) + ones BY <2>1, <2>2, <2>3
  <2>7. Bcd(a) - (Bcd(b) + c) = (10 * tens) + ones BY <2>1, <2>2, <2>3
  <2> QED BY <2>4, <2>5, <2>6, <2>7
<1> HIDE DEF s, k, ones, tens
<1>3. s \in 0..255 /\ k.carry \in 0..1 /\ s - (256 * k.carry) = (16 * tens) + ones
  BY <1>1, <1>2 DEF FlagsType, Byte
<1>4. k.half_carry = 1 <=> ones < 0
  BY <1>1, <1>2 DEF Flag
<1>5. k.carry = 1 <=> (16 * tens) + ones < 0
  BY <1>2, <1>3
<1>6. /\ d = (s - ((IF ones < 0 THEN 6 ELSE 0) + (IF (16 * tens) + ones < 0 THEN 96 ELSE 0))) % 256
      /\ cc = Flag((16 * tens) + ones < 0)
  <2>1. /\ d = (s - ((IF k.half_carry = 1 THEN 6 ELSE 0)
                     + (IF k.carry = 1 THEN 96 ELSE 0))) % 256
        /\ cc = Flag(k.carry = 1)
    BY <1>1, DaaIs
  <2> HIDE DEF d, cc
  <2> QED BY <1>4, <1>5, <2>1
<1>7. PICK t \in 0..9, o \in 0..9 : d = (16 * t) + o /\ ((10 * t) + o) - (100 * cc) = (10 * tens) + ones
  <2> HIDE DEF d, cc
  <2>1. CASE ones >= 0 /\ tens >= 0
    <3>1. d = s % 256 /\ cc = 0 BY <2>1, <1>2, <1>3, <1>6 DEF Flag
    <3>3. s = (16 * tens) + ones BY <2>1, <1>2, <1>3, <1>5
    <3>2. d = (16 * tens) + ones BY <1>3, <3>1, <3>3
    <3> QED BY <2>1, <3>1, <3>2, <1>2
  <2>2. CASE ones < 0 /\ tens > 0
    <3>1. d = (s - 6) % 256 /\ cc = 0 BY <2>2, <1>2, <1>6 DEF Flag
    <3>2. s - 6 = (16 * (tens - 1)) + (ones + 10) BY <2>2, <1>2, <1>3, <1>5
    <3>3. (16 * (tens - 1)) + (ones + 10) \in 0..255 BY <2>2, <1>2
    <3>4. d = (16 * (tens - 1)) + (ones + 10) BY <3>1, <3>2, <3>3
    <3> QED BY <2>2, <3>1, <3>4, <1>2
  <2>3. CASE ones >= 0 /\ tens < 0
    <3>1. d = (s - 96) % 256 /\ cc = 1 BY <2>3, <1>2, <1>6 DEF Flag
    <3>2. s - 96 = (16 * (tens + 10)) + ones BY <2>3, <1>2, <1>3, <1>5
    <3>3. (16 * (tens + 10)) + ones \in 0..255 BY <2>3, <1>2
    <3>4. d = (16 * (tens + 10)) + ones BY <3>1, <3>2, <3>3
    <3> QED BY <2>3, <3>1, <3>4, <1>2
  <2>4. CASE ones < 0 /\ tens <= 0
    <3>1. d = (s - 102) % 256 /\ cc = 1 BY <2>4, <1>2, <1>6 DEF Flag
    <3>2. s - 102 = (16 * (tens + 9)) + (ones + 10) BY <2>4, <1>2, <1>3, <1>5
    <3>3. (16 * (tens + 9)) + (ones + 10) \in 0..255 BY <2>4, <1>2
    <3>4. d = (16 * (tens + 9)) + (ones + 10) BY <3>1, <3>2, <3>3
    <3> QED BY <2>4, <3>1, <3>4, <1>2
  <2> QED BY <1>2, <2>1, <2>2, <2>3, <2>4
<1>8. d \in Byte /\ IsBcd(d) /\ Bcd(d) = (10 * t) + o
  BY <1>7, BcdOfDigits
<1> HIDE DEF d, cc
<1>9. cc \in 0..1 BY <1>6 DEF Flag
<1>10. Bcd(d) - (100 * cc) = Bcd(a) - (Bcd(b) + c) BY <1>2, <1>7, <1>8, <1>9
<1> QED BY <1>8, <1>10 DEF d, cc, s, k

\* A number in BCD is a pair of bytes in BCD.
LEMMA DecimalIs ==
  ASSUME NEW h \in Byte, NEW l \in Byte, NEW v, v = (256 * h) + l
  PROVE  /\ IsDecimal(v) <=> (IsBcd(h) /\ IsBcd(l))
         /\ Decimal(v) = (100 * Bcd(h)) + Bcd(l)
<1>1. /\ v \div 4096 = Tens(h) /\ (v \div 256) % 16 = Ones(h)
      /\ (v \div 16) % 16 = Tens(l) /\ v % 16 = Ones(l)
  <2>1. v \div 256 = h /\ v \div 4096 = h \div 16 BY DEF Byte
  <2>2. v \div 16 = (16 * h) + (l \div 16) /\ l \div 16 \in 0..15 BY DEF Byte
  <2>3. (v \div 16) % 16 = l \div 16 BY <2>2 DEF Byte
  <2>4. v % 16 = l % 16 BY DEF Byte
  <2> QED BY <2>1, <2>3, <2>4 DEF Tens, Ones
<1>2. /\ Digits(v)[1] = Tens(h)
      /\ Digits(v)[2] = Ones(h)
      /\ Digits(v)[3] = Tens(l)
      /\ Digits(v)[4] = Ones(l)
  BY <1>1 DEF Digits
<1>3. Tens(h) \in Int /\ Ones(h) \in Int /\ Tens(l) \in Int /\ Ones(l) \in Int
  BY DEF Tens, Ones, Byte
<1>4. IsDecimal(v) <=> (IsBcd(h) /\ IsBcd(l))
  BY <1>2 DEF IsDecimal, IsBcd
<1>5. Decimal(v) = (100 * Bcd(h)) + Bcd(l)
  BY <1>2, <1>3 DEF Decimal, Bcd
<1> QED BY <1>4, <1>5

\* The carry of a subtraction is its borrow.
LEMMA Borrows ==
  ASSUME NEW a \in Byte, NEW b \in Byte
  PROVE  RunAlu(a, b, 1, 0).flags.carry = Flag(a < b)
BY DEF RunAlu, Flags, Flag, Byte

\* DAA returns a byte and four flags.
LEMMA DaaType ==
  ASSUME NEW a \in Byte, NEW fl \in FlagsType
  PROVE  Daa(a, fl).value \in Byte /\ Daa(a, fl).flags \in FlagsType
<1>1. fl.subtract \in 0..1 BY DEF FlagsType
<1>2. \A low, high \in BOOLEAN : (IF low THEN 6 ELSE 0) + (IF high THEN 96 ELSE 0) \in Byte
  BY DEF Byte
<1>3. \A b \in Byte : RunAlu(a, b, fl.subtract, 0).value \in Byte
                       /\ RunAlu(a, b, fl.subtract, 0).flags \in FlagsType
  BY <1>1, AluType
<1>4. \A cond : Flag(cond) \in 0..1 BY DEF Flag
<1>5. PICK b \in Byte, high \in BOOLEAN :
         /\ Daa(a, fl).value = RunAlu(a, b, fl.subtract, 0).value
         /\ Daa(a, fl).flags = Flags(Flag(high), 0, fl.subtract, RunAlu(a, b, fl.subtract, 0).flags.zero)
  BY <1>2 DEF Daa
<1>6. RunAlu(a, b, fl.subtract, 0).flags.zero \in 0..1
  BY <1>3 DEF FlagsType
<1> QED BY <1>1, <1>3, <1>4, <1>5, <1>6 DEF Flags, FlagsType

\* RL: carry and value make twice the byte, plus the carry that enters.
LEMMA RlIs ==
  ASSUME NEW v \in Byte, NEW c \in 0..1
  PROVE  Rotated("rl", v, c)[1] + (256 * Rotated("rl", v, c)[2]) = (2 * v) + c
BY DEF Rotated, Left, Right, Byte

\* RR, the same to the right
LEMMA RrIs ==
  ASSUME NEW v \in Byte, NEW c \in 0..1
  PROVE  (2 * Rotated("rr", v, c)[1]) + Rotated("rr", v, c)[2] = v + (256 * c)
BY DEF Rotated, Left, Right, Byte

\* RLC turns a byte around,
LEMMA RlcIs ==
  \A v, c : Rotated("rlc", v, c)[1] = RotatedLeft(v)
BY DEF Rotated, Left, Right, RotatedLeft

\* and RRC turns it back.
LEMMA RrcIs ==
  \A v \in Byte : \A c : Rotated("rrc", RotatedLeft(v), c)[1] = v
<1> SUFFICES ASSUME NEW v \in Byte, NEW c PROVE Rotated("rrc", RotatedLeft(v), c)[1] = v
  OBVIOUS
<1>1. RotatedLeft(v) \div 2 = v % 128 /\ RotatedLeft(v) % 2 = v \div 128
  BY DEF RotatedLeft, Byte
<1> QED BY <1>1 DEF Rotated, Left, Right, Byte

\* Swapping the digits twice changes nothing; they change places.
LEMMA SwappedTwice ==
  ASSUME NEW v \in Byte
  PROVE  Swapped(v) \in Byte /\ Swapped(v) % 16 = v \div 16 /\ Swapped(v) \div 16 = v % 16
BY DEF Swapped, Byte

\* The carry of the low bytes makes sums of bytes a sum of words.
LEMMA SumOfWords ==
  ASSUME NEW sum \in Nat, sum <= 131070
  PROVE  LET h == (sum % 65536) \div 256
             l == sum % 256
         IN  /\ h \in Byte /\ l \in Byte
             /\ (65536 * Flag(sum > 65535)) + ((256 * h) + l) = sum
<1> DEFINE w == sum % 65536
           h == w \div 256
           l == sum % 256
<1>1. w \in Nat /\ w <= 65535 /\ (65536 * Flag(sum > 65535)) + w = sum
  BY DEF Flag
<1>2. l = w % 256
  <2>1. CASE sum <= 65535
    <3>1. w = sum BY <2>1
    <3> QED BY <3>1
  <2>2. CASE sum > 65535
    <3>1. sum = w + (256 * 256) BY <2>2
    <3> HIDE DEF w
    <3> QED BY <1>1, <3>1
  <2> QED BY <2>1, <2>2
<1> HIDE DEF w
<1>3. h \in Byte /\ w % 256 \in Byte /\ w = (256 * h) + (w % 256)
  BY <1>1 DEF Byte
<1> QED BY <1>1, <1>2, <1>3 DEF w

-----------------------------------------------------------------------------
(* What each instruction does                                              *)

\* ld r, r: one register changes, and no flag.
LEMMA LoadDoes ==
  ASSUME CpuTyped, NEW d \in Registers, NEW s \in Registers, Instruct("ld", d, s)
  PROVE  r'[d] = r[s] /\ Keeps(d) /\ f' = f /\ CpuTyped'
<1>1. r' = [r EXCEPT ![d] = r[s]] /\ f' = f
  BY DEF Instruct, Sums, Logic, Left, Right, OfA, ForA
<1> QED BY <1>1 DEF CpuTyped, Keeps

\* add, adc, sub, sbc: A and the flags are those of the ALU.
LEMMA SumDoes ==
  ASSUME CpuTyped, NEW op \in {"add", "adc", "sub", "sbc"}, NEW d, NEW s \in Registers,
         Instruct(op, d, s)
  PROVE  LET carry_in == IF op \in {"adc", "sbc"} THEN f.carry ELSE 0
             result == RunAlu(r["A"], r[s], Flag(op \in {"sub", "sbc"}), carry_in)
         IN  r'["A"] = result.value /\ f' = result.flags /\ Keeps("A") /\ CpuTyped'
<1> DEFINE carry_in == IF op \in {"adc", "sbc"} THEN f.carry ELSE 0
           result == RunAlu(r["A"], r[s], Flag(op \in {"sub", "sbc"}), carry_in)
<1>1. Sum(op, r[s])
  BY DEF Instruct, Sums, Logic, Left, Right, OfA, ForA
<1>2. r' = [r EXCEPT !["A"] = result.value] /\ f' = result.flags
  <2>1. op # "cp" /\ Flag(op \in {"sub", "sbc", "cp"}) = Flag(op \in {"sub", "sbc"})
    BY DEF Flag
  <2> QED BY <1>1, <2>1 DEF Sum
<1>3. result.value \in Byte /\ result.flags \in FlagsType
  <2>1. carry_in \in 0..1 /\ Flag(op \in {"sub", "sbc"}) \in 0..1
    BY DEF CpuTyped, FlagsType, Flag
  <2>2. r["A"] \in Byte /\ r[s] \in Byte
    BY DEF CpuTyped, Registers
  <2> QED BY <2>1, <2>2, AluType
<1> HIDE DEF result
<1>4. r'["A"] = result.value /\ Keeps("A") /\ CpuTyped'
  BY <1>2, <1>3 DEF CpuTyped, Keeps, Registers
<1> QED BY <1>2, <1>4 DEF result

\* add: A and the carry make the sum.
LEMMA AddDoes ==
  ASSUME CpuTyped, NEW d, NEW s \in Registers, Instruct("add", d, s)
  PROVE  /\ FromAluNext(r["A"], r[s], 0, 0)
         /\ r'["A"] + (256 * f'.carry) = r["A"] + r[s]
         /\ Keeps("A") /\ CpuTyped'
<1>1. FromAluNext(r["A"], r[s], 0, 0) /\ Keeps("A") /\ CpuTyped'
  BY SumDoes DEF FromAluNext, Flag
<1>2. r["A"] \in Byte /\ r[s] \in Byte BY DEF CpuTyped, Registers
<1> DEFINE result == RunAlu(r["A"], r[s], 0, 0)
<1>3. result.value + (256 * result.flags.carry) = (r["A"] + r[s]) + 0
  BY <1>2, Adding
<1>4. r'["A"] = result.value /\ f'.carry = result.flags.carry
  BY <1>1 DEF FromAluNext
<1> HIDE DEF result
<1>5. r'["A"] + (256 * f'.carry) = (r["A"] + r[s]) + 0
  BY <1>3, <1>4
<1>6. \A u \in Byte, v \in Byte : (u + v) + 0 = u + v
  BY DEF Byte
<1> QED BY <1>1, <1>2, <1>5, <1>6

\* adc: the carry that was is added.
LEMMA AdcDoes ==
  ASSUME CpuTyped, NEW d, NEW s \in Registers, Instruct("adc", d, s)
  PROVE  /\ FromAluNext(r["A"], r[s], 0, f.carry)
         /\ r'["A"] + (256 * f'.carry) = (r["A"] + r[s]) + f.carry
         /\ Keeps("A") /\ CpuTyped'
<1>1. FromAluNext(r["A"], r[s], 0, f.carry) /\ Keeps("A") /\ CpuTyped'
  BY SumDoes DEF FromAluNext, Flag
<1>2. r["A"] \in Byte /\ r[s] \in Byte /\ f.carry \in 0..1
  BY DEF CpuTyped, Registers, FlagsType
<1> DEFINE result == RunAlu(r["A"], r[s], 0, f.carry)
<1>3. result.value + (256 * result.flags.carry) = (r["A"] + r[s]) + f.carry
  BY <1>2, Adding
<1>4. r'["A"] = result.value /\ f'.carry = result.flags.carry
  BY <1>1 DEF FromAluNext
<1> HIDE DEF result
<1>5. r'["A"] + (256 * f'.carry) = (r["A"] + r[s]) + f.carry
  BY <1>3, <1>4
<1> QED BY <1>1, <1>2, <1>5

\* sub: A and the borrow make the difference.
LEMMA SubDoes ==
  ASSUME CpuTyped, NEW d, NEW s \in Registers, Instruct("sub", d, s)
  PROVE  /\ FromAluNext(r["A"], r[s], 1, 0)
         /\ r'["A"] - (256 * f'.carry) = r["A"] - r[s]
         /\ Keeps("A") /\ CpuTyped'
<1>1. FromAluNext(r["A"], r[s], 1, 0) /\ Keeps("A") /\ CpuTyped'
  BY SumDoes DEF FromAluNext, Flag
<1>2. r["A"] \in Byte /\ r[s] \in Byte BY DEF CpuTyped, Registers
<1> DEFINE result == RunAlu(r["A"], r[s], 1, 0)
<1>3. result.value - (256 * result.flags.carry) = r["A"] - (r[s] + 0)
  <2>1. 0 \in 0..1 OBVIOUS
  <2> QED BY <1>2, <2>1, Subtracting
<1>4. r'["A"] = result.value /\ f'.carry = result.flags.carry
  BY <1>1 DEF FromAluNext
<1> HIDE DEF result
<1>5. r'["A"] - (256 * f'.carry) = r["A"] - (r[s] + 0)
  BY <1>3, <1>4
<1>6. \A u \in Byte, v \in Byte : u - (v + 0) = u - v
  BY DEF Byte
<1> QED BY <1>1, <1>2, <1>5, <1>6

\* sbc: the borrow that was is subtracted.
LEMMA SbcDoes ==
  ASSUME CpuTyped, NEW d, NEW s \in Registers, Instruct("sbc", d, s)
  PROVE  /\ FromAluNext(r["A"], r[s], 1, f.carry)
         /\ r'["A"] - (256 * f'.carry) = r["A"] - (r[s] + f.carry)
         /\ Keeps("A") /\ CpuTyped'
<1>1. FromAluNext(r["A"], r[s], 1, f.carry) /\ Keeps("A") /\ CpuTyped'
  BY SumDoes DEF FromAluNext, Flag
<1>2. r["A"] \in Byte /\ r[s] \in Byte /\ f.carry \in 0..1
  BY DEF CpuTyped, Registers, FlagsType
<1> DEFINE result == RunAlu(r["A"], r[s], 1, f.carry)
<1>3. result.value - (256 * result.flags.carry) = r["A"] - (r[s] + f.carry)
  BY <1>2, Subtracting
<1>4. r'["A"] = result.value /\ f'.carry = result.flags.carry
  BY <1>1 DEF FromAluNext
<1> HIDE DEF result
<1>5. r'["A"] - (256 * f'.carry) = r["A"] - (r[s] + f.carry)
  BY <1>3, <1>4
<1> QED BY <1>1, <1>2, <1>5

\* cp: only the borrow of sub
LEMMA CpDoes ==
  ASSUME CpuTyped, NEW d, NEW s \in Registers, Instruct("cp", d, s)
  PROVE  r' = r /\ f'.carry = Flag(r["A"] < r[s]) /\ CpuTyped'
<1>1. Sum("cp", r[s])
  BY DEF Instruct, Sums, Logic, Left, Right, OfA, ForA
<1>2. r' = r /\ f' = RunAlu(r["A"], r[s], 1, 0).flags
  BY <1>1 DEF Sum, Flag
<1>3. r["A"] \in Byte /\ r[s] \in Byte BY DEF CpuTyped, Registers
<1>4. f' \in FlagsType BY <1>2, <1>3, AluType
<1>5. RunAlu(r["A"], r[s], 1, 0).flags.carry = Flag(r["A"] < r[s])
  BY <1>3, Borrows
<1> QED BY <1>2, <1>4, <1>5 DEF CpuTyped

\* and, or, xor: A changes, and the carry is cleared.
LEMMA CombineDoes ==
  ASSUME CpuTyped, NEW op \in Logic, NEW d, NEW s \in Registers, Instruct(op, d, s),
         NEW v \in Byte,
         op = "and" => v = And(r["A"], r[s]),
         op = "or" => v = Or(r["A"], r[s]),
         op = "xor" => v = Xor(r["A"], r[s])
  PROVE  r'["A"] = v /\ f'.carry = 0 /\ Keeps("A") /\ CpuTyped'
<1>1. Combine(op, r[s])
  BY DEF Instruct, Sums, Logic, Left, Right, OfA, ForA
<1>2. r' = [r EXCEPT !["A"] = v] /\ f' = Flags(0, Flag(op = "and"), 0, Flag(v = 0))
  BY <1>1 DEF Combine, Logic
<1>3. r'["A"] = v /\ Keeps("A") /\ r' \in [Registers -> Byte]
  BY <1>2 DEF CpuTyped, Keeps, Registers
<1>4. f' \in FlagsType /\ f'.carry = 0
  BY <1>2 DEF Flags, Flag, FlagsType
<1> QED BY <1>3, <1>4 DEF CpuTyped

\* inc, dec: one register changes, but not the carry.
LEMMA StepDoes ==
  ASSUME CpuTyped, NEW op \in {"inc", "dec"}, NEW d \in Registers, NEW s, Instruct(op, d, s)
  PROVE  /\ r'[d] = (r[d] + (IF op = "inc" THEN 1 ELSE -1)) % 256
         /\ f'.carry = f.carry /\ f'.zero = Flag(r'[d] = 0)
         /\ Keeps(d) /\ CpuTyped'
<1> DEFINE v == (r[d] + (IF op = "inc" THEN 1 ELSE -1)) % 256
<1>1. Step(op, d)
  BY DEF Instruct, Sums, Logic, Left, Right, OfA, ForA
<1>2. /\ r' = [r EXCEPT ![d] = v]
      /\ f' = Flags(f.carry, Flag(v % 16 = IF op = "inc" THEN 0 ELSE 15), Flag(op = "dec"), Flag(v = 0))
  BY <1>1 DEF Step
<1>3. v \in Byte BY DEF CpuTyped, Byte
<1> HIDE DEF v
<1>4. r'[d] = v /\ Keeps(d) /\ r' \in [Registers -> Byte]
  BY <1>2, <1>3 DEF CpuTyped, Keeps
<1>5. f' \in FlagsType /\ f'.carry = f.carry /\ f'.zero = Flag(v = 0)
  BY <1>2 DEF Flags, Flag, FlagsType, CpuTyped
<1> QED BY <1>4, <1>5 DEF CpuTyped, v

\* A rotated byte is a byte, and its carry a bit.
LEMMA RotatedType ==
  ASSUME NEW op \in Left \cup Right, NEW v \in Byte, NEW c \in 0..1
  PROVE  Rotated(op, v, c)[1] \in Byte /\ Rotated(op, v, c)[2] \in 0..1
<1>1. v \div 128 \in 0..1 /\ v % 2 \in 0..1 /\ v \div 2 \in 0..127
  BY DEF Byte
<1>2. (2 * v) % 256 \in 0..254
  BY DEF Byte
<1>3. \A e \in 0..1 : ((2 * v) % 256) + e \in Byte /\ (v \div 2) + (128 * e) \in Byte
  BY <1>1, <1>2 DEF Byte
<1> QED BY <1>1, <1>3 DEF Rotated, Left, Right

\* Rotates and shifts: one register and the carry change,
LEMMA ShiftDoes ==
  ASSUME CpuTyped, NEW op \in Left \cup Right, NEW d \in Registers, NEW prefixed \in BOOLEAN,
         Shift(op, d, prefixed)
  PROVE  /\ r'[d] = Rotated(op, r[d], f.carry)[1] /\ f'.carry = Rotated(op, r[d], f.carry)[2]
         /\ Keeps(d) /\ CpuTyped'
<1> DEFINE v == Rotated(op, r[d], f.carry)[1]
           c == Rotated(op, r[d], f.carry)[2]
<1>1. v \in Byte /\ c \in 0..1
  BY RotatedType DEF CpuTyped, FlagsType
<1>2. r' = [r EXCEPT ![d] = v] /\ f' = Flags(c, 0, 0, Flag(prefixed /\ v = 0))
  BY DEF Shift
<1> HIDE DEF v, c
<1>3. r'[d] = v /\ Keeps(d) /\ r' \in [Registers -> Byte]
  BY <1>1, <1>2 DEF CpuTyped, Keeps
<1>4. f' \in FlagsType /\ f'.carry = c
  BY <1>1, <1>2 DEF Flags, Flag, FlagsType
<1> QED BY <1>3, <1>4 DEF CpuTyped, v, c

\* with the prefix
LEMMA ShiftPrefixed ==
  ASSUME NEW op \in Left \cup Right, NEW d, NEW s, Instruct(op, d, s)
  PROVE  Shift(op, d, TRUE)
BY DEF Instruct, Sums, Logic, Left, Right, OfA, ForA

\* and without it.
LEMMA ShiftOfA ==
  ASSUME NEW op \in DOMAIN OfA, NEW d, NEW s, Instruct(op, d, s)
  PROVE  Shift(OfA[op], "A", FALSE)
BY DEF Instruct, Sums, Logic, Left, Right, OfA, ForA

\* sla: carry and value make twice the byte.
LEMMA SlaDoes ==
  ASSUME CpuTyped, NEW d \in Registers, NEW s, Instruct("sla", d, s)
  PROVE  r'[d] + (256 * f'.carry) = 2 * r[d] /\ Keeps(d) /\ CpuTyped'
<1>1. r[d] \in Byte /\ "sla" \in Left \cup Right BY DEF CpuTyped, Left, Right
<1>2. Shift("sla", d, TRUE) BY <1>1, ShiftPrefixed
<1>3. /\ r'[d] = Rotated("sla", r[d], f.carry)[1] /\ f'.carry = Rotated("sla", r[d], f.carry)[2]
      /\ Keeps(d) /\ CpuTyped'
  BY <1>1, <1>2, ShiftDoes
<1>4. \A v \in Byte : \A c : Rotated("sla", v, c)[1] + (256 * Rotated("sla", v, c)[2]) = 2 * v
  BY DEF Rotated, Left, Right, Byte
<1> QED BY <1>1, <1>3, <1>4

\* rl: the carry enters below.
LEMMA RlDoes ==
  ASSUME CpuTyped, NEW d \in Registers, NEW s, Instruct("rl", d, s)
  PROVE  r'[d] + (256 * f'.carry) = (2 * r[d]) + f.carry /\ Keeps(d) /\ CpuTyped'
<1>1. r[d] \in Byte /\ f.carry \in 0..1 /\ "rl" \in Left \cup Right
  BY DEF CpuTyped, FlagsType, Left, Right
<1>2. Shift("rl", d, TRUE) BY <1>1, ShiftPrefixed
<1>3. /\ r'[d] = Rotated("rl", r[d], f.carry)[1] /\ f'.carry = Rotated("rl", r[d], f.carry)[2]
      /\ Keeps(d) /\ CpuTyped'
  BY <1>1, <1>2, ShiftDoes
<1>4. Rotated("rl", r[d], f.carry)[1] + (256 * Rotated("rl", r[d], f.carry)[2]) = (2 * r[d]) + f.carry
  BY <1>1, RlIs
<1> QED BY <1>3, <1>4

\* rla: the same in A
LEMMA RlaDoes ==
  ASSUME CpuTyped, NEW d, NEW s, Instruct("rla", d, s)
  PROVE  r'["A"] + (256 * f'.carry) = (2 * r["A"]) + f.carry /\ Keeps("A") /\ CpuTyped'
<1>1. r["A"] \in Byte /\ f.carry \in 0..1 /\ "rl" \in Left \cup Right /\ "A" \in Registers
  BY DEF CpuTyped, FlagsType, Left, Right, Registers
<1>2. Shift("rl", "A", FALSE)
  <2>1. "rla" \in DOMAIN OfA /\ OfA["rla"] = "rl" BY DEF OfA
  <2> QED BY <2>1, ShiftOfA
<1>3. /\ r'["A"] = Rotated("rl", r["A"], f.carry)[1] /\ f'.carry = Rotated("rl", r["A"], f.carry)[2]
      /\ Keeps("A") /\ CpuTyped'
  BY <1>1, <1>2, ShiftDoes
<1>4. Rotated("rl", r["A"], f.carry)[1] + (256 * Rotated("rl", r["A"], f.carry)[2]) = (2 * r["A"]) + f.carry
  BY <1>1, RlIs
<1> QED BY <1>3, <1>4

\* srl: value and carry make up the byte.
LEMMA SrlDoes ==
  ASSUME CpuTyped, NEW d \in Registers, NEW s, Instruct("srl", d, s)
  PROVE  (2 * r'[d]) + f'.carry = r[d] /\ Keeps(d) /\ CpuTyped'
<1>1. r[d] \in Byte /\ "srl" \in Left \cup Right BY DEF CpuTyped, Left, Right
<1>2. Shift("srl", d, TRUE) BY <1>1, ShiftPrefixed
<1>3. /\ r'[d] = Rotated("srl", r[d], f.carry)[1] /\ f'.carry = Rotated("srl", r[d], f.carry)[2]
      /\ Keeps(d) /\ CpuTyped'
  BY <1>1, <1>2, ShiftDoes
<1>4. \A v \in Byte : \A c : (2 * Rotated("srl", v, c)[1]) + Rotated("srl", v, c)[2] = v
  BY DEF Rotated, Left, Right, Byte
<1> QED BY <1>1, <1>3, <1>4

\* sra: the sign stays.
LEMMA SraDoes ==
  ASSUME CpuTyped, NEW d \in Registers, NEW s, Instruct("sra", d, s)
  PROVE  /\ (2 * r'[d]) + f'.carry = r[d] + (IF r[d] > 127 THEN 256 ELSE 0)
         /\ Keeps(d) /\ CpuTyped'
<1>1. r[d] \in Byte /\ "sra" \in Left \cup Right BY DEF CpuTyped, Left, Right
<1>2. Shift("sra", d, TRUE) BY <1>1, ShiftPrefixed
<1>3. /\ r'[d] = Rotated("sra", r[d], f.carry)[1] /\ f'.carry = Rotated("sra", r[d], f.carry)[2]
      /\ Keeps(d) /\ CpuTyped'
  BY <1>1, <1>2, ShiftDoes
<1>4. \A v \in Byte : \A c : (2 * Rotated("sra", v, c)[1]) + Rotated("sra", v, c)[2]
                            = v + (IF v > 127 THEN 256 ELSE 0)
  BY DEF Rotated, Left, Right, Byte
<1> QED BY <1>1, <1>3, <1>4

\* rr: the carry enters above.
LEMMA RrDoes ==
  ASSUME CpuTyped, NEW d \in Registers, NEW s, Instruct("rr", d, s)
  PROVE  (2 * r'[d]) + f'.carry = r[d] + (256 * f.carry) /\ Keeps(d) /\ CpuTyped'
<1>1. r[d] \in Byte /\ f.carry \in 0..1 /\ "rr" \in Left \cup Right
  BY DEF CpuTyped, FlagsType, Left, Right
<1>2. Shift("rr", d, TRUE) BY <1>1, ShiftPrefixed
<1>3. /\ r'[d] = Rotated("rr", r[d], f.carry)[1] /\ f'.carry = Rotated("rr", r[d], f.carry)[2]
      /\ Keeps(d) /\ CpuTyped'
  BY <1>1, <1>2, ShiftDoes
<1>4. (2 * Rotated("rr", r[d], f.carry)[1]) + Rotated("rr", r[d], f.carry)[2] = r[d] + (256 * f.carry)
  BY <1>1, RrIs
<1> QED BY <1>3, <1>4

\* rra: the same in A
LEMMA RraDoes ==
  ASSUME CpuTyped, NEW d, NEW s, Instruct("rra", d, s)
  PROVE  (2 * r'["A"]) + f'.carry = r["A"] + (256 * f.carry) /\ Keeps("A") /\ CpuTyped'
<1>1. r["A"] \in Byte /\ f.carry \in 0..1 /\ "rr" \in Left \cup Right /\ "A" \in Registers
  BY DEF CpuTyped, FlagsType, Left, Right, Registers
<1>2. Shift("rr", "A", FALSE)
  <2>1. "rra" \in DOMAIN OfA /\ OfA["rra"] = "rr" BY DEF OfA
  <2> QED BY <2>1, ShiftOfA
<1>3. /\ r'["A"] = Rotated("rr", r["A"], f.carry)[1] /\ f'.carry = Rotated("rr", r["A"], f.carry)[2]
      /\ Keeps("A") /\ CpuTyped'
  BY <1>1, <1>2, ShiftDoes
<1>4. (2 * Rotated("rr", r["A"], f.carry)[1]) + Rotated("rr", r["A"], f.carry)[2] = r["A"] + (256 * f.carry)
  BY <1>1, RrIs
<1> QED BY <1>3, <1>4

\* rlc turns a register left,
LEMMA RlcDoes ==
  ASSUME CpuTyped, NEW d \in Registers, NEW s, Instruct("rlc", d, s)
  PROVE  r'[d] = RotatedLeft(r[d]) /\ Keeps(d) /\ CpuTyped'
<1>1. "rlc" \in Left \cup Right BY DEF Left, Right
<1>2. Shift("rlc", d, TRUE) BY <1>1, ShiftPrefixed
<1>3. r'[d] = Rotated("rlc", r[d], f.carry)[1] /\ Keeps(d) /\ CpuTyped'
  BY <1>1, <1>2, ShiftDoes
<1> QED BY <1>3, RlcIs

\* rlca A.
LEMMA RlcaDoes ==
  ASSUME CpuTyped, NEW d, NEW s, Instruct("rlca", d, s)
  PROVE  r'["A"] = RotatedLeft(r["A"]) /\ Keeps("A") /\ CpuTyped'
<1>1. "rlc" \in Left \cup Right /\ "A" \in Registers BY DEF Left, Right, Registers
<1>2. Shift("rlc", "A", FALSE)
  <2>1. "rlca" \in DOMAIN OfA /\ OfA["rlca"] = "rlc" BY DEF OfA
  <2> QED BY <2>1, ShiftOfA
<1>3. r'["A"] = Rotated("rlc", r["A"], f.carry)[1] /\ Keeps("A") /\ CpuTyped'
  BY <1>1, <1>2, ShiftDoes
<1> QED BY <1>3, RlcIs

\* rrc turns it right,
LEMMA RrcDoes ==
  ASSUME CpuTyped, NEW d \in Registers, NEW s, Instruct("rrc", d, s),
         NEW v \in Byte, r[d] = RotatedLeft(v)
  PROVE  r'[d] = v /\ Keeps(d) /\ CpuTyped'
<1>1. "rrc" \in Left \cup Right BY DEF Left, Right
<1>2. Shift("rrc", d, TRUE) BY <1>1, ShiftPrefixed
<1>3. r'[d] = Rotated("rrc", r[d], f.carry)[1] /\ Keeps(d) /\ CpuTyped'
  BY <1>1, <1>2, ShiftDoes
<1> QED BY <1>3, RrcIs

\* rrca A.
LEMMA RrcaDoes ==
  ASSUME CpuTyped, NEW d, NEW s, Instruct("rrca", d, s),
         NEW v \in Byte, r["A"] = RotatedLeft(v)
  PROVE  r'["A"] = v /\ Keeps("A") /\ CpuTyped'
<1>1. "rrc" \in Left \cup Right /\ "A" \in Registers BY DEF Left, Right, Registers
<1>2. Shift("rrc", "A", FALSE)
  <2>1. "rrca" \in DOMAIN OfA /\ OfA["rrca"] = "rrc" BY DEF OfA
  <2> QED BY <2>1, ShiftOfA
<1>3. r'["A"] = Rotated("rrc", r["A"], f.carry)[1] /\ Keeps("A") /\ CpuTyped'
  BY <1>1, <1>2, ShiftDoes
<1> QED BY <1>3, RrcIs

\* swap: the digits change places.
LEMMA SwapDoes ==
  ASSUME CpuTyped, NEW d \in Registers, NEW s, Instruct("swap", d, s)
  PROVE  r'[d] = Swapped(r[d]) /\ Keeps(d) /\ CpuTyped'
<1>1. Swap(d)
  BY DEF Instruct, Sums, Logic, Left, Right, OfA, ForA
<1>2. Swapped(r[d]) = ((r[d] % 16) * 16) + (r[d] \div 16) /\ Swapped(r[d]) \in Byte
  BY DEF CpuTyped, Byte, Swapped
<1>3. r' = [r EXCEPT ![d] = Swapped(r[d])] /\ f' = Flags(0, 0, 0, Flag(Swapped(r[d]) = 0))
  BY <1>1, <1>2 DEF Swap
<1>4. r'[d] = Swapped(r[d]) /\ Keeps(d) /\ r' \in [Registers -> Byte]
  BY <1>2, <1>3 DEF CpuTyped, Keeps
<1>5. f' \in FlagsType
  BY <1>3 DEF Flags, Flag, FlagsType
<1> QED BY <1>4, <1>5 DEF CpuTyped

\* add hl, de: carry and HL make the sum.
LEMMA AddHlDoes ==
  ASSUME CpuTyped, Instruct("add_hl", "D", "E")
  PROVE  /\ (65536 * f'.carry) + ((256 * r'["H"]) + r'["L"]) = Pair("H", "L") + Pair("D", "E")
         /\ CpuTyped'
<1> DEFINE sum == Pair("H", "L") + Pair("D", "E")
           h == (sum % 65536) \div 256
           l == sum % 256
<1>1. AddHl("D", "E")
  BY DEF Instruct, Sums, Logic, Left, Right, OfA, ForA
<1>2. sum \in Nat /\ sum <= 131070
  <2>1. r["H"] \in Byte /\ r["L"] \in Byte /\ r["D"] \in Byte /\ r["E"] \in Byte
    BY DEF CpuTyped, Registers
  <2>2. \A u \in Byte, v \in Byte : (256 * u) + v \in Nat /\ (256 * u) + v <= 65535
    BY DEF Byte
  <2>3. Pair("H", "L") \in Nat /\ Pair("H", "L") <= 65535
    BY <2>1, <2>2 DEF Pair
  <2>4. Pair("D", "E") \in Nat /\ Pair("D", "E") <= 65535
    BY <2>1, <2>2 DEF Pair
  <2> QED BY <2>3, <2>4
<1>3. /\ r' = [r EXCEPT !["H"] = h, !["L"] = l]
      /\ f'.carry = Flag(sum > 65535) /\ f' \in FlagsType
  BY <1>1 DEF AddHl, Flags, Flag, FlagsType, CpuTyped
<1> HIDE DEF sum
<1>4. /\ h \in Byte /\ l \in Byte
      /\ (65536 * Flag(sum > 65535)) + ((256 * h) + l) = sum
  BY <1>2, SumOfWords
<1> HIDE DEF h, l
<1>6. r'["H"] = h /\ r'["L"] = l /\ r' \in [Registers -> Byte]
  BY <1>3, <1>4 DEF CpuTyped, Registers
<1> QED BY <1>3, <1>4, <1>6 DEF CpuTyped, sum

\* daa: A and the flags are those of Daa.
LEMMA DaaDoes ==
  ASSUME CpuTyped, NEW d, NEW s, Instruct("daa", d, s)
  PROVE  /\ r'["A"] = Daa(r["A"], f).value /\ f' = Daa(r["A"], f).flags
         /\ Keeps("A") /\ CpuTyped'
<1>1. r' = [r EXCEPT !["A"] = Daa(r["A"], f).value] /\ f' = Daa(r["A"], f).flags
  BY DEF Instruct, Sums, Logic, Left, Right, OfA, ForA
<1>2. Daa(r["A"], f).value \in Byte /\ Daa(r["A"], f).flags \in FlagsType
  BY DaaType DEF CpuTyped, Registers
<1> QED BY <1>1, <1>2 DEF CpuTyped, Keeps, Registers

\* cpl: the complement of A, and the carry stays.
LEMMA CplDoes ==
  ASSUME CpuTyped, NEW d, NEW s, Instruct("cpl", d, s)
  PROVE  r'["A"] = 255 - r["A"] /\ Keeps("A") /\ CpuTyped'
<1>1. r' = [r EXCEPT !["A"] = 255 - @] /\ f' = [f EXCEPT !.half_carry = 1, !.subtract = 1]
  BY DEF Instruct, Sums, Logic, Left, Right, OfA, ForA
<1>2. 255 - r["A"] \in Byte BY DEF CpuTyped, Registers, Byte
<1>3. f' \in FlagsType
  <2>1. DOMAIN f = {"carry", "half_carry", "subtract", "zero"} BY DEF CpuTyped, FlagsType
  <2>2. f' = [[f EXCEPT !["half_carry"] = 1] EXCEPT !["subtract"] = 1] BY <1>1
  <2> QED BY <2>1, <2>2 DEF CpuTyped, FlagsType
<1>4. r'["A"] = 255 - r["A"] /\ Keeps("A") /\ r' \in [Registers -> Byte]
  BY <1>1, <1>2 DEF CpuTyped, Keeps, Registers
<1> QED BY <1>3, <1>4 DEF CpuTyped

\* scf sets the carry,
LEMMA ScfDoes ==
  ASSUME CpuTyped, NEW d, NEW s, Instruct("scf", d, s)
  PROVE  f'.carry = 1 /\ r' = r /\ CpuTyped'
<1>1. f' = Flags(1, 0, 0, f.zero) /\ r' = r
  BY DEF Instruct, Sums, Logic, Left, Right, OfA, ForA
<1> QED BY <1>1 DEF CpuTyped, Flags, FlagsType

\* ccf inverts it.
LEMMA CcfDoes ==
  ASSUME CpuTyped, NEW d, NEW s, Instruct("ccf", d, s)
  PROVE  f'.carry = 1 - f.carry /\ r' = r /\ CpuTyped'
<1>1. f' = Flags(1 - f.carry, 0, 0, f.zero) /\ r' = r
  BY DEF Instruct, Sums, Logic, Left, Right, OfA, ForA
<1> QED BY <1>1 DEF CpuTyped, Flags, FlagsType

\* jr nz: neither registers nor flags change.
LEMMA SkipDoes ==
  ASSUME CpuTyped, NEW d, NEW s, Instruct("skip_nz", d, s)
  PROVE  r' = r /\ f' = f /\ CpuTyped'
<1>1. r' = r /\ f' = f
  BY DEF Instruct, Sums, Logic, Left, Right, OfA, ForA
<1> QED BY <1>1 DEF CpuTyped

-----------------------------------------------------------------------------
(* Two bytes make a word                                                   *)

\* What two subtractions from 0 leave is the negative word.
LEMMA NegativeWord ==
  \A v, w \in Nat : (v <= 65535 /\ w <= 65535 /\ (v + w = 0 \/ v + w = 65536))
                       => v = (65536 - w) % 65536
<1> SUFFICES ASSUME NEW v \in Nat, NEW w \in Nat, v <= 65535, w <= 65535,
                    v + w = 0 \/ v + w = 65536
             PROVE  v = (65536 - w) % 65536
  OBVIOUS
<1> QED OBVIOUS

\* The high byte is incremented exactly when the low one becomes 0.
LEMMA IncrementCarries ==
  ASSUME NEW xh \in Byte, NEW xl \in Byte
  PROVE  LET l == (xl + 1) % 256
         IN  /\ l # 0 => (256 * xh) + l = (((256 * xh) + xl) + 1) % 65536
             /\ l = 0 => (256 * ((xh + 1) % 256)) + l = (((256 * xh) + xl) + 1) % 65536
             /\ l = 0 <=> xl = 255
<1>1. CASE xl < 255
  <2>1. (xl + 1) % 256 = xl + 1 BY <1>1 DEF Byte
  <2>2. (((256 * xh) + xl) + 1) % 65536 = ((256 * xh) + xl) + 1 BY <1>1 DEF Byte
  <2> QED BY <1>1, <2>1, <2>2 DEF Byte
<1>2. CASE xl = 255 /\ xh < 255
  <2>1. (xl + 1) % 256 = 0 BY <1>2
  <2>2. (xh + 1) % 256 = xh + 1 BY <1>2 DEF Byte
  <2>3. (((256 * xh) + xl) + 1) % 65536 = 256 * (xh + 1) BY <1>2 DEF Byte
  <2> QED BY <1>2, <2>1, <2>2, <2>3 DEF Byte
<1>3. CASE xl = 255 /\ xh = 255
  BY <1>3
<1> QED BY <1>1, <1>2, <1>3 DEF Byte

\* The value of a byte in BCD is a number.
LEMMA BcdType ==
  ASSUME NEW v \in Byte
  PROVE  Bcd(v) \in Nat
BY DEF Bcd, Tens, Ones, Byte

-----------------------------------------------------------------------------
(* The inductive invariant: one assertion for every point of every         *)
(* sequence                                                                *)

\* The bytes of the two numbers
X1 == x \div 256
X0 == x % 256
Y1 == y \div 256
Y0 == y % 256

\* HL = x and DE = y
Words ==
  /\ x \in Nat /\ X1 \in Byte /\ X0 \in Byte /\ x = (256 * X1) + X0
  /\ y \in Nat /\ Y1 \in Byte /\ Y0 \in Byte /\ y = (256 * Y1) + Y0

AddPoints ==
  /\ r["D"] = Y1 /\ r["E"] = Y0
  /\ done \in 0..7
  /\ done <= 4 => r["H"] = X1
  /\ done = 0 => r["L"] = X0
  /\ done = 1 => r["A"] = X0
  /\ done = 2 => r["A"] + (256 * f.carry) = X0 + Y0
  /\ done \in 3..5 => r["L"] + (256 * f.carry) = X0 + Y0
  /\ done = 5 => r["A"] = X1
  /\ done = 6 => (65536 * f.carry) + ((256 * r["A"]) + r["L"]) = x + y
  /\ done = 7 => (65536 * f.carry) + ((256 * r["H"]) + r["L"]) = x + y

SubtractPoints ==
  /\ r["D"] = Y1 /\ r["E"] = Y0
  /\ done \in 0..7
  /\ done <= 4 => r["H"] = X1
  /\ done = 0 => r["L"] = X0
  /\ done = 1 => r["A"] = X0
  /\ done = 2 => r["A"] - (256 * f.carry) = X0 - Y0
  /\ done \in 3..5 => r["L"] - (256 * f.carry) = X0 - Y0
  /\ done = 5 => r["A"] = X1
  /\ done = 6 => ((256 * r["A"]) + r["L"]) - (65536 * f.carry) = x - y
  /\ done = 7 => ((256 * r["H"]) + r["L"]) - (65536 * f.carry) = x - y

\* Before each DAA, A and the flags are those of the ALU; after it, A is BCD.
DecimalAddPoints ==
  /\ r["D"] = Y1 /\ r["E"] = Y0
  /\ done \in 0..9
  /\ IsBcd(X1) /\ IsBcd(X0) /\ IsBcd(Y1) /\ IsBcd(Y0)
  /\ done <= 5 => r["H"] = X1
  /\ done = 0 => r["L"] = X0
  /\ done = 1 => r["A"] = X0
  /\ done = 2 => FromAlu(X0, Y0, 0, 0)
  /\ done = 3 => (IsBcd(r["A"]) /\ Bcd(r["A"]) + (100 * f.carry) = Bcd(X0) + Bcd(Y0))
  /\ done \in 4..9 => IsBcd(r["L"])
  /\ done \in 4..6 => Bcd(r["L"]) + (100 * f.carry) = Bcd(X0) + Bcd(Y0)
  /\ done = 6 => r["A"] = X1
  /\ done = 7 => \E c \in 0..1 : Bcd(r["L"]) + (100 * c) = Bcd(X0) + Bcd(Y0) /\ FromAlu(X1, Y1, 0, c)
  /\ done = 8 => (IsBcd(r["A"]) /\ DecimalPair(r["A"], r["L"]) + (10000 * f.carry)
                                    = DecimalPair(X1, X0) + DecimalPair(Y1, Y0))
  /\ done = 9 => (IsBcd(r["H"]) /\ DecimalPair(r["H"], r["L"]) + (10000 * f.carry)
                                    = DecimalPair(X1, X0) + DecimalPair(Y1, Y0))

DecimalSubPoints ==
  /\ r["D"] = Y1 /\ r["E"] = Y0
  /\ done \in 0..9
  /\ IsBcd(X1) /\ IsBcd(X0) /\ IsBcd(Y1) /\ IsBcd(Y0)
  /\ done <= 5 => r["H"] = X1
  /\ done = 0 => r["L"] = X0
  /\ done = 1 => r["A"] = X0
  /\ done = 2 => FromAlu(X0, Y0, 1, 0)
  /\ done = 3 => (IsBcd(r["A"]) /\ Bcd(r["A"]) - (100 * f.carry) = Bcd(X0) - Bcd(Y0))
  /\ done \in 4..9 => IsBcd(r["L"])
  /\ done \in 4..6 => Bcd(r["L"]) - (100 * f.carry) = Bcd(X0) - Bcd(Y0)
  /\ done = 6 => r["A"] = X1
  /\ done = 7 => \E c \in 0..1 : Bcd(r["L"]) - (100 * c) = Bcd(X0) - Bcd(Y0) /\ FromAlu(X1, Y1, 1, c)
  /\ done = 8 => (IsBcd(r["A"]) /\ DecimalPair(r["A"], r["L"]) - (10000 * f.carry)
                                    = DecimalPair(X1, X0) - DecimalPair(Y1, Y0))
  /\ done = 9 => (IsBcd(r["H"]) /\ DecimalPair(r["H"], r["L"]) - (10000 * f.carry)
                                    = DecimalPair(X1, X0) - DecimalPair(Y1, Y0))

ComplementPoints ==
  /\ done \in 0..15
  /\ done <= 11 => r["H"] = X1
  /\ done <= 7 => r["L"] = X0
  /\ done <= 5 => r["D"] = Y1
  /\ done = 0 => r["E"] = Y0
  /\ done = 1 => r["A"] = Y0
  /\ done = 2 => r["A"] = 255 - Y0
  /\ done >= 3 => r["E"] = 255 - Y0
  /\ done = 4 => r["A"] = Y1
  /\ done = 5 => r["A"] = 255 - Y1
  /\ done >= 6 => r["D"] = 255 - Y1
  /\ done \in 7..8 => f.carry = 1
  /\ done = 8 => r["A"] = X0
  /\ done = 9 => r["A"] + (256 * f.carry) = 256 + (X0 - Y0)
  /\ done \in 10..12 => r["L"] + (256 * f.carry) = 256 + (X0 - Y0)
  /\ done = 12 => r["A"] = X1
  /\ done = 13 => ((256 * r["A"]) + r["L"]) + (65536 * f.carry) = 65536 + (x - y)
  /\ done = 14 => ((256 * r["H"]) + r["L"]) + (65536 * f.carry) = 65536 + (x - y)
  /\ done = 15 => ((256 * r["H"]) + r["L"]) - (65536 * f.carry) = x - y

ComparePoints ==
  /\ r["H"] = X1 /\ r["L"] = X0 /\ r["D"] = Y1 /\ r["E"] = Y0
  /\ done \in 0..4
  /\ done = 1 => r["A"] = X0
  /\ done \in 2..3 => f.carry = Flag(X0 < Y0)
  /\ done = 3 => r["A"] = X1
  /\ done = 4 => f.carry = Flag(x < y)

\* After sbc a,a A is 255 times the carry.
NegatePoints ==
  /\ done \in 0..6
  /\ done <= 5 => r["H"] = X1
  /\ done <= 2 => r["L"] = X0
  /\ done = 1 => r["A"] = 0
  /\ done = 2 => r["A"] - (256 * f.carry) = 0 - X0
  /\ done \in 3..4 => r["L"] - (256 * f.carry) = 0 - X0
  /\ done = 4 => r["A"] = 255 * f.carry
  /\ done = 5 => (256 * r["A"]) + r["L"] = (65536 - x) % 65536
  /\ done = 6 => (256 * r["H"]) + r["L"] = (65536 - x) % 65536

AddWordPoints ==
  /\ done \in 0..1
  /\ done = 0 => r["H"] = X1 /\ r["L"] = X0 /\ r["D"] = Y1 /\ r["E"] = Y0
  /\ done = 1 => (65536 * f.carry) + ((256 * r["H"]) + r["L"]) = x + y

IncrementPoints ==
  /\ done \in 0..3
  /\ done <= 2 => r["H"] = X1
  /\ done = 0 => r["L"] = X0
  /\ done = 1 => (r["L"] = (X0 + 1) % 256 /\ f.zero = Flag(r["L"] = 0))
  /\ done = 2 => (r["L"] = 0 /\ X0 = 255)
  /\ done = 3 => (256 * r["H"]) + r["L"] = (x + 1) % 65536

DoublePoints ==
  /\ done \in 0..3
  /\ done <= 2 => r["H"] = X1
  /\ done = 0 => r["L"] = X0
  /\ done \in 1..2 => r["L"] + (256 * f.carry) = 2 * X0
  /\ done = 3 => (65536 * f.carry) + ((256 * r["H"]) + r["L"]) = 2 * x

DoubleInAPoints ==
  /\ done \in 0..7
  /\ done <= 4 => r["H"] = X1
  /\ done = 0 => r["L"] = X0
  /\ done \in 1..2 => r["A"] = X0
  /\ done = 2 => f.carry = 0
  /\ done = 3 => r["A"] + (256 * f.carry) = 2 * X0
  /\ done \in 4..5 => r["L"] + (256 * f.carry) = 2 * X0
  /\ done = 5 => r["A"] = X1
  /\ done = 6 => (65536 * f.carry) + ((256 * r["A"]) + r["L"]) = 2 * x
  /\ done = 7 => (65536 * f.carry) + ((256 * r["H"]) + r["L"]) = 2 * x

HalvePoints ==
  /\ done \in 0..3
  /\ done <= 2 => r["L"] = X0
  /\ done = 0 => r["H"] = X1
  /\ done \in 1..2 => (2 * r["H"]) + f.carry = X1
  /\ done = 3 => (2 * ((256 * r["H"]) + r["L"])) + f.carry = x

HalveInAPoints ==
  /\ done \in 0..7
  /\ done <= 4 => r["L"] = X0
  /\ done = 0 => r["H"] = X1
  /\ done \in 1..2 => r["A"] = X1
  /\ done = 2 => f.carry = 0
  /\ done = 3 => (2 * r["A"]) + f.carry = X1
  /\ done \in 4..5 => (2 * r["H"]) + f.carry = X1
  /\ done = 5 => r["A"] = X0
  /\ done = 6 => (2 * ((256 * r["H"]) + r["A"])) + f.carry = x
  /\ done = 7 => (2 * ((256 * r["H"]) + r["L"])) + f.carry = x

HalveSignedPoints ==
  /\ done \in 0..2
  /\ done <= 1 => r["L"] = X0
  /\ done = 0 => r["H"] = X1
  /\ done = 1 => (2 * r["H"]) + f.carry = X1 + (IF X1 > 127 THEN 256 ELSE 0)
  /\ done = 2 => (2 * ((256 * r["H"]) + r["L"])) + f.carry = x + (IF x > 32767 THEN 65536 ELSE 0)

RoundPoints ==
  /\ done \in 0..6
  /\ r["H"] = X1
  /\ done = 0 => r["L"] = X0
  /\ done = 1 => r["L"] = RotatedLeft(X0)
  /\ done = 2 => r["A"] = RotatedLeft(X0)
  /\ done = 3 => r["A"] = X0
  /\ done = 4 => r["A"] = RotatedLeft(X0)
  /\ done = 5 => r["L"] = RotatedLeft(X0)
  /\ done = 6 => r["L"] = X0

UnpackPoints ==
  /\ done \in 0..7
  /\ r["C"] = 15
  /\ done <= 6 => r["L"] = X0
  /\ done = 1 => r["A"] = X0
  /\ done = 2 => r["A"] = Swapped(X0)
  /\ done = 3 => r["A"] = X0 \div 16
  /\ done >= 4 => r["H"] = X0 \div 16
  /\ done = 5 => r["A"] = X0
  /\ done = 6 => r["A"] = X0 % 16
  /\ done = 7 => r["L"] = X0 % 16

PackPoints ==
  /\ done \in 0..6
  /\ r["C"] = 15
  /\ done <= 5 => r["L"] = X0
  /\ done = 0 => r["H"] = X1
  /\ done >= 1 => r["H"] = Swapped(X1)
  /\ done = 2 => r["A"] = X0
  /\ done = 3 => r["A"] = Xor(X0, Swapped(X1))
  /\ done = 4 => r["A"] = And(Xor(X0, Swapped(X1)), 15)
  /\ done = 5 => r["A"] = (16 * (X1 % 16)) + (X0 % 16)
  /\ done = 6 => r["L"] = (16 * (X1 % 16)) + (X0 % 16)

\* The assertion at the present point of the present sequence
Points ==
  /\ sequence = "add" => AddPoints
  /\ sequence = "subtract" => SubtractPoints
  /\ sequence = "decimal_add" => DecimalAddPoints
  /\ sequence = "decimal_sub" => DecimalSubPoints
  /\ sequence = "complement" => ComplementPoints
  /\ sequence = "compare" => ComparePoints
  /\ sequence = "negate" => NegatePoints
  /\ sequence = "add_word" => AddWordPoints
  /\ sequence = "increment" => IncrementPoints
  /\ sequence = "double" => DoublePoints
  /\ sequence = "double_in_a" => DoubleInAPoints
  /\ sequence = "halve" => HalvePoints
  /\ sequence = "halve_in_a" => HalveInAPoints
  /\ sequence = "halve_signed" => HalveSignedPoints
  /\ sequence = "round" => RoundPoints
  /\ sequence = "unpack" => UnpackPoints
  /\ sequence = "pack" => PackPoints

\* The numbers are of the kind that the sequence is for.
Chosen ==
  /\ sequence \in DOMAIN Sequences
  /\ x \in Nat /\ x < 65536 /\ y \in Nat /\ y < 65536
  /\ sequence \in {"decimal_add", "decimal_sub"} => (IsDecimal(x) /\ IsDecimal(y))

ArithmeticInv == CpuTyped /\ Chosen /\ Points

-----------------------------------------------------------------------------
(* From each point to the next                                             *)

\* A step of a program executes the instruction at its point.
LEMMA Executes ==
  ASSUME Execute8, NEW op, NEW d, NEW s, Sequences[sequence][done + 1] = <<op, d, s>>
  PROVE  Instruct(op, d, s) /\ done' = done + (IF Skips(op) THEN 2 ELSE 1)
BY DEF Execute8

\* The instructions of add
LEMMA AddProgram ==
  /\ Sequences["add"][1] = <<"ld", "A", "L">>
  /\ Sequences["add"][2] = <<"add", "A", "E">>
  /\ Sequences["add"][3] = <<"ld", "L", "A">>
  /\ Sequences["add"][4] = <<"dec", "B", "B">>
  /\ Sequences["add"][5] = <<"ld", "A", "H">>
  /\ Sequences["add"][6] = <<"adc", "A", "D">>
  /\ Sequences["add"][7] = <<"ld", "H", "A">>
  /\ Len(Sequences["add"]) = 7
BY DEF Sequences, Run, OnA, ByWay

\* Each instruction of add leads to the next point.
LEMMA AddStep ==
  ASSUME CpuTyped, Words, sequence = "add", AddPoints, Execute8
  PROVE  AddPoints' /\ CpuTyped'
<1>1. done < 7
  BY AddProgram DEF Execute8
<1>2. X1' = X1 /\ X0' = X0 /\ Y1' = Y1 /\ Y0' = Y0 /\ x' = x /\ y' = y
  BY DEF Execute8, X1, X0, Y1, Y0
<1> USE DEF Registers
<1>3. CASE done = 0
  <2>1. Instruct("ld", "A", "L") /\ done' = 1
    BY <1>3, AddProgram, Executes DEF Skips
  <2>2. r'["A"] = r["L"] /\ f' = f /\ Keeps("A") /\ CpuTyped'
    BY <2>1, LoadDoes
  <2> QED BY <1>2, <1>3, <2>1, <2>2 DEF AddPoints, Keeps
<1>4. CASE done = 1
  <2>1. Instruct("add", "A", "E") /\ done' = 2
    BY <1>4, AddProgram, Executes DEF Skips
  <2>2. /\ FromAluNext(r["A"], r["E"], 0, 0)
        /\ r'["A"] + (256 * f'.carry) = r["A"] + r["E"]
        /\ Keeps("A")
        /\ CpuTyped'
    BY <2>1, AddDoes
  <2> QED BY <1>2, <1>4, <2>1, <2>2 DEF AddPoints, Keeps
<1>5. CASE done = 2
  <2>1. Instruct("ld", "L", "A") /\ done' = 3
    BY <1>5, AddProgram, Executes DEF Skips
  <2>2. r'["L"] = r["A"] /\ f' = f /\ Keeps("L") /\ CpuTyped'
    BY <2>1, LoadDoes
  <2> QED BY <1>2, <1>5, <2>1, <2>2 DEF AddPoints, Keeps
<1>6. CASE done = 3
  <2>1. Instruct("dec", "B", "B") /\ done' = 4
    BY <1>6, AddProgram, Executes DEF Skips
  <2>2. f'.carry = f.carry /\ Keeps("B") /\ CpuTyped'
    BY <2>1, StepDoes
  <2> QED BY <1>2, <1>6, <2>1, <2>2 DEF AddPoints, Keeps
<1>7. CASE done = 4
  <2>1. Instruct("ld", "A", "H") /\ done' = 5
    BY <1>7, AddProgram, Executes DEF Skips
  <2>2. r'["A"] = r["H"] /\ f' = f /\ Keeps("A") /\ CpuTyped'
    BY <2>1, LoadDoes
  <2> QED BY <1>2, <1>7, <2>1, <2>2 DEF AddPoints, Keeps
<1>8. CASE done = 5
  <2>1. Instruct("adc", "A", "D") /\ done' = 6
    BY <1>8, AddProgram, Executes DEF Skips
  <2>2. /\ FromAluNext(r["A"], r["D"], 0, f.carry)
        /\ r'["A"] + (256 * f'.carry) = (r["A"] + r["D"]) + f.carry
        /\ Keeps("A")
        /\ CpuTyped'
    BY <2>1, AdcDoes
  <2>3. /\ r'["L"] = r["L"]
        /\ r["L"] + (256 * f.carry) = X0 + Y0
        /\ r'["A"] + (256 * f'.carry) = (X1 + Y1) + f.carry
    BY <1>8, <2>1, <2>2 DEF AddPoints, Keeps
  <2>4. PICK h \in Byte, l \in Byte, c \in 0..1, k \in 0..1 :
            h = r'["A"] /\ l = r'["L"] /\ c = f.carry /\ k = f'.carry
    BY <2>2 DEF CpuTyped, FlagsType, Registers
  <2>5. l + (256 * c) = X0 + Y0 /\ h + (256 * k) = (X1 + Y1) + c
    BY <2>3, <2>4
  <2>6. X1 \in Byte /\ X0 \in Byte /\ Y1 \in Byte /\ Y0 \in Byte
    BY DEF Words
  <2>7. (65536 * k) + ((256 * h) + l) = ((256 * X1) + X0) + ((256 * Y1) + Y0)
    BY <2>5, <2>6 DEF Byte
  <2>8. (65536 * f'.carry) + ((256 * r'["A"]) + r'["L"]) = x + y
    BY <2>4, <2>7 DEF Words
  <2> QED BY <1>2, <1>8, <2>1, <2>2, <2>8 DEF AddPoints, Keeps
<1>9. CASE done = 6
  <2>1. Instruct("ld", "H", "A") /\ done' = 7
    BY <1>9, AddProgram, Executes DEF Skips
  <2>2. r'["H"] = r["A"] /\ f' = f /\ Keeps("H") /\ CpuTyped'
    BY <2>1, LoadDoes
  <2> QED BY <1>2, <1>9, <2>1, <2>2 DEF AddPoints, Keeps
<1> QED BY <1>1, <1>3, <1>4, <1>5, <1>6, <1>7, <1>8, <1>9 DEF AddPoints

\* The instructions of subtract
LEMMA SubtractProgram ==
  /\ Sequences["subtract"][1] = <<"ld", "A", "L">>
  /\ Sequences["subtract"][2] = <<"sub", "A", "E">>
  /\ Sequences["subtract"][3] = <<"ld", "L", "A">>
  /\ Sequences["subtract"][4] = <<"dec", "B", "B">>
  /\ Sequences["subtract"][5] = <<"ld", "A", "H">>
  /\ Sequences["subtract"][6] = <<"sbc", "A", "D">>
  /\ Sequences["subtract"][7] = <<"ld", "H", "A">>
  /\ Len(Sequences["subtract"]) = 7
BY DEF Sequences, Run, OnA, ByWay

\* Each instruction of subtract leads to the next point.
LEMMA SubtractStep ==
  ASSUME CpuTyped, Words, sequence = "subtract", SubtractPoints, Execute8
  PROVE  SubtractPoints' /\ CpuTyped'
<1>1. done < 7
  BY SubtractProgram DEF Execute8
<1>2. X1' = X1 /\ X0' = X0 /\ Y1' = Y1 /\ Y0' = Y0 /\ x' = x /\ y' = y
  BY DEF Execute8, X1, X0, Y1, Y0
<1> USE DEF Registers
<1>3. CASE done = 0
  <2>1. Instruct("ld", "A", "L") /\ done' = 1
    BY <1>3, SubtractProgram, Executes DEF Skips
  <2>2. r'["A"] = r["L"] /\ f' = f /\ Keeps("A") /\ CpuTyped'
    BY <2>1, LoadDoes
  <2> QED BY <1>2, <1>3, <2>1, <2>2 DEF SubtractPoints, Keeps
<1>4. CASE done = 1
  <2>1. Instruct("sub", "A", "E") /\ done' = 2
    BY <1>4, SubtractProgram, Executes DEF Skips
  <2>2. /\ FromAluNext(r["A"], r["E"], 1, 0)
        /\ r'["A"] - (256 * f'.carry) = r["A"] - r["E"]
        /\ Keeps("A")
        /\ CpuTyped'
    BY <2>1, SubDoes
  <2> QED BY <1>2, <1>4, <2>1, <2>2 DEF SubtractPoints, Keeps
<1>5. CASE done = 2
  <2>1. Instruct("ld", "L", "A") /\ done' = 3
    BY <1>5, SubtractProgram, Executes DEF Skips
  <2>2. r'["L"] = r["A"] /\ f' = f /\ Keeps("L") /\ CpuTyped'
    BY <2>1, LoadDoes
  <2> QED BY <1>2, <1>5, <2>1, <2>2 DEF SubtractPoints, Keeps
<1>6. CASE done = 3
  <2>1. Instruct("dec", "B", "B") /\ done' = 4
    BY <1>6, SubtractProgram, Executes DEF Skips
  <2>2. f'.carry = f.carry /\ Keeps("B") /\ CpuTyped'
    BY <2>1, StepDoes
  <2> QED BY <1>2, <1>6, <2>1, <2>2 DEF SubtractPoints, Keeps
<1>7. CASE done = 4
  <2>1. Instruct("ld", "A", "H") /\ done' = 5
    BY <1>7, SubtractProgram, Executes DEF Skips
  <2>2. r'["A"] = r["H"] /\ f' = f /\ Keeps("A") /\ CpuTyped'
    BY <2>1, LoadDoes
  <2> QED BY <1>2, <1>7, <2>1, <2>2 DEF SubtractPoints, Keeps
<1>8. CASE done = 5
  <2>1. Instruct("sbc", "A", "D") /\ done' = 6
    BY <1>8, SubtractProgram, Executes DEF Skips
  <2>2. /\ FromAluNext(r["A"], r["D"], 1, f.carry)
        /\ r'["A"] - (256 * f'.carry) = r["A"] - (r["D"] + f.carry)
        /\ Keeps("A")
        /\ CpuTyped'
    BY <2>1, SbcDoes
  <2>3. /\ r'["L"] = r["L"]
        /\ r["L"] - (256 * f.carry) = X0 - Y0
        /\ r'["A"] - (256 * f'.carry) = X1 - (Y1 + f.carry)
    BY <1>8, <2>1, <2>2 DEF SubtractPoints, Keeps
  <2>4. PICK h \in Byte, l \in Byte, c \in 0..1, k \in 0..1 :
            h = r'["A"] /\ l = r'["L"] /\ c = f.carry /\ k = f'.carry
    BY <2>2 DEF CpuTyped, FlagsType, Registers
  <2>5. l - (256 * c) = X0 - Y0 /\ h - (256 * k) = X1 - (Y1 + c)
    BY <2>3, <2>4
  <2>6. X1 \in Byte /\ X0 \in Byte /\ Y1 \in Byte /\ Y0 \in Byte
    BY DEF Words
  <2>7. ((256 * h) + l) - (65536 * k) = ((256 * X1) + X0) - ((256 * Y1) + Y0)
    BY <2>5, <2>6 DEF Byte
  <2>8. ((256 * r'["A"]) + r'["L"]) - (65536 * f'.carry) = x - y
    BY <2>4, <2>7 DEF Words
  <2> QED BY <1>2, <1>8, <2>1, <2>2, <2>8 DEF SubtractPoints, Keeps
<1>9. CASE done = 6
  <2>1. Instruct("ld", "H", "A") /\ done' = 7
    BY <1>9, SubtractProgram, Executes DEF Skips
  <2>2. r'["H"] = r["A"] /\ f' = f /\ Keeps("H") /\ CpuTyped'
    BY <2>1, LoadDoes
  <2> QED BY <1>2, <1>9, <2>1, <2>2 DEF SubtractPoints, Keeps
<1> QED BY <1>1, <1>3, <1>4, <1>5, <1>6, <1>7, <1>8, <1>9 DEF SubtractPoints

\* The instructions of decimal_add
LEMMA DecimalAddProgram ==
  /\ Sequences["decimal_add"][1] = <<"ld", "A", "L">>
  /\ Sequences["decimal_add"][2] = <<"add", "A", "E">>
  /\ Sequences["decimal_add"][3] = <<"daa", "A", "A">>
  /\ Sequences["decimal_add"][4] = <<"ld", "L", "A">>
  /\ Sequences["decimal_add"][5] = <<"dec", "B", "B">>
  /\ Sequences["decimal_add"][6] = <<"ld", "A", "H">>
  /\ Sequences["decimal_add"][7] = <<"adc", "A", "D">>
  /\ Sequences["decimal_add"][8] = <<"daa", "A", "A">>
  /\ Sequences["decimal_add"][9] = <<"ld", "H", "A">>
  /\ Len(Sequences["decimal_add"]) = 9
BY DEF Sequences, Run, OnA, ByWay

\* Each instruction of decimal_add leads to the next point.
LEMMA DecimalAddStep ==
  ASSUME CpuTyped, Words, sequence = "decimal_add", DecimalAddPoints, Execute8
  PROVE  DecimalAddPoints' /\ CpuTyped'
<1>1. done < 9
  BY DecimalAddProgram DEF Execute8
<1>2. X1' = X1 /\ X0' = X0 /\ Y1' = Y1 /\ Y0' = Y0 /\ x' = x /\ y' = y
  BY DEF Execute8, X1, X0, Y1, Y0
<1> USE DEF Registers
<1>3. CASE done = 0
  <2>1. Instruct("ld", "A", "L") /\ done' = 1
    BY <1>3, DecimalAddProgram, Executes DEF Skips
  <2>2. r'["A"] = r["L"] /\ f' = f /\ Keeps("A") /\ CpuTyped'
    BY <2>1, LoadDoes
  <2> QED BY <1>2, <1>3, <2>1, <2>2 DEF DecimalAddPoints, Keeps
<1>4. CASE done = 1
  <2>1. Instruct("add", "A", "E") /\ done' = 2
    BY <1>4, DecimalAddProgram, Executes DEF Skips
  <2>2. /\ FromAluNext(r["A"], r["E"], 0, 0)
        /\ r'["A"] + (256 * f'.carry) = r["A"] + r["E"]
        /\ Keeps("A")
        /\ CpuTyped'
    BY <2>1, AddDoes
  <2>3. FromAlu(X0, Y0, 0, 0)'
    BY <1>2, <1>4, <2>2 DEF DecimalAddPoints, FromAlu, FromAluNext
  <2> QED BY <1>2, <1>4, <2>1, <2>2, <2>3 DEF DecimalAddPoints, Keeps
<1>5. CASE done = 2
  <2>1. Instruct("daa", "A", "A") /\ done' = 3
    BY <1>5, DecimalAddProgram, Executes DEF Skips
  <2>2. r'["A"] = Daa(r["A"], f).value /\ f' = Daa(r["A"], f).flags /\ Keeps("A") /\ CpuTyped'
    BY <2>1, DaaDoes
  <2>3. /\ r'["A"] = Daa(RunAlu(X0, Y0, 0, 0).value, RunAlu(X0, Y0, 0, 0).flags).value
        /\ f'.carry = Daa(RunAlu(X0, Y0, 0, 0).value, RunAlu(X0, Y0, 0, 0).flags).flags.carry
    BY <1>5, <2>2 DEF DecimalAddPoints, FromAlu
  <2>4. IsBcd(X0) /\ IsBcd(Y0)
    BY DEF DecimalAddPoints
  <2>5. IsBcd(r'["A"]) /\ Bcd(r'["A"]) + (100 * f'.carry) = (Bcd(X0) + Bcd(Y0)) + 0
    BY <2>3, <2>4, DaaAdds DEF Words
  <2>6. IsBcd(r'["A"]) /\ Bcd(r'["A"]) + (100 * f'.carry) = Bcd(X0) + Bcd(Y0)
    BY <2>5, BcdType DEF Words
  <2> QED BY <1>2, <1>5, <2>1, <2>2, <2>6 DEF DecimalAddPoints, Keeps
<1>6. CASE done = 3
  <2>1. Instruct("ld", "L", "A") /\ done' = 4
    BY <1>6, DecimalAddProgram, Executes DEF Skips
  <2>2. r'["L"] = r["A"] /\ f' = f /\ Keeps("L") /\ CpuTyped'
    BY <2>1, LoadDoes
  <2> QED BY <1>2, <1>6, <2>1, <2>2 DEF DecimalAddPoints, Keeps
<1>7. CASE done = 4
  <2>1. Instruct("dec", "B", "B") /\ done' = 5
    BY <1>7, DecimalAddProgram, Executes DEF Skips
  <2>2. f'.carry = f.carry /\ Keeps("B") /\ CpuTyped'
    BY <2>1, StepDoes
  <2> QED BY <1>2, <1>7, <2>1, <2>2 DEF DecimalAddPoints, Keeps
<1>8. CASE done = 5
  <2>1. Instruct("ld", "A", "H") /\ done' = 6
    BY <1>8, DecimalAddProgram, Executes DEF Skips
  <2>2. r'["A"] = r["H"] /\ f' = f /\ Keeps("A") /\ CpuTyped'
    BY <2>1, LoadDoes
  <2> QED BY <1>2, <1>8, <2>1, <2>2 DEF DecimalAddPoints, Keeps
<1>9. CASE done = 6
  <2>1. Instruct("adc", "A", "D") /\ done' = 7
    BY <1>9, DecimalAddProgram, Executes DEF Skips
  <2>2. /\ FromAluNext(r["A"], r["D"], 0, f.carry)
        /\ r'["A"] + (256 * f'.carry) = (r["A"] + r["D"]) + f.carry
        /\ Keeps("A")
        /\ CpuTyped'
    BY <2>1, AdcDoes
  <2>3. Bcd(r'["L"]) + (100 * f.carry) = Bcd(X0) + Bcd(Y0) /\ f.carry \in 0..1
    BY <1>9, <2>2 DEF DecimalAddPoints, CpuTyped, FlagsType, Keeps
  <2>4. FromAluNext(X1, Y1, 0, f.carry)
    BY <1>9, <2>2 DEF DecimalAddPoints
  <2>5. \E c \in 0..1 : Bcd(r'["L"]) + (100 * c) = Bcd(X0') + Bcd(Y0') /\ FromAlu(X1, Y1, 0, c)'
    BY <1>2, <2>3, <2>4 DEF FromAlu, FromAluNext
  <2> QED BY <1>2, <1>9, <2>1, <2>2, <2>5 DEF DecimalAddPoints, Keeps
<1>10. CASE done = 7
  <2>1. Instruct("daa", "A", "A") /\ done' = 8
    BY <1>10, DecimalAddProgram, Executes DEF Skips
  <2>2. r'["A"] = Daa(r["A"], f).value /\ f' = Daa(r["A"], f).flags /\ Keeps("A") /\ CpuTyped'
    BY <2>1, DaaDoes
  <2>3. PICK c \in 0..1 : Bcd(r["L"]) + (100 * c) = Bcd(X0) + Bcd(Y0) /\ FromAlu(X1, Y1, 0, c)
    BY <1>10 DEF DecimalAddPoints
  <2>4. /\ r'["A"] = Daa(RunAlu(X1, Y1, 0, c).value, RunAlu(X1, Y1, 0, c).flags).value
        /\ f'.carry = Daa(RunAlu(X1, Y1, 0, c).value, RunAlu(X1, Y1, 0, c).flags).flags.carry
    BY <2>2, <2>3 DEF FromAlu
  <2>5. IsBcd(X1) /\ IsBcd(Y1)
    BY DEF DecimalAddPoints
  <2>6. IsBcd(r'["A"]) /\ Bcd(r'["A"]) + (100 * f'.carry) = (Bcd(X1) + Bcd(Y1)) + c
    BY <2>4, <2>5, DaaAdds DEF Words
  <2>7. r'["L"] = r["L"] /\ r'["A"] \in Byte /\ r["L"] \in Byte /\ f'.carry \in 0..1
    BY <2>2 DEF CpuTyped, FlagsType, Keeps
  <2>8. PICK h \in Byte, l \in Byte, k \in 0..1 : h = r'["A"] /\ l = r["L"] /\ k = f'.carry
    BY <2>7
  <2>9. Bcd(l) + (100 * c) = Bcd(X0) + Bcd(Y0) /\ Bcd(h) + (100 * k) = (Bcd(X1) + Bcd(Y1)) + c
    BY <2>3, <2>6, <2>8
  <2>10. X1 \in Byte /\ X0 \in Byte /\ Y1 \in Byte /\ Y0 \in Byte
    BY DEF Words
  <2>11. DecimalPair(h, l) + (10000 * k) = DecimalPair(X1, X0) + DecimalPair(Y1, Y0)
    BY <2>9, <2>10, BcdType DEF DecimalPair
  <2>12. DecimalPair(r'["A"], r'["L"]) + (10000 * f'.carry)
            = DecimalPair(X1, X0) + DecimalPair(Y1, Y0)
    BY <2>7, <2>8, <2>11
  <2> QED BY <1>2, <1>10, <2>1, <2>2, <2>6, <2>12 DEF DecimalAddPoints, Keeps
<1>11. CASE done = 8
  <2>1. Instruct("ld", "H", "A") /\ done' = 9
    BY <1>11, DecimalAddProgram, Executes DEF Skips
  <2>2. r'["H"] = r["A"] /\ f' = f /\ Keeps("H") /\ CpuTyped'
    BY <2>1, LoadDoes
  <2> QED BY <1>2, <1>11, <2>1, <2>2 DEF DecimalAddPoints, Keeps
<1> QED BY <1>1, <1>3, <1>4, <1>5, <1>6, <1>7, <1>8, <1>9, <1>10, <1>11 DEF DecimalAddPoints

\* The instructions of decimal_sub
LEMMA DecimalSubProgram ==
  /\ Sequences["decimal_sub"][1] = <<"ld", "A", "L">>
  /\ Sequences["decimal_sub"][2] = <<"sub", "A", "E">>
  /\ Sequences["decimal_sub"][3] = <<"daa", "A", "A">>
  /\ Sequences["decimal_sub"][4] = <<"ld", "L", "A">>
  /\ Sequences["decimal_sub"][5] = <<"dec", "B", "B">>
  /\ Sequences["decimal_sub"][6] = <<"ld", "A", "H">>
  /\ Sequences["decimal_sub"][7] = <<"sbc", "A", "D">>
  /\ Sequences["decimal_sub"][8] = <<"daa", "A", "A">>
  /\ Sequences["decimal_sub"][9] = <<"ld", "H", "A">>
  /\ Len(Sequences["decimal_sub"]) = 9
BY DEF Sequences, Run, OnA, ByWay

\* Each instruction of decimal_sub leads to the next point.
LEMMA DecimalSubStep ==
  ASSUME CpuTyped, Words, sequence = "decimal_sub", DecimalSubPoints, Execute8
  PROVE  DecimalSubPoints' /\ CpuTyped'
<1>1. done < 9
  BY DecimalSubProgram DEF Execute8
<1>2. X1' = X1 /\ X0' = X0 /\ Y1' = Y1 /\ Y0' = Y0 /\ x' = x /\ y' = y
  BY DEF Execute8, X1, X0, Y1, Y0
<1> USE DEF Registers
<1>3. CASE done = 0
  <2>1. Instruct("ld", "A", "L") /\ done' = 1
    BY <1>3, DecimalSubProgram, Executes DEF Skips
  <2>2. r'["A"] = r["L"] /\ f' = f /\ Keeps("A") /\ CpuTyped'
    BY <2>1, LoadDoes
  <2> QED BY <1>2, <1>3, <2>1, <2>2 DEF DecimalSubPoints, Keeps
<1>4. CASE done = 1
  <2>1. Instruct("sub", "A", "E") /\ done' = 2
    BY <1>4, DecimalSubProgram, Executes DEF Skips
  <2>2. /\ FromAluNext(r["A"], r["E"], 1, 0)
        /\ r'["A"] - (256 * f'.carry) = r["A"] - r["E"]
        /\ Keeps("A")
        /\ CpuTyped'
    BY <2>1, SubDoes
  <2>3. FromAlu(X0, Y0, 1, 0)'
    BY <1>2, <1>4, <2>2 DEF DecimalSubPoints, FromAlu, FromAluNext
  <2> QED BY <1>2, <1>4, <2>1, <2>2, <2>3 DEF DecimalSubPoints, Keeps
<1>5. CASE done = 2
  <2>1. Instruct("daa", "A", "A") /\ done' = 3
    BY <1>5, DecimalSubProgram, Executes DEF Skips
  <2>2. r'["A"] = Daa(r["A"], f).value /\ f' = Daa(r["A"], f).flags /\ Keeps("A") /\ CpuTyped'
    BY <2>1, DaaDoes
  <2>3. /\ r'["A"] = Daa(RunAlu(X0, Y0, 1, 0).value, RunAlu(X0, Y0, 1, 0).flags).value
        /\ f'.carry = Daa(RunAlu(X0, Y0, 1, 0).value, RunAlu(X0, Y0, 1, 0).flags).flags.carry
    BY <1>5, <2>2 DEF DecimalSubPoints, FromAlu
  <2>4. IsBcd(X0) /\ IsBcd(Y0)
    BY DEF DecimalSubPoints
  <2>5. IsBcd(r'["A"]) /\ Bcd(r'["A"]) - (100 * f'.carry) = Bcd(X0) - (Bcd(Y0) + 0)
    BY <2>3, <2>4, DaaSubtracts DEF Words
  <2>6. IsBcd(r'["A"]) /\ Bcd(r'["A"]) - (100 * f'.carry) = Bcd(X0) - Bcd(Y0)
    BY <2>5, BcdType DEF Words
  <2> QED BY <1>2, <1>5, <2>1, <2>2, <2>6 DEF DecimalSubPoints, Keeps
<1>6. CASE done = 3
  <2>1. Instruct("ld", "L", "A") /\ done' = 4
    BY <1>6, DecimalSubProgram, Executes DEF Skips
  <2>2. r'["L"] = r["A"] /\ f' = f /\ Keeps("L") /\ CpuTyped'
    BY <2>1, LoadDoes
  <2> QED BY <1>2, <1>6, <2>1, <2>2 DEF DecimalSubPoints, Keeps
<1>7. CASE done = 4
  <2>1. Instruct("dec", "B", "B") /\ done' = 5
    BY <1>7, DecimalSubProgram, Executes DEF Skips
  <2>2. f'.carry = f.carry /\ Keeps("B") /\ CpuTyped'
    BY <2>1, StepDoes
  <2> QED BY <1>2, <1>7, <2>1, <2>2 DEF DecimalSubPoints, Keeps
<1>8. CASE done = 5
  <2>1. Instruct("ld", "A", "H") /\ done' = 6
    BY <1>8, DecimalSubProgram, Executes DEF Skips
  <2>2. r'["A"] = r["H"] /\ f' = f /\ Keeps("A") /\ CpuTyped'
    BY <2>1, LoadDoes
  <2> QED BY <1>2, <1>8, <2>1, <2>2 DEF DecimalSubPoints, Keeps
<1>9. CASE done = 6
  <2>1. Instruct("sbc", "A", "D") /\ done' = 7
    BY <1>9, DecimalSubProgram, Executes DEF Skips
  <2>2. /\ FromAluNext(r["A"], r["D"], 1, f.carry)
        /\ r'["A"] - (256 * f'.carry) = r["A"] - (r["D"] + f.carry)
        /\ Keeps("A")
        /\ CpuTyped'
    BY <2>1, SbcDoes
  <2>3. Bcd(r'["L"]) - (100 * f.carry) = Bcd(X0) - Bcd(Y0) /\ f.carry \in 0..1
    BY <1>9, <2>2 DEF DecimalSubPoints, CpuTyped, FlagsType, Keeps
  <2>4. FromAluNext(X1, Y1, 1, f.carry)
    BY <1>9, <2>2 DEF DecimalSubPoints
  <2>5. \E c \in 0..1 : Bcd(r'["L"]) - (100 * c) = Bcd(X0') - Bcd(Y0') /\ FromAlu(X1, Y1, 1, c)'
    BY <1>2, <2>3, <2>4 DEF FromAlu, FromAluNext
  <2> QED BY <1>2, <1>9, <2>1, <2>2, <2>5 DEF DecimalSubPoints, Keeps
<1>10. CASE done = 7
  <2>1. Instruct("daa", "A", "A") /\ done' = 8
    BY <1>10, DecimalSubProgram, Executes DEF Skips
  <2>2. r'["A"] = Daa(r["A"], f).value /\ f' = Daa(r["A"], f).flags /\ Keeps("A") /\ CpuTyped'
    BY <2>1, DaaDoes
  <2>3. PICK c \in 0..1 : Bcd(r["L"]) - (100 * c) = Bcd(X0) - Bcd(Y0) /\ FromAlu(X1, Y1, 1, c)
    BY <1>10 DEF DecimalSubPoints
  <2>4. /\ r'["A"] = Daa(RunAlu(X1, Y1, 1, c).value, RunAlu(X1, Y1, 1, c).flags).value
        /\ f'.carry = Daa(RunAlu(X1, Y1, 1, c).value, RunAlu(X1, Y1, 1, c).flags).flags.carry
    BY <2>2, <2>3 DEF FromAlu
  <2>5. IsBcd(X1) /\ IsBcd(Y1)
    BY DEF DecimalSubPoints
  <2>6. IsBcd(r'["A"]) /\ Bcd(r'["A"]) - (100 * f'.carry) = Bcd(X1) - (Bcd(Y1) + c)
    BY <2>4, <2>5, DaaSubtracts DEF Words
  <2>7. r'["L"] = r["L"] /\ r'["A"] \in Byte /\ r["L"] \in Byte /\ f'.carry \in 0..1
    BY <2>2 DEF CpuTyped, FlagsType, Keeps
  <2>8. PICK h \in Byte, l \in Byte, k \in 0..1 : h = r'["A"] /\ l = r["L"] /\ k = f'.carry
    BY <2>7
  <2>9. Bcd(l) - (100 * c) = Bcd(X0) - Bcd(Y0) /\ Bcd(h) - (100 * k) = Bcd(X1) - (Bcd(Y1) + c)
    BY <2>3, <2>6, <2>8
  <2>10. X1 \in Byte /\ X0 \in Byte /\ Y1 \in Byte /\ Y0 \in Byte
    BY DEF Words
  <2>11. DecimalPair(h, l) - (10000 * k) = DecimalPair(X1, X0) - DecimalPair(Y1, Y0)
    BY <2>9, <2>10, BcdType DEF DecimalPair
  <2>12. DecimalPair(r'["A"], r'["L"]) - (10000 * f'.carry)
            = DecimalPair(X1, X0) - DecimalPair(Y1, Y0)
    BY <2>7, <2>8, <2>11
  <2> QED BY <1>2, <1>10, <2>1, <2>2, <2>6, <2>12 DEF DecimalSubPoints, Keeps
<1>11. CASE done = 8
  <2>1. Instruct("ld", "H", "A") /\ done' = 9
    BY <1>11, DecimalSubProgram, Executes DEF Skips
  <2>2. r'["H"] = r["A"] /\ f' = f /\ Keeps("H") /\ CpuTyped'
    BY <2>1, LoadDoes
  <2> QED BY <1>2, <1>11, <2>1, <2>2 DEF DecimalSubPoints, Keeps
<1> QED BY <1>1, <1>3, <1>4, <1>5, <1>6, <1>7, <1>8, <1>9, <1>10, <1>11 DEF DecimalSubPoints

\* The instructions of complement
LEMMA ComplementProgram ==
  /\ Sequences["complement"][1] = <<"ld", "A", "E">>
  /\ Sequences["complement"][2] = <<"cpl", "A", "A">>
  /\ Sequences["complement"][3] = <<"ld", "E", "A">>
  /\ Sequences["complement"][4] = <<"ld", "A", "D">>
  /\ Sequences["complement"][5] = <<"cpl", "A", "A">>
  /\ Sequences["complement"][6] = <<"ld", "D", "A">>
  /\ Sequences["complement"][7] = <<"scf", "A", "A">>
  /\ Sequences["complement"][8] = <<"ld", "A", "L">>
  /\ Sequences["complement"][9] = <<"adc", "A", "E">>
  /\ Sequences["complement"][10] = <<"ld", "L", "A">>
  /\ Sequences["complement"][11] = <<"dec", "B", "B">>
  /\ Sequences["complement"][12] = <<"ld", "A", "H">>
  /\ Sequences["complement"][13] = <<"adc", "A", "D">>
  /\ Sequences["complement"][14] = <<"ld", "H", "A">>
  /\ Sequences["complement"][15] = <<"ccf", "A", "A">>
  /\ Len(Sequences["complement"]) = 15
BY DEF Sequences, Run, OnA, ByWay

\* Each instruction of complement leads to the next point.
LEMMA ComplementStep ==
  ASSUME CpuTyped, Words, sequence = "complement", ComplementPoints, Execute8
  PROVE  ComplementPoints' /\ CpuTyped'
<1>1. done < 15
  BY ComplementProgram DEF Execute8
<1>2. X1' = X1 /\ X0' = X0 /\ Y1' = Y1 /\ Y0' = Y0 /\ x' = x /\ y' = y
  BY DEF Execute8, X1, X0, Y1, Y0
<1> USE DEF Registers
<1>3. CASE done = 0
  <2>1. Instruct("ld", "A", "E") /\ done' = 1
    BY <1>3, ComplementProgram, Executes DEF Skips
  <2>2. r'["A"] = r["E"] /\ f' = f /\ Keeps("A") /\ CpuTyped'
    BY <2>1, LoadDoes
  <2> QED BY <1>2, <1>3, <2>1, <2>2 DEF ComplementPoints, Keeps
<1>4. CASE done = 1
  <2>1. Instruct("cpl", "A", "A") /\ done' = 2
    BY <1>4, ComplementProgram, Executes DEF Skips
  <2>2. r'["A"] = 255 - r["A"] /\ Keeps("A") /\ CpuTyped'
    BY <2>1, CplDoes
  <2> QED BY <1>2, <1>4, <2>1, <2>2 DEF ComplementPoints, Keeps
<1>5. CASE done = 2
  <2>1. Instruct("ld", "E", "A") /\ done' = 3
    BY <1>5, ComplementProgram, Executes DEF Skips
  <2>2. r'["E"] = r["A"] /\ f' = f /\ Keeps("E") /\ CpuTyped'
    BY <2>1, LoadDoes
  <2> QED BY <1>2, <1>5, <2>1, <2>2 DEF ComplementPoints, Keeps
<1>6. CASE done = 3
  <2>1. Instruct("ld", "A", "D") /\ done' = 4
    BY <1>6, ComplementProgram, Executes DEF Skips
  <2>2. r'["A"] = r["D"] /\ f' = f /\ Keeps("A") /\ CpuTyped'
    BY <2>1, LoadDoes
  <2> QED BY <1>2, <1>6, <2>1, <2>2 DEF ComplementPoints, Keeps
<1>7. CASE done = 4
  <2>1. Instruct("cpl", "A", "A") /\ done' = 5
    BY <1>7, ComplementProgram, Executes DEF Skips
  <2>2. r'["A"] = 255 - r["A"] /\ Keeps("A") /\ CpuTyped'
    BY <2>1, CplDoes
  <2> QED BY <1>2, <1>7, <2>1, <2>2 DEF ComplementPoints, Keeps
<1>8. CASE done = 5
  <2>1. Instruct("ld", "D", "A") /\ done' = 6
    BY <1>8, ComplementProgram, Executes DEF Skips
  <2>2. r'["D"] = r["A"] /\ f' = f /\ Keeps("D") /\ CpuTyped'
    BY <2>1, LoadDoes
  <2> QED BY <1>2, <1>8, <2>1, <2>2 DEF ComplementPoints, Keeps
<1>9. CASE done = 6
  <2>1. Instruct("scf", "A", "A") /\ done' = 7
    BY <1>9, ComplementProgram, Executes DEF Skips
  <2>2. f'.carry = 1 /\ r' = r /\ CpuTyped'
    BY <2>1, ScfDoes
  <2> QED BY <1>2, <1>9, <2>1, <2>2 DEF ComplementPoints, Keeps
<1>10. CASE done = 7
  <2>1. Instruct("ld", "A", "L") /\ done' = 8
    BY <1>10, ComplementProgram, Executes DEF Skips
  <2>2. r'["A"] = r["L"] /\ f' = f /\ Keeps("A") /\ CpuTyped'
    BY <2>1, LoadDoes
  <2> QED BY <1>2, <1>10, <2>1, <2>2 DEF ComplementPoints, Keeps
<1>11. CASE done = 8
  <2>1. Instruct("adc", "A", "E") /\ done' = 9
    BY <1>11, ComplementProgram, Executes DEF Skips
  <2>2. /\ FromAluNext(r["A"], r["E"], 0, f.carry)
        /\ r'["A"] + (256 * f'.carry) = (r["A"] + r["E"]) + f.carry
        /\ Keeps("A")
        /\ CpuTyped'
    BY <2>1, AdcDoes
  <2>3. r'["A"] + (256 * f'.carry) = (X0 + (255 - Y0)) + 1
    BY <1>11, <2>2 DEF ComplementPoints
  <2>4. \A u \in Byte, v \in Byte : (u + (255 - v)) + 1 = 256 + (u - v)
    BY DEF Byte
  <2>5. r'["A"] + (256 * f'.carry) = 256 + (X0 - Y0)
    BY <2>3, <2>4 DEF Words
  <2> QED BY <1>2, <1>11, <2>1, <2>2, <2>5 DEF ComplementPoints, Keeps
<1>12. CASE done = 9
  <2>1. Instruct("ld", "L", "A") /\ done' = 10
    BY <1>12, ComplementProgram, Executes DEF Skips
  <2>2. r'["L"] = r["A"] /\ f' = f /\ Keeps("L") /\ CpuTyped'
    BY <2>1, LoadDoes
  <2> QED BY <1>2, <1>12, <2>1, <2>2 DEF ComplementPoints, Keeps
<1>13. CASE done = 10
  <2>1. Instruct("dec", "B", "B") /\ done' = 11
    BY <1>13, ComplementProgram, Executes DEF Skips
  <2>2. f'.carry = f.carry /\ Keeps("B") /\ CpuTyped'
    BY <2>1, StepDoes
  <2> QED BY <1>2, <1>13, <2>1, <2>2 DEF ComplementPoints, Keeps
<1>14. CASE done = 11
  <2>1. Instruct("ld", "A", "H") /\ done' = 12
    BY <1>14, ComplementProgram, Executes DEF Skips
  <2>2. r'["A"] = r["H"] /\ f' = f /\ Keeps("A") /\ CpuTyped'
    BY <2>1, LoadDoes
  <2> QED BY <1>2, <1>14, <2>1, <2>2 DEF ComplementPoints, Keeps
<1>15. CASE done = 12
  <2>1. Instruct("adc", "A", "D") /\ done' = 13
    BY <1>15, ComplementProgram, Executes DEF Skips
  <2>2. /\ FromAluNext(r["A"], r["D"], 0, f.carry)
        /\ r'["A"] + (256 * f'.carry) = (r["A"] + r["D"]) + f.carry
        /\ Keeps("A")
        /\ CpuTyped'
    BY <2>1, AdcDoes
  <2>3. /\ r'["L"] = r["L"]
        /\ r["L"] + (256 * f.carry) = 256 + (X0 - Y0)
        /\ r'["A"] + (256 * f'.carry) = (X1 + (255 - Y1)) + f.carry
    BY <1>15, <2>1, <2>2 DEF ComplementPoints, Keeps
  <2>4. PICK h \in Byte, l \in Byte, c \in 0..1, k \in 0..1 :
            h = r'["A"] /\ l = r'["L"] /\ c = f.carry /\ k = f'.carry
    BY <2>2 DEF CpuTyped, FlagsType, Registers
  <2>5. l + (256 * c) = 256 + (X0 - Y0) /\ h + (256 * k) = (X1 + (255 - Y1)) + c
    BY <2>3, <2>4
  <2>6. X1 \in Byte /\ X0 \in Byte /\ Y1 \in Byte /\ Y0 \in Byte
    BY DEF Words
  <2>7. ((256 * h) + l) + (65536 * k) = 65536 + (((256 * X1) + X0) - ((256 * Y1) + Y0))
    BY <2>5, <2>6 DEF Byte
  <2>8. ((256 * r'["A"]) + r'["L"]) + (65536 * f'.carry) = 65536 + (x - y)
    BY <2>4, <2>7 DEF Words
  <2> QED BY <1>2, <1>15, <2>1, <2>2, <2>8 DEF ComplementPoints, Keeps
<1>16. CASE done = 13
  <2>1. Instruct("ld", "H", "A") /\ done' = 14
    BY <1>16, ComplementProgram, Executes DEF Skips
  <2>2. r'["H"] = r["A"] /\ f' = f /\ Keeps("H") /\ CpuTyped'
    BY <2>1, LoadDoes
  <2> QED BY <1>2, <1>16, <2>1, <2>2 DEF ComplementPoints, Keeps
<1>17. CASE done = 14
  <2>1. Instruct("ccf", "A", "A") /\ done' = 15
    BY <1>17, ComplementProgram, Executes DEF Skips
  <2>2. f'.carry = 1 - f.carry /\ r' = r /\ CpuTyped'
    BY <2>1, CcfDoes
  <2>3. r["H"] \in Byte /\ r["L"] \in Byte /\ f.carry \in 0..1
    BY DEF CpuTyped, FlagsType
  <2>4. ((256 * r["H"]) + r["L"]) + (65536 * f.carry) = 65536 + (x - y)
    BY <1>17 DEF ComplementPoints
  <2>5. \A h \in Byte, l \in Byte, c \in 0..1, z \in Int :
          ((256 * h) + l) + (65536 * c) = 65536 + z => ((256 * h) + l) - (65536 * (1 - c)) = z
    BY DEF Byte
  <2>6. ((256 * r'["H"]) + r'["L"]) - (65536 * f'.carry) = x - y
    BY <2>2, <2>3, <2>4, <2>5 DEF Words
  <2> QED BY <1>2, <1>17, <2>1, <2>2, <2>6 DEF ComplementPoints
<1> QED
  BY <1>1, <1>3, <1>4, <1>5, <1>6, <1>7, <1>8, <1>9, <1>10, <1>11, <1>12, <1>13, <1>14, <1>15,
     <1>16, <1>17 DEF ComplementPoints

\* The instructions of compare
LEMMA CompareProgram ==
  /\ Sequences["compare"][1] = <<"ld", "A", "L">>
  /\ Sequences["compare"][2] = <<"cp", "A", "E">>
  /\ Sequences["compare"][3] = <<"ld", "A", "H">>
  /\ Sequences["compare"][4] = <<"sbc", "A", "D">>
  /\ Len(Sequences["compare"]) = 4
BY DEF Sequences, Run, OnA, ByWay

\* Each instruction of compare leads to the next point.
LEMMA CompareStep ==
  ASSUME CpuTyped, Words, sequence = "compare", ComparePoints, Execute8
  PROVE  ComparePoints' /\ CpuTyped'
<1>1. done < 4
  BY CompareProgram DEF Execute8
<1>2. X1' = X1 /\ X0' = X0 /\ Y1' = Y1 /\ Y0' = Y0 /\ x' = x /\ y' = y
  BY DEF Execute8, X1, X0, Y1, Y0
<1> USE DEF Registers
<1>3. CASE done = 0
  <2>1. Instruct("ld", "A", "L") /\ done' = 1
    BY <1>3, CompareProgram, Executes DEF Skips
  <2>2. r'["A"] = r["L"] /\ f' = f /\ Keeps("A") /\ CpuTyped'
    BY <2>1, LoadDoes
  <2> QED BY <1>2, <1>3, <2>1, <2>2 DEF ComparePoints, Keeps
<1>4. CASE done = 1
  <2>1. Instruct("cp", "A", "E") /\ done' = 2
    BY <1>4, CompareProgram, Executes DEF Skips
  <2>2. r' = r /\ f'.carry = Flag(r["A"] < r["E"]) /\ CpuTyped'
    BY <2>1, CpDoes
  <2> QED BY <1>2, <1>4, <2>1, <2>2 DEF ComparePoints, Keeps
<1>5. CASE done = 2
  <2>1. Instruct("ld", "A", "H") /\ done' = 3
    BY <1>5, CompareProgram, Executes DEF Skips
  <2>2. r'["A"] = r["H"] /\ f' = f /\ Keeps("A") /\ CpuTyped'
    BY <2>1, LoadDoes
  <2> QED BY <1>2, <1>5, <2>1, <2>2 DEF ComparePoints, Keeps
<1>6. CASE done = 3
  <2>1. Instruct("sbc", "A", "D") /\ done' = 4
    BY <1>6, CompareProgram, Executes DEF Skips
  <2>2. /\ FromAluNext(r["A"], r["D"], 1, f.carry)
        /\ r'["A"] - (256 * f'.carry) = r["A"] - (r["D"] + f.carry)
        /\ Keeps("A")
        /\ CpuTyped'
    BY <2>1, SbcDoes
  <2>3. PICK h \in Byte, k \in 0..1 : h = r'["A"] /\ k = f'.carry
    BY <2>2 DEF CpuTyped, FlagsType, Registers
  <2>4. h - (256 * k) = X1 - (Y1 + Flag(X0 < Y0))
    BY <1>6, <2>2, <2>3 DEF ComparePoints
  <2>5. X1 \in Byte /\ X0 \in Byte /\ Y1 \in Byte /\ Y0 \in Byte
    BY DEF Words
  <2>6. k = Flag((256 * X1) + X0 < (256 * Y1) + Y0)
    <3>1. k = 1 <=> X1 < Y1 + Flag(X0 < Y0)
      BY <2>4, <2>5 DEF Byte, Flag
    <3>2. (X1 < Y1 + Flag(X0 < Y0)) <=> ((256 * X1) + X0 < (256 * Y1) + Y0)
      BY <2>5 DEF Byte, Flag
    <3> QED BY <3>1, <3>2 DEF Flag
  <2>7. f'.carry = Flag(x < y)
    BY <2>3, <2>6 DEF Words
  <2> QED BY <1>2, <1>6, <2>1, <2>2, <2>7 DEF ComparePoints, Keeps
<1> QED BY <1>1, <1>3, <1>4, <1>5, <1>6 DEF ComparePoints

\* The instructions of negate
LEMMA NegateProgram ==
  /\ Sequences["negate"][1] = <<"xor", "A", "A">>
  /\ Sequences["negate"][2] = <<"sub", "A", "L">>
  /\ Sequences["negate"][3] = <<"ld", "L", "A">>
  /\ Sequences["negate"][4] = <<"sbc", "A", "A">>
  /\ Sequences["negate"][5] = <<"sub", "A", "H">>
  /\ Sequences["negate"][6] = <<"ld", "H", "A">>
  /\ Len(Sequences["negate"]) = 6
BY DEF Sequences, Run, OnA, ByWay

\* Each instruction of negate leads to the next point.
LEMMA NegateStep ==
  ASSUME CpuTyped, Words, sequence = "negate", NegatePoints, Execute8
  PROVE  NegatePoints' /\ CpuTyped'
<1>1. done < 6
  BY NegateProgram DEF Execute8
<1>2. X1' = X1 /\ X0' = X0 /\ Y1' = Y1 /\ Y0' = Y0 /\ x' = x /\ y' = y
  BY DEF Execute8, X1, X0, Y1, Y0
<1> USE DEF Registers
<1>3. CASE done = 0
  <2>1. Instruct("xor", "A", "A") /\ done' = 1
    BY <1>3, NegateProgram, Executes DEF Skips
  <2>2. r'["A"] = 0 /\ f'.carry = 0 /\ Keeps("A") /\ CpuTyped'
    <3>1. r["A"] \in Byte
      BY <1>3 DEF CpuTyped, NegatePoints, Words
    <3>2. Xor(r["A"], r["A"]) = 0
      BY <3>1, XorSelf
    <3>3. 0 \in Byte
      BY <3>1, XorSelf DEF Byte
    <3> QED BY <2>1, <3>2, <3>3, CombineDoes DEF Logic
  <2> QED BY <1>2, <1>3, <2>1, <2>2 DEF NegatePoints, Keeps
<1>4. CASE done = 1
  <2>1. Instruct("sub", "A", "L") /\ done' = 2
    BY <1>4, NegateProgram, Executes DEF Skips
  <2>2. /\ FromAluNext(r["A"], r["L"], 1, 0)
        /\ r'["A"] - (256 * f'.carry) = r["A"] - r["L"]
        /\ Keeps("A")
        /\ CpuTyped'
    BY <2>1, SubDoes
  <2> QED BY <1>2, <1>4, <2>1, <2>2 DEF NegatePoints, Keeps
<1>5. CASE done = 2
  <2>1. Instruct("ld", "L", "A") /\ done' = 3
    BY <1>5, NegateProgram, Executes DEF Skips
  <2>2. r'["L"] = r["A"] /\ f' = f /\ Keeps("L") /\ CpuTyped'
    BY <2>1, LoadDoes
  <2> QED BY <1>2, <1>5, <2>1, <2>2 DEF NegatePoints, Keeps
<1>6. CASE done = 3
  <2>1. Instruct("sbc", "A", "A") /\ done' = 4
    BY <1>6, NegateProgram, Executes DEF Skips
  <2>2. /\ FromAluNext(r["A"], r["A"], 1, f.carry)
        /\ r'["A"] - (256 * f'.carry) = r["A"] - (r["A"] + f.carry)
        /\ Keeps("A")
        /\ CpuTyped'
    BY <2>1, SbcDoes
  <2>3. PICK u \in Byte, c \in 0..1, v \in Byte, k \in 0..1 :
            u = r["A"] /\ c = f.carry /\ v = r'["A"] /\ k = f'.carry
    BY <2>2 DEF CpuTyped, FlagsType, Registers
  <2>4. v - (256 * k) = u - (u + c)
    BY <2>2, <2>3
  <2>5. v = 255 * k /\ k = c
    BY <2>4 DEF Byte
  <2>6. r'["A"] = 255 * f'.carry /\ f'.carry = f.carry
    BY <2>3, <2>5
  <2> QED BY <1>2, <1>6, <2>1, <2>2, <2>6 DEF NegatePoints, Keeps
<1>7. CASE done = 4
  <2>1. Instruct("sub", "A", "H") /\ done' = 5
    BY <1>7, NegateProgram, Executes DEF Skips
  <2>2. /\ FromAluNext(r["A"], r["H"], 1, 0)
        /\ r'["A"] - (256 * f'.carry) = r["A"] - r["H"]
        /\ Keeps("A")
        /\ CpuTyped'
    BY <2>1, SubDoes
  <2>3. /\ r'["L"] = r["L"] /\ r["L"] - (256 * f.carry) = 0 - X0
        /\ r'["A"] - (256 * f'.carry) = (255 * f.carry) - X1
    BY <1>7, <2>1, <2>2 DEF NegatePoints, Keeps
  <2>4. PICK h \in Byte, l \in Byte, c \in 0..1, k \in 0..1 :
            h = r'["A"] /\ l = r'["L"] /\ c = f.carry /\ k = f'.carry
    BY <2>2 DEF CpuTyped, FlagsType, Registers
  <2>5. l - (256 * c) = 0 - X0 /\ h - (256 * k) = (255 * c) - X1
    BY <2>3, <2>4
  <2>6. PICK v \in Nat : v <= 65535 /\ v = (256 * h) + l
    BY DEF Byte
  <2>7. x \in Nat /\ x <= 65535 /\ v + x = 65536 * (c + k)
    BY <2>5, <2>6 DEF Words, Byte
  <2>8. v + x = 0 \/ v + x = 65536
    BY <2>6, <2>7
  <2>9. v = (65536 - x) % 65536
    <3>1. v \in Nat /\ x \in Nat /\ v <= 65535 /\ x <= 65535
      BY <2>6, <2>7
    <3> QED BY <2>8, <3>1, NegativeWord
  <2>10. (256 * r'["A"]) + r'["L"] = (65536 - x) % 65536
    BY <2>4, <2>6, <2>9
  <2> QED BY <1>2, <1>7, <2>1, <2>2, <2>10 DEF NegatePoints, Keeps
<1>8. CASE done = 5
  <2>1. Instruct("ld", "H", "A") /\ done' = 6
    BY <1>8, NegateProgram, Executes DEF Skips
  <2>2. r'["H"] = r["A"] /\ f' = f /\ Keeps("H") /\ CpuTyped'
    BY <2>1, LoadDoes
  <2> QED BY <1>2, <1>8, <2>1, <2>2 DEF NegatePoints, Keeps
<1> QED BY <1>1, <1>3, <1>4, <1>5, <1>6, <1>7, <1>8 DEF NegatePoints

\* The instructions of add_word
LEMMA AddWordProgram ==
  /\ Sequences["add_word"][1] = <<"add_hl", "D", "E">>
  /\ Len(Sequences["add_word"]) = 1
BY DEF Sequences, Run, OnA, ByWay

\* Each instruction of add_word leads to the next point.
LEMMA AddWordStep ==
  ASSUME CpuTyped, Words, sequence = "add_word", AddWordPoints, Execute8
  PROVE  AddWordPoints' /\ CpuTyped'
<1>1. done < 1
  BY AddWordProgram DEF Execute8
<1>2. X1' = X1 /\ X0' = X0 /\ Y1' = Y1 /\ Y0' = Y0 /\ x' = x /\ y' = y
  BY DEF Execute8, X1, X0, Y1, Y0
<1> USE DEF Registers
<1>3. CASE done = 0
  <2>1. Instruct("add_hl", "D", "E") /\ done' = 1
    BY <1>3, AddWordProgram, Executes DEF Skips
  <2>2. (65536 * f'.carry) + ((256 * r'["H"]) + r'["L"]) = Pair("H", "L") + Pair("D", "E") /\ CpuTyped'
    BY <2>1, AddHlDoes
  <2>3. Pair("H", "L") = x /\ Pair("D", "E") = y
    BY <1>3 DEF AddWordPoints, Pair, Words
  <2> QED BY <1>2, <2>1, <2>2, <2>3 DEF AddWordPoints
<1> QED BY <1>1, <1>3 DEF AddWordPoints

\* The instructions of increment
LEMMA IncrementProgram ==
  /\ Sequences["increment"][1] = <<"inc", "L", "L">>
  /\ Sequences["increment"][2] = <<"skip_nz", "A", "A">>
  /\ Sequences["increment"][3] = <<"inc", "H", "H">>
  /\ Len(Sequences["increment"]) = 3
BY DEF Sequences, Run, OnA, ByWay

\* Each instruction of increment leads to the next point.
LEMMA IncrementStep ==
  ASSUME CpuTyped, Words, sequence = "increment", IncrementPoints, Execute8
  PROVE  IncrementPoints' /\ CpuTyped'
<1>1. done < 3
  BY IncrementProgram DEF Execute8
<1>2. X1' = X1 /\ X0' = X0 /\ Y1' = Y1 /\ Y0' = Y0 /\ x' = x /\ y' = y
  BY DEF Execute8, X1, X0, Y1, Y0
<1> USE DEF Registers
<1>3. CASE done = 0
  <2>1. Instruct("inc", "L", "L") /\ done' = 1
    BY <1>3, IncrementProgram, Executes DEF Skips
  <2>2. /\ r'["L"] = (r["L"] + 1) % 256
        /\ f'.carry = f.carry
        /\ f'.zero = Flag(r'["L"] = 0)
        /\ Keeps("L")
        /\ CpuTyped'
    BY <2>1, StepDoes
  <2> QED BY <1>2, <1>3, <2>1, <2>2 DEF IncrementPoints, Keeps
<1>4. CASE done = 1
  <2>1. Instruct("skip_nz", "A", "A") /\ done' = done + (IF f.zero = 0 THEN 2 ELSE 1)
    BY <1>4, IncrementProgram, Executes DEF Skips
  <2>2. r' = r /\ f' = f /\ CpuTyped'
    BY <2>1, SkipDoes
  <2>3. r["L"] = (X0 + 1) % 256 /\ f.zero = Flag(r["L"] = 0) /\ r["H"] = X1
    BY <1>4 DEF IncrementPoints
  <2>4. CASE r["L"] = 0
    <3>1. done' = 2 BY <2>1, <2>3, <2>4, <1>4 DEF Flag
    <3>2. X0 = 255 BY <2>3, <2>4, IncrementCarries DEF Words
    <3> QED BY <1>2, <2>2, <2>3, <2>4, <3>1, <3>2 DEF IncrementPoints
  <2>5. CASE r["L"] # 0
    <3>1. done' = 3 BY <2>1, <2>3, <2>5, <1>4 DEF Flag
    <3>2. (256 * X1) + r["L"] = (x + 1) % 65536 BY <2>3, <2>5, IncrementCarries DEF Words
    <3> QED BY <1>2, <2>2, <2>3, <3>1, <3>2 DEF IncrementPoints
  <2> QED BY <2>4, <2>5
<1>5. CASE done = 2
  <2>1. Instruct("inc", "H", "H") /\ done' = 3
    BY <1>5, IncrementProgram, Executes DEF Skips
  <2>2. /\ r'["H"] = (r["H"] + 1) % 256
        /\ f'.carry = f.carry
        /\ f'.zero = Flag(r'["H"] = 0)
        /\ Keeps("H")
        /\ CpuTyped'
    BY <2>1, StepDoes
  <2>3. r'["H"] = (X1 + 1) % 256 /\ r'["L"] = 0 /\ X0 = 255
    BY <1>5, <2>2 DEF IncrementPoints, Keeps
  <2>4. (256 * ((X1 + 1) % 256)) + 0 = (x + 1) % 65536
    BY <2>3, IncrementCarries DEF Words
  <2> QED BY <1>2, <2>1, <2>2, <2>3, <2>4 DEF IncrementPoints
<1> QED BY <1>1, <1>3, <1>4, <1>5 DEF IncrementPoints

\* The instructions of double
LEMMA DoubleProgram ==
  /\ Sequences["double"][1] = <<"sla", "L", "L">>
  /\ Sequences["double"][2] = <<"inc", "B", "B">>
  /\ Sequences["double"][3] = <<"rl", "H", "H">>
  /\ Len(Sequences["double"]) = 3
BY DEF Sequences, Run, OnA, ByWay

\* Each instruction of double leads to the next point.
LEMMA DoubleStep ==
  ASSUME CpuTyped, Words, sequence = "double", DoublePoints, Execute8
  PROVE  DoublePoints' /\ CpuTyped'
<1>1. done < 3
  BY DoubleProgram DEF Execute8
<1>2. X1' = X1 /\ X0' = X0 /\ Y1' = Y1 /\ Y0' = Y0 /\ x' = x /\ y' = y
  BY DEF Execute8, X1, X0, Y1, Y0
<1> USE DEF Registers
<1>3. CASE done = 0
  <2>1. Instruct("sla", "L", "L") /\ done' = 1
    BY <1>3, DoubleProgram, Executes DEF Skips
  <2>2. r'["L"] + (256 * f'.carry) = 2 * r["L"] /\ Keeps("L") /\ CpuTyped'
    BY <2>1, SlaDoes
  <2> QED BY <1>2, <1>3, <2>1, <2>2 DEF DoublePoints, Keeps
<1>4. CASE done = 1
  <2>1. Instruct("inc", "B", "B") /\ done' = 2
    BY <1>4, DoubleProgram, Executes DEF Skips
  <2>2. /\ r'["B"] = (r["B"] + 1) % 256
        /\ f'.carry = f.carry
        /\ f'.zero = Flag(r'["B"] = 0)
        /\ Keeps("B")
        /\ CpuTyped'
    BY <2>1, StepDoes
  <2> QED BY <1>2, <1>4, <2>1, <2>2 DEF DoublePoints, Keeps
<1>5. CASE done = 2
  <2>1. Instruct("rl", "H", "H") /\ done' = 3
    BY <1>5, DoubleProgram, Executes DEF Skips
  <2>2. r'["H"] + (256 * f'.carry) = (2 * r["H"]) + f.carry /\ Keeps("H") /\ CpuTyped'
    BY <2>1, RlDoes
  <2>3. /\ r'["L"] = r["L"]
        /\ r["L"] + (256 * f.carry) = 2 * X0
        /\ r'["H"] + (256 * f'.carry) = (2 * X1) + f.carry
    BY <1>5, <2>1, <2>2 DEF DoublePoints, Keeps
  <2>4. PICK h \in Byte, l \in Byte, c \in 0..1, k \in 0..1 :
            h = r'["H"] /\ l = r'["L"] /\ c = f.carry /\ k = f'.carry
    BY <2>2 DEF CpuTyped, FlagsType, Registers
  <2>5. l + (256 * c) = 2 * X0 /\ h + (256 * k) = (2 * X1) + c
    BY <2>3, <2>4
  <2>6. X1 \in Byte /\ X0 \in Byte /\ Y1 \in Byte /\ Y0 \in Byte
    BY DEF Words
  <2>7. (65536 * k) + ((256 * h) + l) = 2 * ((256 * X1) + X0)
    BY <2>5, <2>6 DEF Byte
  <2>8. (65536 * f'.carry) + ((256 * r'["H"]) + r'["L"]) = 2 * x
    BY <2>4, <2>7 DEF Words
  <2> QED BY <1>2, <1>5, <2>1, <2>2, <2>8 DEF DoublePoints, Keeps
<1> QED BY <1>1, <1>3, <1>4, <1>5 DEF DoublePoints

\* The instructions of double_in_a
LEMMA DoubleInAProgram ==
  /\ Sequences["double_in_a"][1] = <<"ld", "A", "L">>
  /\ Sequences["double_in_a"][2] = <<"or", "A", "A">>
  /\ Sequences["double_in_a"][3] = <<"rla", "A", "A">>
  /\ Sequences["double_in_a"][4] = <<"ld", "L", "A">>
  /\ Sequences["double_in_a"][5] = <<"ld", "A", "H">>
  /\ Sequences["double_in_a"][6] = <<"rla", "A", "A">>
  /\ Sequences["double_in_a"][7] = <<"ld", "H", "A">>
  /\ Len(Sequences["double_in_a"]) = 7
BY DEF Sequences, Run, OnA, ByWay

\* Each instruction of double_in_a leads to the next point.
LEMMA DoubleInAStep ==
  ASSUME CpuTyped, Words, sequence = "double_in_a", DoubleInAPoints, Execute8
  PROVE  DoubleInAPoints' /\ CpuTyped'
<1>1. done < 7
  BY DoubleInAProgram DEF Execute8
<1>2. X1' = X1 /\ X0' = X0 /\ Y1' = Y1 /\ Y0' = Y0 /\ x' = x /\ y' = y
  BY DEF Execute8, X1, X0, Y1, Y0
<1> USE DEF Registers
<1>3. CASE done = 0
  <2>1. Instruct("ld", "A", "L") /\ done' = 1
    BY <1>3, DoubleInAProgram, Executes DEF Skips
  <2>2. r'["A"] = r["L"] /\ f' = f /\ Keeps("A") /\ CpuTyped'
    BY <2>1, LoadDoes
  <2> QED BY <1>2, <1>3, <2>1, <2>2 DEF DoubleInAPoints, Keeps
<1>4. CASE done = 1
  <2>1. Instruct("or", "A", "A") /\ done' = 2
    BY <1>4, DoubleInAProgram, Executes DEF Skips
  <2>2. r'["A"] = X0 /\ f'.carry = 0 /\ Keeps("A") /\ CpuTyped'
    <3>1. r["A"] = X0 /\ X0 \in Byte
      BY <1>4 DEF CpuTyped, DoubleInAPoints, Words
    <3>2. Or(r["A"], r["A"]) = X0
      BY <3>1, OrSelf
    <3>3. X0 \in Byte
      BY <3>1, OrSelf DEF Byte
    <3> QED BY <2>1, <3>2, <3>3, CombineDoes DEF Logic
  <2> QED BY <1>2, <1>4, <2>1, <2>2 DEF DoubleInAPoints, Keeps
<1>5. CASE done = 2
  <2>1. Instruct("rla", "A", "A") /\ done' = 3
    BY <1>5, DoubleInAProgram, Executes DEF Skips
  <2>2. r'["A"] + (256 * f'.carry) = (2 * r["A"]) + f.carry /\ Keeps("A") /\ CpuTyped'
    BY <2>1, RlaDoes
  <2>3. r["A"] = X0 /\ f.carry = 0 /\ X0 \in Byte
    BY <1>5 DEF DoubleInAPoints, Words
  <2>4. (2 * r["A"]) + f.carry = 2 * X0
    BY <2>3 DEF Byte
  <2>5. r'["A"] + (256 * f'.carry) = 2 * X0
    BY <2>2, <2>4
  <2> QED BY <1>2, <1>5, <2>1, <2>2, <2>5 DEF DoubleInAPoints, Keeps
<1>6. CASE done = 3
  <2>1. Instruct("ld", "L", "A") /\ done' = 4
    BY <1>6, DoubleInAProgram, Executes DEF Skips
  <2>2. r'["L"] = r["A"] /\ f' = f /\ Keeps("L") /\ CpuTyped'
    BY <2>1, LoadDoes
  <2> QED BY <1>2, <1>6, <2>1, <2>2 DEF DoubleInAPoints, Keeps
<1>7. CASE done = 4
  <2>1. Instruct("ld", "A", "H") /\ done' = 5
    BY <1>7, DoubleInAProgram, Executes DEF Skips
  <2>2. r'["A"] = r["H"] /\ f' = f /\ Keeps("A") /\ CpuTyped'
    BY <2>1, LoadDoes
  <2> QED BY <1>2, <1>7, <2>1, <2>2 DEF DoubleInAPoints, Keeps
<1>8. CASE done = 5
  <2>1. Instruct("rla", "A", "A") /\ done' = 6
    BY <1>8, DoubleInAProgram, Executes DEF Skips
  <2>2. r'["A"] + (256 * f'.carry) = (2 * r["A"]) + f.carry /\ Keeps("A") /\ CpuTyped'
    BY <2>1, RlaDoes
  <2>3. /\ r'["L"] = r["L"]
        /\ r["L"] + (256 * f.carry) = 2 * X0
        /\ r'["A"] + (256 * f'.carry) = (2 * X1) + f.carry
    BY <1>8, <2>1, <2>2 DEF DoubleInAPoints, Keeps
  <2>4. PICK h \in Byte, l \in Byte, c \in 0..1, k \in 0..1 :
            h = r'["A"] /\ l = r'["L"] /\ c = f.carry /\ k = f'.carry
    BY <2>2 DEF CpuTyped, FlagsType, Registers
  <2>5. l + (256 * c) = 2 * X0 /\ h + (256 * k) = (2 * X1) + c
    BY <2>3, <2>4
  <2>6. X1 \in Byte /\ X0 \in Byte /\ Y1 \in Byte /\ Y0 \in Byte
    BY DEF Words
  <2>7. (65536 * k) + ((256 * h) + l) = 2 * ((256 * X1) + X0)
    BY <2>5, <2>6 DEF Byte
  <2>8. (65536 * f'.carry) + ((256 * r'["A"]) + r'["L"]) = 2 * x
    BY <2>4, <2>7 DEF Words
  <2> QED BY <1>2, <1>8, <2>1, <2>2, <2>8 DEF DoubleInAPoints, Keeps
<1>9. CASE done = 6
  <2>1. Instruct("ld", "H", "A") /\ done' = 7
    BY <1>9, DoubleInAProgram, Executes DEF Skips
  <2>2. r'["H"] = r["A"] /\ f' = f /\ Keeps("H") /\ CpuTyped'
    BY <2>1, LoadDoes
  <2> QED BY <1>2, <1>9, <2>1, <2>2 DEF DoubleInAPoints, Keeps
<1> QED BY <1>1, <1>3, <1>4, <1>5, <1>6, <1>7, <1>8, <1>9 DEF DoubleInAPoints

\* The instructions of halve
LEMMA HalveProgram ==
  /\ Sequences["halve"][1] = <<"srl", "H", "H">>
  /\ Sequences["halve"][2] = <<"dec", "B", "B">>
  /\ Sequences["halve"][3] = <<"rr", "L", "L">>
  /\ Len(Sequences["halve"]) = 3
BY DEF Sequences, Run, OnA, ByWay

\* Each instruction of halve leads to the next point.
LEMMA HalveStep ==
  ASSUME CpuTyped, Words, sequence = "halve", HalvePoints, Execute8
  PROVE  HalvePoints' /\ CpuTyped'
<1>1. done < 3
  BY HalveProgram DEF Execute8
<1>2. X1' = X1 /\ X0' = X0 /\ Y1' = Y1 /\ Y0' = Y0 /\ x' = x /\ y' = y
  BY DEF Execute8, X1, X0, Y1, Y0
<1> USE DEF Registers
<1>3. CASE done = 0
  <2>1. Instruct("srl", "H", "H") /\ done' = 1
    BY <1>3, HalveProgram, Executes DEF Skips
  <2>2. (2 * r'["H"]) + f'.carry = r["H"] /\ Keeps("H") /\ CpuTyped'
    BY <2>1, SrlDoes
  <2> QED BY <1>2, <1>3, <2>1, <2>2 DEF HalvePoints, Keeps
<1>4. CASE done = 1
  <2>1. Instruct("dec", "B", "B") /\ done' = 2
    BY <1>4, HalveProgram, Executes DEF Skips
  <2>2. f'.carry = f.carry /\ Keeps("B") /\ CpuTyped'
    BY <2>1, StepDoes
  <2> QED BY <1>2, <1>4, <2>1, <2>2 DEF HalvePoints, Keeps
<1>5. CASE done = 2
  <2>1. Instruct("rr", "L", "L") /\ done' = 3
    BY <1>5, HalveProgram, Executes DEF Skips
  <2>2. (2 * r'["L"]) + f'.carry = r["L"] + (256 * f.carry) /\ Keeps("L") /\ CpuTyped'
    BY <2>1, RrDoes
  <2>3. /\ r'["H"] = r["H"]
        /\ (2 * r["H"]) + f.carry = X1
        /\ (2 * r'["L"]) + f'.carry = X0 + (256 * f.carry)
    BY <1>5, <2>1, <2>2 DEF HalvePoints, Keeps
  <2>4. PICK h \in Byte, l \in Byte, c \in 0..1, k \in 0..1 :
            h = r'["H"] /\ l = r'["L"] /\ c = f.carry /\ k = f'.carry
    BY <2>2 DEF CpuTyped, FlagsType, Registers
  <2>5. (2 * h) + c = X1 /\ (2 * l) + k = X0 + (256 * c)
    BY <2>3, <2>4
  <2>6. X1 \in Byte /\ X0 \in Byte /\ Y1 \in Byte /\ Y0 \in Byte
    BY DEF Words
  <2>7. (2 * ((256 * h) + l)) + k = (256 * X1) + X0
    BY <2>5, <2>6 DEF Byte
  <2>8. (2 * ((256 * r'["H"]) + r'["L"])) + f'.carry = x
    BY <2>4, <2>7 DEF Words
  <2> QED BY <1>2, <1>5, <2>1, <2>2, <2>8 DEF HalvePoints, Keeps
<1> QED BY <1>1, <1>3, <1>4, <1>5 DEF HalvePoints

\* The instructions of halve_in_a
LEMMA HalveInAProgram ==
  /\ Sequences["halve_in_a"][1] = <<"ld", "A", "H">>
  /\ Sequences["halve_in_a"][2] = <<"and", "A", "A">>
  /\ Sequences["halve_in_a"][3] = <<"rra", "A", "A">>
  /\ Sequences["halve_in_a"][4] = <<"ld", "H", "A">>
  /\ Sequences["halve_in_a"][5] = <<"ld", "A", "L">>
  /\ Sequences["halve_in_a"][6] = <<"rra", "A", "A">>
  /\ Sequences["halve_in_a"][7] = <<"ld", "L", "A">>
  /\ Len(Sequences["halve_in_a"]) = 7
BY DEF Sequences, Run, OnA, ByWay

\* Each instruction of halve_in_a leads to the next point.
LEMMA HalveInAStep ==
  ASSUME CpuTyped, Words, sequence = "halve_in_a", HalveInAPoints, Execute8
  PROVE  HalveInAPoints' /\ CpuTyped'
<1>1. done < 7
  BY HalveInAProgram DEF Execute8
<1>2. X1' = X1 /\ X0' = X0 /\ Y1' = Y1 /\ Y0' = Y0 /\ x' = x /\ y' = y
  BY DEF Execute8, X1, X0, Y1, Y0
<1> USE DEF Registers
<1>3. CASE done = 0
  <2>1. Instruct("ld", "A", "H") /\ done' = 1
    BY <1>3, HalveInAProgram, Executes DEF Skips
  <2>2. r'["A"] = r["H"] /\ f' = f /\ Keeps("A") /\ CpuTyped'
    BY <2>1, LoadDoes
  <2> QED BY <1>2, <1>3, <2>1, <2>2 DEF HalveInAPoints, Keeps
<1>4. CASE done = 1
  <2>1. Instruct("and", "A", "A") /\ done' = 2
    BY <1>4, HalveInAProgram, Executes DEF Skips
  <2>2. r'["A"] = X1 /\ f'.carry = 0 /\ Keeps("A") /\ CpuTyped'
    <3>1. r["A"] = X1 /\ X1 \in Byte
      BY <1>4 DEF CpuTyped, HalveInAPoints, Words
    <3>2. And(r["A"], r["A"]) = X1
      BY <3>1, AndSelf
    <3>3. X1 \in Byte
      BY <3>1, AndSelf DEF Byte
    <3> QED BY <2>1, <3>2, <3>3, CombineDoes DEF Logic
  <2> QED BY <1>2, <1>4, <2>1, <2>2 DEF HalveInAPoints, Keeps
<1>5. CASE done = 2
  <2>1. Instruct("rra", "A", "A") /\ done' = 3
    BY <1>5, HalveInAProgram, Executes DEF Skips
  <2>2. (2 * r'["A"]) + f'.carry = r["A"] + (256 * f.carry) /\ Keeps("A") /\ CpuTyped'
    BY <2>1, RraDoes
  <2>3. r["A"] = X1 /\ f.carry = 0 /\ X1 \in Byte
    BY <1>5 DEF HalveInAPoints, Words
  <2>4. r["A"] + (256 * f.carry) = X1
    BY <2>3 DEF Byte
  <2>5. (2 * r'["A"]) + f'.carry = X1
    BY <2>2, <2>4
  <2> QED BY <1>2, <1>5, <2>1, <2>2, <2>5 DEF HalveInAPoints, Keeps
<1>6. CASE done = 3
  <2>1. Instruct("ld", "H", "A") /\ done' = 4
    BY <1>6, HalveInAProgram, Executes DEF Skips
  <2>2. r'["H"] = r["A"] /\ f' = f /\ Keeps("H") /\ CpuTyped'
    BY <2>1, LoadDoes
  <2> QED BY <1>2, <1>6, <2>1, <2>2 DEF HalveInAPoints, Keeps
<1>7. CASE done = 4
  <2>1. Instruct("ld", "A", "L") /\ done' = 5
    BY <1>7, HalveInAProgram, Executes DEF Skips
  <2>2. r'["A"] = r["L"] /\ f' = f /\ Keeps("A") /\ CpuTyped'
    BY <2>1, LoadDoes
  <2> QED BY <1>2, <1>7, <2>1, <2>2 DEF HalveInAPoints, Keeps
<1>8. CASE done = 5
  <2>1. Instruct("rra", "A", "A") /\ done' = 6
    BY <1>8, HalveInAProgram, Executes DEF Skips
  <2>2. (2 * r'["A"]) + f'.carry = r["A"] + (256 * f.carry) /\ Keeps("A") /\ CpuTyped'
    BY <2>1, RraDoes
  <2>3. /\ r'["H"] = r["H"]
        /\ (2 * r["H"]) + f.carry = X1
        /\ (2 * r'["A"]) + f'.carry = X0 + (256 * f.carry)
    BY <1>8, <2>1, <2>2 DEF HalveInAPoints, Keeps
  <2>4. PICK h \in Byte, l \in Byte, c \in 0..1, k \in 0..1 :
            h = r'["H"] /\ l = r'["A"] /\ c = f.carry /\ k = f'.carry
    BY <2>2 DEF CpuTyped, FlagsType, Registers
  <2>5. (2 * h) + c = X1 /\ (2 * l) + k = X0 + (256 * c)
    BY <2>3, <2>4
  <2>6. X1 \in Byte /\ X0 \in Byte /\ Y1 \in Byte /\ Y0 \in Byte
    BY DEF Words
  <2>7. (2 * ((256 * h) + l)) + k = (256 * X1) + X0
    BY <2>5, <2>6 DEF Byte
  <2>8. (2 * ((256 * r'["H"]) + r'["A"])) + f'.carry = x
    BY <2>4, <2>7 DEF Words
  <2> QED BY <1>2, <1>8, <2>1, <2>2, <2>8 DEF HalveInAPoints, Keeps
<1>9. CASE done = 6
  <2>1. Instruct("ld", "L", "A") /\ done' = 7
    BY <1>9, HalveInAProgram, Executes DEF Skips
  <2>2. r'["L"] = r["A"] /\ f' = f /\ Keeps("L") /\ CpuTyped'
    BY <2>1, LoadDoes
  <2> QED BY <1>2, <1>9, <2>1, <2>2 DEF HalveInAPoints, Keeps
<1> QED BY <1>1, <1>3, <1>4, <1>5, <1>6, <1>7, <1>8, <1>9 DEF HalveInAPoints

\* The instructions of halve_signed
LEMMA HalveSignedProgram ==
  /\ Sequences["halve_signed"][1] = <<"sra", "H", "H">>
  /\ Sequences["halve_signed"][2] = <<"rr", "L", "L">>
  /\ Len(Sequences["halve_signed"]) = 2
BY DEF Sequences, Run, OnA, ByWay

\* Each instruction of halve_signed leads to the next point.
LEMMA HalveSignedStep ==
  ASSUME CpuTyped, Words, sequence = "halve_signed", HalveSignedPoints, Execute8
  PROVE  HalveSignedPoints' /\ CpuTyped'
<1>1. done < 2
  BY HalveSignedProgram DEF Execute8
<1>2. X1' = X1 /\ X0' = X0 /\ Y1' = Y1 /\ Y0' = Y0 /\ x' = x /\ y' = y
  BY DEF Execute8, X1, X0, Y1, Y0
<1> USE DEF Registers
<1>3. CASE done = 0
  <2>1. Instruct("sra", "H", "H") /\ done' = 1
    BY <1>3, HalveSignedProgram, Executes DEF Skips
  <2>2. (2 * r'["H"]) + f'.carry = r["H"] + (IF r["H"] > 127 THEN 256 ELSE 0) /\ Keeps("H") /\ CpuTyped'
    BY <2>1, SraDoes
  <2> QED BY <1>2, <1>3, <2>1, <2>2 DEF HalveSignedPoints, Keeps
<1>4. CASE done = 1
  <2>1. Instruct("rr", "L", "L") /\ done' = 2
    BY <1>4, HalveSignedProgram, Executes DEF Skips
  <2>2. (2 * r'["L"]) + f'.carry = r["L"] + (256 * f.carry) /\ Keeps("L") /\ CpuTyped'
    BY <2>1, RrDoes
  <2>3. /\ r'["H"] = r["H"] /\ (2 * r["H"]) + f.carry = X1 + (IF X1 > 127 THEN 256 ELSE 0)
        /\ (2 * r'["L"]) + f'.carry = X0 + (256 * f.carry)
    BY <1>4, <2>1, <2>2 DEF HalveSignedPoints, Keeps
  <2>4. PICK h \in Byte, l \in Byte, c \in 0..1, k \in 0..1 :
            h = r'["H"] /\ l = r'["L"] /\ c = f.carry /\ k = f'.carry
    BY <2>2 DEF CpuTyped, FlagsType, Registers
  <2>5. /\ (2 * h) + c = X1 + (IF X1 > 127 THEN 256 ELSE 0)
        /\ (2 * l) + k = X0 + (256 * c)
    BY <2>3, <2>4
  <2>6. X1 \in Byte /\ X0 \in Byte
    BY DEF Words
  <2>7. (2 * ((256 * h) + l)) + k = ((256 * X1) + X0) + (IF (256 * X1) + X0 > 32767 THEN 65536 ELSE 0)
    BY <2>5, <2>6 DEF Byte
  <2>8. (2 * ((256 * r'["H"]) + r'["L"])) + f'.carry = x + (IF x > 32767 THEN 65536 ELSE 0)
    BY <2>4, <2>7 DEF Words
  <2> QED BY <1>2, <2>1, <2>2, <2>8 DEF HalveSignedPoints
<1> QED BY <1>1, <1>3, <1>4 DEF HalveSignedPoints

\* The instructions of round
LEMMA RoundProgram ==
  /\ Sequences["round"][1] = <<"rlc", "L", "L">>
  /\ Sequences["round"][2] = <<"ld", "A", "L">>
  /\ Sequences["round"][3] = <<"rrca", "A", "A">>
  /\ Sequences["round"][4] = <<"rlca", "A", "A">>
  /\ Sequences["round"][5] = <<"ld", "L", "A">>
  /\ Sequences["round"][6] = <<"rrc", "L", "L">>
  /\ Len(Sequences["round"]) = 6
BY DEF Sequences, Run, OnA, ByWay

\* Each instruction of round leads to the next point.
LEMMA RoundStep ==
  ASSUME CpuTyped, Words, sequence = "round", RoundPoints, Execute8
  PROVE  RoundPoints' /\ CpuTyped'
<1>1. done < 6
  BY RoundProgram DEF Execute8
<1>2. X1' = X1 /\ X0' = X0 /\ Y1' = Y1 /\ Y0' = Y0 /\ x' = x /\ y' = y
  BY DEF Execute8, X1, X0, Y1, Y0
<1> USE DEF Registers
<1>3. CASE done = 0
  <2>1. Instruct("rlc", "L", "L") /\ done' = 1
    BY <1>3, RoundProgram, Executes DEF Skips
  <2>2. r'["L"] = RotatedLeft(r["L"]) /\ Keeps("L") /\ CpuTyped'
    BY <2>1, RlcDoes
  <2> QED BY <1>2, <1>3, <2>1, <2>2 DEF RoundPoints, Keeps
<1>4. CASE done = 1
  <2>1. Instruct("ld", "A", "L") /\ done' = 2
    BY <1>4, RoundProgram, Executes DEF Skips
  <2>2. r'["A"] = r["L"] /\ f' = f /\ Keeps("A") /\ CpuTyped'
    BY <2>1, LoadDoes
  <2> QED BY <1>2, <1>4, <2>1, <2>2 DEF RoundPoints, Keeps
<1>5. CASE done = 2
  <2>1. Instruct("rrca", "A", "A") /\ done' = 3
    BY <1>5, RoundProgram, Executes DEF Skips
  <2>2. r'["A"] = X0 /\ Keeps("A") /\ CpuTyped'
    <3>1. r["A"] = RotatedLeft(X0) /\ X0 \in Byte
      BY <1>5 DEF RoundPoints, Words
    <3> QED BY <2>1, <3>1, RrcaDoes
  <2> QED BY <1>2, <1>5, <2>1, <2>2 DEF RoundPoints, Keeps
<1>6. CASE done = 3
  <2>1. Instruct("rlca", "A", "A") /\ done' = 4
    BY <1>6, RoundProgram, Executes DEF Skips
  <2>2. r'["A"] = RotatedLeft(r["A"]) /\ Keeps("A") /\ CpuTyped'
    BY <2>1, RlcaDoes
  <2> QED BY <1>2, <1>6, <2>1, <2>2 DEF RoundPoints, Keeps
<1>7. CASE done = 4
  <2>1. Instruct("ld", "L", "A") /\ done' = 5
    BY <1>7, RoundProgram, Executes DEF Skips
  <2>2. r'["L"] = r["A"] /\ f' = f /\ Keeps("L") /\ CpuTyped'
    BY <2>1, LoadDoes
  <2> QED BY <1>2, <1>7, <2>1, <2>2 DEF RoundPoints, Keeps
<1>8. CASE done = 5
  <2>1. Instruct("rrc", "L", "L") /\ done' = 6
    BY <1>8, RoundProgram, Executes DEF Skips
  <2>2. r'["L"] = X0 /\ Keeps("L") /\ CpuTyped'
    <3>1. r["L"] = RotatedLeft(X0) /\ X0 \in Byte
      BY <1>8 DEF RoundPoints, Words
    <3> QED BY <2>1, <3>1, RrcDoes
  <2> QED BY <1>2, <1>8, <2>1, <2>2 DEF RoundPoints, Keeps
<1> QED BY <1>1, <1>3, <1>4, <1>5, <1>6, <1>7, <1>8 DEF RoundPoints

\* The instructions of unpack
LEMMA UnpackProgram ==
  /\ Sequences["unpack"][1] = <<"ld", "A", "L">>
  /\ Sequences["unpack"][2] = <<"swap", "A", "A">>
  /\ Sequences["unpack"][3] = <<"and", "A", "C">>
  /\ Sequences["unpack"][4] = <<"ld", "H", "A">>
  /\ Sequences["unpack"][5] = <<"ld", "A", "L">>
  /\ Sequences["unpack"][6] = <<"and", "A", "C">>
  /\ Sequences["unpack"][7] = <<"ld", "L", "A">>
  /\ Len(Sequences["unpack"]) = 7
BY DEF Sequences, Run, OnA, ByWay

\* Each instruction of unpack leads to the next point.
LEMMA UnpackStep ==
  ASSUME CpuTyped, Words, sequence = "unpack", UnpackPoints, Execute8
  PROVE  UnpackPoints' /\ CpuTyped'
<1>1. done < 7
  BY UnpackProgram DEF Execute8
<1>2. X1' = X1 /\ X0' = X0 /\ Y1' = Y1 /\ Y0' = Y0 /\ x' = x /\ y' = y
  BY DEF Execute8, X1, X0, Y1, Y0
<1> USE DEF Registers
<1>3. CASE done = 0
  <2>1. Instruct("ld", "A", "L") /\ done' = 1
    BY <1>3, UnpackProgram, Executes DEF Skips
  <2>2. r'["A"] = r["L"] /\ f' = f /\ Keeps("A") /\ CpuTyped'
    BY <2>1, LoadDoes
  <2> QED BY <1>2, <1>3, <2>1, <2>2 DEF UnpackPoints, Keeps
<1>4. CASE done = 1
  <2>1. Instruct("swap", "A", "A") /\ done' = 2
    BY <1>4, UnpackProgram, Executes DEF Skips
  <2>2. r'["A"] = Swapped(r["A"]) /\ Keeps("A") /\ CpuTyped'
    BY <2>1, SwapDoes
  <2> QED BY <1>2, <1>4, <2>1, <2>2 DEF UnpackPoints, Keeps
<1>5. CASE done = 2
  <2>1. Instruct("and", "A", "C") /\ done' = 3
    BY <1>5, UnpackProgram, Executes DEF Skips
  <2>2. r'["A"] = X0 \div 16 /\ f'.carry = 0 /\ Keeps("A") /\ CpuTyped'
    <3>1. r["A"] = Swapped(X0) /\ r["C"] = 15 /\ X0 \in Byte
      BY <1>5 DEF CpuTyped, UnpackPoints, Words
    <3>2. And(r["A"], r["C"]) = X0 \div 16
      <4>1. Swapped(X0) \in Byte /\ Swapped(X0) % 16 = X0 \div 16 BY <3>1, SwappedTwice
      <4>2. And(Swapped(X0), 15) = Swapped(X0) % 16 BY <4>1, AndMask
      <4> QED BY <3>1, <4>1, <4>2
    <3>3. X0 \div 16 \in Byte
      BY <3>1 DEF Byte
    <3> QED BY <2>1, <3>2, <3>3, CombineDoes DEF Logic
  <2> QED BY <1>2, <1>5, <2>1, <2>2 DEF UnpackPoints, Keeps
<1>6. CASE done = 3
  <2>1. Instruct("ld", "H", "A") /\ done' = 4
    BY <1>6, UnpackProgram, Executes DEF Skips
  <2>2. r'["H"] = r["A"] /\ f' = f /\ Keeps("H") /\ CpuTyped'
    BY <2>1, LoadDoes
  <2> QED BY <1>2, <1>6, <2>1, <2>2 DEF UnpackPoints, Keeps
<1>7. CASE done = 4
  <2>1. Instruct("ld", "A", "L") /\ done' = 5
    BY <1>7, UnpackProgram, Executes DEF Skips
  <2>2. r'["A"] = r["L"] /\ f' = f /\ Keeps("A") /\ CpuTyped'
    BY <2>1, LoadDoes
  <2> QED BY <1>2, <1>7, <2>1, <2>2 DEF UnpackPoints, Keeps
<1>8. CASE done = 5
  <2>1. Instruct("and", "A", "C") /\ done' = 6
    BY <1>8, UnpackProgram, Executes DEF Skips
  <2>2. r'["A"] = X0 % 16 /\ f'.carry = 0 /\ Keeps("A") /\ CpuTyped'
    <3>1. r["A"] = X0 /\ r["C"] = 15 /\ X0 \in Byte
      BY <1>8 DEF CpuTyped, UnpackPoints, Words
    <3>2. And(r["A"], r["C"]) = X0 % 16
      BY <3>1, AndMask
    <3>3. X0 % 16 \in Byte
      BY <3>1 DEF Byte
    <3> QED BY <2>1, <3>2, <3>3, CombineDoes DEF Logic
  <2> QED BY <1>2, <1>8, <2>1, <2>2 DEF UnpackPoints, Keeps
<1>9. CASE done = 6
  <2>1. Instruct("ld", "L", "A") /\ done' = 7
    BY <1>9, UnpackProgram, Executes DEF Skips
  <2>2. r'["L"] = r["A"] /\ f' = f /\ Keeps("L") /\ CpuTyped'
    BY <2>1, LoadDoes
  <2> QED BY <1>2, <1>9, <2>1, <2>2 DEF UnpackPoints, Keeps
<1> QED BY <1>1, <1>3, <1>4, <1>5, <1>6, <1>7, <1>8, <1>9 DEF UnpackPoints

\* The instructions of pack
LEMMA PackProgram ==
  /\ Sequences["pack"][1] = <<"swap", "H", "H">>
  /\ Sequences["pack"][2] = <<"ld", "A", "L">>
  /\ Sequences["pack"][3] = <<"xor", "A", "H">>
  /\ Sequences["pack"][4] = <<"and", "A", "C">>
  /\ Sequences["pack"][5] = <<"xor", "A", "H">>
  /\ Sequences["pack"][6] = <<"ld", "L", "A">>
  /\ Len(Sequences["pack"]) = 6
BY DEF Sequences, Run, OnA, ByWay

\* Each instruction of pack leads to the next point.
LEMMA PackStep ==
  ASSUME CpuTyped, Words, sequence = "pack", PackPoints, Execute8
  PROVE  PackPoints' /\ CpuTyped'
<1>1. done < 6
  BY PackProgram DEF Execute8
<1>2. X1' = X1 /\ X0' = X0 /\ Y1' = Y1 /\ Y0' = Y0 /\ x' = x /\ y' = y
  BY DEF Execute8, X1, X0, Y1, Y0
<1> USE DEF Registers
<1>3. CASE done = 0
  <2>1. Instruct("swap", "H", "H") /\ done' = 1
    BY <1>3, PackProgram, Executes DEF Skips
  <2>2. r'["H"] = Swapped(r["H"]) /\ Keeps("H") /\ CpuTyped'
    BY <2>1, SwapDoes
  <2> QED BY <1>2, <1>3, <2>1, <2>2 DEF PackPoints, Keeps
<1>4. CASE done = 1
  <2>1. Instruct("ld", "A", "L") /\ done' = 2
    BY <1>4, PackProgram, Executes DEF Skips
  <2>2. r'["A"] = r["L"] /\ f' = f /\ Keeps("A") /\ CpuTyped'
    BY <2>1, LoadDoes
  <2> QED BY <1>2, <1>4, <2>1, <2>2 DEF PackPoints, Keeps
<1>5. CASE done = 2
  <2>1. Instruct("xor", "A", "H") /\ done' = 3
    BY <1>5, PackProgram, Executes DEF Skips
  <2>2. r'["A"] = Xor(X0, Swapped(X1)) /\ f'.carry = 0 /\ Keeps("A") /\ CpuTyped'
    <3>1. r["A"] = X0 /\ r["H"] = Swapped(X1) /\ X0 \in Byte /\ X1 \in Byte
      BY <1>5 DEF CpuTyped, PackPoints, Words
    <3>2. Xor(r["A"], r["H"]) = Xor(X0, Swapped(X1))
      BY <3>1, XorBits, SwappedTwice
    <3>3. Xor(X0, Swapped(X1)) \in Byte
      BY <3>1, XorBits, SwappedTwice DEF Byte
    <3> QED BY <2>1, <3>2, <3>3, CombineDoes DEF Logic
  <2> QED BY <1>2, <1>5, <2>1, <2>2 DEF PackPoints, Keeps
<1>6. CASE done = 3
  <2>1. Instruct("and", "A", "C") /\ done' = 4
    BY <1>6, PackProgram, Executes DEF Skips
  <2>2. r'["A"] = And(Xor(X0, Swapped(X1)), 15) /\ f'.carry = 0 /\ Keeps("A") /\ CpuTyped'
    <3>1. r["A"] = Xor(X0, Swapped(X1)) /\ r["C"] = 15 /\ X0 \in Byte /\ X1 \in Byte
      BY <1>6 DEF CpuTyped, PackPoints, Words
    <3>2. And(r["A"], r["C"]) = And(Xor(X0, Swapped(X1)), 15)
      BY <3>1, AndBits, XorBits, SwappedTwice, MaskBits
    <3>3. And(Xor(X0, Swapped(X1)), 15) \in Byte
      BY <3>1, AndBits, XorBits, SwappedTwice, MaskBits DEF Byte
    <3> QED BY <2>1, <3>2, <3>3, CombineDoes DEF Logic
  <2> QED BY <1>2, <1>6, <2>1, <2>2 DEF PackPoints, Keeps
<1>7. CASE done = 4
  <2>1. Instruct("xor", "A", "H") /\ done' = 5
    BY <1>7, PackProgram, Executes DEF Skips
  <2>2. r'["A"] = (16 * (X1 % 16)) + (X0 % 16) /\ f'.carry = 0 /\ Keeps("A") /\ CpuTyped'
    <3>1. r["A"] = And(Xor(X0, Swapped(X1)), 15) /\ r["H"] = Swapped(X1) /\ X0 \in Byte /\ X1 \in Byte
      BY <1>7 DEF CpuTyped, PackPoints, Words
    <3>2. Xor(r["A"], r["H"]) = (16 * (X1 % 16)) + (X0 % 16)
      <4>1. Swapped(X1) \in Byte /\ Swapped(X1) \div 16 = X1 % 16 BY <3>1, SwappedTwice
      <4>2. Xor(And(Xor(X0, Swapped(X1)), 15), Swapped(X1)) = (16 * (Swapped(X1) \div 16)) + (X0 % 16)
        BY <3>1, <4>1, Packing
      <4> QED BY <3>1, <4>1, <4>2
    <3>3. (16 * (X1 % 16)) + (X0 % 16) \in Byte
      BY <3>1 DEF Byte
    <3> QED BY <2>1, <3>2, <3>3, CombineDoes DEF Logic
  <2> QED BY <1>2, <1>7, <2>1, <2>2 DEF PackPoints, Keeps
<1>8. CASE done = 5
  <2>1. Instruct("ld", "L", "A") /\ done' = 6
    BY <1>8, PackProgram, Executes DEF Skips
  <2>2. r'["L"] = r["A"] /\ f' = f /\ Keeps("L") /\ CpuTyped'
    BY <2>1, LoadDoes
  <2> QED BY <1>2, <1>8, <2>1, <2>2 DEF PackPoints, Keeps
<1> QED BY <1>1, <1>3, <1>4, <1>5, <1>6, <1>7, <1>8 DEF PackPoints

-----------------------------------------------------------------------------
(* The invariant is one                                                    *)

\* The bytes of the numbers are bytes.
LEMMA WordsHold == Chosen => Words
BY DEF Chosen, Words, X1, X0, Y1, Y0, Byte

\* The decimal sequences have numbers whose bytes are in BCD.
LEMMA DecimalDigits ==
  (Chosen /\ sequence \in {"decimal_add", "decimal_sub"})
     => IsBcd(X1) /\ IsBcd(X0) /\ IsBcd(Y1) /\ IsBcd(Y0)
<1> SUFFICES ASSUME Chosen, sequence \in {"decimal_add", "decimal_sub"}
             PROVE  IsBcd(X1) /\ IsBcd(X0) /\ IsBcd(Y1) /\ IsBcd(Y0)
  OBVIOUS
<1>1. IsDecimal(x) /\ IsDecimal(y) BY DEF Chosen
<1>2. Words BY WordsHold
<1>3. IsDecimal(x) <=> (IsBcd(X1) /\ IsBcd(X0)) BY <1>2, DecimalIs DEF Words
<1>4. IsDecimal(y) <=> (IsBcd(Y1) /\ IsBcd(Y0)) BY <1>2, DecimalIs DEF Words
<1> QED BY <1>1, <1>3, <1>4

\* The first point of every sequence, when the numbers have been loaded
LEMMA Starts ==
  (Chosen /\ done = 0 /\ r = Loaded) => (Points /\ r \in [Registers -> Byte])
<1> SUFFICES ASSUME Chosen, done = 0, r = Loaded
             PROVE  Points /\ r \in [Registers -> Byte]
  OBVIOUS
<1>1. Words BY WordsHold
<1>2. /\ r["D"] = Y1 /\ r["E"] = Y0 /\ r["H"] = X1 /\ r["L"] = X0 /\ r["C"] = 15
  BY DEF Loaded, X1, X0, Y1, Y0
<1>3. r \in [Registers -> Byte]
  <2>1. X1 \in Byte /\ X0 \in Byte /\ Y1 \in Byte /\ Y0 \in Byte BY <1>1 DEF Words
  <2>2. Loaded = [A |-> 0, B |-> 2, C |-> 15, D |-> Y1, E |-> Y0, H |-> X1, L |-> X0]
    BY DEF Loaded, X1, X0, Y1, Y0
  <2>3. 0 \in Byte /\ 2 \in Byte /\ 15 \in Byte BY DEF Byte
  <2>4. r \in [A : Byte, B : Byte, C : Byte, D : Byte, E : Byte, H : Byte, L : Byte]
    BY <2>1, <2>2, <2>3
  <2> QED BY <2>4 DEF Registers
<1>4. sequence = "add" => AddPoints BY <1>2 DEF AddPoints
<1>5. sequence = "subtract" => SubtractPoints BY <1>2 DEF SubtractPoints
<1>6. sequence = "decimal_add" => DecimalAddPoints BY <1>2, DecimalDigits DEF DecimalAddPoints
<1>7. sequence = "decimal_sub" => DecimalSubPoints BY <1>2, DecimalDigits DEF DecimalSubPoints
<1>8. sequence = "complement" => ComplementPoints BY <1>2 DEF ComplementPoints
<1>9. sequence = "compare" => ComparePoints BY <1>2 DEF ComparePoints
<1>10. sequence = "negate" => NegatePoints BY <1>2 DEF NegatePoints
<1>11. sequence = "add_word" => AddWordPoints BY <1>2 DEF AddWordPoints
<1>12. sequence = "increment" => IncrementPoints BY <1>2 DEF IncrementPoints
<1>13. sequence = "double" => DoublePoints BY <1>2 DEF DoublePoints
<1>14. sequence = "double_in_a" => DoubleInAPoints BY <1>2 DEF DoubleInAPoints
<1>15. sequence = "halve" => HalvePoints BY <1>2 DEF HalvePoints
<1>16. sequence = "halve_in_a" => HalveInAPoints BY <1>2 DEF HalveInAPoints
<1>17. sequence = "halve_signed" => HalveSignedPoints BY <1>2 DEF HalveSignedPoints
<1>18. sequence = "round" => RoundPoints BY <1>2 DEF RoundPoints
<1>19. sequence = "unpack" => UnpackPoints BY <1>2 DEF UnpackPoints
<1>20. sequence = "pack" => PackPoints BY <1>2 DEF PackPoints
<1> QED
  BY <1>3, <1>4, <1>5, <1>6, <1>7, <1>8, <1>9, <1>10, <1>11, <1>12, <1>13, <1>14, <1>15, <1>16,
     <1>17, <1>18, <1>19, <1>20 DEF Points

\* These are all sequences.
LEMMA Sequence ==
  DOMAIN Sequences = {"add", "subtract", "decimal_add", "decimal_sub", "complement", "compare",
                      "negate", "add_word", "increment", "double", "double_in_a", "halve",
                      "halve_in_a", "halve_signed", "round", "unpack", "pack"}
BY DEF Sequences

\* The invariant holds at the start,
LEMMA ArithmeticInvInit == ArithmeticInit => ArithmeticInv
<1> SUFFICES ASSUME ArithmeticInit PROVE ArithmeticInv
  OBVIOUS
<1>1. Chosen BY ArithmeticAssumption DEF ArithmeticInit, Chosen
<1>2. f \in FlagsType BY DEF ArithmeticInit, Flags, FlagsType
<1>3. Points /\ r \in [Registers -> Byte] BY <1>1, Starts DEF ArithmeticInit
<1> QED BY <1>1, <1>2, <1>3 DEF ArithmeticInv, CpuTyped

\* every instruction keeps it,
LEMMA ExecuteKeepsInv ==
  ASSUME ArithmeticInv, Execute8
  PROVE  ArithmeticInv'
<1>1. Words /\ CpuTyped /\ Chosen /\ Points BY WordsHold DEF ArithmeticInv
<1>2. Chosen' BY <1>1 DEF Execute8, Chosen
<1>3. sequence' = sequence BY DEF Execute8
<1>4. CASE sequence = "add"
  <2>1. AddPoints' /\ CpuTyped' BY <1>1, <1>4, AddStep DEF Points
  <2> QED BY <1>2, <1>3, <1>4, <2>1 DEF ArithmeticInv, Points
<1>5. CASE sequence = "subtract"
  <2>1. SubtractPoints' /\ CpuTyped' BY <1>1, <1>5, SubtractStep DEF Points
  <2> QED BY <1>2, <1>3, <1>5, <2>1 DEF ArithmeticInv, Points
<1>6. CASE sequence = "decimal_add"
  <2>1. DecimalAddPoints' /\ CpuTyped' BY <1>1, <1>6, DecimalAddStep DEF Points
  <2> QED BY <1>2, <1>3, <1>6, <2>1 DEF ArithmeticInv, Points
<1>7. CASE sequence = "decimal_sub"
  <2>1. DecimalSubPoints' /\ CpuTyped' BY <1>1, <1>7, DecimalSubStep DEF Points
  <2> QED BY <1>2, <1>3, <1>7, <2>1 DEF ArithmeticInv, Points
<1>8. CASE sequence = "complement"
  <2>1. ComplementPoints' /\ CpuTyped' BY <1>1, <1>8, ComplementStep DEF Points
  <2> QED BY <1>2, <1>3, <1>8, <2>1 DEF ArithmeticInv, Points
<1>9. CASE sequence = "compare"
  <2>1. ComparePoints' /\ CpuTyped' BY <1>1, <1>9, CompareStep DEF Points
  <2> QED BY <1>2, <1>3, <1>9, <2>1 DEF ArithmeticInv, Points
<1>10. CASE sequence = "negate"
  <2>1. NegatePoints' /\ CpuTyped' BY <1>1, <1>10, NegateStep DEF Points
  <2> QED BY <1>2, <1>3, <1>10, <2>1 DEF ArithmeticInv, Points
<1>11. CASE sequence = "add_word"
  <2>1. AddWordPoints' /\ CpuTyped' BY <1>1, <1>11, AddWordStep DEF Points
  <2> QED BY <1>2, <1>3, <1>11, <2>1 DEF ArithmeticInv, Points
<1>12. CASE sequence = "increment"
  <2>1. IncrementPoints' /\ CpuTyped' BY <1>1, <1>12, IncrementStep DEF Points
  <2> QED BY <1>2, <1>3, <1>12, <2>1 DEF ArithmeticInv, Points
<1>13. CASE sequence = "double"
  <2>1. DoublePoints' /\ CpuTyped' BY <1>1, <1>13, DoubleStep DEF Points
  <2> QED BY <1>2, <1>3, <1>13, <2>1 DEF ArithmeticInv, Points
<1>14. CASE sequence = "double_in_a"
  <2>1. DoubleInAPoints' /\ CpuTyped' BY <1>1, <1>14, DoubleInAStep DEF Points
  <2> QED BY <1>2, <1>3, <1>14, <2>1 DEF ArithmeticInv, Points
<1>15. CASE sequence = "halve"
  <2>1. HalvePoints' /\ CpuTyped' BY <1>1, <1>15, HalveStep DEF Points
  <2> QED BY <1>2, <1>3, <1>15, <2>1 DEF ArithmeticInv, Points
<1>16. CASE sequence = "halve_in_a"
  <2>1. HalveInAPoints' /\ CpuTyped' BY <1>1, <1>16, HalveInAStep DEF Points
  <2> QED BY <1>2, <1>3, <1>16, <2>1 DEF ArithmeticInv, Points
<1>17. CASE sequence = "halve_signed"
  <2>1. HalveSignedPoints' /\ CpuTyped' BY <1>1, <1>17, HalveSignedStep DEF Points
  <2> QED BY <1>2, <1>3, <1>17, <2>1 DEF ArithmeticInv, Points
<1>18. CASE sequence = "round"
  <2>1. RoundPoints' /\ CpuTyped' BY <1>1, <1>18, RoundStep DEF Points
  <2> QED BY <1>2, <1>3, <1>18, <2>1 DEF ArithmeticInv, Points
<1>19. CASE sequence = "unpack"
  <2>1. UnpackPoints' /\ CpuTyped' BY <1>1, <1>19, UnpackStep DEF Points
  <2> QED BY <1>2, <1>3, <1>19, <2>1 DEF ArithmeticInv, Points
<1>20. CASE sequence = "pack"
  <2>1. PackPoints' /\ CpuTyped' BY <1>1, <1>20, PackStep DEF Points
  <2> QED BY <1>2, <1>3, <1>20, <2>1 DEF ArithmeticInv, Points
<1> QED
  BY <1>4, <1>5, <1>6, <1>7, <1>8, <1>9, <1>10, <1>11, <1>12, <1>13, <1>14, <1>15, <1>16, <1>17,
     <1>18, <1>19, <1>20, <1>1, <1>2, <1>3, Sequence DEF Chosen, ArithmeticInv

\* and so does the start of the next calculation.
LEMMA AgainKeepsInv ==
  ASSUME ArithmeticInv, Again
  PROVE  ArithmeticInv'
<1>1. Chosen' /\ f' \in FlagsType BY DEF ArithmeticInv, Again, Chosen, CpuTyped
<1>2. done' = 0 /\ r' = Loaded' BY DEF Again, Loaded
<1>3. ((Chosen /\ done = 0 /\ r = Loaded) => (Points /\ r \in [Registers -> Byte]))'
  BY Starts, PTL
<1> QED BY <1>1, <1>2, <1>3 DEF ArithmeticInv, CpuTyped

\* At every point of every sequence, the registers and the carry hold the
\* intermediate result that the rest of the instructions needs.
THEOREM EveryPointHolds == ArithmeticSpec => []ArithmeticInv
<1>1. ArithmeticInit => ArithmeticInv BY ArithmeticInvInit
<1>2. ArithmeticInv /\ [ArithmeticNext]_arithmeticVars => ArithmeticInv'
  <2> SUFFICES ASSUME ArithmeticInv, [ArithmeticNext]_arithmeticVars PROVE ArithmeticInv'
    OBVIOUS
  <2>1. CASE Execute8 BY <2>1, ExecuteKeepsInv
  <2>2. CASE Again BY <2>2, AgainKeepsInv
  <2>3. CASE UNCHANGED arithmeticVars
    <3>1. r' = r /\ f' = f /\ sequence' = sequence /\ done' = done /\ x' = x /\ y' = y
      BY <2>3 DEF arithmeticVars
    <3>2. CpuTyped' /\ Chosen' BY <3>1 DEF ArithmeticInv, CpuTyped, Chosen
    <3>3. Points'
      <4>1. sequence = "add" => AddPoints' BY <3>1 DEF ArithmeticInv, Points, AddPoints, X1, X0, Y1, Y0
      <4>2. sequence = "subtract" => SubtractPoints'
        BY <3>1 DEF ArithmeticInv, Points, SubtractPoints, X1, X0, Y1, Y0
      <4>3. sequence = "decimal_add" => DecimalAddPoints'
        BY <3>1 DEF ArithmeticInv, Points, DecimalAddPoints, X1, X0, Y1, Y0, FromAlu
      <4>4. sequence = "decimal_sub" => DecimalSubPoints'
        BY <3>1 DEF ArithmeticInv, Points, DecimalSubPoints, X1, X0, Y1, Y0, FromAlu
      <4>5. sequence = "complement" => ComplementPoints'
        BY <3>1 DEF ArithmeticInv, Points, ComplementPoints, X1, X0, Y1, Y0
      <4>6. sequence = "compare" => ComparePoints'
        BY <3>1 DEF ArithmeticInv, Points, ComparePoints, X1, X0, Y1, Y0
      <4>7. sequence = "negate" => NegatePoints'
        BY <3>1 DEF ArithmeticInv, Points, NegatePoints, X1, X0, Y1, Y0
      <4>8. sequence = "add_word" => AddWordPoints'
        BY <3>1 DEF ArithmeticInv, Points, AddWordPoints, X1, X0, Y1, Y0
      <4>9. sequence = "increment" => IncrementPoints'
        BY <3>1 DEF ArithmeticInv, Points, IncrementPoints, X1, X0, Y1, Y0
      <4>10. sequence = "double" => DoublePoints'
        BY <3>1 DEF ArithmeticInv, Points, DoublePoints, X1, X0, Y1, Y0
      <4>11. sequence = "double_in_a" => DoubleInAPoints'
        BY <3>1 DEF ArithmeticInv, Points, DoubleInAPoints, X1, X0, Y1, Y0
      <4>12. sequence = "halve" => HalvePoints'
        BY <3>1 DEF ArithmeticInv, Points, HalvePoints, X1, X0, Y1, Y0
      <4>13. sequence = "halve_in_a" => HalveInAPoints'
        BY <3>1 DEF ArithmeticInv, Points, HalveInAPoints, X1, X0, Y1, Y0
      <4>14. sequence = "halve_signed" => HalveSignedPoints'
        BY <3>1 DEF ArithmeticInv, Points, HalveSignedPoints, X1, X0, Y1, Y0
      <4>15. sequence = "round" => RoundPoints'
        BY <3>1 DEF ArithmeticInv, Points, RoundPoints, X1, X0, Y1, Y0
      <4>16. sequence = "unpack" => UnpackPoints'
        BY <3>1 DEF ArithmeticInv, Points, UnpackPoints, X1, X0, Y1, Y0
      <4>17. sequence = "pack" => PackPoints'
        BY <3>1 DEF ArithmeticInv, Points, PackPoints, X1, X0, Y1, Y0
      <4> QED
        BY <3>1, <4>1, <4>2, <4>3, <4>4, <4>5, <4>6, <4>7, <4>8, <4>9, <4>10, <4>11, <4>12, <4>13,
           <4>14, <4>15, <4>16, <4>17 DEF Points
    <3> QED BY <3>2, <3>3 DEF ArithmeticInv
  <2> QED BY <2>1, <2>2, <2>3 DEF ArithmeticNext
<1> QED BY <1>1, <1>2, PTL DEF ArithmeticSpec

-----------------------------------------------------------------------------
(* What the invariant is for                                               *)

\* The assertion at the end of each sequence is what it is for.
LEMMA PointsAgree == ArithmeticInv => CalculationsAgree
<1> SUFFICES ASSUME ArithmeticInv, done = Len(Sequences[sequence])
             PROVE  Intended
  BY DEF CalculationsAgree
<1>1. Words /\ Points BY WordsHold DEF ArithmeticInv
<1>2. Number = (256 * r["H"]) + r["L"] /\ Pair("D", "E") = (256 * r["D"]) + r["E"]
  BY DEF Number, Pair
<1>3. ASSUME sequence = "add"
       PROVE  (65536 * f.carry) + Number = x + y
  BY <1>1, <1>2, <1>3, AddProgram DEF Points, AddPoints
<1>4. ASSUME sequence = "subtract"
       PROVE  Number - (65536 * f.carry) = x - y
  BY <1>1, <1>2, <1>4, SubtractProgram DEF Points, SubtractPoints
<1>5. ASSUME sequence = "decimal_add"
       PROVE  IsDecimal(Number) /\ (10000 * f.carry) + Decimal(Number) = Decimal(x) + Decimal(y)
  <2>1. /\ IsBcd(r["H"]) /\ IsBcd(r["L"])
        /\ DecimalPair(r["H"], r["L"]) + (10000 * f.carry) = DecimalPair(X1, X0) + DecimalPair(Y1, Y0)
    BY <1>1, <1>5, DecimalAddProgram DEF Points, DecimalAddPoints
  <2>2. r["H"] \in Byte /\ r["L"] \in Byte /\ f.carry \in 0..1
    BY DEF ArithmeticInv, CpuTyped, FlagsType, Registers
  <2>3. IsDecimal(Number) /\ Decimal(Number) = DecimalPair(r["H"], r["L"])
    BY <1>2, <2>1, <2>2, DecimalIs DEF DecimalPair
  <2>4. Decimal(x) = DecimalPair(X1, X0) /\ Decimal(y) = DecimalPair(Y1, Y0)
    BY <1>1, DecimalIs DEF Words, DecimalPair
  <2>5. DecimalPair(r["H"], r["L"]) \in Nat
    BY <2>2, BcdType DEF DecimalPair
  <2>6. (10000 * f.carry) + Decimal(Number) = Decimal(x) + Decimal(y)
    BY <2>1, <2>2, <2>3, <2>4, <2>5
  <2> QED BY <2>3, <2>6
<1>6. ASSUME sequence = "decimal_sub"
       PROVE  IsDecimal(Number) /\ Decimal(Number) - (10000 * f.carry) = Decimal(x) - Decimal(y)
  <2>1. /\ IsBcd(r["H"]) /\ IsBcd(r["L"])
        /\ DecimalPair(r["H"], r["L"]) - (10000 * f.carry) = DecimalPair(X1, X0) - DecimalPair(Y1, Y0)
    BY <1>1, <1>6, DecimalSubProgram DEF Points, DecimalSubPoints
  <2>2. r["H"] \in Byte /\ r["L"] \in Byte /\ f.carry \in 0..1
    BY DEF ArithmeticInv, CpuTyped, FlagsType, Registers
  <2>3. IsDecimal(Number) /\ Decimal(Number) = DecimalPair(r["H"], r["L"])
    BY <1>2, <2>1, <2>2, DecimalIs DEF DecimalPair
  <2>4. Decimal(x) = DecimalPair(X1, X0) /\ Decimal(y) = DecimalPair(Y1, Y0)
    BY <1>1, DecimalIs DEF Words, DecimalPair
  <2>5. DecimalPair(r["H"], r["L"]) \in Nat
    BY <2>2, BcdType DEF DecimalPair
  <2>6. Decimal(Number) - (10000 * f.carry) = Decimal(x) - Decimal(y)
    BY <2>1, <2>2, <2>3, <2>4, <2>5
  <2> QED BY <2>3, <2>6
<1>7. ASSUME sequence = "complement"
       PROVE  Number - (65536 * f.carry) = x - y
  BY <1>1, <1>2, <1>7, ComplementProgram DEF Points, ComplementPoints
<1>8. ASSUME sequence = "compare"
       PROVE  f.carry = Flag(x < y) /\ Number = x /\ Pair("D", "E") = y
  BY <1>1, <1>2, <1>8, CompareProgram DEF Points, ComparePoints, Words
<1>9. ASSUME sequence = "negate"
       PROVE  Number = (65536 - x) % 65536
  BY <1>1, <1>2, <1>9, NegateProgram DEF Points, NegatePoints
<1>10. ASSUME sequence = "add_word"
       PROVE  (65536 * f.carry) + Number = x + y
  BY <1>1, <1>2, <1>10, AddWordProgram DEF Points, AddWordPoints
<1>11. ASSUME sequence = "increment"
       PROVE  Number = (x + 1) % 65536
  BY <1>1, <1>2, <1>11, IncrementProgram DEF Points, IncrementPoints
<1>12. ASSUME sequence = "double"
       PROVE  (65536 * f.carry) + Number = 2 * x
  BY <1>1, <1>2, <1>12, DoubleProgram DEF Points, DoublePoints
<1>13. ASSUME sequence = "double_in_a"
       PROVE  (65536 * f.carry) + Number = 2 * x
  BY <1>1, <1>2, <1>13, DoubleInAProgram DEF Points, DoubleInAPoints
<1>14. ASSUME sequence = "halve"
       PROVE  (2 * Number) + f.carry = x
  BY <1>1, <1>2, <1>14, HalveProgram DEF Points, HalvePoints
<1>15. ASSUME sequence = "halve_in_a"
       PROVE  (2 * Number) + f.carry = x
  BY <1>1, <1>2, <1>15, HalveInAProgram DEF Points, HalveInAPoints
<1>16. ASSUME sequence = "halve_signed"
       PROVE  (2 * Number) + f.carry = x + (IF x > 32767 THEN 65536 ELSE 0)
  BY <1>1, <1>2, <1>16, HalveSignedProgram DEF Points, HalveSignedPoints
<1>17. ASSUME sequence = "round"
       PROVE  Number = x
  BY <1>1, <1>2, <1>17, RoundProgram DEF Points, RoundPoints, Words
<1>18. ASSUME sequence = "unpack"
       PROVE  r["H"] = (x % 256) \div 16 /\ r["L"] = x % 16
  <2>1. r["L"] = X0 % 16 /\ r["H"] = X0 \div 16
    BY <1>1, <1>18, UnpackProgram DEF Points, UnpackPoints
  <2>2. X0 % 16 = x % 16
    BY <1>1 DEF Words, Byte
  <2> QED BY <2>1, <2>2 DEF X1, X0
<1>19. ASSUME sequence = "pack"
       PROVE  r["L"] = (16 * ((x \div 256) % 16)) + (x % 16)
  <2>1. r["L"] = (16 * (X1 % 16)) + (X0 % 16)
    BY <1>1, <1>19, PackProgram DEF Points, PackPoints
  <2>2. X0 % 16 = x % 16
    BY <1>1 DEF Words, Byte
  <2> QED BY <2>1, <2>2 DEF X1, X0
<1> QED
  BY <1>3, <1>4, <1>5, <1>6, <1>7, <1>8, <1>9, <1>10, <1>11, <1>12, <1>13, <1>14, <1>15, <1>16,
     <1>17, <1>18, <1>19 DEF Intended

\* Whatever the two numbers are, and whatever the flags were: each sequence
\* leaves the result it is for, carry included (CalculationsAgree).
THEOREM CalculationsAreRight == ArithmeticSpec => []CalculationsAgree
BY EveryPointHolds, PointsAgree, PTL

\* The parts of the core work one at a time, each of them as it does alone: the
\* theorems about the interrupts (CpuInterruptsProofs) and about the mapper
\* (MemoryMapperProofs) hold of the composition that is model-checked.
THEOREM CoreWorksAsAlone == CoreSpec => Spec /\ ArithmeticSpec /\ MapperSpec
<1>1. CoreInit => Init /\ ArithmeticInit /\ MapperInit
  BY Zenon DEF CoreInit
<1>2. [CoreNext]_coreVars =>
        [Next]_vars /\ [ArithmeticNext]_arithmeticVars /\ [MapperNext]_mapperVars
  <2> SUFFICES ASSUME [CoreNext]_coreVars
               PROVE  [Next]_vars /\ [ArithmeticNext]_arithmeticVars /\ [MapperNext]_mapperVars
    OBVIOUS
  <2>1. CASE InterruptsWork /\ Next
    BY <2>1, Zenon DEF InterruptsWork
  <2>2. CASE ArithmeticWorks /\ ArithmeticNext
    BY <2>2, Zenon DEF ArithmeticWorks
  <2>3. CASE MapperWorks /\ MapperNext
    BY <2>3, Zenon DEF MapperWorks
  <2>4. CASE UNCHANGED coreVars
    <3>1. UNCHANGED vars /\ UNCHANGED arithmeticVars /\ UNCHANGED mapperVars
      BY <2>4, Zenon DEF coreVars
    <3> QED BY <3>1, Zenon
  <2> QED BY <2>1, <2>2, <2>3, <2>4, Zenon DEF CoreNext
<1> QED BY <1>1, <1>2, PTL DEF CoreSpec, Spec, ArithmeticSpec, MapperSpec

\* So the calculations are right in the composition, too.
THEOREM CoreCalculatesRight == CoreSpec => []CalculationsAgree
BY CoreWorksAsAlone, CalculationsAreRight, PTL
==============================================================================
