-------------------------- MODULE MemoryMapperProofs --------------------------
(***************************************************************************)
(* Proofs about the memory mapper, for all banks, every size of the RAM of *)
(* a cartridge without controller, every step of DIV and all addresses.    *)
(*                                                                         *)
(* The first window of the vector that contains an address is the          *)
(* narrowest one for two reasons: the vector is sorted, and of the windows *)
(* that one kind of cartridge has mapped only those overlap that start at  *)
(* the same address.                                                       *)
(***************************************************************************)
EXTENDS MemoryMapper, SequenceTheorems, WellFoundedInduction, TLAPS

\* The windows of a session with a controller, and of one without
BankedWindows == {BootRom, LowerRom, UpperRom, VideoRam, ExternalRam, Oam, PpuRegisters}
PlainWindows  == {BootRom, Rom, VideoRam, PlainRam, Oam, PpuRegisters}
Family == IF controller THEN BankedWindows ELSE PlainWindows

Entry == [window : Windows, to : Contents]
Sorted(m) == \A i, j \in 1..Len(m) : i < j => Before(m[i].window, m[j].window)

\* The vector m holds what s says
Holds(m, s) ==
    /\ \A i \in 1..Len(m) :
          s[m[i].window] # "unmapped" /\ m[i].to = s[m[i].window]
    /\ \A v \in Windows : s[v] # "unmapped" => \E i \in 1..Len(m) : m[i].window = v

Vector(m, s) ==
    /\ m \in Seq(Entry) /\ s \in [Windows -> Contents \cup {"unmapped"}]
    /\ Sorted(m) /\ Holds(m, s)

\* The window of the boot ROM is there as long as it can be taken away
BootRomThere == stage \in {"cart", "run"} /\ ~ boot_rom_disable => shown[BootRom] # "unmapped"

MapInv ==
    /\ Vector(mappings, shown)
    /\ stage \in {"ppu", "boot", "cart", "run"}
    /\ boot_rom_disable \in BOOLEAN /\ controller \in BOOLEAN
    /\ Mapped \subseteq Family
    /\ BootRomThere
    /\ failed = FALSE

\* The counter, however often it has wrapped around, is ahead of the reset by
\* the time since then but for multiples of where DIV itself wraps around.
DivInv ==
    /\ clock \in Nat /\ clock < CounterWrap
    /\ timer_div_reset \in Nat
    /\ since \in Nat /\ since < DivWrap
    /\ \E turns \in Int : DivWrap * turns + since = clock - timer_div_reset

-----------------------------------------------------------------------------
(* Windows                                                                 *)

\* A window has two addresses.
LEMMA WindowsAreWindows ==
    ASSUME NEW w \in Windows
    PROVE  w \in [start_address : Int, end_address : Int]
BY MapperAssumption
DEF Windows, BootRom, Rom, LowerRom, UpperRom, VideoRam, ExternalRam, PlainRam, Oam, PpuRegisters, Window

\* operator< is a strict total order (gb_memory_mapper.cpp:308-348).
LEMMA BeforeIsOrder ==
    ASSUME NEW u \in Windows, NEW v \in Windows, NEW w \in Windows
    PROVE  /\ ~ Before(u, u)
           /\ Before(u, v) /\ Before(v, w) => Before(u, w)
           /\ Before(u, v) \/ u = v \/ Before(v, u)
<1>1. \A x \in {u, v, w} : x \in [start_address : Int, end_address : Int]
    BY WindowsAreWindows
<1> QED
    BY <1>1 DEF Before

\* Of two windows with an address in common that one kind of cartridge has, the
\* one that comes first lies within the other.
LEMMA FirstIsNarrower ==
    ASSUME NEW u \in Family, NEW v \in Family, NEW address \in Int,
           Contains(u, address), Contains(v, address), Before(u, v)
    PROVE  Within(u, v)
<1> USE MapperAssumption
    DEF BootRom, Rom, LowerRom, UpperRom, VideoRam, ExternalRam, PlainRam, Oam, PpuRegisters,
        Window, Contains, Before, Within
<1>1. CASE controller
    BY <1>1 DEF Family, BankedWindows
<1>2. CASE ~ controller
    BY <1>2 DEF Family, PlainWindows
<1> QED
    BY <1>1, <1>2

\* Two windows that lie within each other are the same.
LEMMA SameExtent ==
    ASSUME NEW u \in Windows, NEW v \in Windows, Within(u, v), Within(v, u)
    PROVE  u = v
BY WindowsAreWindows DEF Within

-----------------------------------------------------------------------------
(* The vector                                                              *)

\* A set of numbers has a least one.
LEMMA LeastNumber ==
    ASSUME NEW T, T \subseteq Nat, T # {}
    PROVE  \E n \in T : \A k \in T : n <= k
<1> DEFINE R == {ss \in Nat \X Nat : ss[1] < ss[2]}
<1>1. IsWellFoundedOn(R, Nat)
    BY NatLessThanWellFounded, Zenon DEF OpToRel
<1>2. PICK n \in T : \A k \in T : ~ (<<k, n>> \in R)
    BY <1>1, WFMin
<1>3. ASSUME NEW k \in T
      PROVE  n <= k
    <2>1. n \in Nat /\ k \in Nat
        OBVIOUS
    <2>2. k < n => <<k, n>> \in R
        BY <2>1
    <2> QED
        BY <1>2, <2>1, <2>2
<1> QED
    BY <1>3

\* std::lower_bound finds the position of a window.
LEMMA LowerBoundFinds ==
    ASSUME NEW m \in Seq(Entry), NEW w \in Windows
    PROVE  /\ LowerBound(m, w) \in 1..(Len(m) + 1)
           /\ LowerBound(m, w) <= Len(m) => ~ Before(m[LowerBound(m, w)].window, w)
           /\ \A j \in 1..(LowerBound(m, w) - 1) : Before(m[j].window, w)
<1> DEFINE T == {i \in 1..(Len(m) + 1) : i <= Len(m) => ~ Before(m[i].window, w)}
           P(i) == /\ i <= Len(m) => ~ Before(m[i].window, w)
                   /\ \A j \in 1..(i - 1) : Before(m[j].window, w)
<1>1. Len(m) \in Nat
    OBVIOUS
<1>2. Len(m) + 1 \in T /\ T \subseteq Nat
    BY <1>1
<1>3. PICK n \in T : \A k \in T : n <= k
    BY <1>2, LeastNumber
<1>4. n \in 1..(Len(m) + 1) /\ P(n)
    BY <1>1, <1>3
<1>5. LowerBound(m, w) = CHOOSE i \in 1..(Len(m) + 1) : P(i)
    BY DEF LowerBound
<1> HIDE DEF P
<1>6. LowerBound(m, w) \in 1..(Len(m) + 1) /\ P(LowerBound(m, w))
    BY <1>4, <1>5
<1> QED
    BY <1>6 DEF P

\* m with e at the position p and what was at r after it
Inserted(m, p, e, r) == SubSeq(m, 1, p - 1) \o <<e>> \o SubSeq(m, r, Len(m))

\* What set_mapping does to the elements (gb_memory_mapper.cpp:308-325): those
\* from the position p on move up, or the first of them is replaced.
LEMMA WithMappingElements ==
    ASSUME NEW S, NEW m \in Seq(S), NEW e \in S,
           NEW p \in 1..(Len(m) + 1), NEW r \in 1..(Len(m) + 1)
    PROVE  /\ Inserted(m, p, e, r) \in Seq(S)
           /\ Len(Inserted(m, p, e, r)) = p + Len(m) + 1 - r
           /\ \A i \in 1..(p + Len(m) + 1 - r) :
                 Inserted(m, p, e, r)[i] = IF i < p THEN m[i] ELSE IF i = p THEN e ELSE m[r + (i - p) - 1]
<1> DEFINE a == SubSeq(m, 1, p - 1)
           b == SubSeq(m, r, Len(m))
           c == a \o <<e>>
           n == Len(m) + 1 - r
<1>0. Len(m) \in Nat /\ n \in Nat
    OBVIOUS
<1>1. a \in Seq(S) /\ Len(a) = p - 1 /\ \A i \in 1..(p - 1) : a[i] = m[i]
    BY SubSeqProperties, Len(m) \in Nat
<1>2. b \in Seq(S) /\ Len(b) = n /\ \A i \in 1..n : b[i] = m[r + i - 1]
    BY SubSeqProperties, Len(m) \in Nat
<1>3. <<e>> \in Seq(S) /\ Len(<<e>>) = 1 /\ <<e>>[1] = e
    OBVIOUS
<1> HIDE DEF a, b
<1>4. /\ c \in Seq(S) /\ Len(c) = p
      /\ \A i \in 1..p : c[i] = IF i <= p - 1 THEN a[i] ELSE <<e>>[i - (p - 1)]
    BY <1>1, <1>3, ConcatProperties
<1> HIDE DEF c, n
<1>5. /\ c \o b \in Seq(S) /\ Len(c \o b) = p + n
      /\ \A i \in 1..(p + n) : (c \o b)[i] = IF i <= p THEN c[i] ELSE b[i - p]
    <2>1. /\ c \o b \in Seq(S) /\ Len(c \o b) = Len(c) + Len(b)
          /\ \A i \in 1..(Len(c) + Len(b)) :
                 (c \o b)[i] = IF i <= Len(c) THEN c[i] ELSE b[i - Len(c)]
        BY <1>2, <1>4, ConcatProperties
    <2> QED
        BY <2>1, <1>2, <1>4
<1>6. ASSUME NEW i \in 1..(p + n)
      PROVE  (c \o b)[i] = IF i < p THEN m[i] ELSE IF i = p THEN e ELSE m[r + (i - p) - 1]
    <2>0. (c \o b)[i] = IF i <= p THEN c[i] ELSE b[i - p]
        BY <1>5
    <2>1. CASE i < p
        <3>1. i \in 1..p /\ i \in 1..(p - 1) /\ i <= p - 1 /\ i <= p
            BY <1>0, <2>1
        <3>2. c[i] = a[i] /\ a[i] = m[i]
            BY <3>1, <1>1, <1>4
        <3> QED
            BY <2>0, <2>1, <3>1, <3>2
    <2>2. CASE i = p
        <3>1. p \in 1..p /\ ~ p <= p - 1 /\ p - (p - 1) = 1 /\ p <= p /\ ~ p < p
            BY <1>0
        <3>2. c[p] = e
            BY <3>1, <1>3, <1>4
        <3> QED
            BY <2>0, <2>2, <3>1, <3>2
    <2>3. CASE i > p
        <3>1. i - p \in 1..n
            BY <1>0, <2>3
        <3>2. ~ i <= p /\ ~ i < p /\ i # p
            BY <1>0, <2>3
        <3>3. b[i - p] = m[r + (i - p) - 1]
            BY <3>1, <1>2
        <3> QED
            BY <2>0, <3>2, <3>3
    <2>4. i < p \/ i = p \/ i > p
        BY <1>0
    <2> QED
        BY <2>1, <2>2, <2>3, <2>4, Zenon
<1>7. p + n = p + Len(m) + 1 - r
    BY <1>0 DEF n
<1> QED
    BY <1>5, <1>6, <1>7 DEF a, b, c, Inserted

\* set_mapping keeps the vector sorted and puts in what it is told to.
LEMMA WithMappingVector ==
    ASSUME NEW m, NEW s, Vector(m, s), NEW w \in Windows, NEW to \in Contents
    PROVE  Vector(WithMapping(m, w, to), [s EXCEPT ![w] = to])
<1> DEFINE p == LowerBound(m, w)
           e == [window |-> w, to |-> to]
           r == IF IsAt(m, p, w) THEN p + 1 ELSE p
           n == p + Len(m) + 1 - r
           new == WithMapping(m, w, to)
           t == [s EXCEPT ![w] = to]
<1>0. /\ m \in Seq(Entry) /\ Sorted(m) /\ Holds(m, s)
      /\ s \in [Windows -> Contents \cup {"unmapped"}]
    BY DEF Vector
<1>1. Len(m) \in Nat /\ \A i \in 1..Len(m) : m[i] \in Entry /\ m[i].window \in Windows
    <2>1. \A i \in 1..Len(m) : m[i] \in Entry
        BY <1>0, ElementOfSeq
    <2>2. \A x \in Entry : x.window \in Windows
        BY DEF Entry
    <2> QED
        BY <1>0, <2>1, <2>2
<1>2. /\ p \in 1..(Len(m) + 1)
      /\ p <= Len(m) => ~ Before(m[p].window, w)
      /\ \A j \in 1..(p - 1) : Before(m[j].window, w)
    BY <1>0, LowerBoundFinds
<1>3. /\ p \in Nat /\ 1 <= p /\ p <= Len(m) + 1
      /\ r = p \/ r = p + 1
      /\ r <= Len(m) + 1
      /\ r = p => ~ IsAt(m, p, w)
      /\ r = p + 1 => p <= Len(m) /\ m[p].window = w
    BY <1>1, <1>2 DEF IsAt
<1>4. new = Inserted(m, p, e, r)
    BY DEF WithMapping, Inserted
<1>5. e \in Entry /\ e.window = w /\ e.to = to
    BY DEF Entry
<1> HIDE DEF p, e, r, new
<1>6. r \in 1..(Len(m) + 1) /\ r \in Nat /\ n \in Nat
    BY <1>1, <1>3
<1>7. /\ new \in Seq(Entry) /\ Len(new) = n
      /\ \A i \in 1..n :
            new[i] = IF i < p THEN m[i] ELSE IF i = p THEN e ELSE m[r + (i - p) - 1]
    <2>1. m \in Seq(Entry) /\ e \in Entry /\ p \in 1..(Len(m) + 1) /\ r \in 1..(Len(m) + 1)
        BY <1>0, <1>2, <1>5, <1>6
    <2>2. /\ Inserted(m, p, e, r) \in Seq(Entry) /\ Len(Inserted(m, p, e, r)) = n
          /\ \A i \in 1..n : Inserted(m, p, e, r)[i] =
                IF i < p THEN m[i] ELSE IF i = p THEN e ELSE m[r + (i - p) - 1]
        BY <2>1, WithMappingElements
    <2> QED
        BY <1>4, <2>2, Zenon
\* What comes after the position comes after the window
<1>8. ASSUME NEW i \in r..Len(m)
      PROVE  i \in 1..Len(m) /\ Before(w, m[i].window)
    <2>1. i \in 1..Len(m) /\ p \in 1..Len(m) /\ p <= i
        BY <1>1, <1>3, <1>6
    <2>2. m[i].window \in Windows /\ m[p].window \in Windows
        BY <1>1, <2>1
    <2>3. ~ Before(m[p].window, w)
        BY <1>2, <2>1
    <2>4. p < i => Before(m[p].window, m[i].window)
        BY <1>0, <2>1 DEF Sorted
    <2>5. CASE r = p
        <3>1. m[p].window # w
            BY <1>3, <2>1, <2>5 DEF IsAt
        <3>2. Before(w, m[p].window)
            BY <2>2, <2>3, <3>1, BeforeIsOrder
        <3>3. p = i \/ p < i
            BY <2>1
        <3> QED
            BY <2>1, <2>2, <2>4, <3>2, <3>3, BeforeIsOrder
    <2>6. CASE r = p + 1
        <3>1. p < i /\ m[p].window = w
            BY <1>1, <1>3, <2>1, <2>6
        <3> QED
            BY <2>1, <2>4, <3>1
    <2> QED
        BY <1>3, <2>5, <2>6
\* Where an element of the new vector was
<1> DEFINE Old(i) == IF i < p THEN i ELSE r + (i - p) - 1
<1>9. ASSUME NEW i \in 1..n, i # p
      PROVE  /\ Old(i) \in 1..Len(m) /\ new[i] = m[Old(i)]
             /\ i < p => Old(i) \in 1..(p - 1)
             /\ ~ (i < p) => Old(i) \in r..Len(m)
    <2>1. CASE i < p
        <3>1. i \in 1..Len(m) /\ i \in 1..(p - 1)
            BY <1>1, <1>3, <2>1
        <3> QED
            BY <1>7, <2>1, <3>1
    <2>2. CASE ~ (i < p)
        <3>1. r + (i - p) - 1 \in r..Len(m) /\ r + (i - p) - 1 \in 1..Len(m)
            BY <1>1, <1>3, <1>6, <1>9, <2>2
        <3> QED
            BY <1>7, <1>9, <2>2, <3>1
    <2> QED
        BY <2>1, <2>2
<1>10. ASSUME NEW i \in 1..n, NEW j \in 1..n, i < j, i # p, j # p
       PROVE  Old(i) < Old(j)
    BY <1>1, <1>3, <1>6, <1>10
<1>11. p \in 1..n /\ new[p] = e
    <2>1. p \in 1..n /\ ~ (p < p)
        BY <1>1, <1>3, <1>6
    <2> QED
        BY <1>7, <2>1
<1> HIDE DEF Old
<1>12. Sorted(new)
    <2> SUFFICES ASSUME NEW i \in 1..n, NEW j \in 1..n, i < j
                 PROVE  Before(new[i].window, new[j].window)
        BY <1>7 DEF Sorted
    <2>1. CASE i # p /\ j # p
        <3>1. /\ Old(i) \in 1..Len(m) /\ Old(j) \in 1..Len(m) /\ Old(i) < Old(j)
              /\ new[i] = m[Old(i)] /\ new[j] = m[Old(j)]
            BY <1>9, <1>10, <2>1
        <3> QED
            BY <1>0, <3>1 DEF Sorted
    <2>2. CASE j = p
        <3>1. i < p /\ i # p
            BY <1>3, <2>2
        <3> QED
            BY <1>2, <1>5, <1>9, <1>11, <2>2, <3>1
    <2>3. CASE i = p
        <3>1. ~ (j < p) /\ j # p
            BY <1>3, <2>3
        <3> QED
            BY <1>5, <1>8, <1>9, <1>11, <2>3, <3>1
    <2> QED
        BY <2>1, <2>2, <2>3
\* Nothing else is about the window.
<1>13. ASSUME NEW i \in 1..n, i # p
       PROVE  new[i].window \in Windows /\ new[i].window # w
    <2>1. Old(i) \in 1..Len(m) /\ new[i] = m[Old(i)] /\ m[Old(i)].window \in Windows
        BY <1>1, <1>9, <1>13
    <2>2. Before(m[Old(i)].window, w) \/ Before(w, m[Old(i)].window)
        BY <1>2, <1>8, <1>9, <1>13
    <2> QED
        BY <2>1, <2>2, BeforeIsOrder
<1>14. t \in [Windows -> Contents \cup {"unmapped"}] /\ t[w] = to
    BY <1>0
<1>15. to # "unmapped"
    BY MapperAssumption DEF Contents
<1>16. ASSUME NEW i \in 1..n
       PROVE  t[new[i].window] # "unmapped" /\ new[i].to = t[new[i].window]
    <2>1. CASE i = p
        BY <1>5, <1>11, <1>14, <1>15, <2>1
    <2>2. CASE i # p
        <3>1. Old(i) \in 1..Len(m) /\ new[i] = m[Old(i)]
            BY <1>9, <2>2
        <3>2. s[new[i].window] # "unmapped" /\ new[i].to = s[new[i].window]
            BY <1>0, <3>1 DEF Holds
        <3> QED
            BY <1>0, <1>13, <2>2, <3>2
    <2> QED
        BY <2>1, <2>2
<1>17. ASSUME NEW v \in Windows, t[v] # "unmapped"
       PROVE  \E i \in 1..n : new[i].window = v
    <2>1. CASE v = w
        BY <1>5, <1>11, <2>1
    <2>2. CASE v # w
        <3>1. s[v] # "unmapped"
            BY <1>0, <1>17, <2>2
        <3>2. PICK k \in 1..Len(m) : m[k].window = v
            BY <1>0, <3>1 DEF Holds
        <3>3. k = p => r = p
            BY <1>3, <2>2, <3>2
        <3>4. CASE k < p
            <4>1. k \in 1..n
                BY <1>1, <1>3, <1>6, <3>4
            <4> QED
                BY <1>7, <3>2, <3>4, <4>1
        <3>5. CASE ~ (k < p)
            <4>1. k >= r
                BY <1>1, <1>3, <3>3, <3>5
            <4> DEFINE i == k + 1 + p - r
            <4>2. i \in 1..n /\ ~ (i < p) /\ i # p /\ r + (i - p) - 1 = k
                BY <1>1, <1>3, <1>6, <4>1
            <4> HIDE DEF i
            <4> QED
                BY <1>7, <3>2, <4>2
        <3> QED
            BY <3>4, <3>5
    <2> QED
        BY <2>1, <2>2
<1>18. Holds(new, t)
    BY <1>7, <1>16, <1>17 DEF Holds
<1> QED
    BY <1>7, <1>12, <1>14, <1>18 DEF Vector, new

\* lower_bound stops at a window that is there.
LEMMA MappedIsFound ==
    ASSUME NEW m, NEW s, Vector(m, s), NEW w \in Windows, s[w] # "unmapped"
    PROVE  IsAt(m, LowerBound(m, w), w)
<1> DEFINE p == LowerBound(m, w)
<1>1. /\ m \in Seq(Entry) /\ Sorted(m) /\ Holds(m, s) /\ Len(m) \in Nat
      /\ \A i \in 1..Len(m) : m[i].window \in Windows
    <2>1. m \in Seq(Entry) /\ Sorted(m) /\ Holds(m, s)
        BY DEF Vector
    <2>2. \A x \in Entry : x.window \in Windows
        BY DEF Entry
    <2> QED
        BY <2>1, <2>2, ElementOfSeq
<1>2. /\ p \in 1..(Len(m) + 1)
      /\ p <= Len(m) => ~ Before(m[p].window, w)
      /\ \A j \in 1..(p - 1) : Before(m[j].window, w)
    BY <1>1, LowerBoundFinds
<1> HIDE DEF p
<1>3. PICK k \in 1..Len(m) : m[k].window = w
    BY <1>1 DEF Holds
<1>4. ~ (k < p)
    <2>1. k < p => k \in 1..(p - 1)
        BY <1>1, <1>2
    <2> QED
        BY <1>2, <1>3, <2>1, BeforeIsOrder
<1>5. ~ (p < k)
    <2>1. p < k => p \in 1..Len(m)
        BY <1>1, <1>2
    <2>2. p < k => Before(m[p].window, w)
        BY <1>1, <1>3, <2>1 DEF Sorted
    <2> QED
        BY <1>2, <2>1, <2>2
<1>6. p = k /\ p <= Len(m)
    BY <1>1, <1>2, <1>4, <1>5
<1> QED
    BY <1>3, <1>6 DEF IsAt, p

\* What remove_mapping does to the elements (gb_memory_mapper.cpp:327-337)
LEMMA WithoutElements ==
    ASSUME NEW S, NEW m \in Seq(S), NEW p \in 1..Len(m)
    PROVE  /\ SubSeq(m, 1, p - 1) \o SubSeq(m, p + 1, Len(m)) \in Seq(S)
           /\ Len(SubSeq(m, 1, p - 1) \o SubSeq(m, p + 1, Len(m))) = Len(m) - 1
           /\ \A i \in 1..(Len(m) - 1) :
                (SubSeq(m, 1, p - 1) \o SubSeq(m, p + 1, Len(m)))[i] = IF i < p THEN m[i] ELSE m[i + 1]
<1> DEFINE a == SubSeq(m, 1, p - 1)
           b == SubSeq(m, p + 1, Len(m))
<1>0. Len(m) \in Nat
    OBVIOUS
<1>1. a \in Seq(S) /\ Len(a) = p - 1 /\ \A i \in 1..(p - 1) : a[i] = m[i]
    BY SubSeqProperties, Len(m) \in Nat
<1>2. b \in Seq(S) /\ Len(b) = Len(m) - p /\ \A i \in 1..(Len(m) - p) : b[i] = m[p + i]
    BY SubSeqProperties, Len(m) \in Nat
<1> HIDE DEF a, b
<1>3. /\ a \o b \in Seq(S) /\ Len(a \o b) = Len(m) - 1
      /\ \A i \in 1..(Len(m) - 1) : (a \o b)[i] = IF i <= p - 1 THEN a[i] ELSE b[i - (p - 1)]
    <2>1. /\ a \o b \in Seq(S) /\ Len(a \o b) = Len(a) + Len(b)
          /\ \A i \in 1..(Len(a) + Len(b)) :
                 (a \o b)[i] = IF i <= Len(a) THEN a[i] ELSE b[i - Len(a)]
        BY <1>1, <1>2, ConcatProperties
    <2>2. Len(a) = p - 1 /\ Len(a) + Len(b) = Len(m) - 1
        BY <1>1, <1>2, Len(m) \in Nat
    <2> QED
        BY <2>1, <2>2
<1>4. ASSUME NEW i \in 1..(Len(m) - 1)
      PROVE  (a \o b)[i] = IF i < p THEN m[i] ELSE m[i + 1]
    <2>1. CASE i < p
        BY <1>0, <1>1, <1>3, <2>1
    <2>2. CASE ~ (i < p)
        <3>1. i - (p - 1) \in 1..(Len(m) - p) /\ p + (i - (p - 1)) = i + 1 /\ ~ (i <= p - 1)
            BY <1>0, <2>2
        <3> QED
            BY <1>2, <1>3, <2>2, <3>1
    <2> QED
        BY <2>1, <2>2
<1> QED
    BY <1>3, <1>4 DEF a, b

\* remove_mapping keeps the vector sorted and takes out just that window.
LEMMA WithoutMappingVector ==
    ASSUME NEW m, NEW s, Vector(m, s), NEW w \in Windows, IsAt(m, LowerBound(m, w), w)
    PROVE  Vector(WithoutMapping(m, w), [s EXCEPT ![w] = "unmapped"])
<1> DEFINE p == LowerBound(m, w)
           new == WithoutMapping(m, w)
           t == [s EXCEPT ![w] = "unmapped"]
           n == Len(m) - 1
           Old(i) == IF i < p THEN i ELSE i + 1
<1>1. /\ m \in Seq(Entry) /\ Sorted(m) /\ Holds(m, s) /\ Len(m) \in Nat
      /\ s \in [Windows -> Contents \cup {"unmapped"}]
      /\ \A i \in 1..Len(m) : m[i].window \in Windows
    <2>1. m \in Seq(Entry) /\ Sorted(m) /\ Holds(m, s) /\ s \in [Windows -> Contents \cup {"unmapped"}]
        BY DEF Vector
    <2>2. \A x \in Entry : x.window \in Windows
        BY DEF Entry
    <2> QED
        BY <2>1, <2>2, ElementOfSeq
<1>2. p \in 1..Len(m) /\ m[p].window = w
    <2>1. p \in 1..(Len(m) + 1) /\ p <= Len(m) /\ m[p].window = w
        BY <1>1, LowerBoundFinds DEF IsAt
    <2> QED
        BY <1>1, <2>1
<1>3. new = SubSeq(m, 1, p - 1) \o SubSeq(m, p + 1, Len(m))
    BY DEF WithoutMapping
<1> HIDE DEF p, new
<1>4. /\ new \in Seq(Entry) /\ Len(new) = n
      /\ \A i \in 1..n : new[i] = IF i < p THEN m[i] ELSE m[i + 1]
    BY <1>1, <1>2, <1>3, WithoutElements
<1>5. ASSUME NEW i \in 1..n
      PROVE  Old(i) \in 1..Len(m) /\ Old(i) # p /\ new[i] = m[Old(i)]
    BY <1>1, <1>2, <1>4
<1>6. ASSUME NEW i \in 1..n, NEW j \in 1..n, i < j
      PROVE  Old(i) < Old(j)
    BY <1>1, <1>2, <1>6
<1> HIDE DEF Old
<1>7. Sorted(new)
    BY <1>1, <1>4, <1>5, <1>6 DEF Sorted
<1>8. ASSUME NEW k \in 1..Len(m), k # p
      PROVE  m[k].window # w
    <2>1. k < p \/ p < k
        BY <1>1, <1>2, <1>8
    <2>2. Before(m[k].window, m[p].window) \/ Before(m[p].window, m[k].window)
        BY <1>1, <1>2, <2>1 DEF Sorted
    <2> QED
        BY <1>1, <1>2, <2>2, BeforeIsOrder
<1>9. ASSUME NEW i \in 1..n
      PROVE  t[new[i].window] # "unmapped" /\ new[i].to = t[new[i].window]
    BY <1>1, <1>5, <1>8 DEF Holds
<1>10. ASSUME NEW v \in Windows, t[v] # "unmapped"
       PROVE  \E i \in 1..n : new[i].window = v
    <2>1. v # w /\ s[v] # "unmapped"
        BY <1>1, <1>10
    <2>2. PICK k \in 1..Len(m) : m[k].window = v
        BY <1>1, <2>1 DEF Holds
    <2>3. k # p
        BY <1>2, <2>1, <2>2
    <2>4. CASE k < p
        <3>1. k \in 1..n
            BY <1>1, <1>2, <2>4
        <3> QED
            BY <1>4, <2>2, <2>4, <3>1
    <2>5. CASE ~ (k < p)
        <3>1. k - 1 \in 1..n /\ ~ (k - 1 < p) /\ (k - 1) + 1 = k
            BY <1>1, <1>2, <2>3, <2>5
        <3> QED
            BY <1>4, <2>2, <3>1
    <2> QED
        BY <2>4, <2>5
<1>11. t \in [Windows -> Contents \cup {"unmapped"}]
    BY <1>1
<1>12. Holds(new, t)
    BY <1>4, <1>9, <1>10 DEF Holds
<1> QED
    BY <1>4, <1>7, <1>11, <1>12 DEF Vector, new

-----------------------------------------------------------------------------
(* Looking up                                                              *)

\* The first window that contains an address is the narrowest one that has been
\* mapped there (gb_memory_mapper.cpp:339-348).
LEMMA LookupIsOwner ==
    ASSUME Vector(mappings, shown), Mapped \subseteq Family, NEW address \in Int
    PROVE  Lookup(mappings, address) = Owner(address)
<1> DEFINE m == mappings
           found == {i \in 1..Len(m) : Contains(m[i].window, address)}
           around == {w \in Mapped : Contains(w, address)}
<1>1. /\ m \in Seq(Entry) /\ Sorted(m) /\ Holds(m, shown) /\ Len(m) \in Nat
      /\ \A i \in 1..Len(m) : m[i].window \in Windows
    <2>1. m \in Seq(Entry) /\ Sorted(m) /\ Holds(m, shown)
        BY DEF Vector
    <2>2. \A x \in Entry : x.window \in Windows
        BY DEF Entry
    <2> QED
        BY <2>1, <2>2, ElementOfSeq
<1>2. ASSUME NEW i \in found
      PROVE  m[i].window \in around
    BY <1>1 DEF Mapped, Holds
<1>3. ASSUME NEW w \in around
      PROVE  \E i \in found : m[i].window = w
    BY <1>1 DEF Mapped, Holds
<1>4. CASE found = {}
    <2>1. around = {}
        BY <1>3, <1>4
    <2> QED
        BY <1>4, <2>1 DEF Lookup, Owner
<1>5. CASE found # {}
    <2>1. found \subseteq Nat
        BY <1>1
    <2>2. PICK n \in found : \A k \in found : n <= k
        BY <1>5, <2>1, LeastNumber
    <2>3. ASSUME NEW k \in found, \A j \in found : k <= j
          PROVE  k = n
        <3>1. k \in Nat /\ n \in Nat /\ k <= n /\ n <= k
            BY <2>1, <2>2, <2>3
        <3> QED
            BY <3>1
    <2>4. Lookup(m, address) = m[n].to
        <3>1. (CHOOSE i \in found : \A j \in found : i <= j) = n
            BY <2>2, <2>3
        <3> QED
            BY <1>5, <3>1 DEF Lookup
    <2> DEFINE u == m[n].window
    <2>5. u \in around /\ u \in Windows /\ u \in Family
        BY <1>2, <2>2 DEF Mapped
    <2>6. ASSUME NEW v \in around
          PROVE  Within(u, v)
        <3>1. PICK k \in found : m[k].window = v
            BY <1>3
        <3>2. v \in Windows /\ v \in Family /\ Contains(u, address) /\ Contains(v, address)
            BY <2>5 DEF Mapped
        <3>3. n \in 1..Len(m) /\ k \in 1..Len(m) /\ n <= k
            BY <2>2
        <3>4. CASE n = k
            BY <3>1, <3>2, <3>4, WindowsAreWindows DEF Within
        <3>5. CASE n # k
            <4>1. n < k
                BY <3>3, <3>5
            <4>2. Before(u, v)
                BY <1>1, <3>1, <3>3, <4>1 DEF Sorted
            <4> QED
                BY <2>5, <3>2, <4>2, FirstIsNarrower
        <3> QED
            BY <3>4, <3>5
    <2> HIDE DEF u
    <2>7. ASSUME NEW w \in around, \A v \in around : Within(w, v)
          PROVE  w = u
        <3>1. w \in Windows
            BY DEF Mapped
        <3> QED
            BY <2>5, <2>6, <2>7, <3>1, SameExtent
    <2>8. Owner(address) = shown[u]
        <3>1. (CHOOSE w \in around : \A v \in around : Within(w, v)) = u
            BY <2>5, <2>6, <2>7
        <3>2. around # {}
            BY <2>5
        <3> QED
            BY <3>1, <3>2 DEF Owner
    <2>9. m[n].to = shown[u]
        BY <1>1, <2>2 DEF Holds, u
    <2> QED
        BY <2>4, <2>8, <2>9
<1> QED
    BY <1>4, <1>5

-----------------------------------------------------------------------------
(* The steps                                                               *)

\* Mapping one window keeps the vector, and shows what is told.
LEMMA MapWindowVector ==
    ASSUME Vector(mappings, shown), NEW w \in Windows, NEW to \in Contents, MapWindow(w, to)
    PROVE  /\ Vector(mappings, shown)'
           /\ shown' = [shown EXCEPT ![w] = to]
BY WithMappingVector DEF MapWindow

\* Mapping two windows does.
LEMMA MapWindowsVector ==
    ASSUME Vector(mappings, shown), NEW v \in Windows, NEW to_v \in Contents,
           NEW w \in Windows, NEW to_w \in Contents, MapWindows(v, to_v, w, to_w)
    PROVE  /\ Vector(mappings, shown)'
           /\ shown' = [[shown EXCEPT ![v] = to_v] EXCEPT ![w] = to_w]
<1>1. Vector(WithMapping(mappings, v, to_v), [shown EXCEPT ![v] = to_v])
    BY WithMappingVector
<1>2. Vector(WithMapping(WithMapping(mappings, v, to_v), w, to_w),
             [[shown EXCEPT ![v] = to_v] EXCEPT ![w] = to_w])
    BY <1>1, WithMappingVector
<1> QED
    BY <1>2 DEF MapWindows

\* A window that has something to show now is the one that has just been mapped
\* or had something before, and what is mapped stays mapped.
LEMMA OneMore ==
    ASSUME NEW s \in [Windows -> Contents \cup {"unmapped"}], NEW w \in Windows, NEW to \in Contents
    PROVE  /\ [s EXCEPT ![w] = to] \in [Windows -> Contents \cup {"unmapped"}]
           /\ \A v \in Windows : [s EXCEPT ![w] = to][v] # "unmapped" <=> v = w \/ s[v] # "unmapped"
<1>1. to # "unmapped"
    BY MapperAssumption DEF Contents
<1> QED
    BY <1>1

\* An action that maps one window of the session keeps what is known.
LEMMA OneWindowKeeps ==
    ASSUME MapInv, NEW w \in Windows, w \in Family, NEW to \in Contents, MapWindow(w, to),
           UNCHANGED <<controller, failed>>,
           stage' \in {"ppu", "boot", "cart", "run"}, boot_rom_disable' \in BOOLEAN,
           stage' \in {"cart", "run"} /\ ~ boot_rom_disable' =>
               w = BootRom \/ shown[BootRom] # "unmapped"
    PROVE  MapInv'
<1>1. Vector(mappings, shown)' /\ shown' = [shown EXCEPT ![w] = to]
    BY MapWindowVector DEF MapInv
<1>2. shown \in [Windows -> Contents \cup {"unmapped"}]
    BY DEF MapInv, Vector
<1>3. \A v \in Windows : shown'[v] # "unmapped" <=> v = w \/ shown[v] # "unmapped"
    BY <1>1, <1>2, OneMore
<1>4. (Mapped \subseteq Family)'
    BY <1>3 DEF MapInv, Mapped, Family
<1>5. BootRomThere'
    <2>1. BootRom \in Windows
        BY DEF Windows
    <2> QED
        BY <1>3, <2>1 DEF BootRomThere
<1> QED
    BY <1>1, <1>4, <1>5 DEF MapInv

\* So does one that maps two.
LEMMA TwoWindowsKeep ==
    ASSUME MapInv, NEW v \in Windows, v \in Family, NEW to_v \in Contents,
           NEW w \in Windows, w \in Family, NEW to_w \in Contents, MapWindows(v, to_v, w, to_w),
           UNCHANGED <<controller, failed, boot_rom_disable>>,
           stage' \in {"cart", "run"}, stage \in {"cart", "run"}
    PROVE  MapInv'
<1> DEFINE half == [shown EXCEPT ![v] = to_v]
<1>1. Vector(mappings, shown)' /\ shown' = [half EXCEPT ![w] = to_w]
    BY MapWindowsVector DEF MapInv
<1>2. shown \in [Windows -> Contents \cup {"unmapped"}]
    BY DEF MapInv, Vector
<1>3. /\ half \in [Windows -> Contents \cup {"unmapped"}]
      /\ \A u \in Windows : half[u] # "unmapped" <=> u = v \/ shown[u] # "unmapped"
    BY <1>2, OneMore
<1> HIDE DEF half
<1>4. \A u \in Windows : shown'[u] # "unmapped" <=> u = w \/ half[u] # "unmapped"
    BY <1>1, <1>3, OneMore
<1>5. (Mapped \subseteq Family)'
    BY <1>3, <1>4 DEF MapInv, Mapped, Family
<1>6. BootRomThere'
    <2>1. BootRom \in Windows
        BY DEF Windows
    <2> QED
        BY <1>3, <1>4, <2>1 DEF BootRomThere, MapInv
<1> QED
    BY <1>1, <1>5, <1>6 DEF MapInv

\* Nothing is mapped at first.
LEMMA InitMap == MapperInit => MapInv
<1> SUFFICES ASSUME MapperInit PROVE MapInv
    OBVIOUS
<1>1. mappings = <<>> /\ shown = [w \in Windows |-> "unmapped"]
    BY DEF MapperInit
<1>2. mappings \in Seq(Entry) /\ Len(mappings) = 0 /\ 1..Len(mappings) = {}
    BY <1>1
<1>3. Sorted(mappings) /\ Holds(mappings, shown)
    BY <1>1, <1>2 DEF Sorted, Holds
<1>4. Mapped = {}
    BY <1>1 DEF Mapped
<1> QED
    BY <1>1, <1>2, <1>3, <1>4 DEF MapperInit, MapInv, Vector, BootRomThere

\* Every step of the PPU, the boot ROM, the cartridge and OAM DMA keeps it.
LEMMA NextMap == MapInv /\ [MapperNext]_mapperVars => MapInv'
<1> SUFFICES ASSUME MapInv, [MapperNext]_mapperVars PROVE MapInv'
    OBVIOUS
<1>0. /\ {BootRom, VideoRam, Oam, PpuRegisters} \subseteq Windows
      /\ {BootRom, VideoRam, Oam, PpuRegisters} \subseteq Family
      /\ {LowerRom, UpperRom, ExternalRam, Rom, PlainRam} \subseteq Windows
      /\ controller => {LowerRom, UpperRom, ExternalRam} \subseteq Family
      /\ ~ controller => {Rom, PlainRam} \subseteq Family
    BY DEF Windows, Family, BankedWindows, PlainWindows
<1>00. {"boot_rom", "vram", "oam", "registers", "nothing"} \subseteq Contents /\ Banks \subseteq Contents
    BY DEF Contents
<1>1. CASE Construct
    <2> DEFINE one == [shown EXCEPT ![VideoRam] = "vram"]
               two == [one EXCEPT ![Oam] = "oam"]
               three == [two EXCEPT ![PpuRegisters] = "registers"]
               m1 == WithMapping(mappings, VideoRam, "vram")
               m2 == WithMapping(m1, Oam, "oam")
               m3 == WithMapping(m2, PpuRegisters, "registers")
    <2>1. mappings' = m3 /\ shown' = three
        BY <1>1 DEF Construct
    <2>2. Vector(m1, one)
        BY <1>0, <1>00, WithMappingVector DEF MapInv
    <2> HIDE DEF one, m1
    <2>3. Vector(m2, two)
        BY <1>0, <1>00, <2>2, WithMappingVector
    <2> HIDE DEF two, m2
    <2>4. Vector(m3, three)
        BY <1>0, <1>00, <2>3, WithMappingVector
    <2>5. \A u \in Windows : one[u] # "unmapped" <=> u = VideoRam \/ shown[u] # "unmapped"
        BY <1>0, <1>00, OneMore DEF one, MapInv, Vector
    <2>6. \A u \in Windows : two[u] # "unmapped" <=> u = Oam \/ one[u] # "unmapped"
        BY <1>0, <1>00, <2>2, OneMore DEF two, Vector
    <2>7. \A u \in Windows : three[u] # "unmapped" <=> u = PpuRegisters \/ two[u] # "unmapped"
        BY <1>0, <1>00, <2>3, OneMore DEF Vector
    <2> HIDE DEF three, m3
    <2>8. (Mapped \subseteq Family)'
        <3>1. Family' = Family
            BY <1>1 DEF Construct, Family
        <3> QED
            BY <1>0, <2>1, <2>5, <2>6, <2>7, <3>1 DEF MapInv, Mapped
    <2> QED
        BY <1>1, <2>1, <2>4, <2>8 DEF Construct, MapInv, BootRomThere
<1>2. CASE LoadBootRom
    BY <1>0, <1>00, <1>2, OneWindowKeeps DEF LoadBootRom
<1>3. ASSUME NEW first \in Banks, NEW second \in Banks, MapCart(<<first, second>>)
      PROVE  MapInv'
    <2>0. /\ UNCHANGED <<controller, boot_rom_disable, failed>>
          /\ stage = "cart" /\ stage' = "run"
        BY <1>3 DEF MapCart
    <2>1. CASE controller /\ MapWindows(LowerRom, first, UpperRom, second)
        BY <1>0, <1>00, <2>0, <2>1, TwoWindowsKeep
    <2>2. CASE ~ controller /\ MapWindow(Rom, first)
        BY <1>0, <1>00, <2>0, <2>2, OneWindowKeeps DEF MapInv, BootRomThere
    <2>3. CASE ~ controller /\ MapWindows(Rom, first, PlainRam, second)
        BY <1>0, <1>00, <2>0, <2>3, TwoWindowsKeep
    <2> QED
        BY <1>3, <2>1, <2>2, <2>3 DEF MapCart
<1>4. ASSUME NEW w \in Windows, NEW to \in Banks \cup {"nothing"}, SwitchBank(w, to)
      PROVE  MapInv'
    <2>1. w \in Family /\ to \in Contents /\ MapWindow(w, to)
        BY <1>0, <1>00, <1>4 DEF SwitchBank
    <2> QED
        BY <1>4, <2>1, OneWindowKeeps DEF SwitchBank, MapInv, BootRomThere
<1>5. ASSUME NEW to \in {"oam", "nothing"}, SwitchOam(to)
      PROVE  MapInv'
    BY <1>0, <1>00, <1>5, OneWindowKeeps DEF SwitchOam, MapInv, BootRomThere
<1>6. CASE RestoreAccess
    BY <1>0, <1>00, <1>6, TwoWindowsKeep DEF RestoreAccess
<1>7. CASE WriteFF50
    <2>1. Vector(mappings, shown) /\ shown[BootRom] # "unmapped"
        BY <1>7 DEF WriteFF50, MapInv, BootRomThere
    <2>2. IsAt(mappings, LowerBound(mappings, BootRom), BootRom)
        BY <1>0, <2>1, MappedIsFound
    <2>3. /\ mappings' = WithoutMapping(mappings, BootRom)
          /\ shown' = [shown EXCEPT ![BootRom] = "unmapped"]
          /\ UNCHANGED <<failed, stage, controller>> /\ boot_rom_disable' = TRUE
        BY <1>7, <2>2 DEF WriteFF50
    <2>4. Vector(mappings, shown)'
        BY <1>0, <2>1, <2>2, <2>3, WithoutMappingVector
    <2>5. (Mapped \subseteq Family)'
        BY <2>1, <2>3 DEF MapInv, Vector, Mapped, Family
    <2> QED
        BY <2>3, <2>4, <2>5 DEF MapInv, BootRomThere
<1>8. ASSUME UNCHANGED mapVars
      PROVE  MapInv'
    BY <1>8 DEF mapVars, MapInv, Vector, Sorted, Holds, Mapped, Family, BootRomThere
<1>9. WriteDiv \/ Pass \/ UNCHANGED mapperVars => UNCHANGED mapVars
    BY DEF WriteDiv, Pass, mapperVars
<1> QED
    BY <1>1, <1>2, <1>3, <1>4, <1>5, <1>6, <1>7, <1>8, <1>9 DEF MapperNext

\* However the program and the PPU map and remove windows, the vector holds
\* what was mapped last, sorted, and the boot ROM until it is removed.
THEOREM MappingsAreSorted == MapperSpec => []MapInv
BY InitMap, NextMap, PTL DEF MapperSpec

\* A lookup finds the narrowest window that has been mapped at an address, for
\* all banks and addresses, and FF50 never fails (gb_memory_mapper.cpp:264-348).
THEOREM LookupIsNarrowest == MapperSpec => []LookupFindsOwner
<1>1. MapInv => LookupFindsOwner
    BY LookupIsOwner, MapperAssumption DEF MapInv, LookupFindsOwner
<1> QED
    BY <1>1, MappingsAreSorted, PTL

-----------------------------------------------------------------------------
(* DIV                                                                     *)

\* Division with remainder
LEMMA Divides ==
    ASSUME NEW a \in Int, NEW d \in Nat \ {0}
    PROVE  /\ a \div d \in Int /\ a % d \in Int
           /\ a = d * (a \div d) + (a % d)
           /\ 0 <= a % d /\ a % d < d
OBVIOUS

\* A positive multiple of a number is at least the number.
LEMMA MultipleIsLarger ==
    ASSUME NEW d \in Nat \ {0}, NEW z \in Int, 1 <= z
    PROVE  d <= d * z
<1>1. PICK y \in Nat : z = y + 1
    <2>1. z - 1 \in Nat /\ z = (z - 1) + 1
        OBVIOUS
    <2> QED
        BY <2>1
<1>2. d * z = d * y + d /\ 0 <= d * y
    BY <1>1
<1> QED
    BY <1>2

\* There is one remainder.
LEMMA OneRemainder ==
    ASSUME NEW d \in Nat \ {0}, NEW x \in Int, NEW y \in Int, NEW p \in Int, NEW q \in Int,
           0 <= x, x < d, 0 <= y, y < d, d * p + x = d * q + y
    PROVE  x = y
<1>1. ASSUME p < q
      PROVE  FALSE
    <2>1. d * (q - p) = x - y
        OBVIOUS
    <2>2. d <= d * (q - p)
        BY <1>1, MultipleIsLarger
    <2> QED
        BY <2>1, <2>2
<1>2. ASSUME q < p
      PROVE  FALSE
    <2>1. d * (p - q) = y - x
        OBVIOUS
    <2>2. d <= d * (p - q)
        BY <1>2, MultipleIsLarger
    <2> QED
        BY <2>1, <2>2
<1> QED
    BY <1>1, <1>2

\* The cycle counter wraps around at a multiple of where DIV does.
LEMMA WrapIsMultiple == \E k \in Int : CounterWrap = DivWrap * k
<1>1. CounterWrap = DivWrap * (CounterWrap \div DivWrap) + (CounterWrap % DivWrap)
    BY MapperAssumption, Divides
<1>2. CounterWrap % DivWrap = 0 /\ CounterWrap \div DivWrap \in Int
    BY MapperAssumption, Divides
<1>3. CounterWrap = DivWrap * (CounterWrap \div DivWrap)
    BY <1>1, <1>2, MapperAssumption
<1> QED
    BY <1>2, <1>3

\* A count that starts again where it wraps around
LEMMA NextCount ==
    ASSUME NEW d \in Nat \ {0}, NEW a \in Nat, a < d
    PROVE  /\ (a + 1) % d \in Nat /\ (a + 1) % d < d /\ (a + 1) \div d \in Int
           /\ (a + 1) % d = a + 1 - d * ((a + 1) \div d)
<1>1. a + 1 \in Int
    OBVIOUS
<1>2. /\ (a + 1) \div d \in Int /\ (a + 1) % d \in Int
      /\ a + 1 = d * ((a + 1) \div d) + ((a + 1) % d)
      /\ 0 <= (a + 1) % d /\ (a + 1) % d < d
    BY <1>1, Divides
<1> QED
    BY <1>2

\* DIV and the counter start together.
LEMMA InitDiv == MapperInit => DivInv
<1> SUFFICES ASSUME MapperInit PROVE DivInv
    OBVIOUS
<1>1. DivWrap * 0 + since = clock - timer_div_reset
    BY MapperAssumption DEF MapperInit
<1> QED
    BY <1>1, MapperAssumption DEF MapperInit, DivInv

\* A cycle counts in both; a write of DIV starts the one where the other is.
LEMMA NextDiv == DivInv /\ [MapperNext]_mapperVars => DivInv'
<1> SUFFICES ASSUME DivInv, [MapperNext]_mapperVars PROVE DivInv'
    OBVIOUS
<1>1. CASE WriteDiv
    <2>1. clock' = clock /\ timer_div_reset' = clock /\ since' = 0
        BY <1>1 DEF WriteDiv
    <2>2. DivWrap * 0 + since' = clock' - timer_div_reset'
        BY <2>1, MapperAssumption DEF DivInv
    <2> QED
        BY <2>1, <2>2, MapperAssumption DEF DivInv
<1>2. CASE Pass
    <2>1. /\ clock' = (clock + 1) % CounterWrap
          /\ since' = (since + 1) % DivWrap
          /\ timer_div_reset' = timer_div_reset
        BY <1>2 DEF Pass
    <2>2. PICK turns \in Int : DivWrap * turns + since = clock - timer_div_reset
        BY DEF DivInv
    <2>3. PICK k \in Int : CounterWrap = DivWrap * k
        BY WrapIsMultiple
    <2>w. CounterWrap \in Nat \ {0} /\ DivWrap \in Nat \ {0}
        BY MapperAssumption
    <2> DEFINE q == (clock + 1) \div CounterWrap
               r == (since + 1) \div DivWrap
    <2>4. clock' \in Nat /\ clock' < CounterWrap
        BY <2>1, <2>w, NextCount DEF DivInv
    <2>5. since' \in Nat /\ since' < DivWrap
        BY <2>1, <2>w, NextCount DEF DivInv
    <2>6. q \in Int /\ clock' = clock + 1 - CounterWrap * q
        BY <2>1, <2>w, NextCount DEF DivInv
    <2>7. r \in Int /\ since' = since + 1 - DivWrap * r
        BY <2>1, <2>w, NextCount DEF DivInv
    <2> HIDE DEF q, r
    <2>8. CounterWrap * q = DivWrap * (k * q)
        BY <2>3, <2>6, <2>w
    <2>9. /\ k * q \in Int
          /\ DivWrap * (turns + r - k * q) = DivWrap * turns + DivWrap * r - DivWrap * (k * q)
        BY <2>6, <2>7, <2>w
    <2>10. DivWrap * (turns + r - k * q) + since' = clock' - timer_div_reset'
        BY <2>1, <2>2, <2>6, <2>7, <2>8, <2>9, MapperAssumption DEF DivInv
    <2>11. turns + r - k * q \in Int /\ timer_div_reset' \in Nat
        BY <2>1, <2>6, <2>7, <2>9 DEF DivInv
    <2> QED
        BY <2>4, <2>5, <2>10, <2>11 DEF DivInv
<1>3. ASSUME UNCHANGED divVars
      PROVE  DivInv'
    BY <1>3 DEF divVars, DivInv
<1>4. MapperNext => WriteDiv \/ Pass \/ UNCHANGED divVars
    BY DEF MapperNext, Construct, LoadBootRom, MapCart, SwitchBank, SwitchOam, RestoreAccess, WriteFF50
<1> QED
    BY <1>1, <1>2, <1>3, <1>4 DEF mapperVars

\* DIV is the time since it was written, whatever the counter has done since.
LEMMA DivIsRemainder == DivInv => DivFollowsReset
<1> SUFFICES ASSUME DivInv PROVE DivFollowsReset
    OBVIOUS
<1> DEFINE gap == clock - timer_div_reset
           x == gap % CounterWrap
           y == x % DivWrap
<1>1. PICK turns \in Int : DivWrap * turns + since = gap
    BY DEF DivInv
<1>2. PICK k \in Int : CounterWrap = DivWrap * k
    BY WrapIsMultiple
<1>3. gap \in Int
    BY DEF DivInv
<1> HIDE DEF gap
<1>w. CounterWrap \in Nat \ {0} /\ DivWrap \in Nat \ {0}
    BY MapperAssumption
<1>4. PICK p \in Int : gap = CounterWrap * p + x /\ x \in Int
    <2>1. gap \div CounterWrap \in Int /\ x \in Int /\ gap = CounterWrap * (gap \div CounterWrap) + x
        BY <1>3, <1>w, Divides
    <2> QED
        BY <2>1
<1> HIDE DEF x
<1>5. PICK q \in Int : x = DivWrap * q + y /\ y \in Int /\ 0 <= y /\ y < DivWrap
    <2>1. x \in Int
        BY <1>4
    <2>2. /\ x \div DivWrap \in Int /\ y \in Int /\ x = DivWrap * (x \div DivWrap) + y
          /\ 0 <= y /\ y < DivWrap
        BY <2>1, <1>w, Divides
    <2> QED
        BY <2>2
<1> HIDE DEF y
<1>6. CounterWrap * p = DivWrap * (k * p) /\ k * p \in Int
    BY <1>2, MapperAssumption
<1>7. DivWrap * (k * p + q) = DivWrap * (k * p) + DivWrap * q /\ k * p + q \in Int
    BY <1>6, MapperAssumption
<1>8. DivWrap * (k * p + q) + y = DivWrap * turns + since
    BY <1>1, <1>4, <1>5, <1>6, <1>7, MapperAssumption DEF DivInv
<1>9. y = since
    BY <1>5, <1>7, <1>8, OneRemainder, MapperAssumption DEF DivInv
<1> QED
    BY <1>9 DEF DivFollowsReset, Div, gap, x, y

\* DIV shows the time since it was written, for every step and every multiple
\* at which the counter wraps around (gb_memory_mapper.cpp:70-74, 203-207).
THEOREM DivIsExact == MapperSpec => []DivFollowsReset
<1>1. MapperSpec => []DivInv
    BY InitDiv, NextDiv, PTL DEF MapperSpec
<1> QED
    BY <1>1, DivIsRemainder, PTL
=============================================================================
