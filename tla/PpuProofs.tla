------------------------------ MODULE PpuProofs ------------------------------
(***************************************************************************)
(* Proofs about the control part of the PPU, for every number of lines and *)
(* length of the waits, whenever the CPU writes LCDC, STAT, LYC, IF and IE. *)
(*                                                                         *)
(* The argument is about the callbacks of update_stat that are queued: the *)
(* one queued last is that of the loop's present wait (Latest), because    *)
(* each wait is longer than the four cycles of its callback, and the CPU   *)
(* cannot write twice in four cycles.                                      *)
(***************************************************************************)
EXTENDS Ppu, TLAPS

-----------------------------------------------------------------------------
(* The inductive invariant                                                 *)

\* The mode that the loop posts when it comes to its wait
Posted == CASE pc \in {"off", "power_on"}       -> "initial_power_on"
            [] pc \in {"v_blank", "last_line"}  -> "v_blank"
            [] OTHER                            -> pc

\* The line number at each wait.  The last two waits of a frame are never
\* reached: the callback of line 153 is due with the wait before them, which is
\* then taken for interrupted (Mistaken).
Places ==
    /\ pc \notin {"last_line_ly0", "last_line_end"}
    /\ pc = "power_on" => y = 0
    /\ pc \in {"oam_search", "lcd_write", "h_blank"} => y < LINES
    /\ pc = "v_blank" => LINES <= y /\ y < LAST
    /\ pc = "last_line" => y = LAST
    /\ pc # "off" => ly = y

\* How long the waits are: each is longer than the callback posted at its start,
\* but for that of line 153.
Waits ==
    /\ pc = "off" <=> wait = Never
    /\ pc = "off" => ~ lcd_enable
    /\ pc = "power_on" => line_left = LineLength - 6 - PowerOn + wait
    /\ pc = "oam_search" => line_left = LineLength - OamSearch + wait
    /\ pc = "lcd_write" => line_left >= wait + 5
    /\ pc \notin {"off", "last_line"} => \A p \in posts : p.left < wait
    /\ pc = "last_line" => mode = "v_blank" /\ posts = {[mode |-> "v_blank", left |-> wait]}

\* An entry left in the queue is due before the CPU can write again, and finds
\* the loop at rest or at the start of its first line.
Ghosts ==
    ghost # Never =>
        /\ ghost <= 3 /\ ghost < busy /\ ~ halted /\ since = NoFrame
        /\ \/ pc = "off" /\ posts = {}
           \/ /\ pc = "oam_search" /\ lcd_enable /\ ghost < wait
              /\ \A p \in posts : p.mode = "oam_search"

\* The callback queued last is that of the loop's wait, and the mode is that of
\* the wait once it ran.
Latest ==
    pc # "off" =>
        /\ posts = {} => mode = ModeOf
        /\ \A p \in posts : p.mode = Posted \/ \E q \in posts : q.left > p.left

\* The steps of ModeSequence
Follows(m, n) ==
    \/ m = n
    \/ m = "oam_search" /\ n = "lcd_write"
    \/ m = "lcd_write" /\ n = "h_blank"
    \/ m = "h_blank" /\ n \in {"oam_search", "v_blank"}
    \/ m = "v_blank" /\ n = "oam_search"

\* While a frame is measured, the LCD is on, and at most one callback is queued,
\* of the mode that comes next
Frames ==
    /\ since >= NoFrame
    /\ since # NoFrame =>
        /\ lcd_enable /\ pc \notin {"off", "power_on"}
        /\ \A p, q \in posts : p = q
        /\ \A p \in posts : Follows(mode, Truncated(p.mode))

\* ... and in V-blank the callback finds the line up, or its interrupt requested:
\* the CPU cannot write both STAT and IF before it.
VBlankIsUp ==
    since # NoFrame /\ pc \in {"v_blank", "last_line"} =>
        /\ mode = "v_blank" => vblank_flag
        /\ mode # "v_blank" => \A p \in posts :
              \/ vblank_flag /\ "vblank" \in interrupt_flag
              \/ busy > p.left /\ (vblank_flag \/ "vblank" \in interrupt_flag)

PInv ==
    /\ TypeOK /\ Places /\ Waits /\ Ghosts
    /\ Latest /\ LinesFollowRegisters /\ Frames /\ VBlankIsUp

-----------------------------------------------------------------------------
(* Numbers                                                                 *)

\* The constants are integers in the order that the code's numbers are in.
LEMMA Constants ==
    /\ LINES \in Nat /\ LAST \in Nat /\ 0 < LINES /\ LINES < LAST
    /\ PowerOn \in Nat /\ OamSearch \in Nat /\ LineLength \in Nat /\ Spacing \in Nat
    /\ 4 < PowerOn /\ PowerOn + 6 <= OamSearch /\ OamSearch + 10 <= LineLength /\ Spacing > 4
    /\ \A n \in Render : n \in Nat /\ 5 <= n /\ n <= LineLength - OamSearch - 5
<1>1. PICK n \in Render : TRUE
    BY PpuAssumption
<1>2. n \in 5..(LineLength - OamSearch - 5)
    BY <1>1, PpuAssumption
<1> QED
    BY <1>2, PpuAssumption

\* Timers stop at zero.
LEMMA MaxZero ==
    ASSUME NEW n \in Int
    PROVE  Max({n, 0}) = IF n >= 0 THEN n ELSE 0
<1>1. CASE n >= 0
    <2>1. \A x \in {n, 0} : (\A z \in {n, 0} : x >= z) <=> x = n
        BY <1>1
    <2> QED
        BY <1>1, <2>1 DEF Max
<1>2. CASE n < 0
    <2>1. \A x \in {n, 0} : (\A z \in {n, 0} : x >= z) <=> x = 0
        BY <1>2
    <2> QED
        BY <1>2, <2>1 DEF Max
<1> QED
    BY <1>1, <1>2

\* A set of four timers of a few cycles and three others has a least one.
LEMMA LeastTimer ==
    ASSUME NEW L, L \subseteq 0..4, NEW a \in Int, NEW b \in Int, NEW c \in Int,
           NEW S, S \subseteq L \cup {a, b, c}, S # {}
    PROVE  Min(S) \in S /\ \A x \in S : Min(S) <= x
<1>1. \E m \in S : \A x \in S : m <= x
    <2>1. S \cap L # {} => \E m \in S \cap L : \A x \in S \cap L : m <= x
        <3>1. CASE 0 \in S \cap L  BY <3>1
        <3>2. CASE 0 \notin S \cap L /\ 1 \in S \cap L  BY <3>2
        <3>3. CASE 0 \notin S \cap L /\ 1 \notin S \cap L /\ 2 \in S \cap L  BY <3>3
        <3>4. CASE 0 \notin S \cap L /\ 1 \notin S \cap L /\ 2 \notin S \cap L /\ 3 \in S \cap L  BY <3>4
        <3>5. CASE 0 \notin S \cap L /\ 1 \notin S \cap L /\ 2 \notin S \cap L /\ 3 \notin S \cap L
            <4>1. \A x \in S \cap L : x = 0 \/ x = 1 \/ x = 2 \/ x = 3 \/ x = 4
                OBVIOUS
            <4>2. \A x \in S \cap L : x = 4
                BY <3>5, <4>1
            <4>3. CASE S \cap L # {}
                <5>1. PICK m : m \in S \cap L
                    BY <4>3
                <5>2. m \in S \cap L /\ m = 4 /\ \A x \in S \cap L : m <= x
                    BY <4>2, <5>1
                <5> QED
                    BY <5>2
            <4> QED
                BY <4>3
        <3> QED
            BY <3>1, <3>2, <3>3, <3>4, <3>5
    <2>2. S \cap {a, b, c} # {} => \E m \in S \cap {a, b, c} : \A x \in S \cap {a, b, c} : m <= x
        <3> DEFINE T == S \cap {a, b, c}
        <3>1. CASE a \in T /\ (b \in T => a <= b) /\ (c \in T => a <= c)  BY <3>1
        <3>2. CASE b \in T /\ (a \in T => b <= a) /\ (c \in T => b <= c)  BY <3>2
        <3>3. CASE c \in T /\ (a \in T => c <= a) /\ (b \in T => c <= b)  BY <3>3
        <3> QED
            BY <3>1, <3>2, <3>3
    <2>3. CASE S \cap L = {}
        BY <2>2, <2>3
    <2>4. CASE S \cap {a, b, c} = {}
        BY <2>1, <2>4
    <2>5. CASE S \cap L # {} /\ S \cap {a, b, c} # {}
        <3>1. PICK m \in S \cap L : \A x \in S \cap L : m <= x
            BY <2>1, <2>5
        <3>2. PICK k \in S \cap {a, b, c} : \A x \in S \cap {a, b, c} : k <= x
            BY <2>2, <2>5
        <3>3. m \in Int /\ k \in Int /\ \A x \in S : x \in Int
            BY <3>1, <3>2
        <3>4. CASE m <= k  BY <3>1, <3>2, <3>3, <3>4
        <3>5. CASE k <= m  BY <3>1, <3>2, <3>3, <3>5
        <3> QED
            BY <3>3, <3>4, <3>5
    <2> QED
        BY <2>3, <2>4, <2>5
<1> QED
    BY <1>1 DEF Min

-----------------------------------------------------------------------------
(* Types                                                                   *)

Bits == {"vblank", "stat"}
LineState == [stat : BOOLEAN, vblank : BOOLEAN, bits : SUBSET Bits]

\* The lines are levels and bits of IF (gb_ppu.cpp:650-699).
LEMMA LinesTypes ==
    ASSUME NEW f \in LineState, NEW m, NEW sources, NEW c \in BOOLEAN
    PROVE  Lines(f, m, sources, c) \in LineState
<1>1. StatLine(m, sources, c) \in BOOLEAN /\ (m = "v_blank") \in BOOLEAN
    BY Zenon DEF StatLine
<1>2. f.bits \subseteq Bits
    BY DEF LineState
<1>3. Lines(f, m, sources, c).bits \subseteq Bits
    BY <1>2 DEF Lines, Bits
<1> QED
    BY <1>1, <1>3, Zenon DEF Lines, LineState

\* What the lines are afterwards, and which bits rise.
LEMMA LinesAre ==
    ASSUME NEW f \in LineState, NEW m, NEW sources, NEW c
    PROVE  /\ Lines(f, m, sources, c).stat = StatLine(m, sources, c)
           /\ Lines(f, m, sources, c).vblank = (m = "v_blank")
           /\ f.bits \subseteq Lines(f, m, sources, c).bits
           /\ "vblank" \in Lines(f, m, sources, c).bits <=>
                 "vblank" \in f.bits \/ (m = "v_blank" /\ ~ f.vblank)
BY Zenon DEF Lines

LEMMA CurrentTypes == TypeOK => CurrentLines \in LineState
<1> SUFFICES ASSUME TypeOK
             PROVE  CurrentLines \in LineState
    OBVIOUS
<1>1. stat_flag \in BOOLEAN /\ vblank_flag \in BOOLEAN /\ interrupt_flag \in SUBSET Bits
    BY DEF TypeOK, Bits
<1> QED
    BY <1>1, Zenon DEF CurrentLines, LineState

\* Setting the lines keeps the types of what it sets.
LEMMA SetLinesTypes ==
    ASSUME TypeOK, NEW f \in LineState, SetLines(f)
    PROVE  /\ stat_flag' \in BOOLEAN /\ vblank_flag' \in BOOLEAN
           /\ interrupt_flag' \subseteq {"vblank", "stat"} /\ halted' \in BOOLEAN
<1>1. f.stat \in BOOLEAN /\ f.vblank \in BOOLEAN /\ f.bits \subseteq {"vblank", "stat"}
    BY Zenon DEF LineState, Bits
<1>2. halted \in BOOLEAN
    BY DEF TypeOK
<1> QED
    BY <1>1, <1>2, Zenon DEF SetLines

\* update_stat keeps the types of what it sets (gb_ppu.cpp:701-735).
LEMMA UpdateStatTypes ==
    ASSUME TypeOK, NEW m \in LcdMode, NEW l \in 0..LAST, NEW queue \in SUBSET posts,
           UpdateStat(m, l, coincidence, queue), \A q \in queue : q.left < 4 \/ q.mode = m
    PROVE  /\ ly' \in 0..LAST /\ coincidence' \in BOOLEAN /\ mode' = mode
           /\ stat_flag' \in BOOLEAN /\ vblank_flag' \in BOOLEAN
           /\ interrupt_flag' \subseteq {"vblank", "stat"} /\ halted' \in BOOLEAN
           /\ posts' \subseteq [mode : LcdMode, left : 0..4]
           /\ \A p, q \in posts' : p.left = q.left => p = q
<1>1. coincidence' \in BOOLEAN
    <2>1. coincidence \in BOOLEAN /\ (ly = l) \in BOOLEAN
        BY DEF TypeOK
    <2> QED
        BY <2>1, Zenon DEF UpdateStat
<1>2. /\ stat_flag' \in BOOLEAN /\ vblank_flag' \in BOOLEAN
      /\ interrupt_flag' \subseteq {"vblank", "stat"} /\ halted' \in BOOLEAN
    <2>1. Lines(CurrentLines, m, ienable, coincidence') \in LineState
        BY <1>1, CurrentTypes, LinesTypes
    <2> QED
        BY <2>1, SetLinesTypes DEF UpdateStat
<1> DEFINE new == [mode |-> m, left |-> 4]
<1>3. new \in [mode : LcdMode, left : 0..4] /\ new.mode = m /\ new.left = 4
    OBVIOUS
<1>4. posts \subseteq [mode : LcdMode, left : 0..4] /\ \A p, q \in posts : p.left = q.left => p = q
    BY DEF TypeOK
<1>5. posts' = queue \cup {new}
    BY DEF UpdateStat
<1>6. \A q \in queue : q.left = 4 => q = new
    <2> SUFFICES ASSUME NEW q \in queue, q.left = 4
                 PROVE  q = new
        OBVIOUS
    <2>1. q \in [mode : LcdMode, left : 0..4] /\ q.mode = m
        BY <1>4
    <2> QED
        BY <2>1
<1> HIDE DEF new
<1>7. \A p, q \in posts' : p.left = q.left => p = q
    BY <1>3, <1>4, <1>5, <1>6
<1> QED
    BY <1>1, <1>2, <1>3, <1>4, <1>5, <1>7 DEF UpdateStat

-----------------------------------------------------------------------------
(* A wait begins                                                           *)

\* The waits of the loop, each with the mode that it posts, its line and length
Begins(p, m, l, n) ==
    \/ p = "power_on" /\ m = "initial_power_on" /\ l = 0 /\ n = PowerOn /\ line_left' = LineLength - 6
    \/ p = "oam_search" /\ m = p /\ l < LINES /\ n = OamSearch /\ line_left' = LineLength
    \/ p = "lcd_write" /\ m = p /\ l < LINES /\ 4 < n /\ n + 5 <= line_left /\ line_left' = line_left
    \/ p = "h_blank" /\ m = p /\ l < LINES /\ 4 < n /\ n = line_left /\ line_left' = line_left
    \/ p = "v_blank" /\ m = p /\ LINES <= l /\ l < LAST /\ n = LineLength /\ line_left' = line_left
    \/ p = "last_line" /\ m = "v_blank" /\ l = LAST /\ n = 4 /\ line_left' = line_left

\* update_stat and the wait after it (gb_ppu.cpp:144-513): the callback is due
\* before the wait ends, but for line 153, and is the one queued last.
LEMMA WaitBegins ==
    ASSUME TypeOK, NEW m \in LcdMode, NEW p \in Pc, NEW l \in 0..LAST, NEW n \in Int,
           NEW queue \in SUBSET posts,
           UpdateStat(m, l, coincidence, queue), WaitAt(p, l, n), Begins(p, m, l, n),
           \A q \in queue : q.left < 4 \/ q.mode = m,
           p = "last_line" => mode = "v_blank" /\ queue = {},
           lcd_enable' \in BOOLEAN, UNCHANGED <<lyc, ienable, interrupt_enable>>,
           ghost' \in 0..4 \cup {Never}, busy' \in 0..Spacing, since' \in Int
    PROVE  TypeOK' /\ Places' /\ Waits' /\ Latest' /\ LinesFollowRegisters'
<1>1. /\ ly' \in 0..LAST /\ coincidence' \in BOOLEAN /\ mode' = mode
      /\ stat_flag' \in BOOLEAN /\ vblank_flag' \in BOOLEAN
      /\ interrupt_flag' \subseteq {"vblank", "stat"} /\ halted' \in BOOLEAN
      /\ posts' \subseteq [mode : LcdMode, left : 0..4]
      /\ \A q, r \in posts' : q.left = r.left => q = r
    BY UpdateStatTypes
<1>2. pc' = p /\ y' = l /\ wait' = n /\ ly' = l
    BY DEF WaitAt, UpdateStat
<1>3. line_left \in 0..LineLength
    BY DEF TypeOK
<1>4. n \in 0..LineLength /\ n >= 4 /\ (p # "last_line" => n > 4) /\ line_left' \in 0..LineLength
    BY <1>3, Constants DEF Begins
<1>5. TypeOK'
    <2>1. /\ lyc' \in LycValues /\ ienable' \in StatValues \cup {{}}
          /\ interrupt_enable' \subseteq {"vblank", "stat"}
          /\ mode' \in {Truncated(k) : k \in LcdMode}
        BY <1>1 DEF TypeOK
    <2>2. wait' \in 0..LineLength \cup {Never} /\ pc' \in Pc /\ y' \in 0..LAST
        BY <1>2, <1>4
    <2> QED
        BY <1>1, <1>4, <2>1, <2>2, Zenon DEF TypeOK
<1> DEFINE new == [mode |-> m, left |-> 4]
<1>6. posts' = queue \cup {new} /\ new.mode = m /\ new.left = 4 /\ new \in posts'
    BY DEF UpdateStat
<1>7. Places'
    BY <1>2, Constants DEF Places, Begins
<1>8. Waits'
    <2>1. wait' # Never /\ wait' \in Nat
        BY <1>2, <1>4 DEF Never
    <2>2. pc' # "off"
        BY <1>2 DEF Begins
    <2>3. /\ pc' = "power_on" => line_left' = LineLength - 6 - PowerOn + wait'
          /\ pc' = "oam_search" => line_left' = LineLength - OamSearch + wait'
          /\ pc' = "lcd_write" => line_left' >= wait' + 5
        BY <1>2, <1>3, Constants DEF Begins
    <2>4. pc' \notin {"off", "last_line"} => \A q \in posts' : q.left < wait'
        <3>1. \A q \in posts' : q.left \in 0..4
            BY <1>1
        <3> QED
            BY <3>1, <1>2, <1>4
    <2>5. pc' = "last_line" => mode' = "v_blank" /\ posts' = {[mode |-> "v_blank", left |-> wait']}
        <3> SUFFICES ASSUME p = "last_line"
                     PROVE  mode' = "v_blank" /\ posts' = {[mode |-> "v_blank", left |-> wait']}
            BY <1>2
        <3>1. n = 4 /\ m = "v_blank"
            BY DEF Begins
        <3> QED
            BY <3>1, <1>1, <1>2, <1>6
    <2> QED
        BY <2>1, <2>2, <2>3, <2>4, <2>5 DEF Waits
<1>9. Latest'
    <2>1. m = Posted'
        BY <1>2 DEF Begins, Posted
    <2>2. posts' # {}
        BY <1>6
    <2>3. \A q \in queue : q.left < 4 => new.left > q.left
        BY <1>6
    <2> HIDE DEF new
    <2>4. \A q \in posts' : q.mode = m \/ \E r \in posts' : r.left > q.left
        BY <2>3, <1>6
    <2> QED
        BY <2>1, <2>2, <2>4 DEF Latest
<1>10. LinesFollowRegisters'
    BY <1>6 DEF LinesFollowRegisters, Settled
<1> QED
    BY <1>5, <1>7, <1>8, <1>9, <1>10

\* The loop at rest, with the LCD off (gb_ppu.cpp:118-129).
LEMMA RestBegins ==
    ASSUME TypeOK, NEW queue \in SUBSET posts, TurnOff(queue), ~ lcd_enable',
           UNCHANGED <<lyc, ienable, interrupt_enable>>, lcd_enable' \in BOOLEAN,
           ghost' \in 0..4 \cup {Never}, busy' \in 0..Spacing, halted' \in BOOLEAN
    PROVE  /\ TypeOK' /\ Places' /\ Waits' /\ Latest' /\ LinesFollowRegisters'
           /\ Frames' /\ VBlankIsUp'
<1>1. /\ pc' = "off" /\ y' = 0 /\ wait' = Never /\ ly' = 0 /\ mode' = "h_blank"
      /\ coincidence' = FALSE /\ stat_flag' = FALSE /\ vblank_flag' = FALSE
      /\ posts' = queue /\ since' = NoFrame
      /\ line_left' = line_left /\ interrupt_flag' = interrupt_flag
    BY DEF TurnOff, WaitAt, Truncated
<1>2. TypeOK'
    <2>1. /\ lyc' \in LycValues /\ ienable' \in StatValues \cup {{}}
          /\ interrupt_enable' \subseteq {"vblank", "stat"}
          /\ interrupt_flag' \subseteq {"vblank", "stat"}
          /\ line_left' \in 0..LineLength
        BY <1>1 DEF TypeOK
    <2>2. /\ posts' \subseteq [mode : LcdMode, left : 0..4]
          /\ \A q, r \in posts' : q.left = r.left => q = r
        BY <1>1 DEF TypeOK
    <2>3. mode' \in {Truncated(k) : k \in LcdMode}
        BY <1>1 DEF Truncated, LcdMode
    <2>4. ly' \in 0..LAST /\ y' \in 0..LAST /\ since' \in Int
        BY <1>1, Constants DEF NoFrame
    <2> QED
        BY <1>1, <2>1, <2>2, <2>3, <2>4, Zenon DEF TypeOK, Pc
<1>3. Places' /\ Latest' /\ LinesFollowRegisters'
    BY <1>1 DEF Places, Latest, LinesFollowRegisters, Settled
<1>4. Waits'
    BY <1>1 DEF Waits
<1>5. Frames' /\ VBlankIsUp'
    BY <1>1 DEF Frames, VBlankIsUp, NoFrame
<1> QED
    BY <1>2, <1>3, <1>4, <1>5

\* update_stat and the V-blank interrupt: requested if its line rises.
LEMMA UpdateStatVBlank ==
    ASSUME TypeOK, NEW m, NEW l, NEW c, NEW queue, UpdateStat(m, l, c, queue)
    PROVE  /\ vblank_flag' = (m = "v_blank")
           /\ interrupt_flag \subseteq interrupt_flag'
           /\ "vblank" \in interrupt_flag' <=>
                 "vblank" \in interrupt_flag \/ (m = "v_blank" /\ ~ vblank_flag)
<1> DEFINE f == Lines(CurrentLines, m, ienable, coincidence')
<1>1. vblank_flag' = f.vblank /\ interrupt_flag' = f.bits
    BY DEF UpdateStat, SetLines
<1>2. CurrentLines \in LineState
    BY CurrentTypes
<1>3. /\ f.vblank = (m = "v_blank") /\ CurrentLines.bits \subseteq f.bits
      /\ "vblank" \in f.bits <=>
            "vblank" \in CurrentLines.bits \/ (m = "v_blank" /\ ~ CurrentLines.vblank)
    BY <1>2, LinesAre
<1>4. CurrentLines.bits = interrupt_flag /\ CurrentLines.vblank = vblank_flag
    BY DEF CurrentLines
<1> QED
    BY <1>1, <1>3, <1>4, Zenon

\* The frame goes on if the next wait's mode is one that follows.
LEMMA FrameGoesOn ==
    ASSUME NEW m, NEW l, NEW c, UpdateStat(m, l, c, {}),
           pc' \notin {"off", "power_on"}, since' >= NoFrame, since' # NoFrame => lcd_enable',
           Follows(mode, Truncated(m))
    PROVE  Frames'
<1>1. posts' = {[mode |-> m, left |-> 4]} /\ mode' = mode
    BY DEF UpdateStat
<1>2. \A p, q \in posts' : p = q
    BY <1>1
<1>3. \A p \in posts' : p.mode = m
    BY <1>1
<1>4. \A p \in posts' : Follows(mode', Truncated(p.mode))
    BY <1>1, <1>3
<1> QED
    BY <1>2, <1>4 DEF Frames

-----------------------------------------------------------------------------
(* The loop                                                                *)

\* A wait that ends finds no callback queued, but for that of line 153, which
\* it mistakes for an interruption (gb_cycle_scheduler.cpp:50-66).
LEMMA WaitOverFinds ==
    ASSUME PInv, wait = 0
    PROVE  /\ ghost = Never /\ pc # "off"
           /\ Mistaken # {} => pc = "last_line" /\ posts \ Mistaken = {} /\ mode = "v_blank"
           /\ Mistaken = {} => pc # "last_line" /\ posts = {} /\ mode = ModeOf
<1>1. pc # "off" /\ wait # Never
    BY DEF PInv, Waits, Never
<1>2. ghost = Never
    <2>1. ghost \in 0..4 \cup {Never}
        BY DEF PInv, TypeOK
    <2> QED
        BY <1>1, <2>1 DEF PInv, Ghosts
<1>3. \A p \in posts : p.left \in 0..4
    BY DEF PInv, TypeOK
<1>4. CASE pc = "last_line"
    <2>1. posts = {[mode |-> "v_blank", left |-> wait]} /\ mode = "v_blank"
        BY <1>4 DEF PInv, Waits
    <2>2. Mistaken = posts
        BY <2>1 DEF Mistaken
    <2> QED
        BY <1>1, <1>2, <1>4, <2>1, <2>2
<1>5. CASE pc # "last_line"
    <2>1. \A p \in posts : p.left < wait
        BY <1>1, <1>5 DEF PInv, Waits
    <2>2. posts = {}
        BY <1>3, <2>1
    <2>3. mode = ModeOf
        BY <1>1, <2>2 DEF PInv, Latest
    <2> QED
        BY <1>1, <1>2, <1>5, <2>2, <2>3 DEF Mistaken
<1> QED
    BY <1>4, <1>5

\* Line 153 is cut short where its callback is taken for an interruption.
LEMMA MistakenInv ==
    ASSUME PInv, wait = 0, Mistaken # {}, LoopTop(lcd_enable, posts \ Mistaken),
           UNCHANGED <<lcd_enable, lyc, ienable, interrupt_enable, ghost, busy>>
    PROVE  PInv'
<1>1. /\ ghost = Never /\ pc = "last_line" /\ posts \ Mistaken = {} /\ mode = "v_blank"
    BY WaitOverFinds
<1>2. TypeOK /\ Frames
    BY DEF PInv
<1>3. /\ lcd_enable' \in BOOLEAN /\ ghost' \in 0..4 \cup {Never} /\ busy' \in 0..Spacing
      /\ halted \in BOOLEAN /\ since \in Int /\ ghost' = Never
    BY <1>1, <1>2 DEF TypeOK
<1>4. Ghosts'
    BY <1>3 DEF Ghosts
<1>5. CASE lcd_enable
    <2>1. StartLine(0, {})
        BY <1>1, <1>5 DEF LoopTop
    <2>2. /\ UpdateStat("oam_search", 0, coincidence, {}) /\ WaitAt("oam_search", 0, OamSearch)
          /\ line_left' = LineLength /\ since' = since
        BY <2>1 DEF StartLine
    <2>3. Begins("oam_search", "oam_search", 0, OamSearch)
        BY <2>2, Constants DEF Begins
    <2>4. TypeOK' /\ Places' /\ Waits' /\ Latest' /\ LinesFollowRegisters'
        <3>1. "oam_search" \in LcdMode /\ "oam_search" \in Pc /\ 0 \in 0..LAST /\ OamSearch \in Int
            BY Constants DEF LcdMode, Pc
        <3> QED
            BY <1>2, <1>3, <2>2, <2>3, <3>1, WaitBegins
    <2>5. pc' = "oam_search"
        BY <2>2 DEF WaitAt
    <2>6. Frames'
        <3>1. Follows(mode, Truncated("oam_search"))
            BY <1>1 DEF Follows, Truncated
        <3>2. pc' \notin {"off", "power_on"} /\ since' >= NoFrame /\ lcd_enable'
            BY <1>2, <1>5, <2>2, <2>5 DEF Frames
        <3> QED
            BY <2>2, <3>1, <3>2, FrameGoesOn
    <2>7. VBlankIsUp'
        BY <2>5 DEF VBlankIsUp
    <2> QED
        BY <1>4, <2>4, <2>6, <2>7 DEF PInv
<1>6. CASE ~ lcd_enable
    <2>1. TurnOff({})
        BY <1>1, <1>6 DEF LoopTop
    <2>2. halted' \in BOOLEAN /\ ~ lcd_enable'
        BY <1>3, <1>6, <2>1 DEF TurnOff
    <2> QED
        BY <1>2, <1>3, <1>4, <2>1, <2>2, RestBegins DEF PInv
<1> QED
    BY <1>5, <1>6

\* The first line of V-blank ends a frame, and requests the interrupt
\* (gb_ppu.cpp:501-508).
LEMMA StartVBlankInv ==
    ASSUME PInv, wait = 0, Mistaken = {}, StartVBlank,
           UNCHANGED <<lcd_enable, lyc, ienable, interrupt_enable, ghost, busy>>
    PROVE  PInv'
<1>1. ghost = Never /\ posts = {} /\ mode = ModeOf /\ pc = "h_blank"
    BY WaitOverFinds DEF StartVBlank
<1>2. TypeOK /\ Frames /\ mode = "h_blank"
    BY <1>1 DEF PInv, ModeOf
<1>3. /\ UpdateStat("v_blank", LINES, coincidence, {}) /\ WaitAt("v_blank", LINES, LineLength)
      /\ since' = (IF lcd_enable THEN 0 ELSE NoFrame) /\ line_left' = line_left
    BY <1>1 DEF StartVBlank
<1>4. /\ lcd_enable' \in BOOLEAN /\ ghost' \in 0..4 \cup {Never} /\ busy' \in 0..Spacing
      /\ since' \in Int /\ ghost' = Never
    BY <1>1, <1>2, <1>3 DEF TypeOK, NoFrame
<1>5. TypeOK' /\ Places' /\ Waits' /\ Latest' /\ LinesFollowRegisters'
    <2>1. Begins("v_blank", "v_blank", LINES, LineLength)
        BY <1>3, Constants DEF Begins
    <2>2. /\ "v_blank" \in LcdMode /\ "v_blank" \in Pc /\ LINES \in 0..LAST /\ LineLength \in Int
          /\ {} \in SUBSET posts
        BY Constants DEF LcdMode, Pc
    <2> QED
        BY <1>2, <1>3, <1>4, <2>1, <2>2, WaitBegins
<1>6. Ghosts'
    BY <1>4 DEF Ghosts
<1>7. pc' = "v_blank"
    BY <1>3 DEF WaitAt
<1>8. Frames'
    <2>1. Follows(mode, Truncated("v_blank"))
        BY <1>2 DEF Follows, Truncated
    <2>2. since' >= NoFrame /\ (since' # NoFrame => lcd_enable')
        BY <1>3 DEF NoFrame
    <2> QED
        BY <1>3, <1>7, <2>1, <2>2, FrameGoesOn
<1>9. VBlankIsUp'
    <2>1. vblank_flag = (mode = "v_blank")
        BY <1>1 DEF PInv, LinesFollowRegisters, Settled
    <2>2. vblank_flag' /\ "vblank" \in interrupt_flag'
        BY <1>2, <1>3, <2>1, UpdateStatVBlank
    <2> QED
        BY <2>2 DEF VBlankIsUp
<1> QED
    BY <1>5, <1>6, <1>8, <1>9 DEF PInv

\* The other lines of V-blank keep its line up (gb_ppu.cpp:504-513).
LEMMA NextVBlankLineInv ==
    ASSUME PInv, wait = 0, Mistaken = {}, NextVBlankLine,
           UNCHANGED <<lcd_enable, lyc, ienable, interrupt_enable, ghost, busy>>
    PROVE  PInv'
<1>1. ghost = Never /\ posts = {} /\ mode = ModeOf /\ pc = "v_blank"
    BY WaitOverFinds DEF NextVBlankLine
<1>2. TypeOK /\ Frames /\ mode = "v_blank"
    BY <1>1 DEF PInv, ModeOf
<1>3. LINES <= y /\ y < LAST /\ y \in Int
    BY <1>1, <1>2, Constants DEF PInv, Places, TypeOK
<1>4. /\ lcd_enable' \in BOOLEAN /\ ghost' \in 0..4 \cup {Never} /\ busy' \in 0..Spacing
      /\ since' \in Int /\ ghost' = Never /\ since' = since /\ line_left' = line_left
    BY <1>1, <1>2 DEF TypeOK, NextVBlankLine
<1>5. /\ pc' \in {"v_blank", "last_line"} /\ UpdateStat("v_blank", y', coincidence, {})
      /\ TypeOK' /\ Places' /\ Waits' /\ Latest' /\ LinesFollowRegisters'
    <2>1. "v_blank" \in LcdMode /\ "v_blank" \in Pc /\ "last_line" \in Pc /\ {} \in SUBSET posts
        BY DEF LcdMode, Pc
    <2>2. UpdateStat("v_blank", y', coincidence, {})
        BY <1>1 DEF NextVBlankLine
    <2>3. CASE y + 1 < LAST /\ WaitAt("v_blank", y + 1, LineLength)
        <3>1. Begins("v_blank", "v_blank", y + 1, LineLength)
            BY <1>3, <1>4, <2>3, Constants DEF Begins
        <3>2. y' = y + 1 /\ y + 1 \in 0..LAST /\ LineLength \in Int /\ pc' = "v_blank"
            BY <1>3, <2>3, Constants DEF WaitAt
        <3>3. UpdateStat("v_blank", y + 1, coincidence, {})
            BY <2>2, <3>2
        <3>4. TypeOK' /\ Places' /\ Waits' /\ Latest' /\ LinesFollowRegisters'
            BY <1>2, <1>4, <2>1, <2>3, <3>1, <3>2, <3>3, WaitBegins
        <3> QED
            BY <2>2, <3>2, <3>4
    <2>4. CASE y + 1 = LAST /\ WaitAt("last_line", LAST, 4)
        <3>1. Begins("last_line", "v_blank", LAST, 4)
            BY <1>4 DEF Begins
        <3>2. y' = LAST /\ LAST \in 0..LAST /\ 4 \in Int /\ pc' = "last_line"
            BY <2>4, Constants DEF WaitAt
        <3>3. UpdateStat("v_blank", LAST, coincidence, {})
            BY <2>2, <3>2
        <3>4. TypeOK' /\ Places' /\ Waits' /\ Latest' /\ LinesFollowRegisters'
            BY <1>2, <1>4, <2>1, <2>4, <3>1, <3>2, <3>3, WaitBegins
        <3> QED
            BY <2>2, <3>2, <3>4
    <2> QED
        BY <2>3, <2>4 DEF NextVBlankLine
<1>6. Ghosts'
    BY <1>4 DEF Ghosts
<1>7. Frames'
    <2>1. Follows(mode, Truncated("v_blank"))
        BY <1>2 DEF Follows, Truncated
    <2>2. since' >= NoFrame /\ (since' # NoFrame => lcd_enable') /\ pc' \notin {"off", "power_on"}
        BY <1>2, <1>4, <1>5 DEF Frames
    <2>3. UpdateStat("v_blank", y', coincidence, {})
        BY <1>5
    <2> QED
        BY <2>1, <2>2, <2>3, FrameGoesOn
<1>8. VBlankIsUp'
    <2>1. vblank_flag' /\ mode' = "v_blank"
        BY <1>2, <1>5, UpdateStatVBlank DEF UpdateStat
    <2> QED
        BY <2>1 DEF VBlankIsUp
<1> QED
    BY <1>5, <1>6, <1>7, <1>8 DEF PInv

\* A line is searched for sprites, drawn, and left (gb_ppu.cpp:135-498).
LEMMA LineInv ==
    ASSUME PInv, wait = 0, Mistaken = {}, StartDrawing \/ StartHBlank \/ NextLine,
           UNCHANGED <<lcd_enable, lyc, ienable, interrupt_enable, ghost, busy>>
    PROVE  PInv'
<1>1. ghost = Never /\ posts = {} /\ mode = ModeOf /\ pc \notin {"off", "last_line"}
    BY WaitOverFinds
<1>2. TypeOK /\ Frames /\ y \in 0..LAST /\ line_left \in Int
    BY DEF PInv, TypeOK
<1>3. pc \in {"power_on", "oam_search", "lcd_write", "h_blank"} => y < LINES
    BY Constants DEF PInv, Places
<1>4. /\ lcd_enable' \in BOOLEAN /\ ghost' \in 0..4 \cup {Never} /\ busy' \in 0..Spacing
      /\ since' \in Int /\ ghost' = Never /\ since' = since /\ lcd_enable' = lcd_enable
    BY <1>1, <1>2 DEF TypeOK, StartDrawing, StartHBlank, NextLine, StartLine
<1>5. \E m \in {"oam_search", "lcd_write", "h_blank"}, l \in 0..LAST, n \in Int :
        /\ UpdateStat(m, l, coincidence, {}) /\ WaitAt(m, l, n) /\ Begins(m, m, l, n)
        /\ pc = "power_on" \/ Follows(mode, Truncated(m))
    <2>1. CASE StartDrawing
        <3>1. PICK n \in Render : /\ UpdateStat("lcd_write", y, coincidence, {})
                                  /\ WaitAt("lcd_write", y, n)
                                  /\ line_left' = line_left /\ pc \in {"power_on", "oam_search"}
            BY <1>1, <2>1 DEF StartDrawing
        <3>2. n \in Int /\ 4 < n /\ n <= LineLength - OamSearch - 5
            BY Constants
        <3>3. n + 5 <= line_left
            BY <1>2, <3>1, <3>2, Constants DEF PInv, Waits
        <3>4. Begins("lcd_write", "lcd_write", y, n)
            BY <1>3, <3>1, <3>2, <3>3 DEF Begins
        <3>5. pc = "power_on" \/ Follows(mode, Truncated("lcd_write"))
            BY <1>1, <3>1 DEF ModeOf, Follows, Truncated
        <3> QED
            BY <1>2, <3>1, <3>2, <3>4, <3>5
    <2>2. CASE StartHBlank
        <3>1. /\ UpdateStat("h_blank", y, coincidence, {}) /\ WaitAt("h_blank", y, line_left)
              /\ line_left' = line_left /\ pc = "lcd_write"
            BY <1>1, <2>2 DEF StartHBlank
        <3>2. Begins("h_blank", "h_blank", y, line_left)
            BY <1>2, <1>3, <3>1 DEF Begins, PInv, Waits
        <3>3. Follows(mode, Truncated("h_blank"))
            BY <1>1, <3>1 DEF ModeOf, Follows, Truncated
        <3> QED
            BY <1>2, <3>1, <3>2, <3>3
    <2>3. CASE NextLine
        <3>1. /\ UpdateStat("oam_search", y + 1, coincidence, {})
              /\ WaitAt("oam_search", y + 1, OamSearch)
              /\ line_left' = LineLength /\ pc = "h_blank" /\ y + 1 < LINES
            BY <1>1, <2>3 DEF NextLine, StartLine
        <3>2. Begins("oam_search", "oam_search", y + 1, OamSearch)
            BY <3>1 DEF Begins
        <3>3. Follows(mode, Truncated("oam_search"))
            BY <1>1, <3>1 DEF ModeOf, Follows, Truncated
        <3>4. y + 1 \in 0..LAST /\ OamSearch \in Int
            BY <1>2, <3>1, Constants
        <3> QED
            BY <3>1, <3>2, <3>3, <3>4
    <2> QED
        BY <2>1, <2>2, <2>3
<1>6. PICK m \in {"oam_search", "lcd_write", "h_blank"}, l \in 0..LAST, n \in Int :
        /\ UpdateStat(m, l, coincidence, {}) /\ WaitAt(m, l, n) /\ Begins(m, m, l, n)
        /\ pc = "power_on" \/ Follows(mode, Truncated(m))
    BY <1>5
<1>7. TypeOK' /\ Places' /\ Waits' /\ Latest' /\ LinesFollowRegisters'
    <2>1. m \in LcdMode /\ m \in Pc /\ m # "last_line" /\ {} \in SUBSET posts
        BY DEF LcdMode, Pc
    <2>2. UNCHANGED <<lyc, ienable, interrupt_enable>>
        OBVIOUS
    <2> QED
        BY <1>2, <1>4, <1>6, <2>1, <2>2, WaitBegins
<1>8. Ghosts'
    BY <1>4 DEF Ghosts
<1>9. pc' = m
    BY <1>6 DEF WaitAt
<1>10. Frames'
    <2>1. CASE since = NoFrame
        BY <1>4, <2>1 DEF Frames
    <2>2. CASE since # NoFrame
        <3>1. pc # "power_on" /\ since' >= NoFrame /\ lcd_enable'
            BY <1>2, <1>4, <2>2 DEF Frames
        <3>2. pc' \notin {"off", "power_on"} /\ Follows(mode, Truncated(m))
            BY <1>6, <1>9, <3>1
        <3> QED
            BY <1>6, <3>1, <3>2, FrameGoesOn
    <2> QED
        BY <2>1, <2>2
<1>11. VBlankIsUp'
    BY <1>9 DEF VBlankIsUp
<1> QED
    BY <1>7, <1>8, <1>10, <1>11 DEF PInv

\* The end of a wait (gb_ppu.cpp:114-528).
LEMMA WaitOverInv == PInv /\ WaitOver => PInv'
<1> SUFFICES ASSUME PInv, WaitOver
             PROVE  PInv'
    OBVIOUS
<1>1. wait = 0 /\ UNCHANGED <<lcd_enable, lyc, ienable, interrupt_enable, ghost, busy>>
    BY DEF WaitOver
<1>2. pc \notin {"last_line_ly0", "last_line_end"}
    BY DEF PInv, Places
<1>3. CASE Mistaken # {}
    BY <1>1, <1>3, MistakenInv DEF WaitOver
<1>4. CASE Mistaken = {}
    <2>1. pc # "last_line"
        BY <1>1, <1>4, WaitOverFinds
    <2>2. StartDrawing \/ StartHBlank \/ NextLine \/ StartVBlank \/ NextVBlankLine
        BY <1>2, <1>4, <2>1 DEF WaitOver, LastLineReadsZero, LastLineIsZero, NextFrame
    <2> QED
        BY <1>1, <1>4, <2>2, LineInv, StartVBlankInv, NextVBlankLineInv
<1> QED
    BY <1>3, <1>4

\* The loop starts over with the LCD on (gb_ppu.cpp:149-174).
LEMMA StartsOver ==
    ASSUME PInv, NEW queue \in SUBSET posts, StartLine(0, queue),
           \A q \in queue : q.left < 4 \/ q.mode = "oam_search",
           lcd_enable' \in BOOLEAN, UNCHANGED <<lyc, ienable, interrupt_enable>>,
           ghost' \in 0..4 \cup {Never}, busy' \in 0..Spacing, since = NoFrame
    PROVE  /\ TypeOK' /\ Places' /\ Waits' /\ Latest' /\ LinesFollowRegisters'
           /\ Frames' /\ VBlankIsUp' /\ since' = NoFrame
           /\ pc' = "oam_search" /\ wait' = OamSearch
           /\ posts' = queue \cup {[mode |-> "oam_search", left |-> 4]}
<1>1. /\ UpdateStat("oam_search", 0, coincidence, queue) /\ WaitAt("oam_search", 0, OamSearch)
      /\ line_left' = LineLength /\ since' = since
    BY DEF StartLine
<1>2. pc' = "oam_search" /\ wait' = OamSearch /\ since' = NoFrame
    BY <1>1 DEF WaitAt
<1>3. TypeOK' /\ Places' /\ Waits' /\ Latest' /\ LinesFollowRegisters'
    <2>1. "oam_search" \in LcdMode /\ "oam_search" \in Pc /\ 0 \in 0..LAST /\ OamSearch \in Int
        BY Constants DEF LcdMode, Pc
    <2>2. Begins("oam_search", "oam_search", 0, OamSearch)
        BY <1>1, Constants DEF Begins
    <2>3. TypeOK /\ since' \in Int
        BY <1>2 DEF PInv, NoFrame
    <2> QED
        BY <1>1, <2>1, <2>2, <2>3, WaitBegins
<1>4. Frames' /\ VBlankIsUp'
    BY <1>2 DEF Frames, VBlankIsUp, NoFrame
<1>5. posts' = queue \cup {[mode |-> "oam_search", left |-> 4]}
    BY <1>1 DEF UpdateStat
<1> QED
    BY <1>2, <1>3, <1>4, <1>5

\* The first line after the LCD was turned on (gb_ppu.cpp:127-147).
LEMMA PowersOn ==
    ASSUME PInv, StartPowerOn, pc = "off", \A q \in posts : q.left < 4,
           lcd_enable' \in BOOLEAN, UNCHANGED <<lyc, ienable, interrupt_enable>>,
           ghost' = Never, busy' \in 0..Spacing
    PROVE  PInv'
<1>1. since = NoFrame
    BY DEF PInv, Frames
<1>2. /\ UpdateStat("initial_power_on", 0, coincidence, posts) /\ WaitAt("power_on", 0, PowerOn)
      /\ line_left' = LineLength - 6 /\ since' = since
    BY DEF StartPowerOn
<1>3. TypeOK' /\ Places' /\ Waits' /\ Latest' /\ LinesFollowRegisters'
    <2>1. "initial_power_on" \in LcdMode /\ "power_on" \in Pc /\ 0 \in 0..LAST /\ PowerOn \in Int
        BY Constants DEF LcdMode, Pc
    <2>2. Begins("power_on", "initial_power_on", 0, PowerOn)
        BY <1>2 DEF Begins
    <2>3. TypeOK /\ since' \in Int /\ ghost' \in 0..4 \cup {Never}
        BY <1>1, <1>2 DEF PInv, NoFrame
    <2> QED
        BY <1>2, <2>1, <2>2, <2>3, WaitBegins
<1>4. Frames' /\ VBlankIsUp' /\ Ghosts'
    BY <1>1, <1>2 DEF Frames, VBlankIsUp, Ghosts, NoFrame
<1> QED
    BY <1>3, <1>4 DEF PInv

\* An entry left in the queue (gb_cycle_scheduler.cpp:50-66).
LEMMA GhostRunsInv == PInv /\ GhostRuns => PInv'
<1> SUFFICES ASSUME PInv, GhostRuns
             PROVE  PInv'
    OBVIOUS
<1>1. ghost = 0 /\ UNCHANGED <<lcd_enable, lyc, ienable, interrupt_enable, busy>>
    BY DEF GhostRuns
<1>2. /\ since = NoFrame
      /\ \/ pc = "off" /\ posts = {}
         \/ /\ pc = "oam_search" /\ lcd_enable
            /\ \A p \in posts : p.mode = "oam_search"
    BY <1>1 DEF PInv, Ghosts, Never
<1>3. lcd_enable' \in BOOLEAN /\ busy' \in 0..Spacing
    BY <1>1 DEF PInv, TypeOK
<1>4. CASE pc = "off"
    <2>1. StartPowerOn /\ ghost' = Never /\ posts = {}
        BY <1>2, <1>4 DEF GhostRuns
    <2> QED
        BY <1>1, <1>3, <1>4, <2>1, PowersOn
<1>5. CASE pc # "off"
    <2>1. pc = "oam_search" /\ lcd_enable /\ \A p \in posts : p.mode = "oam_search"
        BY <1>2, <1>5
    <2>2. Mistaken = {}
        <3>1. \A p \in posts : p.left \in Int /\ p.left < wait
            BY <2>1 DEF PInv, Waits, TypeOK
        <3>2. \A p \in posts : p.left # wait
            BY <3>1
        <3> QED
            BY <3>2 DEF Mistaken
    <2>3. StartLine(0, posts) /\ ghost' = Never
        BY <1>5, <2>1, <2>2 DEF GhostRuns, Interrupted, LoopTop
    <2>4. TypeOK' /\ Places' /\ Waits' /\ Latest' /\ LinesFollowRegisters' /\ Frames' /\ VBlankIsUp'
        BY <1>1, <1>2, <1>3, <2>1, <2>3, StartsOver
    <2>5. Ghosts'
        BY <2>3 DEF Ghosts
    <2> QED
        BY <2>4, <2>5 DEF PInv
<1> QED
    BY <1>4, <1>5

-----------------------------------------------------------------------------
(* The callback                                                            *)

\* The callback of update_stat (gb_ppu.cpp:726-734): the mode that it sets is
\* the loop's if no other is queued, and in mode 0, 1 and 2 the lines are then
\* those of the registers.
LEMMA CallbackInv == PInv /\ Callback => PInv'
<1> SUFFICES ASSUME PInv, Callback
             PROVE  PInv'
    OBVIOUS
<1>1. PICK p \in posts :
        /\ p.left = 0 /\ posts' = posts \ {p} /\ mode' = Truncated(p.mode)
        /\ \/ /\ p.mode = "lcd_write"
              /\ UNCHANGED <<coincidence, stat_flag, vblank_flag, interrupt_flag, halted>>
           \/ /\ p.mode # "lcd_write"
              /\ coincidence' = (ly = lyc)
              /\ SetLines(Lines(CurrentLines, p.mode, ienable, coincidence'))
    BY DEF Callback
<1>2. /\ wait # 0 /\ ghost # 0
      /\ UNCHANGED <<lcd_enable, ly, lyc, ienable, interrupt_enable, pc, y, wait,
                     line_left, ghost, since, busy>>
    BY DEF Callback
<1>3. TypeOK /\ p.mode \in LcdMode /\ \A q \in posts : q.left \in 0..4
    BY DEF PInv, TypeOK
<1>4. pc # "last_line"
    <2> SUFFICES ASSUME pc = "last_line" PROVE FALSE
        OBVIOUS
    <2>1. posts = {[mode |-> "v_blank", left |-> wait]}
        BY DEF PInv, Waits
    <2> QED
        BY <1>1, <1>2, <2>1
<1>5. p.mode # "lcd_write" =>
        /\ stat_flag' = StatLine(p.mode, ienable, coincidence')
        /\ vblank_flag' = (p.mode = "v_blank")
    <2> SUFFICES ASSUME p.mode # "lcd_write"
                 PROVE  /\ stat_flag' = StatLine(p.mode, ienable, coincidence')
                        /\ vblank_flag' = (p.mode = "v_blank")
        OBVIOUS
    <2> DEFINE f == Lines(CurrentLines, p.mode, ienable, coincidence')
    <2>1. stat_flag' = f.stat /\ vblank_flag' = f.vblank
        BY <1>1 DEF SetLines
    <2>2. /\ f.stat = StatLine(p.mode, ienable, coincidence')
          /\ f.vblank = (p.mode = "v_blank")
        BY <1>3, CurrentTypes, LinesAre
    <2> QED
        BY <2>1, <2>2, Zenon
<1>6. TypeOK'
    <2>1. /\ coincidence' \in BOOLEAN /\ stat_flag' \in BOOLEAN /\ vblank_flag' \in BOOLEAN
          /\ interrupt_flag' \subseteq {"vblank", "stat"} /\ halted' \in BOOLEAN
        <3>1. CASE p.mode = "lcd_write"
            BY <1>1, <1>3, <3>1 DEF TypeOK
        <3>2. CASE p.mode # "lcd_write"
            <4>1. coincidence' \in BOOLEAN
                <5>1. (ly = lyc) \in BOOLEAN
                    OBVIOUS
                <5> QED
                    BY <1>1, <3>2, <5>1, Zenon
            <4>2. Lines(CurrentLines, p.mode, ienable, coincidence') \in LineState
                BY <1>3, <4>1, CurrentTypes, LinesTypes
            <4> QED
                BY <1>1, <1>3, <3>2, <4>1, <4>2, SetLinesTypes
        <3> QED
            BY <3>1, <3>2
    <2>2. /\ posts' \subseteq [mode : LcdMode, left : 0..4]
          /\ \A q, r \in posts' : q.left = r.left => q = r
          /\ mode' \in {Truncated(k) : k \in LcdMode}
        BY <1>1, <1>3 DEF TypeOK
    <2>3. /\ lcd_enable' \in BOOLEAN /\ ly' \in 0..LAST /\ y' \in 0..LAST /\ lyc' \in LycValues
          /\ ienable' \in StatValues \cup {{}}
          /\ interrupt_enable' \subseteq {"vblank", "stat"} /\ pc' \in Pc
          /\ wait' \in 0..LineLength \cup {Never} /\ line_left' \in 0..LineLength
          /\ busy' \in 0..Spacing /\ ghost' \in 0..4 \cup {Never} /\ since' \in Int
        BY <1>2, <1>3 DEF TypeOK
    <2> QED
        BY <2>1, <2>2, <2>3, Zenon DEF TypeOK
<1>7. Places'
    BY <1>2 DEF PInv, Places
<1>8. Waits'
    BY <1>1, <1>2, <1>4 DEF PInv, Waits
<1>9. Ghosts'
    <2> SUFFICES ASSUME ghost # Never
                 PROVE  Ghosts'
        BY <1>2 DEF Ghosts
    <2>1. ~ halted /\ pc = "oam_search"
        BY <1>1 DEF PInv, Ghosts
    <2>2. ~ halted'
        BY <1>1, <2>1 DEF SetLines
    <2> QED
        BY <1>1, <1>2, <2>1, <2>2 DEF PInv, Ghosts
<1>10. posts' = {} /\ pc # "off" => p.mode = Posted
    <2>1. posts' = {} => \A q \in posts : q = p
        BY <1>1
    <2>2. posts' = {} => \A q \in posts : ~ (q.left > p.left)
        BY <1>3, <2>1
    <2> QED
        BY <2>2 DEF PInv, Latest
<1>11. pc \in {"off", "power_on", "oam_search", "lcd_write", "h_blank", "v_blank"}
    BY <1>3, <1>4 DEF PInv, Places, TypeOK, Pc
<1>12. /\ Posted' = Posted /\ ModeOf' = ModeOf
       /\ pc # "off" => Truncated(Posted) = ModeOf
    BY <1>2, <1>11 DEF Posted, ModeOf, Truncated
<1>13. Latest'
    <2> SUFFICES ASSUME pc # "off"
                 PROVE  /\ posts' = {} => mode' = ModeOf
                        /\ \A q \in posts' : q.mode = Posted \/ \E r \in posts' : r.left > q.left
        BY <1>2, <1>12 DEF Latest
    <2>1. posts' = {} => mode' = ModeOf
        BY <1>1, <1>10, <1>12
    <2>2. ASSUME NEW q \in posts', q.mode # Posted
          PROVE  \E r \in posts' : r.left > q.left
        <3>1. PICK r \in posts : r.left > q.left
            BY <1>1, <2>2 DEF PInv, Latest
        <3>2. q.left \in Int /\ q.left >= 0 /\ r.left \in Int
            BY <1>1, <1>3
        <3>3. r # p
            BY <1>1, <3>1, <3>2
        <3> QED
            BY <1>1, <3>1, <3>3
    <2> QED
        BY <2>1, <2>2
<1>14. LinesFollowRegisters'
    <2> SUFFICES ASSUME posts' = {}, pc \notin {"off", "lcd_write", "power_on"}
                 PROVE  /\ stat_flag' = StatLine(mode', ienable', coincidence')
                        /\ vblank_flag' = (mode' = "v_blank")
        BY <1>2 DEF LinesFollowRegisters, Settled
    <2>1. pc \in {"oam_search", "h_blank", "v_blank"}
        BY <1>3, <1>4 DEF PInv, Places, TypeOK, Pc
    <2>2. p.mode # "lcd_write" /\ mode' = p.mode
        BY <1>1, <1>10, <2>1 DEF Posted, Truncated
    <2> QED
        BY <1>2, <1>5, <2>2
<1>15. since # NoFrame => posts' = {}
    BY <1>1 DEF PInv, Frames
<1>16. Frames'
    BY <1>2, <1>15 DEF PInv, Frames
<1>17. VBlankIsUp'
    <2> SUFFICES ASSUME since # NoFrame, pc = "v_blank"
                 PROVE  mode' = "v_blank" /\ vblank_flag'
        BY <1>2, <1>4 DEF VBlankIsUp
    <2>1. p.mode = "v_blank"
        BY <1>10, <1>15 DEF Posted
    <2> QED
        BY <1>1, <1>5, <2>1 DEF Truncated
<1> QED
    BY <1>6, <1>7, <1>8, <1>9, <1>13, <1>14, <1>16, <1>17 DEF PInv

-----------------------------------------------------------------------------
(* The CPU                                                                 *)

\* When the CPU acts, no entry is left in the queue.
LEMMA CpuActsFinds ==
    ASSUME PInv, CpuActs
    PROVE  /\ ghost = Never /\ busy = 0 /\ busy' = Spacing /\ ~ halted
           /\ busy' \in 0..Spacing
           /\ \A p \in posts : p.left \in 0..4 /\ p.left < 4
<1>1. busy = 0 /\ busy' = Spacing /\ ~ halted /\ \A p \in posts : p.left # 4
    BY DEF CpuActs
<1>2. TypeOK /\ Ghosts
    BY DEF PInv
<1>3. \A p \in posts : p.left \in 0..4
    BY <1>2 DEF TypeOK
<1>4. ghost = Never
    BY <1>1, <1>2 DEF TypeOK, Ghosts
<1> QED
    BY <1>1, <1>3, <1>4, Constants

\* LCDC turns the LCD on or off, and interrupts the loop (gb_ppu.cpp:582-591): in
\* line 153 the wrong entry is taken out of the queue.
LEMMA WriteLcdcInv == PInv /\ WriteLcdc => PInv'
<1> SUFFICES ASSUME PInv, WriteLcdc
             PROVE  PInv'
    OBVIOUS
<1>1. /\ ghost = Never /\ busy' = Spacing /\ ~ halted /\ busy' \in 0..Spacing
      /\ \A p \in posts : p.left \in 0..4 /\ p.left < 4
    BY CpuActsFinds DEF WriteLcdc
<1>2. TypeOK /\ lcd_enable' = ~ lcd_enable /\ lcd_enable' \in BOOLEAN
    BY DEF PInv, TypeOK, WriteLcdc
<1>3. UNCHANGED <<lyc, ienable, interrupt_enable>>
    BY DEF WriteLcdc
<1>4. CASE pc = "off"
    <2>1. StartPowerOn /\ ghost' = Never
        BY <1>1, <1>4 DEF WriteLcdc
    <2> QED
        BY <1>1, <1>2, <1>3, <1>4, <2>1, PowersOn
<1>5. CASE pc # "off"
    <2> DEFINE queue == posts \ Mistaken
    <2>1. /\ LoopTop(lcd_enable', queue)
          /\ ghost' = IF Mistaken = {} THEN Never ELSE wait
        BY <1>5 DEF WriteLcdc, Interrupted
    <2>2. Mistaken # {} => queue = {} /\ wait \in 0..3
        <3> SUFFICES ASSUME Mistaken # {}
                     PROVE  queue = {} /\ wait \in 0..3
            OBVIOUS
        <3>1. PICK p \in posts : p.left = wait
            BY DEF Mistaken
        <3>2. pc = "last_line"
            BY <1>1, <1>5, <3>1 DEF PInv, Waits
        <3>3. posts = {[mode |-> "v_blank", left |-> wait]}
            BY <3>2 DEF PInv, Waits
        <3>4. Mistaken = posts
            BY <3>3 DEF Mistaken
        <3> QED
            BY <1>1, <3>1, <3>4
    <2>3. ghost' \in 0..4 \cup {Never}
        BY <2>1, <2>2
    <2>4. queue \in SUBSET posts /\ \A q \in queue : q.left < 4
        BY <1>1
    <2> HIDE DEF queue
    <2>5. CASE lcd_enable'
        <3>1. StartLine(0, queue)
            BY <2>1, <2>5 DEF LoopTop
        <3>2. since = NoFrame
            BY <1>2, <2>5 DEF PInv, Frames
        <3>3. /\ TypeOK' /\ Places' /\ Waits' /\ Latest' /\ LinesFollowRegisters'
              /\ Frames' /\ VBlankIsUp' /\ since' = NoFrame
              /\ pc' = "oam_search" /\ wait' = OamSearch
              /\ posts' = queue \cup {[mode |-> "oam_search", left |-> 4]}
            BY <1>1, <1>2, <1>3, <2>3, <2>4, <3>1, <3>2, StartsOver
        <3>4. ~ halted'
            BY <1>1, <3>1 DEF StartLine, UpdateStat, SetLines
        <3>5. Ghosts'
            <4> SUFFICES ASSUME Mistaken # {}
                         PROVE  Ghosts'
                BY <2>1 DEF Ghosts
            <4>1. queue = {} /\ wait \in 0..3 /\ ghost' = wait
                BY <2>1, <2>2
            <4>2. \A p \in posts' : p.mode = "oam_search"
                BY <3>3, <4>1
            <4>3. ghost' <= 3 /\ ghost' < busy' /\ ghost' < wait'
                BY <1>1, <3>3, <4>1, Constants
            <4> QED
                BY <2>5, <3>3, <3>4, <4>2, <4>3 DEF Ghosts
        <3> QED
            BY <3>3, <3>5 DEF PInv
    <2>6. CASE ~ lcd_enable'
        <3>1. TurnOff(queue)
            BY <2>1, <2>6 DEF LoopTop
        <3>2. /\ halted' = halted /\ since' = NoFrame /\ posts' = queue /\ pc' = "off"
            BY <3>1 DEF TurnOff, WaitAt
        <3>3. halted' \in BOOLEAN
            BY <1>2, <3>2 DEF TypeOK
        <3>4. /\ TypeOK' /\ Places' /\ Waits' /\ Latest' /\ LinesFollowRegisters'
              /\ Frames' /\ VBlankIsUp'
            BY <1>1, <1>2, <1>3, <2>3, <2>4, <2>6, <3>1, <3>3, RestBegins
        <3>5. Ghosts'
            <4> SUFFICES ASSUME Mistaken # {}
                         PROVE  Ghosts'
                BY <2>1 DEF Ghosts
            <4>1. queue = {} /\ wait \in 0..3 /\ ghost' = wait
                BY <2>1, <2>2
            <4>2. ghost' <= 3 /\ ghost' < busy'
                BY <1>1, <4>1, Constants
            <4> QED
                BY <1>1, <3>2, <4>1, <4>2 DEF Ghosts
        <3> QED
            BY <3>4, <3>5 DEF PInv
    <2> QED
        BY <2>5, <2>6
<1> QED
    BY <1>4, <1>5

\* A write of STAT recomputes both lines: with the mode bits of before a callback
\* the V-blank line may fall, but its interrupt was then requested (gb_ppu.cpp:592-599).
LEMMA WriteStatInv == ASSUME NEW sources \in StatValues PROVE PInv /\ WriteStat(sources) => PInv'
<1> SUFFICES ASSUME PInv, WriteStat(sources)
             PROVE  PInv'
    OBVIOUS
<1>1. /\ ghost = Never /\ busy = 0 /\ busy' = Spacing /\ busy' \in 0..Spacing
      /\ \A p \in posts : p.left \in 0..4 /\ p.left < 4
    BY CpuActsFinds DEF WriteStat
<1>2. /\ ienable' = sources
      /\ UNCHANGED <<lcd_enable, ly, lyc, mode, coincidence, interrupt_enable, loop>>
    BY DEF WriteStat
<1>3. UNCHANGED <<pc, y, wait, line_left, posts, ghost, since>>
    BY <1>2 DEF loop
<1> DEFINE up == Lines(CurrentLines, mode, Source, coincidence)
           f  == Lines(up, mode, sources, coincidence)
<1>4. TypeOK /\ coincidence \in BOOLEAN
    BY DEF PInv, TypeOK
<1>5. up \in LineState /\ f \in LineState
    <2>1. up \in LineState
        BY <1>4, CurrentTypes, LinesTypes
    <2> HIDE DEF up
    <2> QED
        BY <1>4, <2>1, LinesTypes
<1>6. SetLines(f)
    BY DEF WriteStat
<1>7. /\ up.vblank = (mode = "v_blank") /\ CurrentLines.bits \subseteq up.bits
      /\ CurrentLines.bits = interrupt_flag
    BY <1>4, CurrentTypes, LinesAre DEF CurrentLines
<1> HIDE DEF up
<1>8. /\ f.stat = StatLine(mode, sources, coincidence) /\ f.vblank = (mode = "v_blank")
      /\ up.bits \subseteq f.bits
    BY <1>5, LinesAre
<1> HIDE DEF f
<1>9. /\ stat_flag' = f.stat /\ vblank_flag' = f.vblank /\ interrupt_flag \subseteq interrupt_flag'
    BY <1>6, <1>7, <1>8 DEF SetLines
<1>10. TypeOK'
    <2>1. /\ stat_flag' \in BOOLEAN /\ vblank_flag' \in BOOLEAN
          /\ interrupt_flag' \subseteq {"vblank", "stat"} /\ halted' \in BOOLEAN
        BY <1>4, <1>5, <1>6, SetLinesTypes
    <2>2. ienable' \in StatValues \cup {{}}
        BY <1>2
    <2>3. /\ lcd_enable' \in BOOLEAN /\ ly' \in 0..LAST /\ y' \in 0..LAST /\ lyc' \in LycValues
          /\ coincidence' \in BOOLEAN /\ mode' \in {Truncated(k) : k \in LcdMode}
          /\ interrupt_enable' \subseteq {"vblank", "stat"} /\ pc' \in Pc
          /\ wait' \in 0..LineLength \cup {Never} /\ line_left' \in 0..LineLength
          /\ ghost' \in 0..4 \cup {Never} /\ since' \in Int
        BY <1>2, <1>3, <1>4 DEF TypeOK
    <2>4. /\ posts' \subseteq [mode : LcdMode, left : 0..4]
          /\ \A p, q \in posts' : p.left = q.left => p = q
        BY <1>3, <1>4 DEF TypeOK
    <2> QED
        BY <1>1, <2>1, <2>2, <2>3, <2>4, Zenon DEF TypeOK
<1>11. Places' /\ Waits' /\ Latest' /\ Frames'
    BY <1>2, <1>3 DEF PInv, Places, Waits, Latest, Posted, ModeOf, Frames
<1>12. Ghosts'
    BY <1>1, <1>3 DEF Ghosts
<1>13. LinesFollowRegisters'
    <2>1. stat_flag' = StatLine(mode', ienable', coincidence') /\ vblank_flag' = (mode' = "v_blank")
        BY <1>2, <1>8, <1>9, Zenon
    <2> QED
        BY <2>1 DEF LinesFollowRegisters
<1>14. VBlankIsUp'
    <2> SUFFICES ASSUME since # NoFrame, pc \in {"v_blank", "last_line"}
                 PROVE  /\ mode = "v_blank" => vblank_flag'
                        /\ mode # "v_blank" => \A p \in posts :
                              busy' > p.left /\ "vblank" \in interrupt_flag'
        BY <1>2, <1>3 DEF VBlankIsUp
    <2>1. mode = "v_blank" => vblank_flag'
        BY <1>8, <1>9
    <2>2. ASSUME mode # "v_blank", NEW p \in posts
          PROVE  busy' > p.left /\ "vblank" \in interrupt_flag'
        <3>1. busy' > p.left /\ ~ (busy > p.left)
            BY <1>1, Constants
        <3>2. "vblank" \in interrupt_flag
            BY <2>2, <3>1 DEF PInv, VBlankIsUp
        <3> QED
            BY <1>9, <3>1, <3>2
    <2> QED
        BY <2>1, <2>2
<1> QED
    BY <1>10, <1>11, <1>12, <1>13, <1>14 DEF PInv

\* The other writes of the CPU leave the loop and the lines alone; one of IF
\* clears the interrupt only while the V-blank line stays up (gb_ppu.cpp:670-676).
LEMMA OtherWrites ==
    ASSUME PInv, UNCHANGED <<lcd_enable, ly, mode, coincidence, ienable, stat_flag, vblank_flag>>,
           UNCHANGED <<pc, y, wait, line_left, posts, ghost, since>>,
           lyc' \in LycValues, interrupt_flag' \subseteq {"vblank", "stat"},
           interrupt_enable' \subseteq {"vblank", "stat"}, halted' \in BOOLEAN,
           \/ busy = 0 /\ busy' = Spacing /\ ghost = Never
           \/ busy' = busy /\ interrupt_flag' = interrupt_flag /\ ~ halted'
    PROVE  PInv'
<1>1. TypeOK /\ busy \in 0..Spacing /\ \A p \in posts : p.left \in 0..4
    BY DEF PInv, TypeOK
<1>2. TypeOK'
    <2>1. busy' \in 0..Spacing
        BY <1>1, Constants
    <2>2. /\ lcd_enable' \in BOOLEAN /\ ly' \in 0..LAST /\ y' \in 0..LAST
          /\ coincidence' \in BOOLEAN /\ mode' \in {Truncated(k) : k \in LcdMode}
          /\ stat_flag' \in BOOLEAN /\ vblank_flag' \in BOOLEAN
          /\ ienable' \in StatValues \cup {{}} /\ pc' \in Pc
          /\ wait' \in 0..LineLength \cup {Never} /\ line_left' \in 0..LineLength
          /\ ghost' \in 0..4 \cup {Never} /\ since' \in Int
        BY <1>1 DEF TypeOK
    <2>3. /\ posts' \subseteq [mode : LcdMode, left : 0..4]
          /\ \A p, q \in posts' : p.left = q.left => p = q
        BY <1>1 DEF TypeOK
    <2> QED
        BY <2>1, <2>2, <2>3, Zenon DEF TypeOK
<1>3. Places' /\ Waits' /\ Latest' /\ Frames'
    BY DEF PInv, Places, Waits, Latest, Posted, ModeOf, Frames
<1>4. Ghosts'
    BY DEF PInv, Ghosts
<1>5. LinesFollowRegisters'
    BY DEF PInv, LinesFollowRegisters, Settled
<1>6. VBlankIsUp'
    <2> SUFFICES ASSUME since # NoFrame, pc \in {"v_blank", "last_line"}
                 PROVE  /\ mode = "v_blank" => vblank_flag
                        /\ mode # "v_blank" => \A p \in posts :
                              \/ vblank_flag /\ "vblank" \in interrupt_flag'
                              \/ busy' > p.left /\ (vblank_flag \/ "vblank" \in interrupt_flag')
        BY DEF VBlankIsUp
    <2>1. mode = "v_blank" => vblank_flag
        BY DEF PInv, VBlankIsUp
    <2>2. ASSUME mode # "v_blank", NEW p \in posts
          PROVE  \/ vblank_flag /\ "vblank" \in interrupt_flag'
                 \/ busy' > p.left /\ (vblank_flag \/ "vblank" \in interrupt_flag')
        <3>1. \/ vblank_flag /\ "vblank" \in interrupt_flag
              \/ busy > p.left /\ (vblank_flag \/ "vblank" \in interrupt_flag)
            BY <2>2 DEF PInv, VBlankIsUp
        <3>2. CASE busy = 0 /\ busy' = Spacing
            <4>1. ~ (busy > p.left) /\ busy' > p.left
                BY <1>1, <3>2, Constants
            <4> QED
                BY <3>1, <4>1
        <3>3. CASE busy' = busy /\ interrupt_flag' = interrupt_flag
            BY <3>1, <3>3
        <3> QED
            BY <3>2, <3>3
    <2> QED
        BY <2>1, <2>2
<1> QED
    BY <1>2, <1>3, <1>4, <1>5, <1>6 DEF PInv

\* LYC, IF, IE, HALT and buttons.
LEMMA OtherCpuInv ==
    ASSUME PInv,
           \/ Halt \/ Input
           \/ \E value \in LycValues : WriteLyc(value)
           \/ \E bits \in SUBSET {"vblank", "stat"} : WriteIF(bits)
           \/ \E bits \in IeValues : WriteIE(bits)
    PROVE  PInv'
<1>1. /\ lyc \in LycValues /\ interrupt_flag \subseteq {"vblank", "stat"}
      /\ interrupt_enable \subseteq {"vblank", "stat"} /\ halted \in BOOLEAN
    BY DEF PInv, TypeOK
<1>2. ASSUME CpuActs, UNCHANGED <<lcd_enable, ly, mode, coincidence, ienable, stat_flag, vblank_flag, loop>>,
             lyc' \in LycValues, interrupt_flag' \subseteq {"vblank", "stat"},
             interrupt_enable' \subseteq {"vblank", "stat"}, halted' \in BOOLEAN
      PROVE  PInv'
    <2>1. busy = 0 /\ busy' = Spacing /\ ghost = Never
        BY <1>2, CpuActsFinds
    <2>2. UNCHANGED <<pc, y, wait, line_left, posts, ghost, since>>
        BY <1>2 DEF loop
    <2> QED
        BY <1>2, <2>1, <2>2, OtherWrites
<1>3. ASSUME Halt PROVE PInv'
    BY <1>1, <1>2, <1>3 DEF Halt, registers, lines
<1>4. ASSUME Input PROVE PInv'
    <2>1. /\ UNCHANGED <<lcd_enable, ly, mode, coincidence, ienable, stat_flag, vblank_flag>>
          /\ UNCHANGED <<pc, y, wait, line_left, posts, ghost, since>>
          /\ lyc' = lyc /\ interrupt_flag' = interrupt_flag /\ interrupt_enable' = interrupt_enable
          /\ busy' = busy /\ ~ halted' /\ halted' \in BOOLEAN
        BY <1>4 DEF Input, registers, lines, loop
    <2> QED
        BY <1>1, <2>1, OtherWrites
<1>5. ASSUME NEW value \in LycValues, WriteLyc(value) PROVE PInv'
    BY <1>1, <1>2, <1>5 DEF WriteLyc, lines
<1>6. ASSUME NEW bits \in SUBSET {"vblank", "stat"}, WriteIF(bits) PROVE PInv'
    BY <1>1, <1>2, <1>6 DEF WriteIF, registers
<1>7. ASSUME NEW bits \in IeValues, WriteIE(bits) PROVE PInv'
    BY <1>1, <1>2, <1>7, StatAssumption DEF WriteIE, registers
<1> QED
    BY <1>3, <1>4, <1>5, <1>6, <1>7

-----------------------------------------------------------------------------
(* Time                                                                    *)

\* Time passes by a number of cycles that no timer is shorter than.
LEMMA ElapseStep ==
    ASSUME PInv, Elapse
    PROVE  \E d \in Int :
             /\ d > 0
             /\ wait # Never => d <= wait
             /\ ghost # Never => d <= ghost
             /\ \A p \in posts : d <= p.left
             /\ ~ halted /\ busy # 0 => d <= busy
             /\ wait' = Less(wait, d) /\ ghost' = Less(ghost, d) /\ since' = Less(since, -d)
             /\ posts' = {[p EXCEPT !.left = @ - d] : p \in posts}
             /\ line_left' = Max({line_left - d, 0})
             /\ busy' = IF halted THEN busy ELSE Max({busy - d, 0})
<1> DEFINE S == Timers \ {Never, 0}
           L == {p.left : p \in posts}
           b == IF halted THEN Never ELSE busy
<1>1. /\ wait # 0 /\ ghost # 0 /\ (\A p \in posts : p.left # 0) /\ S # {}
    BY DEF Elapse
<1>2. /\ wait \in Nat \cup {Never} /\ ghost \in 0..4 \cup {Never} /\ busy \in Nat
      /\ halted \in BOOLEAN /\ posts \subseteq [mode : LcdMode, left : 0..4]
    BY DEF PInv, TypeOK
<1>3. L \subseteq 0..4
    BY <1>2
<1>4. wait \in Int /\ ghost \in Int /\ b \in Int
    BY <1>2 DEF Never
<1>5. S \subseteq L \cup {wait, ghost, b} /\ \A x \in S : x \in Int /\ x > 0
    <2>1. S \subseteq L \cup {wait, ghost, b}
        BY DEF Timers
    <2>2. \A x \in L \cup {wait, ghost, b} : x \in Int /\ (x # Never /\ x # 0 => x > 0)
        <3>1. b \in Nat \cup {Never}
            BY <1>2
        <3> HIDE DEF b, L
        <3> QED
            BY <1>2, <1>3, <3>1 DEF Never
    <2> QED
        BY <2>1, <2>2
<1>6. PICK d \in {Min(S)} \cup {2 : p \in {q \in posts : q.left = 4}} :
        /\ \A timer \in S : d <= timer
        /\ wait' = Less(wait, d) /\ ghost' = Less(ghost, d) /\ since' = Less(since, -d)
        /\ posts' = {[p EXCEPT !.left = @ - d] : p \in posts}
        /\ line_left' = Max({line_left - d, 0})
        /\ busy' = IF halted THEN busy ELSE Max({busy - d, 0})
    BY DEF Elapse
<1>7. d \in Int /\ d > 0
    <2>1. Min(S) \in S
        <3> HIDE DEF S, L, b
        <3> QED
            BY <1>1, <1>3, <1>4, <1>5, LeastTimer
    <2>2. CASE d = Min(S)
        BY <1>5, <2>1, <2>2
    <2>3. CASE d = 2
        BY <2>3
    <2> QED
        BY <1>6, <2>2, <2>3
<1>8. /\ wait # Never => wait \in S
      /\ ghost # Never => ghost \in S
      /\ \A p \in posts : p.left \in S
      /\ ~ halted /\ busy # 0 => busy \in S
    <2>1. \A p \in posts : p.left \in Nat /\ p.left # Never /\ p.left \in L
        BY <1>2 DEF Never
    <2>2. busy # Never
        BY <1>2 DEF Never
    <2>3. /\ wait \in Timers /\ ghost \in Timers /\ (\A p \in posts : p.left \in Timers)
          /\ b \in Timers
        BY <2>1 DEF Timers
    <2> QED
        BY <1>1, <2>1, <2>2, <2>3
<1> HIDE DEF S
<1> QED
    BY <1>6, <1>7, <1>8

\* Waits, callbacks and the CPU come closer alike (gb_cycle_scheduler.cpp:18-45).
LEMMA ElapseInv == PInv /\ Elapse => PInv'
<1> SUFFICES ASSUME PInv, Elapse
             PROVE  PInv'
    OBVIOUS
<1>1. PICK d \in Int :
        /\ d > 0
        /\ wait # Never => d <= wait
        /\ ghost # Never => d <= ghost
        /\ \A p \in posts : d <= p.left
        /\ ~ halted /\ busy # 0 => d <= busy
        /\ wait' = Less(wait, d) /\ ghost' = Less(ghost, d) /\ since' = Less(since, -d)
        /\ posts' = {[p EXCEPT !.left = @ - d] : p \in posts}
        /\ line_left' = Max({line_left - d, 0})
        /\ busy' = IF halted THEN busy ELSE Max({busy - d, 0})
    BY ElapseStep
<1>2. UNCHANGED <<lcd_enable, ly, lyc, mode, coincidence, ienable, stat_flag, vblank_flag,
                  interrupt_flag, interrupt_enable, pc, y, halted>>
    BY DEF Elapse, registers, lines
<1>3. /\ wait \in 0..LineLength \cup {Never} /\ line_left \in 0..LineLength
      /\ ghost \in 0..4 \cup {Never} /\ busy \in 0..Spacing /\ since \in Int
      /\ posts \subseteq [mode : LcdMode, left : 0..4] /\ halted \in BOOLEAN
      /\ TypeOK
    BY DEF PInv, TypeOK
<1> DEFINE aged(p) == [p EXCEPT !.left = @ - d]
<1>4. /\ \A p \in posts : aged(p) \in posts' /\ aged(p).mode = p.mode /\ aged(p).left = p.left - d
                          /\ aged(p) \in [mode : LcdMode, left : 0..4] /\ p.left \in 0..4
      /\ \A q \in posts' : \E p \in posts : q = aged(p)
    <2>1. ASSUME NEW p \in posts
          PROVE  /\ aged(p).mode = p.mode /\ aged(p).left = p.left - d
                 /\ aged(p) \in [mode : LcdMode, left : 0..4] /\ p.left \in 0..4
        <3>1. p \in [mode : LcdMode, left : 0..4] /\ d <= p.left
            BY <1>1, <1>3
        <3>2. p.left - d \in 0..4
            BY <1>1, <3>1
        <3> QED
            BY <3>1, <3>2
    <2> QED
        BY <1>1, <2>1
<1>5. posts' = {} <=> posts = {}
    BY <1>4
<1> HIDE DEF aged
<1>6. /\ wait = Never => wait' = Never
      /\ wait # Never => wait' = wait - d /\ wait' \in 0..LineLength /\ wait' # Never
    BY <1>1, <1>3, Constants DEF Less, Never
<1>7. /\ ghost = Never => ghost' = Never
      /\ ghost # Never => ghost' = ghost - d /\ ghost' \in 0..4 /\ ghost' # Never
    BY <1>1, <1>3 DEF Less, Never
<1>8. line_left' = (IF line_left >= d THEN line_left - d ELSE 0) /\ line_left' \in 0..LineLength
    <2>1. line_left - d \in Int
        BY <1>3
    <2>2. Max({line_left - d, 0}) = IF line_left - d >= 0 THEN line_left - d ELSE 0
        BY <2>1, MaxZero
    <2>3. line_left' = IF line_left - d >= 0 THEN line_left - d ELSE 0
        BY <1>1, <2>2
    <2> QED
        BY <1>1, <1>3, <2>3, Constants
<1>9. /\ halted \/ busy = 0 => busy' = busy
      /\ ~ halted /\ busy # 0 => busy' = busy - d
      /\ busy' \in 0..Spacing
    <2>1. Max({busy - d, 0}) = IF busy - d >= 0 THEN busy - d ELSE 0
        <3>1. busy - d \in Int
            BY <1>3
        <3> QED
            BY <3>1, MaxZero
    <2>2. busy' = IF halted THEN busy ELSE IF busy - d >= 0 THEN busy - d ELSE 0
        BY <1>1, <2>1
    <2> QED
        BY <1>1, <1>3, <2>2, Constants
<1>10. /\ since = NoFrame => since' = NoFrame
       /\ since # NoFrame => since' = since + d /\ since' > since
       /\ since' \in Int
    BY <1>1, <1>3 DEF Less, Never, NoFrame
<1>11. TypeOK'
    <2>1. /\ lcd_enable' \in BOOLEAN /\ ly' \in 0..LAST /\ y' \in 0..LAST /\ lyc' \in LycValues
          /\ coincidence' \in BOOLEAN /\ mode' \in {Truncated(k) : k \in LcdMode}
          /\ stat_flag' \in BOOLEAN /\ vblank_flag' \in BOOLEAN /\ halted' \in BOOLEAN
          /\ interrupt_flag' \subseteq {"vblank", "stat"}
          /\ interrupt_enable' \subseteq {"vblank", "stat"}
          /\ ienable' \in StatValues \cup {{}} /\ pc' \in Pc
        BY <1>2, <1>3 DEF TypeOK
    <2>2. wait' \in 0..LineLength \cup {Never} /\ ghost' \in 0..4 \cup {Never}
        BY <1>6, <1>7
    <2>3. posts' \subseteq [mode : LcdMode, left : 0..4]
        BY <1>4
    <2>4. ASSUME NEW q \in posts', NEW r \in posts', q.left = r.left PROVE q = r
        <3>1. PICK p \in posts, s \in posts : q = aged(p) /\ r = aged(s)
            BY <1>4
        <3>2. p.left = s.left
            BY <1>4, <2>4, <3>1
        <3>3. p = s
            BY <3>2, <1>3 DEF TypeOK
        <3> QED
            BY <3>1, <3>3
    <2> QED
        BY <1>8, <1>9, <1>10, <2>1, <2>2, <2>3, <2>4, Zenon DEF TypeOK
<1>12. Places'
    BY <1>2 DEF PInv, Places
<1>13. Waits'
    <2>2. /\ pc = "off" <=> wait = Never
          /\ pc = "off" => ~ lcd_enable
          /\ pc = "power_on" => line_left = LineLength - 6 - PowerOn + wait
          /\ pc = "oam_search" => line_left = LineLength - OamSearch + wait
          /\ pc = "lcd_write" => line_left >= wait + 5
          /\ pc \notin {"off", "last_line"} => \A p \in posts : p.left < wait
          /\ pc = "last_line" => mode = "v_blank" /\ posts = {[mode |-> "v_blank", left |-> wait]}
        BY DEF PInv, Waits
    <2>3. pc' = "off" <=> wait' = Never
        BY <1>2, <1>6, <2>2
    <2>4. pc # "off" => wait # Never /\ wait' = wait - d /\ d <= wait /\ wait \in Int
        BY <1>1, <1>3, <1>6, <2>2
    <2>5. /\ pc' = "power_on" => line_left' = LineLength - 6 - PowerOn + wait'
          /\ pc' = "oam_search" => line_left' = LineLength - OamSearch + wait'
          /\ pc' = "lcd_write" => line_left' >= wait' + 5
        <3>1. pc \in {"power_on", "oam_search", "lcd_write"} => line_left >= d
            BY <1>1, <1>3, <2>2, <2>4, Constants
        <3>2. pc \in {"power_on", "oam_search", "lcd_write"} => line_left' = line_left - d
            BY <1>8, <3>1
        <3> QED
            BY <1>1, <1>2, <1>3, <2>2, <2>4, <3>2, Constants
    <2>6. pc' \notin {"off", "last_line"} => \A q \in posts' : q.left < wait'
        <3> SUFFICES ASSUME pc \notin {"off", "last_line"}, NEW q \in posts'
                     PROVE  q.left < wait'
            BY <1>2
        <3>1. PICK p \in posts : q = aged(p)
            BY <1>4
        <3>2. q.left = p.left - d /\ p.left \in Int /\ p.left < wait
            BY <1>4, <2>2, <3>1
        <3> QED
            BY <2>4, <3>2
    <2>7. pc' = "last_line" => mode' = "v_blank" /\ posts' = {[mode |-> "v_blank", left |-> wait']}
        <3> SUFFICES ASSUME pc = "last_line"
                     PROVE  posts' = {[mode |-> "v_blank", left |-> wait']}
            BY <1>2, <2>2
        <3> DEFINE p == [mode |-> "v_blank", left |-> wait]
        <3>1. posts = {p} /\ p.left = wait
            BY <2>2
        <3>2. aged(p) = [mode |-> "v_blank", left |-> wait - d]
            BY DEF aged
        <3>3. posts' = {aged(p)}
            BY <1>4, <3>1
        <3> QED
            BY <2>4, <3>2, <3>3
    <2> QED
        BY <1>2, <2>2, <2>3, <2>5, <2>6, <2>7 DEF Waits
<1>14. Ghosts'
    <2> SUFFICES ASSUME ghost # Never
                 PROVE  Ghosts'
        BY <1>7 DEF Ghosts
    <2>1. /\ ghost <= 3 /\ ghost < busy /\ ~ halted /\ since = NoFrame
          /\ \/ pc = "off" /\ posts = {}
             \/ /\ pc = "oam_search" /\ lcd_enable /\ ghost < wait
                /\ \A p \in posts : p.mode = "oam_search"
        BY DEF PInv, Ghosts
    <2>2. ghost' = ghost - d /\ busy' = busy - d /\ ghost \in Int /\ busy \in Int
        BY <1>3, <1>7, <1>9, <2>1
    <2>3. ghost' <= 3 /\ ghost' < busy' /\ ~ halted' /\ since' = NoFrame
        BY <1>1, <1>2, <1>10, <2>1, <2>2
    <2>4. CASE pc = "off" /\ posts = {}
        BY <1>2, <1>5, <2>3, <2>4 DEF Ghosts
    <2>5. CASE /\ pc = "oam_search" /\ lcd_enable /\ ghost < wait
               /\ \A p \in posts : p.mode = "oam_search"
        <3>1. wait # Never /\ wait' = wait - d /\ wait \in Int
            BY <1>3, <1>6, <2>5 DEF PInv, Waits
        <3>2. ghost' < wait'
            BY <2>2, <2>5, <3>1
        <3>3. \A q \in posts' : q.mode = "oam_search"
            BY <1>4, <2>5
        <3> QED
            BY <1>2, <2>3, <2>5, <3>2, <3>3 DEF Ghosts
    <2> QED
        BY <2>1, <2>4, <2>5
<1>15. Latest'
    <2> SUFFICES ASSUME pc # "off"
                 PROVE  /\ posts' = {} => mode = ModeOf
                        /\ \A q \in posts' : q.mode = Posted \/ \E r \in posts' : r.left > q.left
        BY <1>2 DEF Latest, Posted, ModeOf
    <2>1. posts' = {} => mode = ModeOf
        BY <1>5 DEF PInv, Latest
    <2>2. ASSUME NEW q \in posts', q.mode # Posted
          PROVE  \E r \in posts' : r.left > q.left
        <3>1. PICK p \in posts : q = aged(p)
            BY <1>4
        <3>2. p.mode # Posted
            BY <1>4, <2>2, <3>1
        <3>3. PICK s \in posts : s.left > p.left
            BY <3>2 DEF PInv, Latest
        <3>4. aged(s) \in posts' /\ aged(s).left = s.left - d /\ q.left = p.left - d
              /\ s.left \in Int /\ p.left \in Int
            BY <1>4, <3>1
        <3>5. aged(s).left > q.left
            BY <3>3, <3>4
        <3> QED
            BY <3>4, <3>5
    <2> QED
        BY <2>1, <2>2
<1>16. LinesFollowRegisters'
    BY <1>2, <1>5 DEF PInv, LinesFollowRegisters, Settled
<1>17. Frames'
    <2>1. since' >= NoFrame /\ (since' # NoFrame => since # NoFrame)
        BY <1>1, <1>3, <1>10 DEF PInv, Frames, NoFrame
    <2>2. ASSUME since # NoFrame
          PROVE  /\ lcd_enable' /\ pc' \notin {"off", "power_on"}
                 /\ \A p, q \in posts' : p = q
                 /\ \A p \in posts' : Follows(mode', Truncated(p.mode))
        <3>1. /\ lcd_enable /\ pc \notin {"off", "power_on"}
              /\ \A p, q \in posts : p = q
              /\ \A p \in posts : Follows(mode, Truncated(p.mode))
            BY <2>2 DEF PInv, Frames
        <3>2. \A p, q \in posts' : p = q
            BY <1>4, <3>1
        <3>3. \A p \in posts' : Follows(mode', Truncated(p.mode))
            BY <1>2, <1>4, <3>1
        <3> QED
            BY <1>2, <3>1, <3>2, <3>3
    <2> QED
        BY <2>1, <2>2 DEF Frames
<1>18. VBlankIsUp'
    <2> SUFFICES ASSUME since # NoFrame, pc \in {"v_blank", "last_line"}
                 PROVE  /\ mode = "v_blank" => vblank_flag
                        /\ mode # "v_blank" => \A p \in posts' :
                              \/ vblank_flag /\ "vblank" \in interrupt_flag
                              \/ busy' > p.left /\ (vblank_flag \/ "vblank" \in interrupt_flag)
        BY <1>2, <1>10 DEF VBlankIsUp
    <2>1. ASSUME mode # "v_blank", NEW q \in posts'
          PROVE  \/ vblank_flag /\ "vblank" \in interrupt_flag
                 \/ busy' > q.left /\ (vblank_flag \/ "vblank" \in interrupt_flag)
        <3>1. PICK p \in posts : q = aged(p)
            BY <1>4
        <3>2. q.left = p.left - d /\ p.left \in 0..4
            BY <1>4, <3>1
        <3>3. busy > p.left => busy' > q.left
            BY <1>1, <1>3, <1>9, <3>2
        <3> QED
            BY <2>1, <3>3 DEF PInv, VBlankIsUp
    <2>2. mode = "v_blank" => vblank_flag
        BY DEF PInv, VBlankIsUp
    <2> QED
        BY <2>1, <2>2
<1> QED
    BY <1>11, <1>12, <1>13, <1>14, <1>15, <1>16, <1>17, <1>18 DEF PInv

-----------------------------------------------------------------------------
(* Theorems                                                                *)

\* emu::start leaves the PPU waiting for the LCD (gb_ppu.cpp:114-127).
LEMMA InitPInv == Init => PInv
<1> SUFFICES ASSUME Init
             PROVE  PInv
    OBVIOUS
<1>1. TypeOK
    <2>1. /\ lcd_enable \in BOOLEAN /\ coincidence \in BOOLEAN
          /\ stat_flag \in BOOLEAN /\ vblank_flag \in BOOLEAN /\ halted \in BOOLEAN
          /\ lyc \in LycValues /\ ienable \in StatValues \cup {{}} /\ pc \in Pc
          /\ interrupt_flag \subseteq {"vblank", "stat"}
          /\ interrupt_enable \subseteq {"vblank", "stat"}
        BY DEF Init, Pc
    <2>2. /\ ly \in 0..LAST /\ y \in 0..LAST /\ wait \in 0..LineLength \cup {Never}
          /\ line_left \in 0..LineLength /\ busy \in 0..Spacing
          /\ ghost \in 0..4 \cup {Never} /\ since \in Int
        BY Constants DEF Init, NoFrame
    <2>3. mode \in {Truncated(m) : m \in LcdMode}
        BY DEF Init, Truncated, LcdMode
    <2>4. /\ posts \subseteq [mode : LcdMode, left : 0..4]
          /\ \A p, q \in posts : p.left = q.left => p = q
        BY DEF Init
    <2> QED
        BY <2>1, <2>2, <2>3, <2>4, Zenon DEF TypeOK
<1>2. Places /\ Waits /\ Ghosts /\ Latest
    BY DEF Init, Places, Waits, Ghosts, Latest
<1>3. LinesFollowRegisters /\ Frames /\ VBlankIsUp
    BY DEF Init, LinesFollowRegisters, Settled, Frames, VBlankIsUp, NoFrame
<1> QED
    BY <1>1, <1>2, <1>3 DEF PInv

\* Steps that leave everything as it is.
LEMMA StutterPInv == PInv /\ UNCHANGED vars => PInv'
<1> SUFFICES ASSUME PInv, UNCHANGED vars
             PROVE  PInv'
    OBVIOUS
<1>1. /\ UNCHANGED <<lcd_enable, ly, lyc, mode, coincidence, ienable>>
      /\ UNCHANGED <<stat_flag, vblank_flag, interrupt_flag, interrupt_enable>>
      /\ UNCHANGED <<pc, y, wait, line_left, posts, ghost, since>>
      /\ UNCHANGED <<halted, busy>>
    BY DEF vars, registers, lines, loop, cpu
<1>2. TypeOK' /\ Places' /\ Waits' /\ Ghosts'
    BY <1>1 DEF PInv, TypeOK, Places, Waits, Ghosts
<1>3. Latest' /\ LinesFollowRegisters'
    BY <1>1 DEF PInv, Latest, Posted, ModeOf, LinesFollowRegisters, Settled
<1>4. Frames' /\ VBlankIsUp'
    BY <1>1 DEF PInv, Frames, VBlankIsUp
<1> QED
    BY <1>2, <1>3, <1>4 DEF PInv

\* Every step of the loop, the callbacks, the CPU and time keeps the invariant.
LEMMA NextPInv == PInv /\ [Next]_vars => PInv'
<1> SUFFICES ASSUME PInv, [Next]_vars
             PROVE  PInv'
    OBVIOUS
<1>1. CASE PpuStep
    BY <1>1, WaitOverInv, GhostRunsInv, CallbackInv DEF PpuStep
<1>2. CASE CpuStep
    BY <1>2, WriteLcdcInv, WriteStatInv, OtherCpuInv DEF CpuStep
<1>3. CASE Elapse
    BY <1>3, ElapseInv
<1>4. CASE UNCHANGED vars
    BY <1>4, StutterPInv
<1> QED
    BY <1>1, <1>2, <1>3, <1>4 DEF Next

\* The inductive invariant: which callback is queued at each wait of ppu::run,
\* and what it will find (gb_ppu.cpp:109-528, 701-735).
THEOREM PpuInvariant == Spec => []PInv
BY InitPInv, NextPInv, PTL DEF Spec

\* Registers and timers keep their types, whatever the CPU writes (gb_ppu.h:119-200).
THEOREM PpuTypeCorrect == Spec => []TypeOK
<1>1. PInv => TypeOK
    BY DEF PInv
<1> QED
    BY <1>1, PpuInvariant, PTL

\* Once no callback is pending, the mode bits and LY say where the loop is,
\* however often the LCD was turned off and on meanwhile, and although an
\* interruption may take the wrong entry out of the queue (gb_ppu.cpp:701-735).
THEOREM RegistersAlwaysFollow == Spec => []RegistersFollowLoop
<1>1. PInv => RegistersFollowLoop
    BY DEF PInv, Latest, Places, RegistersFollowLoop, Settled
<1> QED
    BY <1>1, PpuInvariant, PTL

\* Once no callback is pending, both interrupt lines are those that the registers
\* imply, except in mode 3 and before it after LCD on (gb_ppu.cpp:650-699).
THEOREM LinesAlwaysFollow == Spec => []LinesFollowRegisters
<1>1. PInv => LinesFollowRegisters
    BY DEF PInv
<1> QED
    BY <1>1, PpuInvariant, PTL

\* Line 153 always ends after four cycles: its callback is due with its first
\* wait, which is taken for interrupted (gb_ppu.cpp:512-520).
THEOREM LastLineIsCutShort == Spec => [](pc \notin {"last_line_ly0", "last_line_end"})
<1>1. PInv => pc \notin {"last_line_ly0", "last_line_end"}
    BY DEF PInv, Places
<1> QED
    BY <1>1, PpuInvariant, PTL

\* No step of the model goes from one mode to another that does not follow it,
\* while a frame is measured (gb_ppu.h:112-116).
THEOREM ModesInSequence == Spec => ModeSequence
<1> DEFINE Pattern == {<<"oam_search", "lcd_write">>, <<"lcd_write", "h_blank">>,
                       <<"h_blank", "oam_search">>, <<"h_blank", "v_blank">>,
                       <<"v_blank", "oam_search">>}
<1>1. ASSUME PInv, Next, since # NoFrame, since' # NoFrame, mode' # mode
      PROVE  <<mode, mode'>> \in Pattern
    <2>1. PICK p \in posts : mode' = Truncated(p.mode)
        <3>1. CASE Callback
            BY <3>1 DEF Callback
        <3>2. ~ Elapse /\ ~ CpuStep /\ ~ WaitOver /\ ~ GhostRuns
            <4>1. ~ Elapse
                BY <1>1 DEF Elapse, registers
            <4>2. ASSUME LoopTop(lcd_enable, posts \ Mistaken) \/ LoopTop(lcd_enable', posts \ Mistaken)
                  PROVE  FALSE
                BY <1>1, <4>2 DEF LoopTop, TurnOff, StartLine, UpdateStat
            <4>3. ASSUME StartPowerOn PROVE FALSE
                BY <1>1, <4>3 DEF StartPowerOn, UpdateStat
            <4>4. ~ GhostRuns
                BY <4>2, <4>3 DEF GhostRuns, Interrupted
            <4>5. ~ WaitOver
                <5>1. pc # "last_line_end" /\ pc # "last_line_ly0"
                    BY <1>1 DEF PInv, Places
                <5>2. ~ StartDrawing /\ ~ StartHBlank /\ ~ NextLine /\ ~ StartVBlank /\ ~ NextVBlankLine
                    BY <1>1 DEF StartDrawing, StartHBlank, NextLine, StartLine, StartVBlank,
                                NextVBlankLine, UpdateStat
                <5>3. ~ LastLineReadsZero
                    BY <1>1 DEF LastLineReadsZero
                <5> QED
                    BY <4>2, <5>1, <5>2, <5>3 DEF WaitOver, LastLineIsZero, NextFrame
            <4>6. ~ CpuStep
                BY <1>1, <4>2, <4>3 DEF CpuStep, WriteLcdc, Interrupted, WriteStat, WriteLyc, WriteIF,
                                        WriteIE, Halt, Input, registers
            <4> QED
                BY <4>1, <4>4, <4>5, <4>6
        <3> QED
            BY <1>1, <3>1, <3>2 DEF Next, PpuStep
    <2>2. Follows(mode, mode')
        BY <1>1, <2>1 DEF PInv, Frames
    <2> QED
        BY <1>1, <2>2 DEF Follows
<1>2. PInv /\ [Next]_vars =>
        [since # NoFrame /\ since' # NoFrame /\ mode' # mode => <<mode, mode'>> \in Pattern]_vars
    BY <1>1
<1> QED
    BY <1>2, PpuInvariant, PTL DEF Spec, ModeSequence

\* A callback never requests the V-blank interrupt while a frame is measured: it
\* finds the line up, or the interrupt requested already (gb_ppu.cpp:726-734).
LEMMA CallbackRequestsNothing ==
    ASSUME PInv, Callback, since # NoFrame
    PROVE  "vblank" \notin interrupt_flag' \ interrupt_flag
<1>1. PICK p \in posts :
        /\ p.left = 0
        /\ \/ interrupt_flag' = interrupt_flag
           \/ interrupt_flag' = Lines(CurrentLines, p.mode, ienable, coincidence').bits
    BY DEF Callback, SetLines
<1>2. TypeOK /\ pc \notin {"off", "power_on"} /\ \A q \in posts : q = p
    BY DEF PInv, Frames
<1>3. wait # 0 /\ pc # "last_line"
    <2>1. wait # 0
        BY DEF Callback
    <2>2. ASSUME pc = "last_line" PROVE FALSE
        <3>1. posts = {[mode |-> "v_blank", left |-> wait]}
            BY <2>2 DEF PInv, Waits
        <3> QED
            BY <1>1, <2>1, <3>1
    <2> QED
        BY <2>1, <2>2
<1>4. p.mode = Posted
    <2>1. \A q \in posts : ~ (q.left > p.left)
        BY <1>1, <1>2
    <2> QED
        BY <1>2, <2>1 DEF PInv, Latest
<1>5. p.mode = "v_blank" => vblank_flag \/ "vblank" \in interrupt_flag
    <2> SUFFICES ASSUME p.mode = "v_blank"
                 PROVE  vblank_flag \/ "vblank" \in interrupt_flag
        OBVIOUS
    <2>1. pc = "v_blank"
        BY <1>2, <1>3, <1>4 DEF PInv, Places, TypeOK, Pc, Posted
    <2>2. CASE mode = "v_blank"
        BY <2>1, <2>2 DEF PInv, VBlankIsUp
    <2>3. CASE mode # "v_blank"
        BY <2>1, <2>3 DEF PInv, VBlankIsUp
    <2> QED
        BY <2>2, <2>3
<1>6. /\ CurrentLines \in LineState /\ CurrentLines.bits = interrupt_flag
      /\ CurrentLines.vblank = vblank_flag
    BY <1>2, CurrentTypes DEF CurrentLines
<1>7. "vblank" \in Lines(CurrentLines, p.mode, ienable, coincidence').bits <=>
         "vblank" \in interrupt_flag \/ (p.mode = "v_blank" /\ ~ vblank_flag)
    BY <1>6, LinesAre
<1> QED
    BY <1>1, <1>5, <1>7

\* Of the loop's own steps, only the one into the first line of V-blank does.
LEMMA LoopRequestsOnce ==
    ASSUME PInv, WaitOver, since # NoFrame, "vblank" \in interrupt_flag' \ interrupt_flag
    PROVE  pc = "h_blank" /\ pc' = "v_blank"
<1>1. TypeOK /\ wait = 0 /\ pc \notin {"last_line_ly0", "last_line_end"}
    BY DEF PInv, Places, WaitOver
<1>2. ASSUME NEW m, NEW l, NEW c, NEW queue, UpdateStat(m, l, c, queue)
      PROVE  m = "v_blank" /\ ~ vblank_flag
    BY <1>1, <1>2, UpdateStatVBlank
<1>3. ~ LoopTop(lcd_enable, posts \ Mistaken)
    BY <1>2 DEF LoopTop, StartLine, TurnOff
<1>4. ~ StartDrawing /\ ~ StartHBlank /\ ~ NextLine
    BY <1>2 DEF StartDrawing, StartHBlank, NextLine, StartLine
<1>5. Mistaken = {} => ~ NextVBlankLine
    <2> SUFFICES ASSUME Mistaken = {}, NextVBlankLine
                 PROVE  FALSE
        OBVIOUS
    <2>1. posts = {} /\ mode = ModeOf /\ pc = "v_blank"
        BY <1>1, WaitOverFinds DEF NextVBlankLine
    <2>2. vblank_flag
        BY <2>1 DEF ModeOf, PInv, VBlankIsUp
    <2> QED
        BY <1>2, <2>2 DEF NextVBlankLine
<1>6. StartVBlank
    BY <1>1, <1>3, <1>4, <1>5 DEF WaitOver, LastLineReadsZero, LastLineIsZero, NextFrame
<1> QED
    BY <1>6 DEF StartVBlank, WaitAt

\* From the first frame on, the V-blank interrupt is requested once per frame, but
\* for writes of STAT and IF (gb_ppu.cpp:501-520, 670-685).
THEOREM VBlankIsRequestedOnce == Spec => VBlankRequestedOncePerFrame
<1>1. ASSUME PInv, Next, since # NoFrame, "vblank" \in interrupt_flag' \ interrupt_flag
      PROVE  (pc = "h_blank" /\ pc' = "v_blank") \/ (busy = 0 /\ busy' = Spacing)
    <2>1. CASE WaitOver
        BY <1>1, <2>1, LoopRequestsOnce
    <2>2. ~ GhostRuns
        BY <1>1 DEF GhostRuns, PInv, Ghosts, Never
    <2>3. ~ Callback
        BY <1>1, CallbackRequestsNothing
    <2>4. ~ Elapse /\ ~ Input
        BY <1>1 DEF Elapse, Input, lines
    <2>5. CASE CpuStep
        <3>1. CpuActs
            BY <2>4, <2>5 DEF CpuStep, WriteLcdc, Halt, WriteStat, WriteLyc, WriteIF, WriteIE
        <3> QED
            BY <3>1 DEF CpuActs
    <2> QED
        BY <1>1, <2>1, <2>2, <2>3, <2>4, <2>5 DEF Next, PpuStep
<1>2. PInv /\ [Next]_vars =>
        [since # NoFrame /\ "vblank" \in interrupt_flag' \ interrupt_flag =>
            \/ pc = "h_blank" /\ pc' = "v_blank"
            \/ busy = 0 /\ busy' = Spacing]_vars
    BY <1>1
<1> QED
    BY <1>2, PpuInvariant, PTL DEF Spec, VBlankRequestedOncePerFrame

=============================================================================
