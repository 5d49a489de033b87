-------------------------------- MODULE Ppu --------------------------------
(***************************************************************************)
(* The control part of the picture processing unit (gb_ppu.{h,cpp}): the   *)
(* frame loop of ppu::run with its waits, the STAT and V-blank interrupt   *)
(* lines, the callbacks that make the STAT register follow the loop four   *)
(* cycles later, and the CPU that writes LCDC, STAT, LYC, IF and IE,       *)
(* serves interrupts and halts in between.                                 *)
(*                                                                         *)
(* The scheduler is replaced by what it guarantees (EventTimeline): what   *)
(* is queued runs at its cycle, the CPU before the PPU and, among the      *)
(* entries of the PPU, the one queued last first.  Time passes in jumps to *)
(* the next cycle at which something is due, or into the four cycles       *)
(* between update_stat and its callback.  The pixel pipeline is one wait   *)
(* of any of the lengths Render.                                           *)
(***************************************************************************)
EXTENDS Integers, FiniteSetsExt

CONSTANTS
    LINES,          \* visible lines (144)
    LAST,           \* number of the last line (153)
    LineLength,     \* cycles per line (456)
    OamSearch,      \* cycles of mode 2 (80)
    PowerOn,        \* cycles of the first line up to mode 3 after LCD on (74)
    Render,         \* cycles that drawing a line can take
    Spacing,        \* cycles between two writes of the CPU, at least
    LycValues,      \* values written to LYC
    StatValues,     \* sets of interrupt sources written to STAT
    IeValues        \* sets of interrupts written to IE

ASSUME PpuAssumption ==
    /\ LINES \in Nat \ {0} /\ LAST \in Nat /\ LAST > LINES
    /\ PowerOn \in Nat /\ OamSearch \in Nat /\ LineLength \in Nat
    /\ 4 < PowerOn /\ PowerOn + 6 <= OamSearch
    /\ Render \subseteq 5..(LineLength - OamSearch - 5) /\ Render # {}
    /\ Spacing \in Nat /\ Spacing > 4
    /\ LycValues \subseteq Nat /\ LycValues # {}

Source == {"hblank", "vblank", "oam", "coincidence"}    \* bits 3-6 of STAT
ASSUME StatAssumption ==
    /\ StatValues \subseteq SUBSET Source
    /\ IeValues \subseteq SUBSET {"vblank", "stat"}

LcdMode == {"h_blank", "v_blank", "oam_search", "lcd_write", "initial_power_on", "power_off"}

\* registers.lcd_stat.mode = mode, in a field of two bits
Truncated(m) == IF m \in {"initial_power_on", "power_off"} THEN "h_blank" ELSE m

Never == -1     \* nothing queued

-----------------------------------------------------------------------------
VARIABLES
    lcd_enable,             \* LCDC bit 7
    ly, lyc,                \* registers.lcd_y, lcd_yc
    mode, coincidence, ienable,             \* the fields of registers.lcd_stat
    stat_flag, vblank_flag,                 \* the level of the two interrupt lines
    interrupt_flag, interrupt_enable,       \* IF and IE, the bits of the PPU
    pc,         \* the wait of ppu::run
    y,          \* its loop counter
    wait,       \* cycles until the PPU's queue entry is due
    line_left,  \* cycles until line_start + 456
    posts,      \* the queued callbacks of update_stat
    ghost,      \* cycles until an entry is due that a wait has left in the queue
    halted,     \* the CPU waits for cpu_wake
    busy,       \* cycles until the CPU, if it runs, can write again
    since       \* cycles since display_callback, if the LCD stayed on

registers == <<lcd_enable, ly, lyc, mode, coincidence, ienable>>
lines     == <<stat_flag, vblank_flag, interrupt_flag, interrupt_enable>>
loop      == <<pc, y, wait, line_left, posts, ghost, since>>
cpu       == <<halted, busy>>
vars      == <<registers, lines, loop, cpu>>

Pc == {"off", "power_on", "oam_search", "lcd_write", "h_blank",
       "v_blank", "last_line", "last_line_ly0", "last_line_end"}

TypeOK ==
    /\ lcd_enable \in BOOLEAN /\ coincidence \in BOOLEAN
    /\ stat_flag \in BOOLEAN /\ vblank_flag \in BOOLEAN /\ halted \in BOOLEAN
    /\ ly \in 0..LAST /\ y \in 0..LAST /\ lyc \in LycValues
    /\ mode \in {Truncated(m) : m \in LcdMode}
    /\ ienable \in StatValues \cup {{}}
    /\ interrupt_flag \subseteq {"vblank", "stat"}
    /\ interrupt_enable \subseteq {"vblank", "stat"}
    /\ pc \in Pc
    /\ wait \in 0..LineLength \cup {Never}
    /\ line_left \in 0..LineLength /\ busy \in 0..Spacing
    /\ posts \subseteq [mode : LcdMode, left : 0..4]
    /\ \A p, q \in posts : p.left = q.left => p = q
    /\ ghost \in 0..4 \cup {Never}
    /\ since \in Int

NoFrame == -1       \* no complete frame to measure

\* emu::start: the PPU waits for the LCD to be turned on; LYC is uninitialized
Init ==
    /\ lcd_enable = FALSE /\ ly = 0 /\ lyc \in LycValues
    /\ mode = "h_blank" /\ coincidence = FALSE /\ ienable = {}
    /\ stat_flag = FALSE /\ vblank_flag = FALSE
    /\ interrupt_flag = {} /\ interrupt_enable = {}
    /\ pc = "off" /\ y = 0 /\ wait = Never /\ line_left = 0
    /\ posts = {} /\ ghost = Never
    /\ halted = FALSE /\ busy = Spacing /\ since = NoFrame

-----------------------------------------------------------------------------
(* Interrupt lines                                                         *)

\* The level of the STAT line.  In mode 1 bit 5 counts like bit 4.
StatLine(m, sources, c) ==
    \/ m = "h_blank" /\ "hblank" \in sources
    \/ m = "v_blank" /\ sources \cap {"vblank", "oam"} # {}
    \/ m = "oam_search" /\ "oam" \in sources
    \/ c /\ "coincidence" \in sources

CurrentLines == [stat |-> stat_flag, vblank |-> vblank_flag, bits |-> interrupt_flag]

\* mutant: does not remember the level of the V-blank line
LinesNoVBlankEdge(f, m, sources, c) ==
    LET stat   == StatLine(m, sources, c)
        vblank == m = "v_blank"
    IN  [stat |-> stat, vblank |-> vblank,
         bits |-> f.bits \cup {i \in {"stat"} : ~ f.stat /\ stat}
                         \cup {i \in {"vblank"} : vblank}]

\* ppu::update_interrupt_flags on lines f: a line that rises sets its bit of IF
Lines(f, m, sources, c) ==
    LET stat   == StatLine(m, sources, c)
        vblank == m = "v_blank"
    IN  [stat |-> stat, vblank |-> vblank,
         bits |-> f.bits \cup {i \in {"stat"} : ~ f.stat /\ stat}
                     \cup {i \in {"vblank"} : ~ f.vblank /\ vblank}]

\* A bit that is set, if it is enabled, wakes the CPU from HALT
SetLines(f) ==
    /\ stat_flag' = f.stat /\ vblank_flag' = f.vblank /\ interrupt_flag' = f.bits
    /\ halted' = (halted /\ (f.bits = interrupt_flag \/ f.bits \cap interrupt_enable = {}))

\* ppu::update_stat(m, line), with coincidence c and the callbacks in queue
UpdateStat(m, line, c, queue) ==
    /\ ly' = line
    /\ coincidence' = (c /\ ly = line)
    /\ SetLines(Lines(CurrentLines, m, ienable, coincidence'))
    /\ posts' = queue \cup {[mode |-> m, left |-> 4]}
    /\ UNCHANGED mode

-----------------------------------------------------------------------------
(* The frame loop                                                          *)

WaitAt(p, line, n) == pc' = p /\ y' = line /\ wait' = n

\* The loop top with the LCD off
TurnOff(queue) ==
    /\ WaitAt("off", 0, Never)
    /\ ly' = 0 /\ mode' = Truncated("power_off") /\ coincidence' = FALSE
    /\ stat_flag' = FALSE /\ vblank_flag' = FALSE
    /\ posts' = queue /\ since' = NoFrame
    /\ UNCHANGED <<line_left, interrupt_flag, halted>>

\* The start of a line, without bLCDOnBug
StartLine(line, queue) ==
    /\ UpdateStat("oam_search", line, coincidence, queue)
    /\ WaitAt("oam_search", line, OamSearch)
    /\ line_left' = LineLength
    /\ UNCHANGED since

\* mutant: does not look whether the LCD is on
LoopTopAlwaysOn(on, queue) == StartLine(0, queue)

\* while (true): after a frame, or after an interrupted wait
LoopTop(on, queue) == IF on THEN StartLine(0, queue) ELSE TurnOff(queue)

\* The first line after the LCD was turned on: line_start is 6 cycles ago
StartPowerOn ==
    /\ UpdateStat("initial_power_on", 0, coincidence, posts)
    /\ WaitAt("power_on", 0, PowerOn)
    /\ line_left' = LineLength - 6
    /\ UNCHANGED since

StartDrawing == \E n \in Render :
    /\ pc \in {"power_on", "oam_search"}
    /\ UpdateStat("lcd_write", y, coincidence, posts)
    /\ WaitAt("lcd_write", y, n)
    /\ UNCHANGED <<line_left, since>>

StartHBlank ==
    /\ pc = "lcd_write"
    /\ UpdateStat("h_blank", y, coincidence, posts)
    /\ WaitAt("h_blank", y, line_left)
    /\ UNCHANGED <<line_left, since>>

NextLine ==
    /\ pc = "h_blank" /\ y + 1 < LINES
    /\ StartLine(y + 1, posts)

\* display_callback, then the first line of V-blank
StartVBlank ==
    /\ pc = "h_blank" /\ y + 1 = LINES
    /\ UpdateStat("v_blank", LINES, coincidence, posts)
    /\ WaitAt("v_blank", LINES, LineLength)
    /\ since' = IF lcd_enable THEN 0 ELSE NoFrame
    /\ UNCHANGED line_left

\* mutant: counts one line too many
NextVBlankLineLong ==
    /\ pc = "v_blank"
    /\ \/ y < LAST /\ WaitAt("v_blank", y + 1, LineLength)
       \/ y = LAST /\ WaitAt("last_line", y + 1, 4)
    /\ UpdateStat("v_blank", y', coincidence, posts)
    /\ UNCHANGED <<line_left, since>>

NextVBlankLine ==
    /\ pc = "v_blank"
    /\ \/ y + 1 < LAST /\ WaitAt("v_blank", y + 1, LineLength)
       \/ y + 1 = LAST /\ WaitAt("last_line", LAST, 4)
    /\ UpdateStat("v_blank", y', coincidence, posts)
    /\ UNCHANGED <<line_left, since>>

\* "line 153 is weird": LY reads 0 after four cycles
LastLineReadsZero ==
    /\ pc = "last_line"
    /\ ly' = 0
    /\ WaitAt("last_line_ly0", y, 4)
    /\ UNCHANGED <<mode, coincidence, stat_flag, vblank_flag, interrupt_flag,
                   line_left, posts, since, halted>>

LastLineIsZero ==
    /\ pc = "last_line_ly0"
    /\ UpdateStat("v_blank", 0, FALSE, posts)
    /\ WaitAt("last_line_end", y, LineLength - 8)
    /\ UNCHANGED <<line_left, since>>

NextFrame == pc = "last_line_end" /\ LoopTop(lcd_enable, posts)

\* The callbacks that the lookup of the PPU's wait finds in place of its entry
Mistaken == {p \in posts : p.left = wait}

\* The wait is over, or it is mistaken for interrupted and the loop starts over
WaitOver ==
    /\ wait = 0
    /\ \/ Mistaken # {} /\ LoopTop(lcd_enable, posts \ Mistaken)
       \/ /\ Mistaken = {}
          /\ \/ StartDrawing \/ StartHBlank \/ NextLine \/ StartVBlank
             \/ NextVBlankLine \/ LastLineReadsZero \/ LastLineIsZero \/ NextFrame
    /\ UNCHANGED <<lcd_enable, lyc, ienable, interrupt_enable, ghost, busy>>

\* The wait is interrupted.  It takes the entry with its key out of the queue;
\* its own entry stays if that one was a callback.
Interrupted(on) ==
    /\ LoopTop(on, posts \ Mistaken)
    /\ ghost' = IF Mistaken = {} THEN Never ELSE wait

\* An entry left in the queue resumes the PPU: as if the LCD had been turned on
\* if it waits for that, as if interrupted if it waits for something else.
GhostRuns ==
    /\ ghost = 0
    /\ \/ pc = "off" /\ StartPowerOn /\ ghost' = Never
       \/ pc # "off" /\ Interrupted(lcd_enable)
    /\ UNCHANGED <<lcd_enable, lyc, ienable, interrupt_enable, busy>>

\* mutant: sets the mode only where it compares LY with LYC
CallbackModeInside ==
    /\ wait # 0 /\ ghost # 0
    /\ \E p \in posts :
        /\ p.left = 0
        /\ posts' = posts \ {p}
        /\ \/ /\ p.mode = "lcd_write"
              /\ UNCHANGED <<mode, coincidence, stat_flag, vblank_flag, interrupt_flag, halted>>
           \/ /\ p.mode # "lcd_write"
              /\ mode' = Truncated(p.mode)
              /\ coincidence' = (ly = lyc)
              /\ SetLines(Lines(CurrentLines, p.mode, ienable, coincidence'))
    /\ UNCHANGED <<lcd_enable, ly, lyc, ienable, interrupt_enable, pc, y, wait,
                   line_left, ghost, since, busy>>

\* mutant: does not recompute the lines
CallbackNoLines ==
    /\ wait # 0 /\ ghost # 0
    /\ \E p \in posts :
        /\ p.left = 0
        /\ posts' = posts \ {p}
        /\ mode' = Truncated(p.mode)
        /\ coincidence' = IF p.mode = "lcd_write" THEN coincidence ELSE ly = lyc
    /\ UNCHANGED <<lcd_enable, ly, lyc, ienable, lines, pc, y, wait, line_left,
                   ghost, since, cpu>>

\* The callback of update_stat
Callback ==
    /\ wait # 0 /\ ghost # 0
    /\ \E p \in posts :
        /\ p.left = 0
        /\ posts' = posts \ {p}
        /\ mode' = Truncated(p.mode)
        /\ \/ /\ p.mode = "lcd_write"
              /\ UNCHANGED <<coincidence, stat_flag, vblank_flag, interrupt_flag, halted>>
           \/ /\ p.mode # "lcd_write"
              /\ coincidence' = (ly = lyc)
              /\ SetLines(Lines(CurrentLines, p.mode, ienable, coincidence'))
    /\ UNCHANGED <<lcd_enable, ly, lyc, ienable, interrupt_enable, pc, y, wait,
                   line_left, ghost, since, busy>>

-----------------------------------------------------------------------------
(* The CPU                                                                 *)

\* The CPU steps of a cycle come before the PPU's
CpuActs ==
    /\ ~ halted /\ busy = 0 /\ busy' = Spacing
    /\ \A p \in posts : p.left # 4

\* mutant: triggers the interrupt only when the LCD is turned off
WriteLcdcTriggersOff ==
    /\ CpuActs
    /\ lcd_enable' = ~ lcd_enable
    /\ \/ /\ ~ lcd_enable
          /\ UNCHANGED <<ly, mode, coincidence, stat_flag, vblank_flag, interrupt_flag,
                         loop, halted>>
       \/ lcd_enable /\ Interrupted(lcd_enable')
    /\ UNCHANGED <<lyc, ienable, interrupt_enable>>

\* A write of LCDC that turns the LCD on or off
WriteLcdc ==
    /\ CpuActs
    /\ lcd_enable' = ~ lcd_enable
    /\ \/ pc = "off" /\ StartPowerOn /\ UNCHANGED ghost
       \/ pc # "off" /\ Interrupted(lcd_enable')
    /\ UNCHANGED <<lyc, ienable, interrupt_enable>>

\* mutant: overwrites the read-only mode bits
WriteStatUnmasked(sources) ==
    /\ CpuActs
    /\ ienable' = sources /\ mode' = "h_blank"
    /\ SetLines(Lines(Lines(CurrentLines, mode, Source, coincidence),
                      mode', sources, coincidence))
    /\ UNCHANGED <<lcd_enable, ly, lyc, coincidence, interrupt_enable, loop>>

\* A write of STAT "briefly enables all interrupts"
WriteStat(sources) ==
    /\ CpuActs
    /\ ienable' = sources
    /\ SetLines(Lines(Lines(CurrentLines, mode, Source, coincidence),
                      mode, sources, coincidence))
    /\ UNCHANGED <<lcd_enable, ly, lyc, mode, coincidence, interrupt_enable, loop>>

WriteLyc(value) ==
    /\ CpuActs
    /\ lyc' = value
    /\ UNCHANGED <<lcd_enable, ly, mode, coincidence, ienable, lines, loop, halted>>

\* A write of IF, or the dispatch of an interrupt, which clears its bit
WriteIF(bits) ==
    /\ CpuActs
    /\ interrupt_flag' = bits
    /\ UNCHANGED <<registers, stat_flag, vblank_flag, interrupt_enable, loop, halted>>

WriteIE(bits) ==
    /\ CpuActs
    /\ interrupt_enable' = bits
    /\ UNCHANGED <<registers, stat_flag, vblank_flag, interrupt_flag, loop, halted>>

Halt ==
    /\ CpuActs
    /\ interrupt_flag \cap interrupt_enable = {}
    /\ halted' = TRUE
    /\ UNCHANGED <<registers, lines, loop>>

\* A button wakes the CPU
Input ==
    /\ halted /\ halted' = FALSE
    /\ UNCHANGED <<registers, lines, loop, busy>>

-----------------------------------------------------------------------------
(* Time                                                                    *)

Timers == {wait, ghost} \cup {p.left : p \in posts} \cup {IF halted THEN Never ELSE busy}

Less(timer, d) == IF timer = Never THEN Never ELSE timer - d

\* Time passes until something is due, or half the way to a callback
Elapse ==
    /\ wait # 0 /\ ghost # 0 /\ \A p \in posts : p.left # 0
    /\ Timers \ {Never, 0} # {}
    /\ \E d \in {Min(Timers \ {Never, 0})} \cup {2 : p \in {q \in posts : q.left = 4}} :
        /\ \A timer \in Timers \ {Never, 0} : d <= timer
        /\ wait' = Less(wait, d)
        /\ ghost' = Less(ghost, d)
        /\ posts' = {[p EXCEPT !.left = @ - d] : p \in posts}
        /\ line_left' = Max({line_left - d, 0})
        /\ busy' = IF halted THEN busy ELSE Max({busy - d, 0})
        /\ since' = Less(since, -d)
    /\ UNCHANGED <<registers, lines, pc, y, halted>>

-----------------------------------------------------------------------------
PpuStep == WaitOver \/ GhostRuns \/ Callback

CpuStep ==
    \/ WriteLcdc \/ Halt \/ Input
    \/ \E sources \in StatValues : WriteStat(sources)
    \/ \E value \in LycValues : WriteLyc(value)
    \/ \E bits \in SUBSET {"vblank", "stat"} : WriteIF(bits)
    \/ \E bits \in IeValues : WriteIE(bits)

Next == PpuStep \/ CpuStep \/ Elapse

Spec == Init /\ [][Next]_vars

\* tick() is called again and again, and runs whatever is due
FairSpec == Spec /\ WF_vars(Elapse) /\ WF_vars(PpuStep)
-----------------------------------------------------------------------------
(* Properties                                                              *)

Settled == posts = {} /\ pc # "off"

ModeOf == CASE pc \in {"off", "power_on", "h_blank"} -> "h_blank"
            [] pc = "oam_search" -> "oam_search"
            [] pc = "lcd_write"  -> "lcd_write"
            [] pc \in {"v_blank", "last_line", "last_line_ly0", "last_line_end"} -> "v_blank"

\* When no callback is pending, the registers agree with the frame loop, also
\* when the LCD was turned off and on while one was (gb_ppu.cpp:726-734).
RegistersFollowLoop ==
    Settled => mode = ModeOf /\ ly = IF pc \in {"last_line_ly0", "last_line_end"} THEN 0 ELSE y

\* Outside the four cycles after a change, the lines that the edge detection
\* remembers are those that the registers imply, whatever the CPU wrote in
\* those four cycles: no later edge is lost or invented (gb_ppu.cpp:652-680).
\* Not so in mode 3 and before it after LCD on: the callback of lcd_write does
\* not recompute the lines, so what a STAT write in those cycles raised stays.
LinesFollowRegisters ==
    Settled /\ pc \notin {"lcd_write", "power_on"} =>
        /\ stat_flag = StatLine(mode, ienable, coincidence)
        /\ vblank_flag = (mode = "v_blank")

\* From the first frame after the LCD was turned on until it is turned off,
\* the mode bits go through the pattern drawn at gb_ppu.h:112-116: 2, 3, 0 on
\* every line and 1 between frames.
ModeSequence ==
    [][since # NoFrame /\ since' # NoFrame /\ mode' # mode =>
          <<mode, mode'>> \in {<<"oam_search", "lcd_write">>, <<"lcd_write", "h_blank">>,
                              <<"h_blank", "oam_search">>, <<"h_blank", "v_blank">>,
                              <<"v_blank", "oam_search">>}]_vars

\* Likewise, and except by a write of STAT or IF, the V-blank interrupt is
\* requested only when the loop enters the first line of V-blank: neither
\* the callback that follows nor the lines after it request it again.
VBlankRequestedOncePerFrame ==
    [][since # NoFrame /\ "vblank" \in interrupt_flag' \ interrupt_flag
         => \/ pc = "h_blank" /\ pc' = "v_blank"
            \/ busy = 0 /\ busy' = Spacing]_vars

\* With the display disabled "the CPU can access both the display RAM and OAM"
\* (gb_ppu.h:97): the mode bits then read 0 or 1, once no callback is pending.
DisabledReadsAccessible ==
    pc = "off" /\ posts = {} => mode \in {"h_blank", "v_blank"}

\* "70224 Cycles per frame" (gb_emu.h:20), from one display_callback to the next
FrameLength ==
    [][pc = "h_blank" /\ pc' = "v_blank" /\ since # NoFrame
         => since = (LAST + 1) * LineLength]_vars

\* While the LCD stays on, one frame follows the other; while it stays off, the
\* PPU is at rest, at the latest from the end of a frame that a misplaced entry
\* started (gb_ppu.cpp:112-148).
LcdIsObeyed ==
    /\ <>[]lcd_enable => []<>(pc = "v_blank")
    /\ <>[](~ lcd_enable) => <>[](pc = "off" /\ posts = {})
=============================================================================
