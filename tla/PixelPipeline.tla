---------------------------- MODULE PixelPipeline ----------------------------
(***************************************************************************)
(* Drawing one line (ppu::run, gb_ppu.cpp:149-497): the sprites chosen for *)
(* the line, the 8-pixel FIFO, the fetcher that refills it from the        *)
(* background or the window, and the waits in between, during which the    *)
(* CPU may write WX and SCX or turn the LCD off.                           *)
(*                                                                         *)
(* Colours are left out.  What the FIFO holds of the background is the     *)
(* layer and the column its first pixel comes from, as tiles are eight     *)
(* columns in a row; of the sprites, which of them every pixel is from.    *)
(***************************************************************************)
EXTENDS Integers, Sequences, FiniteSets

CONSTANTS
    WIDTH,          \* pixels of a line (160)
    LIMIT,          \* sprites on a line, at most (10)
    Oams,           \* contents of OAM
    ScxValues,      \* values written to SCX
    WxValues        \* and to WX

BgFetch == 5
SpriteFetch == 6
WindowSwitch == 6
Budget == 376       \* cycles of a line (456) without those of mode 2 (80)

Sprite == [x : 0..255, on_line : BOOLEAN, opaque : SUBSET (0..7)]

ASSUME PipelineAssumption ==
    /\ WIDTH \in 1..160 /\ LIMIT \in Nat
    /\ WIDTH + 26 + 11 * LIMIT <= Budget
    /\ Oams \subseteq Seq(Sprite)
    /\ ScxValues \subseteq 0..255 /\ WxValues \subseteq 0..255

VARIABLES
    scx, wx,            \* registers.lcd_scroll_x, window_x
    window_enable, bg_enable,   \* as read at the start of the line
    sprites,            \* the sprites of the line
    layer, col,         \* where the first pixel of the FIFO comes from
    bg_count,           \* pixels in the FIFO
    obj,                \* the sprite, by its place in sprites, of the next 8 pixels
    tile_x,             \* the tile that the fetcher reads next
    fetch_age,          \* cycles since fetch_start, at most BgFetch
    in_window,
    phase,              \* the loop: "first" (x = 0), "discard" (off screen) or "draw"
    x, window_x, sprite_x,
    current,            \* current_sprite, counted from 1
    stage,                 \* the wait; "top" is the top of a loop, "end" the end of the line
    wait,               \* its length
    clock,              \* cycles since the start of mode 3
    subtile,            \* subtile_scroll_x
    written             \* the CPU wrote SCX or WX since then

registers == <<scx, wx>>
latched   == <<window_enable, bg_enable, sprites>>
fifo      == <<layer, col, bg_count, obj>>
fetcher   == <<tile_x, fetch_age, in_window>>
place     == <<phase, x, window_x, sprite_x, current>>
control   == <<stage, wait, clock, subtile, written>>
pixelVars == <<registers, latched, fifo, fetcher, place, control>>

Layer == {"bg", "window", "blank"}
NoSprite == 0

PixelTypeOK ==
    /\ scx \in 0..255 /\ wx \in 0..255
    /\ window_enable \in BOOLEAN /\ bg_enable \in BOOLEAN /\ in_window \in BOOLEAN
    /\ sprites \in Seq(Sprite) /\ Len(sprites) <= LIMIT
    /\ layer \in Layer /\ col \in 0..255 /\ bg_count \in 0..8
    /\ obj \in [0..7 -> 0..LIMIT]
    /\ tile_x \in 0..31 /\ fetch_age \in 0..BgFetch
    /\ phase \in {"first", "discard", "draw"}
    /\ x \in 0..WIDTH \cup 0..8 /\ window_x \in 0..255 /\ sprite_x \in 0..(WIDTH + 8)
    /\ current \in 1..(LIMIT + 1)
    /\ stage \in {"idle", "first_fetch", "top", "sprite", "pixels", "window", "refill", "scroll", "end"}
    /\ wait \in 0..11 /\ clock \in Nat /\ subtile \in 0..7
    /\ written \in BOOLEAN

Least(a, b) == IF a < b THEN a ELSE b

-----------------------------------------------------------------------------
(* The start of a line                                                     *)

\* stable_sort by x
InOrder(oam, order) ==
    \A k, l \in DOMAIN order : k < l =>
        \/ oam[order[k]].x < oam[order[l]].x
        \/ oam[order[k]].x = oam[order[l]].x /\ order[k] < order[l]

\* The first sprites in OAM that the line crosses, sorted
Selections(oam) ==
    LET crossed == {i \in DOMAIN oam : oam[i].on_line}
        first   == {i \in crossed : Cardinality({j \in crossed : j < i}) < LIMIT}
    IN  {order \in UNION {[1..n -> first] : n \in 0..LIMIT} :
            {order[k] : k \in DOMAIN order} = first /\ InOrder(oam, order)}

NoLine ==
    /\ stage' = "idle" /\ wait' = 0 /\ clock' = 0 /\ subtile' = 0 /\ written' = FALSE
    /\ window_enable' = FALSE /\ bg_enable' = FALSE /\ sprites' = <<>>
    /\ layer' = "blank" /\ col' = 0 /\ bg_count' = 0 /\ obj' = [i \in 0..7 |-> NoSprite]
    /\ tile_x' = 0 /\ fetch_age' = 0 /\ in_window' = FALSE
    /\ phase' = "first" /\ x' = 0 /\ window_x' = 255 /\ sprite_x' = 0 /\ current' = 1

LineInit ==
    /\ scx = 0 /\ wx \in WxValues       \* WX is uninitialized
    /\ stage = "idle" /\ wait = 0 /\ clock = 0 /\ subtile = 0 /\ written = FALSE
    /\ window_enable = FALSE /\ bg_enable = FALSE /\ sprites = <<>>
    /\ layer = "blank" /\ col = 0 /\ bg_count = 0 /\ obj = [i \in 0..7 |-> NoSprite]
    /\ tile_x = 0 /\ fetch_age = 0 /\ in_window = FALSE
    /\ phase = "first" /\ x = 0 /\ window_x = 255 /\ sprite_x = 0 /\ current = 1

\* Mode 3 begins.  Sprites may be off, and are on the first line after LCD on;
\* triggered is window_triggered and the bit of LCDC.
StartLine ==
    /\ stage = "idle"
    /\ \/ sprites' = <<>>
       \/ \E oam \in Oams : \E order \in Selections(oam) :
            sprites' = [k \in DOMAIN order |-> oam[order[k]]]
    /\ bg_enable' \in BOOLEAN
    /\ \E triggered \in BOOLEAN : window_enable' = (triggered /\ wx < 167)
    /\ tile_x' = scx \div 8
    /\ stage' = "first_fetch" /\ wait' = BgFetch
    /\ UNCHANGED <<registers, fifo, fetch_age, in_window, place, clock, subtile, written>>

-----------------------------------------------------------------------------
(* The FIFO and the fetcher                                                *)

\* fifo_t::apply_bg with the tile t of a layer
FetchTile(l, t) == layer' = l /\ col' = 8 * t /\ bg_count' = 8

Shifted(n) == [i \in 0..7 |-> IF i + n <= 7 THEN obj[i + n] ELSE NoSprite]

\* fifo_t::discard, and fifo_t::pop n times
Shift(n) ==
    /\ bg_count' = bg_count - n
    /\ col' = (col + n) % 256
    /\ obj' = Shifted(n)
    /\ UNCHANGED layer

\* mutant: covers the sprites before it
ApplySpriteOver(k) ==
    obj' = [i \in 0..7 |-> IF i \in sprites[k].opaque THEN k ELSE obj[i]]

\* fifo_t::apply_sprite: only where no other sprite is yet
ApplySprite(k) ==
    obj' = [i \in 0..7 |->
              IF obj[i] = NoSprite /\ i \in sprites[k].opaque THEN k ELSE obj[i]]

\* The wait is over: what the clock and fetch_start tell now
Age == Least(fetch_age + wait, BgFetch)
TimePasses == clock' = clock + wait

At(p, n) == stage' = p /\ wait' = n

-----------------------------------------------------------------------------
(* One turn of the three loops, which differ in how far they go            *)

Room == CASE phase = "first"   -> 1
          [] phase = "discard" -> 8 - x
          [] phase = "draw"    -> WIDTH - x

SpriteHere == current <= Len(sprites) /\ sprites[current].x = sprite_x

\* mutant: also in the window
DistanceToWindowAlways == IF window_enable THEN (wx - window_x) % 256 ELSE 8

\* How far the next pixels reach: to the end of the FIFO, the window or a sprite
DistanceToWindow == IF window_enable /\ ~ in_window THEN (wx - window_x) % 256 ELSE 8
DistanceToSprite == IF current <= Len(sprites) THEN (sprites[current].x - sprite_x) % 256 ELSE 8

\* mutant: may reach past the end of the FIFO
CompleteBeyond == Least(Room, Least(DistanceToWindow, DistanceToSprite))

Complete == Least(Least(bg_count, Room), Least(DistanceToWindow, DistanceToSprite))

\* Wait for the tile that is being fetched, and for the sprite's
AwaitSprite ==
    /\ stage = "top" /\ SpriteHere
    /\ At("sprite", (BgFetch - fetch_age) + SpriteFetch)
    /\ UNCHANGED <<registers, latched, fifo, fetcher, place, clock, subtile, written>>

FetchSprite ==
    /\ stage = "sprite"
    /\ ApplySprite(current) /\ current' = current + 1
    /\ fetch_age' = IF phase = "draw" THEN 0 ELSE Age
    /\ TimePasses /\ At("top", 0)
    /\ UNCHANGED <<registers, latched, layer, col, bg_count, tile_x, in_window,
                   phase, x, window_x, sprite_x, subtile, written>>

AwaitPixels ==
    /\ stage = "top" /\ ~ SpriteHere
    /\ At("pixels", Complete)
    /\ UNCHANGED <<registers, latched, fifo, fetcher, place, clock, subtile, written>>

\* The end of a turn, in which x became position
EndTurn(position) ==
    \/ /\ phase = "first"
       /\ At("scroll", scx % 8)
       /\ subtile' = scx % 8
       /\ UNCHANGED <<phase, x>>
    \/ /\ phase = "discard" /\ position < 8
       /\ At("top", 0) /\ x' = position /\ UNCHANGED <<phase, subtile>>
    \/ /\ phase = "discard" /\ position >= 8
       /\ At("top", 0) /\ phase' = "draw" /\ x' = 0 /\ UNCHANGED subtile
    \/ /\ phase = "draw" /\ position < WIDTH
       /\ At("top", 0) /\ x' = position /\ UNCHANGED <<phase, subtile>>
    \/ /\ phase = "draw" /\ position >= WIDTH
       /\ At("end", 0) /\ x' = position /\ UNCHANGED <<phase, subtile>>

Advance == IF phase = "first" THEN 0 ELSE wait
WindowBegins == window_enable /\ ~ in_window /\ (window_x + wait) % 256 = wx

\* mutant: waits for the whole fetch
RefillWaitAll == IF in_window \/ bg_enable THEN BgFetch ELSE 0

\* The tile that is fetched must be complete, except right after fetch_start
RefillWait ==
    IF (in_window \/ bg_enable) /\ Age > 0 THEN BgFetch - Age ELSE 0

ShiftPixels ==
    /\ stage = "pixels" /\ TimePasses
    /\ Shift(wait)
    /\ window_x' = (window_x + wait) % 256
    /\ sprite_x' = sprite_x + wait
    /\ fetch_age' = Age
    /\ \/ /\ WindowBegins
          /\ in_window' = TRUE
          /\ At("window", WindowSwitch)
          /\ x' = x + Advance /\ UNCHANGED <<phase, subtile>>
       \/ /\ ~ WindowBegins /\ bg_count = wait
          /\ At("refill", RefillWait)
          /\ x' = x + Advance /\ UNCHANGED <<phase, subtile, in_window>>
       \/ /\ ~ WindowBegins /\ bg_count # wait
          /\ EndTurn(x + Advance) /\ UNCHANGED in_window
    /\ UNCHANGED <<registers, latched, tile_x, current, written>>

\* The window starts with its first tile
SwitchToWindow ==
    /\ stage = "window" /\ TimePasses
    /\ FetchTile("window", 0)
    /\ tile_x' = 1 /\ fetch_age' = 0
    /\ EndTurn(x)
    /\ UNCHANGED <<registers, latched, obj, in_window, window_x, sprite_x, current, written>>

\* mutant: the map does not wrap around
RefillNoWrap ==
    /\ stage = "refill" /\ TimePasses
    /\ \/ /\ in_window \/ bg_enable
          /\ FetchTile(IF in_window THEN "window" ELSE "bg", tile_x)
          /\ tile_x' = tile_x + 1 /\ fetch_age' = 0
       \/ /\ ~ in_window /\ ~ bg_enable
          /\ FetchTile("blank", 0)
          /\ fetch_age' = Age /\ UNCHANGED tile_x
    /\ EndTurn(x)
    /\ UNCHANGED <<registers, latched, obj, in_window, window_x, sprite_x, current, written>>

\* The next tile of the window or the background, or blank pixels
Refill ==
    /\ stage = "refill" /\ TimePasses
    /\ \/ /\ in_window \/ bg_enable
          /\ FetchTile(IF in_window THEN "window" ELSE "bg", tile_x)
          /\ tile_x' = (tile_x + 1) % 32 /\ fetch_age' = 0
       \/ /\ ~ in_window /\ ~ bg_enable
          /\ FetchTile("blank", 0)
          /\ fetch_age' = Age /\ UNCHANGED tile_x
    /\ EndTurn(x)
    /\ UNCHANGED <<registers, latched, obj, in_window, window_x, sprite_x, current, written>>

-----------------------------------------------------------------------------
(* Before the loops, between them and after them                           *)

\* mutant: the fetcher goes on with the next tile
FirstTileNext ==
    /\ stage = "first_fetch" /\ TimePasses
    /\ FetchTile(IF bg_enable THEN "bg" ELSE "blank", IF bg_enable THEN tile_x ELSE 0)
    /\ tile_x' = (tile_x + 1) % 32
    /\ fetch_age' = IF bg_enable THEN 0 ELSE BgFetch
    /\ At("top", 0)
    /\ UNCHANGED <<registers, latched, obj, in_window, place, subtile, written>>

\* The first tile, which is discarded and then fetched again
FirstTile ==
    /\ stage = "first_fetch" /\ TimePasses
    /\ FetchTile(IF bg_enable THEN "bg" ELSE "blank", IF bg_enable THEN tile_x ELSE 0)
    /\ fetch_age' = IF bg_enable THEN 0 ELSE BgFetch
    /\ At("top", 0)
    /\ UNCHANGED <<registers, latched, obj, tile_x, in_window, place, subtile, written>>

\* SCX modulo 8 pixels are thrown away
DiscardScrolled ==
    /\ stage = "scroll" /\ TimePasses
    /\ Shift(wait)
    /\ fetch_age' = Age
    /\ phase' = "discard" /\ x' = 1
    /\ At("top", 0)
    /\ UNCHANGED <<registers, latched, tile_x, in_window, window_x, sprite_x, current, subtile, written>>

\* H-blank
EndLine == stage = "end" /\ NoLine /\ UNCHANGED registers

-----------------------------------------------------------------------------
(* The CPU, in a wait                                                      *)

Suspended == stage # "idle" /\ wait > 0

WriteScx(value) ==
    /\ Suspended
    /\ scx' = value /\ written' = TRUE
    /\ UNCHANGED <<wx, latched, fifo, fetcher, place, stage, wait, clock, subtile>>

WriteWx(value) ==
    /\ Suspended
    /\ wx' = value /\ written' = TRUE
    /\ UNCHANGED <<scx, latched, fifo, fetcher, place, stage, wait, clock, subtile>>

\* Writes between two lines
WriteBetween ==
    /\ stage = "idle"
    /\ \/ scx' \in ScxValues /\ UNCHANGED wx
       \/ wx' \in WxValues /\ UNCHANGED scx
    /\ UNCHANGED <<latched, fifo, fetcher, place, control>>

\* The wait is interrupted
TurnOff == Suspended /\ NoLine /\ UNCHANGED registers

-----------------------------------------------------------------------------
Draw ==
    \/ FirstTile \/ AwaitSprite \/ FetchSprite \/ AwaitPixels \/ ShiftPixels
    \/ SwitchToWindow \/ Refill \/ DiscardScrolled \/ EndLine

LineNext ==
    \/ StartLine \/ Draw \/ WriteBetween \/ TurnOff
    \/ \E value \in ScxValues : WriteScx(value)
    \/ \E value \in WxValues : WriteWx(value)

PixelSpec == LineInit /\ [][LineNext]_pixelVars

\* What is due runs
PixelFairSpec == PixelSpec /\ WF_pixelVars(Draw)
-----------------------------------------------------------------------------
(* Properties                                                              *)

\* Where pixel n of the line comes from.  A window that starts at the very
\* first column is scrolled by SCX.
Source(n) ==
    IF window_enable /\ n + 7 >= wx
    THEN <<"window", n + 7 - wx + IF wx = 0 THEN scx % 8 ELSE 0>>
    ELSE IF bg_enable THEN <<"bg", (scx + n) % 256>> ELSE <<"blank", 0>>

\* On a line during which SCX and WX are not written, every pixel is the one
\* that they select: the first tile is discarded and fetched again, the pixels
\* of SCX and of the seven columns left of the screen are thrown away, and the
\* window replaces what is left in the FIFO (gb_ppu.cpp:190-212, 305-307, 344-396).
PixelsInPlace ==
    stage = "pixels" /\ phase = "draw" /\ ~ written =>
        \A i \in 0..(wait - 1) :
            /\ layer = Source(x + i)[1]
            /\ layer # "blank" => (col + i) % 256 = Source(x + i)[2]

\* The sprite that shows at position p: the first of those that cover it
Covers(k, p) == \E i \in sprites[k].opaque : sprites[k].x + i = p
Winner(p) ==
    LET covering == {k \in 1..Len(sprites) : Covers(k, p)}
    IN  IF covering = {} THEN NoSprite
        ELSE CHOOSE k \in covering : \A l \in covering : k <= l

\* Of the sprites that cover a pixel, the one with the smaller x and the earlier
\* place in OAM shows, however their tiles are fetched between the pixels
\* (gb_ppu.cpp:61-62, 171, 313-326, 402-415).  The counter of sprites is one
\* behind on a line on which the CPU wrote 255 to WX before the first pixel.
SpritesInPriority ==
    stage = "pixels" /\ phase = "draw" =>
        /\ sprite_x # x + 8 => written
        /\ sprite_x = x + 8 => \A i \in 0..(wait - 1) : obj[i] = Winner(sprite_x + i)

\* The assertions of the code hold whatever is written to SCX and WX in the
\* middle of a line: the FIFO is never read when it is empty (gb_ppu.cpp:72,
\* 96), and the line is not too short (491).
AssertsHold ==
    /\ stage \in {"pixels", "scroll"} => wait <= bg_count
    /\ stage = "end" => clock >= WIDTH + 13 + subtile

\* A line is finished before its 456 cycles are over: a sprite costs 11 cycles
\* at most, and for 160 pixels and 10 sprites this is less than the 376 cycles
\* there are, so that the length of h-blank (gb_ppu.cpp:497) never is negative.
LineFits == clock <= WIDTH + 26 + 11 * Len(sprites)

\* Both: a line is neither too short, running the FIFO dry, nor too long.
LineKeepsBounds == AssertsHold /\ LineFits

\* No turn of the loops goes round without end
LineEnds == stage # "idle" ~> stage = "idle"
=============================================================================
