--------------------------- MODULE PpuUnitsProofs ---------------------------
(***************************************************************************)
(* Proofs about the two units of the PPU.                                  *)
(*                                                                         *)
(* The OAM DMA unit, for every length of its waits: what it copies is      *)
(* always right.  It copies on time if the requests are at least the first *)
(* wait apart, which the spacing of the CPU's stores sees to.              *)
(*                                                                         *)
(* A line of the screen, for every width and number of sprites, all        *)
(* contents of OAM, and all values written to SCX and WX at any time:      *)
(*   - LineInv is an account of the cycles.  A pixel costs one, a sprite   *)
(*     eleven, the window six and the first tile five.  A tile costs       *)
(*     nothing, because it is fetched while the pixels of the one before   *)
(*     are drawn; what is left to fetch when these are gone (Owed) is paid *)
(*     by the sprite that delayed it.                                      *)
(*   - SpriteInv says that no sprite is missed, and which of them shows.   *)
(*   - PlaceInv says where the FIFO and the fetcher are in the background  *)
(*     and in the window.                                                  *)
(***************************************************************************)
EXTENDS PpuUnits, TLAPS

\* What holds however fast the requests come
Numbers ==
    /\ dma_start \in Byte /\ shadow_dma_start \in 0..223
    /\ oam \in Byte \cup {Elsewhere}
    /\ busy \in 0..Spacing /\ age \in 0..(Duration + 1)
    /\ \/ pc = "idle" /\ left = Never
       \/ pc \in {"start", "transfer"} /\ left \in Nat
    /\ pc = "transfer" => shadow_dma_start = Mirrored(dma_start)

Flags ==
    /\ is_triggered \in BOOLEAN /\ oam_mapped \in BOOLEAN /\ paced \in BOOLEAN
    /\ RestIsClean

Shape == Numbers /\ Flags

\* What holds in addition while they are StartCycles apart
OnTime == paced =>
    /\ ~ is_triggered
    /\ pc = "start" => age = StartCycles - left
    /\ pc = "transfer" => age = Duration - left

\* What the spacing of the CPU's stores adds
Apart == paced /\ age + busy >= StartCycles

-----------------------------------------------------------------------------
(* The DMA unit: what holds at any pace                                    *)

\* The mirrored page lies below the echo region (gb_ppu.cpp:752-757).
LEMMA MirroredIsReadable ==
    ASSUME NEW page \in Byte
    PROVE  Mirrored(page) \in 0..223
BY DEF Mirrored, Byte

\* Every variable of the unit (gb_ppu.cpp:737-780) keeps its type.
LEMMA ShapeTypes == Shape => TypeOK
<1> SUFFICES ASSUME Shape
             PROVE  TypeOK
    OBVIOUS
<1>1. left \in Int /\ pc \in {"idle", "start", "transfer"}
    BY DEF Shape, Numbers, Never
<1> QED
    BY <1>1, Zenon DEF Shape, Numbers, Flags, TypeOK

\* emu::start leaves the unit idle.
LEMMA InitShape == Init => Shape
<1>1. Init => Numbers
    BY DmaAssumption DEF Init, Numbers, Byte, Never, Elsewhere, Duration
<1>2. Init => Flags
    BY DEF Init, Flags, RestIsClean
<1> QED
    BY <1>1, <1>2 DEF Shape

\* Every step of the unit, the CPU, the PPU and of time keeps the numbers right.
LEMMA NextNumbers == Numbers /\ [Next]_vars => Numbers'
<1> SUFFICES ASSUME Numbers, [Next]_vars
             PROVE  Numbers'
    OBVIOUS
<1> USE DmaAssumption DEF Numbers, Byte, Never, Elsewhere, Duration
<1>1. CASE BeginTransfer
    <2>1. Mirrored(dma_start) \in 0..223
        BY DEF Mirrored
    <2>2. CASE is_triggered
        <3>1. /\ shadow_dma_start' = Mirrored(dma_start) /\ oam' = shadow_dma_start'
              /\ pc' = "idle" /\ left' = Never
              /\ dma_start' = dma_start /\ busy' = busy /\ age' = age
            BY <1>1, <2>2 DEF BeginTransfer, Copy, Idle
        <3> QED
            BY <2>1, <3>1
    <2>3. CASE ~ is_triggered
        BY <1>1, <2>1, <2>3 DEF BeginTransfer, Mirrored
    <2> QED
        BY <2>2, <2>3
<1>2. CASE FinishTransfer
    BY <1>2 DEF FinishTransfer, Copy, Idle
<1>3. ASSUME NEW page \in Pages, WriteDma(page)
      PROVE  Numbers'
    BY <1>3 DEF WriteDma
<1>4. CASE WriteOam
    BY <1>4 DEF WriteOam, Mirrored
<1>5. CASE HBlank
    BY <1>5 DEF HBlank, Mirrored
<1>6. ASSUME NEW d \in 1..Duration, Elapse(d)
      PROVE  Numbers'
    BY <1>6 DEF Elapse, Due, Larger, Smaller, Mirrored
<1>7. CASE UNCHANGED vars
    BY <1>7 DEF vars, Mirrored
<1> QED
    BY <1>1, <1>2, <1>3, <1>4, <1>5, <1>6, <1>7 DEF Next, Dma

\* Whoever sends the unit to rest gives OAM back and drops the trigger.
LEMMA NextFlags == Flags /\ [Next]_vars => Flags'
<1> SUFFICES ASSUME Flags, [Next]_vars
             PROVE  Flags'
    OBVIOUS
<1> USE DEF Flags, RestIsClean
<1>1. CASE BeginTransfer
    BY <1>1 DEF BeginTransfer, Copy, Idle
<1>2. CASE FinishTransfer
    BY <1>2 DEF FinishTransfer, Copy, Idle
<1>3. ASSUME NEW page \in Pages, WriteDma(page)
      PROVE  Flags'
    BY <1>3 DEF WriteDma
<1>4. CASE WriteOam
    BY <1>4 DEF WriteOam
<1>5. CASE HBlank
    BY <1>5 DEF HBlank
<1>6. ASSUME NEW d \in 1..Duration, Elapse(d)
      PROVE  Flags'
    BY <1>6 DEF Elapse
<1>7. CASE UNCHANGED vars
    BY <1>7 DEF vars
<1> QED
    BY <1>1, <1>2, <1>3, <1>4, <1>5, <1>6, <1>7 DEF Next, Dma

\* The shape of the unit is an invariant.
THEOREM ShapeInvariant == Spec => []Shape
<1>1. Shape /\ [Next]_vars => Shape'
    BY NextNumbers, NextFlags DEF Shape
<1> QED
    BY <1>1, InitShape, PTL DEF Spec

\* The types are invariant.
THEOREM DmaTypeCorrect == Spec => []TypeOK
BY ShapeTypes, ShapeInvariant, PTL

\* A unit at rest has given OAM back and holds no trigger, however fast the
\* requests come (gb_ppu.cpp:741, 778).
THEOREM RestStaysClean == Spec => []RestIsClean
<1>1. Shape => RestIsClean
    BY DEF Shape, Flags
<1> QED
    BY <1>1, ShapeInvariant, PTL

\* What lands in OAM is the page requested last, however fast the requests come.
THEOREM CopyStaysRight == Spec => CopyIsOfLastRequest
<1>1. Shape /\ [Next]_vars => [Copies => oam' = Mirrored(dma_start)]_vars
    <2> SUFFICES ASSUME Shape, Next, Copies
                 PROVE  oam' = Mirrored(dma_start)
        BY DEF Copies
    <2>1. CASE BeginTransfer
        BY <2>1 DEF BeginTransfer, Copies, Copy
    <2>2. CASE FinishTransfer
        BY <2>2 DEF FinishTransfer, Copy, Shape, Numbers
    <2>3. ASSUME NEW page \in Pages, WriteDma(page)
          PROVE  FALSE
        BY <2>3 DEF WriteDma, Copies
    <2>4. CASE WriteOam
        BY <2>4 DEF WriteOam, Copies
    <2>5. CASE HBlank
        BY <2>5 DEF HBlank, Copies
    <2>6. ASSUME NEW d \in 1..Duration, Elapse(d)
          PROVE  FALSE
        BY <2>6 DEF Elapse, Copies
    <2> QED
        BY <2>1, <2>2, <2>3, <2>4, <2>5, <2>6 DEF Next, Dma
<1> QED
    BY <1>1, ShapeInvariant, PTL DEF Spec, CopyIsOfLastRequest

-----------------------------------------------------------------------------
(* The DMA unit: its pace                                                  *)

\* Nothing is remembered and nothing runs at the start.
LEMMA InitOnTime == Init => OnTime
BY DEF Init, OnTime

\* Every step keeps the time: a request less than StartCycles after the other
\* ends the pace, and a later one does not find the unit in its first wait.
LEMMA NextOnTime == Shape /\ OnTime /\ [Next]_vars => OnTime'
<1> SUFFICES ASSUME Shape, OnTime, [Next]_vars, paced'
             PROVE  /\ ~ is_triggered'
                    /\ pc' = "start" => age' = StartCycles - left'
                    /\ pc' = "transfer" => age' = Duration - left'
    BY DEF OnTime
<1> USE DmaAssumption DEF Shape, Numbers, OnTime, Duration, Never
<1>1. CASE BeginTransfer
    BY <1>1 DEF BeginTransfer, Due, Idle
<1>2. CASE FinishTransfer
    BY <1>2 DEF FinishTransfer, Idle
<1>3. ASSUME NEW page \in Pages, WriteDma(page)
      PROVE  /\ ~ is_triggered'
             /\ pc' = "start" => age' = StartCycles - left'
             /\ pc' = "transfer" => age' = Duration - left'
    <2>1. age >= StartCycles /\ (paced \/ pc = "idle")
        BY <1>3 DEF WriteDma
    <2>2. pc # "start"
        BY <1>3, <2>1 DEF WriteDma, Due
    <2>3. ~ is_triggered
        BY <2>1 DEF Flags, RestIsClean
    <2> QED
        BY <1>3, <2>2, <2>3 DEF WriteDma
<1>4. CASE WriteOam
    BY <1>4 DEF WriteOam
<1>5. CASE HBlank
    BY <1>5 DEF HBlank
<1>6. ASSUME NEW d \in 1..Duration, Elapse(d)
      PROVE  /\ ~ is_triggered'
             /\ pc' = "start" => age' = StartCycles - left'
             /\ pc' = "transfer" => age' = Duration - left'
    BY <1>6 DEF Elapse, Due, Larger, Smaller
<1>7. CASE UNCHANGED vars
    BY <1>7 DEF vars
<1> QED
    BY <1>1, <1>2, <1>3, <1>4, <1>5, <1>6, <1>7 DEF Next, Dma

\* The unit keeps the time, whatever the spacing of the requests.
THEOREM OnTimeInvariant == Spec => [](Shape /\ OnTime)
<1>1. Init => Shape /\ OnTime
    BY InitShape, InitOnTime
<1>2. Shape /\ OnTime /\ [Next]_vars => Shape' /\ OnTime'
    BY NextNumbers, NextFlags, NextOnTime DEF Shape
<1> QED
    BY <1>1, <1>2, PTL DEF Spec

\* Requests that are the first wait apart never find the unit in the wait that
\* it cannot interrupt (gb_ppu.cpp:749).
THEOREM NothingStaysRemembered == Spec => []NothingRemembered
<1>1. Shape /\ OnTime => NothingRemembered
    BY DEF OnTime, NothingRemembered
<1> QED
    BY <1>1, OnTimeInvariant, PTL

\* And their copies happen exactly StartCycles + TransferCycles after the last
\* of them (gb_ppu.cpp:749, 762).
THEOREM TransferStaysOnTime == Spec => TransferTakesItsTime
<1>1. Shape /\ OnTime /\ [Next]_vars => [Copies /\ paced => age = Duration]_vars
    <2> SUFFICES ASSUME Shape, OnTime, Next, Copies, paced
                 PROVE  age = Duration
        BY DEF Copies
    <2>1. CASE BeginTransfer
        BY <2>1 DEF BeginTransfer, Copies, OnTime
    <2>2. CASE FinishTransfer
        BY <2>2, DmaAssumption DEF FinishTransfer, Due, OnTime, Duration
    <2>3. ASSUME NEW page \in Pages, WriteDma(page)
          PROVE  FALSE
        BY <2>3 DEF WriteDma, Copies
    <2>4. CASE WriteOam
        BY <2>4 DEF WriteOam, Copies
    <2>5. CASE HBlank
        BY <2>5 DEF HBlank, Copies
    <2>6. ASSUME NEW d \in 1..Duration, Elapse(d)
          PROVE  FALSE
        BY <2>6 DEF Elapse, Copies
    <2> QED
        BY <2>1, <2>2, <2>3, <2>4, <2>5, <2>6 DEF Next, Dma
<1> QED
    BY <1>1, OnTimeInvariant, PTL DEF Spec, TransferTakesItsTime

\* The requests of the CPU are the first wait apart if its stores are: two
\* stores to one address are at least eight cycles apart (gb_cpu.cpp:36-52).
THEOREM StoresAreApart ==
    ASSUME Spacing >= StartCycles
    PROVE  Spec => []paced
<1> USE DmaAssumption DEF Shape, Numbers, Apart, Duration
<1>1. Init => Apart
    BY DEF Init
<1>2. Shape /\ Apart /\ [Next]_vars => Apart'
    <2> SUFFICES ASSUME Shape, Apart, [Next]_vars
                 PROVE  Apart'
        OBVIOUS
    <2>1. CASE Dma
        BY <2>1 DEF Dma, BeginTransfer, FinishTransfer
    <2>2. ASSUME NEW page \in Pages, WriteDma(page)
          PROVE  Apart'
        <3>1. age >= StartCycles
            BY <2>2 DEF WriteDma
        <3>2. paced' = ((paced \/ pc = "idle") /\ age >= StartCycles)
            BY <2>2, Zenon DEF WriteDma
        <3>3. paced'
            BY <3>1, <3>2, Zenon
        <3>4. age' + busy' >= StartCycles
            BY <2>2 DEF WriteDma
        <3> QED
            BY <3>3, <3>4
    <2>3. CASE WriteOam \/ HBlank
        BY <2>3 DEF WriteOam, HBlank
    <2>4. ASSUME NEW d \in 1..Duration, Elapse(d)
          PROVE  Apart'
        BY <2>4 DEF Elapse, Larger, Smaller
    <2>5. CASE UNCHANGED vars
        BY <2>5 DEF vars
    <2> QED
        BY <2>1, <2>2, <2>3, <2>4, <2>5 DEF Next
<1>3. Apart => paced
    BY DEF Apart
<1> QED
    BY <1>1, <1>2, <1>3, ShapeInvariant, PTL DEF Spec

-----------------------------------------------------------------------------
(* A line of the screen                                                    *)

\* Cycles that the fetch will still take when the FIFO is empty
Owed == IF fetch_age + bg_count < BgFetch THEN BgFetch - fetch_age - bg_count ELSE 0

\* What the line may have cost by now
Account == BgFetch + sprite_x + subtile + (IF in_window THEN WindowSwitch ELSE 0)
             + (BgFetch + SpriteFetch) * (current - 1)

LatchedOK ==
    /\ window_enable \in BOOLEAN /\ bg_enable \in BOOLEAN /\ in_window \in BOOLEAN
    /\ sprites \in Seq(Sprite) /\ Len(sprites) \in Nat /\ Len(sprites) <= LIMIT

NumbersOK ==
    /\ scx \in Nat /\ scx <= 255 /\ wx \in Nat /\ wx <= 255
    /\ bg_count \in Nat /\ bg_count <= 8
    /\ fetch_age \in Nat /\ fetch_age <= BgFetch
    /\ x \in Nat /\ window_x \in Nat /\ window_x <= 255 /\ sprite_x \in Nat
    /\ current \in Nat /\ 1 <= current /\ current <= Len(sprites) + 1
    /\ wait \in Nat /\ clock \in Nat /\ subtile \in Nat /\ subtile <= 7

PlaceOK ==
    /\ phase \in {"first", "discard", "draw"}
    /\ stage \in {"idle", "first_fetch", "top", "sprite", "pixels", "window", "refill", "scroll", "end"}

\* Where a line begins
Fresh ==
    stage \in {"idle", "first_fetch"} =>
        /\ clock = 0 /\ subtile = 0 /\ in_window = FALSE
        /\ phase = "first" /\ x = 0 /\ sprite_x = 0 /\ current = 1
        /\ wait = IF stage = "idle" THEN 0 ELSE BgFetch

\* How many pixels were taken, by the loop
Progress ==
    /\ phase = "first" =>
         /\ subtile = 0 \/ stage = "scroll"
         /\ x = 0 /\ sprite_x <= 1
         /\ stage \in {"top", "sprite", "pixels"} => sprite_x = 0 /\ bg_count = 8
    /\ phase = "discard" => 1 <= x /\ x <= 8 /\ sprite_x <= x
    /\ phase = "draw" => x <= WIDTH /\ sprite_x <= x + 8
    /\ phase # "draw" => stage # "end"
    /\ stage = "end" => x = WIDTH

\* A wait and what it is for
Waits ==
    /\ stage = "pixels" =>
         /\ wait <= bg_count
         /\ phase = "first" => wait <= 1
         /\ phase = "discard" => x + wait <= 8
         /\ phase = "draw" => x + wait <= WIDTH
    /\ stage = "scroll" => phase = "first" /\ wait = subtile /\ 7 <= bg_count
    /\ stage = "sprite" => SpriteHere /\ wait = BgFetch - fetch_age + SpriteFetch
    /\ stage \in {"top", "end"} => wait = 0

\* A first turn without a pixel is one that begins with the window.
EmptyTurn ==
    stage = "pixels" /\ phase = "first" /\ wait = 0 =>
        window_enable /\ ~ in_window /\ window_x = wx

\* Neither more nor less was paid
NotTooLate ==
    /\ stage \in {"top", "pixels", "end"} => clock + Owed <= Account
    /\ stage = "sprite" => clock + Owed <= Account
    /\ stage = "window" => in_window /\ clock + wait <= Account
    /\ stage = "refill" => clock + wait <= Account
    /\ stage = "scroll" => clock + wait + Owed <= Account

NotTooEarly ==
    /\ phase = "first" /\ stage \in {"top", "sprite", "pixels"} => clock >= BgFetch
    /\ phase = "first" /\ stage \in {"window", "refill", "scroll"} =>
          clock + (IF stage = "window" THEN wait ELSE 0) >= BgFetch + 1
    /\ phase = "discard" => clock >= BgFetch + subtile + x
    /\ phase = "draw" => clock >= BgFetch + 8 + subtile + x

LineInv ==
    /\ LatchedOK
    /\ NumbersOK
    /\ PlaceOK
    /\ Fresh
    /\ Progress
    /\ Waits
    /\ EmptyTurn
    /\ NotTooLate
    /\ NotTooEarly

-----------------------------------------------------------------------------
(* Lemmas                                                                  *)

\* The numbers of the registers, and of a sprite, are bytes.
LEMMA Bytes ==
    /\ \A v \in ScxValues \cup WxValues : v \in Nat /\ v <= 255
    /\ \A s \in Sprite : s.x \in Nat /\ s.x <= 255
<1>1. \A v \in 0..255 : v \in Nat /\ v <= 255
    OBVIOUS
<1>2. ScxValues \subseteq 0..255 /\ WxValues \subseteq 0..255
    BY PipelineAssumption
<1>3. \A s \in Sprite : s.x \in 0..255
    BY DEF Sprite
<1> QED
    BY <1>1, <1>2, <1>3

\* What the constants are
LEMMA Sizes == WIDTH \in Nat /\ 1 <= WIDTH /\ LIMIT \in Nat
BY PipelineAssumption

\* A byte counts modulo 256.
LEMMA ByteDifference ==
    ASSUME NEW a \in Nat, NEW b \in Nat, a <= 255, b <= 255
    PROVE  /\ (a - b) % 256 \in Nat /\ (a + b) % 256 \in Nat /\ (a + b) % 256 <= 255
           /\ (a - b) % 256 = 0 => a = b
OBVIOUS

\* The sprite that comes next has a place on the line.
LEMMA NextSprite ==
    ASSUME LatchedOK, NumbersOK, current <= Len(sprites)
    PROVE  sprites[current].x \in Nat /\ sprites[current].x <= 255
<1>1. sprites \in Seq(Sprite) /\ current \in 1..Len(sprites)
    BY DEF LatchedOK, NumbersOK
<1>2. sprites[current] \in Sprite
    BY <1>1
<1> QED
    BY <1>2, Bytes

\* What is owed and what is paid for are numbers.
LEMMA Amounts ==
    ASSUME NumbersOK
    PROVE  /\ Owed \in Nat /\ Account \in Int
           /\ Account = 5 + sprite_x + subtile + (IF in_window THEN 6 ELSE 0) + 11 * (current - 1)
<1>1. Owed \in Nat
    BY DEF NumbersOK, Owed, BgFetch
<1>2. Account = 5 + sprite_x + subtile + (IF in_window THEN 6 ELSE 0) + (5 + 6) * (current - 1)
    BY DEF Account, BgFetch, SpriteFetch, WindowSwitch
<1>3. (5 + 6) * (current - 1) = 11 * (current - 1)
    BY DEF NumbersOK
<1>4. (IF in_window THEN 6 ELSE 0) \in Nat
    OBVIOUS
<1>5. 5 + sprite_x + subtile + (IF in_window THEN 6 ELSE 0) + 11 * (current - 1) \in Int
    BY <1>4 DEF NumbersOK
<1> QED
    BY <1>1, <1>2, <1>3, <1>5

\* The same of the amounts after a step
LEMMA NextAmounts ==
    ASSUME NumbersOK'
    PROVE  /\ Owed' \in Nat /\ Account' \in Int
           /\ Account' = 5 + sprite_x' + subtile' + (IF in_window' THEN 6 ELSE 0) + 11 * (current' - 1)
<1>0. \A a, b \in Nat : (IF a + b < 5 THEN 5 - a - b ELSE 0) \in Nat
    OBVIOUS
<1>1. Owed' \in Nat
    BY <1>0, Zenon DEF NumbersOK, Owed, BgFetch
<1>2. Account' = 5 + sprite_x' + subtile' + (IF in_window' THEN 6 ELSE 0) + (5 + 6) * (current' - 1)
    BY DEF Account, BgFetch, SpriteFetch, WindowSwitch
<1>3. (5 + 6) * (current' - 1) = 11 * (current' - 1)
    BY DEF NumbersOK
<1>4. (IF in_window' THEN 6 ELSE 0) \in Nat
    OBVIOUS
<1>5. 5 + sprite_x' + subtile' + (IF in_window' THEN 6 ELSE 0) + 11 * (current' - 1) \in Int
    <2>1. \A s, t, w \in Nat : \A n \in Nat : 5 + s + t + w + 11 * (n - 1) \in Int
        OBVIOUS
    <2>2. sprite_x' \in Nat /\ subtile' \in Nat /\ current' \in Nat
        BY Zenon DEF NumbersOK
    <2> QED
        BY <1>4, <2>1, <2>2, Zenon
<1> QED
    BY <1>1, <1>2, <1>3, <1>5

\* Sums that the steps below take apart and put together again
LEMMA Sums ==
    /\ \A c, w, o, p, a \in Int : c + o <= a /\ w + p <= 11 + o => (c + w) + p <= a + 11
    /\ \A c, o, s, a \in Int : c + o + s <= a + 0 => c + s + o <= a
    /\ \A c, o, s, a \in Int : c + o + s <= a + s => c + o <= a
    /\ \A c, w, o, p, a \in Int : c + w + o <= a /\ p <= o => (c + w) + p <= a
    /\ \A c \in Nat : 6 <= c => c + 0 >= 5 + 1
    /\ \A c \in Nat : c + 6 >= 5 + 1
    /\ \A c, w \in Nat : 6 <= c + w \/ 6 <= c => 6 <= c + w
    /\ \A c, s, n \in Nat : 13 + s + n <= c => c >= 5 + 8 + s + n
    /\ \A a \in Nat : ~ (a + 8 < 5)
OBVIOUS

\* Pixels and the rest of SCX are what the account gains in a turn.
LEMMA AccountShifts ==
    ASSUME NumbersOK, NEW n \in Nat, sprite_x' = sprite_x + n, subtile' \in Nat,
           in_window' = in_window, current' = current
    PROVE  Account' + subtile = Account + n + subtile'
<1> DEFINE k == (BgFetch + SpriteFetch) * (current - 1)
           w == IF in_window THEN WindowSwitch ELSE 0
<1>1. Account = 5 + sprite_x + subtile + w + k /\ Account' = 5 + (sprite_x + n) + subtile' + w + k
    BY DEF Account, BgFetch
<1>2. k \in Int /\ w \in Int /\ sprite_x \in Int /\ subtile \in Int
    BY DEF NumbersOK, BgFetch, SpriteFetch, WindowSwitch
<1> HIDE DEF k, w
<1> QED
    BY <1>1, <1>2

\* How many pixels are taken at once (gb_ppu.cpp:234-243, 327-336, 416-425)
LEMMA CompleteBounds ==
    ASSUME LatchedOK, NumbersOK, PlaceOK, Progress, stage = "top", ~ SpriteHere
    PROVE  /\ Complete \in Nat /\ Complete <= bg_count /\ Complete <= Room
           /\ phase = "first" /\ Complete = 0 => DistanceToWindow = 0
<1>1. Room \in Nat /\ (phase = "first" => Room = 1)
    <2>1. CASE phase = "first"
        BY <2>1 DEF Room
    <2>2. CASE phase = "discard"
        <3>1. x \in Nat /\ x <= 8
            BY <2>2 DEF NumbersOK, Progress
        <3> QED
            BY <2>2, <3>1 DEF Room
    <2>3. CASE phase = "draw"
        <3>1. x \in Nat /\ WIDTH \in Nat /\ x <= WIDTH
            BY <2>3, Sizes DEF NumbersOK, Progress
        <3> QED
            BY <2>3, <3>1 DEF Room
    <2> QED
        BY <2>1, <2>2, <2>3 DEF PlaceOK
<1>2. DistanceToWindow \in Nat
    <2>1. (wx - window_x) % 256 \in Nat
        BY ByteDifference DEF NumbersOK
    <2> QED
        BY <2>1 DEF DistanceToWindow
<1>3. DistanceToSprite \in Nat /\ (phase = "first" => DistanceToSprite # 0)
    <2>1. CASE current <= Len(sprites)
        <3> DEFINE sx == sprites[current].x
        <3>1. sx # sprite_x
            BY <2>1 DEF SpriteHere
        <3>2. sx \in Nat /\ sx <= 255 /\ sprite_x \in Nat
            BY <2>1, NextSprite DEF NumbersOK
        <3>3. phase = "first" => sprite_x = 0
            BY DEF Progress
        <3>4. DistanceToSprite = (sx - sprite_x) % 256
            BY <2>1 DEF DistanceToSprite
        <3> HIDE DEF sx
        <3>5. (sx - sprite_x) % 256 \in Nat
            BY <3>2
        <3>6. sprite_x = 0 => (sx - sprite_x) % 256 # 0
            BY <3>1, <3>2
        <3> QED
            BY <3>3, <3>4, <3>5, <3>6
    <2>2. CASE ~ (current <= Len(sprites))
        BY <2>2 DEF DistanceToSprite
    <2> QED
        BY <2>1, <2>2
<1>4. phase = "first" => bg_count = 8
    BY DEF Progress
<1>5. bg_count \in Nat
    BY DEF NumbersOK
<1> HIDE DEF Room, DistanceToWindow, DistanceToSprite
<1> QED
    BY <1>1, <1>2, <1>3, <1>4, <1>5 DEF Complete, Least

-----------------------------------------------------------------------------
(* The ends of a line                                                      *)

\* Whatever is like at first keeps the invariant.
LEMMA InitLine == LineInit => LineInv
<1> SUFFICES ASSUME LineInit PROVE LineInv
    OBVIOUS
<1>1. wx \in Nat /\ wx <= 255
    BY Bytes DEF LineInit
<1>2. sprites \in Seq(Sprite) /\ Len(sprites) = 0
    BY DEF LineInit
<1>3. /\ scx = 0 /\ stage = "idle" /\ wait = 0 /\ clock = 0 /\ subtile = 0
      /\ window_enable = FALSE /\ bg_enable = FALSE /\ bg_count = 0 /\ fetch_age = 0 /\ in_window = FALSE
      /\ phase = "first" /\ x = 0 /\ window_x = 255 /\ sprite_x = 0 /\ current = 1
    BY DEF LineInit
<1>4. LatchedOK
    <2>1. sprites \in Seq(Sprite) /\ Len(sprites) \in Nat /\ Len(sprites) <= LIMIT
        BY <1>2, Sizes
    <2>2. window_enable \in BOOLEAN /\ bg_enable \in BOOLEAN /\ in_window \in BOOLEAN
        BY <1>3
    <2> QED
        BY <2>1, <2>2 DEF LatchedOK
<1>5. NumbersOK
    BY <1>1, <1>2, <1>3 DEF NumbersOK, BgFetch
<1>6. PlaceOK /\ Fresh /\ Waits /\ EmptyTurn /\ NotTooLate /\ NotTooEarly
    BY <1>3 DEF PlaceOK, Fresh, Waits, EmptyTurn, NotTooLate, NotTooEarly
<1>7. Progress
    BY <1>3, Sizes DEF Progress
<1> QED
    BY <1>4, <1>5, <1>6, <1>7 DEF LineInv

\* When a line ends or is given up, everything is as at first.
LEMMA NoLineKeeps ==
    ASSUME LineInv, NoLine, UNCHANGED registers
    PROVE  LineInv'
<1>1. scx' \in Nat /\ scx' <= 255 /\ wx' \in Nat /\ wx' <= 255
    BY DEF LineInv, NumbersOK, registers
<1>2. sprites' \in Seq(Sprite) /\ Len(sprites') = 0
    BY DEF NoLine
<1>3. /\ stage' = "idle" /\ wait' = 0 /\ clock' = 0 /\ subtile' = 0
      /\ window_enable' = FALSE /\ bg_enable' = FALSE /\ bg_count' = 0 /\ fetch_age' = 0 /\ in_window' = FALSE
      /\ phase' = "first" /\ x' = 0 /\ window_x' = 255 /\ sprite_x' = 0 /\ current' = 1
    BY DEF NoLine
<1>4. LatchedOK'
    <2>1. sprites' \in Seq(Sprite) /\ Len(sprites') \in Nat /\ Len(sprites') <= LIMIT
        BY <1>2, Sizes
    <2>2. window_enable' \in BOOLEAN /\ bg_enable' \in BOOLEAN /\ in_window' \in BOOLEAN
        BY <1>3
    <2> QED
        BY <2>1, <2>2 DEF LatchedOK
<1>5. NumbersOK'
    BY <1>1, <1>2, <1>3 DEF NumbersOK, BgFetch
<1>6. (PlaceOK /\ Fresh /\ Waits /\ EmptyTurn /\ NotTooLate /\ NotTooEarly)'
    BY <1>3 DEF PlaceOK, Fresh, Waits, EmptyTurn, NotTooLate, NotTooEarly
<1>7. Progress'
    BY <1>3, Sizes DEF Progress
<1> QED
    BY <1>4, <1>5, <1>6, <1>7 DEF LineInv

\* A line gets the first sprites in OAM that it crosses, LIMIT at most.
LEMMA SpritesFit ==
    ASSUME StartLine
    PROVE  sprites' \in Seq(Sprite) /\ Len(sprites') <= LIMIT /\ Len(sprites') \in Nat
<1>1. CASE sprites' = <<>>
    BY <1>1, Sizes
<1>2. ASSUME NEW entries \in Oams, NEW order \in Selections(entries),
             sprites' = [k \in DOMAIN order |-> entries[order[k]]]
      PROVE  sprites' \in Seq(Sprite) /\ Len(sprites') <= LIMIT /\ Len(sprites') \in Nat
    <2>1. entries \in Seq(Sprite)
        BY PipelineAssumption
    <2> DEFINE crossed == {i \in DOMAIN entries : entries[i].on_line}
               first == {i \in crossed : Cardinality({j \in crossed : j < i}) < LIMIT}
    <2>2. order \in UNION {[1..n -> first] : n \in 0..LIMIT}
        BY DEF Selections
    <2>3. first \subseteq DOMAIN entries
        OBVIOUS
    <2> HIDE DEF first
    <2>4. PICK n \in 0..LIMIT : order \in [1..n -> first]
        BY <2>2, Zenon
    <2>5. n \in Nat /\ n <= LIMIT /\ DOMAIN order = 1..n
        BY <2>4, Sizes
    <2>6. \A k \in 1..n : entries[order[k]] \in Sprite
        BY <2>1, <2>3, <2>4
    <2>7. sprites' \in [1..n -> Sprite]
        BY <1>2, <2>5, <2>6
    <2>8. sprites' \in Seq(Sprite) /\ Len(sprites') = n
        BY <2>5, <2>7
    <2> QED
        BY <2>5, <2>8
<1> QED
    BY <1>1, <1>2 DEF StartLine

\* The first fetch is all there is to wait for.
LEMMA StartLineKeeps ==
    ASSUME LineInv, StartLine
    PROVE  LineInv'
<1>1. sprites' \in Seq(Sprite) /\ Len(sprites') <= LIMIT /\ Len(sprites') \in Nat
    BY SpritesFit
<1>2. bg_enable' \in BOOLEAN /\ window_enable' \in BOOLEAN
    BY DEF StartLine
<1>3. /\ stage = "idle" /\ stage' = "first_fetch" /\ wait' = BgFetch
      /\ UNCHANGED <<registers, fifo, fetch_age, in_window, place, clock, subtile>>
    BY DEF StartLine, At
<1>4. /\ scx' = scx /\ wx' = wx /\ bg_count' = bg_count /\ fetch_age' = fetch_age /\ in_window' = in_window
      /\ phase' = phase /\ x' = x /\ window_x' = window_x /\ sprite_x' = sprite_x /\ current' = current
      /\ clock' = clock /\ subtile' = subtile
    BY <1>3 DEF registers, fifo, place
<1>5. LatchedOK' /\ PlaceOK'
    BY <1>1, <1>2, <1>3, <1>4 DEF LineInv, LatchedOK, PlaceOK
<1>6. current = 1
    BY <1>3 DEF LineInv, Fresh
<1>7. NumbersOK'
    BY <1>1, <1>3, <1>4, <1>6 DEF LineInv, NumbersOK, BgFetch
<1>8. (Fresh /\ Waits /\ EmptyTurn /\ NotTooLate)'
    BY <1>3, <1>4 DEF LineInv, Fresh, Waits, EmptyTurn, NotTooLate
<1>9. Progress' /\ NotTooEarly'
    BY <1>3, <1>4 DEF LineInv, Fresh, Progress, NotTooEarly
<1> QED
    BY <1>5, <1>7, <1>8, <1>9 DEF LineInv

-----------------------------------------------------------------------------
(* Before a turn, and in it                                                *)

\* The first tile takes five cycles.
LEMMA FirstTileKeeps ==
    ASSUME LineInv, FirstTile
    PROVE  LineInv'
<1>1. /\ stage = "first_fetch" /\ stage' = "top" /\ wait' = 0 /\ clock' = clock + wait /\ bg_count' = 8
      /\ fetch_age' = (IF bg_enable THEN 0 ELSE BgFetch)
      /\ UNCHANGED <<scx, wx, window_enable, bg_enable, sprites, in_window, phase, x, window_x, sprite_x,
                     current, subtile>>
    BY DEF FirstTile, FetchTile, TimePasses, At, registers, latched, place
<1>2. /\ clock = 0 /\ wait = 5 /\ subtile = 0 /\ in_window = FALSE
      /\ phase = "first" /\ x = 0 /\ sprite_x = 0 /\ current = 1
    BY <1>1 DEF LineInv, Fresh, BgFetch
<1>3. LatchedOK' /\ PlaceOK'
    BY <1>1 DEF LineInv, LatchedOK, PlaceOK
<1>4. NumbersOK'
    BY <1>1, <1>2 DEF LineInv, LatchedOK, NumbersOK, BgFetch
<1>5. (Fresh /\ Waits /\ EmptyTurn)'
    BY <1>1 DEF Fresh, Waits, EmptyTurn
<1>6. Progress'
    BY <1>1, <1>2 DEF Progress
<1>7. NotTooLate'
    <2>1. fetch_age' \in Nat
        BY <1>4 DEF NumbersOK
    <2>2. Owed' = 0 /\ Account' = 5
        BY <1>1, <1>2, <2>1 DEF Owed, Account, BgFetch, SpriteFetch
    <2> QED
        BY <1>1, <1>2, <2>2 DEF NotTooLate
<1>8. NotTooEarly'
    BY <1>1, <1>2 DEF NotTooEarly, BgFetch
<1> QED
    BY <1>3, <1>4, <1>5, <1>6, <1>7, <1>8 DEF LineInv

\* The wait for a sprite is for the tile and for the sprite.
LEMMA AwaitSpriteKeeps ==
    ASSUME LineInv, AwaitSprite
    PROVE  LineInv'
<1>1. /\ stage = "top" /\ stage' = "sprite" /\ wait' = BgFetch - fetch_age + SpriteFetch /\ SpriteHere
      /\ UNCHANGED <<scx, wx, window_enable, bg_enable, sprites, bg_count, fetch_age, in_window, phase, x,
                     window_x, sprite_x, current, clock, subtile>>
    BY DEF AwaitSprite, At, registers, latched, fifo, fetcher, place
<1>2. LatchedOK' /\ PlaceOK'
    BY <1>1 DEF LineInv, LatchedOK, PlaceOK
<1>3. NumbersOK'
    BY <1>1 DEF LineInv, LatchedOK, NumbersOK, BgFetch, SpriteFetch
<1>4. (Fresh /\ EmptyTurn)'
    BY <1>1 DEF Fresh, EmptyTurn
<1>5. Waits'
    BY <1>1 DEF Waits, SpriteHere
<1>6. Progress'
    BY <1>1 DEF LineInv, Progress
<1>7. NotTooLate'
    BY <1>1 DEF LineInv, NotTooLate, Account, Owed
<1>8. NotTooEarly'
    BY <1>1 DEF LineInv, NotTooEarly
<1> QED
    BY <1>2, <1>3, <1>4, <1>5, <1>6, <1>7, <1>8 DEF LineInv

\* A sprite pays for itself and for the fetch that it delays or starts anew.
LEMMA FetchSpriteKeeps ==
    ASSUME LineInv, FetchSprite
    PROVE  LineInv'
<1>1. /\ stage = "sprite" /\ stage' = "top" /\ wait' = 0 /\ clock' = clock + wait /\ current' = current + 1
      /\ fetch_age' = (IF phase = "draw" THEN 0 ELSE Age)
      /\ UNCHANGED <<scx, wx, window_enable, bg_enable, sprites, bg_count, in_window, phase, x,
                     window_x, sprite_x, subtile>>
    BY DEF FetchSprite, TimePasses, At, registers, latched
<1>2. current <= Len(sprites) /\ wait = BgFetch - fetch_age + SpriteFetch
    BY <1>1 DEF LineInv, Waits, SpriteHere
<1>3. Age = BgFetch
    BY <1>2 DEF LineInv, NumbersOK, Age, Least, BgFetch, SpriteFetch
<1>4. LatchedOK' /\ PlaceOK'
    BY <1>1 DEF LineInv, LatchedOK, PlaceOK
<1>5. NumbersOK'
    BY <1>1, <1>2, <1>3 DEF LineInv, LatchedOK, NumbersOK, BgFetch, SpriteFetch
<1>6. (Fresh /\ EmptyTurn /\ Waits)'
    BY <1>1 DEF Fresh, EmptyTurn, Waits
<1>7. Progress'
    BY <1>1 DEF LineInv, Progress
<1>8. NotTooLate'
    <2>1. clock + Owed <= Account
        BY <1>1 DEF LineInv, NotTooLate
    <2>2. Account' = Account + 11
        <3>1. NumbersOK /\ sprite_x' = sprite_x /\ subtile' = subtile /\ in_window' = in_window
            BY <1>1 DEF LineInv
        <3> QED
            BY <1>1, <1>5, <3>1, Amounts, NextAmounts DEF NumbersOK
    <2>3. wait + Owed' <= 11 + Owed
        BY <1>1, <1>2, <1>3 DEF LineInv, NumbersOK, Owed, BgFetch, SpriteFetch
    <2>4. Owed \in Nat /\ Owed' \in Nat /\ Account \in Int
        BY <1>5, Amounts, NextAmounts DEF LineInv
    <2>5. clock \in Nat /\ wait \in Nat
        BY DEF LineInv, NumbersOK
    <2>6. clock' + Owed' <= Account'
        <3>1. (clock + wait) + Owed' <= Account + 11
            <4>1. /\ clock \in Int /\ wait \in Int /\ Owed \in Int /\ Owed' \in Int
                  /\ Account \in Int
                BY <2>4, <2>5
            <4> QED
                BY <2>1, <2>3, <4>1, Sums, Zenon
        <3> QED
            BY <1>1, <2>2, <3>1, Zenon
    <2> QED
        BY <1>1, <2>6 DEF NotTooLate
<1>9. NotTooEarly'
    BY <1>1, <1>5 DEF LineInv, NumbersOK, NotTooEarly, BgFetch
<1> QED
    BY <1>4, <1>5, <1>6, <1>7, <1>8, <1>9 DEF LineInv

\* Pixels reach no further than the FIFO and the loop.
LEMMA AwaitPixelsKeeps ==
    ASSUME LineInv, AwaitPixels
    PROVE  LineInv'
<1>1. /\ stage = "top" /\ stage' = "pixels" /\ wait' = Complete
      /\ UNCHANGED <<scx, wx, window_enable, bg_enable, sprites, bg_count, fetch_age, in_window, phase, x,
                     window_x, sprite_x, current, clock, subtile>>
    BY DEF AwaitPixels, At, registers, latched, fifo, fetcher, place
<1>2. /\ Complete \in Nat /\ Complete <= bg_count /\ Complete <= Room
      /\ phase = "first" /\ Complete = 0 => DistanceToWindow = 0
    BY CompleteBounds DEF LineInv, AwaitPixels
<1> HIDE DEF Complete
<1>3. phase = "first" /\ wait' = 0 => window_enable /\ ~ in_window /\ window_x = wx
    <2>1. DistanceToWindow = 0 => window_enable /\ ~ in_window /\ (wx - window_x) % 256 = 0
        BY DEF DistanceToWindow
    <2>2. (wx - window_x) % 256 = 0 => wx = window_x
        BY ByteDifference DEF LineInv, NumbersOK
    <2> QED
        BY <1>1, <1>2, <2>1, <2>2
<1>4. LatchedOK' /\ PlaceOK'
    BY <1>1 DEF LineInv, LatchedOK, PlaceOK
<1>5. NumbersOK'
    BY <1>1, <1>2 DEF LineInv, LatchedOK, NumbersOK
<1>6. Fresh' /\ EmptyTurn'
    BY <1>1, <1>3 DEF Fresh, EmptyTurn
<1>7. Waits'
    <2>1. phase = "first" => Complete <= 1
        BY <1>2 DEF Room
    <2>2. phase = "discard" => x + Complete <= 8
        BY <1>2 DEF Room, LineInv, NumbersOK
    <2>3. phase = "draw" => x + Complete <= WIDTH
        <3>1. phase = "draw" => Complete <= WIDTH - x
            BY <1>2 DEF Room
        <3>2. x \in Nat /\ WIDTH \in Nat
            BY Sizes DEF LineInv, NumbersOK
        <3> QED
            BY <1>2, <3>1, <3>2
    <2> QED
        BY <1>1, <1>2, <2>1, <2>2, <2>3 DEF Waits
<1>8. Progress'
    BY <1>1 DEF LineInv, Progress
<1>9. NotTooLate'
    BY <1>1 DEF LineInv, NotTooLate, Account, Owed
<1>10. NotTooEarly'
    BY <1>1 DEF LineInv, NotTooEarly
<1> QED
    BY <1>4, <1>5, <1>6, <1>7, <1>8, <1>9, <1>10 DEF LineInv

-----------------------------------------------------------------------------
(* The end of a turn                                                       *)

\* What the end of a turn relies on, whichever way a turn has taken to position
TurnNumbers ==
    /\ UNCHANGED <<scx, wx, window_enable, bg_enable, sprites, current>>
    /\ bg_count' \in Nat /\ bg_count' <= 8 /\ fetch_age' \in Nat /\ fetch_age' <= BgFetch
    /\ in_window' \in BOOLEAN /\ window_x' \in Nat /\ window_x' <= 255
    /\ sprite_x' \in Nat /\ clock' \in Nat

TurnPlace(position) ==
    /\ phase = "first" => /\ position = 0 /\ x = 0 /\ subtile = 0
                          /\ sprite_x' <= 1 /\ 7 <= bg_count' /\ 6 <= clock'
    /\ phase = "discard" => /\ 1 <= position /\ position <= 8 /\ sprite_x' <= position
                            /\ 5 + subtile + position <= clock'
    /\ phase = "draw" => /\ position <= WIDTH /\ sprite_x' <= position + 8
                         /\ 13 + subtile + position <= clock'

TurnAccount == clock' + Owed' + subtile' <= Account' + subtile

\* Then it keeps the account.
LEMMA EndTurnKeeps ==
    ASSUME LineInv, NEW position \in Nat, EndTurn(position), TurnNumbers, TurnPlace(position), TurnAccount
    PROVE  LineInv'
<1>0. LatchedOK /\ NumbersOK /\ PlaceOK
    BY DEF LineInv
<1>1. scx % 8 \in Nat /\ scx % 8 <= 7 /\ subtile \in Nat /\ subtile <= 7 /\ x \in Nat
    BY <1>0 DEF NumbersOK
<1>2. \/ /\ phase = "first" /\ phase' = "first" /\ stage' = "scroll"
         /\ wait' = scx % 8 /\ subtile' = scx % 8 /\ x' = x
      \/ /\ phase = "discard" /\ phase' = "discard" /\ stage' = "top" /\ position < 8
         /\ wait' = 0 /\ subtile' = subtile /\ x' = position
      \/ /\ phase = "discard" /\ phase' = "draw" /\ stage' = "top" /\ 8 <= position
         /\ wait' = 0 /\ subtile' = subtile /\ x' = 0
      \/ /\ phase = "draw" /\ phase' = "draw" /\ stage' = "top"
         /\ wait' = 0 /\ subtile' = subtile /\ x' = position
      \/ /\ phase = "draw" /\ phase' = "draw" /\ stage' = "end" /\ WIDTH <= position
         /\ wait' = 0 /\ subtile' = subtile /\ x' = position
    BY Sizes DEF EndTurn, At
<1>3. LatchedOK'
    BY <1>0 DEF LatchedOK, TurnNumbers
<1>4. PlaceOK' /\ Fresh' /\ EmptyTurn'
    BY <1>2 DEF PlaceOK, Fresh, EmptyTurn
<1>5. NumbersOK'
    <2>1. x' \in Nat /\ wait' \in Nat /\ subtile' \in Nat /\ subtile' <= 7
        BY <1>1, <1>2
    <2> QED
        BY <1>0, <2>1 DEF NumbersOK, TurnNumbers
<1>6. /\ clock' \in Nat /\ wait' \in Nat /\ subtile' \in Nat /\ sprite_x' \in Nat /\ x' \in Nat
      /\ Owed' \in Nat /\ Account' \in Int
    BY <1>5, NextAmounts DEF NumbersOK
<1>7. CASE phase = "first"
    <2>1. phase' = "first" /\ stage' = "scroll" /\ wait' = subtile' /\ x' = 0
        BY <1>2, <1>7 DEF TurnPlace
    <2>2. subtile = 0 /\ sprite_x' <= 1 /\ 7 <= bg_count' /\ 6 <= clock'
        BY <1>7 DEF TurnPlace
    <2>3. Waits' /\ Progress'
        BY <2>1, <2>2 DEF Waits, Progress
    <2>4. clock' + wait' + Owed' <= Account'
        <3>1. clock' + Owed' + subtile' <= Account' + 0
            BY <2>2, Zenon DEF TurnAccount
        <3>2. clock' \in Int /\ Owed' \in Int /\ subtile' \in Int /\ Account' \in Int
            BY <1>6
        <3>3. clock' + subtile' + Owed' <= Account'
            BY <3>1, <3>2, Sums, Zenon
        <3> QED
            BY <2>1, <3>3, Zenon
    <2>5. NotTooLate'
        BY <2>1, <2>4 DEF NotTooLate
    <2>6. NotTooEarly'
        <3>1. clock' + 0 >= 5 + 1
            BY <1>6, <2>2, Sums, Zenon
        <3> QED
            BY <2>1, <3>1, Zenon DEF NotTooEarly, BgFetch
    <2> QED
        BY <1>3, <1>4, <1>5, <2>3, <2>5, <2>6 DEF LineInv
<1>8. CASE phase # "first"
    <2>1. stage' \in {"top", "end"} /\ wait' = 0 /\ subtile' = subtile /\ phase' \in {"discard", "draw"}
        BY <1>0, <1>2, <1>8 DEF PlaceOK
    <2>2. Waits'
        BY <2>1 DEF Waits
    <2>3. clock' + Owed' <= Account'
        <3>1. clock' + Owed' + subtile <= Account' + subtile
            BY <2>1, Zenon DEF TurnAccount
        <3>2. clock' \in Int /\ Owed' \in Int /\ subtile \in Int /\ Account' \in Int
            BY <1>1, <1>6
        <3> QED
            BY <3>1, <3>2, Sums, Zenon
    <2>4. NotTooLate'
        BY <2>1, <2>3 DEF NotTooLate
    <2>5. phase' = "discard" => /\ stage' # "end" /\ 1 <= x' /\ x' <= 8 /\ sprite_x' <= x'
                                /\ 5 + subtile' + x' <= clock'
        BY <1>2, <1>8 DEF TurnPlace
    <2>6. phase' = "draw" => /\ x' <= WIDTH /\ sprite_x' <= x' + 8 /\ 13 + subtile' + x' <= clock'
                             /\ stage' = "end" => x' = WIDTH
        <3>1. CASE phase = "discard" /\ phase' = "draw"
            <4>1. /\ x' = 0 /\ stage' = "top" /\ position = 8 /\ sprite_x' <= position
                  /\ 5 + subtile + position <= clock' /\ subtile' = subtile
                BY <1>2, <3>1 DEF TurnPlace
            <4> QED
                BY <1>1, <1>6, <4>1, Sizes
        <3>2. CASE phase = "draw"
            <4>1. /\ x' = position /\ position <= WIDTH /\ sprite_x' <= position + 8
                  /\ 13 + subtile + position <= clock' /\ subtile' = subtile
                  /\ stage' = "end" => WIDTH <= position
                BY <1>2, <3>2 DEF TurnPlace
            <4> QED
                BY <1>6, <4>1, Sizes
        <3> QED
            BY <1>0, <1>8, <3>1, <3>2 DEF PlaceOK
    <2>7. Progress'
        BY <2>1, <2>5, <2>6 DEF Progress
    <2>8. NotTooEarly'
        <3>1. phase' = "draw" => clock' >= 5 + 8 + subtile' + x'
            BY <1>6, <2>6, Sums, Zenon
        <3>2. phase' = "discard" => clock' >= 5 + subtile' + x'
            BY <2>5
        <3>3. phase' # "first"
            BY <2>1
        <3> QED
            BY <3>1, <3>2, <3>3, Zenon DEF NotTooEarly, BgFetch
    <2> QED
        BY <1>3, <1>4, <1>5, <2>2, <2>4, <2>7, <2>8 DEF LineInv
<1> QED
    BY <1>7, <1>8

\* A pixel takes a cycle, and the fetch goes on meanwhile.
LEMMA ShiftPixelsKeeps ==
    ASSUME LineInv, ShiftPixels
    PROVE  LineInv'
<1>0. LatchedOK /\ NumbersOK /\ PlaceOK /\ Progress /\ Waits
    BY DEF LineInv
<1>1. /\ stage = "pixels" /\ clock' = clock + wait /\ bg_count' = bg_count - wait
      /\ window_x' = (window_x + wait) % 256 /\ sprite_x' = sprite_x + wait /\ fetch_age' = Age
      /\ UNCHANGED <<scx, wx, window_enable, bg_enable, sprites, current>>
    BY DEF ShiftPixels, TimePasses, Shift, registers, latched
<1>2. wait \in Nat /\ wait <= bg_count /\ bg_count \in Nat /\ bg_count <= 8
    BY <1>0, <1>1 DEF NumbersOK, Waits
<1>3. Age \in Nat /\ Age <= 5 /\ (Age = fetch_age + wait \/ Age = 5)
    BY <1>0, <1>2 DEF NumbersOK, Age, Least, BgFetch
<1>4. /\ bg_count' \in Nat /\ bg_count' <= 8 /\ fetch_age' \in Nat /\ fetch_age' <= 5
      /\ window_x' \in Nat /\ window_x' <= 255 /\ sprite_x' \in Nat /\ clock' \in Nat
    <2>1. window_x' \in Nat /\ window_x' <= 255
        BY <1>0, <1>1, <1>2, ByteDifference DEF NumbersOK
    <2> QED
        BY <1>0, <1>1, <1>2, <1>3, <2>1 DEF NumbersOK
<1>5. Owed' \in Nat /\ Owed \in Nat /\ Owed' <= Owed
    BY <1>0, <1>1, <1>2, <1>3 DEF NumbersOK, Owed, BgFetch
<1>6. clock + Owed <= Account /\ Account \in Int /\ clock \in Nat
    BY <1>0, <1>1, Amounts DEF LineInv, NotTooLate, NumbersOK
<1>7. /\ x + Advance \in Nat
      /\ phase = "first" => /\ x + Advance = 0 /\ x = 0 /\ subtile = 0 /\ wait <= 1
                            /\ sprite_x' <= 1 /\ 7 <= bg_count' /\ BgFetch <= clock
      /\ phase = "discard" => /\ 1 <= x + Advance /\ x + Advance <= 8 /\ sprite_x' <= x + Advance
                              /\ BgFetch + subtile + (x + Advance) <= clock'
      /\ phase = "draw" => /\ x + Advance <= WIDTH /\ sprite_x' <= x + Advance + 8
                           /\ BgFetch + 8 + subtile + (x + Advance) <= clock'
    <2>1. Advance = IF phase = "first" THEN 0 ELSE wait
        BY DEF Advance
    <2> HIDE DEF Advance
    <2>2. CASE phase = "first"
        BY <1>0, <1>1, <1>2, <2>1, <2>2 DEF LineInv, NumbersOK, Progress, Waits, NotTooEarly
    <2>3. CASE phase = "discard"
        BY <1>0, <1>1, <1>2, <2>1, <2>3 DEF LineInv, NumbersOK, Progress, Waits, NotTooEarly, BgFetch
    <2>4. CASE phase = "draw"
        BY <1>0, <1>1, <1>2, <2>1, <2>4, Sizes DEF LineInv, NumbersOK, Progress, Waits, NotTooEarly, BgFetch
    <2> QED
        BY <1>0, <2>2, <2>3, <2>4 DEF PlaceOK
<1> HIDE DEF Advance, Age
<1>8. ~ WindowBegins => (phase = "first" => wait = 1)
    <2>1. phase = "first" /\ wait = 0 => window_enable /\ ~ in_window /\ window_x = wx
        BY <1>1 DEF LineInv, EmptyTurn
    <2>2. wait = 0 => (window_x + wait) % 256 = window_x
        BY <1>0 DEF NumbersOK
    <2>3. phase = "first" /\ wait = 0 => WindowBegins
        BY <2>1, <2>2 DEF WindowBegins
    <2> QED
        BY <1>2, <1>7, <2>3
<1>9. CASE WindowBegins
    <2>1. /\ in_window' = TRUE /\ in_window = FALSE /\ stage' = "window" /\ wait' = 6
          /\ x' = x + Advance /\ phase' = phase /\ subtile' = subtile
        BY <1>0, <1>9 DEF ShiftPixels, WindowBegins, At, WindowSwitch, LatchedOK
    <2>2. LatchedOK' /\ PlaceOK'
        BY <1>0, <1>1, <2>1 DEF LatchedOK, PlaceOK
    <2>3. NumbersOK'
        BY <1>0, <1>1, <1>4, <1>7, <2>1 DEF NumbersOK, BgFetch
    <2>4. (Fresh /\ EmptyTurn /\ Waits)'
        BY <2>1 DEF Fresh, EmptyTurn, Waits
    <2>5. Progress'
        BY <1>7, <2>1, <2>3, Sizes DEF Progress, NumbersOK
    <2>6. NotTooLate'
        <3>1. Account' = Account + wait + 6
            <4>1. current' = current /\ current \in Nat /\ sprite_x \in Nat /\ subtile \in Nat
                BY <1>0, <1>1 DEF NumbersOK
            <4> QED
                BY <1>0, <1>1, <1>2, <2>1, <2>3, <4>1, Amounts, NextAmounts
        <3>2. clock' + wait' <= Account'
            BY <1>1, <1>2, <1>5, <1>6, <2>1, <3>1
        <3> QED
            BY <2>1, <3>2 DEF NotTooLate
    <2>7. NotTooEarly'
        <3>1. clock <= clock' /\ x' = x + Advance /\ clock' \in Nat
            BY <1>1, <1>2, <1>4, <1>6, <2>1
        <3>2. clock' + wait' >= 5 + 1
            BY <2>1, <3>1, Sums, Zenon
        <3>3. phase' = "discard" => clock' >= BgFetch + subtile' + x'
            BY <1>7, <2>1
        <3>4. phase' = "draw" => clock' >= BgFetch + 8 + subtile' + x'
            BY <1>7, <2>1
        <3>5. stage' = "window"
            BY <2>1
        <3> QED
            BY <3>2, <3>3, <3>4, <3>5, Zenon DEF NotTooEarly, BgFetch
    <2> QED
        BY <2>2, <2>3, <2>4, <2>5, <2>6, <2>7 DEF LineInv
<1>10. CASE ~ WindowBegins
    <2>0. in_window' = in_window /\ in_window' \in BOOLEAN
        BY <1>0, <1>10 DEF ShiftPixels, LatchedOK
    <2>2. phase = "first" => BgFetch + 1 <= clock'
        BY <1>0, <1>1, <1>7, <1>8, <1>10 DEF NumbersOK, BgFetch
    <2>3. CASE bg_count = wait
        <3>1. /\ stage' = "refill" /\ wait' = RefillWait
              /\ x' = x + Advance /\ phase' = phase /\ subtile' = subtile
            BY <1>10, <2>3 DEF ShiftPixels, At
        <3>2. phase # "first"
            BY <1>1, <1>2, <1>7, <2>3
        <3>3. Owed' = 5 - Age
            BY <1>1, <1>2, <1>3, <2>3 DEF Owed, BgFetch
        <3>4. RefillWait \in Nat /\ RefillWait <= 5 - Age
            BY <1>3 DEF RefillWait, BgFetch
        <3> HIDE DEF RefillWait
        <3>5. LatchedOK' /\ PlaceOK'
            BY <1>0, <1>1, <2>0, <3>1 DEF LatchedOK, PlaceOK
        <3>6. NumbersOK'
            BY <1>0, <1>1, <1>4, <1>7, <3>1, <3>4 DEF NumbersOK, BgFetch
        <3>7. (Fresh /\ EmptyTurn /\ Waits)'
            BY <3>1 DEF Fresh, EmptyTurn, Waits
        <3>8. Progress'
            BY <1>7, <3>1, <3>2, <3>6, Sizes DEF Progress, NumbersOK
        <3>9. NotTooLate'
            <4>1. Account' = Account + wait
                BY <1>0, <1>1, <2>0, <3>1, <3>6, Amounts, NextAmounts DEF NumbersOK
            <4>2. clock' + wait' <= Account'
                BY <1>1, <1>2, <1>3, <1>5, <1>6, <3>1, <3>3, <3>4, <4>1
            <4> QED
                BY <3>1, <4>2 DEF NotTooLate
        <3>10. NotTooEarly'
            BY <1>7, <3>1, <3>2, <3>6 DEF NotTooEarly, NumbersOK, BgFetch
        <3> QED
            BY <3>5, <3>6, <3>7, <3>8, <3>9, <3>10 DEF LineInv
    <2>4. CASE bg_count # wait
        <3>1. EndTurn(x + Advance)
            BY <1>10, <2>4 DEF ShiftPixels
        <3>2. subtile' \in Nat
            <4>1. subtile' = subtile \/ subtile' = scx % 8
                BY <3>1 DEF EndTurn
            <4> QED
                BY <1>0, <4>1 DEF NumbersOK
        <3>3. x + Advance \in Nat
            BY <1>7
        <3>4. TurnNumbers
            BY <1>1, <1>4, <2>0 DEF TurnNumbers, BgFetch
        <3>5. TurnPlace(x + Advance)
            BY <1>7, <2>2 DEF TurnPlace, BgFetch
        <3>6. TurnAccount
            <4>1. Account' + subtile = Account + wait + subtile'
                BY <1>0, <1>1, <1>2, <2>0, <3>2, AccountShifts DEF NumbersOK
            <4> QED
                BY <1>0, <1>1, <1>2, <1>5, <1>6, <3>2, <4>1 DEF TurnAccount, NumbersOK
        <3> QED
            BY <3>1, <3>3, <3>4, <3>5, <3>6, EndTurnKeeps
    <2> QED
        BY <2>3, <2>4
<1> QED
    BY <1>9, <1>10

\* After a tile was fetched nothing is owed, and the turn ends where it was.
LEMMA TurnAfterFetch ==
    ASSUME LineInv, stage \in {"window", "refill"}, EndTurn(x), clock' = clock + wait, bg_count' = 8,
           fetch_age' \in Nat, fetch_age' <= 5,
           UNCHANGED <<scx, wx, window_enable, bg_enable, sprites, in_window, window_x, sprite_x, current>>
    PROVE  LineInv'
<1>0. LatchedOK /\ NumbersOK /\ PlaceOK /\ Progress
    BY DEF LineInv
<1>1. clock + wait <= Account /\ Account \in Int
    BY <1>0, Amounts DEF LineInv, NotTooLate
<1>2. Owed' = 0
    <2>1. ~ (fetch_age' + 8 < 5)
        BY Sums, Zenon
    <2> QED
        BY <2>1, Zenon DEF Owed, BgFetch
<1>3. subtile' \in Nat
    <2>1. subtile' = subtile \/ subtile' = scx % 8
        BY DEF EndTurn
    <2> QED
        BY <1>0, <2>1 DEF NumbersOK
<1>4. TurnNumbers
    BY <1>0 DEF LatchedOK, NumbersOK, TurnNumbers, BgFetch
<1>5. x \in Nat /\ clock \in Nat /\ wait \in Nat /\ subtile \in Nat
    BY <1>0 DEF NumbersOK
<1>6. TurnPlace(x)
    <2>1. CASE phase = "first"
        <3>1. x = 0 /\ subtile = 0 /\ sprite_x <= 1
            BY <1>0, <2>1 DEF Progress
        <3>2. (stage = "window" /\ 6 <= clock + wait) \/ (stage = "refill" /\ 6 <= clock)
            <4>1. clock + (IF stage = "window" THEN wait ELSE 0) >= 5 + 1
                BY <2>1, Zenon DEF LineInv, NotTooEarly, BgFetch
            <4>2. stage = "window" => clock + wait >= 5 + 1
                BY <4>1, Zenon
            <4>3. stage = "refill" => clock + 0 >= 5 + 1
                BY <4>1, Zenon
            <4>4. (clock + wait >= 5 + 1 => 6 <= clock + wait) /\ (clock + 0 >= 5 + 1 => 6 <= clock)
                BY <1>5
            <4>5. stage = "window" \/ stage = "refill"
                OBVIOUS
            <4> QED
                BY <4>2, <4>3, <4>4, <4>5
        <3>3. 6 <= clock'
            <4>1. 6 <= clock + wait
                BY <1>5, <3>2, Sums, Zenon
            <4> QED
                BY <4>1, Zenon
        <3> QED
            BY <2>1, <3>1, <3>3 DEF TurnPlace
    <2>2. CASE phase = "discard"
        <3>1. 1 <= x /\ x <= 8 /\ sprite_x <= x
            BY <1>0, <2>2 DEF Progress
        <3>2. 5 + subtile + x <= clock
            BY <2>2 DEF LineInv, NotTooEarly, BgFetch
        <3>3. 5 + subtile + x <= clock'
            BY <1>5, <3>2
        <3> QED
            BY <2>2, <3>1, <3>3 DEF TurnPlace
    <2>3. CASE phase = "draw"
        <3>1. x <= WIDTH /\ sprite_x <= x + 8
            BY <1>0, <2>3 DEF Progress
        <3>2. 13 + subtile + x <= clock
            BY <1>5, <2>3 DEF LineInv, NotTooEarly, BgFetch
        <3>3. 13 + subtile + x <= clock'
            BY <1>5, <3>2
        <3> QED
            BY <2>3, <3>1, <3>3 DEF TurnPlace
    <2> QED
        BY <1>0, <2>1, <2>2, <2>3 DEF PlaceOK
<1>7. TurnAccount
    <2>1. Account' + subtile = Account + 0 + subtile'
        BY <1>0, <1>3, AccountShifts DEF NumbersOK
    <2> QED
        BY <1>1, <1>2, <1>3, <1>5, <2>1 DEF TurnAccount
<1> QED
    BY <1>4, <1>5, <1>6, <1>7, EndTurnKeeps

\* The window takes six cycles, once.
LEMMA SwitchToWindowKeeps ==
    ASSUME LineInv, SwitchToWindow
    PROVE  LineInv'
<1>1. /\ stage = "window" /\ clock' = clock + wait /\ bg_count' = 8 /\ fetch_age' = 0 /\ EndTurn(x)
      /\ UNCHANGED <<scx, wx, window_enable, bg_enable, sprites, in_window, window_x, sprite_x, current>>
    BY DEF SwitchToWindow, TimePasses, FetchTile, registers, latched
<1> QED
    BY <1>1, TurnAfterFetch

\* The wait for the next tile is what is still owed for it.
LEMMA RefillKeeps ==
    ASSUME LineInv, Refill
    PROVE  LineInv'
<1>0. LatchedOK /\ NumbersOK /\ PlaceOK /\ Progress
    BY DEF LineInv
<1>1. /\ stage = "refill" /\ clock' = clock + wait /\ bg_count' = 8 /\ EndTurn(x)
      /\ fetch_age' = 0 \/ fetch_age' = Age
      /\ UNCHANGED <<scx, wx, window_enable, bg_enable, sprites, in_window, window_x, sprite_x, current>>
    BY DEF Refill, TimePasses, FetchTile, registers, latched
<1>2. Age \in Nat /\ Age <= 5
    BY <1>0 DEF NumbersOK, Age, Least, BgFetch
<1> HIDE DEF Age
<1> QED
    BY <1>1, <1>2, TurnAfterFetch

\* The pixels of SCX are thrown away once.
LEMMA DiscardScrolledKeeps ==
    ASSUME LineInv, DiscardScrolled
    PROVE  LineInv'
<1>0. LatchedOK /\ NumbersOK /\ PlaceOK
    BY DEF LineInv
<1>1. /\ stage = "scroll" /\ stage' = "top" /\ wait' = 0 /\ clock' = clock + wait
      /\ bg_count' = bg_count - wait /\ fetch_age' = Age /\ phase' = "discard" /\ x' = 1
      /\ UNCHANGED <<scx, wx, window_enable, bg_enable, sprites, in_window, window_x, sprite_x, current, subtile>>
    BY DEF DiscardScrolled, TimePasses, Shift, At, registers, latched
<1>2. /\ phase = "first" /\ wait = subtile /\ 7 <= bg_count /\ sprite_x <= 1
      /\ clock + wait + Owed <= Account /\ BgFetch + 1 <= clock
    <2>1. phase = "first" /\ wait = subtile /\ 7 <= bg_count
        BY <1>1 DEF LineInv, Waits
    <2>2. sprite_x <= 1
        BY <2>1 DEF LineInv, Progress
    <2>3. clock + wait + Owed <= Account
        BY <1>1 DEF LineInv, NotTooLate
    <2>4. BgFetch + 1 <= clock
        BY <1>0, <1>1, <2>1 DEF LineInv, NotTooEarly, NumbersOK, BgFetch
    <2> QED
        BY <2>1, <2>2, <2>3, <2>4
<1>3. /\ clock \in Nat /\ wait \in Nat /\ wait <= 7 /\ bg_count \in Nat /\ bg_count <= 8
      /\ fetch_age \in Nat /\ fetch_age <= 5 /\ subtile \in Nat /\ sprite_x \in Nat
    BY <1>0, <1>2 DEF NumbersOK, BgFetch
<1>4. Age \in Nat /\ Age <= 5 /\ (Age = fetch_age + wait \/ Age = 5)
    BY <1>3 DEF Age, Least, BgFetch
<1> HIDE DEF Age
<1>5. LatchedOK' /\ PlaceOK'
    BY <1>0, <1>1 DEF LatchedOK, PlaceOK
<1>6. NumbersOK'
    BY <1>0, <1>1, <1>2, <1>3, <1>4 DEF NumbersOK, BgFetch
<1>7. (Fresh /\ EmptyTurn /\ Waits)'
    BY <1>1 DEF Fresh, EmptyTurn, Waits
<1>8. Progress'
    BY <1>1, <1>2 DEF Progress
<1>9. NotTooLate'
    <2>1. Owed' \in Nat /\ Owed \in Nat /\ Owed' <= Owed
        BY <1>1, <1>2, <1>3, <1>4 DEF Owed, BgFetch
    <2>2. Account' = Account /\ Account \in Int
        BY <1>0, <1>1, Amounts DEF Account
    <2>3. clock' + Owed' <= Account'
        <3>1. clock \in Int /\ wait \in Int /\ Owed \in Int /\ Owed' \in Int /\ Account \in Int
            BY <1>3, <2>1, <2>2
        <3>2. (clock + wait) + Owed' <= Account
            BY <1>2, <2>1, <3>1, Sums, Zenon
        <3> QED
            BY <1>1, <2>2, <3>2, Zenon
    <2> QED
        BY <1>1, <2>3 DEF NotTooLate
<1>10. NotTooEarly'
    BY <1>1, <1>2, <1>3 DEF NotTooEarly, BgFetch
<1> QED
    BY <1>5, <1>6, <1>7, <1>8, <1>9, <1>10 DEF LineInv

-----------------------------------------------------------------------------
(* All steps                                                               *)

\* Whatever the CPU writes, and whenever, it does not reach the account.
LEMMA WritesKeep ==
    ASSUME LineInv,
           \/ WriteBetween
           \/ \E value \in ScxValues : WriteScx(value)
           \/ \E value \in WxValues : WriteWx(value)
    PROVE  LineInv'
<1>1. scx' \in Nat /\ scx' <= 255 /\ wx' \in Nat /\ wx' <= 255
    BY Bytes DEF WriteBetween, WriteScx, WriteWx, LineInv, NumbersOK
<1>2. /\ UNCHANGED <<latched, fifo, fetcher, place, stage, wait, clock, subtile>>
      /\ wait > 0 \/ stage = "idle"
    BY DEF WriteBetween, WriteScx, WriteWx, Suspended, control
<1>3. UNCHANGED <<window_enable, bg_enable, sprites, bg_count, fetch_age, in_window, phase, x, window_x,
                  sprite_x, current, stage, wait, clock, subtile>>
    BY <1>2 DEF latched, fifo, fetcher, place
<1>4. LatchedOK' /\ PlaceOK'
    BY <1>3 DEF LineInv, LatchedOK, PlaceOK
<1>5. NumbersOK'
    BY <1>1, <1>3 DEF LineInv, NumbersOK
<1>6. Fresh' /\ Progress'
    BY <1>3 DEF LineInv, Fresh, Progress
<1>7. Waits' /\ EmptyTurn'
    BY <1>2, <1>3 DEF LineInv, NumbersOK, Waits, SpriteHere, EmptyTurn
<1>8. NotTooLate' /\ NotTooEarly'
    BY <1>3 DEF LineInv, NotTooLate, NotTooEarly, Account, Owed
<1> QED
    BY <1>4, <1>5, <1>6, <1>7, <1>8 DEF LineInv

\* Every step of the PPU and of the CPU keeps the account.
LEMMA NextLine == LineInv /\ [LineNext]_pixelVars => LineInv'
<1> SUFFICES ASSUME LineInv, [LineNext]_pixelVars PROVE LineInv'
    OBVIOUS
<1>1. CASE EndLine \/ TurnOff
    BY <1>1, NoLineKeeps DEF EndLine, TurnOff
<1>2. CASE UNCHANGED pixelVars
    <2>1. UNCHANGED <<scx, wx, window_enable, bg_enable, sprites, bg_count, fetch_age, in_window, phase, x,
                      window_x, sprite_x, current, stage, wait, clock, subtile>>
        BY <1>2 DEF pixelVars, registers, latched, fifo, fetcher, place, control
    <2> QED
        BY <2>1 DEF LineInv, LatchedOK, NumbersOK, PlaceOK, Fresh, Progress, Waits, SpriteHere, EmptyTurn,
                    NotTooLate, NotTooEarly, Account, Owed
<1> QED
    BY <1>1, <1>2, StartLineKeeps, FirstTileKeeps, AwaitSpriteKeeps, FetchSpriteKeeps, AwaitPixelsKeeps,
       ShiftPixelsKeeps, SwitchToWindowKeeps, RefillKeeps, DiscardScrolledKeeps, WritesKeep DEF LineNext, Draw

-----------------------------------------------------------------------------
(* The theorems                                                            *)

\* The account of the cycles of a line is never overdrawn (gb_ppu.cpp:190-497).
THEOREM LineInvariant == PixelSpec => []LineInv
BY InitLine, NextLine, PTL DEF PixelSpec

\* A line never reads the FIFO when it is empty, and is neither too short nor
\* too long, whatever is written to SCX and WX meanwhile, for every width,
\* number of sprites and contents of OAM (gb_ppu.cpp:72, 96, 491, 497).
THEOREM LineStaysInBounds == PixelSpec => []LineKeepsBounds
<1>1. LineInv => AssertsHold
    <2> SUFFICES ASSUME LineInv PROVE AssertsHold
        OBVIOUS
    <2>1. stage \in {"pixels", "scroll"} => wait <= bg_count
        BY DEF LineInv, NumbersOK, Waits
    <2>2. stage = "end" => phase = "draw" /\ x = WIDTH
        BY DEF LineInv, PlaceOK, Progress
    <2>3. phase = "draw" => clock >= 13 + subtile + x
        BY DEF LineInv, NumbersOK, NotTooEarly, BgFetch
    <2>4. stage = "end" => clock >= WIDTH + 13 + subtile
        BY <2>2, <2>3, Sizes DEF LineInv, NumbersOK
    <2> QED
        BY <2>1, <2>4 DEF AssertsHold
<1>2. LineInv => LineFits
    <2> SUFFICES ASSUME LineInv PROVE LineFits
        OBVIOUS
    <2>0. clock \in Nat /\ wait \in Nat /\ Len(sprites) \in Nat /\ WIDTH \in Nat
        BY Sizes DEF LineInv, LatchedOK, NumbersOK
    <2>1. CASE stage \in {"idle", "first_fetch"}
        <3>1. clock = 0
            BY <2>1 DEF LineInv, Fresh
        <3> QED
            BY <2>0, <3>1 DEF LineFits
    <2>2. CASE ~ stage \in {"idle", "first_fetch"}
        <3>1. Owed \in Nat /\ Account \in Int
            BY DEF LineInv, NumbersOK, Owed, Account, BgFetch, SpriteFetch, WindowSwitch
        <3>2. clock + Owed <= Account \/ clock + wait <= Account \/ clock + wait + Owed <= Account
            BY <2>2 DEF LineInv, PlaceOK, NotTooLate
        <3>3. clock <= Account
            BY <2>0, <3>1, <3>2
        <3>4. sprite_x <= WIDTH + 8
            BY Sizes DEF LineInv, NumbersOK, PlaceOK, Progress
        <3>5. Account <= WIDTH + 26 + 11 * Len(sprites)
            BY <2>0, <3>4 DEF LineInv, NumbersOK, Account, BgFetch, SpriteFetch, WindowSwitch
        <3> QED
            BY <2>0, <3>1, <3>3, <3>5 DEF LineFits
    <2> QED
        BY <2>1, <2>2
<1> QED
    BY <1>1, <1>2, LineInvariant, PTL DEF LineKeepsBounds

-----------------------------------------------------------------------------
(* The sprites                                                             *)

\* The sprites are sorted, and fetched where they begin: none is missed.
SpritesFetched ==
    /\ \A k, l \in 1..Len(sprites) : k < l => sprites[k].x <= sprites[l].x
    /\ \A k \in 1..Len(sprites) :
         /\ k < current => sprites[k].x <= sprite_x /\ (phase = "first" => sprites[k].x = 0)
         /\ k >= current => sprites[k].x >= sprite_x
         /\ k >= current /\ stage = "pixels" => sprites[k].x >= sprite_x + wait

\* The sprite in a place of the FIFO is the first of those that were fetched
ShowsFirst(o, p) ==
    /\ o = NoSprite => \A k \in 1..(current - 1) : ~ Covers(k, p)
    /\ o # NoSprite =>
         /\ o \in 1..(current - 1) /\ Covers(o, p)
         /\ \A k \in 1..(o - 1) : ~ Covers(k, p)

\* ... from the first column of the screen on.  What is left of it may be shifted
\* by SCX.
SpritesShown == \A i \in 0..7 : sprite_x + i >= 8 => ShowsFirst(obj[i], sprite_x + i)

SpriteInv == SpritesFetched /\ SpritesShown

\* A sprite covers columns from its x on.
LEMMA Covering ==
    ASSUME LatchedOK, NEW k \in 1..Len(sprites)
    PROVE  /\ sprites[k].x \in Nat /\ sprites[k].x <= 255 /\ sprites[k].opaque \subseteq 0..7
           /\ \A p \in Int : Covers(k, p) => sprites[k].x <= p /\ p <= sprites[k].x + 7
           /\ \A i \in 0..7 : Covers(k, sprites[k].x + i) <=> i \in sprites[k].opaque
<1>1. sprites[k] \in Sprite
    BY DEF LatchedOK
<1>2. sprites[k].x \in Nat /\ sprites[k].x <= 255 /\ sprites[k].opaque \subseteq 0..7
    BY <1>1, Bytes DEF Sprite
<1> DEFINE a == sprites[k].x
           o == sprites[k].opaque
<1>3. \A p : Covers(k, p) <=> \E i \in o : a + i = p
    BY DEF Covers
<1> HIDE DEF a, o
<1>4. a \in Nat /\ o \subseteq 0..7
    BY <1>2 DEF a, o
<1>5. \A p \in Int : Covers(k, p) => a <= p /\ p <= a + 7
    BY <1>3, <1>4
<1>6. \A i \in 0..7 : Covers(k, a + i) <=> i \in o
    BY <1>3, <1>4
<1> QED
    BY <1>2, <1>5, <1>6 DEF a, o

\* Before a line there is none.
LEMMA NoSprites ==
    ASSUME Len(sprites) = 0, sprite_x = 0
    PROVE  SpriteInv
BY DEF SpriteInv, SpritesFetched, SpritesShown

\* Steps that leave the sprites where they are
LEMMA SpritesStay ==
    ASSUME SpriteInv, UNCHANGED <<sprites, current, sprite_x, obj>>,
           phase' = "first" => phase = "first",
           stage' = "pixels" => stage = "pixels" /\ wait' = wait
    PROVE  SpriteInv'
<1>1. SpritesFetched'
    BY DEF SpriteInv, SpritesFetched
<1>2. SpritesShown'
    BY DEF SpriteInv, SpritesShown, ShowsFirst, Covers
<1> QED
    BY <1>1, <1>2 DEF SpriteInv

\* A line gets its sprites sorted by x (gb_ppu.cpp:154-172).
LEMMA StartLineSprites ==
    ASSUME LineInv, StartLine
    PROVE  SpriteInv'
<1>1. /\ current' = 1 /\ sprite_x' = 0 /\ phase' = "first" /\ stage' = "first_fetch"
    BY DEF StartLine, At, place, LineInv, Fresh
<1>2. sprites' \in Seq(Sprite) /\ Len(sprites') \in Nat
    BY SpritesFit
<1>3. \A k \in 1..Len(sprites') : sprites'[k].x \in Nat
    BY <1>2, Bytes
<1>4. \A k, l \in 1..Len(sprites') : k < l => sprites'[k].x <= sprites'[l].x
    <2>1. CASE sprites' = <<>>
        BY <2>1
    <2>2. ASSUME NEW entries \in Oams, NEW order \in Selections(entries),
                 sprites' = [k \in DOMAIN order |-> entries[order[k]]]
          PROVE  \A k, l \in 1..Len(sprites') : k < l => sprites'[k].x <= sprites'[l].x
        <3>1. InOrder(entries, order)
            BY DEF Selections
        <3>2. DOMAIN order = 1..Len(sprites')
            BY <1>2, <2>2
        <3>3. ASSUME NEW k \in 1..Len(sprites'), NEW l \in 1..Len(sprites'), k < l
              PROVE  sprites'[k].x <= sprites'[l].x
            <4>1. sprites'[k] = entries[order[k]] /\ sprites'[l] = entries[order[l]]
                BY <2>2, <3>2
            <4>2. \/ entries[order[k]].x < entries[order[l]].x
                  \/ entries[order[k]].x = entries[order[l]].x
                BY <3>1, <3>2, <3>3 DEF InOrder
            <4>3. sprites'[k].x \in Nat /\ sprites'[l].x \in Nat
                BY <1>3
            <4> QED
                BY <4>1, <4>2, <4>3
        <3> QED
            BY <3>3
    <2> QED
        BY <2>1, <2>2 DEF StartLine
<1>5. SpritesFetched'
    BY <1>1, <1>2, <1>3, <1>4 DEF SpritesFetched
<1>6. SpritesShown'
    BY <1>1 DEF SpritesShown
<1> QED
    BY <1>5, <1>6 DEF SpriteInv

\* The pixels reach neither past the window nor past the next sprite.
LEMMA CompleteReaches ==
    ASSUME LineInv, stage = "top", ~ SpriteHere
    PROVE  /\ Complete \in Nat /\ DistanceToWindow \in Nat /\ DistanceToSprite \in Nat
           /\ Complete <= DistanceToWindow /\ Complete <= DistanceToSprite
<1>0. LatchedOK /\ NumbersOK
    BY DEF LineInv
<1>1. Complete \in Nat
    BY CompleteBounds DEF LineInv
<1>2. DistanceToSprite \in Nat
    <2>1. current <= Len(sprites) => DistanceToSprite = (sprites[current].x - sprite_x) % 256
        BY DEF DistanceToSprite
    <2>2. current <= Len(sprites) => (sprites[current].x - sprite_x) % 256 \in Nat
        BY <1>0, NextSprite DEF NumbersOK
    <2> QED
        BY <2>1, <2>2 DEF DistanceToSprite
<1>3. DistanceToWindow \in Nat
    BY <1>0 DEF DistanceToWindow, NumbersOK
<1>4. Room \in Int /\ bg_count \in Int
    BY <1>0, Sizes DEF Room, NumbersOK, LineInv, PlaceOK
<1> HIDE DEF Room, DistanceToWindow, DistanceToSprite
<1>5. Complete <= DistanceToWindow /\ Complete <= DistanceToSprite
    BY <1>2, <1>3, <1>4 DEF Complete, Least
<1> QED
    BY <1>1, <1>2, <1>3, <1>5

\* The pixels that are waited for end where the next sprite begins.
LEMMA AwaitPixelsSprites ==
    ASSUME LineInv, SpriteInv, AwaitPixels
    PROVE  SpriteInv'
<1>0. LatchedOK /\ NumbersOK
    BY DEF LineInv
<1>1. /\ stage' = "pixels" /\ wait' = Complete
      /\ UNCHANGED <<sprites, current, sprite_x, obj, phase>>
    BY DEF AwaitPixels, At, latched, fifo, place
<1>2. SpritesShown'
    BY <1>1 DEF SpriteInv, SpritesShown, ShowsFirst, Covers
<1>3. Complete \in Nat /\ Complete <= DistanceToSprite /\ DistanceToSprite \in Nat
    BY CompleteReaches DEF AwaitPixels
<1>4. ASSUME NEW k \in 1..Len(sprites), k >= current
      PROVE  sprites[k].x >= sprite_x + Complete
    <2>1. current \in 1..Len(sprites)
        BY <1>0, <1>4 DEF LatchedOK, NumbersOK
    <2> DEFINE a == sprites[current].x
               b == sprites[k].x
    <2>2. a \in Nat /\ a <= 255 /\ b \in Nat /\ sprite_x \in Nat
        BY <1>0, <2>1, Covering DEF NumbersOK
    <2>3. sprite_x <= a /\ a <= b
        BY <1>0, <1>4, <2>1, <2>2 DEF SpriteInv, SpritesFetched, NumbersOK
    <2>4. DistanceToSprite = (a - sprite_x) % 256
        BY <2>1 DEF DistanceToSprite
    <2> HIDE DEF a, b
    <2>5. (a - sprite_x) % 256 = a - sprite_x
        BY <2>2, <2>3
    <2>6. b >= sprite_x + Complete
        BY <1>3, <2>2, <2>3, <2>4, <2>5
    <2> QED
        BY <2>6 DEF b
<1>5. SpritesFetched'
    BY <1>1, <1>4 DEF SpriteInv, SpritesFetched
<1> QED
    BY <1>2, <1>5 DEF SpriteInv

\* A sprite is fetched in the column where it begins, and goes behind those
\* that are there (gb_ppu.cpp:69-90).
LEMMA FetchSpriteSprites ==
    ASSUME LineInv, SpriteInv, FetchSprite
    PROVE  SpriteInv'
<1>0. LatchedOK /\ NumbersOK
    BY DEF LineInv
<1>1. /\ stage' = "top" /\ current' = current + 1
      /\ UNCHANGED <<sprites, sprite_x, phase>>
      /\ obj' = [i \in 0..7 |->
                   IF obj[i] = NoSprite /\ i \in sprites[current].opaque THEN current ELSE obj[i]]
    BY DEF FetchSprite, ApplySprite, At, latched
<1>2. current \in 1..Len(sprites) /\ sprites[current].x = sprite_x /\ (phase = "first" => sprite_x = 0)
    <2>1. SpriteHere /\ (phase = "first" => sprite_x = 0)
        BY DEF FetchSprite, LineInv, Waits, Progress
    <2> QED
        BY <1>0, <2>1 DEF SpriteHere, LatchedOK, NumbersOK
<1>3. SpritesFetched'
    <2>1. \A k \in 1..Len(sprites) : sprites[k].x \in Nat
        BY <1>0, Covering
    <2>2. current \in Nat /\ Len(sprites) \in Nat /\ sprite_x \in Nat
        BY <1>0 DEF LatchedOK, NumbersOK
    <2>3. ASSUME NEW k \in 1..Len(sprites)
          PROVE  /\ k < current + 1 => sprites[k].x <= sprite_x /\ (phase = "first" => sprites[k].x = 0)
                 /\ k >= current + 1 => sprites[k].x >= sprite_x
        <3>1. k < current \/ k = current \/ k >= current + 1
            BY <2>2
        <3> QED
            BY <1>2, <2>1, <2>2, <3>1 DEF SpriteInv, SpritesFetched
    <2> QED
        BY <1>1, <2>3 DEF SpriteInv, SpritesFetched
<1>4. ASSUME NEW i \in 0..7, sprite_x + i >= 8
      PROVE  ShowsFirst(obj[i], sprite_x + i)'
    <2>1. /\ obj'[i] = IF obj[i] = NoSprite /\ i \in sprites[current].opaque THEN current ELSE obj[i]
          /\ current' = current + 1 /\ sprites' = sprites /\ sprite_x' = sprite_x
          /\ \A k, p : Covers(k, p)' <=> Covers(k, p)
        BY <1>1 DEF Covers
    <2>2. ShowsFirst(obj[i], sprite_x + i)
        BY <1>4 DEF SpriteInv, SpritesShown
    <2>3. Covers(current, sprite_x + i) <=> i \in sprites[current].opaque
        BY <1>0, <1>2, Covering
    <2>4. current \in Nat /\ 1 <= current
        BY <1>0 DEF NumbersOK
    <2>5. /\ 1..(current' - 1) = 1..current
          /\ \A k \in 1..current : k = current \/ k \in 1..(current - 1)
          /\ 1..(current - 1) \subseteq 1..current
        BY <2>1, <2>4
    <2>6. current # NoSprite
        BY <2>4 DEF NoSprite
    <2>7. CASE obj[i] = NoSprite /\ i \in sprites[current].opaque
        <3>1. obj'[i] = current /\ \A k \in 1..(current - 1) : ~ Covers(k, sprite_x + i)
            BY <2>1, <2>2, <2>7 DEF ShowsFirst
        <3>2. current \in 1..current
            BY <2>4
        <3> QED
            BY <2>1, <2>3, <2>5, <2>6, <2>7, <3>1, <3>2 DEF ShowsFirst
    <2>8. CASE obj[i] = NoSprite /\ i \notin sprites[current].opaque
        <3>1. obj'[i] = NoSprite /\ \A k \in 1..(current - 1) : ~ Covers(k, sprite_x + i)
            BY <2>1, <2>2, <2>8 DEF ShowsFirst
        <3> QED
            BY <2>1, <2>3, <2>5, <2>8, <3>1 DEF ShowsFirst
    <2>9. CASE obj[i] # NoSprite
        <3>1. /\ obj'[i] = obj[i] /\ obj[i] \in 1..(current - 1) /\ Covers(obj[i], sprite_x + i)
              /\ \A k \in 1..(obj[i] - 1) : ~ Covers(k, sprite_x + i)
            BY <2>1, <2>2, <2>9 DEF ShowsFirst
        <3> QED
            BY <2>1, <2>5, <2>9, <3>1 DEF ShowsFirst
    <2> QED
        BY <2>7, <2>8, <2>9
<1>5. SpritesShown'
    BY <1>1, <1>4 DEF SpritesShown
<1> QED
    BY <1>3, <1>5 DEF SpriteInv

\* Taking pixels from the FIFO moves the sprites along (gb_ppu.cpp:92-113).
LEMMA ShiftPixelsSprites ==
    ASSUME LineInv, SpriteInv, ShiftPixels
    PROVE  SpriteInv'
<1>0. LatchedOK /\ NumbersOK
    BY DEF LineInv
<1>1. /\ stage = "pixels" /\ sprite_x' = sprite_x + wait /\ UNCHANGED <<sprites, current>>
      /\ obj' = [i \in 0..7 |-> IF i + wait <= 7 THEN obj[i + wait] ELSE NoSprite]
    BY DEF ShiftPixels, Shift, Shifted, latched
<1>2. stage' # "pixels" /\ (phase' = "first" => phase = "first")
    BY DEF ShiftPixels, EndTurn, At
<1>3. wait \in Nat /\ sprite_x \in Nat /\ current \in Nat /\ current <= Len(sprites) + 1 /\ Len(sprites) \in Nat
    BY <1>0 DEF LatchedOK, NumbersOK
<1>4. \A k \in 1..Len(sprites) : sprites[k].x \in Nat
    BY <1>0, Covering
<1>5. SpritesFetched'
    <2>1. ASSUME NEW k \in 1..Len(sprites)
          PROVE  /\ k < current => sprites[k].x <= sprite_x + wait /\ (phase' = "first" => sprites[k].x = 0)
                 /\ k >= current => sprites[k].x >= sprite_x + wait
        <3>1. k < current => sprites[k].x <= sprite_x /\ (phase = "first" => sprites[k].x = 0)
            BY DEF SpriteInv, SpritesFetched
        <3>2. k >= current => sprites[k].x >= sprite_x + wait
            BY <1>1 DEF SpriteInv, SpritesFetched
        <3> QED
            BY <1>2, <1>3, <1>4, <3>1, <3>2
    <2> QED
        BY <1>1, <1>2, <2>1 DEF SpriteInv, SpritesFetched
<1>6. ASSUME NEW i \in 0..7, sprite_x + wait + i >= 8
      PROVE  ShowsFirst(obj[i], sprite_x + i)'
    <2>1. obj'[i] = IF i + wait <= 7 THEN obj[i + wait] ELSE NoSprite
        BY <1>1
    <2>2. CASE i + wait <= 7
        <3>1. i + wait \in 0..7 /\ sprite_x + wait + i = sprite_x + (i + wait)
            BY <1>3, <2>2
        <3>2. ShowsFirst(obj[i + wait], sprite_x + (i + wait))
            BY <1>6, <3>1 DEF SpriteInv, SpritesShown
        <3> QED
            BY <1>1, <2>1, <2>2, <3>1, <3>2 DEF ShowsFirst, Covers
    <2>3. CASE ~ (i + wait <= 7)
        <3>1. ASSUME NEW k \in 1..(current - 1) PROVE ~ Covers(k, sprite_x + wait + i)
            <4>1. k \in 1..Len(sprites) /\ k < current
                BY <1>3
            <4>2. sprites[k].x <= sprite_x
                BY <4>1 DEF SpriteInv, SpritesFetched
            <4>3. sprite_x + wait + i \in Int
                BY <1>3
            <4>4. Covers(k, sprite_x + wait + i) => sprite_x + wait + i <= sprites[k].x + 7
                BY <1>0, <4>1, <4>3, Covering
            <4>5. \A a, b \in Nat : a <= b /\ ~ (i + wait <= 7) => ~ (b + wait + i <= a + 7)
                BY <1>3
            <4>6. ~ (sprite_x + wait + i <= sprites[k].x + 7)
                BY <1>3, <1>4, <2>3, <4>1, <4>2, <4>5, Zenon
            <4> QED
                BY <4>4, <4>6, Zenon
        <3> QED
            BY <1>1, <2>1, <2>3, <3>1 DEF ShowsFirst, Covers
    <2> QED
        BY <2>2, <2>3
<1>7. SpritesShown'
    BY <1>1, <1>6 DEF SpritesShown
<1> QED
    BY <1>5, <1>7 DEF SpriteInv

\* The pixels of SCX take what is off the screen with them (gb_ppu.cpp:305-307).
LEMMA DiscardScrolledSprites ==
    ASSUME LineInv, SpriteInv, DiscardScrolled
    PROVE  SpriteInv'
<1>0. LatchedOK /\ NumbersOK
    BY DEF LineInv
<1>1. /\ stage' = "top" /\ phase' = "discard" /\ UNCHANGED <<sprites, current, sprite_x>>
      /\ obj' = [i \in 0..7 |-> IF i + wait <= 7 THEN obj[i + wait] ELSE NoSprite]
    BY DEF DiscardScrolled, Shift, Shifted, At, latched
<1>2. phase = "first" /\ sprite_x <= 1
    BY DEF DiscardScrolled, LineInv, Waits, Progress
<1>3. wait \in Nat /\ sprite_x \in Nat /\ current \in Nat /\ current <= Len(sprites) + 1 /\ Len(sprites) \in Nat
    BY <1>0 DEF LatchedOK, NumbersOK
<1>4. SpritesFetched'
    BY <1>1 DEF SpriteInv, SpritesFetched
<1>5. ASSUME NEW i \in 0..7, sprite_x + i >= 8
      PROVE  ShowsFirst(obj[i], sprite_x + i)'
    <2>1. i = 7 /\ sprite_x + i = 8
        BY <1>2, <1>3, <1>5
    <2>2. obj'[i] = IF i + wait <= 7 THEN obj[i + wait] ELSE NoSprite
        BY <1>1
    <2>3. CASE wait = 0
        <3>1. obj'[i] = obj[i]
            BY <2>1, <2>2, <2>3
        <3>2. ShowsFirst(obj[i], sprite_x + i)
            BY <1>5 DEF SpriteInv, SpritesShown
        <3> QED
            BY <1>1, <3>1, <3>2 DEF ShowsFirst, Covers
    <2>4. CASE wait # 0
        <3>1. obj'[i] = NoSprite
            BY <1>3, <2>1, <2>2, <2>4
        <3>2. ASSUME NEW k \in 1..(current - 1) PROVE ~ Covers(k, 8)
            <4>1. k \in 1..Len(sprites) /\ k < current
                BY <1>3
            <4>2. sprites[k].x = 0
                BY <1>2, <4>1 DEF SpriteInv, SpritesFetched
            <4>3. Covers(k, 8) => 8 <= sprites[k].x + 7
                BY <1>0, <4>1, Covering
            <4> QED
                BY <4>2, <4>3
        <3> QED
            BY <1>1, <2>1, <3>1, <3>2 DEF ShowsFirst, Covers
    <2> QED
        BY <2>3, <2>4
<1>6. SpritesShown'
    BY <1>1, <1>5 DEF SpritesShown
<1> QED
    BY <1>4, <1>6 DEF SpriteInv

\* Every step of the PPU and of the CPU keeps the sprites.
LEMMA NextSprites ==
    LineInv /\ SpriteInv /\ [LineNext]_pixelVars => SpriteInv'
<1> SUFFICES ASSUME LineInv, SpriteInv, [LineNext]_pixelVars PROVE SpriteInv'
    OBVIOUS
<1>1. CASE EndLine \/ TurnOff
    <2>1. sprites' = <<>> /\ sprite_x' = 0
        BY <1>1 DEF EndLine, TurnOff, NoLine
    <2>2. Len(sprites') = 0
        BY <2>1
    <2> QED
        BY <2>1, <2>2 DEF SpriteInv, SpritesFetched, SpritesShown
<1>2. CASE UNCHANGED pixelVars
    BY <1>2, SpritesStay DEF pixelVars, latched, fifo, place, control
<1>3. CASE FirstTile
    BY <1>3, SpritesStay DEF FirstTile, At, latched, place
<1>4. CASE AwaitSprite
    BY <1>4, SpritesStay DEF AwaitSprite, At, latched, fifo, place
<1>5. CASE SwitchToWindow
    BY <1>5, SpritesStay DEF SwitchToWindow, EndTurn, At, latched
<1>6. CASE Refill
    BY <1>6, SpritesStay DEF Refill, EndTurn, At, latched
<1>7. CASE WriteBetween
    BY <1>7, SpritesStay DEF WriteBetween, latched, fifo, place, control
<1>8. CASE (\E value \in ScxValues : WriteScx(value)) \/ (\E value \in WxValues : WriteWx(value))
    BY <1>8, SpritesStay DEF WriteScx, WriteWx, latched, fifo, place
<1> QED
    BY <1>1, <1>2, <1>3, <1>4, <1>5, <1>6, <1>7, <1>8, StartLineSprites, FetchSpriteSprites, AwaitPixelsSprites,
       ShiftPixelsSprites, DiscardScrolledSprites DEF LineNext, Draw

\* The sprites of a line are sorted, every one is fetched in the column where it
\* begins, and a place of the FIFO shows the first that covers it.
THEOREM SpriteInvariant == PixelSpec => []SpriteInv
<1>1. LineInit => SpriteInv
    <2>1. LineInit => Len(sprites) = 0 /\ sprite_x = 0
        BY DEF LineInit
    <2> QED
        BY <2>1, NoSprites
<1> QED
    BY <1>1, NextSprites, LineInvariant, PTL DEF PixelSpec

\* Of the sprites that were fetched or will be, the first that covers a pixel
\* that is about to be drawn is the one that shows.
LEMMA ShownIsWinner ==
    ASSUME LineInv, SpriteInv, stage = "pixels", sprite_x >= 8, NEW i \in 0..(wait - 1)
    PROVE  obj[i] = Winner(sprite_x + i)
<1>0. LatchedOK /\ NumbersOK
    BY DEF LineInv
<1> DEFINE p == sprite_x + i
           covering == {k \in 1..Len(sprites) : Covers(k, p)}
<1>1. wait \in Nat /\ wait <= 8 /\ sprite_x \in Nat /\ current \in Nat /\ current <= Len(sprites) + 1 /\ Len(sprites) \in Nat
    BY <1>0 DEF LatchedOK, NumbersOK, LineInv, Waits
<1>2. i \in 0..7 /\ p \in Int /\ p >= 8 /\ p < sprite_x + wait
    BY <1>1
<1>3. ShowsFirst(obj[i], p)
    BY <1>2 DEF SpriteInv, SpritesShown
<1>4. ASSUME NEW k \in 1..Len(sprites), Covers(k, p) PROVE k \in 1..(current - 1)
    <2>1. sprites[k].x <= p /\ sprites[k].x \in Nat
        BY <1>0, <1>2, <1>4, Covering
    <2>2. k >= current => sprites[k].x >= sprite_x + wait
        BY DEF SpriteInv, SpritesFetched
    <2> HIDE DEF p
    <2> QED
        BY <1>1, <1>2, <2>1, <2>2
<1>5. Winner(p) = IF covering = {} THEN NoSprite
                  ELSE CHOOSE k \in covering : \A l \in covering : k <= l
    BY Zenon DEF Winner
<1> HIDE DEF p
<1>6. CASE obj[i] = NoSprite
    <2>1. covering = {}
        BY <1>3, <1>4, <1>6 DEF ShowsFirst
    <2> QED
        BY <1>5, <1>6, <2>1 DEF p
<1>7. CASE obj[i] # NoSprite
    <2>1. obj[i] \in 1..(current - 1) /\ Covers(obj[i], p) /\ (\A k \in 1..(obj[i] - 1) : ~ Covers(k, p))
        BY <1>3, <1>7 DEF ShowsFirst
    <2>2. obj[i] \in covering
        BY <1>1, <2>1
    <2>3. \A k \in covering : obj[i] <= k
        BY <1>1, <2>1
    <2>4. \A k \in covering : (\A l \in covering : k <= l) => k = obj[i]
        BY <1>1, <2>1, <2>2, <2>3
    <2>5. (CHOOSE k \in covering : \A l \in covering : k <= l) = obj[i]
        <3> HIDE DEF covering
        <3> QED
            BY <2>2, <2>3, <2>4
    <2> QED
        BY <1>5, <2>2, <2>5 DEF p
<1> QED
    BY <1>6, <1>7

-----------------------------------------------------------------------------
(* Types                                                                   *)

\* What the FIFO and the fetcher hold
FetchInv ==
    /\ layer \in Layer /\ col \in Nat /\ col <= 255 /\ tile_x \in Nat /\ tile_x <= 31
    /\ obj \in [0..7 -> 0..LIMIT]
    /\ stage \in {"window", "refill"} => wait <= 6
    /\ written \in BOOLEAN

\* Columns are counted modulo 256.
LEMMA Wraps == \A a \in Int : \A n \in Nat : ((a % 256) + n) % 256 = (a + n) % 256
OBVIOUS

\* A byte of columns is 32 tiles of eight.
LEMMA Columns ==
    /\ \A a \in Int : a % 256 \in Nat /\ a % 256 <= 255
    /\ \A a \in Nat : a <= 255 => a % 256 = a
    /\ \A t \in Nat : (t + 1) % 32 \in Nat /\ (t + 1) % 32 <= 31
    /\ \A t \in Nat : t <= 31 => 8 * ((t + 1) % 32) = (8 * t + 8) % 256 /\ 8 * t \in Nat /\ 8 * t <= 255
    /\ \A s \in Nat : s <= 255 =>
          /\ s \div 8 \in Nat /\ s \div 8 <= 31
          /\ s % 8 \in Nat /\ s % 8 <= 7 /\ s % 8 <= s
          /\ 8 * (s \div 8) = s - (s % 8) /\ s - (s % 8) \in Nat /\ s - (s % 8) <= 255
OBVIOUS

\* Every step keeps these types.
LEMMA NextFetch ==
    LineInv /\ FetchInv /\ [LineNext]_pixelVars => FetchInv'
<1> SUFFICES ASSUME LineInv, FetchInv, [LineNext]_pixelVars PROVE FetchInv'
    OBVIOUS
<1>0. /\ LatchedOK /\ NumbersOK
      /\ layer \in Layer /\ col \in Nat /\ col <= 255 /\ tile_x \in Nat /\ tile_x <= 31
      /\ obj \in [0..7 -> 0..LIMIT]
      /\ scx \in Nat /\ scx <= 255 /\ wait \in Nat /\ fetch_age \in Nat /\ fetch_age <= 5
    BY DEF LineInv, FetchInv, NumbersOK, BgFetch
<1>w. written' \in BOOLEAN
    BY DEF FetchInv, LineNext, Draw, pixelVars, control, StartLine, FirstTile, AwaitSprite, FetchSprite, AwaitPixels,
           ShiftPixels, SwitchToWindow, Refill, DiscardScrolled, EndLine, TurnOff, NoLine, WriteBetween, WriteScx, WriteWx
<1>1. CASE EndLine \/ TurnOff
    <2>1. /\ layer' = "blank" /\ col' = 0 /\ tile_x' = 0 /\ stage' = "idle"
          /\ obj' = [i \in 0..7 |-> NoSprite]
        BY <1>1 DEF EndLine, TurnOff, NoLine
    <2>2. obj' \in [0..7 -> 0..LIMIT]
        BY <2>1, Sizes DEF NoSprite
    <2> QED
        BY <1>w, <2>1, <2>2 DEF FetchInv, Layer
<1>2. ASSUME UNCHANGED <<layer, col, tile_x, obj>>,
             (stage' = stage /\ wait' = wait) \/ stage' \notin {"window", "refill"}
      PROVE  FetchInv'
    BY <1>w, <1>2 DEF FetchInv
<1>3. CASE UNCHANGED pixelVars \/ AwaitSprite \/ AwaitPixels \/ WriteBetween
    BY <1>2, <1>3 DEF pixelVars, fifo, fetcher, control, AwaitSprite, AwaitPixels, WriteBetween, At
<1>4. CASE (\E value \in ScxValues : WriteScx(value)) \/ (\E value \in WxValues : WriteWx(value))
    BY <1>2, <1>4 DEF WriteScx, WriteWx, fifo, fetcher
<1>5. CASE StartLine
    <2>1. tile_x' = scx \div 8 /\ stage' = "first_fetch" /\ UNCHANGED <<layer, col, obj>>
        BY <1>5 DEF StartLine, At, fifo
    <2> QED
        BY <1>w, <1>0, <2>1, Columns DEF FetchInv
<1>6. CASE FirstTile
    <2>1. /\ layer' = (IF bg_enable THEN "bg" ELSE "blank") /\ col' = 8 * (IF bg_enable THEN tile_x ELSE 0)
          /\ stage' = "top" /\ UNCHANGED <<tile_x, obj>>
        BY <1>6 DEF FirstTile, FetchTile, At
    <2>2. col' \in Nat /\ col' <= 255 /\ layer' \in Layer
        BY <1>0, <2>1 DEF Layer
    <2> QED
        BY <1>w, <1>0, <2>1, <2>2 DEF FetchInv
<1>7. CASE FetchSprite
    <2>1. /\ obj' = [i \in 0..7 |->
                   IF obj[i] = NoSprite /\ i \in sprites[current].opaque THEN current ELSE obj[i]]
          /\ stage' = "top" /\ UNCHANGED <<layer, col, tile_x>>
        BY <1>7 DEF FetchSprite, ApplySprite, At
    <2>2. current \in 0..LIMIT
        <3>1. current <= Len(sprites) /\ Len(sprites) <= LIMIT /\ Len(sprites) \in Nat /\ current \in Nat
            BY <1>0, <1>7 DEF FetchSprite, LineInv, Waits, SpriteHere, LatchedOK, NumbersOK
        <3> QED
            BY <3>1, Sizes
    <2>3. \A i \in 0..7 : obj[i] \in 0..LIMIT
        BY <1>0
    <2>4. obj' \in [0..7 -> 0..LIMIT]
        BY <2>1, <2>2, <2>3
    <2> QED
        BY <1>w, <1>0, <2>1, <2>4 DEF FetchInv
<1>8. ASSUME NEW n \in Nat, Shift(n) PROVE obj' \in [0..7 -> 0..LIMIT] /\ col' \in Nat /\ col' <= 255 /\ layer' = layer
    <2>1. col' = (col + n) % 256 /\ layer' = layer
          /\ obj' = [i \in 0..7 |-> IF i + n <= 7 THEN obj[i + n] ELSE NoSprite]
        BY <1>8 DEF Shift, Shifted
    <2>2. \A i \in 0..7 : i + n <= 7 => obj[i + n] \in 0..LIMIT
        BY <1>0
    <2>3. NoSprite \in 0..LIMIT
        BY Sizes DEF NoSprite
    <2>4. obj' \in [0..7 -> 0..LIMIT]
        BY <2>1, <2>2, <2>3
    <2>5. col + n \in Int
        BY <1>0
    <2> QED
        BY <2>1, <2>4, <2>5, Columns
<1>9. CASE ShiftPixels
    <2>1. Shift(wait) /\ tile_x' = tile_x
        BY <1>9 DEF ShiftPixels
    <2>2. \/ stage' = "window" /\ wait' = 6
          \/ stage' = "refill" /\ wait' = RefillWait
          \/ stage' \notin {"window", "refill"}
        BY <1>9 DEF ShiftPixels, At, EndTurn, WindowSwitch
    <2>3. RefillWait <= 6
        <3>1. Age \in Nat /\ Age <= 5
            BY <1>0 DEF Age, Least, BgFetch
        <3> QED
            BY <3>1 DEF RefillWait, BgFetch
    <2>4. stage' \in {"window", "refill"} => wait' <= 6
        BY <2>2, <2>3
    <2> QED
        BY <1>w, <1>0, <1>8, <2>1, <2>4 DEF FetchInv
<1>10. CASE DiscardScrolled
    <2>1. Shift(wait) /\ tile_x' = tile_x /\ stage' = "top"
        BY <1>10 DEF DiscardScrolled, At
    <2> QED
        BY <1>w, <1>0, <1>8, <2>1 DEF FetchInv
<1>11. CASE SwitchToWindow
    <2>1. layer' = "window" /\ col' = 8 * 0 /\ tile_x' = 1 /\ obj' = obj /\ stage' \notin {"window", "refill"}
        BY <1>11 DEF SwitchToWindow, FetchTile, EndTurn, At
    <2> QED
        BY <1>w, <1>0, <2>1 DEF FetchInv, Layer
<1>12. CASE Refill
    <2>1. /\ obj' = obj /\ stage' \notin {"window", "refill"}
          /\ \/ /\ layer' = (IF in_window THEN "window" ELSE "bg") /\ col' = 8 * tile_x
                /\ tile_x' = (tile_x + 1) % 32
             \/ layer' = "blank" /\ col' = 8 * 0 /\ tile_x' = tile_x
        BY <1>12 DEF Refill, FetchTile, EndTurn, At
    <2>2. layer' \in Layer
        BY <2>1 DEF Layer
    <2>3. col' \in Nat /\ col' <= 255 /\ tile_x' \in Nat /\ tile_x' <= 31
        BY <1>0, <2>1, Columns
    <2> QED
        BY <1>w, <1>0, <2>1, <2>2, <2>3 DEF FetchInv
<1> QED
    BY <1>1, <1>3, <1>4, <1>5, <1>6, <1>7, <1>9, <1>10, <1>11, <1>12 DEF LineNext, Draw

\* The FIFO and the fetcher keep their types.
LEMMA FetchInvariant == PixelSpec => []FetchInv
<1>1. LineInit => FetchInv
    <2> SUFFICES ASSUME LineInit PROVE FetchInv
        OBVIOUS
    <2>1. layer = "blank" /\ col = 0 /\ tile_x = 0 /\ stage = "idle" /\ written = FALSE
        BY DEF LineInit
    <2>2. obj \in [0..7 -> 0..LIMIT]
        <3>1. obj = [i \in 0..7 |-> NoSprite]
            BY DEF LineInit
        <3> QED
            BY <3>1, Sizes DEF NoSprite
    <2>3. layer \in Layer /\ col \in Nat /\ col <= 255 /\ tile_x \in Nat /\ tile_x <= 31
        BY <2>1 DEF Layer
    <2>4. stage \notin {"window", "refill"}
        BY <2>1
    <2>5. written \in BOOLEAN
        BY <2>1
    <2> QED
        BY <2>2, <2>3, <2>4, <2>5 DEF FetchInv
<1> QED
    BY <1>1, NextFetch, LineInvariant, PTL DEF PixelSpec

\* Every variable of a line keeps its type: no wait is longer than a sprite's
\* fetch, and no counter leaves the line.
THEOREM LineTypeCorrect == PixelSpec => []PixelTypeOK
<1>1. LineInv /\ FetchInv => PixelTypeOK
    <2> SUFFICES ASSUME LineInv, FetchInv PROVE PixelTypeOK
        OBVIOUS
    <2>0. /\ scx \in Nat /\ scx <= 255 /\ wx \in Nat /\ wx <= 255
          /\ bg_count \in Nat /\ bg_count <= 8
          /\ fetch_age \in Nat /\ fetch_age <= 5
          /\ x \in Nat /\ window_x \in Nat /\ window_x <= 255 /\ sprite_x \in Nat
          /\ current \in Nat /\ 1 <= current /\ current <= Len(sprites) + 1
          /\ wait \in Nat /\ clock \in Nat /\ subtile \in Nat /\ subtile <= 7
        BY DEF LineInv, NumbersOK, BgFetch
    <2>1. /\ window_enable \in BOOLEAN /\ bg_enable \in BOOLEAN /\ in_window \in BOOLEAN
          /\ sprites \in Seq(Sprite) /\ Len(sprites) \in Nat /\ Len(sprites) <= LIMIT
        BY DEF LineInv, LatchedOK
    <2>2. /\ scx \in 0..255 /\ wx \in 0..255 /\ bg_count \in 0..8 /\ fetch_age \in 0..BgFetch
          /\ window_x \in 0..255 /\ subtile \in 0..7
        BY <2>0 DEF BgFetch
    <2>3. current \in 1..(LIMIT + 1)
        BY <2>0, <2>1, Sizes
    <2>4. layer \in Layer /\ col \in 0..255 /\ tile_x \in 0..31 /\ obj \in [0..7 -> 0..LIMIT]
        BY DEF FetchInv
    <2>5. /\ phase \in {"first", "discard", "draw"}
          /\ stage \in {"idle", "first_fetch", "top", "sprite", "pixels", "window", "refill", "scroll", "end"}
        BY DEF LineInv, PlaceOK
    <2>6. x \in 0..WIDTH \cup 0..8 /\ sprite_x \in 0..(WIDTH + 8)
        BY <2>0, <2>5, Sizes DEF LineInv, Progress
    <2>7. wait \in 0..11
        <3>1. CASE stage \in {"idle", "first_fetch"}
            <4>1. wait = 0 \/ wait = 5
                BY <3>1 DEF LineInv, Fresh, BgFetch
            <4> QED
                BY <4>1
        <3>2. CASE stage \in {"pixels", "scroll", "top", "end"}
            <4>1. wait <= bg_count \/ wait = subtile \/ wait = 0
                BY <3>2 DEF LineInv, Waits
            <4> QED
                BY <2>0, <4>1
        <3>3. CASE stage = "sprite"
            <4>1. wait = 5 - fetch_age + 6
                BY <3>3 DEF LineInv, Waits, BgFetch, SpriteFetch
            <4> QED
                BY <2>0, <4>1
        <3>4. CASE stage \in {"window", "refill"}
            BY <2>0, <3>4 DEF FetchInv
        <3> QED
            BY <2>5, <3>1, <3>2, <3>3, <3>4
    <2>8. written \in BOOLEAN
        BY DEF FetchInv
    <2> QED
        BY <2>0, <2>1, <2>2, <2>3, <2>4, <2>5, <2>6, <2>7, <2>8, Zenon DEF PixelTypeOK
<1> QED
    BY <1>1, LineInvariant, FetchInvariant, PTL

-----------------------------------------------------------------------------
(* The background and the window                                           *)

\* The column of the first tile, and the pixels taken from the FIFO since then,
\* with those that SCX throws away
FirstColumn == scx - (scx % 8)
Taken == sprite_x + (IF phase = "first" THEN 0 ELSE subtile)

\* The counters agree, and the window begins at its column.
InStep ==
    /\ window_enable => wx < 167
    /\ window_x = IF sprite_x = 0 THEN 255 ELSE sprite_x - 1
    /\ phase = "first" => sprite_x = IF stage \in {"top", "sprite", "pixels"} THEN 0 ELSE 1
    /\ phase = "discard" => sprite_x = x
    /\ phase = "draw" => sprite_x = x + 8
    /\ phase # "first" \/ stage = "scroll" => subtile = scx % 8
    /\ in_window <=> (window_enable /\ sprite_x > wx)
    /\ stage = "window" => sprite_x = wx + 1 /\ (wx = 0 => phase = "first")
    /\ stage = "pixels" /\ window_enable /\ ~ in_window => sprite_x + wait <= wx + 1

\* Where the FIFO and the fetcher are in the background
InBackground ==
    /\ layer = IF bg_enable THEN "bg" ELSE "blank"
    /\ bg_enable =>
         /\ 8 * tile_x = (FirstColumn + Taken + bg_count - 8) % 256
         /\ Taken + bg_count >= 8
         /\ Taken + bg_count > 8 => col = (FirstColumn + Taken - 8) % 256

\* Columns of the window that were taken
WindowTaken == sprite_x - (wx + 1) + IF wx = 0 THEN Taken - sprite_x ELSE 0

\* ... and in the window
InWindow ==
    /\ layer = "window"
    /\ 8 * tile_x = (WindowTaken + bg_count) % 256
    /\ col = WindowTaken % 256

\* A line on which SCX and WX are not written
PlaceInv ==
    /\ stage = "refill" => bg_count = 0
    /\ stage = "first_fetch" /\ ~ written =>
          tile_x = scx \div 8 /\ (window_enable => wx < 167) /\ window_x = 255
    /\ stage = "idle" => window_x = 255 /\ ~ written
    /\ stage \notin {"idle", "first_fetch"} /\ ~ written =>
         /\ InStep
         /\ ~ in_window => InBackground
         /\ in_window /\ stage # "window" => InWindow

\* The numbers that the places are counted with
LEMMA PlaceNumbers ==
    ASSUME LineInv, FetchInv
    PROVE  /\ scx \in Nat /\ scx <= 255 /\ wx \in Nat /\ wx <= 255 /\ window_x \in Nat /\ window_x <= 255
           /\ sprite_x \in Nat /\ x \in Nat /\ wait \in Nat /\ subtile \in Nat /\ bg_count \in Nat /\ bg_count <= 8
           /\ tile_x \in Nat /\ tile_x <= 31 /\ col \in Nat /\ col <= 255
           /\ Taken \in Nat /\ FirstColumn \in Nat /\ FirstColumn <= 255 /\ WindowTaken \in Int
<1>1. /\ scx \in Nat /\ scx <= 255 /\ wx \in Nat /\ wx <= 255 /\ window_x \in Nat /\ window_x <= 255
      /\ sprite_x \in Nat /\ x \in Nat /\ wait \in Nat /\ subtile \in Nat /\ bg_count \in Nat /\ bg_count <= 8
    BY DEF LineInv, NumbersOK
<1>2. tile_x \in Nat /\ tile_x <= 31 /\ col \in Nat /\ col <= 255
    BY DEF FetchInv
<1>3. Taken \in Nat
    BY <1>1 DEF Taken
<1>4. FirstColumn \in Nat /\ FirstColumn <= 255
    BY <1>1, Columns DEF FirstColumn
<1>5. WindowTaken \in Int
    BY <1>1, <1>3 DEF WindowTaken
<1> QED
    BY <1>1, <1>2, <1>3, <1>4, <1>5

\* The pixels that were taken, after a turn
LEMMA TurnTaken ==
    ASSUME LineInv, FetchInv, NEW n \in Nat, sprite_x' = sprite_x + n, UNCHANGED wx,
           phase' = "first" <=> phase = "first",
           phase # "first" => subtile' = subtile
    PROVE  Taken' = Taken + n /\ WindowTaken' = WindowTaken + n
<1>1. sprite_x \in Nat /\ subtile \in Nat /\ wx \in Nat
    BY PlaceNumbers
<1>2. Taken' = sprite_x' + (IF phase' = "first" THEN 0 ELSE subtile')
    BY DEF Taken
<1>3. Taken' = Taken + n
    <2>1. CASE phase = "first"
        BY <1>1, <1>2, <2>1 DEF Taken
    <2>2. CASE phase # "first"
        <3>1. Taken' = sprite_x' + subtile' /\ Taken = sprite_x + subtile /\ subtile' = subtile
            BY <1>2, <2>2 DEF Taken
        <3> QED
            BY <1>1, <3>1
    <2> QED
        BY <2>1, <2>2
<1>4. WindowTaken' = sprite_x' - (wx' + 1) + (IF wx' = 0 THEN Taken' - sprite_x' ELSE 0)
    BY DEF WindowTaken
<1>5. Taken \in Nat
    BY PlaceNumbers
<1> HIDE DEF Taken
<1> QED
    BY <1>1, <1>3, <1>4, <1>5 DEF WindowTaken

\* The counters agree after the end of a turn.
LEMMA TurnInStep ==
    ASSUME LineInv, NEW p \in Nat, EndTurn(p),
           UNCHANGED <<scx, wx, window_enable>>, wx \in Nat,
           window_enable => wx < 167,
           sprite_x' \in Nat, 1 <= sprite_x', window_x' = sprite_x' - 1,
           in_window' <=> (window_enable /\ sprite_x' > wx),
           phase = "first" => sprite_x' = 1,
           phase = "discard" => sprite_x' = p /\ p <= 8,
           phase = "draw" => sprite_x' = p + 8,
           phase # "first" => subtile = scx % 8
    PROVE  /\ InStep'
           /\ phase' = "first" <=> phase = "first"
           /\ phase # "first" => subtile' = subtile
           /\ stage' \in {"scroll", "top", "end"}
<1>1. phase \in {"first", "discard", "draw"}
    BY DEF LineInv, PlaceOK
<1>2. \/ phase = "first" /\ stage' = "scroll" /\ subtile' = scx % 8 /\ phase' = "first"
      \/ phase = "discard" /\ p < 8 /\ stage' = "top" /\ x' = p /\ phase' = "discard" /\ subtile' = subtile
      \/ phase = "discard" /\ p >= 8 /\ stage' = "top" /\ x' = 0 /\ phase' = "draw" /\ subtile' = subtile
      \/ phase = "draw" /\ stage' \in {"top", "end"} /\ x' = p /\ phase' = "draw" /\ subtile' = subtile
    BY DEF EndTurn, At
<1>3. window_x' = IF sprite_x' = 0 THEN 255 ELSE sprite_x' - 1
    <2>1. sprite_x' # 0
        OBVIOUS
    <2> QED
        BY <2>1, Zenon
<1>4. stage' \in {"scroll", "top", "end"} /\ (phase' = "first" => stage' = "scroll")
    BY <1>2
<1>5. /\ phase' = "first" => sprite_x' = 1
      /\ phase' = "discard" => sprite_x' = x'
      /\ phase' = "draw" => sprite_x' = x' + 8
    BY <1>2
<1>6. subtile' = scx' % 8
    BY <1>2
<1>7. in_window' <=> (window_enable' /\ sprite_x' > wx')
    OBVIOUS
<1>8. window_enable' => wx' < 167
    OBVIOUS
<1>9. phase' = "first" => sprite_x' = IF stage' \in {"top", "sprite", "pixels"} THEN 0 ELSE 1
    BY <1>4, <1>5
<1>10. stage' # "window" /\ stage' # "pixels"
    BY <1>4
<1>11. InStep'
    BY <1>3, <1>5, <1>6, <1>7, <1>8, <1>9, <1>10, Zenon DEF InStep
<1> QED
    BY <1>2, <1>4, <1>11

\* The first tile is the one that SCX selects (gb_ppu.cpp:190-212).
LEMMA FirstTilePlace ==
    ASSUME LineInv, FetchInv, PlaceInv, FirstTile
    PROVE  PlaceInv'
<1>1. /\ stage = "first_fetch" /\ stage' = "top" /\ bg_count' = 8
      /\ layer' = (IF bg_enable THEN "bg" ELSE "blank")
      /\ UNCHANGED <<scx, wx, window_enable, bg_enable, sprites, tile_x, in_window, phase, x, window_x,
                     sprite_x, subtile, written>>
    BY DEF FirstTile, FetchTile, At, registers, latched, place
<1>2. phase = "first" /\ sprite_x = 0 /\ in_window = FALSE
    BY <1>1 DEF LineInv, Fresh
<1>3. ASSUME ~ written PROVE InStep' /\ InBackground'
    <2>1. 8 * tile_x = FirstColumn /\ (window_enable => wx < 167) /\ window_x = 255
        <3>1. tile_x = scx \div 8 /\ (window_enable => wx < 167) /\ window_x = 255
            BY <1>1, <1>3 DEF PlaceInv
        <3> QED
            BY <3>1, PlaceNumbers, Columns DEF FirstColumn
    <2>2. InStep'
        <3>1. in_window' <=> (window_enable' /\ sprite_x' > wx')
            BY <1>1, <1>2, PlaceNumbers
        <3> QED
            BY <1>1, <1>2, <2>1, <3>1 DEF InStep
    <2>3. Taken' = 0 /\ FirstColumn' = FirstColumn
        BY <1>1, <1>2 DEF Taken, FirstColumn
    <2>4. FirstColumn + 0 + 8 - 8 = FirstColumn /\ FirstColumn % 256 = FirstColumn
        BY PlaceNumbers, Columns
    <2>5. InBackground'
        BY <1>1, <2>1, <2>3, <2>4 DEF InBackground
    <2> QED
        BY <2>2, <2>5
<1> QED
    BY <1>1, <1>2, <1>3 DEF PlaceInv

\* Steps that take no pixel
LEMMA SamePlace ==
    ASSUME PlaceInv, stage \in {"top", "sprite"}, stage' \in {"top", "sprite", "pixels"},
           stage' = "pixels" /\ ~ written /\ window_enable /\ ~ in_window => sprite_x + wait' <= wx + 1,
           UNCHANGED <<scx, wx, window_enable, bg_enable, layer, col, bg_count, tile_x, in_window, phase, x, window_x,
                       sprite_x, subtile, written>>
    PROVE  PlaceInv'
<1>1. Taken' = Taken /\ FirstColumn' = FirstColumn /\ WindowTaken' = WindowTaken
    BY DEF Taken, FirstColumn, WindowTaken
<1>2. InBackground => InBackground'
    BY <1>1 DEF InBackground
<1>3. InWindow => InWindow'
    BY <1>1 DEF InWindow
<1>4. InStep /\ ~ written => InStep'
    BY DEF InStep
<1> QED
    BY <1>2, <1>3, <1>4 DEF PlaceInv

\* The pixels that are waited for end where the window begins.
LEMMA AwaitPixelsPlace ==
    ASSUME LineInv, FetchInv, PlaceInv, AwaitPixels
    PROVE  PlaceInv'
<1>1. /\ stage = "top" /\ stage' = "pixels" /\ wait' = Complete
      /\ UNCHANGED <<scx, wx, window_enable, bg_enable, layer, col, bg_count, tile_x, in_window, phase, x, window_x,
                     sprite_x, subtile, written>>
    BY DEF AwaitPixels, At, registers, latched, fifo, fetcher, place, control
<1>2. ASSUME ~ written, window_enable, ~ in_window PROVE sprite_x + Complete <= wx + 1
    <2>1. /\ wx < 167 /\ window_x = (IF sprite_x = 0 THEN 255 ELSE sprite_x - 1)
          /\ ~ (sprite_x > wx)
        BY <1>1, <1>2 DEF PlaceInv, InStep
    <2>2. DistanceToWindow = (wx - window_x) % 256
        BY <1>2 DEF DistanceToWindow
    <2>3. Complete \in Nat /\ Complete <= DistanceToWindow
        BY CompleteReaches DEF AwaitPixels
    <2>4. wx \in Nat /\ sprite_x \in Nat
        BY PlaceNumbers
    <2>5. (wx - window_x) % 256 = wx + 1 - sprite_x
        BY <2>1, <2>4
    <2> HIDE DEF Complete
    <2> QED
        BY <2>2, <2>3, <2>4, <2>5
<1> QED
    BY <1>1, <1>2, SamePlace

\* Pixels that leave the FIFO are the next ones of the background
LEMMA BackgroundMoves ==
    ASSUME LineInv, FetchInv, InBackground, NEW n \in Nat, Shift(n), n <= bg_count,
           UNCHANGED <<scx, bg_enable, tile_x>>, Taken' = Taken + n
    PROVE  InBackground'
<1>1. layer' = layer /\ bg_count' = bg_count - n /\ col' = (col + n) % 256 /\ FirstColumn' = FirstColumn
    BY DEF Shift, FirstColumn
<1>2. Taken \in Nat /\ FirstColumn \in Nat /\ bg_count \in Nat /\ col \in Nat
    BY PlaceNumbers
<1>3. ASSUME bg_enable PROVE /\ 8 * tile_x = (FirstColumn + Taken + bg_count - 8) % 256
                             /\ Taken + bg_count >= 8
                             /\ Taken + bg_count > 8 => col = (FirstColumn + Taken - 8) % 256
    BY <1>3 DEF InBackground
<1> HIDE DEF Taken, FirstColumn
<1>4. Taken' + bg_count' = Taken + bg_count /\ FirstColumn' + Taken' + bg_count' - 8 = FirstColumn + Taken + bg_count - 8
    BY <1>1, <1>2
<1>5. ASSUME bg_enable, Taken + bg_count > 8 PROVE col' = (FirstColumn' + Taken' - 8) % 256
    <2>1. col' = (((FirstColumn + Taken - 8) % 256) + n) % 256
        BY <1>1, <1>3, <1>5
    <2>2. FirstColumn + Taken - 8 \in Int /\ (FirstColumn + Taken - 8) + n = FirstColumn' + Taken' - 8
        BY <1>1, <1>2
    <2>3. (((FirstColumn + Taken - 8) % 256) + n) % 256 = ((FirstColumn + Taken - 8) + n) % 256
        BY <2>2, Wraps
    <2> QED
        BY <2>1, <2>2, <2>3, Zenon
<1>6. layer' = IF bg_enable' THEN "bg" ELSE "blank"
    BY <1>1 DEF InBackground
<1> QED
    BY <1>3, <1>4, <1>5, <1>6, Zenon DEF InBackground

\* ... or of the window
LEMMA WindowMoves ==
    ASSUME LineInv, FetchInv, InWindow, NEW n \in Nat, Shift(n), n <= bg_count,
           UNCHANGED <<wx, tile_x>>, WindowTaken' = WindowTaken + n
    PROVE  InWindow'
<1>1. layer' = layer /\ bg_count' = bg_count - n /\ col' = (col + n) % 256
    BY DEF Shift
<1>2. WindowTaken \in Int /\ bg_count \in Nat
    BY PlaceNumbers
<1>3. layer = "window" /\ 8 * tile_x = (WindowTaken + bg_count) % 256 /\ col = WindowTaken % 256
    BY DEF InWindow
<1> HIDE DEF WindowTaken
<1>4. WindowTaken' + bg_count' = WindowTaken + bg_count
    BY <1>1, <1>2
<1>5. col' = WindowTaken' % 256
    <2>1. ((WindowTaken % 256) + n) % 256 = (WindowTaken + n) % 256
        BY <1>2, Wraps
    <2> QED
        BY <1>1, <1>3, <2>1, Zenon
<1> QED
    BY <1>1, <1>3, <1>4, <1>5, Zenon DEF InWindow

\* Taking the pixels that were waited for (gb_ppu.cpp:245-275, 338-374, 427-464)
LEMMA ShiftPixelsPlace ==
    ASSUME LineInv, FetchInv, PlaceInv, ShiftPixels
    PROVE  PlaceInv'
<1>0. LatchedOK /\ NumbersOK /\ PlaceOK /\ Progress /\ Waits /\ EmptyTurn
    BY DEF LineInv
<1>1. /\ stage = "pixels" /\ Shift(wait) /\ bg_count' = bg_count - wait
      /\ window_x' = (window_x + wait) % 256 /\ sprite_x' = sprite_x + wait
      /\ UNCHANGED <<scx, wx, window_enable, bg_enable, sprites, tile_x, written>>
    BY DEF ShiftPixels, Shift, registers, latched
<1>2. /\ scx \in Nat /\ wx \in Nat /\ window_x \in Nat /\ sprite_x \in Nat /\ x \in Nat /\ wait \in Nat
      /\ bg_count \in Nat /\ bg_count <= 8 /\ wait <= bg_count /\ subtile \in Nat
    BY <1>1, PlaceNumbers DEF LineInv, Waits
<1>3. stage' \notin {"idle", "first_fetch", "pixels", "sprite"} /\ (stage' = "refill" => bg_count' = 0)
    BY <1>1, <1>2 DEF ShiftPixels, EndTurn, At
<1>4. ASSUME ~ written
      PROVE  /\ InStep'
             /\ ~ in_window' => InBackground'
             /\ in_window' /\ stage' # "window" => InWindow'
    <2>0. InStep /\ (~ in_window => InBackground) /\ (in_window => InWindow)
        BY <1>1, <1>4 DEF PlaceInv
    <2>1. /\ window_enable => wx < 167
          /\ window_x = IF sprite_x = 0 THEN 255 ELSE sprite_x - 1
          /\ phase = "first" => sprite_x = 0
          /\ phase = "discard" => sprite_x = x
          /\ phase = "draw" => sprite_x = x + 8
          /\ phase # "first" => subtile = scx % 8
          /\ in_window <=> (window_enable /\ sprite_x > wx)
          /\ window_enable /\ ~ in_window => sprite_x + wait <= wx + 1
        BY <1>1, <2>0 DEF InStep
    <2>2. phase \in {"first", "discard", "draw"}
        BY <1>0 DEF PlaceOK
    <2>3. /\ phase = "first" => wait = 1
          /\ phase = "discard" => 1 <= x /\ x + wait <= 8
          /\ phase = "draw" => x + wait <= 160
        <3>1. phase = "first" => wait <= 1 /\ wait # 0
            BY <1>0, <1>1, <2>1 DEF Waits, EmptyTurn
        <3>2. WIDTH <= 160 /\ WIDTH \in Nat
            BY PipelineAssumption
        <3> QED
            BY <1>0, <1>1, <1>2, <3>1, <3>2 DEF Progress, Waits
    <2>4. sprite_x' \in Nat /\ 1 <= sprite_x' /\ sprite_x' <= 168
        BY <1>1, <1>2, <2>1, <2>2, <2>3
    <2>5. window_x' = sprite_x' - 1
        <3>1. CASE sprite_x = 0
            BY <1>1, <1>2, <2>1, <2>4, <3>1
        <3>2. CASE sprite_x # 0
            <4>1. window_x + wait = sprite_x' - 1
                BY <1>1, <1>2, <2>1, <3>2
            <4> QED
                BY <1>1, <2>4, <4>1
        <3> QED
            BY <3>1, <3>2
    <2>6. WindowBegins <=> (window_enable /\ ~ in_window /\ sprite_x' = wx + 1)
        BY <1>1, <1>2, <2>4, <2>5 DEF WindowBegins
    <2>7. CASE WindowBegins
        <3>1. stage' = "window" /\ in_window' = TRUE /\ x' = x + Advance /\ phase' = phase /\ subtile' = subtile
            BY <2>7 DEF ShiftPixels, At
        <3>2. Advance = IF phase = "first" THEN 0 ELSE wait
            BY DEF Advance
        <3>3. /\ phase' = "discard" => sprite_x' = x'
              /\ phase' = "draw" => sprite_x' = x' + 8
              /\ phase' = "first" => sprite_x' = 1
            BY <1>1, <1>2, <2>1, <2>3, <3>1, <3>2
        <3>4. phase' # "first" => subtile' = scx' % 8
            BY <1>1, <2>1, <3>1
        <3>5. sprite_x' = wx' + 1 /\ window_enable' /\ sprite_x' > wx' /\ wx' < 167
            BY <1>1, <1>2, <2>1, <2>6, <2>7
        <3>6. wx' = 0 => phase' = "first"
            <4>1. wx = 0 => sprite_x = 0
                BY <1>2, <2>1, <2>6, <2>7
            <4>2. sprite_x = 0 => phase = "first"
                BY <1>2, <2>1, <2>2, <2>3
            <4> QED
                BY <1>1, <3>1, <4>1, <4>2
        <3>7. window_x' = IF sprite_x' = 0 THEN 255 ELSE sprite_x' - 1
            <4>1. sprite_x' # 0
                BY <2>4
            <4> QED
                BY <2>5, <4>1, Zenon
        <3>8. InStep'
            BY <3>1, <3>3, <3>4, <3>5, <3>6, <3>7 DEF InStep
        <3> QED
            BY <3>1, <3>8
    <2>8. CASE ~ WindowBegins
        <3>1. in_window' = in_window
            BY <2>8 DEF ShiftPixels
        <3>2. in_window' <=> (window_enable /\ sprite_x' > wx)
            BY <1>1, <1>2, <2>1, <2>6, <2>8, <3>1
        <3>3. Advance = IF phase = "first" THEN 0 ELSE wait
            BY DEF Advance
        <3>4. /\ phase = "discard" => sprite_x' = x + Advance /\ x + Advance <= 8
              /\ phase = "draw" => sprite_x' = x + Advance + 8
              /\ phase = "first" => sprite_x' = 1
              /\ x + Advance \in Nat
            BY <1>1, <1>2, <2>1, <2>2, <2>3, <3>3
        <3>5. /\ InStep'
              /\ phase' = "first" <=> phase = "first"
              /\ phase # "first" => subtile' = subtile
              /\ stage' # "window"
            <4>1. CASE bg_count = wait
                <5>1. stage' = "refill" /\ x' = x + Advance /\ phase' = phase /\ subtile' = subtile
                    BY <2>8, <4>1 DEF ShiftPixels, At
                <5>2. phase # "first"
                    <6>1. phase = "first" => bg_count = 8
                        BY <1>0, <1>1 DEF Progress
                    <6> QED
                        BY <2>3, <4>1, <6>1
                <5>3. subtile' = scx' % 8
                    BY <1>1, <2>1, <5>1, <5>2
                <5>4. window_x' = IF sprite_x' = 0 THEN 255 ELSE sprite_x' - 1
                    <6>1. sprite_x' # 0
                        BY <2>4
                    <6> QED
                        BY <2>5, <6>1, Zenon
                <5>5. in_window' <=> (window_enable' /\ sprite_x' > wx')
                    BY <1>1, <3>2
                <5>6. window_enable' => wx' < 167
                    BY <1>1, <2>1
                <5>7. (phase' = "discard" => sprite_x' = x') /\ (phase' = "draw" => sprite_x' = x' + 8)
                    BY <3>4, <5>1
                <5>8. phase' # "first" /\ stage' # "window" /\ stage' # "pixels"
                    BY <5>1, <5>2
                <5>9. InStep'
                    BY <5>3, <5>4, <5>5, <5>6, <5>7, <5>8, Zenon DEF InStep
                <5> QED
                    BY <5>1, <5>9
            <4>2. CASE bg_count # wait
                <5>1. EndTurn(x + Advance)
                    BY <2>8, <4>2 DEF ShiftPixels
                <5> HIDE DEF Advance
                <5>2. UNCHANGED <<scx, wx, window_enable>>
                    BY <1>1
                <5>3. /\ InStep'
                      /\ phase' = "first" <=> phase = "first"
                      /\ phase # "first" => subtile' = subtile
                      /\ stage' \in {"scroll", "top", "end"}
                    BY <1>2, <2>1, <2>4, <2>5, <3>2, <3>4, <5>1, <5>2, TurnInStep
                <5> QED
                    BY <5>3
            <4> QED
                BY <4>1, <4>2
        <3>6. Taken' = Taken + wait /\ WindowTaken' = WindowTaken + wait
            BY <1>1, <1>2, <3>5, TurnTaken
        <3>7. ASSUME ~ in_window PROVE InBackground'
            BY <1>1, <1>2, <2>0, <3>6, <3>7, BackgroundMoves
        <3>8. ASSUME in_window PROVE InWindow'
            BY <1>1, <1>2, <2>0, <3>6, <3>8, WindowMoves
        <3> QED
            BY <3>1, <3>5, <3>7, <3>8
    <2> QED
        BY <2>7, <2>8
<1> QED
    BY <1>1, <1>3, <1>4 DEF PlaceInv

\* The end of a turn in which no pixel was taken after those of the FIFO
LEMMA FetchedInStep ==
    ASSUME LineInv, FetchInv, PlaceInv, ~ written, stage \in {"window", "refill"}, EndTurn(x),
           UNCHANGED <<scx, wx, window_enable, in_window, window_x, sprite_x>>
    PROVE  /\ InStep'
           /\ phase' = "first" <=> phase = "first"
           /\ Taken' = Taken /\ WindowTaken' = WindowTaken
           /\ stage' \in {"scroll", "top", "end"}
<1>1. InStep
    BY DEF PlaceInv
<1>2. /\ window_enable => wx < 167
      /\ window_x = IF sprite_x = 0 THEN 255 ELSE sprite_x - 1
      /\ phase = "first" => sprite_x = 1
      /\ phase = "discard" => sprite_x = x
      /\ phase = "draw" => sprite_x = x + 8
      /\ phase # "first" => subtile = scx % 8
      /\ in_window <=> (window_enable /\ sprite_x > wx)
    BY <1>1 DEF InStep
<1>3. sprite_x \in Nat /\ x \in Nat /\ wx \in Nat
    BY PlaceNumbers
<1>4. phase \in {"first", "discard", "draw"} /\ (phase = "discard" => 1 <= x /\ x <= 8)
    BY DEF LineInv, PlaceOK, Progress
<1>5. 1 <= sprite_x
    BY <1>2, <1>3, <1>4
<1>6. window_x = sprite_x - 1
    BY <1>2, <1>3, <1>5
<1>7. /\ InStep'
      /\ phase' = "first" <=> phase = "first"
      /\ phase # "first" => subtile' = subtile
      /\ stage' \in {"scroll", "top", "end"}
    BY <1>2, <1>3, <1>4, <1>5, <1>6, TurnInStep
<1>8. sprite_x' = sprite_x + 0 /\ Taken \in Nat /\ WindowTaken \in Int
    BY <1>3, PlaceNumbers
<1>9. Taken' = Taken + 0 /\ WindowTaken' = WindowTaken + 0
    BY <1>7, <1>8, TurnTaken
<1> QED
    BY <1>7, <1>8, <1>9

\* The window starts with its first column (gb_ppu.cpp:344-361).
LEMMA SwitchToWindowPlace ==
    ASSUME LineInv, FetchInv, PlaceInv, SwitchToWindow
    PROVE  PlaceInv'
<1>1. /\ stage = "window" /\ EndTurn(x) /\ layer' = "window" /\ col' = 8 * 0 /\ bg_count' = 8 /\ tile_x' = 1
      /\ UNCHANGED <<scx, wx, window_enable, in_window, window_x, sprite_x, written>>
    BY DEF SwitchToWindow, FetchTile, registers, latched
<1>2. stage' \in {"scroll", "top", "end"}
    BY <1>1 DEF EndTurn, At
<1>3. in_window
    BY <1>1 DEF LineInv, NotTooLate
<1>4. ASSUME ~ written PROVE InStep' /\ InWindow'
    <2>1. /\ InStep' /\ Taken' = Taken /\ WindowTaken' = WindowTaken
        BY <1>1, <1>4, FetchedInStep
    <2>2. sprite_x = wx + 1 /\ (wx = 0 => phase = "first")
        BY <1>1, <1>4 DEF PlaceInv, InStep
    <2>3. sprite_x \in Nat /\ wx \in Nat
        BY PlaceNumbers
    <2>4. wx = 0 => Taken = sprite_x
        BY <2>2, <2>3 DEF Taken
    <2>5. WindowTaken = 0
        BY <2>2, <2>3, <2>4 DEF WindowTaken
    <2>6. 8 * tile_x' = (WindowTaken' + bg_count') % 256 /\ col' = WindowTaken' % 256
        BY <1>1, <2>1, <2>5
    <2> QED
        BY <1>1, <2>1, <2>6 DEF InWindow
<1> QED
    BY <1>1, <1>2, <1>3, <1>4 DEF PlaceInv

\* The next tile begins where the one before it ended (gb_ppu.cpp:363-374).
LEMMA RefillPlace ==
    ASSUME LineInv, FetchInv, PlaceInv, Refill
    PROVE  PlaceInv'
<1>1. /\ stage = "refill" /\ EndTurn(x) /\ bg_count' = 8
      /\ \/ /\ in_window \/ bg_enable
            /\ layer' = (IF in_window THEN "window" ELSE "bg") /\ col' = 8 * tile_x /\ tile_x' = (tile_x + 1) % 32
         \/ /\ ~ in_window /\ ~ bg_enable
            /\ layer' = "blank"
      /\ UNCHANGED <<scx, wx, window_enable, bg_enable, in_window, window_x, sprite_x, written>>
    BY DEF Refill, FetchTile, registers, latched
<1>2. stage' \in {"scroll", "top", "end"}
    BY <1>1 DEF EndTurn, At
<1>3. bg_count = 0
    BY <1>1 DEF PlaceInv
<1>4. /\ Taken \in Nat /\ FirstColumn \in Nat /\ WindowTaken \in Int /\ tile_x \in Nat /\ tile_x <= 31
      /\ FirstColumn' = FirstColumn
    BY <1>1, PlaceNumbers DEF FirstColumn
<1>5. 8 * ((tile_x + 1) % 32) = (8 * tile_x + 8) % 256
    BY <1>4, Columns
<1>6. ASSUME ~ written
      PROVE  InStep' /\ (~ in_window' => InBackground') /\ (in_window' => InWindow')
    <2>1. InStep' /\ Taken' = Taken /\ WindowTaken' = WindowTaken
        BY <1>1, <1>6, FetchedInStep
    <2>2. ASSUME ~ in_window PROVE InBackground'
        <3>1. layer' = IF bg_enable' THEN "bg" ELSE "blank"
            BY <1>1, <2>2
        <3>2. ASSUME bg_enable
              PROVE  /\ 8 * tile_x' = (FirstColumn' + Taken' + bg_count' - 8) % 256
                     /\ Taken' + bg_count' >= 8
                     /\ col' = (FirstColumn' + Taken' - 8) % 256
            <4>1. InBackground
                BY <1>1, <1>6, <2>2 DEF PlaceInv
            <4>2. 8 * tile_x = (FirstColumn + Taken + 0 - 8) % 256
                BY <1>3, <3>2, <4>1 DEF InBackground
            <4>3. col' = 8 * tile_x /\ tile_x' = (tile_x + 1) % 32
                BY <1>1, <3>2
            <4> HIDE DEF Taken, FirstColumn
            <4>4. FirstColumn + Taken + 0 - 8 = FirstColumn + Taken - 8 /\ FirstColumn + Taken - 8 \in Int
                BY <1>4
            <4>5. 8 * tile_x' = (((FirstColumn + Taken - 8) % 256) + 8) % 256
                BY <1>5, <4>2, <4>3, <4>4, Zenon
            <4>6. 8 * tile_x' = ((FirstColumn + Taken - 8) + 8) % 256
                <5>1. (((FirstColumn + Taken - 8) % 256) + 8) % 256 = ((FirstColumn + Taken - 8) + 8) % 256
                    BY <4>4, Wraps
                <5> QED
                    BY <4>5, <5>1, Zenon
            <4>7. (FirstColumn + Taken - 8) + 8 = FirstColumn' + Taken' + bg_count' - 8
                BY <1>1, <1>4, <2>1
            <4>8. 8 * tile_x' = (FirstColumn' + Taken' + bg_count' - 8) % 256
                BY <4>6, <4>7, Zenon
            <4>9. col' = (FirstColumn' + Taken' - 8) % 256
                BY <1>4, <2>1, <4>2, <4>3, <4>4, Zenon
            <4>10. Taken' + bg_count' >= 8
                BY <1>1, <1>4, <2>1
            <4> QED
                BY <4>8, <4>9, <4>10, Zenon
        <3> QED
            BY <1>1, <3>1, <3>2, Zenon DEF InBackground
    <2>3. ASSUME in_window PROVE InWindow'
        <3>1. InWindow
            BY <1>1, <1>6, <2>3 DEF PlaceInv
        <3>2. 8 * tile_x = (WindowTaken + 0) % 256
            BY <1>3, <3>1 DEF InWindow
        <3>3. layer' = "window" /\ col' = 8 * tile_x /\ tile_x' = (tile_x + 1) % 32
            BY <1>1, <2>3
        <3> HIDE DEF WindowTaken
        <3>4. WindowTaken + 0 = WindowTaken
            BY <1>4
        <3>5. col' = WindowTaken' % 256
            BY <2>1, <3>2, <3>3, <3>4, Zenon
        <3>6. ((WindowTaken % 256) + 8) % 256 = (WindowTaken + 8) % 256
            BY <1>4, Wraps
        <3>7. 8 * tile_x' = (WindowTaken' + bg_count') % 256
            BY <1>1, <1>5, <2>1, <3>2, <3>3, <3>4, <3>6, Zenon
        <3> QED
            BY <3>3, <3>5, <3>7, Zenon DEF InWindow
    <2> QED
        BY <1>1, <2>1, <2>2, <2>3
<1> QED
    BY <1>1, <1>2, <1>6 DEF PlaceInv

\* SCX modulo 8 pixels go first (gb_ppu.cpp:305-307).
LEMMA DiscardScrolledPlace ==
    ASSUME LineInv, FetchInv, PlaceInv, DiscardScrolled
    PROVE  PlaceInv'
<1>1. /\ stage = "scroll" /\ stage' = "top" /\ Shift(wait) /\ bg_count' = bg_count - wait /\ phase' = "discard" /\ x' = 1
      /\ UNCHANGED <<scx, wx, window_enable, bg_enable, sprites, tile_x, in_window, window_x, sprite_x, subtile, written>>
    BY DEF DiscardScrolled, Shift, At, registers, latched
<1>2. phase = "first" /\ wait = subtile /\ wait <= bg_count
    BY <1>1, PlaceNumbers DEF LineInv, Waits, NumbersOK
<1>3. ASSUME ~ written
      PROVE  InStep' /\ (~ in_window' => InBackground') /\ (in_window' => InWindow')
    <2>0. InStep /\ (~ in_window => InBackground) /\ (in_window => InWindow)
        BY <1>1, <1>3 DEF PlaceInv
    <2>1. sprite_x = 1 /\ wx \in Nat /\ subtile \in Nat /\ wait \in Nat
        BY <1>1, <1>2, <2>0, PlaceNumbers DEF InStep
    <2>2. InStep'
        BY <1>1, <2>0, <2>1 DEF InStep
    <2>3. Taken = sprite_x /\ Taken' = sprite_x + subtile
        BY <1>1, <1>2, <2>1 DEF Taken
    <2>4. Taken' = Taken + wait
        BY <1>2, <2>1, <2>3
    <2>5. ASSUME in_window PROVE InWindow'
        <3>1. wx = 0
            BY <2>0, <2>1, <2>5 DEF InStep
        <3>2. WindowTaken = 0
            BY <2>1, <2>3, <3>1 DEF WindowTaken
        <3>3. WindowTaken' = sprite_x' - (wx' + 1) + (IF wx' = 0 THEN Taken' - sprite_x' ELSE 0)
            BY DEF WindowTaken
        <3>4. WindowTaken' = wait
            BY <1>1, <1>2, <2>1, <2>3, <3>1, <3>3
        <3>5. WindowTaken' = WindowTaken + wait
            BY <2>1, <3>2, <3>4
        <3> QED
            BY <1>1, <1>2, <2>0, <2>1, <2>5, <3>5, WindowMoves
    <2>6. ASSUME ~ in_window PROVE InBackground'
        BY <1>1, <1>2, <2>0, <2>1, <2>4, <2>6, BackgroundMoves
    <2> QED
        BY <1>1, <2>2, <2>5, <2>6
<1> QED
    BY <1>1, <1>3 DEF PlaceInv

\* Every step of the PPU and of the CPU keeps the places.
LEMMA NextPlace ==
    LineInv /\ FetchInv /\ PlaceInv /\ [LineNext]_pixelVars => PlaceInv'
<1> SUFFICES ASSUME LineInv, FetchInv, PlaceInv, [LineNext]_pixelVars PROVE PlaceInv'
    OBVIOUS
<1>1. CASE EndLine \/ TurnOff
    <2>1. stage' = "idle" /\ window_x' = 255 /\ written' = FALSE
        BY <1>1 DEF EndLine, TurnOff, NoLine
    <2> QED
        BY <2>1 DEF PlaceInv
<1>2. CASE UNCHANGED pixelVars
    <2>1. UNCHANGED <<scx, wx, window_enable, bg_enable, layer, col, bg_count, tile_x, in_window, phase, x, window_x,
                      sprite_x, stage, wait, subtile, written>>
        BY <1>2 DEF pixelVars, registers, latched, fifo, fetcher, place, control
    <2> QED
        BY <2>1 DEF PlaceInv, InStep, InBackground, InWindow, WindowTaken, Taken, FirstColumn
<1>3. CASE StartLine
    <2>1. /\ stage = "idle" /\ stage' = "first_fetch" /\ tile_x' = scx \div 8 /\ (window_enable' => wx < 167)
          /\ UNCHANGED <<scx, wx, window_x, written>>
        BY <1>3 DEF StartLine, At, registers, place
    <2> QED
        BY <2>1 DEF PlaceInv
<1>4. CASE AwaitSprite
    BY <1>4, SamePlace DEF AwaitSprite, At, registers, latched, fifo, fetcher, place
<1>5. CASE FetchSprite
    BY <1>5, SamePlace DEF FetchSprite, At, registers, latched
<1>6. CASE WriteBetween
    <2>1. stage = "idle" /\ UNCHANGED <<stage, window_x, written>>
        BY <1>6 DEF WriteBetween, place, control
    <2> QED
        BY <2>1 DEF PlaceInv
<1>7. CASE (\E value \in ScxValues : WriteScx(value)) \/ (\E value \in WxValues : WriteWx(value))
    <2>1. stage # "idle" /\ written' = TRUE /\ UNCHANGED <<stage, bg_count>>
        BY <1>7 DEF WriteScx, WriteWx, Suspended, fifo
    <2> QED
        BY <2>1 DEF PlaceInv
<1> QED
    BY <1>1, <1>2, <1>3, <1>4, <1>5, <1>6, <1>7, FirstTilePlace, AwaitPixelsPlace, ShiftPixelsPlace,
       SwitchToWindowPlace, RefillPlace, DiscardScrolledPlace DEF LineNext, Draw

\* As long as SCX and WX are not written, the FIFO and the fetcher are where the
\* pixels that were taken say, in the background and then in the window.
THEOREM PlaceInvariant == PixelSpec => []PlaceInv
<1>1. LineInit => PlaceInv
    BY DEF LineInit, PlaceInv
<1> QED
    BY <1>1, NextPlace, LineInvariant, FetchInvariant, PTL DEF PixelSpec

\* Every pixel of a line on which SCX and WX are not written comes from the
\* column of the background or of the window that they select, for every width
\* of the line, every value of the registers and all sprites (gb_ppu.cpp:190-464).
THEOREM PixelsStayInPlace == PixelSpec => []PixelsInPlace
<1>1. LineInv /\ FetchInv /\ PlaceInv => PixelsInPlace
    <2> SUFFICES ASSUME LineInv, FetchInv, PlaceInv, stage = "pixels", phase = "draw", ~ written,
                        NEW i \in 0..(wait - 1)
                 PROVE  /\ layer = Source(x + i)[1]
                        /\ layer # "blank" => (col + i) % 256 = Source(x + i)[2]
        BY DEF PixelsInPlace
    <2>1. /\ scx \in Nat /\ scx <= 255 /\ wx \in Nat /\ sprite_x \in Nat /\ x \in Nat /\ wait \in Nat /\ wait <= bg_count
          /\ bg_count \in Nat /\ bg_count <= 8 /\ subtile \in Nat /\ subtile <= 7
        BY PlaceNumbers DEF LineInv, Waits, NumbersOK
    <2>2. x + wait <= 160
        <3>1. x + wait <= WIDTH /\ WIDTH <= 160 /\ WIDTH \in Nat
            BY PipelineAssumption DEF LineInv, Waits
        <3> QED
            BY <2>1, <3>1
    <2>3. i \in Nat /\ i < wait /\ i < bg_count
        BY <2>1
    <2>4. InStep /\ (~ in_window => InBackground) /\ (in_window => InWindow)
        BY DEF PlaceInv
    <2>5. /\ sprite_x = x + 8 /\ subtile = scx % 8
          /\ in_window <=> (window_enable /\ sprite_x > wx)
          /\ window_enable /\ ~ in_window => sprite_x + wait <= wx + 1
        BY <2>4 DEF InStep
    <2>6. Taken = x + 8 + subtile
        BY <2>5 DEF Taken
    <2> DEFINE inWindow == window_enable /\ x + i + 7 >= wx
               shift == IF wx = 0 THEN scx % 8 ELSE 0
    <2>7. inWindow <=> in_window
        BY <2>1, <2>3, <2>5
    <2>8. Source(x + i) = IF inWindow THEN <<"window", x + i + 7 - wx + shift>>
                          ELSE IF bg_enable THEN <<"bg", (scx + (x + i)) % 256>> ELSE <<"blank", 0>>
        BY Zenon DEF Source
    <2> HIDE DEF inWindow
    <2>9. CASE in_window
        <3>1. layer = "window" /\ col = WindowTaken % 256
            BY <2>4, <2>9 DEF InWindow
        <3>2. WindowTaken = x + 7 - wx + shift /\ shift \in Nat /\ shift <= 7 /\ sprite_x > wx
            BY <2>1, <2>5, <2>6, <2>9 DEF WindowTaken
        <3> HIDE DEF shift
        <3>3. col = x + 7 - wx + shift /\ (col + i) % 256 = x + i + 7 - wx + shift
            BY <2>1, <2>2, <2>3, <2>5, <3>1, <3>2
        <3>4. Source(x + i) = <<"window", x + i + 7 - wx + shift>>
            BY <2>7, <2>8, <2>9
        <3>5. Source(x + i)[1] = "window" /\ Source(x + i)[2] = x + i + 7 - wx + shift
            BY <3>4
        <3> QED
            BY <3>1, <3>3, <3>5, Zenon
    <2>10. CASE ~ in_window /\ bg_enable
        <3>1. layer = "bg"
            BY <2>4, <2>10 DEF InBackground
        <3>2. Taken + bg_count > 8
            BY <2>1, <2>3, <2>6
        <3>3. col = (FirstColumn + Taken - 8) % 256
            BY <2>4, <2>10, <3>2 DEF InBackground
        <3>4. FirstColumn + Taken - 8 = scx + x
            BY <2>1, <2>5, <2>6 DEF FirstColumn
        <3>5. (col + i) % 256 = (scx + (x + i)) % 256
            <4>1. (((scx + x) % 256) + i) % 256 = ((scx + x) + i) % 256
                <5>1. scx + x \in Int
                    BY <2>1
                <5> QED
                    BY <2>3, <5>1, Wraps
            <4>2. (scx + x) + i = scx + (x + i)
                BY <2>1, <2>3
            <4> QED
                BY <3>3, <3>4, <4>1, <4>2, Zenon
        <3>6. Source(x + i) = <<"bg", (scx + (x + i)) % 256>>
            BY <2>7, <2>8, <2>10, Zenon
        <3>7. Source(x + i)[1] = "bg" /\ Source(x + i)[2] = (scx + (x + i)) % 256
            BY <3>6
        <3> QED
            BY <3>1, <3>5, <3>7, Zenon
    <2>11. CASE ~ in_window /\ ~ bg_enable
        <3>1. layer = "blank"
            BY <2>4, <2>11 DEF InBackground
        <3>2. Source(x + i) = <<"blank", 0>>
            BY <2>7, <2>8, <2>11, Zenon
        <3>3. Source(x + i)[1] = "blank"
            BY <3>2
        <3> QED
            BY <3>1, <3>3
    <2> QED
        BY <2>9, <2>10, <2>11
<1> QED
    BY <1>1, LineInvariant, FetchInvariant, PlaceInvariant, PTL

\* Of the sprites that cover a pixel the first one shows, for all contents of OAM
\* and every number of sprites on a line; and only on a line on which the CPU
\* wrote to SCX or WX can the columns be counted differently (gb_ppu.cpp:61-90,
\* 171, 313-326, 402-415).
THEOREM SpritesStayInPriority == PixelSpec => []SpritesInPriority
<1>1. LineInv /\ SpriteInv /\ PlaceInv => SpritesInPriority
    <2> SUFFICES ASSUME LineInv, SpriteInv, PlaceInv, stage = "pixels", phase = "draw" PROVE SpritesInPriority
        BY DEF SpritesInPriority
    <2>1. ~ written => sprite_x = x + 8
        BY DEF PlaceInv, InStep
    <2>2. x \in Nat /\ sprite_x \in Nat
        BY DEF LineInv, NumbersOK
    <2>3. ASSUME sprite_x = x + 8, NEW i \in 0..(wait - 1) PROVE obj[i] = Winner(sprite_x + i)
        <3>1. sprite_x >= 8
            BY <2>2, <2>3
        <3> QED
            BY <3>1, ShownIsWinner
    <2> QED
        BY <2>1, <2>3 DEF SpritesInPriority
<1> QED
    BY <1>1, LineInvariant, SpriteInvariant, PlaceInvariant, PTL

-----------------------------------------------------------------------------
(* Both units                                                              *)

\* The units work one at a time, each of them as it does alone.
THEOREM UnitsWorkAsAlone == UnitSpec => Spec /\ PixelSpec
<1>1. UnitInit => Init /\ LineInit
    BY DEF UnitInit
<1>2. [UnitNext]_unitVars => [Next]_vars /\ [LineNext]_pixelVars
    <2> SUFFICES ASSUME [UnitNext]_unitVars PROVE [Next]_vars /\ [LineNext]_pixelVars
        OBVIOUS
    <2>1. CASE DmaWorks /\ Next
        BY <2>1, Zenon DEF DmaWorks
    <2>2. CASE LineWorks /\ LineNext
        BY <2>2, Zenon DEF LineWorks
    <2>3. CASE UNCHANGED unitVars
        <3>1. UNCHANGED vars /\ UNCHANGED pixelVars
            BY <2>3, Zenon DEF unitVars
        <3> QED
            BY <3>1, Zenon
    <2> QED
        BY <2>1, <2>2, <2>3, Zenon DEF UnitNext
<1> QED
    BY <1>1, <1>2, PTL DEF UnitSpec, Spec, PixelSpec

\* The variables of both units keep their types.
THEOREM UnitTypeCorrect == UnitSpec => []UnitTypeOK
BY UnitsWorkAsAlone, DmaTypeCorrect, LineTypeCorrect, PTL DEF UnitTypeOK
=============================================================================
