# A TLA+ model of CoroGB

CoroGB is a Game Boy emulator written with C++20 coroutines. The CPU, the picture processing unit (PPU) and the OAM
DMA unit are three coroutines; each of them `co_await`s a number of cycles or an interrupt, and a scheduler resumes
whichever is due next. Everything runs in one thread, so there are no data races. What is hard is *order*: which unit
goes first in a cycle, what a unit that triggers an interrupt finds changed when the nested call returns, whether a
wake-up that was registered twice (in the queue and with an interrupt) is withdrawn once, and what registers mean in
the cycles between a change and the callback that makes it visible. The modules here are about that; about state that is
updated piece by piece, as the mappings of cartridges, the pixels of a line and the bytes of a number are; and about what
is left behind when something fails half-way: a save file, a cartridge, an emulator.

All paths below are relative to `src/` of the repository.

## The system

| Part | State | Operations | Interacts with |
|---|---|---|---|
| Cycle scheduler (`gb_cycle_scheduler.{h,cpp}`) | 32-bit counter, sorted queue of (cycle, priority, function), cached next wake-up, current unit, end of the tick | `tick`, `queue`, `cycles`, `interruptible_cycles` | resumes every coroutine; called by the host |
| One-shot interrupts (`gb_interrupt.h`) | `is_triggered`, the bound coroutine handle or callback | `trigger`, `reset`, `co_await` | `cpu_wake`, `lcd_on_off`, `dma_trigger`; the trigger runs the woken coroutine as a nested call |
| Sorted vector (`utils.h:14-210`) | vector and comparator | `push`, `find`, `erase`, `pop_back` | queue of the scheduler, mappings of the memory mapper |
| PPU control (`gb_ppu.cpp:80-177, 491-735`) | LCDC, STAT, LY, LYC; level of the STAT and V-blank lines; position in the frame loop; queued callbacks | `run`, `update_stat`, `update_interrupt_flags`, register writes | sets IF, wakes the CPU, calls the display, maps and unmaps OAM and VRAM |
| Pixel pipeline (`gb_ppu.cpp:178-490`) | FIFOs, fetcher, sprites of the line | runs inside `run` | reads VRAM and OAM, writes the screen buffer |
| OAM DMA (`gb_ppu.cpp:737-780`) | FF46 and its shadow, two waits | `run_dma`, write of FF46 | reads memory, writes OAM, blocks OAM for the CPU |
| CPU (`gb_cpu.{h,cpp}`) | registers, IME and its delayed enable, HALT | fetch, execute, interrupt dispatch | reads and writes through the mapper every 4 cycles, waits for `cpu_wake` |
| Memory mapper (`gb_memory_mapper.{h,cpp}`) | sorted mappings, boot ROM overlay, WRAM, HRAM, IF, IE, DIV, joypad register | `read8`, `write8`, `set_mapping`, `input` | calls PPU registers and cartridge handlers |
| Cartridges (`gb_cart.{h,cpp}`) | registers of the controller, ROM, RAM, the mapper it is mapped to | register writes, `map`, `unmap`, load and save | installs mappings; outlives the emulator it is mapped to |
| Emulator (`gb_emu.{h,cpp}`) | owns the parts | `start`, `tick`, `input` | the host |
| Window and main loop (`windows.cpp`) | emulator, cartridge, pacing of emulated against real time | menu (load, reset, exit), keys, `tick` as the clock asks for it | the host calls `tick` again and again |
| `single_future` (`single_future.h`) | result or exception of a coroutine | `get` | the run loops |

What makes each part right:

* *Scheduler*: every entry runs at exactly its cycle, in the order of time and unit, however the counter wraps and
  whatever fast path is taken; nobody is forgotten; a coroutine that runs within another one's trigger does not move the clock.
* *PPU*: registers and interrupt lines catch up with the frame loop, interrupts are requested once per edge, a CPU that
  halts is not left asleep, the LCD can be turned off and on at any moment.
* *Pixel pipeline*: every pixel comes from the column that SCX and WX select and from the sprite with the highest priority, the
  FIFO never runs dry, and a line ends within its 456 cycles, whatever the CPU writes meanwhile.
* *DMA*: the page requested last is copied, after the time it takes, and OAM is given back.
* *CPU*: it stays on its 4-cycle grid, sleeps on no pending interrupt, and dispatch, HALT and the delay of EI disturb one
  another in no order of instructions and requests. What one instruction leaves in the flags is what the next byte of a number needs.
* *Mapper*: at every address the narrowest window answers, with what was mapped there last.
* *Cartridges*: what is mapped is what the registers select, whatever the order of the writes.
* *Life cycle*: a cartridge is unmapped (and its RAM saved) before it goes, and is as good as new when it is used again; the
  save file holds what was reached if it could be written, and nothing half-written is taken for a saved game.
* *Main loop*: the game keeps up with the clock, and never runs ahead of it by more than a tick.

## Modules

| Module | Models | Extends, used by |
|---|---|---|
| `EventTimeline` | abstract specification: what a discrete-event scheduler promises | instantiated by `CycleScheduler` |
| `CycleScheduler` | scheduler, interrupts, sorted queue, and the coroutines as its clients | `MCCycleScheduler`, `CycleSchedulerProofs` |
| `CycleSchedulerProofs` | types, sorted queue, lower bound `next`; waits and wake-ups match; refinement of `EventTimeline` | |
| `Ppu` | frame loop, `update_stat` and its callbacks, interrupt lines, the CPU's side of them | `MCPpu`, `PpuProofs` |
| `PpuProofs` | registers and interrupt lines follow the frame loop; modes and V-blank in sequence; line 153 | |
| `PixelPipeline` | one line of the screen: sprites, FIFO, fetcher, window, waits, writes of SCX and WX | `PpuUnits`, `MCPixelPipeline` |
| `OamDma` | the DMA unit, the write of FF46, OAM mapping | `PpuUnits`, `MCOamDma` |
| `PpuUnits` | the two units under the frame loop, one at a time | composes `OamDma` and `PixelPipeline`; `MCPpuUnits`, `PpuUnitsProofs` |
| `PpuUnitsProofs` | DMA copies the last page, on time, and gives OAM back; a line keeps its length, every pixel is from its place, and the right sprite shows | |
| `Cart` | register writes of MBC1, MBC2, MBC3, MBC5; map, unmap, reuse | `CartSlot`, `MCCart` |
| `Mmm01` | register writes, locks and multiplexer of the MMM01; map, unmap, reuse | `CartSlot`, `MCMmm01` |
| `CartSlot` | the choice of the controller by the ROM file | composes `Cart` and `Mmm01`; `MCCartSlot`, `CartSlotProofs` |
| `CartSlotProofs` | the mapped banks of ROM and RAM are the selected ones, of every controller; an MMM01 game stays in its block | |
| `CpuInterrupts` | interrupt check and dispatch, EI, DI, RETI, HALT, who wakes the CPU | `CpuCore`, `CpuInterruptsProofs` |
| `CpuInterruptsProofs` | all safety properties of `CpuInterrupts` | |
| `CpuArithmetic` | the instructions that compute, in calculations on two bytes | `CpuCore` |
| `MemoryMapper` | sorted mappings, boot ROM overlay, DIV | `CpuCore`, `MemoryMapperProofs` |
| `MemoryMapperProofs` | the vector stays sorted, lookup finds the narrowest window, DIV | |
| `CpuCore` | the CPU and the mapper, one part at a time | composes the three; `MCCpuCore`, `CpuCoreProofs` |
| `CpuCoreProofs` | the calculations are right for all numbers; each part works as it does alone | |
| `Session` | load, reset, exit; the save file; exceptions, kills, files that do not open, a full disk | `Host` |
| `MainLoop` | how many cycles are run to keep up with the clock; speed-up | `Host` |
| `Host` | the program around the emulator, one part at a time | composes the two; `MCHost`, `HostProofs` |
| `HostProofs` | save files, dangling cartridges, pacing | |

Definitions marked `mutant` in a comment are faulty variants of the definition that follows them. They are used by no
specification; each one is listed in `PROJECT.json` with the property that fails when it takes the definition's place.

### CycleScheduler

Control is always with the innermost frame of a call stack, `stack`. `Pop` is one iteration of the loop in `tick()` up
to the call of the queued function, which resumes a coroutine or starts the callback of `update_stat`; a coroutine then
goes on with `AwaitCycles` (fast path or suspension), `AwaitInterruptible` (the same, and registered with the
interrupt), `AwaitInterrupt`, `Trigger` (runs the woken coroutine nested) or `Post` (the queue entry of `update_stat`),
until it suspends and control returns to whoever is below it. `EndTick` is the return of `tick()`. `phase` records what
a coroutine did since it last got control, as far as the code's order matters: the PPU waits `AfterPost` after an
`update_stat`, and the CPU and the DMA do not trigger anything before their first wait.

The counter wraps at `2 * H` instead of 2^32, and the comparisons are those of the code (the signed difference to the
*current* counter). `IdleLimit` bounds the time for which an empty queue is ticked: `next` is only refreshed when an entry
runs, and with an empty queue (LCD off, CPU halted, no DMA) it would after 2^31 cycles, nine minutes of emulated time,
compare as lying in the future. That is listed as a hazard and not covered.

`TimeStandsStillInNestedCalls` has one exception. The callback of `update_stat` is called by `tick()` while `current_unit` is
still the unit that ran last. If that was the CPU, and the callback wakes it (`gb_ppu.cpp:696`, from 732), the CPU may take the fast path and run
on before the callback returns, which has nothing left to do by then. A coroutine that this CPU triggers in turn takes no time again.

`cpu_wake` is an interrupt that may be triggered while nobody waits; HALT resets it before it waits, which is
`AwaitInterrupt`. What the CPU checks before it halts is in `Ppu`.

`TimelineRefinement` maps the queue to the set of pending events of `EventTimeline`, each with the cycles left until it
is due. Fast paths map to `Elapse`, `Pop` to `Fire`, an interrupt that withdraws the entry to `Cancel`, and the
bookkeeping of `next` to stuttering.

### Ppu

Here the scheduler is replaced by what it guarantees: `wait` is the number of cycles until the PPU's entry is due,
`posts` are the queued callbacks, and `Elapse` lets time pass up to the next cycle in which something is due. The CPU
goes before the PPU in a cycle, as the unit order has it. `pc` names the waits of `ppu::run`; each action is the code
between two waits, including the `update_stat` that starts it and everything that one calls. `Elapse` may stop half way
between `update_stat` and its callback, so that the CPU writes registers in that window too.

The lookup of `awaitable_cycles_interruptible` finds queue entries by cycle and unit alone. A callback that is due in
the same cycle as the wait is taken for the wait (`Mistaken`): the wait ends as if interrupted and the callback is
gone; if the wait really was interrupted, its own entry stays and later resumes the coroutine (`ghost`). The code
runs into this in line 153; see the findings.

The pixel pipeline is a single wait of one of the lengths `Render`; `PixelPipeline` is about it. Writes of registers that do not change LCDC bit 7
are left out, as are the bits of LCDC that only matter to drawing. Two stores of the CPU are at least `Spacing`
cycles apart.

The CPU of this module writes at most once in `Spacing` cycles and halts only when nothing is pending; when it is resumed and what
it does then is in `CpuInterrupts`.

### PixelPipeline

The code has three copies of one loop: for the first pixel, for the seven that are left of the screen, and for the 160 of the
screen. `phase` says which one runs, `stage` which `co_await` the PPU is in, `wait` its length; an action is the code from
one `co_await` to the next. The copies differ in how far they go (`Room`), in where they end (`EndTurn`), and in that only
the last one starts the fetch of a tile anew after a sprite.

Colours, palettes and the decoding of tiles are left out. Tiles are eight columns in a row, so that what the FIFO holds of
the background is known from the layer and the column of its first pixel (`layer`, `col`); of the sprites, `obj` has for each of
the eight pixels the one that it comes from. `fetch_age` is the clock minus `fetch_start`, up to the 5 cycles that matter.
`WriteScx` and `WriteWx` happen in any wait, and `TurnOff` is the interrupt of any wait. `written` is a history variable:
what a line looks like is claimed of lines during which the CPU left SCX and WX alone, and what is claimed of every line is
that the assertions in the code hold, that sprites keep their order, and that the line ends in time.

WX is uninitialized after the construction of the PPU, so it starts with any value. `SpritesInPriority` has one exception, for a WX of 255 that is
written between the start of the line and its first pixel: the distance of the window is then 0 (gb_ppu.cpp:238), the first
turn shifts nothing, and the sprites of the line are one column off.

### OamDma

`pc` is one of the three waits of `run_dma`. A write of FF46 wakes the unit at rest, interrupts a transfer, or is
remembered if it falls into the first wait (`is_triggered`), in which case the second wait ends at once. `HBlank` is the
part of `update_stat` that gives OAM back in every h-blank and `LCD on`. The page stands for the 160 bytes; the echo of work
RAM is the operator `Mirrored`. `paced` is a history variable: since the unit was idle, no two requests came within the
first wait. With the real spacing of the CPU's stores (8 cycles or more to one address) it always holds, which is
the theorem `StoresAreApart`.

`PpuUnits` puts the DMA unit and the pixel pipeline side by side. They share no state (OAM is read when mode 2
begins, before the pipeline), so a product of the two would only multiply the states; `unit` says which of the two works.

### Cart

The variables of the controller are those of the code; `rom0`, `rom1` and `ram` are the mapped banks (ROM in banks of
16 KiB, RAM in units of 2 KiB), and `written` holds the bytes that the CPU wrote, a history variable to compare with.
`RomFollowsRegisters` decodes those bytes from scratch. Registers of the clock throw ("mbc3 timer not supported"),
after which the emulator makes no more steps: `thrown`. A cartridge is taken to have two banks of ROM at least; a file with one bank would be
accepted and mapped beyond its end.

### Mmm01 and CartSlot

The MMM01 starts in the last banks of the ROM, where a menu is. The menu selects a block of ROM and RAM, locks the bits of
the bank numbers that select it, and sets the map bit, which locks the locks. Its numbers are sets of bits here: a field is
a set of positions (`Low`, `Mid`, `High`), a mask is intersected, and the modulo by a size that is a power of two keeps the lowest
bits. (The detection at `gb_cart.cpp:106-107` only accepts such sizes.) A write is one of the four branches of `handle_write`:
`MmmEnable`, `MmmRomBank`, `MmmRamBank`, `MmmMode`; what each does to the members is an operator of its own (`Enable`, `UpperBits`,
`Mode`), and the rest of the action updates the windows. RAM of 2 KiB, which `map_ram` never maps, counts as none (`NoBank`).

What the code keeps is `WindowsFollowMembers`, with one exception that the property names: while the cartridge is multiplexed, the
lower bank may keep two middle bits of an earlier moment. The comment at `gb_cart.cpp:864-866` says that they read 0 in mode 0, but the
map bit maps them (line 772) whatever the mode is.

`CartSlot` is `cart::construct_mbc_from_rom`: a ROM file gets an MMM01 or one of the controllers of `Cart`. The variables of the controller
that is not there rest in a fixed state.

### CpuInterrupts

`pc` names the `co_await` in which `cpu::run` is suspended: `fetch` (`gb_cpu.cpp:202`), `check` (124), `push_high`,
`recheck` and `push_low` (136-139), `access` (any access of an instruction) and `halted` (613). `wait` is what is left
of it, `additional_cycles` included. An action is the code up to the next `co_await`, so the end of an instruction and the
top of the loop (`NextInstruction`) are part of its last action, as in the code. Interrupt registers are sets of interrupts;
a store is to IF (`FF0F`), to IE (`FFFF`) or elsewhere. All instructions but EI, DI, RETI and HALT are sequences of
up to `MaxAccesses` accesses, with the dummy waits of 4 or 8 cycles that the code has.

The two pushes of a dispatch may overwrite IF or IE, but only one of them: the addresses are not neighbours. The PPU adds
V-blank and STAT at any cycle in which the CPU is not due (the CPU goes first) and wakes a sleeping CPU if something is
pending. A button wakes it too, without requesting an interrupt. The history variables are `started`, `pushed` and `shadow`.

The two flags of the master enable, `enable_interrupts` and `enable_interrupts_delay`, turn out to be equal at every
`co_await` (`DelaySettled`): EI sets them apart, and the top of the loop makes them equal again by skipping the check. That
is how the delay works, and why the assignment in HALT (606) never changes anything.

STOP and unknown opcodes throw, after which the emulator makes no more steps; they are left out here, and a step of `Session`.

### CpuArithmetic

The ALU works on bytes; all that the first byte of a number has to tell the second is in the flags. So each instruction
must set, clear or keep exactly the right ones, which no test of a single instruction shows. A behaviour takes two numbers in HL and DE and
executes one of the usual sequences of instructions for them (`Sequences`), with other instructions between the bytes,
again and again with the flags as they are by then. `Execute8` is one instruction, in the semantics of the code:
`RunAlu` is `run_alu` with its complement and its twice inverted carry, `Step` is INC and DEC, and so on. `CalculationsAgree` compares with
arithmetic on integers: sums, differences, BCD numbers, shifts, comparison, negation.

### MemoryMapper

`mappings` is the vector; `WithMapping`, `WithoutMapping` and `Lookup` are `set_mapping`, `remove_mapping` and
`find_mapping`, `LowerBound` the library function with the comparison of the code. Who maps what is an action each: the constructor of
the PPU, `load_boot_rom`, `map_to` of the cartridge, the handlers of the controller, OAM DMA, h-blank, and the write of
FF50. `shown` is the history: what each party mapped last. `Owner` looks up in it the narrowest window around an address, which is what
the program relies on: the boot ROM lies over the cartridge. DIV is in the same module, with moduli in the proportions of the code.

`CpuCore` puts the three side by side. They meet in an instruction, which is abstract in `CpuInterrupts` (a number of
accesses) and in `MemoryMapper` (someone maps something), so there is no state to share; `part` says which one works.

### Session

`pc` is the place in a handler of the window procedure: the old emulator is destroyed (`Destroy`, which unmaps the
cartridge, which saves RAM: `WriteRam`), the new one gets the boot ROM (`Boot`), the cartridge is made from its files (`Construct`,
after the old cartridge was destroyed) and mapped (`Map`). Handlers are not interrupted by other messages, but each step may
throw, and the process may be killed between two of them (`Kill`). The code looks at no stream: not whether it opened, not
whether it read or wrote. So `Destroy` may leave the file as it is (it did not open for writing) and go on; a full disk takes only the first
`n` blocks of RAM; `NewRam` has the first `got` blocks of the file and zeros after them (0 if it did not open for reading), and a ROM file that is not read is
all zeros, a cartridge without a controller and without RAM. What is checked, with an exception, is that the file is a regular one and long enough.
After an exception the program shows a message box, in whose own loop the menu still works (`doomed`); when it is closed, the
process ends without destructors. A reset without a cartridge and the speed-up key without an emulator dereference an empty
`optional`; the model takes the crash (`MapNothing`, `KeyNothing`), which is one of the things that the program can do then.

RAM is a sequence of blocks. `begun`, `progress` and `damaged` are history: what a save began to write, what RAM held last while a
game used the file, and which files are behind, because of a kill or a save that failed; `misread` says that reading the file failed. After that, the
zeros are the game: what `progress` records follows the new game, and the next save puts it over the good file, without a word to the player. The
properties do not exclude that a failed read costs the saved game, because it does. A program that is started again finds the files as they are (`Restart`).

### MainLoop

`lag` and `elapsed` are the time and the cycles since the measurement began (`sync_time`, `sync_cycles`), in the same unit.
`Poll` is one turn of the inner loop: what is due, the resynchronisation if that is a frame or more, a tick if it is worth one.
`GameFollowsClock` is about each such step. It counts cycles in `ran`, without the wrap-around of the 32-bit counter. That a game is not
more than a frame behind is claimed without speed-up only; with it, `NeverFrameBehind` fails (finding 6).

`Host` puts both side by side: a new game starts a new measurement, which is the initial state of `MainLoop`.

## Runs

| Run | Instance | Shows |
|---|---|---|
| `scheduler` | modulus 24, waits of 1, 2, 3 and 5 cycles, ticks of 4 | order of the queue, lower bound, wake-ups, keys, time in nested calls; refinement of `EventTimeline`, `tick()` returns, sleepers run |
| `ppu` | 2 visible lines, 3 of V-blank, real line lengths | registers, lines, modes, V-blank requests; frames keep coming, and the PPU comes to rest |
| `ppu_frame_length` | 144 and 10 lines | *violated*: finding 1 |
| `ppu_disabled_mode` | as `ppu` | *violated*: finding 2 |
| `units` | DMA: waits of 8 and 40 cycles, requests 4 apart. Line: 32 pixels, up to 3 of 4 sprites, three values of SCX and six of WX | all of the DMA's properties, with stores closer together than the CPU can make them; columns and sprites of a line, its assertions and its length; both units finish |
| `dma_oam_blocked` | stores 8 apart | *violated*: finding 3 |
| `cart` | nine cartridges and seven byte values, an MMM01 and five | ROM and RAM follow the registers; nothing is mapped past its end; a game stays in its block |
| `cpu` | counter modulo 16, two accesses per instruction, bytes with no, one and two interrupts; 17 numbers and 96 BCD numbers; all windows, addresses at and after their ends | grid, wake-ups, dispatch, EI, HALT bug; pending interrupts are taken; calculations; lookup; DIV |
| `host` | four ROMs and two save files; a tick of 10 lines, a frame of 154, a counter that wraps at 512 | save files, dangling cartridges, pacing |
| `cart_mbc5` | one cartridge | *violated*: finding 4 |
| `mmm01_mode` | one MMM01, five byte values | *violated*: finding 5 |
| `speedup_pace` | as `host`, with a counter that does not wrap around within the bounds | *violated*: finding 6 |

Why the bounds are enough. The scheduler only compares times, so what matters is which waits end before, with and after
which others, before and after the counter wraps: with waits of up to 5 cycles and a modulus of 24 all of these happen, and ticks of 4
cycles end before, in and after every one of them. The proofs drop the bounds for the invariants. The PPU runs with the
real cycle numbers and fewer lines; lines differ from one another only where the loop tests for the first, the last
visible, the first of V-blank and the last, and these are all distinct in an instance with 2 + 3 lines. The LYC values
are 0 (line 0, and the LY of line 153) and 1 (a visible line). The lengths in the DMA run keep the order of first wait, spacing and
second wait. The cartridges have sizes below, at and above the number of banks their registers can select, and the bytes reach
every field of every register, with 0 and its neighbours. The MMM01 has the largest ROM, so that every bit of a bank number shows, and a
RAM with one bit less than the register; its bytes enable RAM with and without the map bit, set locks of every sort, turn the
multiplexer on and off and set bits of every field.

The line of the `units` run is shorter than 160 pixels, but has four tiles and the rests of two, with a window that begins left of the
screen, at its first column, inside a tile, where the FIFO runs empty, and beyond the end of the line; sprites overlap, share a
column, hang over the left edge and lie beyond the right one, and one more is on the line than may be (`LIMIT`). SCX has no rest, some and the
largest. The bound on the length of a line is stated for any width and number of sprites.

The numbers of the `cpu` run lie at and next to every carry of a nibble and a byte, the BCD numbers have every
digit that makes or misses a correction. The windows of the mapper are all there are. In the `host` run two ROMs share
a save file and need different sizes of RAM, one has its own, one has no RAM; delays range from one line to more than a frame, and the
counter wraps every three frames.

For interrupts, the counter wraps within every dispatch and several times during HALT; what the CPU looks at is the counter modulo 4
and which interrupts are pending, and the bytes written make the highest (V-blank), the lowest (joypad) and one in between pending
together and alone.

Fairness. `tick()` is called by the main loop again and again, its loop runs until nothing is due, and a resumed
coroutine runs to its next wait because nothing else can run meanwhile: weak fairness of `Tick`, and of the steps inside
of it taken together. `Ppu`, `OamDma`, `PixelPipeline` and `CpuInterrupts` assume that time passes and that what is due runs, which is what the
scheduler's liveness says. No fairness is assumed of the CPU's writes, the buttons or the host's choice of the tick size; nor of anything in
`Session` and `MainLoop`, where a user may always do something else.

`CHECK_DEADLOCK FALSE` is used for the cartridges only: an emulator whose CPU threw does not go on.

## Proofs

TLAPS proves, for every value of the constants that satisfies the named assumptions:

* `CycleSchedulerProofs`, on the queue: `TypeOK`, `QueueInOrder` and `NextIsLowerBound` are invariant. They are not inductive one by
  one: inserting by binary order needs the queue sorted *now*, but the comparator measures from a counter that moves; the fast
  path moves it without looking at the queue, and is harmless only because `next` is a lower bound; and `next` can be compared
  only while it lies less than half a modulus from the end of the tick. `IInv` joins the three and adds that last
  fact, `TickEndsAhead`. The proof has a lemma for each action, on top of lemmas about wrap-around arithmetic
  (`AheadAfter`, `BeforeIsTransitive`) and about inserting into and removing from the queue.
* `CycleSchedulerProofs`, on the coroutines: `WakeUpsMatchAwait`, `KeysAreUnique`, `InterruptedOnlyByTrigger` and
  `TimeStandsStillInNestedCalls`. `Matches` adds to `IInv` that the queue, seen as a set, has one entry for each
  suspended coroutine that waits for a cycle and at most one callback; that a unit registered with its interrupt is one that waits; that
  no coroutine is on the stack and waiting at once; that `current_unit` is the first coroutine on the stack whenever others run within it; and that the callback of `update_stat` is due before the wait that follows it. These theorems assume
  `PpuClients`: the PPU waits interruptibly only, nobody but the CPU wakes it, and the wait after an `update_stat` is longer than the delay of
  its callback. The last part is necessary, as a wait finds its own entry by cycle and unit alone, and the code breaks it in one
  place, `gb_ppu.cpp:513`, where the two delays are equal: that is finding 1. `Ppu` models that wait as the code has it.
* `CycleSchedulerProofs`, the refinement: `ImplementsTimeline`, under the same assumption. `Pop` maps to `Fire` of
  `EventTimeline`, a fast path or the end of a tick to `Elapse` (or stuttering when no time passes), an interrupt that withdraws the entry
  to `Cancel`, new waits and posts to `Schedule`, everything else to stuttering. The invariant is needed for
  the pending events to be a set (`KeysAreUnique`) and for `Fire` to take the earliest of them (`QueueInOrder`).
* `PpuProofs`: for every number of lines, length of the waits, and whatever the CPU writes to LCDC, STAT, LYC, IF and IE, `TypeOK`,
  `RegistersFollowLoop`, `LinesFollowRegisters`, `ModeSequence` and `VBlankRequestedOncePerFrame`. The first two are about moments without a pending
  callback; the inductive invariant `PInv` says for all others which callback the last one is (`Latest`: the one that the loop's present wait posted), how long each
  wait is compared with its callback (`Waits`), what an entry that was withdrawn by mistake leaves behind (`Ghosts`), and, for V-blank, that between the entry of the
  first line and its callback the line is already up (`VBlankIsUp`). It was model-checked before it was proved. That the loop never passes the first wait of
  line 153 is part of it, so that `LastLineIsCutShort` states finding 1 for every value of the constants. The assumption `PowerOn + 6 <= OamSearch`
  is what the code has: after LCD on the start of the line is put six cycles into the past (`gb_ppu.cpp:144-147`).
* `PpuUnitsProofs`, on DMA: however fast the requests come, the page requested last is copied and OAM is given back (invariant
  `Shape`). If they come at least the first wait apart, none is remembered and the transfer takes exactly its duration
  (`OnTime`: the age of the request is what is left of the two waits). With the spacing of the CPU's stores they always do.
* `PpuUnitsProofs`, on the length of a line: `LineKeepsBounds`, for every width, number of sprites and contents of OAM and all writes of SCX and WX. The
  invariant is an account of the cycles: a pixel costs one, a sprite at most eleven, the window six, the first tile five and each
  pixel of SCX one. A further tile costs nothing, because it is fetched while the pixels before it are drawn, unless a sprite
  delays it; what is left to fetch when they are gone (`Owed`) is part of what that sprite cost. `LineInv` states that no more was
  spent than earned (`NotTooLate`), no less than the pixels took (`NotTooEarly`), and where each wait of a turn leaves the loop.
* `PpuUnitsProofs`, on what a line shows: `SpritesInPriority`, whatever is written, and `PixelsInPlace`, as long as SCX and WX are not. `SpriteInv` says that no sprite
  begins left of the next pixel before it is fetched, and that a place of the FIFO from the first column on holds the first sprite that covers it, of those fetched;
  the sprites still to come begin behind the pixels that are taken. `PlaceInv` counts the pixels taken (`Taken`): in the background the tile to fetch is the one after the pixels
  in the FIFO, modulo 256; the window begins when the pixels taken are one more than WX, and counts its own from then on. At the first column
  SCX takes pixels of the window instead. `UnitsWorkAsAlone` carries all theorems over to the composition that is model-checked.
* `CartSlotProofs`, MBC1 to MBC5: for every size of ROM and RAM and all bytes, `RomFollowsRegisters` and `RamFollowsRegisters`. The invariant `Decoded` says that the members
  of a controller are the fields of the bytes written; `NewIsFresh`, that a cartridge which skips the reset does not need it.
  Every write then changes one field of the bank number, and the lemma `Parts` takes the number apart again. For the RAM, `EnableDecoded` relates the enabling byte and the member.
* `CartSlotProofs`, MMM01: for every size of ROM and RAM and all bytes, types are kept and the windows follow the members (`MmmInv`: a cartridge that skips the reset is as
  good as new), and `GameStaysInBlock`, an action property. The latter needs the invariant in two consecutive states: each window is a function of
  the members, and no write of a mapped game changes a locked member. The two middle bits of the lower
  bank are not claimed while they are multiplexed, because the mode changes them.
* `CartSlotProofs`, the slot: the invariants of both families hold whichever cartridges follow each other in an emulator (`SlotInvariant`), and with them `SlotTypeOK`.
* `CpuInterruptsProofs`: every safety property of `CpuInterrupts`, for every size of the counter that is a multiple of 4, every
  `MaxAccesses` and all values written. The inductive invariant adds to them what each wait remembers: a dispatch, that
  what began it is still pending (unless the first push hit a register); HALT, that it began on the grid, so that the
  realignment is right whenever it ends; an access, that there is one left. There is a lemma for each action.

* `MemoryMapperProofs`: the vector is sorted by begin and end of the windows, without duplicates, and holds exactly what was mapped last
  (`MapInv`, with the lemmas `WithMappingVector` and `WithoutMappingVector` about insertion and removal). The lookup takes the first element that
  contains an address. That this is the narrowest window (`LookupFindsOwner`) needs more than the order: of two windows
  of one machine that share an address, the one that comes first in the order lies within the other (`FirstIsNarrower`), which is true of the
  windows there are (a cartridge with a controller and one without are never mapped together). `DivFollowsReset` is an argument about remainders: the
  counter wraps around at a multiple of where DIV does.
* `CpuCoreProofs`: `CalculationsAgree` for all numbers of 16 bits, all BCD numbers where the sequence is decimal, and any flags at the
  start. It is a statement about the last point of a sequence, and the invariant behind it is one assertion for every point (`AddPoints`,
  `DecimalSubPoints`, ...), as in a proof of a program: which bytes are still in the registers, and that the byte which is done and the
  carry (in the decimal sequences before DAA, A and all flags) make up the result so far. The lemmas say what each instruction does as arithmetic: a byte and the carry are
  the sum, or the difference with a borrow (`Adding`, `Subtracting`, on `run_alu` with its twice inverted carry), DAA turns these into decimal sums and
  differences (`DaaAdds`, `DaaSubtracts`), rotations multiply and divide by two, AND and XOR with a mask take digits apart
  (from the bits of a byte). `CoreWorksAsAlone` carries the theorems of this module, `CpuInterruptsProofs` and `MemoryMapperProofs` over to the
  composition that is model-checked.
* `HostProofs`: all properties of `Session` and `MainLoop` that the `host` run checks, for all ROMs, save files, sizes of RAM, frame lengths, ticks and
  wrap-arounds. `SessionInv` says for each place in a handler which of emulator and cartridge exist and know each other, and for each
  save file what is on the disk, what the game reached and what a save had begun to write; only both together survive a kill, an
  exception or a save that fails in any of these places. What a file holds is always the head of what a save began to write (`Prefixes`), and
  the RAM of a new game is the head of the file, so that it is genuine unless reading stopped early. `LoopInv` bounds the counters.

The assumptions on the constants are stated in the modules and evaluated in every run. `WrapAssumption`, that `U32` is
arithmetic modulo `2 * H`, is such a statement too; it follows from the definition and is not used as an axiom about anything else.

Only model-checked is liveness (`TicksEndAndSleepersRun`, `LcdIsObeyed`, `UnitsFinish`, `PendingIsTaken`), which is out of reach of the prover.
The runs of the findings are counterexamples, which need no proof.

## Findings

1. *Line 153* (`gb_ppu.cpp:513`). The wait of 4 cycles in the last line ends in the cycle for which `update_stat` queued its
   callback. The wait takes the callback for its own entry, throws `interrupted`, and the handler starts the next frame. A
   frame takes 69772 cycles instead of the 70224 of `gb_emu.h:20`, and LY never reads 0 in line 153.
2. *Mode bits with the LCD off* (`gb_ppu.cpp:726`). A callback that is pending when the LCD is turned off sets the mode
   bits four cycles later, and STAT reads 2 or 3 for as long as the LCD is off.
3. *OAM during DMA* (`gb_ppu.cpp:713`). The h-blank code gives OAM back to the CPU in the middle of a transfer.
4. *RAM bank of MBC5* (`gb_cart.cpp:690, 698`). Changing the ROM bank maps 4000-7FFF without a write handler, after which
   the RAM bank register at 4000-5FFF is out of reach.
5. *RAM bank of MMM01 in mode 0* (`gb_cart.cpp:857, 951`). The comment at line 914 says that the lower bits read 0 in mode 0. A bank
   written before the cartridge is mapped is mapped in mode 0 too, and where the multiplexer is turned off `ram0` is computed but `ram_bank`
   is mapped.
6. *Speed-up* (`windows.cpp:155-160`). The comment says that the game does not fall more than one frame behind. With speed-up the
   measurement begins anew one frame of time ago, which counts four times: almost four frames are due after the tick, every turn of the loop
   resynchronises again, and nothing throttles the game.

The condition at `gb_cart.cpp:557` and `673` is inverted: the RAM of an MBC3 or MBC5 is mapped or unmapped only when the register is written with the
value it has. `Cart` has it as it is, which is why `RamFollowsRegisters` is about the other controllers.

## Not modelled, and why

* Colours: palettes, the decoding of tile data, flipping, and the choice between background and sprite by `pop`. They are
  functions of the place a pixel comes from, which is modelled.
* Loads, jumps, calls, stack and single-bit instructions, and the decoding of opcodes: a transcription of tables without state between two
  instructions; a model would repeat it. Those that take part in interrupts are in `CpuInterrupts`, those that compute in `CpuArithmetic`.
* Work RAM, high RAM and the mirror at E000: arrays. Timer, serial port and sound: the code has none (`README.md:32-33`); their
  registers are plain storage. FF00 is a snapshot of the buttons taken by the write of FF00.
* A mapping that is replaced while its own handler runs, and the byte after OAM that FEA0 reaches: both are about C++
  objects and their layout.
* Awaiting a `single_future` and its value: nothing in the program does.
* Win32 calls, painting, and build files.
* 16-bit stores of the CPU, which hit adjacent registers four cycles apart: `Ppu` takes one store at a time.

## Plan

What is left:

1. A composition of `Ppu` and `CpuInterrupts` through IF, IE and `cpu_wake`, which now each abstract the other.
