------------------------------- MODULE MainLoop -------------------------------
(***************************************************************************)
(* The main loop of the program (windows.cpp:131-177): how many cycles the *)
(* game is run to keep up with the clock, and the key for speed-up, which  *)
(* starts the measurement anew (447-453, 501-507).                         *)
(***************************************************************************)
EXTENDS Integers

CONSTANTS
    FrameCycles,    \* cycles of a frame (70224)
    Enough,         \* due cycles that are worth a tick (2280)
    TickCycles,     \* cycles of a tick (4560)
    Wrap,           \* the cycle counter wraps around (2^32)
    Delays,         \* time that passes between two steps
    LagLimit        \* bound: on the time since the measurement began

ASSUME LoopAssumption ==
    /\ Enough \in Nat /\ TickCycles \in Nat /\ FrameCycles \in Nat /\ Wrap \in Nat
    /\ Enough < TickCycles /\ TickCycles < FrameCycles
    /\ FrameCycles + TickCycles < Wrap
    /\ Delays \subseteq Nat /\ LagLimit \in Nat

VARIABLES
    lag,            \* now - sync_time, in cycles
    elapsed,        \* cycle_counter - sync_cycles
    speedup_active,
    at,             \* "messages": in GetMessage; "polling": the inner loop; "waiting"
    ran             \* history: elapsed without the wrap-around

loopVars == <<lag, elapsed, speedup_active, at, ran>>

LoopTypeOK ==
    /\ lag \in Nat /\ elapsed \in 0..(Wrap - 1) /\ ran \in Nat
    /\ speedup_active \in BOOLEAN
    /\ at \in {"messages", "polling", "waiting"}

\* A game has just been started
LoopInit ==
    /\ lag = 0 /\ elapsed = 0 /\ ran = 0
    /\ speedup_active \in BOOLEAN /\ at = "polling"

\* What the clock asks for in the time t
Asked(t) == IF speedup_active THEN 4 * t ELSE t

Due(t, cycles) == Asked(t) - cycles

-----------------------------------------------------------------------------
\* mutant: starts with the cycles that have been run already
ResyncTimeOnly ==
    IF Due(lag, elapsed) >= FrameCycles
    THEN [time |-> FrameCycles, cycles |-> elapsed, ran |-> ran]
    ELSE [time |-> lag, cycles |-> elapsed, ran |-> ran]

\* "don't allow falling more than one frame behind": the measurement begins one
\* frame ago
Resynced ==
    IF Due(lag, elapsed) >= FrameCycles
    THEN [time |-> FrameCycles, cycles |-> 0, ran |-> 0]
    ELSE [time |-> lag, cycles |-> elapsed, ran |-> ran]

\* One turn of the inner loop, without a message.  What is due was computed
\* before the measurement began anew.
Poll ==
    /\ at = "polling"
    /\ lag' = Resynced.time
    /\ \/ /\ Due(lag, elapsed) >= Enough
          /\ elapsed' = (Resynced.cycles + TickCycles) % Wrap
          /\ ran' = Resynced.ran + TickCycles
          /\ UNCHANGED at
       \/ /\ Due(lag, elapsed) < Enough
          /\ elapsed' = elapsed /\ ran' = ran
          /\ at' = "waiting"
    /\ UNCHANGED speedup_active

\* After a millisecond, or because of a message
WaitOver ==
    /\ at = "waiting"
    /\ at' \in {"polling", "messages"}
    /\ UNCHANGED <<lag, elapsed, speedup_active, ran>>

Message == at = "polling" /\ at' = "messages" /\ UNCHANGED <<lag, elapsed, speedup_active, ran>>

Dispatch == at = "messages" /\ at' = "polling" /\ UNCHANGED <<lag, elapsed, speedup_active, ran>>

\* The key goes down, which repeats while it is held, or up
SpeedKey(down) ==
    /\ at = "messages" /\ at' = "polling"
    /\ speedup_active' = down
    /\ lag' = 0 /\ elapsed' = 0 /\ ran' = 0

TimePasses(d) ==
    /\ lag + d <= LagLimit
    /\ lag' = lag + d
    /\ UNCHANGED <<elapsed, speedup_active, at, ran>>

LoopNext ==
    \/ Poll \/ WaitOver \/ Message \/ Dispatch
    \/ \E down \in BOOLEAN : SpeedKey(down)
    \/ \E d \in Delays : TimePasses(d)

LoopSpec == LoopInit /\ [][LoopNext]_loopVars
-----------------------------------------------------------------------------
(* Properties                                                              *)

\* The game is never ahead of the clock by more than what a tick runs too far.
\* Without speed-up a tick leaves it less than one frame behind.  Only a game that
\* is a frame behind is forgiven the rest, except once every 2^32 cycles, when the
\* difference of the counters wraps around and the game gets a frame too many
\* (windows.cpp:137-164).
GameFollowsClock ==
    [][Poll =>
        /\ Due(lag', ran') >= Enough - TickCycles
        /\ at' = "polling" /\ ~ speedup_active => Due(lag', ran') <= FrameCycles - TickCycles
        /\ ran' <= ran /\ at' = "polling" => Due(lag, ran) >= FrameCycles \/ ran >= Wrap]_loopVars

\* "don't allow falling more than one frame behind - if we do, resync the timers"
\* (windows.cpp:155): after a turn of the loop the game is not further behind.
\* With speed-up the measurement begins one frame of time ago, and that is four
\* frames of the game.
NeverFrameBehind == [][Poll => Due(lag', ran') <= FrameCycles]_loopVars
=============================================================================
