--------------------------------- MODULE Host ---------------------------------
(***************************************************************************)
(* The program around the emulator (windows.cpp): which game there is, in  *)
(* Session, and how fast it runs, in MainLoop.  What the two have in       *)
(* common is that a new game starts a new measurement of time, which       *)
(* LoopInit stands for; they are examined one at a time.                   *)
(***************************************************************************)
EXTENDS Session, MainLoop

VARIABLE examined       \* "session" or "loop"

hostVars == <<sessionVars, loopVars, examined>>

HostInit ==
    /\ examined \in {"session", "loop"}
    /\ SessionInit /\ LoopInit
    /\ examined = "session" => ~ speedup_active

HostNext ==
    \/ examined = "session" /\ SessionNext /\ UNCHANGED <<loopVars, examined>>
    \/ examined = "loop" /\ LoopNext /\ UNCHANGED <<sessionVars, examined>>

HostSpec == HostInit /\ [][HostNext]_hostVars
-----------------------------------------------------------------------------
\* The types of both: the contents of files and RAM, and a difference of the
\* cycle counters that stays a 32-bit number (windows.cpp:150).
HostTypeOK == SessionTypeOK /\ LoopTypeOK
=============================================================================
