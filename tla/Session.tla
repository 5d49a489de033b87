------------------------------- MODULE Session -------------------------------
(***************************************************************************)
(* A game from the file to the emulator and back (windows.cpp:90-187 and   *)
(* 312-376, gb_emu.h:72-100, gb_cart.cpp:15-98, 188-247): loading a ROM,   *)
(* reset, exit, and the save file that RAM is read from and written to.    *)
(*                                                                         *)
(* The handlers run to the end before anything else does, but the process  *)
(* may be killed at any point, a file may not open, and reading or writing *)
(* may stop half-way, which nobody looks at; pc is the place in the        *)
(* handler.  RAM is a sequence of blocks, so that a file may hold a part   *)
(* of it.                                                                  *)
(***************************************************************************)
EXTENDS Integers, Sequences

CONSTANTS
    Roms,       \* ROM files
    Paths,      \* save files
    SavePath,   \* the save file of a ROM, named after it
    RamSize,    \* blocks of RAM of a ROM
    Values,     \* contents of a block
    NoRom, NoFile

Contents == Seq(Values)

ASSUME SessionAssumption ==
    /\ SavePath \in [Roms -> Paths]
    /\ RamSize \in [Roms -> Nat]
    /\ 0 \in Values
    /\ NoRom \notin Roms /\ NoFile \notin Paths /\ NoFile \notin Contents

VARIABLES
    pc,             \* "loop", the place in a handler, "exited" or "dead"
    request,        \* what the handler is for: "load", "reset" or "exit"
    rom,            \* the ROM chosen: current_rom
    doomed,         \* an exception was caught, and its message box is open
    emu,            \* emu_instance has a value
    loaded_cart,    \* emu_instance->loaded_cart is cart_instance
    cart,           \* the ROM that cart_instance was made from, or NoRom
    mapped_to,      \* its controller is mapped to emu_instance's memory
    ram, ram_path,  \* of the controller
    misread,        \* history: a part of the file did not get into ram
    files,          \* contents of the save files
    begun,          \* history: what RAM held when a file was last written
    progress,       \* history: what RAM held last while a game used the file
    damaged         \* history: files that are behind by a kill or a failed save

host     == <<pc, request, rom, doomed>>
emuVars  == <<emu, loaded_cart>>
cartVars == <<cart, mapped_to, ram, ram_path, misread>>
disk     == <<files, begun, progress, damaged>>
sessionVars == <<host, emuVars, cartVars, disk>>

Place == {"loop", "destroy", "write", "boot", "construct", "map", "exited", "dead"}
File == Contents \cup {NoFile}

SessionTypeOK ==
    /\ pc \in Place /\ request \in {"load", "reset", "exit"}
    /\ rom \in Roms \cup {NoRom} /\ cart \in Roms \cup {NoRom}
    /\ doomed \in BOOLEAN /\ emu \in BOOLEAN
    /\ loaded_cart \in BOOLEAN /\ mapped_to \in BOOLEAN
    /\ ram \in Contents /\ ram_path \in Paths \cup {NoFile} /\ misread \in BOOLEAN
    /\ files \in [Paths -> File] /\ begun \in [Paths -> File]
    /\ progress \in [Paths -> File] /\ damaged \subseteq Paths

SessionInit ==
    /\ pc = "loop" /\ request = "load" /\ rom = NoRom /\ doomed = FALSE
    /\ emu = FALSE /\ loaded_cart = FALSE
    /\ cart = NoRom /\ mapped_to = FALSE /\ ram = <<>> /\ ram_path = NoFile /\ misread = FALSE
    /\ files = [p \in Paths |-> NoFile]
    /\ begun = files /\ progress = files /\ damaged = {}

-----------------------------------------------------------------------------
(* The parts of a handler                                                  *)

Goto(place) == pc' = place /\ UNCHANGED doomed

\* wWinMain catches the exception and shows it; messages are still dispatched.
Throw == pc' = "loop" /\ doomed' = TRUE

HasRam == ram # <<>> /\ ram_path # NoFile

\* What a file is missing if the process ends now
Lost == IF mapped_to /\ HasRam /\ files[ram_path] # ram THEN {ram_path} ELSE {}

Dies ==
    /\ pc' = "dead"
    /\ damaged' = damaged \cup Lost
    /\ UNCHANGED <<request, rom, doomed, emuVars, cartVars, files, begun, progress>>

\* What follows when the emulator is gone: at exit the cartridge is destroyed too
Destroyed ==
    /\ Goto(IF request = "exit" THEN "exited" ELSE "boot")
    /\ emu' = FALSE /\ loaded_cart' = FALSE /\ mapped_to' = FALSE
    /\ UNCHANGED <<request, rom, cart, ram, ram_path, misread, progress>>

\* mutant: leaves the cartridge mapped
DestroyMapped ==
    /\ pc = "destroy"
    /\ Goto(IF request = "exit" THEN "exited" ELSE "boot")
    /\ emu' = FALSE /\ loaded_cart' = FALSE
    /\ UNCHANGED <<request, rom, cartVars, disk>>

\* ~emu unmaps the cartridge, which saves: save_ram opens the file, and that
\* empties it.  If it does not open (it is read-only, in use, or its directory
\* is gone), the cartridge is unmapped all the same.
Destroy ==
    /\ pc = "destroy"
    /\ \/ /\ loaded_cart /\ mapped_to /\ HasRam
          /\ files' = [files EXCEPT ![ram_path] = <<>>]
          /\ begun' = [begun EXCEPT ![ram_path] = ram]
          /\ Goto("write")
          /\ UNCHANGED <<request, rom, emuVars, cartVars, progress, damaged>>
       \/ /\ loaded_cart /\ mapped_to /\ HasRam
          /\ damaged' = damaged \cup Lost
          /\ Destroyed
          /\ UNCHANGED <<files, begun>>
       \/ /\ ~ (loaded_cart /\ mapped_to /\ HasRam)
          /\ Destroyed
          /\ UNCHANGED <<files, begun, damaged>>

\* Then it writes what fits on the disk, and nobody looks whether it did.
WriteRam(n) ==
    /\ pc = "write"
    /\ files' = [files EXCEPT ![ram_path] = SubSeq(ram, 1, n)]
    /\ damaged' = IF n = Len(ram) THEN damaged \ {ram_path} ELSE damaged \cup {ram_path}
    /\ UNCHANGED begun
    /\ Destroyed

\* A new emulator gets the boot ROM, if there is a good one.
Boot ==
    /\ pc = "boot"
    /\ emu' = TRUE
    /\ \/ Goto(IF request = "load" THEN "construct" ELSE "map")
       \/ Throw
    /\ UNCHANGED <<request, rom, loaded_cart, cartVars, disk>>

\* mutant: takes any file for a save file
AnyFile(size, file) == TRUE

\* A file that is too short is refused, with an exception.
LongEnough(size, file) == file # NoFile => Len(file) >= size

\* The RAM of a new cartridge: zeros, over which a file is read, as far as it
\* opens and can be read
NewRam(size, file, got) ==
    [i \in 1..size |-> IF file # NoFile /\ i <= got /\ i <= Len(file) THEN file[i] ELSE 0]

\* cart_instance.emplace destroys the old cartridge before it makes a new one,
\* which may fail: not a ROM, no such controller, or a bad RAM file.  A ROM file
\* that is not read is all zeros, a cartridge without RAM.
Construct ==
    /\ pc = "construct"
    /\ \/ \E size \in {0, RamSize[rom]} : \E got \in 0..size :
             LET file == files[SavePath[rom]] IN
             /\ LongEnough(size, file)
             /\ cart' = rom /\ ram_path' = SavePath[rom]
             /\ ram' = NewRam(size, file, got)
             /\ misread' = (file # NoFile /\ got < size)
             /\ Goto("map")
       \/ /\ cart' = NoRom /\ ram_path' = NoFile /\ ram' = <<>> /\ misread' = FALSE
          /\ Throw
    /\ mapped_to' = FALSE
    /\ UNCHANGED <<request, rom, emuVars, disk>>

Playing(path, contents) == progress' = [progress EXCEPT ![path] = contents]

\* mutant: the controller made for the reset does not get the path
MapNoPath ==
    /\ pc = "map" /\ cart # NoRom
    /\ loaded_cart' = TRUE /\ mapped_to' = TRUE
    /\ ram_path' = IF request = "reset" THEN NoFile ELSE ram_path
    /\ IF HasRam THEN Playing(ram_path, ram) /\ damaged' = damaged \ {ram_path}
                 ELSE UNCHANGED <<progress, damaged>>
    /\ Goto("loop")
    /\ UNCHANGED <<request, rom, emu, cart, ram, misread, files, begun>>

\* emu::load_cart.  A cartridge used before gets a new controller, with the ROM,
\* the RAM and the path of the old one.  Then the emulator is started.
Map ==
    /\ pc = "map" /\ cart # NoRom
    /\ loaded_cart' = TRUE /\ mapped_to' = TRUE
    /\ IF HasRam THEN Playing(ram_path, ram) /\ damaged' = damaged \ {ram_path}
                 ELSE UNCHANGED <<progress, damaged>>
    /\ Goto("loop")
    /\ UNCHANGED <<request, rom, emu, cart, ram, ram_path, misread, files, begun>>

\* A reset when there is no cartridge
MapNothing == pc = "map" /\ cart = NoRom /\ Dies

\* The speed-up key asks for the counter of the emulator when there is none: a
\* check aborts, or a number is read that nobody uses before the next game.
KeyNothing == pc = "loop" /\ ~ emu /\ Dies

-----------------------------------------------------------------------------
(* The message loop and the world                                          *)

Open(r) ==
    /\ pc = "loop"
    /\ request' = "load" /\ rom' = r /\ Goto("destroy")
    /\ UNCHANGED <<emuVars, cartVars, disk>>

Reset ==
    /\ pc = "loop"
    /\ request' = "reset" /\ Goto("destroy")
    /\ UNCHANGED <<rom, emuVars, cartVars, disk>>

\* After an exception the end of the message box is the end of the process,
\* without any destructors.
Exit ==
    /\ pc = "loop"
    /\ \/ /\ ~ doomed
          /\ request' = "exit" /\ Goto("destroy")
          /\ UNCHANGED <<rom, emuVars, cartVars, disk>>
       \/ doomed /\ Dies

Runs == pc = "loop" /\ ~ doomed /\ loaded_cart

\* The game writes to its RAM
Play(i, value) ==
    /\ Runs /\ i \in DOMAIN ram
    /\ ram' = [ram EXCEPT ![i] = value]
    /\ IF ram_path # NoFile THEN Playing(ram_path, ram') ELSE UNCHANGED progress
    /\ UNCHANGED <<host, emuVars, cart, mapped_to, ram_path, misread, files, begun, damaged>>

\* It executes an opcode that does not exist, or one that is not implemented.
\* The exception ends the coroutine, and tick() throws it again at its end.
Fail ==
    /\ Runs /\ Throw
    /\ UNCHANGED <<request, rom, emuVars, cartVars, disk>>

Kill == pc \notin {"exited", "dead"} /\ Dies

Restart ==
    /\ pc \in {"exited", "dead"}
    /\ pc' = "loop" /\ request' = "load" /\ rom' = NoRom /\ doomed' = FALSE
    /\ emu' = FALSE /\ loaded_cart' = FALSE
    /\ cart' = NoRom /\ mapped_to' = FALSE /\ ram' = <<>> /\ ram_path' = NoFile /\ misread' = FALSE
    /\ UNCHANGED disk

-----------------------------------------------------------------------------
SessionNext ==
    \/ Destroy \/ Boot \/ Construct \/ Map \/ MapNothing \/ KeyNothing
    \/ \E n \in 0..Len(ram) : WriteRam(n)
    \/ \E r \in Roms : Open(r)
    \/ Reset \/ Exit \/ Fail \/ Kill \/ Restart
    \/ \E i \in DOMAIN ram, value \in Values : Play(i, value)

SessionSpec == SessionInit /\ [][SessionNext]_sessionVars
-----------------------------------------------------------------------------
(* Properties                                                              *)

\* What a player has reached is in the save file as soon as the game is not
\* running any more, however it ended: by exit, reset, another ROM or one that
\* could not be loaded, also from the message box after an exception.  What leaves
\* the file behind, until the next game is saved there, is a kill, the end of that
\* box, a disk that takes only a part, and a file that does not open for writing;
\* the last two go unnoticed (gb_emu.h:72-79, gb_cart.cpp:26-34, 207-215, 240-247).
ProgressIsSaved ==
    \A p \in Paths :
        p \notin damaged /\ ~ (mapped_to /\ ram_path = p) => files[p] = progress[p]

\* A game starts with zeros if there is no file, and otherwise with all of its RAM
\* as it was when the file was saved: not with what a kill or a full disk left of
\* it, nor with the smaller RAM of a ROM of the same name, which are refused.  Only
\* if reading the file fails, which nobody looks at, the end of the RAM, or all of
\* it, is zeros (gb_cart.cpp:217-238, 269-272).
RamIsGenuine ==
    pc = "map" /\ request = "load" /\ ram # <<>> =>
        LET saved == begun[ram_path] IN
        \/ files[ram_path] = NoFile /\ \A i \in DOMAIN ram : ram[i] = 0
        \/ /\ files[ram_path] # NoFile /\ saved # NoFile /\ Len(saved) >= Len(ram)
           /\ \E got \in 0..Len(ram) :
                 /\ ~ misread => got = Len(ram)
                 /\ \A i \in DOMAIN ram : ram[i] = IF i <= got THEN saved[i] ELSE 0

\* The emulator never knows a cartridge that is gone, and a cartridge is never
\* mapped to an emulator that is gone, whichever part of a handler fails
\* (gb_emu.h:96-100, windows.cpp:339-343, 358-362).
NothingDangles ==
    /\ loaded_cart => emu /\ cart # NoRom
    /\ loaded_cart <=> mapped_to
=============================================================================
