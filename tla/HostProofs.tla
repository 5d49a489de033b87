------------------------------ MODULE HostProofs ------------------------------
(***************************************************************************)
(* Proofs about the program around the emulator, for all ROMs, save files, *)
(* sizes of RAM and contents, and for every length of ticks and frames.    *)
(*                                                                         *)
(* What a file holds is always a part of what RAM was when the file was    *)
(* written last, and what a file is missing belongs to a game that is      *)
(* running or to a file that a kill or a failed save left behind.          *)
(***************************************************************************)
EXTENDS Host, SequenceTheorems, TLAPS

\* Which of the emulator and the cartridge there is at a place of a handler
Placed ==
    /\ NothingDangles
    /\ pc \in {"boot", "construct", "map"} => ~ loaded_cart
    /\ pc \in {"construct", "map"} => emu
    /\ pc = "exited" => ~ mapped_to
    /\ pc \in {"destroy", "write", "boot", "construct"} /\ request = "load" => rom \in Roms
    /\ pc = "construct" => request = "load"
    /\ pc = "write" => mapped_to /\ HasRam /\ begun[ram_path] = ram

\* What a file is missing
Accounted ==
    /\ mapped_to /\ HasRam => progress[ram_path] = ram
    /\ \A p \in Paths :
          p \notin damaged /\ ~ (mapped_to /\ HasRam /\ ram_path = p) => files[p] = progress[p]
    /\ pc = "dead" /\ mapped_to /\ HasRam /\ ram_path \notin damaged => files[ram_path] = ram

\* What a file holds
Prefixes ==
    \A p \in Paths : files[p] # NoFile =>
        /\ begun[p] # NoFile
        /\ Len(files[p]) <= Len(begun[p])
        /\ files[p] = SubSeq(begun[p], 1, Len(files[p]))

SessionInv == SessionTypeOK /\ Placed /\ Accounted /\ Prefixes /\ RamIsGenuine

-----------------------------------------------------------------------------
(* The session                                                             *)

\* What a new game starts with is a sequence of the right values, the head of
\* the file and then zeros.
LEMMA NewRamType ==
    ASSUME NEW size \in Nat, NEW file \in File, NEW got \in Nat
    PROVE  /\ NewRam(size, file, got) \in Contents
           /\ Len(NewRam(size, file, got)) = size
           /\ DOMAIN NewRam(size, file, got) = 1..size
           /\ \A i \in 1..size :
                NewRam(size, file, got)[i] =
                    IF file # NoFile /\ i <= got /\ i <= Len(file) THEN file[i] ELSE 0
<1> DEFINE new == NewRam(size, file, got)
<1>1. new = [i \in 1..size |-> IF file # NoFile /\ i <= got /\ i <= Len(file) THEN file[i] ELSE 0]
    BY DEF NewRam
<1>2. ASSUME NEW i \in 1..size
      PROVE  (IF file # NoFile /\ i <= got /\ i <= Len(file) THEN file[i] ELSE 0) \in Values
    <2>1. CASE file # NoFile /\ i <= got /\ i <= Len(file)
        <3>1. file \in Seq(Values) /\ Len(file) \in Nat
            BY <2>1 DEF File, Contents
        <3>2. i \in 1..Len(file)
            BY <2>1, <3>1
        <3>3. file[i] \in Values
            BY <3>1, <3>2, ElementOfSeq
        <3> QED
            BY <2>1, <3>3
    <2>2. CASE ~ (file # NoFile /\ i <= got /\ i <= Len(file))
        BY <2>2, SessionAssumption
    <2> QED
        BY <2>1, <2>2
<1>3. new \in [1..size -> Values]
    BY <1>1, <1>2
<1>4. new \in Seq(Values)
    BY <1>3, SeqDef
<1>5. Len(new) = size
    BY <1>3, <1>4, LenProperties
<1> QED
    BY <1>1, <1>4, <1>5 DEF Contents

\* The program is started without a game.
LEMMA InitSession == SessionInit => SessionInv
<1> SUFFICES ASSUME SessionInit
             PROVE  SessionInv
    OBVIOUS
<1> USE SessionAssumption DEF SessionInit
<1>1. SessionTypeOK
    BY EmptySeq DEF SessionTypeOK, Place, File, Contents
<1>2. Placed
    BY DEF Placed, NothingDangles
<1>3. Accounted /\ Prefixes /\ RamIsGenuine
    BY DEF Accounted, Prefixes, RamIsGenuine
<1> QED
    BY <1>1, <1>2, <1>3 DEF SessionInv

\* Every step of a handler, of the game and of the world keeps the types.
LEMMA NextSessionType == SessionTypeOK /\ Placed /\ [SessionNext]_sessionVars => SessionTypeOK'
<1> SUFFICES ASSUME SessionTypeOK, Placed, [SessionNext]_sessionVars
             PROVE  SessionTypeOK'
    OBVIOUS
<1> USE SessionAssumption DEF SessionTypeOK, Place, Goto, Throw, emuVars, cartVars, disk, host
<1>0. /\ <<>> \in Contents /\ Contents \subseteq File /\ ram \in Seq(Values) /\ NoFile \in File
      /\ \A c \in Contents : c \in File
    BY EmptySeq DEF Contents, File
<1>l. Lost \subseteq Paths
    BY SMT DEF Lost, HasRam
<1>a. Dies => SessionTypeOK'
    BY <1>l DEF Dies
<1>1. CASE Destroy
    <2>1. CASE pc' = "write"
        BY <1>1, <1>0, <2>1 DEF Destroy, Destroyed, HasRam
    <2>2. CASE pc' # "write"
        <3>1. files' = files /\ begun' = begun /\ Destroyed
            BY <1>1, <2>2 DEF Destroy
        <3>2. damaged' = damaged \cup Lost \/ damaged' = damaged
            BY <1>1, <2>2 DEF Destroy
        <3>3. damaged' \subseteq Paths
            BY <1>l, <3>2
        <3> QED
            BY <3>1, <3>3 DEF Destroyed
    <2> QED
        BY <2>1, <2>2
<1>2. ASSUME NEW n \in 0..Len(ram), WriteRam(n)
      PROVE  SessionTypeOK'
    <2>1. SubSeq(ram, 1, n) \in Contents
        BY <1>0, SubSeqProperties DEF Contents
    <2>2. ram_path \in Paths
        BY <1>2 DEF WriteRam, Placed, HasRam
    <2>3. files' \in [Paths -> File] /\ damaged' \subseteq Paths
        BY <1>0, <1>2, <2>1, <2>2 DEF WriteRam
    <2> QED
        BY <1>2, <2>3 DEF WriteRam, Destroyed
<1>3. CASE Boot
    BY <1>3 DEF Boot
<1>4. CASE Construct
    <2>1. /\ request' = request /\ rom' = rom /\ emu' = emu /\ loaded_cart' = loaded_cart
          /\ files' = files /\ begun' = begun /\ progress' = progress /\ damaged' = damaged
          /\ mapped_to' = FALSE
        BY <1>4 DEF Construct
    <2>2. ASSUME NEW size \in {0, RamSize[rom]}, NEW got \in 0..size,
                 cart' = rom, ram_path' = SavePath[rom],
                 ram' = NewRam(size, files[SavePath[rom]], got),
                 misread' \in BOOLEAN, Goto("map")
          PROVE  SessionTypeOK'
        <3>1. rom \in Roms
            BY <1>4 DEF Construct, Placed
        <3>2. size \in Nat /\ got \in Nat /\ files[SavePath[rom]] \in File
            BY <3>1
        <3>3. ram' \in Contents
            BY <2>2, <3>2, NewRamType
        <3> QED
            BY <2>1, <2>2, <3>1, <3>3
    <2>3. CASE cart' = NoRom /\ ram_path' = NoFile /\ ram' = <<>> /\ misread' = FALSE /\ Throw
        BY <2>1, <2>3, <1>0
    <2>4. CASE \E size \in {0, RamSize[rom]} : \E got \in 0..size :
                    /\ cart' = rom /\ ram_path' = SavePath[rom]
                    /\ ram' = NewRam(size, files[SavePath[rom]], got)
                    /\ misread' = (files[SavePath[rom]] # NoFile /\ got < size)
                    /\ Goto("map")
        BY <2>2, <2>4
    <2> QED
        BY <1>4, <2>3, <2>4, Zenon DEF Construct
<1>5. CASE Map
    <2>1. progress' \in [Paths -> File] /\ damaged' \subseteq Paths
        BY <1>0, <1>5 DEF Map, Playing, HasRam
    <2> QED
        BY <1>5, <2>1 DEF Map
<1>6. CASE MapNothing \/ KeyNothing
    BY <1>6, <1>a DEF MapNothing, KeyNothing
<1>7. ASSUME NEW r \in Roms, Open(r)
      PROVE  SessionTypeOK'
    BY <1>7 DEF Open
<1>8. CASE Reset
    BY <1>8 DEF Reset
<1>9. CASE Exit
    BY <1>9, <1>a DEF Exit
<1>10. CASE Fail
    BY <1>10 DEF Fail
<1>11. CASE Kill
    BY <1>11, <1>a DEF Kill
<1>12. CASE Restart
    BY <1>12, <1>0 DEF Restart
<1>13. ASSUME NEW i \in DOMAIN ram, NEW value \in Values, Play(i, value)
       PROVE  SessionTypeOK'
    <2>1. ram' \in Contents
        BY <1>0, <1>13, ExceptSeq DEF Play, Contents
    <2>2. progress' \in [Paths -> File]
        BY <1>0, <1>13, <2>1 DEF Play, Playing
    <2> QED
        BY <1>13, <2>1, <2>2 DEF Play
<1>14. CASE UNCHANGED sessionVars
    BY <1>14 DEF sessionVars
<1> QED
    BY <1>1, <1>2, <1>3, <1>4, <1>5, <1>6, <1>7, <1>8, <1>9, <1>10, <1>11, <1>12, <1>13, <1>14
    DEF SessionNext

\* Handlers build and tear down the emulator and the cartridge in one order.
LEMMA NextPlaced == SessionTypeOK /\ Placed /\ [SessionNext]_sessionVars => Placed'
<1> SUFFICES ASSUME SessionTypeOK, Placed, [SessionNext]_sessionVars
             PROVE  Placed'
    OBVIOUS
<1> USE SessionAssumption DEF Placed, NothingDangles, HasRam, Goto, Throw, emuVars, cartVars, disk, host
<1>a. Dies => Placed'
    BY DEF Dies
<1>1. CASE Destroy
    <2>1. CASE loaded_cart /\ mapped_to /\ HasRam
        BY <1>1, <2>1 DEF Destroy, Destroyed, SessionTypeOK
    <2>2. CASE ~ (loaded_cart /\ mapped_to /\ HasRam)
        BY <1>1, <2>2 DEF Destroy, Destroyed
    <2> QED
        BY <2>1, <2>2
<1>2. ASSUME NEW n \in 0..Len(ram), WriteRam(n)
      PROVE  Placed'
    BY <1>2 DEF WriteRam, Destroyed
<1>3. CASE Boot
    BY <1>3 DEF Boot
<1>4. CASE Construct
    BY <1>4 DEF Construct
<1>5. CASE Map
    BY <1>5 DEF Map
<1>6. CASE MapNothing \/ KeyNothing
    BY <1>6, <1>a DEF MapNothing, KeyNothing
<1>7. ASSUME NEW r \in Roms, Open(r)
      PROVE  Placed'
    BY <1>7 DEF Open
<1>8. CASE Reset
    BY <1>8 DEF Reset
<1>9. CASE Exit
    BY <1>9, <1>a DEF Exit
<1>10. CASE Fail
    BY <1>10 DEF Fail
<1>11. CASE Kill
    BY <1>11, <1>a DEF Kill
<1>12. CASE Restart
    BY <1>12 DEF Restart
<1>13. ASSUME NEW i \in DOMAIN ram, NEW value \in Values, Play(i, value)
       PROVE  Placed'
    BY <1>13 DEF Play, Runs
<1>14. CASE UNCHANGED sessionVars
    BY <1>14 DEF sessionVars
<1> QED
    BY <1>1, <1>2, <1>3, <1>4, <1>5, <1>6, <1>7, <1>8, <1>9, <1>10, <1>11, <1>12, <1>13, <1>14
    DEF SessionNext

\* What a file is missing is accounted for by every step.
LEMMA NextAccounted ==
    SessionTypeOK /\ Placed /\ Accounted /\ [SessionNext]_sessionVars => Accounted'
<1> SUFFICES ASSUME SessionTypeOK, Placed, Accounted, [SessionNext]_sessionVars
             PROVE  Accounted'
    OBVIOUS
<1> USE SessionAssumption DEF Accounted, HasRam, Goto, Throw, emuVars, cartVars, disk, host
<1>0. /\ files \in [Paths -> File] /\ progress \in [Paths -> File]
      /\ ram \in Seq(Values) /\ Len(ram) \in Nat /\ ram_path \in Paths \cup {NoFile}
      /\ mapped_to <=> loaded_cart
    BY DEF SessionTypeOK, Contents, Placed, NothingDangles
<1>a. Dies => Accounted'
    BY <1>0 DEF Dies, Lost
<1>1. CASE Destroy
    <2>1. CASE loaded_cart /\ mapped_to /\ HasRam /\ pc' = "write"
        BY <1>0, <1>1, <2>1 DEF Destroy, Destroyed
    <2>3. CASE loaded_cart /\ mapped_to /\ HasRam /\ pc' # "write"
        BY <1>0, <1>1, <2>3 DEF Destroy, Destroyed, Lost
    <2>2. CASE ~ (loaded_cart /\ mapped_to /\ HasRam)
        BY <1>0, <1>1, <2>2 DEF Destroy, Destroyed
    <2> QED
        BY <2>1, <2>2, <2>3
<1>2. ASSUME NEW n \in 0..Len(ram), WriteRam(n)
      PROVE  Accounted'
    <2>1. pc = "write" /\ mapped_to /\ HasRam /\ ram_path \in Paths /\ progress[ram_path] = ram
        BY <1>0, <1>2 DEF WriteRam, Placed
    <2>2. /\ mapped_to' = FALSE /\ progress' = progress
          /\ files' = [files EXCEPT ![ram_path] = SubSeq(ram, 1, n)]
          /\ damaged' = IF n = Len(ram) THEN damaged \ {ram_path} ELSE damaged \cup {ram_path}
        BY <1>2 DEF WriteRam, Destroyed
    <2>3. SubSeq(ram, 1, Len(ram)) = ram
        BY <1>0, SubSeqFull
    <2>4. ASSUME NEW p \in Paths, p \notin damaged'
          PROVE  files'[p] = progress'[p]
        <3>1. CASE p = ram_path
            BY <1>0, <2>1, <2>2, <2>3, <2>4, <3>1
        <3>2. CASE p # ram_path
            BY <1>0, <2>1, <2>2, <2>4, <3>2
        <3> QED
            BY <3>1, <3>2
    <2> QED
        BY <2>2, <2>4
<1>3. CASE Boot
    BY <1>3 DEF Boot
<1>4. CASE Construct
    BY <1>4, <1>0 DEF Construct, Placed
<1>5. CASE Map
    BY <1>5, <1>0 DEF Map, Playing, Placed
<1>6. CASE MapNothing \/ KeyNothing
    BY <1>6, <1>a DEF MapNothing, KeyNothing
<1>7. ASSUME NEW r \in Roms, Open(r)
      PROVE  Accounted'
    BY <1>7 DEF Open
<1>8. CASE Reset
    BY <1>8 DEF Reset
<1>9. CASE Exit
    BY <1>9, <1>a DEF Exit
<1>10. CASE Fail
    BY <1>10 DEF Fail
<1>11. CASE Kill
    BY <1>11, <1>a DEF Kill
<1>12. CASE Restart
    <2>1. ASSUME NEW p \in Paths, p \notin damaged
          PROVE  files[p] = progress[p]
        BY <1>0, <1>12, <2>1 DEF Restart, Placed
    <2> QED
        BY <1>12, <2>1 DEF Restart
<1>13. ASSUME NEW i \in DOMAIN ram, NEW value \in Values, Play(i, value)
       PROVE  Accounted'
    <2>1. mapped_to /\ ram # <<>> /\ pc = "loop"
        BY <1>0, <1>13 DEF Play, Runs
    <2>2. ram' # <<>>
        <3>1. Len(ram') = Len(ram) /\ Len(ram) # 0
            BY <1>0, <1>13, <2>1, EmptySeq DEF Play
        <3> QED
            BY <3>1
    <2>3. CASE ram_path = NoFile
        BY <1>0, <1>13, <2>1, <2>2, <2>3 DEF Play
    <2>4. CASE ram_path # NoFile
        BY <1>0, <1>13, <2>1, <2>2, <2>4 DEF Play, Playing
    <2> QED
        BY <2>3, <2>4
<1>14. CASE UNCHANGED sessionVars
    BY <1>14 DEF sessionVars
<1> QED
    BY <1>1, <1>2, <1>3, <1>4, <1>5, <1>6, <1>7, <1>8, <1>9, <1>10, <1>11, <1>12, <1>13, <1>14
    DEF SessionNext

\* A file is emptied and then written with what RAM is.
LEMMA NextPrefixes ==
    SessionTypeOK /\ Placed /\ Prefixes /\ [SessionNext]_sessionVars => Prefixes'
<1> SUFFICES ASSUME SessionTypeOK, Placed, Prefixes, [SessionNext]_sessionVars
             PROVE  Prefixes'
    OBVIOUS
<1> USE SessionAssumption DEF Prefixes, HasRam, Goto, Throw, emuVars, cartVars, disk, host
<1>0. /\ files \in [Paths -> File] /\ begun \in [Paths -> File]
      /\ ram \in Seq(Values) /\ Len(ram) \in Nat /\ ram_path \in Paths \cup {NoFile}
      /\ ram # NoFile
    BY DEF SessionTypeOK, Contents
<1>1. CASE Destroy
    <2>1. CASE loaded_cart /\ mapped_to /\ HasRam /\ pc' = "write"
        <3>1. /\ files' = [files EXCEPT ![ram_path] = <<>>]
              /\ begun' = [begun EXCEPT ![ram_path] = ram]
            BY <1>1, <2>1 DEF Destroy, Destroyed
        <3>2. Len(<<>>) = 0 /\ SubSeq(ram, 1, 0) = <<>>
            BY <1>0, SubSeqEmpty, EmptySeq
        <3>3. ASSUME NEW p \in Paths, files'[p] # NoFile
              PROVE  /\ begun'[p] # NoFile /\ Len(files'[p]) <= Len(begun'[p])
                     /\ files'[p] = SubSeq(begun'[p], 1, Len(files'[p]))
            <4>1. CASE p = ram_path
                BY <1>0, <3>1, <3>2, <4>1
            <4>2. CASE p # ram_path
                BY <1>0, <3>1, <3>3, <4>2
            <4> QED
                BY <4>1, <4>2
        <3> QED
            BY <3>3
    <2>2. CASE ~ (loaded_cart /\ mapped_to /\ HasRam) \/ pc' # "write"
        BY <1>1, <2>2 DEF Destroy, Destroyed
    <2> QED
        BY <2>1, <2>2
<1>2. ASSUME NEW n \in 0..Len(ram), WriteRam(n)
      PROVE  Prefixes'
    <2>1. ram_path \in Paths /\ begun[ram_path] = ram /\ begun' = begun
        BY <1>0, <1>2 DEF WriteRam, Destroyed, Placed
    <2>2. files' = [files EXCEPT ![ram_path] = SubSeq(ram, 1, n)]
        BY <1>2 DEF WriteRam
    <2>3. Len(SubSeq(ram, 1, n)) = n
        BY <1>0, SubSeqProperties
    <2>4. ASSUME NEW p \in Paths, files'[p] # NoFile
          PROVE  /\ begun'[p] # NoFile /\ Len(files'[p]) <= Len(begun'[p])
                 /\ files'[p] = SubSeq(begun'[p], 1, Len(files'[p]))
        <3>1. CASE p = ram_path
            BY <1>0, <2>1, <2>2, <2>3, <3>1
        <3>2. CASE p # ram_path
            BY <1>0, <2>1, <2>2, <2>4, <3>2
        <3> QED
            BY <3>1, <3>2
    <2> QED
        BY <2>4
<1>3. ASSUME UNCHANGED <<files, begun>>
      PROVE  Prefixes'
    BY <1>3
<1>4. ASSUME SessionNext,
             ~ Destroy,
             \A n \in 0..Len(ram) : ~ WriteRam(n)
      PROVE  UNCHANGED <<files, begun>>
    BY <1>4 DEF SessionNext, Boot, Construct, Map, MapNothing, KeyNothing, Dies, Open, Reset, Exit, Fail, Kill,
                Restart, Play
<1>5. CASE UNCHANGED sessionVars
    BY <1>3, <1>5 DEF sessionVars
<1> QED
    BY <1>1, <1>2, <1>3, <1>4, <1>5

\* A game starts with a whole RAM, unless reading it failed.
LEMMA NextGenuine ==
    SessionTypeOK /\ Placed /\ Prefixes /\ RamIsGenuine /\ [SessionNext]_sessionVars => RamIsGenuine'
<1> SUFFICES ASSUME SessionTypeOK, Placed, Prefixes, RamIsGenuine, [SessionNext]_sessionVars,
                    pc' = "map", request' = "load", ram' # <<>>
             PROVE  \/ files'[ram_path'] = NoFile /\ \A i \in DOMAIN ram' : ram'[i] = 0
                    \/ /\ files'[ram_path'] # NoFile /\ begun'[ram_path'] # NoFile
                       /\ Len(begun'[ram_path']) >= Len(ram')
                       /\ \E got \in 0..Len(ram') :
                             /\ ~ misread' => got = Len(ram')
                             /\ \A i \in DOMAIN ram' :
                                    ram'[i] = IF i <= got THEN begun'[ram_path'][i] ELSE 0
    BY DEF RamIsGenuine
<1>1. CASE Construct
    <2> DEFINE path == SavePath[rom]
               file == files[path]
               saved == begun[path]
    <2>1. rom \in Roms /\ files' = files /\ begun' = begun
        BY <1>1 DEF Construct, Placed, disk
    <2>2. PICK size \in {0, RamSize[rom]} : \E got \in 0..size :
                /\ LongEnough(size, file) /\ ram_path' = path
                /\ ram' = NewRam(size, file, got)
                /\ misread' = (file # NoFile /\ got < size)
        BY <1>1 DEF Construct
    <2>3. PICK got \in 0..size :
                /\ LongEnough(size, file) /\ ram_path' = path
                /\ ram' = NewRam(size, file, got)
                /\ misread' = (file # NoFile /\ got < size)
        BY <2>2
    <2>4. /\ size \in Nat /\ got \in Nat /\ got <= size
          /\ path \in Paths /\ file \in File /\ saved \in File
        BY <2>1, SessionAssumption DEF SessionTypeOK
    <2> HIDE DEF path, file, saved
    <2>5. /\ Len(ram') = size /\ DOMAIN ram' = 1..size
          /\ \A i \in 1..size :
                ram'[i] = IF file # NoFile /\ i <= got /\ i <= Len(file) THEN file[i] ELSE 0
        BY <2>3, <2>4, NewRamType
    <2>6. CASE file = NoFile
        <3>1. \A i \in DOMAIN ram' : ram'[i] = 0
            BY <2>5, <2>6
        <3> QED
            BY <2>1, <2>3, <2>6, <3>1 DEF path, file
    <2>7. CASE file # NoFile
        <3>1. /\ saved # NoFile /\ Len(file) <= Len(saved)
              /\ file = SubSeq(saved, 1, Len(file))
            BY <2>4, <2>7 DEF Prefixes, path, file, saved
        <3>2. /\ file \in Seq(Values) /\ saved \in Seq(Values)
              /\ Len(file) \in Nat /\ Len(saved) \in Nat
            BY <2>4, <2>7, <3>1 DEF File, Contents
        <3>3. size <= Len(file)
            BY <2>3, <2>7 DEF LongEnough
        <3>4. ASSUME NEW i \in 1..size
              PROVE  file[i] = saved[i]
            <4>1. i \in 1..Len(file) /\ 1 \in 1..(Len(saved) + 1) /\ Len(file) \in 0..Len(saved)
                BY <2>4, <3>1, <3>2, <3>3
            <4>2. SubSeq(saved, 1, Len(file))[i] = saved[i]
                BY <3>2, <4>1
            <4> QED
                BY <3>1, <4>2
        <3>5. \A i \in 1..size : ram'[i] = IF i <= got THEN saved[i] ELSE 0
            <4>1. ASSUME NEW i \in 1..size
                  PROVE  ram'[i] = IF i <= got THEN saved[i] ELSE 0
                <5>1. i <= Len(file)
                    BY <2>4, <3>2, <3>3
                <5>2. ram'[i] = IF i <= got THEN file[i] ELSE 0
                    BY <2>5, <2>7, <5>1
                <5> QED
                    BY <3>4, <5>2
            <4> QED
                BY <4>1
        <3>6. ~ misread' => got = size
            <4>1. ~ misread' => ~ (got < size)
                BY <2>3, <2>7, Zenon
            <4> QED
                BY <2>4, <4>1
        <3>7. Len(saved) >= size
            BY <2>4, <3>1, <3>2, <3>3
        <3>8. /\ files'[ram_path'] = file /\ begun'[ram_path'] = saved
            BY <2>1, <2>3 DEF path, file, saved
        <3> QED
            BY <2>5, <2>7, <3>1, <3>5, <3>6, <3>7, <3>8
    <2> QED
        BY <2>6, <2>7
<1>2. CASE UNCHANGED sessionVars
    BY <1>2 DEF sessionVars, host, cartVars, disk, RamIsGenuine
<1>3. ~ Destroy /\ ~ \E n \in 0..Len(ram) : WriteRam(n)
    BY DEF Destroy, Destroyed, WriteRam, Goto
<1>4. ~ Boot
    BY DEF Boot, Goto, Throw
<1>5. /\ ~ Map /\ ~ MapNothing /\ ~ KeyNothing /\ ~ Reset /\ ~ Exit /\ ~ Fail /\ ~ Kill /\ ~ Restart
      /\ ~ \E r \in Roms : Open(r)
    BY DEF Map, MapNothing, KeyNothing, Reset, Exit, Fail, Kill, Restart, Open, Dies, Goto, Throw
<1>6. ~ \E i \in DOMAIN ram, value \in Values : Play(i, value)
    BY DEF Play, Runs, host
<1> QED
    BY <1>1, <1>2, <1>3, <1>4, <1>5, <1>6 DEF SessionNext

\* Together
LEMMA NextSession == SessionInv /\ [SessionNext]_sessionVars => SessionInv'
BY NextSessionType, NextPlaced, NextAccounted, NextPrefixes, NextGenuine DEF SessionInv

-----------------------------------------------------------------------------
(* The main loop                                                           *)

\* The difference of the counters is what was run, or the wrap-around has just
\* made a frame of it that is due at once
InStep ==
    \/ ran < Wrap /\ elapsed = ran
    \/ ran = elapsed + Wrap /\ Due(lag, elapsed) >= FrameCycles

NotAhead == Due(lag, ran) >= Enough - TickCycles

LoopInv == LoopTypeOK /\ InStep /\ NotAhead

\* The remainder of a number that is at most one wrap-around too large
LEMMA WrapOnce ==
    ASSUME NEW w \in Nat, NEW a \in Nat, a < w + w, w > 0
    PROVE  a % w = IF a < w THEN a ELSE a - w
<1> DEFINE q == a \div w
<1>1. q \in Int /\ a = (w * q) + (a % w) /\ a % w \in 0..(w - 1)
    OBVIOUS
<1>2. q = 0 \/ q = 1
    <2>1. CASE q < 0
        <3>1. w * q <= -w
            BY <1>1, <2>1
        <3> QED
            BY <1>1, <3>1
    <2>2. CASE q > 1
        <3>1. w * q >= w + w
            BY <1>1, <2>2
        <3> QED
            BY <1>1, <3>1
    <2> QED
        BY <1>1, <2>1, <2>2
<1>3. CASE q = 0
    BY <1>1, <1>3
<1>4. CASE q = 1
    BY <1>1, <1>4
<1> QED
    BY <1>2, <1>3, <1>4

\* A game is started with nothing due.
LEMMA InitLoop == LoopInit => LoopInv
BY LoopAssumption DEF LoopInit, LoopInv, LoopTypeOK, InStep, NotAhead, Due, Asked

\* What a turn of the inner loop does, and what the property says of it
LEMMA PollStep ==
    ASSUME LoopInv, Poll
    PROVE  /\ LoopInv'
           /\ Due(lag', ran') >= Enough - TickCycles
           /\ at' = "polling" => Due(lag', ran') <= Asked(FrameCycles) - TickCycles
           /\ ran' <= ran /\ at' = "polling" => Due(lag, ran) >= FrameCycles \/ ran >= Wrap
<1>0. /\ lag \in Nat /\ elapsed \in 0..(Wrap - 1) /\ ran \in Nat
      /\ at = "polling" /\ speedup_active' = speedup_active /\ speedup_active \in BOOLEAN
    BY DEF LoopInv, LoopTypeOK, Poll
<1>1. /\ Enough \in Nat /\ TickCycles \in Nat /\ FrameCycles \in Nat /\ Wrap \in Nat
      /\ Enough < TickCycles /\ TickCycles < FrameCycles /\ FrameCycles + TickCycles < Wrap
    BY LoopAssumption
<1>2. \A t \in Nat : Asked(t) \in Nat /\ Asked(t) >= t
    BY DEF Asked
<1>3. (Asked(lag))' = Asked(lag')
    BY <1>0 DEF Asked
<1>4. \A t \in Nat, c \in Nat : Due(t, c) = Asked(t) - c /\ Due(t, c) \in Int
    BY <1>2 DEF Due
<1>7. Due(lag, elapsed) \in Int /\ Due(lag, elapsed) = Asked(lag) - elapsed
    BY <1>0, <1>4
<1>5. CASE Due(lag, elapsed) >= FrameCycles
    <2>0. Resynced.time = FrameCycles /\ Resynced.cycles = 0 /\ Resynced.ran = 0
        BY <1>5 DEF Resynced
    <2>1. /\ lag' = FrameCycles /\ ran' = 0 + TickCycles /\ at' = "polling"
          /\ elapsed' = (0 + TickCycles) % Wrap
        <3>1. ~ (Due(lag, elapsed) < Enough)
            BY <1>1, <1>5, <1>7
        <3> QED
            BY <1>0, <2>0, <3>1 DEF Poll
    <2>2. elapsed' = TickCycles /\ ran' = TickCycles
        BY <1>1, <2>1, WrapOnce
    <2>3. LoopTypeOK' /\ InStep'
        BY <1>0, <1>1, <2>1, <2>2 DEF LoopTypeOK, InStep
    <2>4. Due(lag', ran') = Asked(FrameCycles) - TickCycles
        BY <2>1, <2>2 DEF Due
    <2>5. (Due(lag, ran))' = Due(lag', ran')
        BY <1>0 DEF Due, Asked
    <2>6. Due(lag', ran') >= Enough - TickCycles
        BY <1>1, <1>2, <2>4
    <2>7. Due(lag, ran) >= FrameCycles \/ ran >= Wrap
        BY <1>0, <1>1, <1>5 DEF LoopInv, InStep
    <2>8. Due(lag', ran') <= Asked(FrameCycles) - TickCycles
        BY <1>1, <1>2, <2>4
    <2> QED
        BY <2>3, <2>5, <2>6, <2>7, <2>8 DEF LoopInv, NotAhead
<1>6. CASE Due(lag, elapsed) < FrameCycles
    <2>1. ran < Wrap /\ elapsed = ran
        BY <1>0, <1>1, <1>2, <1>4, <1>6, <1>7 DEF LoopInv, InStep
    <2>0. Resynced.time = lag /\ Resynced.cycles = elapsed /\ Resynced.ran = ran
        <3>1. ~ (Due(lag, elapsed) >= FrameCycles)
            BY <1>1, <1>6, <1>7
        <3> QED
            BY <3>1 DEF Resynced
    <2>2. CASE Due(lag, elapsed) >= Enough
        <3>0. ~ (Due(lag, elapsed) < Enough)
            BY <1>1, <1>7, <2>2
        <3>1. /\ lag' = lag /\ ran' = ran + TickCycles /\ at' = "polling"
              /\ elapsed' = (elapsed + TickCycles) % Wrap
            BY <1>0, <2>0, <3>0 DEF Poll
        <3>2. elapsed' = IF ran' < Wrap THEN ran' ELSE ran' - Wrap
            BY <1>0, <1>1, <2>1, <3>1, WrapOnce
        <3>3. /\ Due(lag', ran') = Asked(lag) - elapsed - TickCycles
              /\ Due(lag', ran') \in Int
              /\ Due(lag', ran') >= Enough - TickCycles
              /\ Due(lag', ran') <= Asked(FrameCycles) - TickCycles
            <4>1. lag' = lag /\ ran' = elapsed + TickCycles /\ ran' \in Nat
                BY <1>0, <1>1, <2>1, <3>1
            <4>2. Due(lag', ran') = Asked(lag) - (elapsed + TickCycles)
                BY <4>1 DEF Due
            <4>3. /\ Asked(lag) \in Nat /\ Asked(FrameCycles) \in Nat /\ Asked(FrameCycles) >= FrameCycles
                  /\ Asked(lag) - elapsed >= Enough /\ Asked(lag) - elapsed < FrameCycles
                BY <1>0, <1>1, <1>2, <1>6, <1>7, <2>2
            <4> QED
                BY <1>0, <1>1, <4>2, <4>3
        <3>4. (Due(lag, ran))' = Due(lag', ran') /\ (Due(lag, elapsed))' = Due(lag', elapsed')
            BY <1>0 DEF Due, Asked
        <3>5. elapsed' \in 0..(Wrap - 1) /\ ran' \in Nat
            BY <1>0, <1>1, <2>1, <3>1, <3>2
        <3>6. ASSUME ran' < Wrap
              PROVE  LoopInv'
            <4>1. LoopTypeOK'
                BY <1>0, <3>1, <3>5 DEF LoopTypeOK
            <4>2. InStep'
                BY <3>2, <3>6 DEF InStep
            <4>3. NotAhead'
                BY <3>3, <3>4 DEF NotAhead
            <4> QED
                BY <4>1, <4>2, <4>3 DEF LoopInv
        <3>7. ASSUME ~ (ran' < Wrap)
              PROVE  LoopInv'
            <4>0. elapsed' = ran' - Wrap
                BY <3>2, <3>7
            <4>1. ran' = elapsed' + Wrap
                <5>1. \A a, b, w \in Nat : a = b - w => b = a + w
                    OBVIOUS
                <5>2. elapsed' \in Nat /\ ran' \in Nat /\ Wrap \in Nat
                    BY <1>1, <3>5
                <5> QED
                    BY <4>0, <5>1, <5>2, Zenon
            <4>2. Due(lag', elapsed') = Due(lag', ran') + Wrap
                <5>1. Asked(lag) \in Nat /\ lag' = lag
                    BY <1>0, <1>2, <3>1
                <5>2. Due(lag', elapsed') = Asked(lag) - elapsed' /\ Due(lag', ran') = Asked(lag) - ran'
                    BY <5>1 DEF Due
                <5> QED
                    BY <1>1, <3>5, <4>1, <5>1, <5>2
            <4>3. Due(lag', elapsed') >= FrameCycles
                BY <1>1, <3>3, <4>2
            <4>4. LoopTypeOK'
                BY <1>0, <3>1, <3>5 DEF LoopTypeOK
            <4>5. InStep'
                BY <3>4, <4>1, <4>3 DEF InStep
            <4>6. NotAhead'
                BY <3>3, <3>4 DEF NotAhead
            <4> QED
                BY <4>4, <4>5, <4>6 DEF LoopInv
        <3>8. ran' > ran
            BY <1>0, <1>1, <3>1
        <3> QED
            BY <1>0, <3>3, <3>5, <3>6, <3>7, <3>8, <1>1
    <2>3. CASE Due(lag, elapsed) < Enough
        <3>0. ~ (Due(lag, elapsed) >= Enough)
            BY <1>1, <1>7, <2>3
        <3>1. lag' = lag /\ ran' = ran /\ elapsed' = elapsed /\ at' = "waiting"
            BY <1>0, <2>0, <3>0 DEF Poll
        <3>2. Due(lag', ran') >= Enough - TickCycles
            BY <3>1 DEF LoopInv, NotAhead
        <3> QED
            BY <1>0, <3>1, <3>2 DEF LoopInv, LoopTypeOK, InStep, NotAhead, Due, Asked
    <2> QED
        BY <1>0, <1>1, <1>2, <1>4, <1>7, <2>2, <2>3
<1> QED
    BY <1>0, <1>1, <1>2, <1>4, <1>5, <1>6

\* Time only adds to what is due, and the key starts from nothing.
LEMMA NextLoop == LoopInv /\ [LoopNext]_loopVars => LoopInv'
<1> SUFFICES ASSUME LoopInv, [LoopNext]_loopVars
             PROVE  LoopInv'
    OBVIOUS
<1> USE LoopAssumption DEF LoopInv, LoopTypeOK, InStep, NotAhead, Due, Asked
<1>1. CASE Poll
    BY <1>1, PollStep
<1>2. CASE WaitOver \/ Message \/ Dispatch
    BY <1>2 DEF WaitOver, Message, Dispatch
<1>3. ASSUME NEW down \in BOOLEAN, SpeedKey(down)
      PROVE  LoopInv'
    BY <1>3 DEF SpeedKey
<1>4. ASSUME NEW d \in Delays, TimePasses(d)
      PROVE  LoopInv'
    <2>1. d \in Nat
        OBVIOUS
    <2> QED
        BY <1>4, <2>1 DEF TimePasses
<1>5. CASE UNCHANGED loopVars
    BY <1>5 DEF loopVars
<1> QED
    BY <1>1, <1>2, <1>3, <1>4, <1>5 DEF LoopNext

-----------------------------------------------------------------------------
(* The program                                                             *)

HostInv == SessionInv /\ LoopInv

\* Every step of the program keeps the invariant of both parts.
LEMMA NextHost == HostInv /\ [HostNext]_hostVars => HostInv'
<1> SUFFICES ASSUME HostInv, [HostNext]_hostVars
             PROVE  HostInv'
    OBVIOUS
<1>1. [SessionNext]_sessionVars /\ [LoopNext]_loopVars
    BY DEF HostNext, hostVars
<1> QED
    BY <1>1, NextSession, NextLoop DEF HostInv

\* The inductive invariant of the program (windows.cpp:90-187, 312-376).
THEOREM HostInvariant == HostSpec => []HostInv
<1>1. HostInit => HostInv
    BY InitSession, InitLoop DEF HostInit, HostInv
<1> QED
    BY <1>1, NextHost, PTL DEF HostSpec

\* The contents of files and RAM keep their types, and the difference of the
\* counters stays a 32-bit number (windows.cpp:150).
THEOREM HostTypeCorrect == HostSpec => []HostTypeOK
<1>1. HostInv => HostTypeOK
    BY DEF HostInv, SessionInv, LoopInv, HostTypeOK
<1> QED
    BY <1>1, HostInvariant, PTL

\* Whichever part of a handler fails, neither the emulator nor the cartridge
\* knows one that is gone (gb_emu.h:96-100, windows.cpp:339-343).
THEOREM NothingEverDangles == HostSpec => []NothingDangles
<1>1. HostInv => NothingDangles
    BY DEF HostInv, SessionInv, Placed
<1> QED
    BY <1>1, HostInvariant, PTL

\* A game that is not running is in its save file, unless the process was killed,
\* the file did not open for writing, or the disk took only a part of it
\* (gb_emu.h:72-79, gb_cart.cpp:207-215, 240-247).
THEOREM ProgressAlwaysSaved == HostSpec => []ProgressIsSaved
<1>1. HostInv => ProgressIsSaved
    BY DEF HostInv, SessionInv, Accounted, ProgressIsSaved
<1> QED
    BY <1>1, HostInvariant, PTL

\* A game for which there is a file starts with the whole of a RAM that was saved,
\* or, if reading it failed, with a head of it and then zeros; without a file it
\* starts with zeros (gb_cart.cpp:217-238, 269-272).
THEOREM RamAlwaysGenuine == HostSpec => []RamIsGenuine
<1>1. HostInv => RamIsGenuine
    BY DEF HostInv, SessionInv
<1> QED
    BY <1>1, HostInvariant, PTL

\* The game keeps up with the clock and never runs ahead of it, across the
\* wrap-around of the counter too (windows.cpp:137-164).
THEOREM GameKeepsPace == HostSpec => GameFollowsClock
<1>1. ASSUME HostInv, Poll
      PROVE  /\ Due(lag', ran') >= Enough - TickCycles
             /\ at' = "polling" /\ ~ speedup_active => Due(lag', ran') <= FrameCycles - TickCycles
             /\ ran' <= ran /\ at' = "polling" => Due(lag, ran) >= FrameCycles \/ ran >= Wrap
    <2>1. ~ speedup_active => Asked(FrameCycles) = FrameCycles
        BY DEF Asked
    <2> QED
        BY <1>1, <2>1, PollStep DEF HostInv
<1>2. HostInv =>
        [Poll =>
            /\ Due(lag', ran') >= Enough - TickCycles
            /\ at' = "polling" /\ ~ speedup_active => Due(lag', ran') <= FrameCycles - TickCycles
            /\ ran' <= ran /\ at' = "polling" => Due(lag, ran) >= FrameCycles \/ ran >= Wrap]_loopVars
    BY <1>1
<1> QED
    BY <1>2, HostInvariant, PTL DEF GameFollowsClock
=============================================================================
