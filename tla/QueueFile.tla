------------------------------ MODULE QueueFile ------------------------------
(***************************************************************************)
(* QueueMemoryMappedBuffer: how a process finds, creates and maps the file *)
(* of the queue.  Nothing locks the file; the test for its existence and   *)
(* its creation are separate steps, and creating it takes many.            *)
(*                                                                         *)
(* A name refers to at most one file.  Java deletes the file before it     *)
(* creates one, and a process that has the old one mapped keeps it.  C++   *)
(* opens what is there and writes zeros over it, block by block; both then *)
(* set the mapped memory to zero.                                          *)
(*                                                                         *)
(* data records, for each block, the processes that have stored something  *)
(* there that was not set back to zero since.                              *)
(***************************************************************************)
EXTENDS Integers, FiniteSets

CONSTANTS Processes,
          Blocks,       \* length of a complete file
          OneAtATime,   \* calls of mapProducerBuffer do not overlap
          MaxStarts,    \* bound: processes started
          MaxKills      \* bound: processes killed before they use the queue

ASSUME FileAssumption ==
    /\ Blocks \in Nat \ {0}
    /\ MaxStarts \in Nat /\ MaxKills \in Nat
    /\ OneAtATime \in BOOLEAN

VARIABLES
    named,     \* the file the name refers to, 0 if there is none
    created,   \* files created so far
    length,    \* [file -> its length]
    data,      \* [file -> [block -> who has stored there]]
    pc,        \* [Processes -> where the process is]
    lang,      \* [Processes -> what it is written in]
    mine,      \* [Processes -> the file it has open]
    mapped,    \* [Processes -> length of its mapping]
    pos,       \* [Processes -> blocks it has set to zero]
    early,     \* waiting processes that mapped a file still being written
    starts, kills

files == <<named, created, length, data>>
count == <<starts, kills>>
vars  == <<files, pc, lang, mine, mapped, pos, early, count>>

Files == 1 .. MaxStarts
NoStores == [b \in 1 .. Blocks |-> {}]

At(p, where) == pc[p] = where
Goto(p, where) == pc' = [pc EXCEPT ![p] = where]

\* Where a process is not in mapProducerBuffer, and where it is and writes the
\* file.
Settled == {"off", "await", "mapAwaited", "ready", "using", "failed"}
Writing == {"extend", "fill", "setMemory"}

\* No other process is in mapProducerBuffer.
Quiet(p) == OneAtATime => \A q \in Processes \ {p} : pc[q] \in Settled

\* Some process still writes the file.
BeingWritten(file) == \E q \in Processes : pc[q] \in Writing /\ mine[q] = file

\* The next file, empty, takes the name.
NewFile(p) ==
    /\ created' = created + 1
    /\ named' = created'
    /\ mine' = [mine EXCEPT ![p] = created']

-----------------------------------------------------------------------------

\* main or a test constructs a QueueMemoryMappedBuffer and maps it in one of
\* two ways: mapProducerBuffer, or (Java) waitForFileCreateMappedBuffer.
Start(p, l, how) ==
    /\ At(p, "off")
    /\ starts < MaxStarts
    /\ how = "await" => l = "java"
    /\ how = "stat" => Quiet(p)
    /\ starts' = starts + 1
    /\ lang' = [lang EXCEPT ![p] = l]
    /\ early' = early \ {p}
    /\ Goto(p, how)
    /\ UNCHANGED <<files, mine, mapped, pos, kills>>

\* mapProducerBuffer's test for the file.
Stat(p, found) ==
    /\ At(p, "stat")
    /\ Goto(p, IF found THEN "mapExisting"
               ELSE IF lang[p] = "cpp" THEN "open" ELSE "delete")
    /\ UNCHANGED <<files, lang, mine, mapped, pos, early, count>>

StatFile_AlwaysCreates(p) == Stat(p, FALSE)
StatFile(p) == Stat(p, named # 0)

\* waitForFileCreateMappedBuffer looks once a second until there is a file,
\* and does not ask whether it is complete.
AwaitFile(p) ==
    /\ At(p, "await")
    /\ named # 0
    /\ Goto(p, "mapAwaited")
    /\ UNCHANGED <<files, lang, mine, mapped, pos, early, count>>

\* mapBuffer: the mapping is as long as the file is now.  There is nothing to
\* map, and the process ends, if the file is gone or (C++) still empty.
MapExisting(p) ==
    /\ pc[p] \in {"mapExisting", "mapAwaited"}
    /\ early' = IF At(p, "mapAwaited") /\ BeingWritten(named)
                THEN early \cup {p} ELSE early
    /\ IF named = 0 \/ (lang[p] = "cpp" /\ length[named] = 0)
       THEN Goto(p, "failed") /\ UNCHANGED <<mine, mapped>>
       ELSE /\ Goto(p, "ready")
            /\ mine' = [mine EXCEPT ![p] = named]
            /\ mapped' = [mapped EXCEPT ![p] = length[named]]
    /\ UNCHANGED <<files, lang, pos, count>>

\* Java's createAndLoadMappedFile first deletes the file ...
DeleteIfExists(p) ==
    /\ At(p, "delete")
    /\ named' = 0
    /\ Goto(p, "mapNewFile")
    /\ UNCHANGED <<created, length, data, lang, mine, mapped, pos, early, count>>

\* ... then IoUtil.mapNewFile creates it, refusing a file that is there ...
CreateNew(p) ==
    /\ At(p, "mapNewFile")
    /\ IF named # 0
       THEN Goto(p, "failed") /\ UNCHANGED <<named, created, mine>>
       ELSE NewFile(p) /\ Goto(p, "extend")
    /\ UNCHANGED <<length, data, lang, mapped, pos, early, count>>

\* ... and maps it, which gives it its length.
Extend(p) ==
    /\ At(p, "extend")
    /\ length' = [length EXCEPT ![mine[p]] = Blocks]
    /\ mapped' = [mapped EXCEPT ![p] = Blocks]
    /\ pos' = [pos EXCEPT ![p] = 0]
    /\ Goto(p, "setMemory")
    /\ UNCHANGED <<named, created, data, lang, mine, early, count>>

\* C++'s createNew opens the file, whether it is there by now or not ...
OpenOrCreate(p) ==
    /\ At(p, "open")
    /\ IF named = 0
       THEN NewFile(p)
       ELSE mine' = [mine EXCEPT ![p] = named] /\ UNCHANGED <<named, created>>
    /\ pos' = [pos EXCEPT ![p] = 0]
    /\ Goto(p, "fill")
    /\ UNCHANGED <<length, data, lang, mapped, early, count>>

Zero(p) == data' = [data EXCEPT ![mine[p]][pos[p] + 1] = {}]

\* ... writes zeros over it up to its last block, and maps it.
FillTo(p, last) ==
    /\ At(p, "fill")
    /\ Zero(p)
    /\ length' = [length EXCEPT ![mine[p]] = IF @ > pos[p] THEN @ ELSE pos[p] + 1]
    /\ IF pos[p] + 1 = last
       THEN /\ Goto(p, "setMemory")
            /\ pos' = [pos EXCEPT ![p] = 0]
            /\ mapped' = [mapped EXCEPT ![p] = Blocks]
       ELSE /\ pos' = [pos EXCEPT ![p] = @ + 1]
            /\ UNCHANGED <<pc, mapped>>
    /\ UNCHANGED <<named, created, lang, mine, early, count>>

Fill_OneBlockShort(p) == FillTo(p, Blocks - 1)
Fill(p) == FillTo(p, Blocks)

\* createAndLoadMappedFile sets the mapped memory to zero.
SetMemory(p) ==
    /\ At(p, "setMemory")
    /\ Zero(p)
    /\ pos' = [pos EXCEPT ![p] = @ + 1]
    /\ IF pos[p] + 1 = Blocks THEN Goto(p, "ready") ELSE UNCHANGED pc
    /\ UNCHANGED <<named, created, length, lang, mine, mapped, early, count>>

\* The process works with the queue, all over the file.  A mapping that is too
\* short ends it.
Use(p) ==
    /\ At(p, "ready")
    /\ IF mapped[p] < Blocks
       THEN Goto(p, "failed") /\ UNCHANGED data
       ELSE /\ Goto(p, "using")
            /\ data' = [data EXCEPT ![mine[p]] = [b \in 1 .. Blocks |-> @[b] \cup {p}]]
    /\ UNCHANGED <<named, created, length, lang, mine, mapped, pos, early, count>>

\* The process ends, or closes the buffer; the file stays.
Close(p) ==
    /\ At(p, "using")
    /\ Goto(p, "off")
    /\ UNCHANGED <<files, lang, mine, mapped, pos, early, count>>

\* The process is killed on its way to the queue, and leaves what it has
\* written so far.
Kill(p) ==
    /\ pc[p] \notin {"off", "using", "failed"}
    /\ kills < MaxKills
    /\ kills' = kills + 1
    /\ Goto(p, "off")
    /\ UNCHANGED <<files, lang, mine, mapped, pos, early, starts>>

-----------------------------------------------------------------------------

Init ==
    /\ named = 0 /\ created = 0
    /\ length = [f \in Files |-> 0]
    /\ data = [f \in Files |-> NoStores]
    /\ pc = [p \in Processes |-> "off"]
    /\ lang = [p \in Processes |-> "cpp"]
    /\ mine = [p \in Processes |-> 0]
    /\ mapped = [p \in Processes |-> 0]
    /\ pos = [p \in Processes |-> 0]
    /\ early = {}
    /\ starts = 0 /\ kills = 0

\* What the process does once it is started.
Step(p) ==
    \/ StatFile(p) \/ AwaitFile(p) \/ MapExisting(p)
    \/ DeleteIfExists(p) \/ CreateNew(p) \/ Extend(p)
    \/ OpenOrCreate(p) \/ Fill(p) \/ SetMemory(p) \/ Use(p)

Next ==
    \E p \in Processes :
        \/ \E l \in {"cpp", "java"}, how \in {"stat", "await"} : Start(p, l, how)
        \/ Step(p) \/ Close(p) \/ Kill(p)

Spec == Init /\ [][Next]_vars

\* The scheduler keeps every process running; nobody has to start or stop one.
FairSpec == Spec /\ \A p \in Processes : WF_vars(Step(p))

-----------------------------------------------------------------------------

Using(p) == At(p, "using")

\* Unless a process was killed while it created the file, every process that
\* starts gets to use the queue: it never maps a file that is missing or too
\* short.  Only a process that waited for the file may, if it maps the file
\* while its creator still writes it.
StartsSucceed ==
    kills = 0 => \A p \in Processes : At(p, "failed") => p \in early

\* Processes that use the queue use the same file, the one that newcomers will
\* find under its name; those that mapped it early too.
SameFile == \A p \in Processes : Using(p) => mine[p] = named

\* What a process stored in a queue it uses is not set back to zero by another
\* process that creates the file, unless it waited for the file and mapped it
\* while its creator still wrote it.
NothingWiped ==
    \A p \in Processes : Using(p) /\ p \notin early =>
        \A b \in 1 .. Blocks : p \in data[mine[p]][b]

\* A process that waits for the file does not wait beside it: once somebody has
\* begun to create it, the waiting process gets to use the queue, or it comes
\* before the creator is done, or somebody is killed.
WaitEnds ==
    \A p \in Processes :
        At(p, "await") /\ named # 0 ~> Using(p) \/ p \in early \/ kills > 0
=============================================================================
