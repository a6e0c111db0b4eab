--------------------------- MODULE QueueFileProofs ---------------------------
(***************************************************************************)
(* What QueueMemoryMappedBuffer promises when calls of mapProducerBuffer   *)
(* do not overlap, while processes wait for the file and map it whenever   *)
(* they find it: for any number of processes, starts and kills and any     *)
(* length of the file.                                                     *)
(***************************************************************************)
EXTENDS QueueFile, TLAPS

Where == {"off", "stat", "await", "mapExisting", "mapAwaited", "delete", "mapNewFile",
          "extend", "open", "fill", "setMemory", "ready", "using", "failed"}

TypeInv ==
    /\ named \in 0 .. MaxStarts /\ created \in Nat
    /\ length \in [Files -> Nat]
    /\ data \in [Files -> [1 .. Blocks -> SUBSET Processes]]
    /\ pc \in [Processes -> Where]
    /\ lang \in [Processes -> {"cpp", "java"}]
    /\ mine \in [Processes -> 0 .. MaxStarts]
    /\ mapped \in [Processes -> Nat]
    /\ pos \in [Processes -> Nat]
    /\ early \in SUBSET Processes
    /\ starts \in 0 .. MaxStarts /\ kills \in 0 .. MaxKills

\* Where a process may still create a file, knows that there is none, has one
\* that it found, has the file that newcomers will find.
MayCreate == {"stat", "delete", "mapNewFile", "open"}
Absent    == {"delete", "mapNewFile", "open"}
Found     == {"mapExisting", "mapAwaited"}
Holding   == Writing \cup {"ready", "using"}

\* At most one process is in mapProducerBuffer.
OneStarting ==
    \A p, q \in Processes : p = q \/ pc[p] \in Settled \/ pc[q] \in Settled

\* Whoever has the file mapped while it is being written came early.
OnlyEarly == \A q \in Processes : pc[q] \in {"ready", "using"} => q \in early

\* What a process can rely on, at each of its steps.
Relies(p) ==
    /\ pc[p] \in MayCreate => created < starts
    /\ pc[p] \in Absent => named = 0
    /\ pc[p] \in Found => named # 0
    /\ pc[p] \in Holding => mine[p] = named /\ named # 0
    /\ pc[p] \in Writing => OnlyEarly
    /\ pc[p] \in {"fill", "setMemory"} => pos[p] < Blocks
    /\ pc[p] = "using" /\ p \notin early => \A b \in 1 .. Blocks : p \in data[mine[p]][b]
    /\ kills = 0 => /\ pc[p] = "failed" => p \in early
                    /\ pc[p] = "setMemory" => mapped[p] >= Blocks
                    /\ pc[p] = "ready" /\ p \notin early => mapped[p] >= Blocks

\* Unless its creator was killed, the file that has the name is complete or
\* being written.
Complete ==
    \/ kills > 0
    \/ named = 0
    \/ \E p \in Processes : pc[p] \in {"extend", "fill"}
    \/ length[named] >= Blocks

FileInv ==
    /\ TypeInv
    /\ created <= starts
    /\ OneStarting
    /\ \A p \in Processes : Relies(p)
    /\ Complete

-----------------------------------------------------------------------------
(* What the actions' proofs share *)

LEMMA InitFileInv == Init => FileInv
<1> SUFFICES ASSUME Init PROVE FileInv
  OBVIOUS
<1>1. TypeInv
  BY FileAssumption DEF Init, TypeInv, Where, Files, NoStores
<1>2. created <= starts /\ Complete
  BY DEF Init, Complete
<1>3. \A p \in Processes : pc[p] = "off"
  BY DEF Init
<1>4. OneStarting
  BY <1>3 DEF OneStarting, Settled
<1>5. \A p \in Processes : Relies(p)
  BY <1>3 DEF Relies, MayCreate, Absent, Found, Writing, Holding
<1> QED BY <1>1, <1>2, <1>4, <1>5 DEF FileInv

LEMMA OthersSettled ==
    ASSUME FileInv, NEW p \in Processes, pc[p] \notin Settled,
           NEW q \in Processes, q # p
    PROVE  pc[q] \in Settled
BY DEF FileInv, OneStarting

\* A process may move on its way, or set out when nobody else is on his.
LEMMA OneStartingKept ==
    ASSUME TypeInv, OneStarting, NEW p \in Processes, NEW where,
           pc' = [pc EXCEPT ![p] = where],
           \/ pc[p] \notin Settled
           \/ where \in Settled
           \/ \A q \in Processes \ {p} : pc[q] \in Settled
    PROVE  OneStarting'
<1>1. pc'[p] = where /\ \A q \in Processes \ {p} : pc'[q] = pc[q]
  BY DEF TypeInv
<1> QED BY <1>1 DEF OneStarting

\* A process that is not in mapProducerBuffer relies on little: a step of
\* another one must leave it its file, its mapping and its stores.
LEMMA SettledRelies ==
    ASSUME NEW q \in Processes, Relies(q), pc[q] \in Settled,
           pc'[q] = pc[q], mine'[q] = mine[q], mapped'[q] = mapped[q],
           early' = early,
           kills' = 0 => kills = 0,
           pc[q] \in {"mapAwaited", "ready", "using"} => named' = named,
           pc[q] = "using" /\ q \notin early => \A b \in 1 .. Blocks : q \in data'[mine[q]][b]
    PROVE  Relies(q)'
<1>1. pc[q] \in {"off", "await", "mapAwaited", "ready", "using", "failed"}
  BY DEF Settled
<1> QED BY <1>1 DEF Relies, MayCreate, Absent, Found, Writing, Holding

\* Nobody has found or mapped a file while there is none.
LEMMA NoFileNoUser ==
    ASSUME FileInv, named = 0, NEW q \in Processes
    PROVE  pc[q] \notin {"mapAwaited", "ready", "using"}
BY DEF FileInv, Relies, Found, Holding, Writing

LEMMA FileOfHolder ==
    ASSUME FileInv, NEW p \in Processes, pc[p] \in Holding
    PROVE  mine[p] = named /\ named \in Files
BY DEF FileInv, Relies, TypeInv, Files

-----------------------------------------------------------------------------
(* One lemma per action *)

LEMMA StartInv ==
    ASSUME OneAtATime, FileInv, NEW p \in Processes, NEW l \in {"cpp", "java"},
           NEW how \in {"stat", "await"}, Start(p, l, how)
    PROVE  FileInv'
<1>1. /\ pc[p] = "off" /\ starts' = starts + 1 /\ starts < MaxStarts
      /\ pc' = [pc EXCEPT ![p] = how] /\ lang' = [lang EXCEPT ![p] = l]
      /\ named' = named /\ created' = created /\ length' = length /\ data' = data
      /\ mine' = mine /\ mapped' = mapped /\ pos' = pos /\ kills' = kills
      /\ early' = early \ {p}
      /\ how = "stat" => Quiet(p)
  BY DEF Start, At, Goto, files
<1>2. TypeInv /\ created <= starts
  BY DEF FileInv
<1>3. TypeInv' /\ created' <= starts'
  BY <1>1, <1>2, FileAssumption DEF TypeInv, Where
<1>4. pc'[p] = how /\ \A q \in Processes \ {p} : pc'[q] = pc[q]
  BY <1>1, <1>2 DEF TypeInv
<1>5. OneStarting'
  <2>1. how \in Settled \/ \A q \in Processes \ {p} : pc[q] \in Settled
    BY <1>1 DEF Quiet, Settled
  <2> QED BY <1>1, <2>1, OneStartingKept DEF FileInv
<1>6. Relies(p)'
  <2>1. created' < starts'
    BY <1>1, <1>2 DEF TypeInv
  <2>2. pc'[p] \in {"stat", "await"}
    BY <1>4
  <2> QED BY <2>1, <2>2 DEF Relies, MayCreate, Absent, Found, Writing, Holding
<1>7. ASSUME NEW q \in Processes, q # p PROVE Relies(q)'
  <2>1. Relies(q) /\ pc'[q] = pc[q]
    BY <1>4, <1>7 DEF FileInv
  <2>2. created < starts => created' < starts'
    BY <1>1, <1>2 DEF TypeInv
  <2>3. OnlyEarly => OnlyEarly'
    BY <1>1, <1>4 DEF OnlyEarly
  <2>4. q \in early' <=> q \in early
    BY <1>1, <1>7
  <2> QED BY <1>1, <2>1, <2>2, <2>3, <2>4 DEF Relies
<1>8. Complete'
  <2>1. ASSUME NEW r \in Processes, pc[r] \in {"extend", "fill"}
        PROVE  pc'[r] \in {"extend", "fill"}
    BY <1>1, <1>4, <2>1
  <2> QED BY <1>1, <2>1 DEF FileInv, Complete
<1> QED BY <1>3, <1>5, <1>6, <1>7, <1>8 DEF FileInv

\* mapProducerBuffer learns whether there is a file.
LEMMA StatInv ==
    ASSUME FileInv, NEW p \in Processes, StatFile(p)
    PROVE  FileInv'
<1> PICK where \in {"mapExisting", "open", "delete"} :
         /\ pc' = [pc EXCEPT ![p] = where]
         /\ where = "mapExisting" => named # 0
         /\ where # "mapExisting" => named = 0
  BY DEF StatFile, Stat, At, Goto
<1>1. /\ pc[p] = "stat"
      /\ named' = named /\ created' = created /\ length' = length /\ data' = data
      /\ lang' = lang /\ mine' = mine /\ mapped' = mapped /\ pos' = pos
      /\ early' = early /\ starts' = starts /\ kills' = kills
  BY DEF StatFile, Stat, At, files, count
<1>2. TypeInv
  BY DEF FileInv
<1>3. TypeInv' /\ created' <= starts'
  BY <1>1, <1>2 DEF FileInv, TypeInv, Where
<1>4. pc'[p] = where /\ \A q \in Processes \ {p} : pc'[q] = pc[q]
  BY <1>2 DEF TypeInv
<1>5. \A q \in Processes \ {p} : pc[q] \in Settled
  BY <1>1, OthersSettled DEF Settled
<1>6. OneStarting'
  BY <1>5, OneStartingKept DEF FileInv
<1>7. Relies(p)'
  <2>1. created < starts
    BY <1>1 DEF FileInv, Relies, MayCreate
  <2> QED BY <1>1, <1>4, <2>1 DEF Relies, MayCreate, Absent, Found, Writing, Holding
<1>8. ASSUME NEW q \in Processes, q # p PROVE Relies(q)'
  <2>1. Relies(q) /\ pc'[q] = pc[q] /\ pc[q] \in Settled
    BY <1>4, <1>5, <1>8 DEF FileInv
  <2>2. pc[q] = "using" /\ q \notin early => \A b \in 1 .. Blocks : q \in data'[mine[q]][b]
    BY <1>1, <2>1 DEF Relies
  <2> QED BY <1>1, <2>1, <2>2, SettledRelies
<1>9. Complete'
  <2>1. ASSUME NEW r \in Processes, pc[r] \in {"extend", "fill"} PROVE FALSE
    BY <1>1, <1>5, <2>1 DEF Settled
  <2> QED BY <1>1, <2>1 DEF FileInv, Complete
<1> QED BY <1>3, <1>6, <1>7, <1>8, <1>9 DEF FileInv

\* A waiting process sees a file, complete or not.
LEMMA AwaitInv ==
    ASSUME FileInv, NEW p \in Processes, AwaitFile(p)
    PROVE  FileInv'
<1>1. /\ pc[p] = "await" /\ named # 0 /\ pc' = [pc EXCEPT ![p] = "mapAwaited"]
      /\ named' = named /\ created' = created /\ length' = length /\ data' = data
      /\ lang' = lang /\ mine' = mine /\ mapped' = mapped /\ pos' = pos
      /\ early' = early /\ starts' = starts /\ kills' = kills
  BY DEF AwaitFile, At, Goto, files, count
<1>2. TypeInv
  BY DEF FileInv
<1>3. TypeInv' /\ created' <= starts'
  BY <1>1, <1>2 DEF FileInv, TypeInv, Where
<1>4. pc'[p] = "mapAwaited" /\ \A q \in Processes \ {p} : pc'[q] = pc[q]
  BY <1>1, <1>2 DEF TypeInv
<1>5. OneStarting'
  BY <1>1, <1>2, OneStartingKept DEF FileInv, Settled
<1>6. Relies(p)'
  BY <1>1, <1>4 DEF Relies, MayCreate, Absent, Found, Writing, Holding
<1>7. ASSUME NEW q \in Processes, q # p PROVE Relies(q)'
  <2>1. Relies(q) /\ pc'[q] = pc[q]
    BY <1>4, <1>7 DEF FileInv
  <2>2. OnlyEarly => OnlyEarly'
    BY <1>1, <1>4 DEF OnlyEarly
  <2> QED BY <1>1, <2>1, <2>2 DEF Relies
<1>8. Complete'
  <2>1. ASSUME NEW r \in Processes, pc[r] \in {"extend", "fill"}
        PROVE  pc'[r] \in {"extend", "fill"}
    BY <1>1, <1>4, <2>1
  <2> QED BY <1>1, <2>1 DEF FileInv, Complete
<1> QED BY <1>3, <1>5, <1>6, <1>7, <1>8 DEF FileInv

\* Whoever maps a file that is not being written gets all of it; others are
\* counted among the early ones.
LEMMA MapExistingInv ==
    ASSUME FileInv, NEW p \in Processes, MapExisting(p)
    PROVE  FileInv'
<1>1. /\ pc[p] \in Found
      /\ named' = named /\ created' = created /\ length' = length /\ data' = data
      /\ lang' = lang /\ pos' = pos /\ starts' = starts /\ kills' = kills
  BY DEF MapExisting, Found, files, count
<1>2. TypeInv
  BY DEF FileInv
<1>3. named # 0 /\ named \in Files
  BY <1>1, <1>2 DEF FileInv, Relies, TypeInv, Files
<1>4. /\ early' \in SUBSET Processes
      /\ \A q \in Processes \ {p} : q \in early' <=> q \in early
  BY <1>2 DEF MapExisting, TypeInv
<1>5. p \in early' \/ \A q \in Processes : pc[q] \notin Writing
  <2>1. CASE pc[p] = "mapAwaited"
    <3>1. ASSUME NEW q \in Processes, pc[q] \in Writing PROVE BeingWritten(named)
      <4>1. mine[q] = named
        BY <3>1, FileOfHolder DEF Holding
      <4> QED BY <3>1, <4>1 DEF BeingWritten
    <3>2. BeingWritten(named) => p \in early'
      BY <2>1 DEF MapExisting, At
    <3> QED BY <3>1, <3>2
  <2>2. CASE pc[p] = "mapExisting"
    BY <2>2, OthersSettled DEF Settled, Writing
  <2> QED BY <1>1, <2>1, <2>2 DEF Found
<1>6. kills = 0 => p \in early' \/ length[named] >= Blocks
  BY <1>2, <1>3, <1>5, FileAssumption DEF FileInv, Complete, TypeInv, Writing
<1>7. \/ /\ pc' = [pc EXCEPT ![p] = "failed"]
         /\ mine' = mine /\ mapped' = mapped
         /\ kills # 0 \/ p \in early'
      \/ /\ pc' = [pc EXCEPT ![p] = "ready"]
         /\ mine' = [mine EXCEPT ![p] = named]
         /\ mapped' = [mapped EXCEPT ![p] = length[named]]
  <2>1. kills = 0 => p \in early' \/ length[named] # 0
    BY <1>2, <1>3, <1>6, FileAssumption DEF TypeInv
  <2> QED BY <1>3, <2>1 DEF MapExisting, Goto
<1>8. TypeInv' /\ created' <= starts'
  <2>1. length[named] \in Nat
    BY <1>2, <1>3 DEF TypeInv
  <2> QED BY <1>1, <1>2, <1>4, <1>7, <2>1 DEF FileInv, TypeInv, Where
<1>9. /\ pc'[p] \in {"failed", "ready"}
      /\ pc'[p] = "failed" => kills # 0 \/ p \in early'
      /\ pc'[p] = "ready" => mine'[p] = named /\ mapped'[p] = length[named]
      /\ \A q \in Processes \ {p} :
            pc'[q] = pc[q] /\ mine'[q] = mine[q] /\ mapped'[q] = mapped[q]
  BY <1>2, <1>7 DEF TypeInv
<1>10. OneStarting'
  BY <1>1, <1>2, <1>7, OneStartingKept DEF FileInv, Settled
<1>11. Relies(p)'
  BY <1>1, <1>3, <1>6, <1>9 DEF Relies, MayCreate, Absent, Found, Writing, Holding
<1>12. ASSUME NEW q \in Processes, q # p PROVE Relies(q)'
  <2>1. /\ Relies(q) /\ (q \in early' <=> q \in early)
        /\ pc'[q] = pc[q] /\ mine'[q] = mine[q] /\ mapped'[q] = mapped[q]
    BY <1>4, <1>9, <1>12 DEF FileInv
  <2>2. pc[q] \in Writing => OnlyEarly'
    BY <1>4, <1>5, <1>9, <2>1 DEF OnlyEarly, Relies
  <2> QED BY <1>1, <2>1, <2>2 DEF Relies
<1>13. Complete'
  <2>1. ASSUME NEW r \in Processes, pc[r] \in {"extend", "fill"}
        PROVE  pc'[r] \in {"extend", "fill"}
    BY <1>1, <1>9, <2>1 DEF Found
  <2> QED BY <1>1, <2>1 DEF FileInv, Complete
<1> QED BY <1>8, <1>10, <1>11, <1>12, <1>13 DEF FileInv

\* There is nothing to delete: the process has seen that there is no file.
LEMMA DeleteIfExistsInv ==
    ASSUME FileInv, NEW p \in Processes, DeleteIfExists(p)
    PROVE  FileInv'
<1>1. /\ pc[p] = "delete" /\ named' = 0 /\ pc' = [pc EXCEPT ![p] = "mapNewFile"]
      /\ created' = created /\ length' = length /\ data' = data
      /\ lang' = lang /\ mine' = mine /\ mapped' = mapped /\ pos' = pos
      /\ early' = early /\ starts' = starts /\ kills' = kills
  BY DEF DeleteIfExists, At, Goto, count
<1>2. TypeInv
  BY DEF FileInv
<1>3. named = 0 /\ created < starts
  BY <1>1 DEF FileInv, Relies, Absent, MayCreate
<1>4. TypeInv' /\ created' <= starts'
  BY <1>1, <1>2, <1>3 DEF FileInv, TypeInv, Where
<1>5. pc'[p] = "mapNewFile" /\ \A q \in Processes \ {p} : pc'[q] = pc[q]
  BY <1>1, <1>2 DEF TypeInv
<1>6. OneStarting'
  BY <1>1, <1>2, OneStartingKept DEF FileInv, Settled
<1>7. Relies(p)'
  BY <1>1, <1>3, <1>5 DEF Relies, MayCreate, Absent, Found, Writing, Holding
<1>8. ASSUME NEW q \in Processes, q # p PROVE Relies(q)'
  <2>1. Relies(q) /\ pc'[q] = pc[q] /\ pc[q] \in Settled
    BY <1>1, <1>5, <1>8, OthersSettled DEF FileInv, Settled
  <2>2. pc[q] \notin {"mapAwaited", "ready", "using"}
    BY <1>3, NoFileNoUser
  <2> QED BY <1>1, <2>1, <2>2, SettledRelies
<1>9. Complete'
  BY <1>1 DEF Complete
<1> QED BY <1>4, <1>6, <1>7, <1>8, <1>9 DEF FileInv

\* CreateNew and OpenOrCreate: the file is always a new one.
LEMMA CreateInv ==
    ASSUME FileInv, NEW p \in Processes, CreateNew(p) \/ OpenOrCreate(p)
    PROVE  FileInv'
<1>1. TypeInv
  BY DEF FileInv
<1>2. pc[p] \in {"mapNewFile", "open"}
  BY DEF CreateNew, OpenOrCreate, At
<1>3. named = 0 /\ created < starts
  BY <1>2 DEF FileInv, Relies, Absent, MayCreate
<1>4. PICK where \in {"extend", "fill"} :
        /\ pc' = [pc EXCEPT ![p] = where]
        /\ where = "fill" => pos' = [pos EXCEPT ![p] = 0]
        /\ where = "extend" => pos' = pos
  BY <1>3 DEF CreateNew, OpenOrCreate, Goto
<1>5. /\ created' = created + 1 /\ named' = created'
      /\ mine' = [mine EXCEPT ![p] = created']
      /\ length' = length /\ data' = data /\ lang' = lang /\ mapped' = mapped
      /\ early' = early /\ starts' = starts /\ kills' = kills
  BY <1>3 DEF CreateNew, OpenOrCreate, NewFile, count
<1>6. created' \in 1 .. MaxStarts /\ created' <= starts
  BY <1>1, <1>3, <1>5, FileAssumption DEF TypeInv
<1>7. TypeInv' /\ created' <= starts'
  <2>1. pos' \in [Processes -> Nat]
    <3>1. pos \in [Processes -> Nat]
      BY <1>1 DEF TypeInv
    <3>2. pos' = pos \/ pos' = [pos EXCEPT ![p] = 0]
      BY <1>4
    <3> QED BY <3>1, <3>2
  <2>2. pc' \in [Processes -> Where] /\ mine' \in [Processes -> 0 .. MaxStarts]
    BY <1>1, <1>4, <1>5, <1>6 DEF TypeInv, Where
  <2> QED BY <1>1, <1>5, <1>6, <2>1, <2>2 DEF TypeInv
<1>8. /\ pc'[p] = where /\ mine'[p] = created'
      /\ where = "fill" => pos'[p] = 0
      /\ \A q \in Processes \ {p} : pc'[q] = pc[q] /\ mine'[q] = mine[q]
  BY <1>1, <1>4, <1>5 DEF TypeInv
<1>9. OneStarting'
  BY <1>1, <1>2, <1>4, OneStartingKept DEF FileInv, Settled
<1>10. \A q \in Processes : pc[q] \notin {"mapAwaited", "ready", "using"}
  BY <1>3, NoFileNoUser
<1>11. Relies(p)'
  <2>1. OnlyEarly'
    BY <1>8, <1>10 DEF OnlyEarly
  <2>2. where = "fill" => pos'[p] < Blocks
    BY <1>8, FileAssumption
  <2>3. named' # 0 /\ mine'[p] = named'
    BY <1>5, <1>6, <1>8
  <2> QED BY <1>8, <2>1, <2>2, <2>3 DEF Relies, MayCreate, Absent, Found, Writing, Holding
<1>12. ASSUME NEW q \in Processes, q # p PROVE Relies(q)'
  <2>1. Relies(q) /\ pc'[q] = pc[q] /\ pc[q] \in Settled /\ mine'[q] = mine[q]
    BY <1>2, <1>8, <1>12, OthersSettled DEF FileInv, Settled
  <2> QED BY <1>5, <1>10, <2>1, SettledRelies
<1>13. Complete'
  BY <1>8 DEF Complete
<1> QED BY <1>7, <1>9, <1>11, <1>12, <1>13 DEF FileInv

\* Extend, Fill and SetMemory write to a file that only early ones may use.
LEMMA WritingInv ==
    ASSUME FileInv, NEW p \in Processes, pc[p] \in Writing,
           NEW where \in {"fill", "setMemory", "ready"},
           pc' = [pc EXCEPT ![p] = where],
           UNCHANGED <<named, created, lang, mine, early, starts, kills>>,
           \A q \in Processes \ {p} : mapped'[q] = mapped[q],
           TypeInv',
           where \in {"fill", "setMemory"} => pos'[p] < Blocks,
           where \in {"setMemory", "ready"} /\ kills = 0 =>
              mapped'[p] >= Blocks /\ length'[named] >= Blocks
    PROVE  FileInv'
<1>1. TypeInv /\ pc[p] \notin Settled
  BY DEF FileInv, Writing, Settled
<1>2. pc'[p] = where /\ \A q \in Processes \ {p} : pc'[q] = pc[q]
  BY <1>1 DEF TypeInv
<1>3. mine[p] = named /\ named # 0 /\ OnlyEarly
  BY DEF FileInv, Relies, Holding
<1>4. OneStarting'
  BY <1>1, OneStartingKept DEF FileInv
<1>5. Relies(p)'
  <2>1. where # "ready" => OnlyEarly'
    BY <1>2, <1>3 DEF OnlyEarly
  <2> QED BY <1>2, <1>3, <2>1 DEF Relies, MayCreate, Absent, Found, Writing, Holding
<1>6. ASSUME NEW q \in Processes, q # p PROVE Relies(q)'
  <2>1. Relies(q) /\ pc'[q] = pc[q] /\ pc[q] \in Settled
    BY <1>1, <1>2, <1>6, OthersSettled DEF FileInv
  <2>2. pc[q] = "using" => q \in early
    BY <1>3 DEF OnlyEarly
  <2> QED BY <1>6, <2>1, <2>2, SettledRelies
<1>7. Complete'
  <2>1. CASE where = "fill"
    BY <1>2, <2>1 DEF Complete
  <2>2. CASE where # "fill"
    <3>1. kills' \in Nat
      BY FileAssumption DEF TypeInv
    <3> QED BY <2>2, <3>1 DEF Complete
  <2> QED BY <2>1, <2>2
<1> QED BY <1>4, <1>5, <1>6, <1>7 DEF FileInv

LEMMA ExtendInv ==
    ASSUME FileInv, NEW p \in Processes, Extend(p)
    PROVE  FileInv'
<1>1. /\ pc[p] = "extend" /\ pc' = [pc EXCEPT ![p] = "setMemory"]
      /\ length' = [length EXCEPT ![mine[p]] = Blocks]
      /\ mapped' = [mapped EXCEPT ![p] = Blocks]
      /\ pos' = [pos EXCEPT ![p] = 0]
      /\ UNCHANGED <<named, created, data, lang, mine, early, starts, kills>>
  BY DEF Extend, At, Goto, count
<1>2. TypeInv /\ mine[p] = named /\ named \in Files
  BY <1>1, FileOfHolder DEF FileInv, Holding, Writing
<1>3. TypeInv'
  BY <1>1, <1>2, FileAssumption DEF TypeInv, Where
<1>4. /\ pos'[p] = 0 /\ mapped'[p] = Blocks /\ length'[named] = Blocks
      /\ \A q \in Processes \ {p} : mapped'[q] = mapped[q]
  BY <1>1, <1>2 DEF TypeInv
<1>5. pos'[p] < Blocks /\ mapped'[p] >= Blocks /\ length'[named] >= Blocks
  BY <1>4, FileAssumption
<1> QED BY <1>1, <1>3, <1>4, <1>5, WritingInv DEF Writing

LEMMA ZeroKeepsType ==
    ASSUME TypeInv, NEW p \in Processes, mine[p] \in Files, pos[p] < Blocks, Zero(p)
    PROVE  data' \in [Files -> [1 .. Blocks -> SUBSET Processes]]
<1>1. pos[p] + 1 \in 1 .. Blocks
  BY FileAssumption DEF TypeInv
<1> QED BY <1>1 DEF TypeInv, Zero

LEMMA FillInv ==
    ASSUME FileInv, NEW p \in Processes, Fill(p)
    PROVE  FileInv'
<1>1. /\ pc[p] = "fill" /\ Zero(p)
      /\ length' = [length EXCEPT ![mine[p]] =
                                    IF @ > pos[p] THEN @ ELSE pos[p] + 1]
      /\ UNCHANGED <<named, created, lang, mine, early, starts, kills>>
  BY DEF Fill, FillTo, At, count
<1>2. TypeInv /\ mine[p] = named /\ named \in Files /\ pos[p] < Blocks
  BY <1>1, FileOfHolder DEF FileInv, Holding, Writing, Relies
<1>3. data' \in [Files -> [1 .. Blocks -> SUBSET Processes]]
  BY <1>1, <1>2, ZeroKeepsType
<1>4. length' \in [Files -> Nat] /\ length'[named] >= pos[p] + 1
  BY <1>1, <1>2 DEF TypeInv
<1>5. CASE pos[p] + 1 = Blocks
  <2>1. /\ pc' = [pc EXCEPT ![p] = "setMemory"] /\ pos' = [pos EXCEPT ![p] = 0]
        /\ mapped' = [mapped EXCEPT ![p] = Blocks]
    BY <1>5 DEF Fill, FillTo, Goto
  <2>2. TypeInv'
    BY <1>1, <1>2, <1>3, <1>4, <2>1, FileAssumption DEF TypeInv, Where
  <2>3. /\ pos'[p] = 0 /\ mapped'[p] = Blocks
        /\ \A q \in Processes \ {p} : mapped'[q] = mapped[q]
    BY <1>2, <2>1 DEF TypeInv
  <2>4. pos'[p] < Blocks /\ mapped'[p] >= Blocks /\ length'[named] >= Blocks
    BY <1>4, <1>5, <2>3, FileAssumption
  <2> QED BY <1>1, <2>1, <2>2, <2>3, <2>4, WritingInv DEF Writing
<1>6. CASE pos[p] + 1 # Blocks
  <2>1. pc' = pc /\ pos' = [pos EXCEPT ![p] = @ + 1] /\ mapped' = mapped
    BY <1>6 DEF Fill, FillTo
  <2>2. pc' = [pc EXCEPT ![p] = "fill"]
    BY <1>1, <1>2, <2>1 DEF TypeInv
  <2>3. TypeInv'
    BY <1>1, <1>2, <1>3, <1>4, <2>1 DEF TypeInv
  <2>4. pos'[p] < Blocks
    BY <1>2, <1>6, <2>1, FileAssumption DEF TypeInv
  <2> QED BY <1>1, <2>1, <2>2, <2>3, <2>4, WritingInv DEF Writing
<1> QED BY <1>5, <1>6

LEMMA SetMemoryInv ==
    ASSUME FileInv, NEW p \in Processes, SetMemory(p)
    PROVE  FileInv'
<1>1. /\ pc[p] = "setMemory" /\ Zero(p) /\ pos' = [pos EXCEPT ![p] = @ + 1]
      /\ UNCHANGED <<named, created, length, lang, mine, mapped, early, starts, kills>>
  BY DEF SetMemory, At, count
<1>2. TypeInv /\ mine[p] = named /\ named \in Files /\ pos[p] < Blocks
  BY <1>1, FileOfHolder DEF FileInv, Holding, Writing, Relies
<1>3. data' \in [Files -> [1 .. Blocks -> SUBSET Processes]]
  BY <1>1, <1>2, ZeroKeepsType
<1>4. kills = 0 => mapped[p] >= Blocks /\ length[named] >= Blocks
  <2>1. \A q \in Processes : pc[q] \notin {"extend", "fill"}
    BY <1>1, OthersSettled DEF Settled
  <2> QED BY <1>1, <1>2, <2>1 DEF FileInv, Relies, Complete, Files
<1>5. CASE pos[p] + 1 = Blocks
  <2>1. pc' = [pc EXCEPT ![p] = "ready"]
    BY <1>5 DEF SetMemory, Goto
  <2>2. TypeInv'
    BY <1>1, <1>2, <1>3, <2>1 DEF TypeInv, Where
  <2> QED BY <1>1, <1>4, <2>1, <2>2, WritingInv DEF Writing
<1>6. CASE pos[p] + 1 # Blocks
  <2>1. pc' = [pc EXCEPT ![p] = "setMemory"]
    BY <1>1, <1>2, <1>6 DEF SetMemory, TypeInv
  <2>2. TypeInv'
    BY <1>1, <1>2, <1>3, <2>1 DEF TypeInv, Where
  <2>3. pos'[p] < Blocks
    BY <1>1, <1>2, <1>6, FileAssumption DEF TypeInv
  <2> QED BY <1>1, <1>4, <2>1, <2>2, <2>3, WritingInv DEF Writing
<1> QED BY <1>5, <1>6

LEMMA UseInv ==
    ASSUME FileInv, NEW p \in Processes, Use(p)
    PROVE  FileInv'
<1>1. /\ pc[p] = "ready"
      /\ named' = named /\ created' = created /\ length' = length
      /\ lang' = lang /\ mine' = mine /\ mapped' = mapped /\ pos' = pos
      /\ early' = early /\ starts' = starts /\ kills' = kills
  BY DEF Use, At, count
<1>2. TypeInv /\ mine[p] = named /\ named \in Files
  BY <1>1, FileOfHolder DEF FileInv, Holding
<1>3. \/ /\ pc' = [pc EXCEPT ![p] = "failed"]
         /\ data' = data
         /\ kills # 0 \/ p \in early
      \/ /\ pc' = [pc EXCEPT ![p] = "using"]
         /\ data' = [data EXCEPT ![mine[p]] = [b \in 1 .. Blocks |-> @[b] \cup {p}]]
  <2>1. kills = 0 => p \in early \/ ~(mapped[p] < Blocks)
    BY <1>1, <1>2, FileAssumption DEF FileInv, Relies, TypeInv
  <2> QED BY <2>1 DEF Use, Goto
<1>4. /\ data' \in [Files -> [1 .. Blocks -> SUBSET Processes]]
      /\ \A f \in Files, b \in 1 .. Blocks : data[f][b] \subseteq data'[f][b]
      /\ pc'[p] = "using" => \A b \in 1 .. Blocks : p \in data'[mine[p]][b]
  <2>1. CASE data' = data /\ pc' = [pc EXCEPT ![p] = "failed"]
    BY <1>2, <2>1 DEF TypeInv
  <2>2. CASE data' = [data EXCEPT ![mine[p]] = [b \in 1 .. Blocks |-> @[b] \cup {p}]]
    <3> DEFINE new == [b \in 1 .. Blocks |-> data[named][b] \cup {p}]
    <3>1. data[named] \in [1 .. Blocks -> SUBSET Processes]
      BY <1>2 DEF TypeInv
    <3>2. /\ new \in [1 .. Blocks -> SUBSET Processes]
          /\ \A b \in 1 .. Blocks : p \in new[b] /\ data[named][b] \subseteq new[b]
      BY <3>1
    <3>3. data' = [data EXCEPT ![named] = new]
      BY <1>2, <2>2
    <3> HIDE DEF new
    <3> QED BY <1>2, <3>2, <3>3 DEF TypeInv
  <2> QED BY <1>3, <2>1, <2>2
<1>5. TypeInv' /\ created' <= starts'
  BY <1>1, <1>2, <1>3, <1>4 DEF FileInv, TypeInv, Where
<1>6. /\ pc'[p] \in {"failed", "using"}
      /\ pc'[p] = "failed" => kills # 0 \/ p \in early
      /\ \A q \in Processes \ {p} : pc'[q] = pc[q]
  BY <1>2, <1>3 DEF TypeInv
<1>7. OneStarting'
  BY <1>1, <1>2, <1>3, OneStartingKept DEF FileInv, Settled
<1>8. Relies(p)'
  BY <1>1, <1>2, <1>4, <1>6 DEF Relies, MayCreate, Absent, Found, Writing, Holding, Files
<1>9. ASSUME NEW q \in Processes, q # p PROVE Relies(q)'
  <2>1. Relies(q) /\ pc'[q] = pc[q]
    BY <1>6, <1>9 DEF FileInv
  <2>2. ASSUME pc[q] = "using", q \notin early
        PROVE  \A b \in 1 .. Blocks : q \in data'[mine[q]][b]
    <3>1. mine[q] \in Files
      BY <2>2, FileOfHolder DEF Holding
    <3> QED BY <1>4, <2>1, <2>2, <3>1 DEF Relies
  <2>3. OnlyEarly => OnlyEarly'
    BY <1>1, <1>6 DEF OnlyEarly
  <2> QED BY <1>1, <2>1, <2>2, <2>3 DEF Relies
<1>10. Complete'
  <2>1. ASSUME NEW r \in Processes, pc[r] \in {"extend", "fill"}
        PROVE  pc'[r] \in {"extend", "fill"}
    BY <1>1, <1>6, <2>1
  <2> QED BY <1>1, <2>1 DEF FileInv, Complete
<1> QED BY <1>5, <1>7, <1>8, <1>9, <1>10 DEF FileInv

\* Close and Kill: the process is gone; a kill may leave a file half written.
LEMMA LeaveInv ==
    ASSUME FileInv, NEW p \in Processes, Close(p) \/ Kill(p)
    PROVE  FileInv'
<1>1. /\ pc' = [pc EXCEPT ![p] = "off"]
      /\ named' = named /\ created' = created /\ length' = length /\ data' = data
      /\ lang' = lang /\ mine' = mine /\ mapped' = mapped /\ pos' = pos
      /\ early' = early /\ starts' = starts
      /\ \/ pc[p] = "using" /\ kills' = kills
         \/ kills < MaxKills /\ kills' = kills + 1
  BY DEF Close, Kill, At, Goto, files, count
<1>2. TypeInv
  BY DEF FileInv
<1>3. TypeInv' /\ created' <= starts'
  <2>1. kills' \in 0 .. MaxKills
    BY <1>1, <1>2, FileAssumption DEF TypeInv
  <2> QED BY <1>1, <1>2, <2>1 DEF FileInv, TypeInv, Where
<1>4. pc'[p] = "off" /\ \A q \in Processes \ {p} : pc'[q] = pc[q]
  BY <1>1, <1>2 DEF TypeInv
<1>5. OneStarting'
  BY <1>1, <1>2, OneStartingKept DEF FileInv, Settled
<1>6. kills' = 0 => kills = 0 /\ pc[p] = "using"
  BY <1>1, <1>2, FileAssumption DEF TypeInv
<1>7. Relies(p)'
  BY <1>4 DEF Relies, MayCreate, Absent, Found, Writing, Holding
<1>8. ASSUME NEW q \in Processes, q # p PROVE Relies(q)'
  <2>1. Relies(q) /\ pc'[q] = pc[q]
    BY <1>4, <1>8 DEF FileInv
  <2>2. OnlyEarly => OnlyEarly'
    BY <1>1, <1>4 DEF OnlyEarly
  <2> QED BY <1>1, <1>6, <2>1, <2>2 DEF Relies
<1>9. Complete'
  <2>1. kills' = 0 \/ kills' > 0
    BY <1>3, FileAssumption DEF TypeInv
  <2>2. CASE kills' = 0
    <3>1. ASSUME NEW r \in Processes, pc[r] \in {"extend", "fill"}
          PROVE  pc'[r] \in {"extend", "fill"}
      BY <1>4, <1>6, <2>2, <3>1
    <3> QED BY <1>1, <1>6, <2>2, <3>1 DEF FileInv, Complete
  <2> QED BY <2>1, <2>2 DEF Complete
<1> QED BY <1>3, <1>5, <1>7, <1>8, <1>9 DEF FileInv

-----------------------------------------------------------------------------

LEMMA NextFileInv == OneAtATime /\ FileInv /\ [Next]_vars => FileInv'
<1> SUFFICES ASSUME OneAtATime, FileInv, [Next]_vars PROVE FileInv'
  OBVIOUS
<1>1. CASE UNCHANGED vars
  BY <1>1 DEF vars, files, count, FileInv, TypeInv, OneStarting, OnlyEarly, Relies, Complete
<1>2. ASSUME NEW p \in Processes, NEW l \in {"cpp", "java"}, NEW how \in {"stat", "await"},
             Start(p, l, how)
      PROVE  FileInv'
  BY <1>2, StartInv
<1>3. ASSUME NEW p \in Processes, Step(p) PROVE FileInv'
  BY <1>3, StatInv, AwaitInv, MapExistingInv, DeleteIfExistsInv, CreateInv, ExtendInv, FillInv,
     SetMemoryInv, UseInv DEF Step
<1>4. ASSUME NEW p \in Processes, Close(p) \/ Kill(p) PROVE FileInv'
  BY <1>4, LeaveInv
<1> QED BY <1>1, <1>2, <1>3, <1>4 DEF Next

LEMMA AlwaysFileInv ==
    ASSUME OneAtATime PROVE Spec => []FileInv
<1>1. FileInv /\ [Next]_vars => FileInv'
  BY NextFileInv
<1> QED BY <1>1, InitFileInv, PTL DEF Spec

\* If calls of mapProducerBuffer do not overlap, all processes that use the
\* queue share the file that has the name, however often they stop, start again
\* or are killed, and whenever a waiting process maps the file.
THEOREM UsersShareTheFile ==
    ASSUME OneAtATime PROVE Spec => []SameFile
<1>1. FileInv => SameFile
  BY DEF FileInv, SameFile, Using, At, Relies, Holding
<1> QED BY <1>1, AlwaysFileInv, PTL

\* If calls of mapProducerBuffer do not overlap, only a process that waited for
\* the file and mapped it while its creator still wrote it can find what it
\* stored set to zero.
THEOREM NobodyWipes ==
    ASSUME OneAtATime PROVE Spec => []NothingWiped
<1>1. FileInv => NothingWiped
  BY DEF FileInv, NothingWiped, Using, At, Relies
<1> QED BY <1>1, AlwaysFileInv, PTL

\* If calls of mapProducerBuffer do not overlap, a process fails to map the
\* queue only after another was killed while it created the file, or because it
\* waited for the file and mapped it while its creator still wrote it.
THEOREM EveryStartSucceeds ==
    ASSUME OneAtATime PROVE Spec => []StartsSucceed
<1>1. FileInv => StartsSucceed
  BY DEF FileInv, StartsSucceed, At, Relies
<1> QED BY <1>1, AlwaysFileInv, PTL
=============================================================================
