--------------------------- MODULE Standalone_proofs ---------------------------
(***************************************************************************)
(* Proofs about the components that share no state with any other: the     *)
(* generated files, the sessions over several data sources, and the        *)
(* identifier generator.                                                   *)
(***************************************************************************)
EXTENDS SnowflakeId, Routing, GeneratedFiles, TLAPS

(***************************************************************************)
(* GeneratedFiles: no target file is ever a part, proved for any commands, *)
(* jobs, files and bounds, failures of any step, killed commands and       *)
(* losses of power.                                                        *)
(*                                                                         *)
(* The invariant follows a temporary file: from the step on that wrote it  *)
(* it has the data of its command's item, from the sync on the disk has    *)
(* it, and before the rename it has the permissions of its target.         *)
(***************************************************************************)
Modes == {"", "rw-r--r--"} \union {OldFiles[n].mode : n \in DOMAIN OldFiles}
Steps == {"read", "stat", "create", "write", "sync", "chmod", "rename", "remove", "done", "dead"}
Runs == [job : Jobs, at : Nat \ {0}, pc : Steps, temp : TempNames \union {NoTemp}, mode : Modes, code : Nat]
RunningTyped == /\ running \in [Generators -> Runs]
                /\ \A g \in Generators : running[g].at <= Len(running[g].job.items)

(* What a name has, and what the disk keeps of it. *)
Kept(f) == /\ DOMAIN OldFiles \subseteq DOMAIN f
           /\ \A n \in DOMAIN f \ TempNames : Whole(n, f[n]) /\ f[n].synced

TempInv(g) ==
    /\ running[g].pc \in {"write", "sync", "chmod", "rename", "remove"} <=> running[g].temp # NoTemp
    /\ running[g].temp # NoTemp => running[g].temp \in DOMAIN files
    /\ running[g].pc \in {"create", "write", "sync", "chmod", "rename"} => GoodMode(Item(g).path, running[g].mode)
    /\ running[g].pc \in {"sync", "chmod", "rename"} => Temp(g).data = Item(g).data
    /\ running[g].pc \in {"chmod", "rename"} => Temp(g).synced
    /\ running[g].pc = "rename" => Temp(g).mode = running[g].mode
OwnTemps == \A g, h \in Generators : running[g].temp = running[h].temp /\ g # h => running[g].temp = NoTemp
TempsKnown == \A n \in DOMAIN files \intersect TempNames : n \in orphans \/ \E g \in Generators : running[g].temp = n

FileInv == /\ RunningTyped /\ Kept(files) /\ Kept(disk)
           /\ \A g \in Generators : TempInv(g)
           /\ OwnTemps /\ TempsKnown

-----------------------------------------------------------------------------
(* A command has one item at a time, whose path is no temporary file's. *)
LEMMA ItemFacts ==
    ASSUME RunningTyped, NEW g \in Generators
    PROVE  /\ running[g].job \in Jobs /\ running[g].at \in DOMAIN running[g].job.items
           /\ Len(running[g].job.items) \in Nat \ {0}
           /\ Item(g).path \notin TempNames
           /\ Makes(Item(g).path, Item(g).data)
<1> DEFINE j == running[g].job
           i == running[g].at
<1>1. j \in Jobs /\ i \in Nat \ {0} /\ i <= Len(j.items)
  BY DEF RunningTyped, Runs
<1> HIDE DEF j, i
<1>2. Len(j.items) \in Nat \ {0} /\ DOMAIN j.items = 1..Len(j.items)
  BY <1>1, GeneratedFilesAssumption
<1>3. i \in DOMAIN j.items
  BY <1>1, <1>2
<1>4. j.items[i].path \notin TempNames
  BY <1>1, <1>3, GeneratedFilesAssumption
<1>5. Item(g) = j.items[i]
  BY DEF Item, j, i
<1>6. Makes(Item(g).path, Item(g).data)
  <2>1. /\ i \in DOMAIN running[g].job.items
        /\ running[g].job.items[i] = Item(g)
    BY <1>3, <1>5 DEF j
  <2> HIDE DEF Item
  <2> QED
    BY <2>1 DEF Makes
<1> QED
  BY <1>1, <1>2, <1>3, <1>4, <1>5, <1>6 DEF j, i

(* Only command g changes, and it keeps its job. *)
OneRuns(g) ==
    /\ RunningTyped'
    /\ running'[g].job = running[g].job
    /\ \A h \in Generators \ {g} : running'[h] = running[h]

LEMMA ChangeOneRuns ==
    ASSUME RunningTyped, NEW g \in Generators, NEW r \in Runs,
           r.job = running[g].job, r.at <= Len(r.job.items),
           running' = [running EXCEPT ![g] = r]
    PROVE  OneRuns(g) /\ running'[g] = r
<1>1. running \in [Generators -> Runs]
  BY DEF RunningTyped
<1> HIDE DEF Runs
<1>2. /\ running' \in [Generators -> Runs] /\ running'[g] = r
      /\ \A h \in Generators \ {g} : running'[h] = running[h]
  BY <1>1
<1>3. \A h \in Generators : running'[h].at <= Len(running'[h].job.items)
  BY <1>2 DEF RunningTyped
<1> QED
  BY <1>2, <1>3 DEF RunningTyped, OneRuns

(* What is left of a command's record when only some of its fields change. *)
LEMMA Fields ==
    ASSUME RunningTyped, NEW g \in Generators
    PROVE  /\ running[g].job \in Jobs
           /\ running[g].at \in Nat \ {0} /\ running[g].at <= Len(running[g].job.items)
           /\ running[g].temp \in TempNames \union {NoTemp}
           /\ running[g].mode \in Modes /\ running[g].code \in Nat
BY DEF RunningTyped, Runs

LEMMA GoesOneRuns ==
    ASSUME RunningTyped, NEW g \in Generators, NEW step \in Steps, Goes(g, step)
    PROVE  /\ OneRuns(g)
           /\ running'[g].at = running[g].at /\ running'[g].pc = step
           /\ running'[g].temp = running[g].temp /\ running'[g].mode = running[g].mode
<1> DEFINE r == [job |-> running[g].job, at |-> running[g].at, pc |-> step, temp |-> running[g].temp,
                 mode |-> running[g].mode, code |-> running[g].code]
<1>1. r \in Runs
  BY Fields DEF Runs, Steps
<1>2. running' = [running EXCEPT ![g] = r]
  BY DEF Goes, Becomes
<1>3. r.job = running[g].job /\ r.at = running[g].at /\ r.pc = step /\ r.temp = running[g].temp /\ r.mode = running[g].mode
  OBVIOUS
<1> HIDE DEF r
<1> QED
  BY <1>1, <1>2, <1>3, Fields, ChangeOneRuns

LEMMA ExitsOneRuns ==
    ASSUME RunningTyped, NEW g \in Generators, NEW code \in Nat, Exits(g, code)
    PROVE  OneRuns(g) /\ running'[g].pc = "done" /\ running'[g].temp = NoTemp
<1> DEFINE r == [job |-> running[g].job, at |-> running[g].at, pc |-> "done", temp |-> NoTemp,
                 mode |-> running[g].mode, code |-> code]
<1>1. r \in Runs
  BY Fields DEF Runs, Steps
<1>2. running' = [running EXCEPT ![g] = r]
  BY DEF Exits, Becomes
<1>3. r.job = running[g].job /\ r.at = running[g].at /\ r.pc = "done" /\ r.temp = NoTemp
  OBVIOUS
<1> HIDE DEF r
<1> QED
  BY <1>1, <1>2, <1>3, Fields, ChangeOneRuns

LEMMA NextItemOneRuns ==
    ASSUME RunningTyped, NEW g \in Generators, NextItem(g)
    PROVE  OneRuns(g) /\ running'[g].pc \in {"read", "done"} /\ running'[g].temp = NoTemp
<1>1. CASE running[g].at < Len(running[g].job.items)
  <2> DEFINE r == [job |-> running[g].job, at |-> running[g].at + 1, pc |-> "read", temp |-> NoTemp,
                   mode |-> running[g].mode, code |-> running[g].code]
  <2>1. r \in Runs
    BY Fields DEF Runs, Steps
  <2>2. running' = [running EXCEPT ![g] = r]
    BY <1>1 DEF NextItem, Becomes
  <2>3. r.job = running[g].job /\ r.at = running[g].at + 1 /\ r.pc = "read" /\ r.temp = NoTemp
    OBVIOUS
  <2> HIDE DEF r
  <2>4. r.at <= Len(r.job.items)
    BY <1>1, <2>3, Fields, ItemFacts
  <2> QED
    BY <2>1, <2>2, <2>3, <2>4, ChangeOneRuns
<1>2. CASE ~(running[g].at < Len(running[g].job.items))
  BY <1>2, ExitsOneRuns DEF NextItem
<1> QED
  BY <1>1, <1>2

(* A step of command g preserves the invariant when it leaves the targets  *)
(* whole, the other commands' temporary files alone, and its own in order. *)
Orderly(g) ==
    /\ OneRuns(g) /\ disk' = disk /\ orphans \subseteq orphans' /\ misread \subseteq misread'
    /\ DOMAIN files \ TempNames \subseteq DOMAIN files'
    /\ \A n \in DOMAIN files' \ TempNames :
          \/ n \in DOMAIN files /\ files'[n] = files[n]
          \/ Whole(n, files'[n]) /\ files'[n].synced
    /\ \A h \in Generators \ {g} : running[h].temp # NoTemp =>
          running[h].temp \in DOMAIN files' /\ files'[running[h].temp] = files[running[h].temp]
    /\ running'[g].temp # NoTemp => running'[g].temp = running[g].temp \/ running'[g].temp \notin DOMAIN files
    /\ \A n \in DOMAIN files' \intersect TempNames :
          (n \in DOMAIN files /\ n # running[g].temp) \/ n \in orphans' \/ running'[g].temp = n

LEMMA OrderlyKeeps ==
    ASSUME FileInv, NEW g \in Generators, Orderly(g), TempInv(g)'
    PROVE  FileInv'
<1>1. RunningTyped' /\ \A h \in Generators : running'[h].job = running[h].job
  BY DEF Orderly, OneRuns
<1>2. /\ DOMAIN OldFiles \subseteq DOMAIN files
      /\ \A n \in DOMAIN files \ TempNames : Whole(n, files[n]) /\ files[n].synced
      /\ DOMAIN OldFiles \intersect TempNames = {}
  BY GeneratedFilesAssumption DEF FileInv, Kept
<1>3. \A n, f, mode : (GoodMode(n, mode) => GoodMode(n, mode)') /\ (Whole(n, f) => Whole(n, f)')
  BY <1>1 DEF Whole, Makes, GoodMode, Orderly
<1>4. Kept(files)'
  <2>1. DOMAIN OldFiles \subseteq DOMAIN files'
    BY <1>2 DEF Orderly
  <2>2. ASSUME NEW n \in DOMAIN files' \ TempNames, NEW f, f = files'[n]
        PROVE  Whole(n, f) /\ f.synced
    BY <1>2, <2>2 DEF Orderly
  <2>3. ASSUME NEW n \in DOMAIN files' \ TempNames, NEW f, f = files'[n]
        PROVE  Whole(n, f)' /\ f.synced
    BY <1>3, <2>2, <2>3
  <2> QED
    BY <2>1, <2>3 DEF Kept, Whole, Makes, GoodMode
<1>5. Kept(disk)'
  <2>1. disk' = disk /\ Kept(disk) /\ misread \subseteq misread'
    BY DEF Orderly, FileInv
  <2> QED
    BY <1>1, <2>1 DEF Kept, Whole, Makes, GoodMode
<1>6. ASSUME NEW h \in Generators PROVE TempInv(h)'
  <2>1. CASE h = g
    BY <2>1
  <2>2. CASE h # g
    <3>1. running'[h] = running[h] /\ TempInv(h)
      BY <2>2 DEF Orderly, OneRuns, FileInv
    <3>2. running[h].temp # NoTemp => running[h].temp \in DOMAIN files' /\ files'[running[h].temp] = files[running[h].temp]
      BY <2>2 DEF Orderly
    <3>3. \A n, mode : GoodMode(n, mode) => GoodMode(n, mode)'
      BY <1>3
    <3> QED
      <4>1. Item(h)' = Item(h) /\ (running[h].temp # NoTemp => Temp(h)' = Temp(h))
        BY <3>1, <3>2 DEF Item, Temp
      <4>2. GoodMode(Item(h).path, running[h].mode) => GoodMode(Item(h).path, running[h].mode)'
        BY <3>1, <3>3, <4>1 DEF GoodMode
      <4>3. running[h].pc \in {"sync", "chmod", "rename"} => running[h].temp # NoTemp
        BY <3>1 DEF TempInv
      <4> QED
        BY <3>1, <3>2, <4>1, <4>2, <4>3 DEF TempInv
  <2> QED
    BY <2>1, <2>2
<1>7. OwnTemps'
  <2> SUFFICES ASSUME NEW h \in Generators, NEW i \in Generators, h # i,
                      running'[h].temp = running'[i].temp, running'[h].temp # NoTemp
               PROVE  FALSE
    BY DEF OwnTemps
  <2>1. \A x \in Generators \ {g} : running'[x] = running[x] /\ (running[x].temp # NoTemp => running[x].temp \in DOMAIN files)
    BY DEF Orderly, OneRuns, FileInv, TempInv
  <2>2. running'[g].temp # NoTemp => running'[g].temp = running[g].temp \/ running'[g].temp \notin DOMAIN files
    BY DEF Orderly
  <2>3. \A x, y \in Generators : running[x].temp = running[y].temp /\ x # y => running[x].temp = NoTemp
    BY DEF FileInv, OwnTemps
  <2> QED
    BY <2>1, <2>2, <2>3
<1>8. TempsKnown'
  <2> SUFFICES ASSUME NEW n \in DOMAIN files' \intersect TempNames
               PROVE  n \in orphans' \/ \E h \in Generators : running'[h].temp = n
    BY DEF TempsKnown
  <2>1. CASE n \in DOMAIN files /\ n # running[g].temp
    <3>1. n \in orphans \/ \E h \in Generators : running[h].temp = n
      BY <2>1 DEF FileInv, TempsKnown
    <3> QED
      BY <2>1, <3>1 DEF Orderly, OneRuns
  <2>2. CASE n \in orphans' \/ running'[g].temp = n
    BY <2>2
  <2> QED
    BY <2>1, <2>2 DEF Orderly
<1> QED
  BY <1>1, <1>4, <1>5, <1>6, <1>7, <1>8 DEF FileInv

-----------------------------------------------------------------------------
(* A step that leaves the files alone and holds no other temporary file.   *)
LEMMA SameFiles ==
    ASSUME FileInv, NEW g \in Generators, OneRuns(g), files' = files, disk' = disk,
           orphans \subseteq orphans', misread \subseteq misread',
           \/ running'[g].temp = running[g].temp
           \/ running'[g].temp = NoTemp /\ (running[g].temp = NoTemp \/ running[g].temp \in orphans')
    PROVE  Orderly(g)
<1>1. \A h \in Generators \ {g} : running[h].temp # NoTemp => running[h].temp \in DOMAIN files
  BY DEF FileInv, TempInv
<1>2. TempInv(g) /\ (running[g].temp # NoTemp => running[g].temp \in DOMAIN files)
  BY DEF FileInv, TempInv
<1>3. \A n \in DOMAIN files \intersect TempNames : n # NoTemp
  BY GeneratedFilesAssumption
<1> QED
  BY <1>1, <1>2, <1>3 DEF Orderly

LEMMA ReadCurrentKeeps ==
    ASSUME FileInv, NEW g \in Generators, ReadCurrent(g)
    PROVE  FileInv'
<1>1. RunningTyped /\ TempInv(g)
  BY DEF FileInv
<1>2. /\ running[g].pc = "read" /\ running[g].temp = NoTemp
      /\ UNCHANGED <<files, disk, orphans, misread>>
      /\ NextItem(g) \/ Exits(g, 1) \/ Goes(g, "stat")
  BY <1>1 DEF ReadCurrent, TempInv
<1>3. /\ OneRuns(g) /\ running'[g].pc \in {"read", "done", "stat"} /\ running'[g].temp = NoTemp
  BY <1>1, <1>2, NextItemOneRuns, ExitsOneRuns, GoesOneRuns DEF Steps
<1>4. TempInv(g)'
  BY <1>3 DEF TempInv
<1> QED
  BY <1>2, <1>3, <1>4, SameFiles, OrderlyKeeps

LEMMA StatModeKeeps ==
    ASSUME FileInv, NEW g \in Generators, StatMode(g)
    PROVE  FileInv'
<1> DEFINE path == Item(g).path
           seen == IF path \in DOMAIN files THEN files[path].mode ELSE "rw-r--r--"
<1>1. RunningTyped /\ TempInv(g) /\ Kept(files)
  BY DEF FileInv
<1>2. /\ running[g].pc = "stat" /\ running[g].temp = NoTemp /\ UNCHANGED <<files, disk, orphans>>
      /\ \/ misread' = misread /\ Becomes(g, running[g].at, "create", running[g].temp, seen, running[g].code)
         \/ /\ misread' = misread \union {path}
            /\ Becomes(g, running[g].at, "create", running[g].temp, "rw-r--r--", running[g].code)
  BY <1>1 DEF StatMode, TempInv
<1>3. GoodMode(path, seen)
  BY <1>1, ItemFacts DEF Kept, Whole, GoodMode
<1>4. PICK mode : /\ Becomes(g, running[g].at, "create", running[g].temp, mode, running[g].code)
                  /\ misread \subseteq misread'
                  /\ \A n : n = path => GoodMode(n, mode)'
  <2>1. CASE misread' = misread /\ Becomes(g, running[g].at, "create", running[g].temp, seen, running[g].code)
    <3>1. \A n, mode : n = path /\ mode = seen => GoodMode(n, mode)'
      BY <1>3, <2>1 DEF GoodMode
    <3> QED
      BY <2>1, <3>1
  <2>2. CASE /\ misread' = misread \union {path}
             /\ Becomes(g, running[g].at, "create", running[g].temp, "rw-r--r--", running[g].code)
    <3>1. \A n : n = path => GoodMode(n, "rw-r--r--")'
      BY <2>2 DEF GoodMode
    <3> QED
      BY <2>2, <3>1
  <2> QED
    BY <1>2, <2>1, <2>2
<1> DEFINE r == [job |-> running[g].job, at |-> running[g].at, pc |-> "create", temp |-> running[g].temp,
                 mode |-> mode, code |-> running[g].code]
<1>5. mode \in Modes
  BY <1>4 DEF GoodMode, Modes
<1>6. r \in Runs
  BY <1>1, <1>5, Fields DEF Runs, Steps
<1>7. running' = [running EXCEPT ![g] = r]
  BY <1>4 DEF Becomes
<1>8. r.job = running[g].job /\ r.at = running[g].at /\ r.pc = "create" /\ r.temp = running[g].temp /\ r.mode = mode
  OBVIOUS
<1> HIDE DEF r
<1>9. OneRuns(g) /\ running'[g] = r
  BY <1>1, <1>6, <1>7, <1>8, Fields, ChangeOneRuns
<1>10. TempInv(g)'
  <2>1. Item(g)' = Item(g)
    BY <1>8, <1>9 DEF Item
  <2>2. GoodMode(Item(g).path, running[g].mode)'
    BY <1>4, <1>8, <1>9, <2>1 DEF GoodMode
  <2> QED
    BY <1>2, <1>8, <1>9, <2>2 DEF TempInv
<1> QED
  BY <1>2, <1>4, <1>8, <1>9, <1>10, SameFiles, OrderlyKeeps

LEMMA CreateTempKeeps ==
    ASSUME FileInv, NEW g \in Generators, CreateTemp(g)
    PROVE  FileInv'
<1> DEFINE temp == CHOOSE t \in TempNames : t \notin DOMAIN files
           new == [data |-> "", mode |-> "rw-------", synced |-> FALSE]
           r == [job |-> running[g].job, at |-> running[g].at, pc |-> "write", temp |-> temp,
                 mode |-> running[g].mode, code |-> running[g].code]
<1>1. RunningTyped /\ TempInv(g)
  BY DEF FileInv
<1>2. temp \in TempNames /\ temp \notin DOMAIN files
  BY DEF CreateTemp
<1>3. /\ running[g].pc = "create" /\ running[g].temp = NoTemp
      /\ files' = [n \in DOMAIN files \union {temp} |-> IF n = temp THEN new ELSE files[n]]
      /\ running' = [running EXCEPT ![g] = r]
      /\ UNCHANGED <<disk, orphans, misread>>
  BY <1>1 DEF CreateTemp, WithFile, TempInv, Becomes
<1> HIDE DEF temp
<1>4. r \in Runs
  BY <1>1, <1>2, Fields DEF Runs, Steps
<1>5. r.job = running[g].job /\ r.at = running[g].at /\ r.pc = "write" /\ r.temp = temp /\ r.mode = running[g].mode
  OBVIOUS
<1> HIDE DEF r, new
<1>6. OneRuns(g) /\ running'[g] = r
  BY <1>1, <1>3, <1>4, <1>5, Fields, ChangeOneRuns
<1>7. \A h \in Generators \ {g} : running[h].temp # NoTemp => running[h].temp \in DOMAIN files
  BY DEF FileInv, TempInv
<1>8. Orderly(g)
  BY <1>2, <1>3, <1>5, <1>6, <1>7, GeneratedFilesAssumption DEF Orderly
<1>9. TempInv(g)'
  <2>1. Item(g)' = Item(g)
    BY <1>5, <1>6 DEF Item
  <2>2. GoodMode(Item(g).path, running[g].mode)
    BY <1>1, <1>3 DEF TempInv
  <2>3. GoodMode(Item(g).path, running[g].mode)'
    BY <1>3, <1>5, <1>6, <2>1, <2>2 DEF GoodMode
  <2>4. running'[g].temp # NoTemp /\ running'[g].temp \in DOMAIN files'
    BY <1>2, <1>3, <1>5, <1>6, GeneratedFilesAssumption
  <2> QED
    BY <1>5, <1>6, <2>3, <2>4 DEF TempInv
<1> QED
  BY <1>8, <1>9, OrderlyKeeps

(* A step on a command's own temporary file. *)
LEMMA OnTempOrderly ==
    ASSUME FileInv, NEW g \in Generators, running[g].temp # NoTemp, NEW file, OneRuns(g),
           running'[g].temp = running[g].temp, files' = WithFile(running[g].temp, file),
           disk' = disk, orphans' = orphans, misread' = misread
    PROVE  /\ Orderly(g)
           /\ running[g].temp \in DOMAIN files' /\ files'[running[g].temp] = file
<1>1. RunningTyped /\ TempInv(g) /\ running[g].temp \in DOMAIN files /\ running[g].temp \in TempNames
  BY Fields DEF FileInv, TempInv
<1>2. \A h \in Generators \ {g} : running[h].temp # NoTemp =>
          running[h].temp \in DOMAIN files /\ running[h].temp # running[g].temp
  BY DEF FileInv, TempInv, OwnTemps
<1>3. DOMAIN files' = DOMAIN files /\ \A n \in DOMAIN files : files'[n] = IF n = running[g].temp THEN file ELSE files[n]
  BY <1>1 DEF WithFile
<1> QED
  BY <1>1, <1>2, <1>3 DEF Orderly

LEMMA OnTempKeeps ==
    ASSUME FileInv, NEW g \in Generators, WriteTemp(g) \/ SyncTemp(g) \/ ChmodTemp(g)
    PROVE  FileInv'
<1>1. RunningTyped /\ TempInv(g)
  BY DEF FileInv
<1>2. ASSUME NEW step \in {"write", "sync", "chmod"}, NEW next \in Steps \ {"read"}, NEW file,
             running[g].pc = step, Goes(g, next), files' = WithFile(running[g].temp, file), UNCHANGED <<disk, orphans, misread>>
      PROVE  /\ Orderly(g) /\ files'[running[g].temp] = file /\ running[g].temp \in DOMAIN files'
             /\ running[g].temp # NoTemp /\ misread' = misread
             /\ running'[g].at = running[g].at /\ running'[g].job = running[g].job
             /\ running'[g].temp = running[g].temp /\ running'[g].mode = running[g].mode
             /\ running'[g].pc = next
              /\ Item(g)' = Item(g) /\ Temp(g)' = file /\ GoodMode(Item(g).path, running[g].mode)'
  <2>1. /\ OneRuns(g) /\ running'[g].at = running[g].at /\ running'[g].pc = next
        /\ running'[g].temp = running[g].temp /\ running'[g].mode = running[g].mode
    BY <1>1, <1>2, GoesOneRuns
  <2>2. running[g].temp # NoTemp
    BY <1>1, <1>2 DEF TempInv
  <2>3. GoodMode(Item(g).path, running[g].mode)
    BY <1>1, <1>2 DEF TempInv
  <2>4. Item(g)' = Item(g)
    BY <2>1 DEF Item, OneRuns
  <2>5. GoodMode(Item(g).path, running[g].mode)'
    BY <1>2, <2>1, <2>3, <2>4 DEF GoodMode
  <2>6. /\ Orderly(g)
        /\ running[g].temp \in DOMAIN files' /\ files'[running[g].temp] = file
    BY <1>2, <2>1, <2>2, OnTempOrderly
  <2>7. Temp(g)' = file
    BY <2>1, <2>6 DEF Temp
  <2> QED
    BY <1>2, <2>1, <2>2, <2>4, <2>5, <2>6, <2>7 DEF OneRuns
<1>3. CASE WriteTemp(g)
  <2> DEFINE file == [data |-> Item(g).data, mode |-> Temp(g).mode, synced |-> FALSE]
  <2>1. /\ running[g].pc = "write" /\ Goes(g, "sync") /\ files' = WithFile(running[g].temp, file)
        /\ UNCHANGED <<disk, orphans, misread>> /\ "sync" \in Steps \ {"read"} /\ file.data = Item(g).data
    BY <1>3 DEF WriteTemp, OnTemp, Steps
  <2> HIDE DEF file
  <2>2. TempInv(g)'
    BY <1>2, <2>1 DEF TempInv
  <2> QED
    BY <1>2, <2>1, <2>2, OrderlyKeeps
<1>4. CASE SyncTemp(g)
  <2> DEFINE file == [data |-> Temp(g).data, mode |-> Temp(g).mode, synced |-> TRUE]
  <2>1. /\ running[g].pc = "sync" /\ Goes(g, "chmod") /\ files' = WithFile(running[g].temp, file)
        /\ UNCHANGED <<disk, orphans, misread>> /\ "chmod" \in Steps \ {"read"}
        /\ file.data = Temp(g).data /\ file.synced
    BY <1>4 DEF SyncTemp, OnTemp, Steps
  <2> HIDE DEF file
  <2>2. TempInv(g)'
    <3>1. Temp(g).data = Item(g).data
      BY <1>1, <2>1 DEF TempInv
    <3> QED
      BY <1>2, <2>1, <3>1 DEF TempInv
  <2> QED
    BY <1>2, <2>1, <2>2, OrderlyKeeps
<1>5. CASE ChmodTemp(g)
  <2> DEFINE file == [data |-> Temp(g).data, mode |-> running[g].mode, synced |-> Temp(g).synced]
  <2>1. /\ running[g].pc = "chmod" /\ Goes(g, "rename") /\ files' = WithFile(running[g].temp, file)
        /\ UNCHANGED <<disk, orphans, misread>> /\ "rename" \in Steps \ {"read"}
        /\ file.data = Temp(g).data /\ file.synced = Temp(g).synced /\ file.mode = running[g].mode
    BY <1>5 DEF ChmodTemp, OnTemp, Steps
  <2> HIDE DEF file
  <2>2. TempInv(g)'
    <3>1. Temp(g).data = Item(g).data /\ Temp(g).synced
      BY <1>1, <2>1 DEF TempInv
    <3> QED
      BY <1>2, <2>1, <3>1 DEF TempInv
  <2> QED
    BY <1>2, <2>1, <2>2, OrderlyKeeps
<1> QED
  BY <1>3, <1>4, <1>5

(* The rename gives the target the data of the item, synced, with the      *)
(* permissions it had.                                                     *)
LEMMA RenameTempKeeps ==
    ASSUME FileInv, NEW g \in Generators, RenameTemp(g)
    PROVE  FileInv'
<1> DEFINE path == Item(g).path
           temp == running[g].temp
<1>1. RunningTyped /\ TempInv(g)
  BY DEF FileInv
<1>2. /\ running[g].pc = "rename" /\ temp # NoTemp /\ temp \in DOMAIN files /\ temp \in TempNames
      /\ NextItem(g) /\ UNCHANGED <<disk, orphans, misread>>
      /\ files' = [n \in (DOMAIN files \ {temp}) \union {path} |-> IF n = path THEN files[temp] ELSE files[n]]
  BY <1>1, Fields DEF RenameTemp, TempInv, Temp
<1>3. OneRuns(g) /\ running'[g].pc \in {"read", "done"} /\ running'[g].temp = NoTemp
  BY <1>1, <1>2, NextItemOneRuns
<1>4. path \notin TempNames /\ Makes(path, Item(g).data)
  BY <1>1, ItemFacts
<1>5. /\ files[temp].data = Item(g).data /\ files[temp].synced /\ GoodMode(path, files[temp].mode)
  BY <1>1, <1>2 DEF TempInv, Temp
<1>6. Whole(path, files[temp]) /\ files[temp].synced
  BY <1>4, <1>5 DEF Whole
<1>7. \A h \in Generators \ {g} : running[h].temp # NoTemp =>
          /\ running[h].temp \in DOMAIN files /\ running[h].temp # temp
          /\ running[h].temp \in TempNames
  BY <1>1, Fields DEF FileInv, TempInv, OwnTemps
<1> HIDE DEF path, temp
<1>8. Orderly(g)
  BY <1>2, <1>3, <1>4, <1>6, <1>7 DEF Orderly, temp
<1>9. TempInv(g)'
  BY <1>3 DEF TempInv
<1> QED
  BY <1>8, <1>9, OrderlyKeeps

LEMMA StepFailsKeeps ==
    ASSUME FileInv, NEW g \in Generators, StepFails(g)
    PROVE  FileInv'
<1>1. RunningTyped /\ TempInv(g)
  BY DEF FileInv
<1>2. UNCHANGED <<disk, orphans, misread>>
  BY DEF StepFails
<1>3. CASE running[g].temp = NoTemp
  <2>1. Exits(g, 1) /\ files' = files
    BY <1>1, <1>3 DEF StepFails, TempInv
  <2>2. OneRuns(g) /\ running'[g].pc = "done" /\ running'[g].temp = NoTemp
    BY <1>1, <2>1, ExitsOneRuns
  <2>3. TempInv(g)'
    BY <2>2 DEF TempInv
  <2> QED
    BY <1>2, <1>3, <2>1, <2>2, <2>3, SameFiles, OrderlyKeeps
<1>4. CASE running[g].temp # NoTemp
  <2>1. Goes(g, "remove") /\ "remove" \in Steps
    BY <1>4 DEF StepFails, Steps
  <2>2. /\ OneRuns(g) /\ running'[g].pc = "remove" /\ running'[g].temp = running[g].temp
    BY <1>1, <2>1, GoesOneRuns
  <2>3. CASE running[g].pc = "write"
    <3> DEFINE file == [data |-> "part", mode |-> Temp(g).mode, synced |-> FALSE]
    <3>1. files' = WithFile(running[g].temp, file)
      BY <2>3 DEF StepFails
    <3> HIDE DEF file
    <3>2. Orderly(g) /\ running[g].temp \in DOMAIN files'
      BY <1>2, <1>4, <2>2, <3>1, OnTempOrderly
    <3>3. TempInv(g)'
      BY <1>4, <2>2, <3>2 DEF TempInv
    <3> QED
      BY <3>2, <3>3, OrderlyKeeps
  <2>4. CASE running[g].pc # "write"
    <3>1. files' = files
      BY <2>4 DEF StepFails
    <3>2. TempInv(g)'
      BY <1>1, <1>4, <2>2, <3>1 DEF TempInv
    <3> QED
      BY <1>2, <2>2, <3>1, <3>2, SameFiles, OrderlyKeeps
  <2> QED
    BY <2>3, <2>4
<1> QED
  BY <1>3, <1>4

LEMMA RemoveTempKeeps ==
    ASSUME FileInv, NEW g \in Generators, RemoveTemp(g)
    PROVE  FileInv'
<1>1. RunningTyped /\ TempInv(g)
  BY DEF FileInv
<1>2. /\ running[g].temp # NoTemp /\ running[g].temp \in DOMAIN files /\ running[g].temp \in TempNames
      /\ Exits(g, 1) /\ disk' = disk /\ misread' = misread
  BY <1>1, Fields DEF RemoveTemp, TempInv
<1>3. OneRuns(g) /\ running'[g].pc = "done" /\ running'[g].temp = NoTemp
  BY <1>1, <1>2, ExitsOneRuns
<1>4. TempInv(g)'
  BY <1>3 DEF TempInv
<1>5. CASE files' = WithoutFile(running[g].temp) /\ UNCHANGED orphans
  <2>1. \A h \in Generators \ {g} : running[h].temp # NoTemp =>
            running[h].temp \in DOMAIN files /\ running[h].temp # running[g].temp
    BY DEF FileInv, TempInv, OwnTemps
  <2>2. DOMAIN files' = DOMAIN files \ {running[g].temp} /\ \A n \in DOMAIN files' : files'[n] = files[n]
    BY <1>5 DEF WithoutFile
  <2>3. Orderly(g)
    BY <1>2, <1>3, <1>5, <2>1, <2>2 DEF Orderly
  <2> QED
    BY <1>4, <2>3, OrderlyKeeps
<1>6. CASE orphans' = orphans \union {running[g].temp} /\ UNCHANGED files
  BY <1>2, <1>3, <1>4, <1>6, SameFiles, OrderlyKeeps
<1> QED
  BY <1>5, <1>6 DEF RemoveTemp

LEMMA KillKeeps ==
    ASSUME FileInv, NEW g \in Generators, Kill(g)
    PROVE  FileInv'
<1> DEFINE r == [job |-> running[g].job, at |-> running[g].at, pc |-> "dead", temp |-> NoTemp,
                 mode |-> running[g].mode, code |-> running[g].code]
<1>1. RunningTyped /\ TempInv(g)
  BY DEF FileInv
<1>2. /\ running' = [running EXCEPT ![g] = r] /\ UNCHANGED <<files, disk, misread>>
      /\ orphans' = orphans \union ({running[g].temp} \ {NoTemp})
  BY DEF Kill, Becomes
<1>3. r \in Runs
  BY <1>1, Fields DEF Runs, Steps
<1>4. r.job = running[g].job /\ r.at = running[g].at /\ r.pc = "dead" /\ r.temp = NoTemp
  OBVIOUS
<1> HIDE DEF r
<1>5. OneRuns(g) /\ running'[g] = r
  BY <1>1, <1>2, <1>3, <1>4, Fields, ChangeOneRuns
<1>6. TempInv(g)'
  BY <1>4, <1>5 DEF TempInv
<1> QED
  BY <1>2, <1>4, <1>5, <1>6, SameFiles, OrderlyKeeps

LEMMA StartedTyped ==
    ASSUME NEW j \in Jobs, NEW step \in Steps
    PROVE  [job |-> j, at |-> 1, pc |-> step, temp |-> NoTemp, mode |-> "", code |-> 0] \in Runs
<1>1. "" \in Modes
  BY DEF Modes
<1>2. 1 \in Nat \ {0} /\ 0 \in Nat /\ NoTemp \in TempNames \union {NoTemp}
  OBVIOUS
<1> QED
  BY <1>1, <1>2 DEF Runs

LEMMA RunAgainKeeps ==
    ASSUME FileInv, NEW g \in Generators, RunAgain(g)
    PROVE  FileInv'
<1> DEFINE r == Started(running[g].job)
<1>1. RunningTyped /\ TempInv(g) /\ running[g].temp = NoTemp
  BY DEF FileInv, TempInv, RunAgain
<1>2. running' = [running EXCEPT ![g] = r] /\ UNCHANGED <<files, disk, orphans, misread>>
  BY DEF RunAgain
<1>3. r \in Runs
  BY <1>1, Fields, StartedTyped DEF Steps, Started
<1>4. r.job = running[g].job /\ r.at = 1 /\ r.pc = "read" /\ r.temp = NoTemp
  BY DEF Started
<1> HIDE DEF r
<1>5. r.at <= Len(r.job.items)
  BY <1>1, <1>4, ItemFacts
<1>6. OneRuns(g) /\ running'[g] = r
  BY <1>1, <1>2, <1>3, <1>4, <1>5, ChangeOneRuns
<1>7. TempInv(g)'
  BY <1>4, <1>6 DEF TempInv
<1> QED
  BY <1>1, <1>2, <1>4, <1>6, <1>7, SameFiles, OrderlyKeeps

(* What survives a loss of power: a target is on the disk or was synced.   *)
LEMMA LosePowerKeeps ==
    ASSUME FileInv, LosePower
    PROVE  FileInv'
<1>1. PICK seen \in SUBSET (DOMAIN files \union DOMAIN disk) :
         files' = [n \in (DOMAIN files \intersect seen) \union (DOMAIN disk \ seen) |->
                      Survivor(IF n \in seen THEN files[n] ELSE disk[n])]
  BY DEF LosePower
<1>2. /\ disk' = files' /\ orphans' = DOMAIN files' \intersect TempNames /\ misread' = misread
      /\ running' = [g \in Generators |-> [Started(running[g].job) EXCEPT !.pc = "dead"]]
  BY DEF LosePower
<1>3. \A g \in Generators : /\ running'[g].job = running[g].job /\ running'[g].at = 1
                            /\ running'[g].pc = "dead" /\ running'[g].temp = NoTemp /\ running'[g] \in Runs
  <2> SUFFICES ASSUME NEW g \in Generators
               PROVE  /\ running'[g].job = running[g].job /\ running'[g].at = 1
                      /\ running'[g].pc = "dead" /\ running'[g].temp = NoTemp /\ running'[g] \in Runs
    OBVIOUS
  <2>1. running'[g] = [job |-> running[g].job, at |-> 1, pc |-> "dead", temp |-> NoTemp, mode |-> "", code |-> 0]
    BY <1>2 DEF Started
  <2>2. running[g].job \in Jobs
    BY Fields DEF FileInv
  <2>3. QED
    <3> DEFINE r == [job |-> running[g].job, at |-> 1, pc |-> "dead", temp |-> NoTemp, mode |-> "", code |-> 0]
    <3>1. r \in Runs
      BY <2>2, StartedTyped DEF Steps
    <3>2. r.job = running[g].job /\ r.at = 1 /\ r.pc = "dead" /\ r.temp = NoTemp /\ running'[g] = r
      BY <2>1
    <3> HIDE DEF r
    <3> QED
      BY <3>1, <3>2
<1>4. RunningTyped'
  BY <1>2, <1>3, ItemFacts DEF RunningTyped, FileInv
<1>5. \A n, f : Whole(n, f) => Whole(n, f)'
  <2>1. misread' = misread
    BY <1>2
  <2>2. \A g \in Generators : running'[g].job = running[g].job
    BY <1>3
  <2> QED
    BY <2>1, <2>2 DEF Whole, Makes, GoodMode
<1>6. ASSUME NEW n \in DOMAIN files' \ TempNames, NEW f, f = files'[n]
      PROVE  Whole(n, f)' /\ f.synced
  <2> DEFINE old == IF n \in seen THEN files[n] ELSE disk[n]
  <2>1. Whole(n, old) /\ old.synced
    BY <1>1 DEF FileInv, Kept
  <2>2. f = Survivor(old)
    BY <1>1, <1>6
  <2> HIDE DEF old
  <2>3. f.data = old.data /\ f.mode = old.mode /\ f.synced
    BY <2>1, <2>2 DEF Survivor
  <2>4. Whole(n, f)
    BY <2>1, <2>3 DEF Whole
  <2> QED
    BY <1>5, <2>3, <2>4
<1>7. DOMAIN OldFiles \subseteq DOMAIN files'
  BY <1>1 DEF FileInv, Kept
<1>8. Kept(files)' /\ Kept(disk)'
  <2>1. Kept(files)'
    BY <1>6, <1>7 DEF Kept, Whole, Makes, GoodMode
  <2>2. disk' = files'
    BY <1>2
  <2>3. DOMAIN OldFiles \subseteq DOMAIN disk'
    BY <1>7, <2>2
  <2>4. ASSUME NEW n \in DOMAIN disk' \ TempNames, NEW f, f = disk'[n]
        PROVE  Whole(n, f)' /\ f.synced
    BY <1>6, <2>2, <2>4
  <2> QED
    BY <2>1, <2>3, <2>4 DEF Kept, Whole, Makes, GoodMode
<1>9. \A g \in Generators : TempInv(g)'
  BY <1>3 DEF TempInv
<1>10. OwnTemps' /\ TempsKnown'
  BY <1>2, <1>3 DEF OwnTemps, TempsKnown
<1> QED
  BY <1>4, <1>8, <1>9, <1>10 DEF FileInv

-----------------------------------------------------------------------------
LEMMA InitHolds == ASSUME FilesInit(Jobs) PROVE FileInv
<1>1. PICK jobs \in [Generators -> Jobs] : running = [g \in Generators |-> Started(jobs[g])]
  BY DEF FilesInit
<1>2. ASSUME NEW g \in Generators
      PROVE  /\ running[g] \in Runs /\ running[g].at = 1 /\ running[g].job \in Jobs
             /\ running[g].pc = "read" /\ running[g].temp = NoTemp
  <2>1. running[g] = [job |-> jobs[g], at |-> 1, pc |-> "read", temp |-> NoTemp, mode |-> "", code |-> 0]
    BY <1>1 DEF Started
  <2>3. QED
    <3> DEFINE r == [job |-> jobs[g], at |-> 1, pc |-> "read", temp |-> NoTemp, mode |-> "", code |-> 0]
    <3>1. jobs[g] \in Jobs /\ r \in Runs
      BY <1>1, StartedTyped DEF Steps
    <3>2. r.job = jobs[g] /\ r.at = 1 /\ r.pc = "read" /\ r.temp = NoTemp /\ running[g] = r
      BY <2>1
    <3> HIDE DEF r
    <3> QED
      BY <3>1, <3>2
<1>3. RunningTyped
  BY <1>1, <1>2, GeneratedFilesAssumption DEF RunningTyped
<1>4. Kept(files) /\ Kept(disk)
  BY GeneratedFilesAssumption DEF FilesInit, Kept, Whole, GoodMode
<1>5. \A g \in Generators : TempInv(g)
  BY <1>2 DEF TempInv
<1>6. OwnTemps /\ TempsKnown
  BY <1>2, GeneratedFilesAssumption DEF OwnTemps, TempsKnown, FilesInit
<1> QED
  BY <1>3, <1>4, <1>5, <1>6 DEF FileInv

LEMMA NextKeeps == ASSUME FileInv, [FilesNext]_fileVars PROVE FileInv'
<1>1. CASE UNCHANGED fileVars
  <2>1. UNCHANGED <<files, disk, running, orphans, misread>> /\ FileInv
    BY <1>1 DEF fileVars
  <2>2. RunningTyped' /\ OwnTemps' /\ TempsKnown'
    BY <2>1 DEF FileInv, RunningTyped, OwnTemps, TempsKnown
  <2>3. Kept(files)' /\ Kept(disk)'
    BY <2>1 DEF FileInv, Kept, Whole, Makes, GoodMode
  <2>4. ASSUME NEW g \in Generators PROVE TempInv(g)'
    BY <2>1 DEF FileInv, TempInv, Temp, Item, GoodMode
  <2> QED
    BY <2>2, <2>3, <2>4 DEF FileInv
<1>2. CASE FilesNext
  BY <1>2, ReadCurrentKeeps, StatModeKeeps, CreateTempKeeps, OnTempKeeps, RenameTempKeeps, StepFailsKeeps,
     RemoveTempKeeps, KillKeeps, RunAgainKeeps, LosePowerKeeps DEF FilesNext
<1> QED
  BY <1>1, <1>2

(* FilesAreWhole: a generated file is what it was or what a command made   *)
(* of it, with the permissions it had, whatever step of                    *)
(* writeGeneratedFile fails and whatever is killed or loses its power.     *)
THEOREM FilesStayWhole == FilesSpec => []FilesAreWhole
<1>1. FilesInit(Jobs) => FileInv
  BY InitHolds
<1>2. FileInv /\ [FilesNext]_fileVars => FileInv'
  BY NextKeeps
<1>3. FileInv => FilesAreWhole
  BY DEF FileInv, Kept, TempsKnown, FilesAreWhole
<1> QED
  BY <1>1, <1>2, <1>3, PTL DEF FilesSpec

(***************************************************************************)
(* Routing, for any factories, resolvers, operations and bounds.           *)
(*                                                                         *)
(* The sessions a routing session got are the open ones, all of them once  *)
(* it is ready, and an operation went where some default the factory may   *)
(* have chosen sends it.                                                   *)
(***************************************************************************)
MayBeDefault(d) ==
    IF factory.default # "" THEN d = factory.default
    ELSE "default" \in Range(factory.keys) => d = "default"
SentTo(op, d) ==
    LET source == IF op.key # "" THEN op.key
                  ELSE IF Resolver(factory, op) # "" THEN Resolver(factory, op) ELSE d
    IN IF source \in Range(factory.keys) THEN source ELSE "error"

RoutingInv ==
    /\ alive = sessions /\ sessions \subseteq Range(factory.keys)
    /\ phase \in {"failed", "closed"} => sessions = {}
    /\ phase = "ready" => sessions = Range(factory.keys) /\ MayBeDefault(default)
    /\ \A r \in routed : \E d : MayBeDefault(d) /\ r[2] = SentTo(r[1], d)

LEMMA RoutingStarts == RoutingInit(Factories) => RoutingInv
BY DEF RoutingInit, RoutingInv

(* What was routed before stays right, for the factory is the same. *)
LEMMA RoutedStaysRight ==
    ASSUME RoutingInv, UNCHANGED <<factory, routed>>
    PROVE  \A r \in routed' : \E d : MayBeDefault(d)' /\ r[2] = SentTo(r[1], d)'
BY DEF RoutingInv, MayBeDefault, SentTo

LEMMA RoutingKeeps == ASSUME RoutingInv, [RoutingNext]_routingVars PROVE RoutingInv'
<1> USE DEF RoutingInv
<1>1. CASE OpenNext
  BY <1>1, RoutedStaysRight DEF OpenNext, Pending, Range
<1>2. CASE OpenFails
  BY <1>2, RoutedStaysRight DEF OpenFails, CloseRoutingSessions
<1>3. CASE NewRoutingSession
  <2>1. sessions = Range(factory.keys)
    BY <1>3 DEF NewRoutingSession, Pending, Range
  <2>2. PICK key \in DefaultKeys :
          LET chosen == IF factory.default # "" THEN factory.default ELSE key
          IN /\ default' = chosen
             /\ IF chosen \in sessions THEN phase' = "ready" /\ UNCHANGED <<sessions, alive>>
                ELSE phase' = "failed" /\ CloseRoutingSessions
    BY <1>3 DEF NewRoutingSession
  <2>3. UNCHANGED <<factory, routed>>
    BY <1>3 DEF NewRoutingSession
  <2>4. MayBeDefault(default)'
    BY <2>1, <2>2, <2>3 DEF MayBeDefault, DefaultKeys
  <2> QED
    BY <2>1, <2>2, <2>3, <2>4, RoutedStaysRight DEF CloseRoutingSessions
<1>4. CASE CloseSession
  BY <1>4, RoutedStaysRight DEF CloseSession, CloseRoutingSessions
<1>5. CASE OpenAgain
  BY <1>5, RoutedStaysRight DEF OpenAgain
<1>6. ASSUME NEW op \in Operations, Route(op) PROVE RoutingInv'
  <2>1. /\ phase = "ready" /\ routed' = routed \union {<<op, Delegate(op)>>}
        /\ UNCHANGED <<factory, phase, sessions, alive, default>>
    BY <1>6 DEF Route
  <2>2. MayBeDefault(default) /\ Delegate(op) = SentTo(op, default)
    BY <2>1 DEF Delegate, Resolve, SentTo
  <2>3. \A r \in routed' : \E d : MayBeDefault(d) /\ r[2] = SentTo(r[1], d)
    BY <2>1, <2>2
  <2>4. \A r \in routed' : \E d : MayBeDefault(d)' /\ r[2] = SentTo(r[1], d)'
    BY <2>1, <2>3 DEF MayBeDefault, SentTo
  <2> QED
    BY <2>1, <2>4 DEF MayBeDefault
<1>7. CASE UNCHANGED routingVars
  BY <1>7, RoutedStaysRight DEF routingVars, MayBeDefault
<1> QED
  BY <1>1, <1>2, <1>3, <1>4, <1>5, <1>6, <1>7 DEF RoutingNext

LEMMA RoutingInvariant == RoutingSpec => []RoutingInv
BY RoutingStarts, RoutingKeeps, PTL DEF RoutingSpec

(* A factory that failed and a routing session that was closed leave no    *)
(* session open (closeRoutingSessions), for any number of data sources and *)
(* of attempts.                                                            *)
THEOREM FailuresCloseSessions == RoutingSpec => []NoneLeftOpen
<1>1. RoutingInv => NoneLeftOpen
  BY DEF RoutingInv, NoneLeftOpen
<1> QED
  BY <1>1, RoutingInvariant, PTL

(* Two sessions of a factory disagree about an operation only when nothing *)
(* names its source and the map's order chose the default of each          *)
(* (normalizeRoutingSessions), for any resolvers, options and operations.  *)
THEOREM SessionsRouteAlike == RoutingSpec => []RoutesAgree
<1>1. ASSUME RoutingInv PROVE RoutesAgree
  <2> SUFFICES ASSUME NEW a \in routed, NEW b \in routed, a[1] = b[1],
                      \/ a[1].key # "" \/ Resolver(factory, a[1]) # ""
                      \/ factory.default # "" \/ "default" \in Range(factory.keys)
               PROVE  a[2] = b[2]
    BY DEF RoutesAgree
  <2>1. PICK d : MayBeDefault(d) /\ a[2] = SentTo(a[1], d)
    BY <1>1 DEF RoutingInv
  <2>2. PICK e : MayBeDefault(e) /\ b[2] = SentTo(b[1], e)
    BY <1>1 DEF RoutingInv
  <2>3. CASE a[1].key # "" \/ Resolver(factory, a[1]) # ""
    <3>1. SentTo(a[1], d) = SentTo(a[1], e)
      BY <2>3, Zenon DEF SentTo
    <3> QED
      BY <2>1, <2>2, <3>1
  <2>4. CASE factory.default # "" \/ "default" \in Range(factory.keys)
    <3>1. d = e
      BY <2>1, <2>2, <2>4 DEF MayBeDefault
    <3> QED
      BY <2>1, <2>2, <3>1
  <2> QED
    BY <2>3, <2>4
<1> QED
  BY <1>1, RoutingInvariant, PTL

(***************************************************************************)
(* SnowflakeId, for any generators, widths and bounds.                     *)
(***************************************************************************)
USE GenOfIsTyped, FreeIsNoProc, SizesAreNat

(* Numbers written in base B compare by their leading digits first. *)
LEMMA LeadingDigit ==
    ASSUME NEW B \in Nat \ {0}, NEW x \in Int, NEW y \in Int, x < y,
           NEW a \in 0..(B - 1), NEW b \in 0..(B - 1)
    PROVE  x * B + a < y * B + b
<1>1. PICK d \in Nat : y = x + 1 + d
  <2>1. y - x - 1 \in Nat /\ y = x + 1 + (y - x - 1)
    OBVIOUS
  <2> QED
    BY <2>1
<1>2. y * B = x * B + B + d * B
  BY <1>1
<1>3. d * B >= 0
  BY <1>1
<1>4. x * B \in Int /\ y * B \in Int /\ d * B \in Int
  BY <1>1
<1> QED
  BY <1>2, <1>3, <1>4

LEMMA SequenceStep ==
    ASSUME NEW B \in Nat \ {0}, NEW s \in 0..(B - 1)
    PROVE  /\ (s + 1) % B \in 0..(B - 1)
           /\ (s + 1) % B # 0 => (s + 1) % B = s + 1
<1>1. CASE s + 1 < B
  BY <1>1
<1>2. CASE s + 1 = B
  BY <1>2
<1> QED
  BY <1>1, <1>2

LEMMA TimestampType ==
    ASSUME NEW x \in Nat
    PROVE  /\ Timestamp(x) \in Nat
           /\ \A y \in Nat : x < y /\ ~(x < Epoch /\ Epoch <= y) => Timestamp(x) < Timestamp(y)
BY DEF Timestamp

LEMMA PackType ==
    ASSUME NEW x \in Nat, NEW n \in 0..(Nodes - 1), NEW s \in 0..(SeqLimit - 1)
    PROVE  Pack(x, n, s) \in Nat
<1>1. Timestamp(x) * Nodes \in Nat
  BY TimestampType
<1>2. (Timestamp(x) * Nodes + n) * SeqLimit \in Nat
  BY <1>1
<1> QED
  BY <1>2 DEF Pack

(* Ids of one node are ordered by time, then by sequence number. *)
LEMMA PackOrder ==
    ASSUME NEW n \in 0..(Nodes - 1), NEW x \in Nat, NEW y \in Nat,
           NEW s \in 0..(SeqLimit - 1), NEW t \in 0..(SeqLimit - 1),
           \/ x < y /\ ~(x < Epoch /\ Epoch <= y)
           \/ x = y /\ s < t
    PROVE  Pack(x, n, s) < Pack(y, n, t)
<1>1. CASE x < y /\ ~(x < Epoch /\ Epoch <= y)
  <2> DEFINE u == Timestamp(x)
             v == Timestamp(y)
             m == u * Nodes + n
             k == v * Nodes + n
  <2>1. u \in Int /\ v \in Int /\ u < v
    BY <1>1, TimestampType
  <2> HIDE DEF u, v
  <2>2. m \in Int /\ k \in Int /\ m < k
    BY <2>1, LeadingDigit
  <2> HIDE DEF m, k
  <2>3. m * SeqLimit + s < k * SeqLimit + t
    BY <2>2, LeadingDigit
  <2> QED
    BY <2>3 DEF Pack, u, v, m, k
<1>2. CASE x = y /\ s < t
  <2>1. (Timestamp(x) * Nodes + n) * SeqLimit \in Int
    BY TimestampType
  <2> QED
    BY <1>2, <2>1 DEF Pack
<1> QED
  BY <1>1, <1>2

(* An id tells its node: the sequence number stays within its own digit. *)
LEMMA PackNode ==
    ASSUME NEW m \in 0..(Nodes - 1), NEW n \in 0..(Nodes - 1),
           NEW x \in Nat, NEW y \in Nat,
           NEW s \in 0..(SeqLimit - 1), NEW t \in 0..(SeqLimit - 1),
           Pack(x, m, s) = Pack(y, n, t)
    PROVE  m = n
<1> DEFINE u == Timestamp(x)
           v == Timestamp(y)
           k == u * Nodes + m
           l == v * Nodes + n
<1>1. u \in Int /\ v \in Int
  BY TimestampType
<1>2. k * SeqLimit + s = l * SeqLimit + t
  BY DEF Pack
<1> HIDE DEF u, v
<1>3. k \in Int /\ l \in Int
  BY <1>1
<1>4. k = l
  <2> HIDE DEF k, l
  <2>1. ~(k < l)
    <3> SUFFICES ASSUME k < l PROVE FALSE
      OBVIOUS
    <3>1. k * SeqLimit + s < l * SeqLimit + t
      BY <1>3, LeadingDigit
    <3>2. k * SeqLimit + s \in Int
      BY <1>3
    <3> QED
      BY <1>2, <3>1, <3>2
  <2>2. ~(l < k)
    <3> SUFFICES ASSUME l < k PROVE FALSE
      OBVIOUS
    <3>1. l * SeqLimit + t < k * SeqLimit + s
      BY <1>3, LeadingDigit
    <3>2. k * SeqLimit + s \in Int
      BY <1>3
    <3> QED
      BY <1>2, <3>1, <3>2
  <2> QED
    BY <1>3, <2>1, <2>2
<1>5. ~(u < v) /\ ~(v < u)
  <2>1. ASSUME u < v PROVE FALSE
    <3>1. u * Nodes + m < v * Nodes + n
      BY <1>1, <2>1, LeadingDigit
    <3> QED
      BY <1>1, <1>4, <3>1
  <2>2. ASSUME v < u PROVE FALSE
    <3>1. v * Nodes + n < u * Nodes + m
      BY <1>1, <2>2, LeadingDigit
    <3> QED
      BY <1>1, <1>4, <3>1
  <2> QED
    BY <2>1, <2>2
<1>6. u = v
  BY <1>1, <1>5
<1> QED
  BY <1>1, <1>4, <1>6

----------------------------------------------------------------------------
(* Every id is packed from what its generator knew, and the generator's    *)
(* next id lies ahead of all of them, unless a wait was given up or is on. *)
WellFormed ==
    \A i \in DOMAIN issued :
        issued[i].id = Pack(issued[i].at, node[issued[i].gen], issued[i].seq)
Frontier ==
    \A i \in DOMAIN issued : LET g == issued[i].gen IN
        /\ issued[i].at <= lastMillis[g]
        /\ issued[i].at = lastMillis[g] =>
             \/ issued[i].seq <= sequence[g]
             \/ <<g, issued[i].at>> \in cancelled
             \/ holder[g] # Free

IInv == TypeOK /\ WellFormed /\ Frontier /\ IdsIncrease

(* The entry a step issues, and what it needs to be in order. *)
LEMMA IssueStep ==
    ASSUME IInv, NEW p \in Proc, NEW now \in Nat, NEW s \in 0..(SeqLimit - 1),
           Issue(p, now, s), UNCHANGED <<node, cancelled>>,
           holder' \in [Gen -> Proc \cup {Free}],
           \A g \in Gen \ {GenOf[p]} : holder'[g] = holder[g],
           \A q \in Proc : pc'[q] = "waiting" <=> holder'[GenOf[q]] = q,
           UNCHANGED backs, clock' \in Nat,
           \/ lastMillis[GenOf[p]] < now
           \/ /\ lastMillis[GenOf[p]] = now /\ sequence[GenOf[p]] < s
              /\ holder[GenOf[p]] = Free
    PROVE  IInv'
<1> DEFINE g == GenOf[p]
           e == [gen |-> g, at |-> now, seq |-> s, id |-> Pack(now, node[g], s)]
<1>1. /\ g \in Gen /\ node[g] \in 0..(Nodes - 1) /\ e.id \in Nat
      /\ e \in Entry
  BY PackType DEF IInv, TypeOK, Entry
<1>2. issued' = Append(issued, e) /\ issued \in Seq(Entry)
  BY DEF Issue, IInv, TypeOK
<1>3. TypeOK'
  <2>1. issued' \in Seq(Entry)
    BY <1>1, <1>2
  <2>2. /\ lastMillis' \in [Gen -> Nat] /\ sequence' \in [Gen -> 0..(SeqLimit - 1)]
        /\ pc' \in [Proc -> {"idle", "lock", "waiting"}]
    BY <1>1 DEF Issue, IInv, TypeOK
  <2>3. node' \in [Gen -> 0..(Nodes - 1)] /\ cancelled' \subseteq Gen \X Nat /\ backs' \in Nat
    BY DEF IInv, TypeOK
  <2> QED
    BY <2>1, <2>2, <2>3 DEF TypeOK
<1> HIDE DEF e
<1>4. /\ DOMAIN issued' = 1..(Len(issued) + 1) /\ DOMAIN issued = 1..Len(issued)
      /\ issued'[Len(issued) + 1] = e /\ Len(issued) \in Nat
      /\ \A i \in 1..Len(issued) : issued'[i] = issued[i]
  BY <1>1, <1>2
<1>5. /\ e.gen = g /\ e.at = now /\ e.seq = s /\ e.id = Pack(now, node[g], s)
      /\ lastMillis'[g] = now /\ sequence'[g] = s
      /\ \A h \in Gen \ {g} : lastMillis'[h] = lastMillis[h] /\ sequence'[h] = sequence[h]
  BY <1>1 DEF e, Issue, IInv, TypeOK
<1>6. WellFormed'
  BY <1>4, <1>5 DEF WellFormed, IInv
<1>t. \A i \in 1..Len(issued) :
          /\ issued[i].gen \in Gen /\ issued[i].at \in Nat
          /\ issued[i].seq \in 0..(SeqLimit - 1) /\ issued[i].id \in Nat
  <2> TAKE i \in 1..Len(issued)
  <2>1. issued[i] \in Entry
    BY <1>2
  <2> QED
    BY <2>1 DEF Entry
<1>o. /\ lastMillis[g] \in Nat /\ sequence[g] \in Nat
      /\ \A i \in 1..Len(issued) : issued[i].gen = g =>
            \/ issued[i].at < now
            \/ issued[i].at = now /\ (issued[i].seq < s \/ <<g, now>> \in cancelled)
  <2>1. lastMillis[g] \in Nat /\ sequence[g] \in Nat
    BY <1>1 DEF IInv, TypeOK
  <2> SUFFICES ASSUME NEW i \in 1..Len(issued), issued[i].gen = g
               PROVE  \/ issued[i].at < now
                      \/ issued[i].at = now /\ (issued[i].seq < s \/ <<g, now>> \in cancelled)
    BY <2>1
  <2>2. /\ issued[i].at <= lastMillis[g]
        /\ issued[i].at = lastMillis[g] =>
             issued[i].seq <= sequence[g] \/ <<g, issued[i].at>> \in cancelled \/ holder[g] # Free
    BY <1>4 DEF IInv, Frontier
  <2>3. issued[i].at \in Nat /\ issued[i].seq \in Nat
    BY <1>t
  <2>4. CASE lastMillis[g] < now
    BY <2>1, <2>2, <2>3, <2>4
  <2>5. CASE lastMillis[g] = now /\ sequence[g] < s /\ holder[g] = Free
    <3>1. CASE issued[i].at = lastMillis[g]
      <4>1. issued[i].seq <= sequence[g] \/ <<g, now>> \in cancelled
        BY <2>2, <2>5, <3>1 DEF IInv, TypeOK
      <4> QED
        BY <2>1, <2>3, <2>5, <3>1, <4>1
    <3>2. CASE issued[i].at # lastMillis[g]
      BY <2>1, <2>2, <2>3, <2>5, <3>2
    <3> QED
      BY <3>1, <3>2
  <2> QED
    BY <2>4, <2>5
<1>7. Frontier'
  <2> SUFFICES ASSUME NEW i \in 1..(Len(issued) + 1)
               PROVE  LET h == issued'[i].gen IN
                      /\ issued'[i].at <= lastMillis'[h]
                      /\ issued'[i].at = lastMillis'[h] =>
                           \/ issued'[i].seq <= sequence'[h]
                           \/ <<h, issued'[i].at>> \in cancelled'
                           \/ holder'[h] # Free
    BY <1>4 DEF Frontier
  <2>1. CASE i = Len(issued) + 1
    BY <1>4, <1>5, <2>1
  <2>2. CASE i \in 1..Len(issued) /\ issued[i].gen = g
    <3>1. issued'[i] = issued[i]
      BY <1>4, <2>2
    <3>2. lastMillis'[g] = now /\ sequence'[g] = s /\ cancelled' = cancelled
      BY <1>5
    <3>3. CASE issued[i].at < now
      <4>1. issued[i].at <= now /\ issued[i].at # now
        BY <1>t, <2>2, <3>3
      <4> QED
        BY <2>2, <3>1, <3>2, <4>1
    <3>4. CASE issued[i].at = now /\ (issued[i].seq < s \/ <<g, now>> \in cancelled)
      <4>1. issued[i].seq <= s \/ <<g, issued[i].at>> \in cancelled'
        BY <1>t, <2>2, <3>2, <3>4
      <4> QED
        BY <2>2, <3>1, <3>2, <3>4, <4>1
    <3> QED
      BY <1>o, <2>2, <3>3, <3>4
  <2>3. CASE i \in 1..Len(issued) /\ issued[i].gen # g
    <3>1. issued'[i] = issued[i] /\ issued[i].gen \in Gen \ {g}
      BY <1>4, <1>t, <2>3
    <3> QED
      BY <1>4, <1>5, <2>3, <3>1 DEF Frontier, IInv
  <2> QED
    BY <1>4, <2>1, <2>2, <2>3
<1>8. IdsIncrease'
  <2>1. ASSUME NEW i \in 1..Len(issued), issued[i].gen = g
        PROVE  \/ issued[i].id < e.id
               \/ <<g, now>> \in cancelled
               \/ issued[i].at < Epoch /\ Epoch <= now
    <3>1. issued[i].id = Pack(issued[i].at, node[g], issued[i].seq)
      BY <1>4, <2>1 DEF IInv, WellFormed
    <3> DEFINE x == issued[i].at
               q == issued[i].seq
    <3>2. /\ x \in Nat /\ q \in 0..(SeqLimit - 1)
          /\ x < now \/ (x = now /\ (q < s \/ <<g, now>> \in cancelled))
      BY <1>o, <1>t, <2>1
    <3> HIDE DEF x, q
    <3>3. ASSUME ~(x < Epoch /\ Epoch <= now), <<g, now>> \notin cancelled
          PROVE  Pack(x, node[g], q) < Pack(now, node[g], s)
      BY <1>1, <3>2, <3>3, PackOrder
    <3> QED
      BY <1>5, <3>1, <3>3 DEF x, q
  <2>2. ASSUME NEW i \in 1..(Len(issued) + 1), NEW j \in 1..(Len(issued) + 1),
               i < j, issued'[i].gen = issued'[j].gen
        PROVE  \/ issued'[i].id < issued'[j].id
               \/ <<issued'[j].gen, issued'[j].at>> \in cancelled'
               \/ issued'[i].at < Epoch /\ Epoch <= issued'[j].at
    <3>1. CASE j = Len(issued) + 1
      <4>1. i \in 1..Len(issued) /\ issued'[i] = issued[i] /\ issued'[j] = e
        BY <1>4, <2>2, <3>1
      <4>2. e.gen = g /\ e.at = now /\ cancelled' = cancelled
        BY <1>5
      <4>3. issued[i].gen = g
        BY <2>2, <4>1, <4>2
      <4>4. \/ issued[i].id < e.id
            \/ <<g, now>> \in cancelled
            \/ issued[i].at < Epoch /\ Epoch <= now
        BY <2>1, <4>1, <4>3
      <4> HIDE DEF e
      <4> QED
        BY <4>1, <4>2, <4>4
    <3>2. CASE j \in 1..Len(issued)
      <4>1. i \in 1..Len(issued) /\ issued'[i] = issued[i] /\ issued'[j] = issued[j]
        BY <1>4, <2>2, <3>2
      <4> QED
        BY <1>4, <2>2, <3>2, <4>1 DEF IInv, IdsIncrease
    <3>3. j = Len(issued) + 1 \/ j \in 1..Len(issued)
      BY <1>4, <2>2
    <3> QED
      BY <3>1, <3>2, <3>3
  <2> QED
    BY <1>4, <2>2 DEF IdsIncrease
<1> QED
  BY <1>3, <1>6, <1>7, <1>8 DEF IInv

LEMMA InvInit == Init => IInv
BY DEF Init, IInv, TypeOK, WellFormed, Frontier, IdsIncrease

LEMMA InvStep == IInv /\ [Next]_vars => IInv'
<1> SUFFICES ASSUME IInv, [Next]_vars PROVE IInv'
  OBVIOUS
<1>t. TypeOK
  BY DEF IInv
<1> DEFINE Same == UNCHANGED <<node, lastMillis, sequence, issued, cancelled>>
           Data == WellFormed /\ IdsIncrease
<1>1. ASSUME Same, UNCHANGED holder PROVE Data' /\ Frontier'
  BY <1>1 DEF IInv, WellFormed, Frontier, IdsIncrease
<1>2. CASE Tick \/ SetBack
  <2>1. Same /\ UNCHANGED <<holder, pc>> /\ clock' \in Nat /\ backs' \in Nat
    BY <1>2, <1>t DEF Tick, SetBack, TypeOK
  <2>2. TypeOK'
    BY <1>t, <2>1 DEF TypeOK
  <2> QED
    BY <1>1, <2>1, <2>2 DEF IInv
<1>3. ASSUME NEW p \in Proc, Call(p) PROVE IInv'
  <2>1. TypeOK'
    BY <1>3, <1>t DEF Call, TypeOK
  <2> QED
    BY <1>1, <1>3, <2>1 DEF Call, IInv
<1>4. ASSUME NEW p \in Proc, NewMillis(p) \/ SameMillis(p) PROVE IInv'
  <2> DEFINE g == GenOf[p]
  <2>1. /\ g \in Gen /\ clock \in Nat /\ lastMillis[g] \in Nat /\ sequence[g] \in 0..(SeqLimit - 1)
        /\ holder[g] = Free
    BY <1>4, <1>t DEF TypeOK, NewMillis, SameMillis, Locks
  <2>2. Now(g) \in Nat /\ lastMillis[g] <= Now(g)
    BY <2>1 DEF Now
  <2>3. UNCHANGED <<clock, backs, node, holder, cancelled>>
    BY <1>4 DEF NewMillis, SameMillis
  <2>4. \A q \in Proc : pc'[q] = "waiting" <=> holder'[GenOf[q]] = q
    BY <1>4, <1>t, <2>1, <2>3 DEF NewMillis, SameMillis, Locks, Issue, TypeOK
  <2>5. /\ holder' \in [Gen -> Proc \cup {Free}]
        /\ \A h \in Gen \ {g} : holder'[h] = holder[h]
        /\ clock' \in Nat
    BY <1>t, <2>3 DEF TypeOK
  <2>6. CASE NewMillis(p)
    <3>1. Issue(p, Now(g), 0) /\ lastMillis[g] < Now(g) /\ 0 \in 0..(SeqLimit - 1)
      BY <2>1, <2>2, <2>6 DEF NewMillis
    <3> QED
      BY <2>2, <2>3, <2>4, <2>5, <3>1, IssueStep
  <2>7. CASE SameMillis(p)
    <3>1. /\ Issue(p, Now(g), NextSequence(g)) /\ lastMillis[g] = Now(g)
          /\ NextSequence(g) # 0
      BY <2>7 DEF SameMillis
    <3>2. NextSequence(g) \in 0..(SeqLimit - 1) /\ sequence[g] < NextSequence(g)
      BY <2>1, <3>1, SequenceStep DEF NextSequence
    <3> QED
      BY <2>1, <2>2, <2>3, <2>4, <2>5, <3>1, <3>2, IssueStep
  <2> QED
    BY <1>4, <2>6, <2>7
<1>5. ASSUME NEW p \in Proc, BeginWait(p) PROVE IInv'
  <2> DEFINE g == GenOf[p]
  <2>1. /\ g \in Gen /\ holder[g] = Free
        /\ holder' = [holder EXCEPT ![g] = p] /\ sequence' = [sequence EXCEPT ![g] = 0]
        /\ pc' = [pc EXCEPT ![p] = "waiting"]
        /\ UNCHANGED <<clock, backs, node, lastMillis, issued, cancelled>>
    BY <1>5 DEF BeginWait, Locks
  <2>2. TypeOK'
    BY <1>t, <2>1 DEF TypeOK
  <2>3. Data'
    BY <2>1 DEF IInv, WellFormed, IdsIncrease
  <2>4. Frontier'
    <3> SUFFICES ASSUME NEW i \in DOMAIN issued
                 PROVE  LET h == issued[i].gen IN
                        /\ issued[i].at <= lastMillis[h]
                        /\ issued[i].at = lastMillis[h] =>
                             \/ issued[i].seq <= sequence'[h]
                             \/ <<h, issued[i].at>> \in cancelled
                             \/ holder'[h] # Free
      BY <2>1 DEF Frontier
    <3>0. issued[i] \in Entry
      BY <1>t DEF TypeOK
    <3>1. issued[i].gen \in Gen
      BY <3>0 DEF Entry
    <3>2. CASE issued[i].gen = g
      <4>1. holder'[g] # Free
        BY <1>t, <2>1 DEF TypeOK
      <4> QED
        BY <3>2, <4>1 DEF IInv, Frontier
    <3>3. CASE issued[i].gen # g
      <4>1. sequence'[issued[i].gen] = sequence[issued[i].gen] /\ holder'[issued[i].gen] = holder[issued[i].gen]
        BY <1>t, <2>1, <3>1, <3>3 DEF TypeOK
      <4> QED
        BY <4>1 DEF IInv, Frontier
    <3> QED
      BY <3>2, <3>3
  <2> QED
    BY <2>2, <2>3, <2>4 DEF IInv
<1>6. ASSUME NEW p \in Proc, EndWait(p) PROVE IInv'
  <2> DEFINE g == GenOf[p]
  <2>1. /\ g \in Gen /\ clock \in Nat /\ lastMillis[g] < clock /\ Issue(p, clock, 0)
        /\ holder[g] = p /\ holder' = [holder EXCEPT ![g] = Free]
        /\ UNCHANGED <<clock, backs, node, cancelled>> /\ 0 \in 0..(SeqLimit - 1)
    BY <1>6, <1>t DEF EndWait, TypeOK
  <2>2. \A q \in Proc : pc'[q] = "waiting" <=> holder'[GenOf[q]] = q
    BY <1>t, <2>1 DEF Issue, TypeOK
  <2>3. /\ holder' \in [Gen -> Proc \cup {Free}]
        /\ \A h \in Gen \ {g} : holder'[h] = holder[h]
    BY <1>t, <2>1 DEF TypeOK
  <2> QED
    BY <2>1, <2>2, <2>3, IssueStep
<1>7. ASSUME NEW p \in Proc, CancelWait(p) PROVE IInv'
  <2> DEFINE g == GenOf[p]
  <2>1. /\ g \in Gen /\ holder[g] = p /\ lastMillis[g] \in Nat
        /\ holder' = [holder EXCEPT ![g] = Free]
        /\ pc' = [pc EXCEPT ![p] = "idle"]
        /\ cancelled' = cancelled \cup {<<g, lastMillis[g]>>}
        /\ UNCHANGED <<clock, backs, node, lastMillis, sequence, issued>>
    BY <1>7, <1>t DEF CancelWait, TypeOK
  <2>2. TypeOK'
    BY <1>t, <2>1 DEF TypeOK
  <2>3. Data'
    BY <2>1 DEF IInv, WellFormed, IdsIncrease
  <2>4. Frontier'
    <3> SUFFICES ASSUME NEW i \in DOMAIN issued
                 PROVE  LET h == issued[i].gen IN
                        /\ issued[i].at <= lastMillis[h]
                        /\ issued[i].at = lastMillis[h] =>
                             \/ issued[i].seq <= sequence[h]
                             \/ <<h, issued[i].at>> \in cancelled'
                             \/ holder'[h] # Free
      BY <2>1 DEF Frontier
    <3>0. issued[i] \in Entry
      BY <1>t DEF TypeOK
    <3>1. issued[i].gen \in Gen
      BY <3>0 DEF Entry
    <3>2. CASE issued[i].gen = g
      BY <2>1, <3>2 DEF IInv, Frontier
    <3>3. CASE issued[i].gen # g
      <4>1. holder'[issued[i].gen] = holder[issued[i].gen]
        BY <1>t, <2>1, <3>1, <3>3 DEF TypeOK
      <4> QED
        BY <2>1, <4>1 DEF IInv, Frontier
    <3> QED
      BY <3>2, <3>3
  <2> QED
    BY <2>2, <2>3, <2>4 DEF IInv
<1>8. CASE UNCHANGED vars
  <2>1. Same /\ UNCHANGED <<holder, pc, clock, backs>>
    BY <1>8 DEF vars
  <2>2. TypeOK'
    BY <1>t, <2>1 DEF TypeOK
  <2> QED
    BY <1>1, <2>1, <2>2 DEF IInv
<1> QED
  BY <1>2, <1>3, <1>4, <1>5, <1>6, <1>7, <1>8 DEF Next, NextID

LEMMA Invariant == Spec => []IInv
BY InvInit, InvStep, PTL DEF Spec

(* The variables keep their types and a sequence number fits its bits      *)
(* (identifier_generator.go:66-90).                                        *)
THEOREM TypeCorrect == Spec => []TypeOK
<1>1. IInv => TypeOK
  BY DEF IInv
<1> QED
  BY <1>1, Invariant, PTL

(* The ids of a generator increase except after a given-up wait and across *)
(* the epoch (identifier_generator.go:69-90).                              *)
THEOREM IdsAreOrdered == Spec => []IdsIncrease
<1>1. IInv => IdsIncrease
  BY DEF IInv
<1> QED
  BY <1>1, Invariant, PTL

(* Generators of different nodes never issue the same id                   *)
(* (identifier_generator.go:90).                                           *)
THEOREM NodesAreKeptApart == Spec => []NodesKeepApart
<1>1. ASSUME IInv PROVE NodesKeepApart
  <2> SUFFICES ASSUME NEW i \in DOMAIN issued, NEW j \in DOMAIN issued,
                      issued[i].id = issued[j].id
               PROVE  node[issued[i].gen] = node[issued[j].gen]
    BY DEF NodesKeepApart
  <2>1. issued[i] \in Entry /\ issued[j] \in Entry /\ node \in [Gen -> 0..(Nodes - 1)]
    BY <1>1 DEF IInv, TypeOK
  <2>2. Pack(issued[i].at, node[issued[i].gen], issued[i].seq)
          = Pack(issued[j].at, node[issued[j].gen], issued[j].seq)
    BY <1>1 DEF IInv, WellFormed
  <2> QED
    BY <2>1, <2>2, PackNode DEF Entry
<1> QED
  BY <1>1, Invariant, PTL
================================================================================
