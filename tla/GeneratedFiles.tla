---------------------------- MODULE GeneratedFiles ----------------------------
(***************************************************************************)
(* The command line writes the files of the generator (generate_mode.go,   *)
(* generated_file_writer.go): into a temporary file beside the target,     *)
(* which then takes its name. Commands run beside each other, each step    *)
(* can fail, and commands are killed and machines lose their power.        *)
(*                                                                         *)
(* A file is [data, mode, synced]: what is in it, its permissions, and     *)
(* whether the disk is sure to have it.                                    *)
(***************************************************************************)
EXTENDS Naturals, Sequences

CONSTANTS
    Generators,   \* commands
    Jobs,         \* what a command is told: [mode, items: Seq([path, data])]
    OldFiles,     \* name -> file, of the files there before
    TempNames,    \* names for temporary files
    NoTemp,
    MaxFaults     \* bound: failed steps, killed commands and losses of power

ASSUME GeneratedFilesAssumption ==
    /\ MaxFaults \in Nat /\ NoTemp \notin TempNames
    /\ \A j \in Jobs : Len(j.items) \in Nat \ {0} /\ DOMAIN j.items = 1..Len(j.items)
    /\ \A j \in Jobs : \A i \in DOMAIN j.items : j.items[i].path \notin TempNames
    /\ \A n \in DOMAIN OldFiles : n \notin TempNames /\ OldFiles[n].synced

VARIABLES
    files,        \* name -> file, as the commands see them
    disk,         \* what of it is sure to be on the disk
    running,      \* command -> [job, at: its item, pc, temp: its temporary file, mode, code]
    orphans,      \* temporary files nobody removes any more (history)
    misread,      \* files whose permissions a command could not read (history)
    faults

fileVars == <<files, disk, running, orphans, misread, faults>>

Started(job) == [job |-> job, at |-> 1, pc |-> "read", temp |-> NoTemp, mode |-> "", code |-> 0]
FilesInit(choices) ==
    /\ files = OldFiles /\ disk = OldFiles /\ orphans = {} /\ misread = {} /\ faults = 0
    /\ \E jobs \in [Generators -> choices] : running = [g \in Generators |-> Started(jobs[g])]

Item(g) == running[g].job.items[running[g].at]
Becomes(g, at, pc, temp, mode, code) ==
    running' = [running EXCEPT ![g] = [job |-> running[g].job, at |-> at, pc |-> pc, temp |-> temp,
                                       mode |-> mode, code |-> code]]
Goes(g, pc) == Becomes(g, running[g].at, pc, running[g].temp, running[g].mode, running[g].code)
Exits(g, code) == Becomes(g, running[g].at, "done", NoTemp, running[g].mode, code)
NextItem(g) ==
    IF running[g].at < Len(running[g].job.items)
    THEN Becomes(g, running[g].at + 1, "read", NoTemp, running[g].mode, running[g].code) ELSE Exits(g, 0)
UpToDate(g) == Item(g).path \in DOMAIN files /\ files[Item(g).path].data = Item(g).data
WithFile(name, file) == [n \in DOMAIN files \union {name} |-> IF n = name THEN file ELSE files[n]]
WithoutFile(name) == [n \in DOMAIN files \ {name} |-> files[n]]

(* Dry runs and validations read nothing; checks and diffs say whether the *)
(* file is the generator's; a write of what is there already writes nothing. *)
ReadCurrent(g) ==
    /\ running[g].pc = "read"
    /\ CASE running[g].job.mode \in {"dry-run", "validate"} -> NextItem(g)
         [] running[g].job.mode \in {"check", "diff"}       -> IF UpToDate(g) THEN NextItem(g) ELSE Exits(g, 1)
         [] OTHER                                           -> IF UpToDate(g) THEN NextItem(g) ELSE Goes(g, "stat")
    /\ UNCHANGED <<files, disk, orphans, misread, faults>>

StatMode(g) ==              \* a file whose permissions cannot be read gets those of a new one
    /\ running[g].pc = "stat"
    /\ LET mode == IF Item(g).path \in DOMAIN files THEN files[Item(g).path].mode ELSE "rw-r--r--"
       IN \/ Becomes(g, running[g].at, "create", running[g].temp, mode, running[g].code) /\ UNCHANGED <<misread, faults>>
          \/ /\ faults < MaxFaults /\ faults' = faults + 1
             /\ Becomes(g, running[g].at, "create", running[g].temp, "rw-r--r--", running[g].code)
             /\ misread' = misread \union {Item(g).path}
    /\ UNCHANGED <<files, disk, orphans>>

CreateTemp(g) ==            \* under a name that is not taken
    LET temp == CHOOSE t \in TempNames : t \notin DOMAIN files
    IN /\ running[g].pc = "create" /\ TempNames \ DOMAIN files # {}
       /\ files' = WithFile(temp, [data |-> "", mode |-> "rw-------", synced |-> FALSE])
       /\ Becomes(g, running[g].at, "write", temp, running[g].mode, running[g].code)
       /\ UNCHANGED <<disk, orphans, misread, faults>>

(* A step on the temporary file. *)
Temp(g) == files[running[g].temp]
OnTemp(g, pc, next, file) ==
    /\ running[g].pc = pc /\ Goes(g, next)
    /\ files' = WithFile(running[g].temp, file)
    /\ UNCHANGED <<disk, orphans, misread, faults>>
WriteTemp(g) == OnTemp(g, "write", "sync", [data |-> Item(g).data, mode |-> Temp(g).mode, synced |-> FALSE])
NotSynced(g) == OnTemp(g, "sync", "chmod", Temp(g))
SyncTemp(g)  == OnTemp(g, "sync", "chmod", [data |-> Temp(g).data, mode |-> Temp(g).mode, synced |-> TRUE])
ChmodTemp(g) == OnTemp(g, "chmod", "rename", [data |-> Temp(g).data, mode |-> running[g].mode, synced |-> Temp(g).synced])

RenameTemp(g) ==
    /\ running[g].pc = "rename" /\ NextItem(g)
    /\ files' = [n \in (DOMAIN files \ {running[g].temp}) \union {Item(g).path} |->
                    IF n = Item(g).path THEN Temp(g) ELSE files[n]]
    /\ UNCHANGED <<disk, orphans, misread, faults>>

(* A step fails: a write may have written a part; the deferred function    *)
(* removes the temporary file, if it can.                                  *)
StepFails(g) ==
    /\ running[g].pc \notin {"remove", "done", "dead"} /\ faults < MaxFaults
    /\ IF running[g].temp = NoTemp THEN Exits(g, 1) ELSE Goes(g, "remove")
    /\ files' = IF running[g].pc = "write" THEN WithFile(running[g].temp, [data |-> "part", mode |-> Temp(g).mode, synced |-> FALSE])
                ELSE files
    /\ faults' = faults + 1
    /\ UNCHANGED <<disk, orphans, misread>>

RemoveTemp(g) ==
    /\ running[g].pc = "remove" /\ Exits(g, 1)
    /\ \/ files' = WithoutFile(running[g].temp) /\ UNCHANGED orphans
       \/ orphans' = orphans \union {running[g].temp} /\ UNCHANGED files
    /\ UNCHANGED <<disk, misread, faults>>

Kill(g) ==
    /\ running[g].pc \notin {"done", "dead"} /\ faults < MaxFaults
    /\ Becomes(g, running[g].at, "dead", NoTemp, running[g].mode, running[g].code)
    /\ faults' = faults + 1
    /\ orphans' = orphans \union ({running[g].temp} \ {NoTemp})
    /\ UNCHANGED <<files, disk, misread>>

(* Of each name the disk has what it had, or what the commands saw; of a   *)
(* file that was not synced the data may be gone.                          *)
Survivor(f) == [data |-> IF f.synced THEN f.data ELSE "part", mode |-> f.mode, synced |-> TRUE]
LosePower ==
    /\ faults < MaxFaults
    /\ \E seen \in SUBSET (DOMAIN files \union DOMAIN disk) :
          files' = [n \in (DOMAIN files \intersect seen) \union (DOMAIN disk \ seen) |->
                       Survivor(IF n \in seen THEN files[n] ELSE disk[n])]
    /\ disk' = files' /\ orphans' = DOMAIN files' \intersect TempNames
    /\ running' = [g \in Generators |-> [Started(running[g].job) EXCEPT !.pc = "dead"]]
    /\ faults' = faults + 1 /\ UNCHANGED misread

RunAgain(g) ==
    /\ running[g].pc = "dead" /\ running' = [running EXCEPT ![g] = Started(running[g].job)]
    /\ UNCHANGED <<files, disk, orphans, misread, faults>>

FilesNext ==
    \/ LosePower
    \/ \E g \in Generators :
          \/ ReadCurrent(g) \/ StatMode(g) \/ CreateTemp(g) \/ WriteTemp(g) \/ SyncTemp(g) \/ ChmodTemp(g)
          \/ RenameTemp(g) \/ StepFails(g) \/ RemoveTemp(g) \/ Kill(g) \/ RunAgain(g)
FilesSpec == FilesInit(Jobs) /\ [][FilesNext]_fileVars

-----------------------------------------------------------------------------
(* FilesAreWhole: a generated file is what it was or what a command made   *)
(* of it, never a part, with the permissions it had (or those of a new     *)
(* file, when a command could not read them), whatever step fails,         *)
(* command is killed or machine loses its power; and a temporary file is a *)
(* command's, or was left by one that was killed or could not remove it.   *)
Makes(path, data) == \E g \in Generators : \E i \in DOMAIN running[g].job.items :
                        running[g].job.items[i].path = path /\ running[g].job.items[i].data = data
GoodMode(name, mode) ==
    IF name \in DOMAIN OldFiles
    THEN mode = OldFiles[name].mode \/ (name \in misread /\ mode = "rw-r--r--")
    ELSE mode = "rw-r--r--"
Whole(name, file) ==
    /\ Makes(name, file.data) \/ (name \in DOMAIN OldFiles /\ file.data = OldFiles[name].data)
    /\ GoodMode(name, file.mode)
FilesAreWhole ==
    /\ DOMAIN OldFiles \subseteq DOMAIN files
    /\ \A name \in DOMAIN files \ TempNames : Whole(name, files[name])
    /\ \A name \in DOMAIN files \intersect TempNames :
           name \in orphans \/ \E g \in Generators : running[g].temp = name
===============================================================================
