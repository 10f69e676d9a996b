----------------------------- MODULE ConfigFix ------------------------------
(***************************************************************************)
(* `mcpscan scan --fix`, one file system call at a time: _apply_fixes      *)
(* (cli.py) walks the config files, plan_config_fixes prunes the text it   *)
(* read, and apply_fix_to_file (fix.py) copies the original, writes a      *)
(* temporary file and renames it over the config.  Around it: users who    *)
(* save their configs, failing writes, crashes at any point, and other     *)
(* fixers on the same files.                                               *)
(*                                                                         *)
(* A file is its content and its permission bits.  A process that has the  *)
(* temporary file open keeps writing to that file when its name changes,   *)
(* so fd says under which name the open file is to be found now.           *)
(***************************************************************************)
EXTENDS ConfigContent, Naturals, Sequences

CONSTANTS
  Order,      \* the config files, in the order discovery returns them
  Fixer,      \* processes that may run with --fix
  Racing,     \* may users save while a fixer is at work?
  Bit,        \* permission bits
  Umask,      \* the bits the umask clears
  UserMode,   \* the modes users give their configs
  Absent      \* no such file

Path == {Order[i] : i \in 1 .. Len(Order)}
File == [data : Content, mode : SUBSET Bit]

ASSUME FixAssumption ==
  /\ Order \in Seq(Path)
  /\ \A i, j \in 1 .. Len(Order) : Order[i] = Order[j] => i = j
  /\ Racing \in BOOLEAN
  /\ Umask \subseteq Bit
  /\ UserMode \subseteq SUBSET Bit
  /\ Absent \notin File

VARIABLES
  config,     \* <path>
  backup,     \* <path>.mcpscan.bak
  tmp,        \* <path>.mcpscan.tmp
  saved,      \* history: the file as its user last saved it
  pc,         \* where each fixer is, "idle" when no process runs
  next,       \* the index of the config file a fixer is at
  plan,       \* the text it is going to write
  source,     \* the text it copies to the backup
  mode,       \* the mode it read from the config
  fd,         \* the name of the file it has open for writing
  passed      \* history: the configs its run could not read

disk == <<config, backup, tmp>>
proc == <<pc, next, plan, source, mode, fd, passed>>
vars == <<disk, saved, proc>>

Here(f) == Order[next[f]]

----------------------------------------------------------------------------
(* Renaming and unlinking move open files from name to name.               *)

Relinked(p, to) ==
  [f \in Fixer |-> IF fd[f] = "none" \/ Here(f) # p THEN fd[f] ELSE to[fd[f]]]

ByReplace == [tmp |-> "config", config |-> "unlinked", unlinked |-> "unlinked"]
BySave    == [tmp |-> "tmp",    config |-> "unlinked", unlinked |-> "unlinked"]
ByUnlink  == [tmp |-> "unlinked", config |-> "config", unlinked |-> "unlinked"]

(* Writing from the start of a file: over the text of another writer the   *)
(* longer of the two leaves its tail behind.                               *)
Overwritten(old, new) == IF old \in {Torn, new} THEN {new} ELSE {new, Torn}

GoTo(f, label) == pc' = [pc EXCEPT ![f] = label]

(* The process is gone and its variables with it.                          *)
Gone(f) ==
  /\ GoTo(f, "idle")
  /\ next'   = [next EXCEPT ![f] = 1]
  /\ plan'   = [plan EXCEPT ![f] = Torn]
  /\ source' = [source EXCEPT ![f] = Torn]
  /\ mode'   = [mode EXCEPT ![f] = {}]
  /\ passed' = [passed EXCEPT ![f] = {}]

----------------------------------------------------------------------------
Init ==
  /\ config \in [Path -> [data : Content, mode : UserMode]]
  /\ saved = config
  /\ backup = [p \in Path |-> Absent]
  /\ tmp    = [p \in Path |-> Absent]
  /\ pc     = [f \in Fixer |-> "idle"]
  /\ next   = [f \in Fixer |-> 1]
  /\ plan   = [f \in Fixer |-> Torn]
  /\ source = [f \in Fixer |-> Torn]
  /\ mode   = [f \in Fixer |-> {}]
  /\ fd     = [f \in Fixer |-> "none"]
  /\ passed = [f \in Fixer |-> {}]

(* A user saves a config the way editors do: a new file renamed over it.   *)
Save(p, file) ==
  /\ Racing \/ \A f \in Fixer : pc[f] = "idle"
  /\ config' = [config EXCEPT ![p] = file]
  /\ saved' = [saved EXCEPT ![p] = file]
  /\ fd' = Relinked(p, BySave)
  /\ UNCHANGED <<backup, tmp, pc, next, plan, source, mode, passed>>

Start(f) ==
  /\ pc[f] = "idle"
  /\ GoTo(f, "read")
  /\ UNCHANGED <<disk, saved, next, plan, source, mode, fd, passed>>

(* safe_read_text and plan_config_fixes.  A text that does not parse, or   *)
(* that has nothing to remove, leaves the file as it is.                   *)
Changes(text) == Pruned(text) # text

(* Mutant: a backup that exists already is kept.                           *)
ReadAndPlanOneBackup(f) ==
  /\ pc[f] = "read"
  /\ next[f] <= Len(Order)
  /\ Changes(config[Here(f)].data)
  /\ plan' = [plan EXCEPT ![f] = Pruned(config[Here(f)].data)]
  /\ GoTo(f, IF backup[Here(f)] = Absent THEN "backup" ELSE "open")
  /\ UNCHANGED <<disk, saved, next, source, mode, fd, passed>>

ReadAndPlan(f) ==
  /\ pc[f] = "read"
  /\ next[f] <= Len(Order)
  /\ Changes(config[Here(f)].data)
  /\ plan' = [plan EXCEPT ![f] = Pruned(config[Here(f)].data)]
  /\ GoTo(f, "backup")
  /\ UNCHANGED <<disk, saved, next, source, mode, fd, passed>>

LeaveAlone(f) ==
  /\ pc[f] = "read"
  /\ next[f] <= Len(Order)
  /\ ~ Changes(config[Here(f)].data)
  /\ next' = [next EXCEPT ![f] = @ + 1]
  /\ UNCHANGED <<disk, saved, pc, plan, source, mode, fd, passed>>

(* safe_read_text refuses a config that it cannot read, that is too big or *)
(* that leads out of its directory: the loop goes on with the next one.    *)
PassOver(f) ==
  /\ pc[f] = "read"
  /\ next[f] <= Len(Order)
  /\ next' = [next EXCEPT ![f] = @ + 1]
  /\ passed' = [passed EXCEPT ![f] = @ \union {Here(f)}]
  /\ UNCHANGED <<disk, saved, pc, plan, source, mode, fd>>

(* shutil.copy2 opens the config, truncates the backup, copies the text    *)
(* and then the mode.                                                      *)
StartBackup(f) ==
  LET p == Here(f) IN
  /\ pc[f] = "backup"
  /\ source' = [source EXCEPT ![f] = config[p].data]
  /\ backup' = [backup EXCEPT ![p] =
       [data |-> Torn, mode |-> IF @ = Absent THEN Bit \ Umask ELSE @.mode]]
  /\ GoTo(f, "copy")
  /\ UNCHANGED <<config, tmp, saved, next, plan, mode, fd, passed>>

CopyBackup(f) ==
  /\ pc[f] = "copy"
  /\ backup' = [backup EXCEPT ![Here(f)].data = source[f]]
  /\ GoTo(f, "stamp")
  /\ UNCHANGED <<config, tmp, saved, next, plan, source, mode, fd, passed>>

StampBackup(f) ==
  LET p == Here(f) IN
  /\ pc[f] = "stamp"
  /\ backup' = [backup EXCEPT ![p].mode = config[p].mode]
  /\ mode' = [mode EXCEPT ![f] = config[p].mode]
  /\ GoTo(f, "open")
  /\ UNCHANGED <<config, tmp, saved, next, plan, source, fd, passed>>

(* Mutant: the temporary file is created without the mode of the config.   *)
OpenTmpDefault(f) ==
  /\ pc[f] = "open"
  /\ tmp' = [tmp EXCEPT ![Here(f)] = [data |-> Torn, mode |-> Bit \ Umask]]
  /\ fd' = [fd EXCEPT ![f] = "tmp"]
  /\ GoTo(f, "write")
  /\ UNCHANGED <<config, backup, saved, next, plan, source, mode, passed>>

(* Mutant: the config itself is opened and written in place.               *)
OpenTmpInPlace(f) ==
  /\ pc[f] = "open"
  /\ config' = [config EXCEPT ![Here(f)].data = Torn]
  /\ fd' = [fd EXCEPT ![f] = "config"]
  /\ GoTo(f, "write")
  /\ UNCHANGED <<backup, tmp, saved, next, plan, source, mode, passed>>

(* The mode counts only when the file is created, and less the umask.      *)
OpenTmp(f) ==
  /\ pc[f] = "open"
  /\ tmp' = [tmp EXCEPT ![Here(f)] =
       [data |-> Torn, mode |-> IF @ = Absent THEN mode[f] \ Umask ELSE @.mode]]
  /\ fd' = [fd EXCEPT ![f] = "tmp"]
  /\ GoTo(f, "write")
  /\ UNCHANGED <<config, backup, saved, next, plan, source, mode, passed>>

WriteTmp(f) ==
  LET p == Here(f) IN
  /\ pc[f] = "write"
  /\ \/ /\ fd[f] = "tmp"
        /\ \E text \in Overwritten(tmp[p].data, plan[f]) :
             tmp' = [tmp EXCEPT ![p].data = text]
        /\ UNCHANGED config
     \/ /\ fd[f] = "config"
        /\ \E text \in Overwritten(config[p].data, plan[f]) :
             config' = [config EXCEPT ![p].data = text]
        /\ UNCHANGED tmp
     \/ /\ fd[f] = "unlinked"
        /\ UNCHANGED <<config, tmp>>
  /\ fd' = [fd EXCEPT ![f] = "none"]
  /\ GoTo(f, "replace")
  /\ UNCHANGED <<backup, saved, next, plan, source, mode, passed>>

Replace(f) ==
  LET p == Here(f) IN
  /\ pc[f] = "replace"
  /\ tmp[p] # Absent
  /\ config' = [config EXCEPT ![p] = tmp[p]]
  /\ tmp' = [tmp EXCEPT ![p] = Absent]
  /\ fd' = Relinked(p, ByReplace)
  /\ GoTo(f, "tidy")
  /\ UNCHANGED <<backup, saved, next, plan, source, mode, passed>>

(* Mutant: a missing temporary file is waited for.                         *)
ReplaceFailsWaits(f) ==
  /\ pc[f] = "replace"
  /\ tmp[Here(f)] = Absent
  /\ UNCHANGED vars

(* os.replace does not find the file: nothing catches the error.           *)
ReplaceFails(f) ==
  /\ pc[f] = "replace"
  /\ tmp[Here(f)] = Absent
  /\ GoTo(f, "undo")
  /\ UNCHANGED <<disk, saved, next, plan, source, mode, fd, passed>>

(* A write, or the rename, fails.                                          *)
WriteFails(f) ==
  /\ pc[f] \in {"write", "replace"}
  /\ fd' = [fd EXCEPT ![f] = "none"]
  /\ GoTo(f, "undo")
  /\ UNCHANGED <<disk, saved, next, plan, source, mode, passed>>

(* The finally clause looks for the temporary file after the rename        *)
(* ("tidy") and after an exception ("undo"), and if there is one unlinks   *)
(* it, whoever it belongs to.                                              *)
Tidy(f) ==
  /\ pc[f] = "tidy"
  /\ IF tmp[Here(f)] = Absent
       THEN next' = [next EXCEPT ![f] = @ + 1] /\ GoTo(f, "read")
       ELSE GoTo(f, "unlink") /\ UNCHANGED next
  /\ UNCHANGED <<disk, saved, plan, source, mode, fd, passed>>

Undo(f) ==
  /\ pc[f] = "undo"
  /\ IF tmp[Here(f)] = Absent
       THEN Gone(f)
       ELSE GoTo(f, "discard") /\ UNCHANGED <<next, plan, source, mode, passed>>
  /\ UNCHANGED <<disk, saved, fd>>

(* Unlinking goes on with the loop or with the exception.                  *)
UnlinkTmp(f) ==
  LET p == Here(f) IN
  /\ pc[f] \in {"unlink", "discard"}
  /\ tmp[p] # Absent
  /\ tmp' = [tmp EXCEPT ![p] = Absent]
  /\ fd' = Relinked(p, ByUnlink)
  /\ \/ /\ pc[f] = "unlink"
        /\ next' = [next EXCEPT ![f] = @ + 1]
        /\ GoTo(f, "read")
        /\ UNCHANGED <<plan, source, mode, passed>>
     \/ pc[f] = "discard" /\ Gone(f)
  /\ UNCHANGED <<config, backup, saved>>

(* The file that was there a moment ago is gone: an exception, or another. *)
UnlinkFails(f) ==
  /\ pc[f] \in {"unlink", "discard"}
  /\ tmp[Here(f)] = Absent
  /\ Gone(f)
  /\ UNCHANGED <<disk, saved, fd>>

(* Mutant: the loop stops one file early.                                  *)
FinishEarly(f) ==
  /\ pc[f] = "read"
  /\ next[f] >= Len(Order)
  /\ GoTo(f, "done")
  /\ UNCHANGED <<disk, saved, next, plan, source, mode, fd, passed>>

Finish(f) ==
  /\ pc[f] = "read"
  /\ next[f] > Len(Order)
  /\ GoTo(f, "done")
  /\ UNCHANGED <<disk, saved, next, plan, source, mode, fd, passed>>

Exit(f) ==
  /\ pc[f] = "done"
  /\ Gone(f)
  /\ UNCHANGED <<disk, saved, fd>>

(* The process is killed, or a call outside the try statement raises:      *)
(* nothing is undone.                                                      *)
Crash(f) ==
  /\ pc[f] # "idle"
  /\ fd' = [fd EXCEPT ![f] = "none"]
  /\ Gone(f)
  /\ UNCHANGED <<disk, saved>>

----------------------------------------------------------------------------
(* The calls the program makes of itself.                                  *)
Program(f) ==
  \/ ReadAndPlan(f) \/ LeaveAlone(f) \/ PassOver(f)
  \/ StartBackup(f) \/ CopyBackup(f) \/ StampBackup(f)
  \/ OpenTmp(f) \/ WriteTmp(f) \/ Replace(f) \/ ReplaceFails(f)
  \/ Tidy(f) \/ Undo(f) \/ UnlinkTmp(f) \/ UnlinkFails(f)
  \/ Finish(f) \/ Exit(f)

Next ==
  \/ \E f \in Fixer : Program(f) \/ Start(f) \/ WriteFails(f) \/ Crash(f)
  \/ \E p \in Path, file \in [data : Content, mode : UserMode] : Save(p, file)

Spec == Init /\ [][Next]_vars /\ \A f \in Fixer : WF_vars(Program(f))

----------------------------------------------------------------------------
(* Every variable has its type, and a fixer has a file open exactly while  *)
(* it writes.                                                              *)
TypeOK ==
  /\ config \in [Path -> File]
  /\ saved \in [Path -> File]
  /\ backup \in [Path -> File \union {Absent}]
  /\ tmp \in [Path -> File \union {Absent}]
  /\ pc \in [Fixer -> {"idle", "read", "backup", "copy", "stamp", "open", "write",
                       "replace", "tidy", "undo", "unlink", "discard", "done"}]
  /\ next \in [Fixer -> 1 .. Len(Order) + 1]
  /\ plan \in [Fixer -> Content]
  /\ source \in [Fixer -> Content]
  /\ mode \in [Fixer -> SUBSET Bit]
  /\ fd \in [Fixer -> {"none", "tmp", "config", "unlinked"}]
  /\ passed \in [Fixer -> SUBSET Path]
  /\ \A f \in Fixer : fd[f] = "none" <=> pc[f] # "write"

(* "then the new content is written atomically": at every moment a config  *)
(* holds what its user saved, or that without the flagged grants; never    *)
(* half a text and never an older version.                                 *)
NothingInvented ==
  \A p \in Path :
    \/ config[p].data = saved[p].data
    \/ config[p].data = saved[p].data \ Unsafe

(* "Reversible: every modified file is copied to <path>.mcpscan.bak before *)
(* the edit": a config that differs from what its user saved has that      *)
(* version, with its mode, in the backup.                                  *)
Reversible == \A p \in Path : config[p].data # saved[p].data => backup[p] = saved[p]

(* A run that comes to its normal end leaves no flagged grant in any       *)
(* config, except in one that it could not read and passed over.           *)
CleanWhenDone ==
  \A f \in Fixer : pc[f] = "done" =>
    \A p \in Path \ passed[f] : config[p].data \intersect Unsafe = {}

(* "keeping the file's original permission bits": a config is never more   *)
(* accessible than its user made it.                                       *)
ModeNeverWidened == \A p \in Path : config[p].mode \subseteq saved[p].mode

(* "preserves the file's permissions": the mode is the one the user gave.  *)
ModePreserved == \A p \in Path : config[p].mode = saved[p].mode

(* A fixer that runs comes to an end.                                      *)
FixEnds == \A f \in Fixer : pc[f] # "idle" ~> pc[f] = "idle"

(* The fixer implements AtomicFix: what can be restored of a file is the   *)
(* file itself until the fixer has changed it, then the backup.            *)
Restorable ==
  [p \in Path |-> IF config[p].data = saved[p].data \/ backup[p] = Absent
                    THEN config[p].data ELSE backup[p].data]

Atomic == INSTANCE AtomicFix
            WITH current <- [p \in Path |-> config[p].data], original <- Restorable

(* Every step of the fixer is a step AtomicFix allows.                     *)
ImplementsAtomicFix == Atomic!Spec
=============================================================================
