----------------------------- MODULE ReportFile -----------------------------
(***************************************************************************)
(* report/writer.py: write_report on one path, one file system call at a   *)
(* time, by any number of processes, with crashes and failing writes.      *)
(* Every command that takes an output path writes through it.              *)
(*                                                                         *)
(* A document reaches the file in two parts, and the file is the document  *)
(* found in each part: a truncation empties both, and a process that has   *)
(* the file open keeps its offset when another process truncates it.       *)
(***************************************************************************)
CONSTANTS
  Process,    \* the processes that may write the file
  Nil         \* no document

VARIABLES
  text,       \* whose bytes stand in the front and in the rest of the file
  mode,       \* "absent", "private" (0600) or "public" (others may read it)
  loosened,   \* history: someone else widened the mode since it was last set
  io,         \* where each process is in write_report
  doc         \* the document it writes

fileVars == <<text, mode, loosened, io, doc>>

Empty == [front |-> Nil, rest |-> Nil]

FileInit ==
  /\ text = Empty
  /\ mode = "absent"
  /\ loosened = FALSE
  /\ io = [p \in Process |-> "closed"]
  /\ doc = [p \in Process |-> Nil]

----------------------------------------------------------------------------
(* Mutant: the file is created with the permissions of the umask.          *)
OpenReportDefault(p, d) ==
  /\ io[p] = "closed"
  /\ text' = Empty
  /\ mode' = IF mode = "absent" THEN "public" ELSE mode
  /\ io' = [io EXCEPT ![p] = "opened"]
  /\ doc' = [doc EXCEPT ![p] = d]
  /\ UNCHANGED loosened

(* os.open(path, O_WRONLY | O_CREAT | O_TRUNC, 0o600): the mode is that of *)
(* a new file only.                                                        *)
OpenReport(p, d) ==
  /\ io[p] = "closed"
  /\ text' = Empty
  /\ mode' = IF mode = "absent" THEN "private" ELSE mode
  /\ io' = [io EXCEPT ![p] = "opened"]
  /\ doc' = [doc EXCEPT ![p] = d]
  /\ UNCHANGED loosened

WriteFront(p) ==
  /\ io[p] = "opened"
  /\ text' = [text EXCEPT !.front = doc[p]]
  /\ io' = [io EXCEPT ![p] = "half"]
  /\ UNCHANGED <<mode, loosened, doc>>

WriteRest(p) ==
  /\ io[p] = "half"
  /\ text' = [text EXCEPT !.rest = doc[p]]
  /\ io' = [io EXCEPT ![p] = "written"]
  /\ UNCHANGED <<mode, loosened, doc>>

(* The disk is full, or the user interrupts: the finally block still runs. *)
WriteFails(p) ==
  /\ io[p] \in {"opened", "half", "written"}
  /\ io' = [io EXCEPT ![p] = "failed"]
  /\ UNCHANGED <<text, mode, loosened, doc>>

(* os.chmod(path, 0o600), in the finally block.                            *)
Chmod(p) ==
  /\ io[p] \in {"written", "failed"}
  /\ mode' = "private"
  /\ loosened' = FALSE
  /\ io' = [io EXCEPT ![p] = "closed"]
  /\ doc' = [doc EXCEPT ![p] = Nil]
  /\ UNCHANGED text

(* The process is killed wherever it is.                                   *)
Killed(p) ==
  /\ io' = [io EXCEPT ![p] = "closed"]
  /\ doc' = [doc EXCEPT ![p] = Nil]
  /\ UNCHANGED <<text, mode, loosened>>

(* A user, or a checkout of a committed baseline, makes the file readable. *)
Loosen ==
  /\ mode = "private"
  /\ mode' = "public"
  /\ loosened' = TRUE
  /\ UNCHANGED <<text, io, doc>>

----------------------------------------------------------------------------
(* A report is readable by others only when somebody else opened it up     *)
(* after the tool last set its mode: no write, failure or crash of the     *)
(* tool leaves a file it created readable.  writer.py: O_CREAT with 0600   *)
(* and the chmod in the finally block.                                     *)
PublicOnlyByOthers == mode = "public" => loosened

(* The docstring of write_report (writer.py:19-20): the file is opened     *)
(* with mode 0600 from the start, with no window in which what it writes   *)
(* is readable by others.  Not so for a file that exists and is readable:  *)
(* its mode stays until the chmod that follows the write.                  *)
NoReadableWindow == \A p \in Process : io[p] \in {"half", "written"} => mode = "private"
=============================================================================
