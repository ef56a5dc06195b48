----------------------------- MODULE LogUpload ------------------------------
(***************************************************************************)
(* scripts/oss/upload-logs-to-oss.sh beside the scripts that write logs.   *)
(* The upload goes through the testcases in order, copies the logs it      *)
(* finds and, if asked to and only at the very end, removes what it has    *)
(* copied and the directories that are empty then.  Launchers move         *)
(* finished logs into place; the iperf script appends to its log in place. *)
(*                                                                         *)
(* A log is a pair of its testcase and a number.                           *)
(***************************************************************************)
EXTENDS Integers, FiniteSets

CONSTANTS
  NumTestcases,  \* testcases, in the order they are uploaded in
  Logs,          \* the logs that may come to be
  InPlace,       \* those of them that are written where they are
  Whole,         \* length of a log at its end
  Filters,       \* the logs a --filename-prefix may stand for
  MaxUploads,    \* uploads, one after the other
  Faults         \* "cp": ossutil cp fails; "find": a listing ends early

Testcases == 1 .. NumTestcases

ASSUME TestcasesAssumption == NumTestcases \in Nat \ {0} /\ MaxUploads \in Nat \ {0}
ASSUME LogsAssumption == Logs \subseteq Testcases \X Nat /\ InPlace \subseteq Logs
ASSUME WholeAssumption == Whole \in Nat
ASSUME FiltersAssumption == \A f \in Filters : f \subseteq Logs
ASSUME FaultsAssumption == Faults \subseteq {"cp", "find"}

VARIABLES
  option,    \* cleanup, skip: the flags; filter: the logs with the prefix
  upload,    \* uploads begun
  pc,        \* where the upload stands
  testcase,  \* the testcase it is at
  queue,     \* logs find has listed and that have still to be copied
  count,     \* testcase_count
  uploaded,  \* UPLOADED_LOGS
  selected,  \* SELECTED_TESTCASES whose directory is yet to be looked at
  status,    \* exit status
  before,    \* logs that were finished when the upload began
  missed,    \* logs that a find which failed did not list
  dirs,      \* testcases that have a directory
  files,     \* logs in the directories
  writer,    \* writer[l]: the script that writes log l
  size,      \* size[l]: what it has written
  cloud,     \* cloud[l]: how much of it is in the bucket, -1 for nothing
  torn       \* logs that were copied while they were being written

scriptVars == <<option, upload, pc, testcase, queue, count, uploaded, selected, status, before,
                missed>>
logVars == <<dirs, files, writer, size>>
vars == <<scriptVars, logVars, cloud, torn>>

Options == [cleanup : BOOLEAN, skip : BOOLEAN, filter : Filters]

TypeOK ==
  /\ option \in Options /\ upload \in 1 .. MaxUploads
  /\ pc \in {"idle", "next", "copy", "remove", "rmdir", "over"}
  /\ testcase \in 1 .. NumTestcases + 1
  /\ queue \in SUBSET Logs /\ count \in Nat /\ uploaded \in SUBSET Logs
  /\ selected \in SUBSET Testcases /\ status \in {"ok", "failed"}
  /\ before \in SUBSET Logs /\ missed \in SUBSET Logs
  /\ dirs \in SUBSET Testcases /\ files \in SUBSET Logs
  /\ writer \in [Logs -> {"none", "mkdir", "open", "closed", "stranded"}]
  /\ size \in [Logs -> 0 .. Whole] /\ cloud \in [Logs -> -1 .. Whole]
  /\ torn \in SUBSET Logs

Init ==
  /\ option \in Options /\ upload = 1 /\ pc = "idle" /\ testcase = 1
  /\ queue = {} /\ count = 0 /\ uploaded = {} /\ selected = {} /\ status = "ok"
  /\ before = {} /\ missed = {} /\ dirs = {} /\ files = {}
  /\ writer = [l \in Logs |-> "none"] /\ size = [l \in Logs |-> 0]
  /\ cloud = [l \in Logs |-> -1] /\ torn = {}

-----------------------------------------------------------------------------
(* The upload.                                                             *)

Die == pc' = "over" /\ status' = "failed"

Finished == {l \in files : writer[l] = "closed"}

Begin ==
  /\ pc = "idle"
  /\ pc' = "next" /\ before' = Finished
  /\ UNCHANGED <<option, upload, testcase, queue, count, uploaded, selected, status, missed,
                 logVars, cloud, torn>>

\* The logs of the testcase that find is to list.
Asked == {l \in files \intersect option.filter : l[1] = testcase}

\* What it may leave out: its status is that of a process substitution, which
\* neither errexit nor pipefail looks at.
Unlisted == IF "find" \in Faults THEN SUBSET Asked ELSE {{}}

\* The next testcase, and find over its directory.  A testcase that is missing
\* is skipped or ends the script.
ListLogs ==
  /\ pc = "next" /\ testcase \in Testcases
  /\ IF testcase \in dirs
       THEN /\ selected' = selected \union {testcase}
            /\ \E lost \in Unlisted : queue' = Asked \ lost /\ missed' = missed \union lost
            /\ pc' = "copy" /\ UNCHANGED <<testcase, status>>
       ELSE /\ UNCHANGED <<selected, queue, missed>>
            /\ IF option.skip THEN testcase' = testcase + 1 /\ UNCHANGED <<pc, status>>
                              ELSE Die /\ UNCHANGED testcase
  /\ count' = 0
  /\ UNCHANGED <<option, upload, uploaded, before, logVars, cloud, torn>>

Copy(l) ==
  /\ pc = "copy" /\ l \in queue
  /\ queue' = queue \ {l} /\ count' = count + 1 /\ uploaded' = uploaded \union {l}
  /\ cloud' = [cloud EXCEPT ![l] = size[l]]
  /\ torn' = IF writer[l] = "open" THEN torn \union {l} ELSE torn \ {l}
  /\ UNCHANGED <<option, upload, pc, testcase, selected, status, before, missed,
                 logVars>>

\* Mutant: the script goes on with the next log.
GoOn == pc' = pc /\ status' = status

\* A copy that fails ends the script (errexit), before anything is removed.
Abort == Die

CopyFails(l) ==
  /\ "cp" \in Faults
  /\ pc = "copy" /\ l \in queue
  /\ Abort
  /\ queue' = queue \ {l}
  /\ UNCHANGED <<option, upload, testcase, count, uploaded, selected, before, missed,
                 logVars, cloud, torn>>

EndTestcase ==
  /\ pc = "copy" /\ queue = {}
  /\ IF count = 0 /\ ~ option.skip
       THEN Die /\ UNCHANGED testcase
       ELSE pc' = "next" /\ testcase' = testcase + 1 /\ UNCHANGED status
  /\ UNCHANGED <<option, upload, queue, count, uploaded, selected, before, missed, logVars,
                 cloud, torn>>

EndUploads ==
  /\ pc = "next" /\ testcase \notin Testcases
  /\ IF uploaded = {} THEN Die
     ELSE pc' = (IF option.cleanup THEN "remove" ELSE "over") /\ UNCHANGED status
  /\ UNCHANGED <<option, upload, testcase, queue, count, uploaded, selected, before, missed,
                 logVars, cloud, torn>>

\* Mutant: what the directories hold at the end is removed.
RemovableFound == {l \in files \intersect option.filter : l[1] \in selected}

Removable == uploaded

\* rm -f of one log after the other.
RemoveLog ==
  /\ pc = "remove"
  /\ IF Removable \intersect files = {}
       THEN pc' = "rmdir" /\ UNCHANGED files
       ELSE pc' = pc /\ \E l \in Removable \intersect files : files' = files \ {l}
  /\ UNCHANGED <<option, upload, testcase, queue, count, uploaded, selected, status, before,
                 missed, dirs, writer, size, cloud, torn>>

Empty(t) == \A l \in files : l[1] # t

\* find -type d -empty -delete
RemoveDirectory ==
  /\ pc = "rmdir"
  /\ IF selected = {}
       THEN pc' = "over" /\ UNCHANGED <<selected, dirs>>
       ELSE /\ pc' = pc
            /\ \E t \in selected :
                 /\ selected' = selected \ {t}
                 /\ dirs' = IF Empty(t) THEN dirs \ {t} ELSE dirs
  /\ UNCHANGED <<option, upload, testcase, queue, count, uploaded, status, before, missed,
                 files, writer, size, cloud, torn>>

\* The next upload, a retry or one with other options.
Again ==
  /\ pc = "over" /\ upload < MaxUploads
  /\ upload' = upload + 1 /\ option' \in Options
  /\ pc' = "idle" /\ testcase' = 1 /\ queue' = {} /\ count' = 0
  /\ uploaded' = {} /\ selected' = {} /\ status' = "ok" /\ before' = {} /\ missed' = {}
  /\ UNCHANGED <<logVars, cloud, torn>>

-----------------------------------------------------------------------------
(* The writers: mkdir -p, then mv of a finished log, or tee.               *)

MakeDirectory(l) ==
  /\ writer[l] = "none"
  /\ writer' = [writer EXCEPT ![l] = "mkdir"]
  /\ dirs' = dirs \union {l[1]}
  /\ UNCHANGED <<scriptVars, files, size, cloud, torn>>

\* The directory may be gone again; then mv leaves the log where it was.
Place(l) ==
  /\ writer[l] = "mkdir"
  /\ IF l[1] \in dirs
       THEN /\ files' = files \union {l}
            /\ writer' = [writer EXCEPT ![l] = IF l \in InPlace THEN "open" ELSE "closed"]
            /\ size' = [size EXCEPT ![l] = IF l \in InPlace THEN 0 ELSE Whole]
       ELSE /\ writer' = [writer EXCEPT ![l] = "stranded"]
            /\ UNCHANGED <<files, size>>
  /\ UNCHANGED <<scriptVars, dirs, cloud, torn>>

\* tee goes on with a log that was removed under it.
Extend(l) ==
  /\ writer[l] = "open" /\ size[l] < Whole
  /\ size' = [size EXCEPT ![l] = @ + 1]
  /\ UNCHANGED <<scriptVars, dirs, files, writer, cloud, torn>>

Close(l) ==
  /\ writer[l] = "open"
  /\ writer' = [writer EXCEPT ![l] = "closed"]
  /\ UNCHANGED <<scriptVars, dirs, files, size, cloud, torn>>

Next ==
  \/ Begin \/ ListLogs \/ EndTestcase \/ EndUploads \/ RemoveLog \/ RemoveDirectory \/ Again
  \/ \E l \in Logs : Copy(l) \/ CopyFails(l)
  \/ \E l \in Logs : MakeDirectory(l) \/ Place(l) \/ Extend(l) \/ Close(l)
  \/ pc = "over" /\ upload = MaxUploads /\ UNCHANGED vars

Spec == Init /\ [][Next]_vars

-----------------------------------------------------------------------------
(* Properties.                                                             *)

\* A finished log that is gone from its directory is in the bucket as it was,
\* also if it came in, or an upload failed, while others were removed.  (A log
\* that was still being appended to when it was copied is another matter.)
NothingLost ==
  \A l \in Logs : writer[l] = "closed" /\ l \notin files => cloud[l] = size[l] \/ l \in torn

\* An upload that exits with 0 has put every log it was asked for, and that
\* was finished when it began, into the bucket, but for those that a find which
\* failed unnoticed kept from it.
SuccessIsComplete ==
  pc = "over" /\ status = "ok" =>
    \A l \in (before \intersect option.filter) \ missed : cloud[l] = size[l]
=============================================================================
