--------------------------- MODULE LogUploadProofs ---------------------------
(***************************************************************************)
(* What holds of LogUpload for every number of testcases, logs, prefixes   *)
(* and uploads.  UInv is inductive: it follows a log from its writer to    *)
(* the bucket, and an upload from testcase to testcase.                    *)
(***************************************************************************)
EXTENDS LogUpload, TLAPS

\* A log in a directory has been put there and its directory is there.
PlaceInv ==
  /\ \A l \in files : writer[l] \in {"open", "closed"} /\ l[1] \in dirs
  /\ \A l \in queue : writer[l] \in {"open", "closed"}
  /\ \A l \in before : writer[l] = "closed"

\* A log is finished and in the bucket as it is.
Saved(l) == writer[l] = "closed" /\ cloud[l] = size[l]

\* What has been copied or removed is saved, unless it was copied too early.
SavedInv ==
  /\ \A l \in uploaded : l \in torn \/ Saved(l)
  /\ \A l \in Logs : writer[l] \in {"open", "closed"} /\ l \notin files
                       => l \in torn \/ Saved(l)

\* Nothing is removed before every testcase is done, and until then the
\* testcases behind the upload are.
ProgressInv ==
  /\ pc = "idle" => testcase = 1
  /\ pc = "copy" => testcase \in Testcases
  /\ pc \in {"next", "copy"} => before \subseteq files
  /\ \A l \in (before \intersect option.filter) \ missed :
       /\ pc \in {"next", "copy"} /\ l[1] < testcase => Saved(l)
       /\ pc = "copy" /\ l[1] = testcase => Saved(l) \/ l \in queue
       /\ pc \in {"remove", "rmdir"} => Saved(l)
       /\ pc = "over" /\ status = "ok" => Saved(l)

UInv == TypeOK /\ PlaceInv /\ SavedInv /\ ProgressInv

-----------------------------------------------------------------------------
LEMMA LogFacts ==
  /\ NumTestcases \in Nat /\ NumTestcases > 0 /\ MaxUploads \in Nat /\ MaxUploads > 0
  /\ Whole \in Nat
  /\ Testcases = 1 .. NumTestcases
  /\ \A l \in Logs : l[1] \in Testcases
BY TestcasesAssumption, WholeAssumption, LogsAssumption DEF Testcases

LEMMA InitUInv == Init => UInv
<1> SUFFICES ASSUME Init PROVE UInv
  OBVIOUS
<1> USE LogFacts DEF Init
<1>1. TypeOK
  BY DEF TypeOK
<1>2. PlaceInv /\ SavedInv /\ ProgressInv
  BY DEF PlaceInv, SavedInv, ProgressInv
<1>3. QED
  BY <1>1, <1>2 DEF UInv

-----------------------------------------------------------------------------
(* The steps of an upload.                                                 *)

LEMMA BeginUInv == ASSUME UInv, Begin PROVE UInv'
<1> USE LogFacts DEF UInv, Begin, logVars, Finished
<1>1. TypeOK'
  BY DEF TypeOK
<1>2. PlaceInv' /\ SavedInv'
  BY DEF PlaceInv, SavedInv, Saved
<1>3. ProgressInv'
  BY DEF ProgressInv, TypeOK, Saved
<1>4. QED
  BY <1>1, <1>2, <1>3

LEMMA ListLogsUInv == ASSUME UInv, ListLogs PROVE UInv'
<1> USE LogFacts DEF UInv, ListLogs, Asked, Unlisted, logVars, Die
<1>1. TypeOK'
  <2>1. testcase + 1 \in 1 .. NumTestcases + 1
    OBVIOUS
  <2>2. {l \in files \intersect option.filter : l[1] = testcase} \in SUBSET Logs
    BY DEF TypeOK
  <2>3. testcase' \in 1 .. NumTestcases + 1 /\ queue' \in SUBSET Logs /\ selected' \in SUBSET Testcases
    <3>1. testcase' = testcase \/ testcase' = testcase + 1
      OBVIOUS
    <3>2. testcase' \in 1 .. NumTestcases + 1
      BY <2>1, <3>1 DEF TypeOK
    <3>3. queue' \in SUBSET Logs
      BY <2>2 DEF TypeOK
    <3>4. selected' \in SUBSET Testcases
      <4>1. testcase \in Testcases /\ selected \subseteq Testcases
        BY DEF TypeOK
      <4>2. selected' = selected \/ selected' = selected \union {testcase}
        OBVIOUS
      <4>3. QED
        BY <4>1, <4>2, Zenon
    <3>5. QED
      BY <3>2, <3>3, <3>4
  <2>4. pc' \in {"next", "copy", "over"} /\ status' \in {"ok", "failed"} /\ count' = 0
    BY DEF TypeOK
  <2>5. QED
    BY <2>3, <2>4 DEF TypeOK
<1>2. PlaceInv' /\ SavedInv'
  BY DEF PlaceInv, SavedInv, Saved
<1>3. ProgressInv'
  <2>1. CASE testcase \in dirs
    BY <2>1 DEF ProgressInv, TypeOK, Saved
  <2>2. CASE testcase \notin dirs
    <3>1. \A l \in before : l[1] # testcase
      BY <2>2 DEF ProgressInv, PlaceInv
    <3>2. \A l \in before : l \in Logs /\ l[1] \in Int /\ testcase \in Int
      BY DEF TypeOK
    <3>3. \A l \in before : l[1] < testcase + 1 => l[1] < testcase
      BY <3>1, <3>2
    <3>4. QED
      BY <2>2, <3>3 DEF ProgressInv, Saved
  <2>3. QED
    BY <2>1, <2>2
<1>4. QED
  BY <1>1, <1>2, <1>3

LEMMA CopyUInv == ASSUME UInv, NEW l \in Logs, Copy(l) PROVE UInv'
<1> USE LogFacts DEF UInv, Copy, logVars
<1>1. TypeOK'
  BY DEF TypeOK
<1>2. l \in torn' \/ Saved(l)'
  BY DEF PlaceInv, Saved, TypeOK
<1>3. /\ \A k \in Logs : Saved(k) => Saved(k)'
      /\ \A k \in Logs : k \in torn => k \in torn' \/ k = l
  BY DEF Saved, TypeOK
<1>4. PlaceInv'
  BY DEF PlaceInv
<1>5. SavedInv'
  BY <1>2, <1>3 DEF SavedInv, TypeOK
<1>6. ProgressInv'
  <2>1. \A k \in before : k = l => Saved(k)'
    BY DEF PlaceInv, Saved, TypeOK
  <2>2. \A k \in before : Saved(k) => Saved(k)'
    BY <1>3 DEF TypeOK
  <2>3. QED
    BY <2>1, <2>2 DEF ProgressInv
<1>7. QED
  BY <1>1, <1>4, <1>5, <1>6

LEMMA CopyFailsUInv == ASSUME UInv, NEW l \in Logs, CopyFails(l) PROVE UInv'
<1> USE LogFacts DEF UInv, CopyFails, Abort, Die, logVars
<1>1. TypeOK'
  BY DEF TypeOK
<1>2. PlaceInv' /\ SavedInv'
  BY DEF PlaceInv, SavedInv, Saved
<1>3. ProgressInv'
  BY DEF ProgressInv, Saved
<1>4. QED
  BY <1>1, <1>2, <1>3

LEMMA EndTestcaseUInv == ASSUME UInv, EndTestcase PROVE UInv'
<1> USE LogFacts DEF UInv, EndTestcase, Die, logVars
<1>1. testcase + 1 \in 1 .. NumTestcases + 1
  BY DEF ProgressInv
<1>2. TypeOK'
  BY <1>1 DEF TypeOK
<1>3. PlaceInv' /\ SavedInv'
  BY DEF PlaceInv, SavedInv, Saved
<1>4. ProgressInv'
  <2>1. \A l \in before : l \in Logs /\ l[1] \in Int /\ testcase \in Int
    BY DEF TypeOK
  <2>2. \A l \in before : l[1] < testcase + 1 => l[1] < testcase \/ l[1] = testcase
    BY <2>1
  <2>3. QED
    BY <2>2 DEF ProgressInv, Saved
<1>5. QED
  BY <1>2, <1>3, <1>4

LEMMA EndUploadsUInv == ASSUME UInv, EndUploads PROVE UInv'
<1> USE LogFacts DEF UInv, EndUploads, Die, logVars
<1>1. TypeOK'
  BY DEF TypeOK
<1>2. PlaceInv' /\ SavedInv'
  BY DEF PlaceInv, SavedInv, Saved
<1>3. ProgressInv'
  <2>1. testcase = NumTestcases + 1
    BY DEF TypeOK
  <2>2. \A l \in before : l[1] < testcase
    BY <2>1 DEF TypeOK
  <2>3. QED
    BY <2>2 DEF ProgressInv, Saved
<1>4. QED
  BY <1>1, <1>2, <1>3

\* Removing is harmless: what is removed has been copied.
LEMMA RemoveUInv == ASSUME UInv, RemoveLog \/ RemoveDirectory PROVE UInv'
<1> USE LogFacts DEF UInv
<1>1. CASE RemoveLog
  <2> USE <1>1 DEF RemoveLog, Removable
  <2>1. TypeOK'
    BY DEF TypeOK
  <2>2. PlaceInv'
    BY DEF PlaceInv
  <2>3. SavedInv'
    BY DEF SavedInv, Saved
  <2>4. ProgressInv'
    BY DEF ProgressInv, Saved
  <2>5. QED
    BY <2>1, <2>2, <2>3, <2>4
<1>2. CASE RemoveDirectory
  <2> USE <1>2 DEF RemoveDirectory, Empty
  <2>1. TypeOK'
    BY DEF TypeOK
  <2>2. PlaceInv'
    BY DEF PlaceInv
  <2>3. SavedInv' /\ ProgressInv'
    BY DEF SavedInv, ProgressInv, Saved
  <2>4. QED
    BY <2>1, <2>2, <2>3
<1>3. QED
  BY <1>1, <1>2

LEMMA AgainUInv == ASSUME UInv, Again PROVE UInv'
<1> USE LogFacts DEF UInv, Again, logVars
<1>1. TypeOK'
  BY DEF TypeOK
<1>2. PlaceInv' /\ SavedInv' /\ ProgressInv'
  BY DEF PlaceInv, SavedInv, ProgressInv, Saved
<1>3. QED
  BY <1>1, <1>2

-----------------------------------------------------------------------------
(* The steps of the writers.                                               *)

\* A writer leaves alone every log but its own, and a saved one as it is.
LEMMA WriterUInv ==
  ASSUME UInv, NEW l \in Logs, MakeDirectory(l) \/ Place(l) \/ Extend(l) \/ Close(l)
  PROVE  UInv'
<1> USE LogFacts DEF UInv, scriptVars
<1>1. TypeOK'
  <2>1. CASE MakeDirectory(l)
    BY <2>1 DEF MakeDirectory, TypeOK
  <2>2. CASE Place(l)
    <3>1. writer' \in [Logs -> {"none", "mkdir", "open", "closed", "stranded"}]
      BY <2>2 DEF Place, TypeOK
    <3>2. size' \in [Logs -> 0 .. Whole]
      <4>1. 0 \in 0 .. Whole /\ Whole \in 0 .. Whole
        OBVIOUS
      <4>2. QED
        BY <2>2, <4>1 DEF Place, TypeOK
    <3>3. files' \in SUBSET Logs
      BY <2>2 DEF Place, TypeOK
    <3>4. QED
      BY <2>2, <3>1, <3>2, <3>3 DEF Place, TypeOK
  <2>3. CASE Extend(l)
    BY <2>3 DEF Extend, TypeOK
  <2>4. CASE Close(l)
    BY <2>4 DEF Close, TypeOK
  <2>5. QED
    BY <2>1, <2>2, <2>3, <2>4
<1>2. /\ UNCHANGED <<option, upload, pc, testcase, queue, count, uploaded, selected, status,
                     before, missed, cloud, torn>>
      /\ files \subseteq files' /\ dirs \subseteq dirs'
      /\ \A k \in files' : k \in files \/ k = l
  BY DEF MakeDirectory, Place, Extend, Close
<1>3. /\ writer[l] # "closed"
      /\ \A k \in Logs : k # l => writer'[k] = writer[k] /\ size'[k] = size[k]
      /\ writer[l] = "open" => writer'[l] \in {"open", "closed"}
      /\ writer[l] \in {"none", "mkdir"} /\ writer'[l] \in {"open", "closed"}
           => l \in files' /\ l[1] \in dirs'
      /\ l \in files' => writer'[l] \in {"open", "closed"} \/ l \in files
  BY DEF MakeDirectory, Place, Extend, Close, TypeOK
<1>4. writer[l] \in {"none", "mkdir", "open"}
  BY DEF MakeDirectory, Place, Extend, Close
<1>5. \A k \in Logs : Saved(k) => Saved(k)'
  BY <1>2, <1>3 DEF Saved
<1>6. PlaceInv'
  <2>1. \A k \in files : k # l => writer'[k] \in {"open", "closed"} /\ k[1] \in dirs'
    BY <1>2, <1>3 DEF PlaceInv, TypeOK
  <2>2. l \in files' => writer'[l] \in {"open", "closed"} /\ l[1] \in dirs'
    <3>1. CASE l \in files
      BY <1>2, <1>3, <1>4, <3>1 DEF PlaceInv
    <3>2. CASE l \notin files
      <4>1. ASSUME l \in files' PROVE Place(l) /\ l[1] \in dirs
        BY <3>2, <4>1 DEF MakeDirectory, Place, Extend, Close
      <4>2. QED
        BY <4>1 DEF Place, TypeOK
    <3>3. QED
      BY <3>1, <3>2
  <2>3. \A k \in queue : writer'[k] \in {"open", "closed"}
    BY <1>3 DEF PlaceInv, TypeOK
  <2>4. \A k \in before : writer'[k] = "closed"
    BY <1>3 DEF PlaceInv, TypeOK
  <2>5. QED
    BY <1>2, <2>1, <2>2, <2>3, <2>4 DEF PlaceInv
<1>7. SavedInv'
  <2>1. \A k \in uploaded : k \in torn \/ Saved(k)'
    BY <1>5 DEF SavedInv, TypeOK
  <2>2. ASSUME NEW k \in Logs, writer'[k] \in {"open", "closed"}, k \notin files'
        PROVE  k \in torn \/ Saved(k)'
    <3>1. writer[k] \in {"open", "closed"} /\ k \notin files
      BY <1>2, <1>3, <1>4, <2>2
    <3>2. QED
      BY <1>5, <3>1 DEF SavedInv
  <2>3. QED
    BY <1>2, <2>1, <2>2 DEF SavedInv
<1>8. ProgressInv'
  <2>1. \A k \in before : Saved(k) => Saved(k)'
    BY <1>5 DEF TypeOK
  <2>2. QED
    BY <1>2, <2>1 DEF ProgressInv
<1>9. QED
  BY <1>1, <1>6, <1>7, <1>8

LEMMA NextUInv == UInv /\ [Next]_vars => UInv'
<1> SUFFICES ASSUME UInv, [Next]_vars PROVE UInv'
  OBVIOUS
<1>1. CASE Next /\ ~ UNCHANGED vars
  BY <1>1, BeginUInv, ListLogsUInv, CopyUInv, CopyFailsUInv, EndTestcaseUInv, EndUploadsUInv,
     RemoveUInv, AgainUInv, WriterUInv DEF Next
<1>2. CASE UNCHANGED vars
  BY <1>2 DEF vars, scriptVars, logVars, UInv, TypeOK, PlaceInv, SavedInv, ProgressInv, Saved
<1>3. QED
  BY <1>1, <1>2

\* The inductive invariant holds of every reachable state.
THEOREM UploadInvariance == Spec => []UInv
BY InitUInv, NextUInv, PTL DEF Spec

-----------------------------------------------------------------------------
\* Whatever logs come in while others are removed, and wherever an upload ends,
\* a finished log that is gone was copied as it was (the cleanup at the end of
\* upload-logs-to-oss.sh).
THEOREM NoLoss == Spec => []NothingLost
<1>1. UInv => NothingLost
  BY DEF UInv, SavedInv, Saved, NothingLost
<1>2. QED
  BY <1>1, UploadInvariance, PTL

\* Exit status 0 means that every log that was there is in the bucket.
THEOREM CompleteSuccess == Spec => []SuccessIsComplete
<1>1. UInv => SuccessIsComplete
  BY DEF UInv, ProgressInv, Saved, SuccessIsComplete
<1>2. QED
  BY <1>1, UploadInvariance, PTL
=============================================================================
