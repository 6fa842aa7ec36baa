---------------------------- MODULE UpgradeProofs ----------------------------
(***************************************************************************)
(* Theorems about ServerUpgrade, for any number of requests, files, versions *)
(* and failures.                                                             *)
(***************************************************************************)
EXTENDS ServerUpgrade, TLAPS

-----------------------------------------------------------------------------
(* The inductive invariant *)

\* Blocks in which a task holds a temporary file, in which that file is there, in which
\* its version has been checked, and in which it holds none.
HoldingBlocks == {"inspect", "admit", "validate", "mark", "clear", "backup", "replace",
                  "rollback", "tidy", "exec"}
LoadedBlocks  == {"inspect", "admit", "validate", "mark", "clear", "backup", "replace"}
CheckedBlocks == {"admit", "mark", "clear", "backup", "replace"}
EmptyBlocks   == {"idle", "prepare", "download", "save"}

\* Whose temporary files are whose.
Ownership ==
  /\ \A k \in Tasks : file[k] # None => file[k] \in made
  /\ candidate # None => candidate.file \in made
  /\ \A k \in Tasks :
       pc[k] \in HoldingBlocks \/ (pc[k] = "fail" /\ goal[k] = None) => file[k] # None
  /\ \A k \in Tasks : pc[k] \in EmptyBlocks => file[k] = None
  /\ \A k \in Tasks : pc[k] = "download" => goal[k] # None
  /\ ~up => candidate = None /\ \A k \in Tasks : pc[k] = "idle"
  /\ OneOwner

\* Nothing older than the running process is where the swap could put it.
Forward ==
  /\ exe # None => exe >= ver
  /\ CandidateReady
  /\ \A k \in Tasks : pc[k] \in LoadedBlocks => temp[file[k]] # None
  /\ \A k \in Tasks : pc[k] \in CheckedBlocks => temp[file[k]] > ver
  /\ \A k \in Tasks : pc[k] \in {"replace", "rollback"} /\ bak # None => bak >= ver

Inv == TypeOK /\ Ownership /\ Forward

LEMMA ReturnTyped ==
  ASSUME TypeOK, NEW k \in Tasks, Return(k)
  PROVE  /\ pc' \in [Tasks -> Blocks]
         /\ channel' \in [Tasks -> Channels]
         /\ goal' \in [Tasks -> Versions \cup {None}]
         /\ file' \in [Tasks -> Temps \cup {None}]
  BY DEF TypeOK, Return, Goto, Blocks, Channels

\* A task that returns owns nothing, and the others own what they did.
LEMMA ReturnOwns ==
  ASSUME TypeOK, NEW k \in Tasks, Return(k)
  PROVE  /\ pc'[k] = "idle" /\ file'[k] = None
         /\ \A l \in Tasks : l # k => /\ pc'[l] = pc[l]
                                     /\ goal'[l] = goal[l]
                                     /\ file'[l] = file[l]
  BY DEF TypeOK, Return, Goto

LEMMA RemoveTyped ==
  ASSUME TypeOK, NEW t, Remove(t)
  PROVE  /\ temp' \in [Temps -> Versions \cup {None}]
         /\ \A s \in Temps : temp'[s] = IF s = t THEN None ELSE temp[s]
  BY DEF TypeOK, Remove

\* What a task owns is nobody else's loaded file and not the candidate's.
LEMMA OwnFileApart ==
  ASSUME Inv, NEW k \in Tasks, Owns(k, file[k]), file[k] # None
  PROVE  /\ \A l \in Tasks : l # k /\ pc[l] \in LoadedBlocks =>
               file[l] \in Temps /\ file[l] # file[k]
         /\ candidate # None => candidate.file \in Temps /\ candidate.file # file[k]
  BY UpgradeAssumption DEF Inv, TypeOK, Ownership, OneOwner, Owns, Pending, UploadBlocks,
     JobBlocks, LoadedBlocks, HoldingBlocks, Candidate

LEMMA TaskTyped ==
  ASSUME Inv, NEW k \in Tasks, Task(k)
  PROVE  TypeOK'
  <1>1. CASE ScheduleCheck(k)
    BY <1>1, UpgradeAssumption DEF ScheduleCheck, Goto, Blocks, UploadBlocks, JobBlocks,
       HoldingBlocks, LoadedBlocks, Inv, TypeOK, Ownership, Forward, OneOwner, fsVars, memVars,
       Statuses, Channels, Candidate
  <1>2. CASE SchedulePrepare(k)
    <2>1. ASSUME NEW v \in Versions,
                 goal' = [goal EXCEPT ![k] = v],
                 inProgress' = TRUE,
                 Goto(k, "download"),
                 UNCHANGED <<status, channel, file>>
          PROVE  TypeOK'
      BY <1>2, <2>1 DEF SchedulePrepare, Goto, Blocks, Inv, TypeOK, fsVars
    <2>2. CASE status' = "failed" /\ Return(k) /\ UNCHANGED inProgress
      BY <1>2, <2>2, ReturnTyped DEF SchedulePrepare, Inv, TypeOK, fsVars, Statuses
    <2>3. QED
      BY <1>2, <2>1, <2>2 DEF SchedulePrepare
  <1>3. CASE UploadCheck(k)
    BY <1>3, UpgradeAssumption DEF UploadCheck, Goto, Blocks, UploadBlocks, JobBlocks,
       HoldingBlocks, LoadedBlocks, Inv, TypeOK, Ownership, Forward, OneOwner, fsVars, memVars,
       Statuses, Channels, Candidate
  <1>4. CASE UploadSave(k)
    BY <1>4, UpgradeAssumption DEF UploadSave, Goto, Return, CreateTemp, Blocks,
       UploadBlocks, JobBlocks, HoldingBlocks, LoadedBlocks, Inv, TypeOK, Ownership, Forward,
       OneOwner, fsVars, memVars, Statuses, Channels, Candidate
  <1>5. CASE UploadReject(k)
    BY <1>5, ReturnTyped, RemoveTyped DEF UploadReject, Inv, TypeOK, memVars
  <1>6. CASE UploadOffer(k)
    <2>1. file[k] \in Temps /\ temp[file[k]] \in Versions
      BY <1>6 DEF UploadOffer, Inv, TypeOK, Ownership, Forward, HoldingBlocks, LoadedBlocks
    <2>2. candidate' \in Candidate
      BY <1>6, <2>1 DEF UploadOffer, Candidate
    <2>3. temp' \in [Temps -> Versions \cup {None}]
      BY <1>6 DEF UploadOffer, Inv, TypeOK
    <2>4. QED
      BY <1>6, <2>2, <2>3, ReturnTyped DEF UploadOffer, Inv, TypeOK
  <1>7. CASE ConfirmCheck(k)
    BY <1>7, UpgradeAssumption DEF ConfirmCheck, Goto, Blocks, UploadBlocks, JobBlocks,
       HoldingBlocks, LoadedBlocks, Inv, TypeOK, Ownership, Forward, OneOwner, fsVars, memVars,
       Statuses, Channels, Candidate
  <1>8. CASE ConfirmTake(k)
    BY <1>8, UpgradeAssumption DEF ConfirmTake, Goto, Return, Blocks, UploadBlocks,
       JobBlocks, HoldingBlocks, LoadedBlocks, Inv, TypeOK, Ownership, Forward, OneOwner,
       fsVars, memVars, Statuses, Channels, Candidate
  <1>9. CASE ConfirmAdmit(k)
    BY <1>9, UpgradeAssumption DEF ConfirmAdmit, Goto, Blocks, UploadBlocks, JobBlocks,
       HoldingBlocks, LoadedBlocks, Inv, TypeOK, Ownership, Forward, OneOwner, fsVars, memVars,
       Statuses, Channels, Candidate
  <1>10. CASE JobDownload(k)
    BY <1>10, UpgradeAssumption DEF JobDownload, Goto, CreateTemp, Blocks, UploadBlocks,
       JobBlocks, HoldingBlocks, LoadedBlocks, Inv, TypeOK, Ownership, Forward, OneOwner,
       fsVars, memVars, Statuses, Channels, Candidate
  <1>11. CASE JobValidate(k)
    BY <1>11, UpgradeAssumption DEF JobValidate, Goto, Remove, ReadyToUpgrade, Blocks,
       UploadBlocks, JobBlocks, HoldingBlocks, LoadedBlocks, Inv, TypeOK, Ownership, Forward,
       OneOwner, fsVars, memVars, Statuses, Channels, Candidate
  <1>12. CASE JobMark(k)
    BY <1>12, UpgradeAssumption DEF JobMark, Goto, Blocks, UploadBlocks, JobBlocks,
       HoldingBlocks, LoadedBlocks, Inv, TypeOK, Ownership, Forward, OneOwner, fsVars, memVars,
       Statuses, Channels, Candidate
  <1>13. CASE JobFail(k)
    <2>1. temp' \in [Temps -> Versions \cup {None}]
      BY <1>13, RemoveTyped DEF JobFail, Inv, TypeOK
    <2>2. QED
      BY <1>13, <2>1, ReturnTyped DEF JobFail, Inv, TypeOK, Statuses
  <1>14. CASE SwapClear(k)
    BY <1>14, UpgradeAssumption DEF SwapClear, Goto, Fault, Blocks, UploadBlocks, JobBlocks,
       HoldingBlocks, LoadedBlocks, Inv, TypeOK, Ownership, Forward, OneOwner, fsVars, memVars,
       Statuses, Channels, Candidate
  <1>15. CASE SwapBackup(k)
    BY <1>15, UpgradeAssumption DEF SwapBackup, Goto, Fault, Remove, Blocks, UploadBlocks,
       JobBlocks, HoldingBlocks, LoadedBlocks, Inv, TypeOK, Ownership, Forward, OneOwner,
       fsVars, memVars, Statuses, Channels, Candidate
  <1>16. CASE SwapReplace(k)
    BY <1>16, UpgradeAssumption DEF SwapReplace, Goto, Fault, Remove, Blocks, UploadBlocks,
       JobBlocks, HoldingBlocks, LoadedBlocks, Inv, TypeOK, Ownership, Forward, OneOwner,
       fsVars, memVars, Statuses, Channels, Candidate
  <1>17. CASE SwapRollback(k)
    BY <1>17, UpgradeAssumption DEF SwapRollback, Goto, Fault, Blocks, UploadBlocks,
       JobBlocks, HoldingBlocks, LoadedBlocks, Inv, TypeOK, Ownership, Forward, OneOwner,
       fsVars, memVars, Statuses, Channels, Candidate
  <1>18. CASE SwapTidy(k)
    BY <1>18, UpgradeAssumption DEF SwapTidy, Goto, Fault, Blocks, UploadBlocks, JobBlocks,
       HoldingBlocks, LoadedBlocks, Inv, TypeOK, Ownership, Forward, OneOwner, fsVars, memVars,
       Statuses, Channels, Candidate
  <1>19. CASE SwapExec(k)
    BY <1>19, UpgradeAssumption DEF SwapExec, FreshMemory, Blocks, UploadBlocks, JobBlocks,
       HoldingBlocks, LoadedBlocks, Inv, TypeOK, Ownership, Forward, OneOwner, fsVars, memVars,
       Statuses, Channels, Candidate
  <1>20. CASE SwapExecFails(k)
    BY <1>20, UpgradeAssumption DEF SwapExecFails, Goto, Fault, Blocks, UploadBlocks,
       JobBlocks, HoldingBlocks, LoadedBlocks, Inv, TypeOK, Ownership, Forward, OneOwner,
       fsVars, memVars, Statuses, Channels, Candidate
  <1>21. QED
    BY <1>1, <1>2, <1>3, <1>4, <1>5, <1>6, <1>7, <1>8, <1>9, <1>10, <1>11, <1>12, <1>13,
       <1>14, <1>15, <1>16, <1>17, <1>18, <1>19, <1>20 DEF Task, Schedule, Upload, Confirm,
       Execute, Swap

LEMMA TaskOwns ==
  ASSUME Inv, NEW k \in Tasks, Task(k)
  PROVE  Ownership'
  <1>1. CASE ScheduleCheck(k)
    BY <1>1, UpgradeAssumption DEF ScheduleCheck, Goto, Blocks, UploadBlocks, JobBlocks,
       EmptyBlocks, HoldingBlocks, LoadedBlocks, Inv, TypeOK, Ownership, OneOwner, Owns,
       Pending, fsVars, memVars, Candidate
  <1>2. CASE SchedulePrepare(k)
    BY <1>2, UpgradeAssumption DEF SchedulePrepare, Goto, Return, Blocks, UploadBlocks,
       JobBlocks, EmptyBlocks, HoldingBlocks, LoadedBlocks, Inv, TypeOK, Ownership, OneOwner,
       Owns, Pending, fsVars, memVars, Candidate
  <1>3. CASE UploadCheck(k)
    BY <1>3, UpgradeAssumption DEF UploadCheck, Goto, Blocks, UploadBlocks, JobBlocks,
       EmptyBlocks, HoldingBlocks, LoadedBlocks, Inv, TypeOK, Ownership, OneOwner, Owns,
       Pending, fsVars, memVars, Candidate
  <1>4. CASE UploadSave(k)
    BY <1>4, UpgradeAssumption DEF UploadSave, Goto, Return, CreateTemp, Blocks,
       UploadBlocks, JobBlocks, EmptyBlocks, HoldingBlocks, LoadedBlocks, Inv, TypeOK,
       Ownership, OneOwner, Owns, Pending, fsVars, memVars, Candidate
  <1>5. CASE UploadReject(k)
    BY <1>5, ReturnOwns DEF UploadReject, memVars, EmptyBlocks, Inv, TypeOK, Ownership,
       OneOwner, Owns, Pending, UploadBlocks, JobBlocks, HoldingBlocks
  <1>6. CASE UploadOffer(k)
    <2>1. /\ Owns(k, file[k])
          /\ file[k] \in made /\ file[k] # None
          /\ candidate' = [file |-> file[k], version |-> temp[file[k]]]
          /\ candidate' # None => candidate'.file = file[k]
          /\ made' = made
      BY <1>6 DEF UploadOffer, Inv, TypeOK, Ownership, Owns, UploadBlocks, HoldingBlocks
    <2>2. PICK t \in Temps : t = file[k]
      BY <2>1 DEF Inv, TypeOK
    <2>3. \A l \in Tasks : ~Owns(l, t)'
      BY <2>1, <2>2, <1>6, ReturnOwns DEF UploadOffer, Inv, Ownership, OneOwner, Owns,
           UploadBlocks, JobBlocks
    <2>4. OneOwner'
      BY <1>6, <2>1, <2>2, <2>3, ReturnOwns DEF UploadOffer, Inv, TypeOK, Ownership,
           OneOwner, Owns,
         Pending, UploadBlocks, JobBlocks
    <2>5. QED
      BY <1>6, <2>1, <2>4, ReturnOwns DEF UploadOffer, Inv, Ownership, HoldingBlocks,
           EmptyBlocks
  <1>7. CASE ConfirmCheck(k)
    BY <1>7, UpgradeAssumption DEF ConfirmCheck, Goto, Blocks, UploadBlocks, JobBlocks,
       EmptyBlocks, HoldingBlocks, LoadedBlocks, Inv, TypeOK, Ownership, OneOwner, Owns,
       Pending, fsVars, memVars, Candidate
  <1>8. CASE ConfirmTake(k)
    BY <1>8, UpgradeAssumption DEF ConfirmTake, Goto, Return, Blocks, UploadBlocks,
       JobBlocks, EmptyBlocks, HoldingBlocks, LoadedBlocks, Inv, TypeOK, Ownership, OneOwner,
       Owns, Pending, fsVars, memVars, Candidate
  <1>9. CASE ConfirmAdmit(k)
    BY <1>9, UpgradeAssumption DEF ConfirmAdmit, Goto, Blocks, UploadBlocks, JobBlocks,
       EmptyBlocks, HoldingBlocks, LoadedBlocks, Inv, TypeOK, Ownership, OneOwner, Owns,
       Pending, fsVars, memVars, Candidate
  <1>10. CASE JobDownload(k)
    <2>1. CASE Goto(k, "fail") /\ UNCHANGED <<temp, made, file>>
      BY <1>10, <2>1, UpgradeAssumption DEF JobDownload, Goto, memVars, EmptyBlocks, Inv,
         TypeOK, Ownership, OneOwner, Owns, Pending, UploadBlocks, JobBlocks, HoldingBlocks
    <2>2. ASSUME NEW v \in Versions, CreateTemp(k, v), Goto(k, "validate")
          PROVE  Ownership'
      <3>1. PICK t \in Temps \ made : /\ made' = made \cup {t}
                                      /\ file' = [file EXCEPT ![k] = t]
        BY <2>2 DEF CreateTemp
      <3>2. file'[k] = t /\ \A l \in Tasks : l # k => file'[l] = file[l] /\ file[l] # t
        BY <3>1, UpgradeAssumption DEF Inv, TypeOK, Ownership
      <3>3. pc'[k] = "validate" /\ \A l \in Tasks : l # k => pc'[l] = pc[l]
        BY <2>2 DEF Goto, Inv, TypeOK
      <3>4. UNCHANGED <<candidate, goal, up>> /\ pc[k] = "download"
        BY <1>10 DEF JobDownload, memVars
      <3>5. \A l \in Tasks, s \in Temps : Owns(l, s)' => (l = k /\ s = t) \/ (l # k /\ Owns(l, s))
        BY <3>2, <3>3 DEF Owns
      <3>6. ~Pending(t)
        BY UpgradeAssumption DEF Pending, Inv, Ownership
      <3>7. OneOwner'
        BY <3>2, <3>4, <3>5, <3>6 DEF Inv, Ownership, OneOwner, Pending, Owns
      <3>8. QED
        BY <3>1, <3>2, <3>3, <3>4, <3>7, UpgradeAssumption DEF Inv, Ownership,
             HoldingBlocks, EmptyBlocks
    <2>3. QED
      BY <1>10, <2>1, <2>2 DEF JobDownload
  <1>11. CASE JobValidate(k)
    BY <1>11, UpgradeAssumption DEF JobValidate, Goto, Remove, ReadyToUpgrade, Blocks,
       UploadBlocks, JobBlocks, EmptyBlocks, HoldingBlocks, LoadedBlocks, Inv, TypeOK,
       Ownership, OneOwner, Owns, Pending, fsVars, memVars, Candidate
  <1>12. CASE JobMark(k)
    BY <1>12, UpgradeAssumption DEF JobMark, Goto, Blocks, UploadBlocks, JobBlocks,
       EmptyBlocks, HoldingBlocks, LoadedBlocks, Inv, TypeOK, Ownership, OneOwner, Owns,
       Pending, fsVars, memVars, Candidate
  <1>13. CASE JobFail(k)
    BY <1>13, ReturnOwns DEF JobFail, EmptyBlocks, Inv, TypeOK, Ownership, OneOwner, Owns,
       Pending, UploadBlocks, JobBlocks, HoldingBlocks
  <1>14. CASE SwapClear(k)
    BY <1>14, UpgradeAssumption DEF SwapClear, Goto, Fault, Blocks, UploadBlocks, JobBlocks,
       EmptyBlocks, HoldingBlocks, LoadedBlocks, Inv, TypeOK, Ownership, OneOwner, Owns,
       Pending, fsVars, memVars, Candidate
  <1>15. CASE SwapBackup(k)
    BY <1>15, UpgradeAssumption DEF SwapBackup, Goto, Fault, Remove, Blocks, UploadBlocks,
       JobBlocks, EmptyBlocks, HoldingBlocks, LoadedBlocks, Inv, TypeOK, Ownership, OneOwner,
       Owns, Pending, fsVars, memVars, Candidate
  <1>16. CASE SwapReplace(k)
    BY <1>16, UpgradeAssumption DEF SwapReplace, Goto, Fault, Remove, Blocks, UploadBlocks,
       JobBlocks, EmptyBlocks, HoldingBlocks, LoadedBlocks, Inv, TypeOK, Ownership, OneOwner,
       Owns, Pending, fsVars, memVars, Candidate
  <1>17. CASE SwapRollback(k)
    BY <1>17, UpgradeAssumption DEF SwapRollback, Goto, Fault, Blocks, UploadBlocks,
       JobBlocks, EmptyBlocks, HoldingBlocks, LoadedBlocks, Inv, TypeOK, Ownership, OneOwner,
       Owns, Pending, fsVars, memVars, Candidate
  <1>18. CASE SwapTidy(k)
    BY <1>18, UpgradeAssumption DEF SwapTidy, Goto, Fault, Blocks, UploadBlocks, JobBlocks,
       EmptyBlocks, HoldingBlocks, LoadedBlocks, Inv, TypeOK, Ownership, OneOwner, Owns,
       Pending, fsVars, memVars, Candidate
  <1>19. CASE SwapExec(k)
    BY <1>19, UpgradeAssumption DEF SwapExec, FreshMemory, Blocks, UploadBlocks, JobBlocks,
       EmptyBlocks, HoldingBlocks, LoadedBlocks, Inv, TypeOK, Ownership, OneOwner, Owns,
       Pending, fsVars, memVars, Candidate
  <1>20. CASE SwapExecFails(k)
    BY <1>20, UpgradeAssumption DEF SwapExecFails, Goto, Fault, Blocks, UploadBlocks,
       JobBlocks, EmptyBlocks, HoldingBlocks, LoadedBlocks, Inv, TypeOK, Ownership, OneOwner,
       Owns, Pending, fsVars, memVars, Candidate
  <1>21. QED
    BY <1>1, <1>2, <1>3, <1>4, <1>5, <1>6, <1>7, <1>8, <1>9, <1>10, <1>11, <1>12, <1>13,
       <1>14, <1>15, <1>16, <1>17, <1>18, <1>19, <1>20 DEF Task, Schedule, Upload, Confirm,
       Execute, Swap

LEMMA TaskForward ==
  ASSUME Inv, NEW k \in Tasks, Task(k)
  PROVE  Forward'
  <1>1. CASE ScheduleCheck(k)
    BY <1>1, UpgradeAssumption DEF ScheduleCheck, Goto, Blocks, UploadBlocks, JobBlocks,
       HoldingBlocks, LoadedBlocks, CheckedBlocks, Inv, TypeOK, Ownership, Forward,
       CandidateReady, OneOwner, Owns, Pending, fsVars, memVars, Candidate
  <1>2. CASE SchedulePrepare(k)
    BY <1>2, UpgradeAssumption DEF SchedulePrepare, Goto, Return, Blocks, UploadBlocks,
       JobBlocks, HoldingBlocks, LoadedBlocks, CheckedBlocks, Inv, TypeOK, Ownership, Forward,
       CandidateReady, OneOwner, Owns, Pending, fsVars, memVars, Candidate
  <1>3. CASE UploadCheck(k)
    BY <1>3, UpgradeAssumption DEF UploadCheck, Goto, Blocks, UploadBlocks, JobBlocks,
       HoldingBlocks, LoadedBlocks, CheckedBlocks, Inv, TypeOK, Ownership, Forward,
       CandidateReady, OneOwner, Owns, Pending, fsVars, memVars, Candidate
  <1>4. CASE UploadSave(k)
    BY <1>4, UpgradeAssumption DEF UploadSave, Goto, Return, CreateTemp, Blocks,
       UploadBlocks, JobBlocks, HoldingBlocks, LoadedBlocks, CheckedBlocks, Inv, TypeOK,
       Ownership, Forward, CandidateReady, OneOwner, Owns, Pending, fsVars, memVars, Candidate
  <1>5. CASE UploadReject(k)
    <2>1. Owns(k, file[k]) /\ file[k] # None
      BY <1>5 DEF UploadReject, Inv, Ownership, Owns, HoldingBlocks, UploadBlocks
    <2>2. QED
      BY <1>5, <2>1, ReturnOwns, RemoveTyped, OwnFileApart
         DEF UploadReject, memVars, Inv, Forward, CandidateReady, LoadedBlocks, CheckedBlocks
  <1>6. CASE UploadOffer(k)
    <2>1. Owns(k, file[k]) /\ file[k] # None /\ file[k] \in Temps
      BY <1>6 DEF UploadOffer, Inv, TypeOK, Ownership, Owns, HoldingBlocks, UploadBlocks
    <2>2. /\ candidate'.file = file[k]
          /\ candidate'.version = temp[file[k]]
          /\ temp[file[k]] > ver
          /\ temp'[file[k]] = temp[file[k]]
      BY <1>6, <2>1, OwnFileApart DEF UploadOffer, ReadyToUpgrade, Inv, TypeOK
    <2>3. CandidateReady'
      BY <1>6, <2>2 DEF UploadOffer, CandidateReady
    <2>4. \A l \in Tasks : l # k /\ pc[l] \in LoadedBlocks => temp'[file[l]] = temp[file[l]]
      <3>1. SUFFICES ASSUME NEW l \in Tasks, l # k, pc[l] \in LoadedBlocks
                     PROVE  temp'[file[l]] = temp[file[l]]
        OBVIOUS
      <3>2. file[l] \in Temps /\ Owns(l, file[l])
        BY <3>1 DEF Inv, TypeOK, Ownership, LoadedBlocks, HoldingBlocks, Owns, UploadBlocks,
           JobBlocks
      <3>3. ~Pending(file[l])
        BY <3>2 DEF Inv, Ownership, OneOwner
      <3>4. QED
        BY <1>6, <3>2, <3>3 DEF UploadOffer, Pending
    <2>5. QED
      BY <1>6, <2>3, <2>4, ReturnOwns DEF UploadOffer, Inv, Forward, LoadedBlocks, CheckedBlocks
  <1>7. CASE ConfirmCheck(k)
    BY <1>7, UpgradeAssumption DEF ConfirmCheck, Goto, Blocks, UploadBlocks, JobBlocks,
       HoldingBlocks, LoadedBlocks, CheckedBlocks, Inv, TypeOK, Ownership, Forward,
       CandidateReady, OneOwner, Owns, Pending, fsVars, memVars, Candidate
  <1>8. CASE ConfirmTake(k)
    BY <1>8, UpgradeAssumption DEF ConfirmTake, Goto, Return, Blocks, UploadBlocks,
       JobBlocks, HoldingBlocks, LoadedBlocks, CheckedBlocks, Inv, TypeOK, Ownership, Forward,
       CandidateReady, OneOwner, Owns, Pending, fsVars, memVars, Candidate
  <1>9. CASE ConfirmAdmit(k)
    BY <1>9, UpgradeAssumption DEF ConfirmAdmit, Goto, Blocks, UploadBlocks, JobBlocks,
       HoldingBlocks, LoadedBlocks, CheckedBlocks, Inv, TypeOK, Ownership, Forward,
       CandidateReady, OneOwner, Owns, Pending, fsVars, memVars, Candidate
  <1>10. CASE JobDownload(k)
    BY <1>10, UpgradeAssumption DEF JobDownload, Goto, CreateTemp, Blocks, UploadBlocks,
       JobBlocks, HoldingBlocks, LoadedBlocks, CheckedBlocks, Inv, TypeOK, Ownership, Forward,
       CandidateReady, OneOwner, Owns, Pending, fsVars, memVars, Candidate
  <1>11. CASE JobValidate(k)
    BY <1>11, UpgradeAssumption DEF JobValidate, Goto, Remove, ReadyToUpgrade, Blocks,
       UploadBlocks, JobBlocks, HoldingBlocks, LoadedBlocks, CheckedBlocks, Inv, TypeOK,
       Ownership, Forward, CandidateReady, OneOwner, Owns, Pending, fsVars, memVars, Candidate
  <1>12. CASE JobMark(k)
    BY <1>12, UpgradeAssumption DEF JobMark, Goto, Blocks, UploadBlocks, JobBlocks,
       HoldingBlocks, LoadedBlocks, CheckedBlocks, Inv, TypeOK, Ownership, Forward,
       CandidateReady, OneOwner, Owns, Pending, fsVars, memVars, Candidate
  <1>13. CASE JobFail(k)
    <2>1. CASE goal[k] = None
      <3>1. Owns(k, file[k]) /\ file[k] # None
        BY <1>13, <2>1 DEF JobFail, Inv, Ownership, Owns, HoldingBlocks, JobBlocks
      <3>2. QED
        BY <1>13, <2>1, <3>1, ReturnOwns, RemoveTyped, OwnFileApart
           DEF JobFail, Inv, Forward, CandidateReady, LoadedBlocks, CheckedBlocks
    <2>2. CASE goal[k] # None
      BY <1>13, <2>2, ReturnOwns
         DEF JobFail, Inv, Forward, CandidateReady, LoadedBlocks, CheckedBlocks
    <2>3. QED
      BY <2>1, <2>2
  <1>14. CASE SwapClear(k)
    BY <1>14, UpgradeAssumption DEF SwapClear, Goto, Fault, Blocks, UploadBlocks, JobBlocks,
       HoldingBlocks, LoadedBlocks, CheckedBlocks, Inv, TypeOK, Ownership, Forward,
       CandidateReady, OneOwner, Owns, Pending, fsVars, memVars, Candidate
  <1>15. CASE SwapBackup(k)
    BY <1>15, UpgradeAssumption DEF SwapBackup, Goto, Fault, Remove, Blocks, UploadBlocks,
       JobBlocks, HoldingBlocks, LoadedBlocks, CheckedBlocks, Inv, TypeOK, Ownership, Forward,
       CandidateReady, OneOwner, Owns, Pending, fsVars, memVars, Candidate
  <1>16. CASE SwapReplace(k)
    <2>1. Owns(k, file[k]) /\ file[k] # None /\ file[k] \in Temps
      BY <1>16 DEF SwapReplace, Inv, TypeOK, Ownership, Owns, HoldingBlocks, JobBlocks
    <2>2. temp[file[k]] > ver /\ temp[file[k]] # None
      BY <1>16 DEF SwapReplace, Inv, Forward, CheckedBlocks, LoadedBlocks
    <2>3. /\ \A l \in Tasks : l # k => pc'[l] = pc[l]
          /\ pc'[k] \in {"tidy", "rollback"}
          /\ UNCHANGED <<ver, bak, candidate, file>>
      BY <1>16 DEF SwapReplace, Goto, Inv, TypeOK, memVars
    <2>4. CASE exe' = temp[file[k]] /\ Remove(file[k])
      <3>1. temp[file[k]] \in Nat /\ ver \in Nat
        BY <2>1, <2>2, UpgradeAssumption DEF Inv, TypeOK
      <3>2. exe' >= ver'
        BY <2>2, <2>3, <2>4, <3>1
      <3>3. CandidateReady'
        BY <2>1, <2>3, <2>4, OwnFileApart, RemoveTyped DEF Inv, Forward, CandidateReady
      <3>4. \A l \in Tasks : pc'[l] \in LoadedBlocks => l # k /\ temp'[file[l]] = temp[file[l]]
        BY <2>1, <2>3, <2>4, OwnFileApart, RemoveTyped DEF Inv, LoadedBlocks
      <3>5. \A l \in Tasks : pc'[l] \in {"replace", "rollback"} /\ bak' # None => bak' >= ver'
        BY <1>16, <2>3 DEF SwapReplace, Inv, Forward
      <3>6. QED
        BY <2>3, <3>2, <3>3, <3>4, <3>5 DEF Inv, Forward, LoadedBlocks, CheckedBlocks
    <2>5. CASE UNCHANGED <<exe, temp>>
      BY <1>16, <2>3, <2>5 DEF SwapReplace, Inv, Forward, CandidateReady, LoadedBlocks,
           CheckedBlocks
    <2>6. QED
      BY <1>16, <2>4, <2>5 DEF SwapReplace
  <1>17. CASE SwapRollback(k)
    BY <1>17, UpgradeAssumption DEF SwapRollback, Goto, Fault, Blocks, UploadBlocks,
       JobBlocks, HoldingBlocks, LoadedBlocks, CheckedBlocks, Inv, TypeOK, Ownership, Forward,
       CandidateReady, OneOwner, Owns, Pending, fsVars, memVars, Candidate
  <1>18. CASE SwapTidy(k)
    BY <1>18, UpgradeAssumption DEF SwapTidy, Goto, Fault, Blocks, UploadBlocks, JobBlocks,
       HoldingBlocks, LoadedBlocks, CheckedBlocks, Inv, TypeOK, Ownership, Forward,
       CandidateReady, OneOwner, Owns, Pending, fsVars, memVars, Candidate
  <1>19. CASE SwapExec(k)
    BY <1>19, UpgradeAssumption DEF SwapExec, FreshMemory, Blocks, UploadBlocks, JobBlocks,
       HoldingBlocks, LoadedBlocks, CheckedBlocks, Inv, TypeOK, Ownership, Forward,
       CandidateReady, OneOwner, Owns, Pending, fsVars, memVars, Candidate
  <1>20. CASE SwapExecFails(k)
    BY <1>20, UpgradeAssumption DEF SwapExecFails, Goto, Fault, Blocks, UploadBlocks,
       JobBlocks, HoldingBlocks, LoadedBlocks, CheckedBlocks, Inv, TypeOK, Ownership, Forward,
       CandidateReady, OneOwner, Owns, Pending, fsVars, memVars, Candidate
  <1>21. QED
    BY <1>1, <1>2, <1>3, <1>4, <1>5, <1>6, <1>7, <1>8, <1>9, <1>10, <1>11, <1>12, <1>13,
       <1>14, <1>15, <1>16, <1>17, <1>18, <1>19, <1>20 DEF Task, Schedule, Upload, Confirm,
       Execute, Swap

LEMMA InitInv == Init => Inv
  <1>1. SUFFICES ASSUME Init PROVE Inv
    OBVIOUS
  <1>2. TypeOK
    BY <1>1 DEF Init, TypeOK, Statuses, Channels, Blocks
  <1>3. Ownership
    BY <1>1 DEF Init, Ownership, OneOwner, Owns, Pending, UploadBlocks, JobBlocks,
       HoldingBlocks, EmptyBlocks
  <1>4. Forward
    BY <1>1, UpgradeAssumption DEF Init, Forward, CandidateReady, LoadedBlocks, CheckedBlocks
  <1>5. QED
    BY <1>2, <1>3, <1>4 DEF Inv

LEMMA StepInv == Inv /\ [Next]_vars => Inv'
  <1>1. SUFFICES ASSUME Inv, [Next]_vars
                 PROVE  Inv'
    OBVIOUS
  <1>2. CASE \E k \in Tasks : Task(k)
    BY <1>1, <1>2, TaskTyped, TaskOwns, TaskForward DEF Inv
  <1>3. CASE Die
    <2>1. TypeOK'
      <3>1. /\ UNCHANGED <<ver, exe, bak, temp, made>>
            /\ faults' = faults + 1
            /\ status' = "idle" /\ candidate' = None
        BY <1>3 DEF Die, FreshMemory, Fault, fsVars
      <3>2. /\ pc' \in [Tasks -> Blocks]
            /\ channel' \in [Tasks -> Channels]
            /\ goal' \in [Tasks -> Versions \cup {None}]
            /\ file' \in [Tasks -> Temps \cup {None}]
        BY <1>3 DEF Die, FreshMemory, Blocks, Channels
      <3>3. up' \in BOOLEAN /\ inProgress' \in BOOLEAN
        BY <1>3, Zenon DEF Die, FreshMemory
      <3>4. QED
        BY <1>1, <3>1, <3>2, <3>3 DEF Inv, TypeOK, Statuses
    <2>2. Ownership'
      BY <1>1, <1>3 DEF Die, FreshMemory, Ownership, OneOwner, Owns, Pending, UploadBlocks,
         JobBlocks, HoldingBlocks, EmptyBlocks
    <2>3. Forward'
      BY <1>1, <1>3 DEF Die, FreshMemory, fsVars, Inv, Forward, CandidateReady, LoadedBlocks,
         CheckedBlocks
    <2>4. QED
      BY <2>1, <2>2, <2>3 DEF Inv
  <1>4. CASE Boot
    <2>1. TypeOK' /\ Ownership'
      BY <1>1, <1>4, UpgradeAssumption DEF Boot, fsVars, memVars, taskVars, Inv, TypeOK,
         Ownership, OneOwner, Owns, Pending
    <2>2. /\ candidate' = None
          /\ \A k \in Tasks : pc'[k] = "idle"
          /\ exe' = ver' /\ ver' \in Nat
      BY <1>1, <1>4, UpgradeAssumption DEF Boot, fsVars, memVars, taskVars, Inv, TypeOK,
           Ownership
    <2>3. Forward'
      BY <2>2 DEF Forward, CandidateReady, LoadedBlocks, CheckedBlocks
    <2>4. QED
      BY <2>1, <2>3 DEF Inv
  <1>5. CASE UNCHANGED vars
    BY <1>1, <1>5 DEF vars, fsVars, memVars, taskVars, Inv, TypeOK, Ownership, Forward,
         OneOwner,
       Owns, Pending, CandidateReady
  <1>6. QED
    BY <1>1, <1>2, <1>3, <1>4, <1>5 DEF Next

\* Files keep one owner and nothing old gets near the executable's path, always.
THEOREM AlwaysInv == Spec => []Inv
  BY InitInv, StepInv, PTL DEF Spec

-----------------------------------------------------------------------------
(* Theorems *)

\* Type correctness of the upgrade state, the files and the tasks (update.go:36-52).
THEOREM TypeCorrect == Spec => []TypeOK
  BY AlwaysInv, PTL DEF Inv

\* One token starts one upgrade, for any number of overlapping requests.
THEOREM OwnersDistinct == Spec => []OneOwner
  BY AlwaysInv, PTL DEF Inv, Ownership

\* A pending candidate is on disk and newer, for any number of overlapping requests.
THEOREM CandidateAlwaysReady == Spec => []CandidateReady
  BY AlwaysInv, PTL DEF Inv, Forward

\* The server never goes back to an older version, whatever fails or overlaps.
THEOREM NeverDowngrades == Spec => NeverDowngrade
  <1>1. Inv /\ [Next]_vars => [ver' >= ver]_vars
    <2>1. SUFFICES ASSUME Inv, [Next]_vars
                   PROVE  [ver' >= ver]_vars
      OBVIOUS
    <2>2. ver \in Nat /\ (exe # None => exe >= ver)
      BY <2>1, UpgradeAssumption DEF Inv, TypeOK, Forward
    <2>3. ver' = ver \/ (exe # None /\ ver' = exe)
      <3>1. CASE \E k \in Tasks : Task(k)
        BY <3>1 DEF Task, Schedule, Upload, Confirm, Execute, Swap, ScheduleCheck,
           SchedulePrepare, UploadCheck, UploadSave, UploadReject, UploadOffer, ConfirmCheck,
           ConfirmTake, ConfirmAdmit, JobDownload, JobValidate, JobMark, JobFail, SwapClear,
           SwapBackup, SwapReplace, SwapRollback, SwapTidy, SwapExec, SwapExecFails
      <3>2. CASE Die \/ Boot \/ UNCHANGED vars
        BY <3>2 DEF Die, Boot, vars
      <3>3. QED
        BY <2>1, <3>1, <3>2 DEF Next
    <2>4. QED
      BY <2>2, <2>3
  <1>2. QED
    BY <1>1, AlwaysInv, PTL DEF Spec, NeverDowngrade

LEMMA TaskAccounts ==
  ASSUME Inv, NEW k \in Tasks, Task(k),
         NEW t \in Temps, Accounted(t), ~Accounted(t)', temp'[t] # None
  PROVE  \/ ProcessEnds
         \/ \E l \in Tasks : Owns(l, t) /\ pc[l] = "fail" /\ goal[l] # None
  <1>1. CASE ScheduleCheck(k)
    BY <1>1, UpgradeAssumption DEF ScheduleCheck, Goto, Accounted, Owns, Pending, Inv,
       TypeOK, UploadBlocks, JobBlocks, fsVars, memVars
  <1>2. CASE SchedulePrepare(k)
    BY <1>2, UpgradeAssumption DEF SchedulePrepare, Goto, Return, Accounted, Owns, Pending,
       Inv, TypeOK, UploadBlocks, JobBlocks, fsVars, memVars
  <1>3. CASE UploadCheck(k)
    BY <1>3, UpgradeAssumption DEF UploadCheck, Goto, Accounted, Owns, Pending, Inv, TypeOK,
       UploadBlocks, JobBlocks, fsVars, memVars
  <1>4. CASE UploadSave(k)
    BY <1>4, ReturnOwns DEF UploadSave, CreateTemp, Goto, Ownership, EmptyBlocks,
         Accounted, Owns, Pending, Inv, TypeOK, UploadBlocks, JobBlocks, fsVars, memVars
  <1>5. CASE UploadReject(k)
    BY <1>5, ReturnOwns, RemoveTyped DEF UploadReject, Accounted, Owns, Pending, Inv,
         TypeOK, UploadBlocks, JobBlocks, fsVars, memVars
  <1>6. CASE UploadOffer(k)
    <2>1. \A l \in Tasks : l # k => ~Owns(l, t)
      BY <1>6, ReturnOwns DEF UploadOffer, Accounted, Owns, Inv
    <2>2. candidate' \in Candidate
      BY <1>6, TaskTyped, UpgradeAssumption DEF UploadOffer, Inv, TypeOK, Ownership, Forward,
         HoldingBlocks, LoadedBlocks, Candidate
    <2>3. ~Owns(k, t)
      BY <1>6, <2>2, UpgradeAssumption DEF UploadOffer, Accounted, Pending, Owns
    <2>4. ~Pending(t)
      BY <1>6 DEF UploadOffer, Pending
    <2>5. QED
      BY <2>1, <2>3, <2>4 DEF Accounted
  <1>7. CASE ConfirmCheck(k)
    BY <1>7, UpgradeAssumption DEF ConfirmCheck, Goto, Accounted, Owns, Pending, Inv,
       TypeOK, UploadBlocks, JobBlocks, fsVars, memVars
  <1>8. CASE ConfirmTake(k)
    BY <1>8, UpgradeAssumption DEF ConfirmTake, Goto, Return, Accounted, Owns, Pending, Inv,
       TypeOK, UploadBlocks, JobBlocks, fsVars, memVars
  <1>9. CASE ConfirmAdmit(k)
    BY <1>9, UpgradeAssumption DEF ConfirmAdmit, Goto, Accounted, Owns, Pending, Inv,
       TypeOK, UploadBlocks, JobBlocks, fsVars, memVars
  <1>10. CASE JobDownload(k)
    BY <1>10 DEF JobDownload, CreateTemp, Goto, Ownership, EmptyBlocks, Accounted, Owns,
         Pending, Inv, TypeOK, UploadBlocks, JobBlocks, fsVars, memVars
  <1>11. CASE JobValidate(k)
    BY <1>11, UpgradeAssumption DEF JobValidate, Goto, Remove, ReadyToUpgrade, Accounted,
       Owns, Pending, Inv, TypeOK, UploadBlocks, JobBlocks, fsVars, memVars
  <1>12. CASE JobMark(k)
    BY <1>12, UpgradeAssumption DEF JobMark, Goto, Accounted, Owns, Pending, Inv, TypeOK,
       UploadBlocks, JobBlocks, fsVars, memVars
  <1>13. CASE JobFail(k)
    <2>1. \A l \in Tasks : l # k => ~Owns(l, t)
      BY <1>13, ReturnOwns DEF JobFail, Accounted, Owns, Inv
    <2>2. ~Pending(t)
      BY <1>13 DEF JobFail, Accounted, Pending
    <2>3. Owns(k, t)
      BY <2>1, <2>2 DEF Accounted
    <2>4. goal[k] # None
      BY <1>13, <2>3, RemoveTyped DEF JobFail, Owns, Inv
    <2>5. QED
      BY <1>13, <2>3, <2>4 DEF JobFail
  <1>14. CASE SwapClear(k)
    BY <1>14, UpgradeAssumption DEF SwapClear, Goto, Fault, Accounted, Owns, Pending, Inv,
       TypeOK, UploadBlocks, JobBlocks, fsVars, memVars
  <1>15. CASE SwapBackup(k)
    BY <1>15, UpgradeAssumption DEF SwapBackup, Goto, Fault, Remove, Accounted, Owns,
       Pending, Inv, TypeOK, UploadBlocks, JobBlocks, fsVars, memVars
  <1>16. CASE SwapReplace(k)
    BY <1>16, UpgradeAssumption DEF SwapReplace, Goto, Fault, Remove, Accounted, Owns,
       Pending, Inv, TypeOK, UploadBlocks, JobBlocks, fsVars, memVars
  <1>17. CASE SwapRollback(k)
    BY <1>17, UpgradeAssumption DEF SwapRollback, Goto, Fault, Accounted, Owns, Pending,
       Inv, TypeOK, UploadBlocks, JobBlocks, fsVars, memVars
  <1>18. CASE SwapTidy(k)
    BY <1>18, UpgradeAssumption DEF SwapTidy, Goto, Fault, Accounted, Owns, Pending, Inv,
       TypeOK, UploadBlocks, JobBlocks, fsVars, memVars
  <1>19. CASE SwapExec(k)
    BY <1>19 DEF SwapExec, FreshMemory, ProcessEnds
  <1>20. CASE SwapExecFails(k)
    BY <1>20, UpgradeAssumption DEF SwapExecFails, Goto, Fault, Accounted, Owns, Pending,
       Inv, TypeOK, UploadBlocks, JobBlocks, fsVars, memVars
  <1>21. QED
    BY <1>1, <1>2, <1>3, <1>4, <1>5, <1>6, <1>7, <1>8, <1>9, <1>10, <1>11, <1>12, <1>13,
       <1>14, <1>15, <1>16, <1>17, <1>18, <1>19, <1>20 DEF Task, Schedule, Upload, Confirm,
       Execute, Swap

LEMMA StepAccounts ==
  ASSUME Inv, [Next]_vars, NEW t \in Temps, Accounted(t), ~Accounted(t)', temp'[t] # None
  PROVE  \/ ProcessEnds
         \/ \E l \in Tasks : Owns(l, t) /\ pc[l] = "fail" /\ goal[l] # None
  <1>1. CASE \E k \in Tasks : Task(k)
    BY <1>1, TaskAccounts
  <1>2. CASE Die
    BY <1>2 DEF Die, ProcessEnds
  <1>3. CASE Boot \/ UNCHANGED vars
    BY <1>3 DEF Boot, vars, memVars, taskVars, Accounted, Owns, Pending
  <1>4. QED
    BY <1>1, <1>2, <1>3 DEF Next

\* A temporary file is only ever left behind by the end of the process or by a failed
\* automatic swap.
THEOREM TempsAlwaysAccounted == Spec => TempsAccounted
  <1>1. Inv /\ [Next]_vars =>
          [\A t \in Temps :
             /\ Accounted(t)
             /\ ~Accounted(t)'
             /\ temp'[t] # None
             => ProcessEnds \/ \E k \in Tasks : Owns(k, t) /\ pc[k] = "fail" /\ goal[k] # None]_vars
    BY StepAccounts
  <1>2. QED
    BY <1>1, AlwaysInv, PTL DEF Spec, TempsAccounted

-----------------------------------------------------------------------------
(* One upgrade at a time and at most one failure *)

OneTask == \A k, l \in Tasks : k = l

\* The executable is away only while its backup is there: during the swap, during the
\* rollback of a swap that spent the one failure, or after the process died in between.
Recovery ==
  /\ faults <= MaxFaults
  /\ \A k \in Tasks : pc[k] = "rollback" => faults > 0
  /\ exe = None => /\ bak # None
                   /\ ~up \/ \E k \in Tasks : pc[k] \in {"replace", "rollback"}

LEMMA TaskRecovers ==
  ASSUME OneTask, MaxFaults <= 1, Inv, Recovery, NEW k \in Tasks, Task(k)
  PROVE  Recovery'
  <1>1. CASE ScheduleCheck(k)
    BY <1>1, UpgradeAssumption DEF ScheduleCheck, Goto, OneTask, Recovery, Ownership, Inv,
       TypeOK, fsVars, memVars
  <1>2. CASE SchedulePrepare(k)
    BY <1>2, UpgradeAssumption DEF SchedulePrepare, Goto, Return, OneTask, Recovery,
       Ownership, Inv, TypeOK, fsVars, memVars
  <1>3. CASE UploadCheck(k)
    BY <1>3, UpgradeAssumption DEF UploadCheck, Goto, OneTask, Recovery, Ownership, Inv,
       TypeOK, fsVars, memVars
  <1>4. CASE UploadSave(k)
    BY <1>4, UpgradeAssumption DEF UploadSave, Goto, Return, CreateTemp, OneTask, Recovery,
       Ownership, Inv, TypeOK, fsVars, memVars
  <1>5. CASE UploadReject(k)
    BY <1>5, ReturnOwns DEF UploadReject, OneTask, Recovery, Inv, Ownership, fsVars, memVars
  <1>6. CASE UploadOffer(k)
    BY <1>6, ReturnOwns DEF UploadOffer, OneTask, Recovery, Inv, Ownership, fsVars, memVars
  <1>7. CASE ConfirmCheck(k)
    BY <1>7, UpgradeAssumption DEF ConfirmCheck, Goto, OneTask, Recovery, Ownership, Inv,
       TypeOK, fsVars, memVars
  <1>8. CASE ConfirmTake(k)
    BY <1>8, UpgradeAssumption DEF ConfirmTake, Goto, Return, OneTask, Recovery, Ownership,
       Inv, TypeOK, fsVars, memVars
  <1>9. CASE ConfirmAdmit(k)
    BY <1>9, UpgradeAssumption DEF ConfirmAdmit, Goto, OneTask, Recovery, Ownership, Inv,
       TypeOK, fsVars, memVars
  <1>10. CASE JobDownload(k)
    BY <1>10, UpgradeAssumption DEF JobDownload, Goto, CreateTemp, OneTask, Recovery,
       Ownership, Inv, TypeOK, fsVars, memVars
  <1>11. CASE JobValidate(k)
    BY <1>11, UpgradeAssumption DEF JobValidate, Goto, Remove, ReadyToUpgrade, OneTask,
       Recovery, Ownership, Inv, TypeOK, fsVars, memVars
  <1>12. CASE JobMark(k)
    BY <1>12, UpgradeAssumption DEF JobMark, Goto, OneTask, Recovery, Ownership, Inv, TypeOK,
       fsVars, memVars
  <1>13. CASE JobFail(k)
    BY <1>13, ReturnOwns DEF JobFail, OneTask, Recovery, Inv, Ownership, fsVars, memVars
  <1>14. CASE SwapClear(k)
    BY <1>14, UpgradeAssumption DEF SwapClear, Goto, Fault, OneTask, Recovery, Ownership, Inv,
       TypeOK, fsVars, memVars
  <1>15. CASE SwapBackup(k)
    BY <1>15, UpgradeAssumption DEF SwapBackup, Goto, Fault, Remove, OneTask, Recovery,
       Ownership, Inv, TypeOK, fsVars, memVars
  <1>16. CASE SwapReplace(k)
    <2>1. temp[file[k]] # None /\ file[k] \in Temps
      BY <1>16 DEF SwapReplace, Inv, TypeOK, Ownership, Forward, HoldingBlocks, LoadedBlocks
    <2>2. CASE exe' = temp[file[k]] /\ Goto(k, "tidy") /\ UNCHANGED faults
      BY <1>16, <2>1, <2>2 DEF SwapReplace, Goto, OneTask, Recovery, Inv, TypeOK, memVars
    <2>3. CASE Fault /\ Goto(k, "rollback") /\ UNCHANGED <<exe, temp>>
      BY <1>16, <2>1, <2>3, UpgradeAssumption DEF SwapReplace, Goto, Fault, OneTask,
           Recovery, Inv, TypeOK
    <2>4. QED
      BY <1>16, <2>1, <2>2, <2>3 DEF SwapReplace
  <1>17. CASE SwapRollback(k)
    BY <1>17, UpgradeAssumption DEF SwapRollback, Goto, Fault, OneTask, Recovery, Ownership,
       Inv, TypeOK, fsVars, memVars
  <1>18. CASE SwapTidy(k)
    BY <1>18, UpgradeAssumption DEF SwapTidy, Goto, Fault, OneTask, Recovery, Ownership, Inv,
       TypeOK, fsVars, memVars
  <1>19. CASE SwapExec(k)
    BY <1>19, UpgradeAssumption DEF SwapExec, FreshMemory, OneTask, Recovery, Ownership, Inv,
       TypeOK, fsVars, memVars
  <1>20. CASE SwapExecFails(k)
    BY <1>20, UpgradeAssumption DEF SwapExecFails, Goto, Fault, OneTask, Recovery, Ownership,
       Inv, TypeOK, fsVars, memVars
  <1>21. QED
    BY <1>1, <1>2, <1>3, <1>4, <1>5, <1>6, <1>7, <1>8, <1>9, <1>10, <1>11, <1>12, <1>13,
       <1>14, <1>15, <1>16, <1>17, <1>18, <1>19, <1>20 DEF Task, Schedule, Upload, Confirm,
       Execute, Swap

LEMMA StepRecovers ==
  ASSUME OneTask, MaxFaults <= 1, Inv, Recovery, [Next]_vars
  PROVE  Recovery'
  <1>1. CASE \E k \in Tasks : Task(k)
    BY <1>1, TaskRecovers
  <1>2. CASE Die
    BY <1>2, UpgradeAssumption DEF Die, FreshMemory, Fault, fsVars, Recovery, Inv, TypeOK
  <1>3. CASE Boot \/ UNCHANGED vars
    BY <1>3 DEF Boot, vars, fsVars, memVars, taskVars, Recovery
  <1>4. QED
    BY <1>1, <1>2, <1>3 DEF Next

\* One upgrade at a time and at most one failure never lose the program, and a process
\* that is done with its upgrades has it in its place.
THEOREM AlwaysRecoverable ==
  ASSUME OneTask, MaxFaults <= 1
  PROVE  Spec => []Recoverable
  <1>1. Init => Recovery
    BY UpgradeAssumption DEF Init, Recovery
  <1>2. Inv /\ Recovery /\ [Next]_vars => Recovery'
    BY StepRecovers
  <1>3. Recovery => Recoverable
    BY DEF Recovery, Recoverable
  <1>4. QED
    BY <1>1, <1>2, <1>3, AlwaysInv, PTL DEF Spec
=============================================================================
