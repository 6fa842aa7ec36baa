---------------------------- MODULE ServerUpgrade ----------------------------
(***************************************************************************)
(* The self-upgrade of the PoolX server (internal/service/update.go and      *)
(* update_restart_unix.go).  An automatic upgrade is scheduled, downloads a  *)
(* release, checks it and swaps the executable; a manual one swaps in a      *)
(* binary that was uploaded and then confirmed with its token.  Handlers and *)
(* the upgrade goroutines share serverUpgradeState and                       *)
(* manualServerBinaryState, each under its own mutex, and the directory of   *)
(* the executable.                                                           *)
(*                                                                           *)
(* A task is one request and the goroutine it starts; its pc names the next  *)
(* block.  Steps that touch nothing shared (GitHub and download requests,    *)
(* running a temporary file with --version) are merged with the step after   *)
(* them.  Temporary files are created beside the executable, so renaming     *)
(* them never crosses a device and replaceFileUnix's copy is out of reach.   *)
(***************************************************************************)
EXTENDS Naturals

CONSTANTS
  Tasks,      \* concurrent upgrade requests with their goroutines
  Temps,      \* temporary files that may ever be created (a bound; names are unique)
  Versions,   \* released versions, ordered by isVersionNewer
  None,       \* no file, no candidate
  MaxFaults   \* bound on failed file operations and deaths of the process

Candidate == [file : Temps, version : Versions]

ASSUME UpgradeAssumption ==
  /\ Versions \subseteq Nat
  /\ None \notin Versions \cup Temps \cup Candidate
  /\ MaxFaults \in Nat

VARIABLES
  ver,         \* common.Version of the running process
  up,          \* the process runs
  exe,         \* the version found at the executable's path, None if there is no file
  bak,         \* the same for <executable>.bak
  temp,        \* temp[t]: the version in temporary file t, None if there is no file
  made,        \* the temporary files ever created
  inProgress,  \* serverUpgradeState.inProgress
  status,      \* serverUpgradeState.status, "idle" for the empty one
  candidate,   \* manualServerBinaryState.candidate; its token is named by its file
  pc,          \* pc[k]: the block that task k runs next
  channel,     \* channel[k]: the release channel task k asked for
  goal,        \* goal[k]: the release an automatic upgrade downloads, else None
  file,        \* file[k]: the temporary file, or the token, that task k holds
  faults       \* failures so far

fsVars   == <<exe, bak, temp, made>>
memVars  == <<inProgress, status, candidate>>
taskVars == <<pc, channel, goal, file>>
vars     == <<ver, up, fsVars, memVars, taskVars, faults>>

Statuses  == {"idle", "running", "failed", "succeeded"}
Channels  == {"stable", "preview"}

\* The blocks in which a task owns the temporary file it holds.
UploadBlocks == {"inspect"}
JobBlocks    == {"admit", "validate", "mark", "clear", "backup", "replace", "rollback",
                 "tidy", "exec", "fail"}
Blocks       == UploadBlocks \cup JobBlocks \cup {"idle", "prepare", "download", "save", "take"}

Init ==
  /\ ver \in Versions
  /\ up = TRUE
  /\ exe = ver
  /\ bak = None
  /\ temp = [t \in Temps |-> None]
  /\ made = {}
  /\ inProgress = FALSE
  /\ status = "idle"
  /\ candidate = None
  /\ pc = [k \in Tasks |-> "idle"]
  /\ channel = [k \in Tasks |-> "stable"]
  /\ goal = [k \in Tasks |-> None]
  /\ file = [k \in Tasks |-> None]
  /\ faults = 0

Goto(k, block) == pc' = [pc EXCEPT ![k] = block]

Return(k) ==
  /\ Goto(k, "idle")
  /\ channel' = [channel EXCEPT ![k] = "stable"]
  /\ goal' = [goal EXCEPT ![k] = None]
  /\ file' = [file EXCEPT ![k] = None]

Fault == faults < MaxFaults /\ faults' = faults + 1

Remove(t) == temp' = [temp EXCEPT ![t] = None]

\* os.CreateTemp and the copy into it.
CreateTemp(k, v) == \E t \in Temps \ made :
  /\ made' = made \cup {t}
  /\ temp' = [temp EXCEPT ![t] = v]
  /\ file' = [file EXCEPT ![k] = t]

\* The memory of a process that has just begun.
FreshMemory ==
  /\ inProgress' = FALSE
  /\ status' = "idle"
  /\ candidate' = None
  /\ pc' = [k \in Tasks |-> "idle"]
  /\ channel' = [k \in Tasks |-> "stable"]
  /\ goal' = [k \in Tasks |-> None]
  /\ file' = [k \in Tasks |-> None]

\* Mutant: an uploaded or downloaded binary may be as old as the running one.
ReadyToUpgrade_SameOrNewer(v) == v >= ver
\* Mutant: the version is not compared at all.
ReadyToUpgrade_Any(v) == TRUE
\* buildUploadedServerBinaryView: the binary is newer than the process that runs.
ReadyToUpgrade(v) == v > ver

-----------------------------------------------------------------------------
(* ScheduleServerUpgrade *)

\* The check and the new status share one critical section; inProgress is set later.
ScheduleCheck(k) ==
  /\ up
  /\ pc[k] = "idle"
  /\ ~inProgress
  /\ status' = "running"
  /\ \E ch \in Channels : channel' = [channel EXCEPT ![k] = ch]
  /\ Goto(k, "prepare")
  /\ UNCHANGED <<ver, up, fsVars, inProgress, candidate, goal, file, faults>>

\* prepareServerUpgrade: the preview channel skips the version comparison.  It fails
\* without a newer release, an asset, the network or a writable directory.
SchedulePrepare(k) ==
  /\ pc[k] = "prepare"
  /\ \/ \E v \in Versions :
          /\ channel[k] = "preview" \/ v > ver
          /\ goal' = [goal EXCEPT ![k] = v]
          /\ inProgress' = TRUE
          /\ Goto(k, "download")
          /\ UNCHANGED <<status, channel, file>>
     \/ /\ status' = "failed"
        /\ Return(k)
        /\ UNCHANGED inProgress
  /\ UNCHANGED <<ver, up, fsVars, candidate, faults>>

\* The download ends in a temporary file of whatever version; it fails within two
\* minutes, and a file that does not run as a program is removed again.
JobDownload(k) ==
  /\ pc[k] = "download"
  /\ \/ /\ \E v \in Versions : CreateTemp(k, v)
        /\ Goto(k, "validate")
     \/ Goto(k, "fail") /\ UNCHANGED <<temp, made, file>>
  /\ UNCHANGED <<ver, up, exe, bak, memVars, channel, goal, faults>>

\* persistDownloadedServerBinary: the binary must report the release's version and be
\* newer than the process, whatever the channel; otherwise it is removed.
JobValidate(k) ==
  /\ pc[k] = "validate"
  /\ \/ /\ temp[file[k]] = goal[k]
        /\ ReadyToUpgrade(goal[k])
        /\ Goto(k, "mark")
        /\ UNCHANGED temp
     \/ /\ temp[file[k]] # goal[k] \/ ~ReadyToUpgrade(goal[k])
        /\ Remove(file[k])
        /\ Goto(k, "fail")
  /\ UNCHANGED <<ver, up, exe, bak, made, memVars, channel, goal, file, faults>>

-----------------------------------------------------------------------------
(* UploadManualServerBinary and ConfirmManualServerUpgrade *)

UploadCheck(k) ==
  /\ up
  /\ pc[k] = "idle"
  /\ ~inProgress
  /\ Goto(k, "save")
  /\ UNCHANGED <<ver, up, fsVars, memVars, channel, goal, file, faults>>

UploadSave(k) ==
  /\ pc[k] = "save"
  /\ \/ /\ \E v \in Versions : CreateTemp(k, v)
        /\ Goto(k, "inspect")
        /\ UNCHANGED <<channel, goal>>
     \/ Return(k) /\ UNCHANGED <<temp, made>>
  /\ UNCHANGED <<ver, up, exe, bak, memVars, faults>>

\* A binary that does not run, or is not newer, is removed.
UploadReject(k) ==
  /\ pc[k] = "inspect"
  /\ Remove(file[k])
  /\ Return(k)
  /\ UNCHANGED <<ver, up, exe, bak, made, memVars, faults>>

\* Mutant: the candidate it replaces keeps its file.
UploadOffer_KeepsOld(k) ==
  /\ pc[k] = "inspect"
  /\ ReadyToUpgrade(temp[file[k]])
  /\ candidate' = [file |-> file[k], version |-> temp[file[k]]]
  /\ Return(k)
  /\ UNCHANGED <<ver, up, fsVars, inProgress, status, faults>>

\* The new candidate replaces the previous one, whose file is removed.
UploadOffer(k) ==
  /\ pc[k] = "inspect"
  /\ ReadyToUpgrade(temp[file[k]])
  /\ temp' = [t \in Temps |->
                IF candidate # None /\ t = candidate.file THEN None ELSE temp[t]]
  /\ candidate' = [file |-> file[k], version |-> temp[file[k]]]
  /\ Return(k)
  /\ UNCHANGED <<ver, up, exe, bak, made, inProgress, status, faults>>

\* The request carries some upload's token; it holds no file yet.
ConfirmCheck(k) ==
  /\ up
  /\ pc[k] = "idle"
  /\ ~inProgress
  /\ \E t \in made : file' = [file EXCEPT ![k] = t]
  /\ Goto(k, "take")
  /\ UNCHANGED <<ver, up, fsVars, memVars, channel, goal, faults>>

\* Mutant: the confirmed candidate stays pending.
ConfirmTake_LeavesIt(k) ==
  /\ pc[k] = "take"
  /\ IF candidate # None /\ candidate.file = file[k]
       THEN Goto(k, "admit") /\ UNCHANGED <<channel, goal, file>>
       ELSE Return(k)
  /\ UNCHANGED <<ver, up, fsVars, memVars, faults>>

\* No candidate, or another token: refused.
ConfirmTake(k) ==
  /\ pc[k] = "take"
  /\ IF candidate # None /\ candidate.file = file[k]
       THEN candidate' = None /\ Goto(k, "admit") /\ UNCHANGED <<channel, goal, file>>
       ELSE Return(k) /\ UNCHANGED candidate
  /\ UNCHANGED <<ver, up, fsVars, inProgress, status, faults>>

\* inProgress is set without looking at it again.  The candidate's versions are those
\* of its upload, so the second readiness check can only agree with the first.
ConfirmAdmit(k) ==
  /\ pc[k] = "admit"
  /\ inProgress' = TRUE
  /\ status' = "running"
  /\ Goto(k, "mark")
  /\ UNCHANGED <<ver, up, fsVars, candidate, channel, goal, file, faults>>

-----------------------------------------------------------------------------
(* executeServerBinaryCandidateUpgrade and replaceAndRestartServer *)

\* markServerUpgradeSucceeded comes before the swap.
JobMark(k) ==
  /\ pc[k] = "mark"
  /\ inProgress' = FALSE
  /\ status' = "succeeded"
  /\ Goto(k, "clear")
  /\ UNCHANGED <<ver, up, fsVars, candidate, channel, goal, file, faults>>

\* `_ = os.Remove(backupPath)`
SwapClear(k) ==
  /\ pc[k] = "clear"
  /\ \/ bak' = None /\ UNCHANGED faults
     \/ Fault /\ UNCHANGED bak
  /\ Goto(k, "backup")
  /\ UNCHANGED <<ver, up, exe, temp, made, memVars, channel, goal, file>>

\* Mutant: the backup is a removal of the executable.
SwapBackup_Deletes(k) ==
  /\ pc[k] = "backup"
  /\ \/ /\ exe # None
        /\ exe' = None
        /\ Goto(k, "replace")
        /\ UNCHANGED <<temp, faults>>
     \/ /\ (exe = None /\ UNCHANGED faults) \/ Fault
        /\ Remove(file[k])
        /\ Goto(k, "fail")
        /\ UNCHANGED exe
  /\ UNCHANGED <<ver, up, bak, made, memVars, channel, goal, file>>

\* rename(executable, backup); a failure removes the temporary file.
SwapBackup(k) ==
  /\ pc[k] = "backup"
  /\ \/ /\ exe # None
        /\ bak' = exe
        /\ exe' = None
        /\ Goto(k, "replace")
        /\ UNCHANGED <<temp, faults>>
     \/ /\ (exe = None /\ UNCHANGED faults) \/ Fault
        /\ Remove(file[k])
        /\ Goto(k, "fail")
        /\ UNCHANGED <<exe, bak>>
  /\ UNCHANGED <<ver, up, made, memVars, channel, goal, file>>

\* rename(temporary file, executable)
SwapReplace(k) ==
  /\ pc[k] = "replace"
  /\ \/ /\ temp[file[k]] # None
        /\ exe' = temp[file[k]]
        /\ Remove(file[k])
        /\ Goto(k, "tidy")
        /\ UNCHANGED faults
     \/ /\ (temp[file[k]] = None /\ UNCHANGED faults) \/ Fault
        /\ Goto(k, "rollback")
        /\ UNCHANGED <<exe, temp>>
  /\ UNCHANGED <<ver, up, bak, made, memVars, channel, goal, file>>

\* `_ = rename(backup, executable)`
SwapRollback(k) ==
  /\ pc[k] = "rollback"
  /\ \/ bak # None /\ exe' = bak /\ bak' = None /\ UNCHANGED faults
     \/ bak = None /\ UNCHANGED <<exe, bak, faults>>
     \/ Fault /\ UNCHANGED <<exe, bak>>
  /\ Goto(k, "fail")
  /\ UNCHANGED <<ver, up, temp, made, memVars, channel, goal, file>>

\* `_ = os.Remove(backupPath)`
SwapTidy(k) ==
  /\ pc[k] = "tidy"
  /\ \/ bak' = None /\ UNCHANGED faults
     \/ Fault /\ UNCHANGED bak
  /\ Goto(k, "exec")
  /\ UNCHANGED <<ver, up, exe, temp, made, memVars, channel, goal, file>>

\* syscall.Exec puts the executable's program in the place of this one.
SwapExec(k) ==
  /\ pc[k] = "exec"
  /\ exe # None
  /\ ver' = exe
  /\ FreshMemory
  /\ UNCHANGED <<up, fsVars, faults>>

SwapExecFails(k) ==
  /\ pc[k] = "exec"
  /\ (exe = None /\ UNCHANGED faults) \/ Fault
  /\ Goto(k, "fail")
  /\ UNCHANGED <<ver, up, fsVars, memVars, channel, goal, file>>

\* Mutant: a status the front end does not know.
JobFail_Misspelt(k) ==
  /\ pc[k] = "fail"
  /\ inProgress' = FALSE
  /\ status' = "error"
  /\ IF goal[k] = None THEN Remove(file[k]) ELSE UNCHANGED temp
  /\ Return(k)
  /\ UNCHANGED <<ver, up, exe, bak, made, candidate, faults>>

\* Mutant: a failed upgrade is not reported unless it was a manual one.
JobFail_AutoSilent(k) ==
  /\ pc[k] = "fail"
  /\ IF goal[k] = None
       THEN inProgress' = FALSE /\ status' = "failed" /\ Remove(file[k])
       ELSE UNCHANGED <<inProgress, status, temp>>
  /\ Return(k)
  /\ UNCHANGED <<ver, up, exe, bak, made, candidate, faults>>

\* recordServerUpgradeFailure; only a manual upgrade removes its temporary file.
JobFail(k) ==
  /\ pc[k] = "fail"
  /\ inProgress' = FALSE
  /\ status' = "failed"
  /\ IF goal[k] = None THEN Remove(file[k]) ELSE UNCHANGED temp
  /\ Return(k)
  /\ UNCHANGED <<ver, up, exe, bak, made, candidate, faults>>

-----------------------------------------------------------------------------
(* The process dies and is started again from its executable *)

Die ==
  /\ up
  /\ Fault
  /\ up' = FALSE
  /\ FreshMemory
  /\ UNCHANGED <<ver, fsVars>>

Boot ==
  /\ ~up
  /\ exe # None
  /\ up' = TRUE
  /\ ver' = exe
  /\ UNCHANGED <<fsVars, memVars, taskVars, faults>>

-----------------------------------------------------------------------------
Schedule(k) == ScheduleCheck(k) \/ SchedulePrepare(k)
Upload(k)   == UploadCheck(k) \/ UploadSave(k) \/ UploadReject(k) \/ UploadOffer(k)
Confirm(k)  == ConfirmCheck(k) \/ ConfirmTake(k) \/ ConfirmAdmit(k)
Execute(k)  == JobDownload(k) \/ JobValidate(k) \/ JobMark(k) \/ JobFail(k)
Swap(k)     == \/ SwapClear(k) \/ SwapBackup(k) \/ SwapReplace(k) \/ SwapRollback(k)
               \/ SwapTidy(k) \/ SwapExec(k) \/ SwapExecFails(k)

Task(k) == Schedule(k) \/ Upload(k) \/ Confirm(k) \/ Execute(k) \/ Swap(k)

Next == (\E k \in Tasks : Task(k)) \/ Die \/ Boot

Spec == Init /\ [][Next]_vars

\* A request or goroutine that has begun goes on: every network call has a timeout.
Fairness == \A k \in Tasks : WF_vars(pc[k] # "idle" /\ Task(k))

FairSpec == Spec /\ Fairness
-----------------------------------------------------------------------------
\* Task k owns temporary file t; a confirmation owns nothing before it has taken the
\* candidate.
Owns(k, t) == file[k] = t /\ pc[k] \in UploadBlocks \cup JobBlocks

Pending(t) == candidate # None /\ candidate.file = t

Accounted(t) == Pending(t) \/ \E k \in Tasks : Owns(k, t)

\* An upgrade from the moment it is admitted until it has failed or replaced the process.
Upgrading(k) == pc[k] \in JobBlocks \cup {"download"}

ProcessEnds == ~up' \/ \E k \in Tasks : pc[k] = "exec" /\ pc'[k] = "idle"

-----------------------------------------------------------------------------
(* Properties *)

\* Every variable stays in its domain; the statuses are those the front end shows.
TypeOK ==
  /\ ver \in Versions
  /\ up \in BOOLEAN
  /\ exe \in Versions \cup {None}
  /\ bak \in Versions \cup {None}
  /\ temp \in [Temps -> Versions \cup {None}]
  /\ made \subseteq Temps
  /\ inProgress \in BOOLEAN
  /\ status \in Statuses
  /\ candidate \in Candidate \cup {None}
  /\ pc \in [Tasks -> Blocks]
  /\ channel \in [Tasks -> Channels]
  /\ goal \in [Tasks -> Versions \cup {None}]
  /\ file \in [Tasks -> Temps \cup {None}]
  /\ faults \in Nat

\* The server never runs an older version than before: not when overlapping upgrades
\* swap the same executable, roll back over each other or die half way
\* (update.go:774-804, 838-848; update_restart_unix.go:14-30).
NeverDowngrade == [][ver' >= ver]_vars

\* While a candidate waits for its confirmation its file is there, unchanged and newer
\* than the server, whatever uploads, confirmations and upgrades go on (update.go:223-264).
CandidateReady ==
  candidate # None => /\ temp[candidate.file] = candidate.version
                      /\ candidate.version > ver

\* One token starts one upgrade: a temporary file belongs to the candidate or to one
\* task, never to two, although check, take and admission are separate (update.go:247-278).
OneOwner ==
  /\ \A k, l \in Tasks : \A t \in Temps : Owns(k, t) /\ Owns(l, t) => k = l
  /\ \A k \in Tasks : \A t \in Temps : ~(Owns(k, t) /\ Pending(t))

\* A temporary file is left behind only when the process ends, or by an automatic
\* upgrade that fails in the swap (update.go:166-171 against 280-287).
TempsAccounted ==
  [][\A t \in Temps :
       /\ Accounted(t)
       /\ ~Accounted(t)'
       /\ temp'[t] # None
       => ProcessEnds \/ \E k \in Tasks : Owns(k, t) /\ pc[k] = "fail" /\ goal[k] # None]_vars

\* One upgrade at a time and one failure: a program to start from is always there, at
\* the executable's path or beside it, whichever step fails or is the last, and a
\* process that is done with its upgrades has it in its place (update_restart_unix.go:16-25).
Recoverable ==
  /\ exe # None \/ bak # None
  /\ up /\ (\A k \in Tasks : pc[k] = "idle") => exe # None

\* An upgrade never stays in progress for ever, so that the next one is not refused.
UpgradeEnds == inProgress \/ status = "running" ~> ~inProgress /\ status # "running"

\* Upgrades are refused while one is going on (update.go:140-143, 247-250).
SingleUpgrade == \A k, l \in Tasks : Upgrading(k) /\ Upgrading(l) => k = l

\* A preview upgrade is never refused for its version (update.go:408-412).
PreviewAllowed ==
  [][\A k \in Tasks :
       /\ pc[k] = "validate"
       /\ channel[k] = "preview"
       /\ temp[file[k]] = goal[k]
       => pc'[k] # "fail"]_vars

=============================================================================
