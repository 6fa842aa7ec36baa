---------------------------- MODULE RuntimeProofs ----------------------------
(***************************************************************************)
(* Theorems about Runtime, for any number of requests, kernels, configs and *)
(* failures; those about a single kernel need requests one at a time and no *)
(* failures, as the runs do.                                                *)
(***************************************************************************)
EXTENDS Runtime, TLAPS

-----------------------------------------------------------------------------
(* Type correctness *)

LEMMA ReturnTyped ==
  ASSUME TypeOK, NEW c \in Callers, Return(c)
  PROVE  /\ pc' \in [Callers -> Blocks]
         /\ inst' \in [Callers -> Row]
         /\ cfg' \in [Callers -> Configs \cup {None}]
         /\ prev' \in [Callers -> Configs \cup {None}]
         /\ cmd' \in [Callers -> Pids \cup {None}]
  BY DEF TypeOK, Return, Goto, Blocks, Row, NoRow, Statuses

LEMMA SaveTyped ==
  ASSUME TypeOK, NEW r \in Row, Save(r) \/ SaveFails
  PROVE  row' \in Row /\ mishaps' \in Nat
  BY DEF TypeOK, Save, SaveFails, Mishap

LEMMA SaveAndReturnTyped ==
  ASSUME TypeOK, NEW c \in Callers, NEW r \in Row, SaveAndReturn(c, r)
  PROVE  /\ row' \in Row
         /\ mishaps' \in Nat
         /\ pc' \in [Callers -> Blocks]
         /\ inst' \in [Callers -> Row]
         /\ cfg' \in [Callers -> Configs \cup {None}]
         /\ prev' \in [Callers -> Configs \cup {None}]
         /\ cmd' \in [Callers -> Pids \cup {None}]
  BY SaveTyped, ReturnTyped DEF SaveAndReturn

LEMMA SaveOrReturnTyped ==
  ASSUME TypeOK, NEW c \in Callers, NEW r \in Row, NEW b \in Blocks, SaveOrReturn(c, r, b)
  PROVE  /\ row' \in Row
         /\ mishaps' \in Nat
         /\ pc' \in [Callers -> Blocks]
         /\ inst' \in [Callers -> Row]
         /\ cfg' \in [Callers -> Configs \cup {None}]
         /\ prev' \in [Callers -> Configs \cup {None}]
         /\ cmd' \in [Callers -> Pids \cup {None}]
  <1>1. CASE SaveFails /\ Return(c)
    BY <1>1, SaveTyped, ReturnTyped
  <1>2. CASE Save(r) /\ inst' = [inst EXCEPT ![c] = r] /\ Goto(c, b) /\ UNCHANGED <<cfg, prev, cmd>>
    BY <1>2, SaveTyped DEF TypeOK, Goto
  <1>3. QED
    BY <1>1, <1>2 DEF SaveOrReturn

LEMMA WriteFailsTyped ==
  ASSUME TypeOK, NEW c \in Callers, WriteFails(c)
  PROVE  /\ file' \in Configs \cup {None}
         /\ row' \in Row
         /\ mishaps' \in Nat
         /\ pc' \in [Callers -> Blocks]
         /\ inst' \in [Callers -> Row]
         /\ cfg' \in [Callers -> Configs \cup {None}]
         /\ prev' \in [Callers -> Configs \cup {None}]
         /\ cmd' \in [Callers -> Pids \cup {None}]
  BY ReturnTyped DEF TypeOK, WriteFails, Mishap

LEMMA KillTyped ==
  ASSUME TypeOK, NEW p \in Pids, Kill(p)
  PROVE  /\ kernel' \in [Pids -> KernelStates]
         /\ loaded' \in [Pids -> Configs \cup {None}]
         /\ late' \in [Pids -> BOOLEAN]
         /\ ctl' \in Pids \cup {None}
  BY DEF TypeOK, Kill, osVars, KernelStates

\* The rows the handlers save keep the pid or clear it, and take one of the six statuses.
LEMMA RowUpdates ==
  ASSUME NEW r \in Row, NEW s \in Statuses, NEW f \in Configs \cup {None}
  PROVE  /\ [r EXCEPT !.status = s] \in Row
         /\ [r EXCEPT !.status = s, !.pid = None] \in Row
         /\ [r EXCEPT !.pid = None, !.status = s] \in Row
         /\ [r EXCEPT !.status = s, !.checksum = f] \in Row
         /\ r.pid \in Pids \cup {None}
  BY DEF Row

LEMMA StartTyped ==
  ASSUME TypeOK, NEW c \in Callers, Start(c)
  PROVE  TypeOK'
  <1>0. inst[c] \in Row /\ cfg[c] \in Configs \cup {None} /\ cmd[c] \in Pids \cup {None}
    BY DEF TypeOK
  <1>1. CASE StartCheck(c)
    BY <1>1 DEF TypeOK, StartCheck, Goto, Blocks, StartBlocks, osVars
  <1>2. CASE StartRead(c)
    BY <1>2 DEF TypeOK, StartRead, Goto, Blocks, StartBlocks, osVars
  <1>3. CASE StartBuild(c)
    <2>1. CASE desired = None
      <3>1. [inst[c] EXCEPT !.status = "error", !.pid = None] \in Row
        BY <1>0, RowUpdates DEF Statuses
      <3>2. QED
        BY <1>3, <2>1, <3>1, SaveAndReturnTyped DEF TypeOK, StartBuild, osVars
    <2>2. CASE desired # None
      BY <1>3, <2>2 DEF TypeOK, StartBuild, Goto, Blocks, StartBlocks, osVars
    <2>3. QED
      BY <2>1, <2>2
  <1>4. CASE StartWrite(c)
    <2>1. CASE WriteFails(c)
      BY <1>4, <2>1, WriteFailsTyped DEF TypeOK, StartWrite, osVars
    <2>2. CASE ~WriteFails(c)
      BY <1>0, <1>4, <2>2 DEF TypeOK, StartWrite, Goto, Blocks, StartBlocks, osVars
    <2>3. QED
      BY <2>1, <2>2
  <1>5. CASE StartProbe(c)
    <2>1. [inst[c] EXCEPT !.status = "error"] \in Row
      BY <1>0, RowUpdates DEF Statuses
    <2>2. CASE SaveAndReturn(c, [inst[c] EXCEPT !.status = "error"])
      BY <1>5, <2>1, <2>2, SaveAndReturnTyped DEF TypeOK, StartProbe, osVars
    <2>3. CASE ~SaveAndReturn(c, [inst[c] EXCEPT !.status = "error"])
      BY <1>5, <2>3 DEF TypeOK, StartProbe, Goto, Blocks, StartBlocks, osVars
    <2>4. QED
      BY <2>2, <2>3
  <1>6. CASE StartStarting(c)
    <2>1. [inst[c] EXCEPT !.status = "starting", !.checksum = cfg[c]] \in Row
      BY <1>0, RowUpdates DEF Statuses
    <2>2. "s_spawn" \in Blocks
      BY DEF Blocks, StartBlocks
    <2>3. QED
      BY <1>6, <2>1, <2>2, SaveOrReturnTyped DEF TypeOK, StartStarting, osVars
  <1>7. CASE StartSpawn(c)
    <2>1. [inst[c] EXCEPT !.status = "error"] \in Row
      BY <1>0, RowUpdates DEF Statuses
    <2>2. CASE SaveAndReturn(c, [inst[c] EXCEPT !.status = "error"]) /\ UNCHANGED osVars
      BY <1>7, <2>1, <2>2, SaveAndReturnTyped DEF TypeOK, StartSpawn, osVars
    <2>3. ASSUME NEW p \in Pids,
                 kernel' = [kernel EXCEPT ![p] = "booting"],
                 cmd' = [cmd EXCEPT ![c] = p],
                 inst' = [inst EXCEPT ![c].pid = p],
                 Goto(c, "s_register"),
                 UNCHANGED <<row, cfg, prev, loaded, late, ctl, mishaps>>
          PROVE  TypeOK'
      <3>1. inst' \in [Callers -> Row]
        BY <1>0, <2>3 DEF TypeOK, Row
      <3>2. QED
        BY <1>7, <2>3, <3>1 DEF TypeOK, StartSpawn, Goto, Blocks, StartBlocks, KernelStates
    <2>4. QED
      BY <1>7, <2>2, <2>3 DEF StartSpawn
  <1>8. CASE StartRegister(c)
    BY <1>0, <1>8 DEF TypeOK, StartRegister, Goto, Blocks, StartBlocks, WaiterStates, osVars
  <1>9. CASE StartReady(c)
    BY <1>9 DEF TypeOK, StartReady, Goto, Blocks, StartBlocks, osVars
  <1>10. CASE StartAbort(c)
    <2>1. [inst[c] EXCEPT !.status = "error"] \in Row
      BY <1>0, RowUpdates DEF Statuses
    <2>2. QED
      BY <1>10, <2>1, SaveAndReturnTyped DEF TypeOK, StartAbort, osVars
  <1>11. CASE StartRunning(c)
    <2>1. [inst[c] EXCEPT !.status = "running"] \in Row
      BY <1>0, RowUpdates DEF Statuses
    <2>2. QED
      BY <1>11, <2>1, SaveAndReturnTyped DEF TypeOK, StartRunning, osVars
  <1>12. QED
    BY <1>1, <1>2, <1>3, <1>4, <1>5, <1>6, <1>7, <1>8, <1>9, <1>10, <1>11 DEF Start

LEMMA TerminateTyped ==
  ASSUME TypeOK, NEW c \in Callers, Terminate(c), cmd[c] # None
  PROVE  TypeOK'
  <1>0. /\ cmd[c] \in Pids
        /\ pc[c] \in {"s_terminate", "p_terminate"}
        /\ \A failed \in BOOLEAN : AfterTerminate(pc[c], failed) \in Blocks
    BY DEF TypeOK, Terminate, TerminateSeesExit, TerminateKills, AfterTerminate, Blocks,
           StartBlocks, StopBlocks
  <1>1. CASE TerminateSeesExit(c)
    BY <1>0, <1>1 DEF TypeOK, TerminateSeesExit, Goto, osVars
  <1>2. CASE TerminateKills(c)
    BY <1>0, <1>2, KillTyped DEF TypeOK, TerminateKills, Goto
  <1>3. QED
    BY <1>1, <1>2 DEF Terminate

LEMMA StopTyped ==
  ASSUME TypeOK, NEW c \in Callers, Stop(c)
  PROVE  TypeOK'
  <1>0. inst[c] \in Row /\ inst[c].pid \in Pids \cup {None}
    BY DEF TypeOK, Row
  <1>1. CASE StopRead(c)
    BY <1>1 DEF TypeOK, StopRead, Goto, Blocks, StopBlocks, osVars
  <1>2. CASE StopStopping(c)
    <2>1. [inst[c] EXCEPT !.status = "stopping"] \in Row
      BY <1>0, RowUpdates DEF Statuses
    <2>2. "p_take" \in Blocks
      BY DEF Blocks, StopBlocks
    <2>3. QED
      BY <1>2, <2>1, <2>2, SaveOrReturnTyped DEF TypeOK, StopStopping, osVars
  <1>3. CASE StopTake(c)
    <2>1. CASE UNCHANGED osVars
      BY <1>3, <2>1 DEF TypeOK, StopTake, Goto, Blocks, StopBlocks, osVars
    <2>2. CASE inst[c].pid # None /\ Kill(inst[c].pid) /\ Goto(c, "p_stopped") /\ UNCHANGED cmd
      BY <1>0, <1>3, <2>2, KillTyped DEF TypeOK, StopTake, Goto, Blocks, StopBlocks
    <2>3. QED
      BY <1>3, <2>1, <2>2 DEF StopTake
  <1>4. CASE StopAbort(c)
    <2>1. [inst[c] EXCEPT !.status = "error"] \in Row
      BY <1>0, RowUpdates DEF Statuses
    <2>2. QED
      BY <1>4, <2>1, SaveAndReturnTyped DEF TypeOK, StopAbort, osVars
  <1>5. CASE StopStopped(c)
    <2>1. [inst[c] EXCEPT !.status = "stopped", !.pid = None] \in Row
      BY <1>0, RowUpdates DEF Statuses
    <2>2. "p_forget" \in Blocks
      BY DEF Blocks, StopBlocks
    <2>3. QED
      BY <1>5, <2>1, <2>2, SaveOrReturnTyped DEF TypeOK, StopStopped, osVars
  <1>6. CASE StopForget(c)
    BY <1>6, ReturnTyped DEF TypeOK, StopForget, osVars
  <1>7. QED
    BY <1>1, <1>2, <1>3, <1>4, <1>5, <1>6 DEF Stop

LEMMA ReloadTyped ==
  ASSUME TypeOK, NEW c \in Callers, Reload(c)
  PROVE  TypeOK'
  <1>0. inst[c] \in Row /\ cfg[c] \in Configs \cup {None} /\ prev[c] \in Configs \cup {None}
    BY DEF TypeOK
  <1>1. CASE ReloadRead(c)
    BY <1>1 DEF TypeOK, ReloadRead, Goto, Blocks, ReloadBlocks, osVars
  <1>2. CASE ReloadBuild(c)
    <2>1. CASE Return(c)
      BY <1>2, <2>1, ReturnTyped DEF TypeOK, ReloadBuild, osVars
    <2>2. CASE ~Return(c)
      BY <1>2, <2>2 DEF TypeOK, ReloadBuild, Goto, Blocks, ReloadBlocks, osVars
    <2>3. QED
      BY <2>1, <2>2
  <1>3. CASE ReloadPrevious(c)
    BY <1>3 DEF TypeOK, ReloadPrevious, Goto, Blocks, ReloadBlocks, osVars
  <1>4. CASE ReloadWrite(c)
    <2>1. CASE WriteFails(c)
      BY <1>4, <2>1, WriteFailsTyped DEF TypeOK, ReloadWrite, osVars
    <2>2. CASE ~WriteFails(c)
      BY <1>0, <1>4, <2>2 DEF TypeOK, ReloadWrite, Goto, Blocks, ReloadBlocks, osVars
    <2>3. QED
      BY <2>1, <2>2
  <1>5. CASE ReloadReloading(c)
    <2>1. [inst[c] EXCEPT !.status = "reloading"] \in Row
      BY <1>0, RowUpdates DEF Statuses
    <2>2. "r_call" \in Blocks
      BY DEF Blocks, ReloadBlocks
    <2>3. QED
      BY <1>5, <2>1, <2>2, SaveOrReturnTyped DEF TypeOK, ReloadReloading, osVars
  <1>6. CASE ReloadCall(c)
    <2>1. pc' \in [Callers -> Blocks]
      BY <1>6 DEF TypeOK, ReloadCall, Goto, Blocks, ReloadBlocks
    <2>2. /\ loaded' \in [Pids -> Configs \cup {None}] /\ late' \in [Pids -> BOOLEAN]
          /\ UNCHANGED <<desired, row, file, reg, kernel, ctl, waiter, seen, inst, cfg, prev, cmd,
                         mishaps>>
      BY <1>6 DEF TypeOK, ReloadCall
    <2> QED
      BY <2>1, <2>2 DEF TypeOK
  <1>7. CASE ReloadRestore(c)
    BY <1>0, <1>7 DEF TypeOK, ReloadRestore, Mishap, Goto, Blocks, ReloadBlocks, osVars
  <1>8. CASE ReloadError(c)
    <2>1. [inst[c] EXCEPT !.status = "error"] \in Row
      BY <1>0, RowUpdates DEF Statuses
    <2>2. QED
      BY <1>8, <2>1, SaveAndReturnTyped DEF TypeOK, ReloadError, osVars
  <1>9. CASE ReloadRunning(c)
    <2>1. [inst[c] EXCEPT !.status = "running", !.checksum = cfg[c]] \in Row
      BY <1>0, RowUpdates DEF Statuses
    <2>2. QED
      BY <1>9, <2>1, SaveAndReturnTyped DEF TypeOK, ReloadRunning, osVars
  <1>10. QED
    BY <1>1, <1>2, <1>3, <1>4, <1>5, <1>6, <1>7, <1>8, <1>9 DEF Reload

LEMMA WaitProcessExitTyped ==
  ASSUME TypeOK, NEW p \in Pids, WaitProcessExit(p)
  PROVE  TypeOK'
  <1>1. CASE ExitReap(p)
    BY <1>1 DEF TypeOK, ExitReap, WaiterStates, osVars, reqVars
  <1>2. CASE ExitLock(p)
    BY <1>2 DEF TypeOK, ExitLock, WaiterStates, osVars, reqVars
  <1>3. CASE ExitSave(p)
    <2>1. PICK s \in {"error", "stopped"} :
            s = IF kernel[p] = "failed" THEN "error" ELSE "stopped"
      OBVIOUS
    <2>2. [seen EXCEPT !.pid = None, !.status = s] \in Row
      BY <2>1, RowUpdates DEF TypeOK, Statuses
    <2>3. Save([seen EXCEPT !.pid = None, !.status = s]) \/ SaveFails
      BY <1>3, <2>1 DEF ExitSave
    <2>4. row' \in Row /\ mishaps' \in Nat
      BY <2>2, <2>3, SaveTyped
    <2>5. NoRow \in Row
      BY DEF NoRow, Row, Statuses
    <2>6. QED
      BY <1>3, <2>4, <2>5 DEF TypeOK, ExitSave, WaiterStates, osVars, reqVars
  <1>4. QED
    BY <1>1, <1>2, <1>3 DEF WaitProcessExit

LEMMA EnvironmentTyped ==
  ASSUME TypeOK, Edit \/ PoolXRestart \/ \E p \in Pids : Kernel(p)
  PROVE  TypeOK'
  <1>1. CASE Edit
    BY <1>1 DEF TypeOK, Edit, osVars, reqVars
  <1>2. CASE PoolXRestart
    BY <1>2 DEF TypeOK, PoolXRestart, Mishap, NoRow, Row, Statuses, Blocks, WaiterStates, osVars
  <1>3. ASSUME NEW p \in Pids, KernelBoot(p)
        PROVE  TypeOK'
    BY <1>3 DEF TypeOK, KernelBoot, KernelStates, reqVars
  <1>4. ASSUME NEW p \in Pids, KernelExit(p)
        PROVE  TypeOK'
    BY <1>4 DEF TypeOK, KernelExit, KernelStates, reqVars
  <1>5. ASSUME NEW p \in Pids, KernelLateReload(p)
        PROVE  TypeOK'
    BY <1>5 DEF TypeOK, KernelLateReload, reqVars
  <1>6. QED
    BY <1>1, <1>2, <1>3, <1>4, <1>5 DEF Kernel

-----------------------------------------------------------------------------
(* What holds of any number of concurrent requests, restarts and failures *)

\* The exit goroutine moves on only when the process is dead; a command in a
\* handler is watched by a goroutine of this PoolX process, except between spawn
\* and registration; pids reach the row's copies only from there.
ProcessInv ==
  /\ \A p \in Pids : waiter[p] \in {"reaped", "saving", "done"} => Dead(p)
  /\ \A p \in Pids : kernel[p] = "unborn" => waiter[p] = "none"
  /\ RegistryWatched
  /\ PidWatched
  /\ seen.pid # None => waiter[seen.pid] # "none"

RequestInv(c) ==
  /\ pc[c] \in {"s_register", "s_ready", "s_terminate", "p_terminate"} => cmd[c] # None
  /\ pc[c] \in {"idle", "p_stopping", "p_take"} => cmd[c] = None
  /\ cmd[c] # None => kernel[cmd[c]] # "unborn"
  /\ pc[c] # "s_register" /\ cmd[c] # None => waiter[cmd[c]] \notin {"none", "lost"}
  /\ pc[c] # "s_register" /\ inst[c].pid # None => waiter[inst[c].pid] # "none"
  /\ pc[c] = "s_register" => inst[c].pid = cmd[c]
  /\ pc[c] \in {"p_stopped", "p_forget"} /\ cmd[c] # None => Dead(cmd[c])

WatchInv == ProcessInv /\ \A c \in Callers : RequestInv(c)

LEMMA ReturnWatches ==
  ASSUME TypeOK, WatchInv, NEW c \in Callers, Return(c), UNCHANGED <<waiter, osVars>>
  PROVE  \A d \in Callers : RequestInv(d)'
  BY DEF TypeOK, WatchInv, RequestInv, Dead, Return, Goto, NoRow, osVars

LEMMA SaveAndReturnWatches ==
  ASSUME TypeOK, WatchInv, NEW c \in Callers, NEW r \in Row,
         r.pid # None => waiter[r.pid] # "none",
         SaveAndReturn(c, r),
         UNCHANGED <<reg, waiter, seen, osVars>>
  PROVE  WatchInv'
  <1>1. ProcessInv'
    BY DEF WatchInv, ProcessInv, RegistryWatched, PidWatched, Dead, SaveAndReturn, Save,
           SaveFails, osVars
  <1>2. QED
    BY <1>1, ReturnWatches DEF WatchInv, SaveAndReturn

LEMMA SaveOrReturnWatches ==
  ASSUME TypeOK, WatchInv, NEW c \in Callers, NEW r \in Row,
         r.pid # None => waiter[r.pid] # "none",
         pc[c] # "s_register",
         NEW b \in {"s_spawn", "p_take", "p_forget", "r_call"},
         b = "p_take" => pc[c] = "p_stopping",
         b = "p_forget" => pc[c] = "p_stopped",
         SaveOrReturn(c, r, b),
         UNCHANGED <<reg, waiter, seen, osVars>>
  PROVE  WatchInv'
  <1>1. ProcessInv'
    BY DEF WatchInv, ProcessInv, RegistryWatched, PidWatched, Dead, SaveOrReturn, Save,
           SaveFails, osVars
  <1>2. CASE Return(c)
    BY <1>1, <1>2, ReturnWatches DEF WatchInv
  <1>3. CASE inst' = [inst EXCEPT ![c] = r] /\ Goto(c, b) /\ UNCHANGED <<cfg, prev, cmd>>
    <2>1. \A d \in Callers : RequestInv(d)'
      BY <1>3 DEF TypeOK, WatchInv, RequestInv, Dead, Goto, osVars
    <2>2. QED
      BY <1>1, <2>1 DEF WatchInv
  <1>4. QED
    BY <1>2, <1>3 DEF SaveOrReturn

LEMMA StartWatches ==
  ASSUME TypeOK, WatchInv, NEW c \in Callers, Start(c)
  PROVE  WatchInv'
  <1>1. CASE StartCheck(c)
    BY <1>1 DEF StartCheck, TypeOK, WatchInv, ProcessInv, RequestInv, RegistryWatched,
              PidWatched, Dead, Goto, osVars
  <1>2. CASE StartRead(c)
    BY <1>2 DEF StartRead, TypeOK, WatchInv, ProcessInv, RequestInv, RegistryWatched,
              PidWatched, Dead, Goto, osVars, Row
  <1>3. CASE StartBuild(c)
    <2>1. CASE desired # None
      BY <1>3, <2>1 DEF StartBuild, TypeOK, WatchInv, ProcessInv, RequestInv, RegistryWatched,
             PidWatched, Dead, Goto, osVars
    <2>2. CASE desired = None
      <3>1. [inst[c] EXCEPT !.status = "error", !.pid = None] \in Row
        BY RowUpdates DEF TypeOK, Statuses
      <3>2. [inst[c] EXCEPT !.status = "error", !.pid = None].pid = None
        BY DEF TypeOK, Row
      <3>3. QED
        BY <1>3, <2>2, <3>1, <3>2, SaveAndReturnWatches DEF StartBuild
    <2>3. QED
      BY <2>1, <2>2
  <1>4. CASE StartWrite(c)
    <2>1. ProcessInv'
      BY <1>4 DEF StartWrite, WriteFails, WatchInv, ProcessInv, RegistryWatched, PidWatched,
             Dead, osVars
    <2>2. CASE WriteFails(c)
      BY <1>4, <2>1, <2>2, ReturnWatches DEF StartWrite, WriteFails, WatchInv
    <2>3. CASE ~WriteFails(c)
      <3>1. \A d \in Callers : RequestInv(d)'
        BY <1>4, <2>3 DEF StartWrite, TypeOK, WatchInv, RequestInv, Dead, Goto, osVars
      <3>2. QED
        BY <2>1, <3>1 DEF WatchInv
    <2>4. QED
      BY <2>2, <2>3
  <1>5. CASE StartProbe(c)
    <2>1. CASE SaveAndReturn(c, [inst[c] EXCEPT !.status = "error"])
      <3>1. [inst[c] EXCEPT !.status = "error"] \in Row
        BY RowUpdates DEF TypeOK, Statuses
      <3>2. [inst[c] EXCEPT !.status = "error"].pid = inst[c].pid
        BY DEF TypeOK, Row
      <3>3. QED
        BY <1>5, <2>1, <3>1, <3>2, SaveAndReturnWatches DEF StartProbe, WatchInv, RequestInv
    <2>2. CASE ~SaveAndReturn(c, [inst[c] EXCEPT !.status = "error"])
      BY <1>5, <2>2 DEF StartProbe, TypeOK, WatchInv, ProcessInv, RequestInv, RegistryWatched,
             PidWatched, Dead, Goto, osVars
    <2>3. QED
      BY <2>1, <2>2
  <1>6. CASE StartStarting(c)
    <2> DEFINE r == [inst[c] EXCEPT !.status = "starting", !.checksum = cfg[c]]
    <2>1. r \in Row
      BY RowUpdates DEF TypeOK, Statuses
    <2>2. r.pid = inst[c].pid
      BY DEF TypeOK, Row
    <2>3. r.pid # None => waiter[r.pid] # "none"
      BY <1>6, <2>2 DEF WatchInv, RequestInv, StartStarting
    <2>4. QED
      BY <1>6, <2>1, <2>3, SaveOrReturnWatches DEF StartStarting
  <1>7. CASE StartSpawn(c)
    <2>1. CASE SaveAndReturn(c, [inst[c] EXCEPT !.status = "error"]) /\ UNCHANGED osVars
      <3>1. [inst[c] EXCEPT !.status = "error"] \in Row
        BY RowUpdates DEF TypeOK, Statuses
      <3>2. [inst[c] EXCEPT !.status = "error"].pid = inst[c].pid
        BY DEF TypeOK, Row
      <3>3. QED
        BY <1>7, <2>1, <3>1, <3>2, SaveAndReturnWatches DEF StartSpawn, WatchInv, RequestInv
    <2>2. ASSUME NEW p \in Pids,
                 kernel[p] = "unborn",
                 kernel' = [kernel EXCEPT ![p] = "booting"],
                 cmd' = [cmd EXCEPT ![c] = p],
                 inst' = [inst EXCEPT ![c].pid = p],
                 Goto(c, "s_register"),
                 UNCHANGED <<row, cfg, prev, loaded, late, ctl, mishaps>>
          PROVE  WatchInv'
      <3>1. ProcessInv'
        BY <1>7, <2>2 DEF StartSpawn, TypeOK, WatchInv, ProcessInv, RegistryWatched, PidWatched,
               Dead
      <3>2. RequestInv(c)'
        BY <1>7, <2>2, RuntimeAssumption DEF StartSpawn, TypeOK, WatchInv, RequestInv, Dead,
               Goto, Row
      <3>3. ASSUME NEW d \in Callers, d # c
            PROVE  RequestInv(d)'
        BY <1>7, <2>2, <3>3 DEF StartSpawn, TypeOK, WatchInv, RequestInv, Dead, Goto
      <3>4. QED
        BY <3>1, <3>2, <3>3 DEF WatchInv
    <2>3. QED
      BY <1>7, <2>1, <2>2 DEF StartSpawn
  <1>8. CASE StartRegister(c)
    BY <1>8 DEF StartRegister, TypeOK, WatchInv, ProcessInv, RequestInv,
              RegistryWatched, PidWatched, Dead, Goto, osVars
  <1>9. CASE StartReady(c)
    BY <1>9 DEF StartReady, TypeOK, WatchInv, ProcessInv, RequestInv, RegistryWatched,
              PidWatched, Dead, Goto, osVars
  <1>10. CASE StartAbort(c)
    <2> DEFINE r == [inst[c] EXCEPT !.status = "error"]
    <2>1. r \in Row
      BY RowUpdates DEF TypeOK, Statuses
    <2>2. r.pid = inst[c].pid
      BY DEF TypeOK, Row
    <2>3. r.pid # None => waiter[r.pid] # "none"
      BY <1>10, <2>2 DEF WatchInv, RequestInv, StartAbort
    <2>4. QED
      BY <1>10, <2>1, <2>3, SaveAndReturnWatches DEF StartAbort
  <1>11. CASE StartRunning(c)
    <2> DEFINE r == [inst[c] EXCEPT !.status = "running"]
    <2>1. r \in Row
      BY RowUpdates DEF TypeOK, Statuses
    <2>2. r.pid = inst[c].pid
      BY DEF TypeOK, Row
    <2>3. r.pid # None => waiter[r.pid] # "none"
      BY <1>11, <2>2 DEF WatchInv, RequestInv, StartRunning
    <2>4. QED
      BY <1>11, <2>1, <2>3, SaveAndReturnWatches DEF StartRunning
  <1>12. QED
    BY <1>1, <1>2, <1>3, <1>4, <1>5, <1>6, <1>7, <1>8, <1>9, <1>10, <1>11 DEF Start

LEMMA TerminateWatches ==
  ASSUME TypeOK, WatchInv, NEW c \in Callers, Terminate(c)
  PROVE  WatchInv'
  <1>1. CASE TerminateSeesExit(c)
    BY <1>1 DEF TerminateSeesExit, TypeOK, WatchInv, ProcessInv, RequestInv,
              RegistryWatched, PidWatched, Dead, Goto, osVars, AfterTerminate,
              WaiterStates
  <1>2. CASE TerminateKills(c)
    BY <1>2 DEF TerminateKills, TypeOK, WatchInv, ProcessInv, RequestInv,
              RegistryWatched, PidWatched, Dead, Goto, osVars, AfterTerminate, Kill,
              Alive, KernelStates, WaiterStates
  <1>3. QED
    BY <1>1, <1>2 DEF Terminate

LEMMA StopWatches ==
  ASSUME TypeOK, WatchInv, NEW c \in Callers, Stop(c)
  PROVE  WatchInv'
  <1>1. CASE StopRead(c)
    BY <1>1 DEF StopRead, TypeOK, WatchInv, ProcessInv, RequestInv, RegistryWatched,
              PidWatched, Dead, Goto, osVars, Row
  <1>2. CASE StopStopping(c)
    <2> DEFINE r == [inst[c] EXCEPT !.status = "stopping"]
    <2>1. r \in Row
      BY RowUpdates DEF TypeOK, Statuses
    <2>2. r.pid = inst[c].pid
      BY DEF TypeOK, Row
    <2>3. r.pid # None => waiter[r.pid] # "none"
      BY <1>2, <2>2 DEF WatchInv, RequestInv, StopStopping
    <2>4. QED
      BY <1>2, <2>1, <2>3, SaveOrReturnWatches DEF StopStopping
  <1>3. CASE StopTake(c)
    BY <1>3 DEF StopTake, TypeOK, WatchInv, ProcessInv, RequestInv, RegistryWatched,
              PidWatched, Dead, Goto, osVars, Kill, Alive, KernelStates
  <1>4. CASE StopAbort(c)
    <2> DEFINE r == [inst[c] EXCEPT !.status = "error"]
    <2>1. r \in Row
      BY RowUpdates DEF TypeOK, Statuses
    <2>2. r.pid = inst[c].pid
      BY DEF TypeOK, Row
    <2>3. r.pid # None => waiter[r.pid] # "none"
      BY <1>4, <2>2 DEF WatchInv, RequestInv, StopAbort
    <2>4. QED
      BY <1>4, <2>1, <2>3, SaveAndReturnWatches DEF StopAbort
  <1>5. CASE StopStopped(c)
    <2> DEFINE r == [inst[c] EXCEPT !.status = "stopped", !.pid = None]
    <2>1. r \in Row
      BY RowUpdates DEF TypeOK, Statuses
    <2>2. r.pid = None
      BY DEF TypeOK, Row
    <2>3. r.pid # None => waiter[r.pid] # "none"
      BY <1>5, <2>2 DEF WatchInv, RequestInv, StopStopped
    <2>4. QED
      BY <1>5, <2>1, <2>3, SaveOrReturnWatches DEF StopStopped
  <1>6. CASE StopForget(c)
    BY <1>6 DEF StopForget, TypeOK, WatchInv, ProcessInv, RequestInv, RegistryWatched,
              PidWatched, Dead, Goto, osVars, Return, NoRow
  <1>7. QED
    BY <1>1, <1>2, <1>3, <1>4, <1>5, <1>6 DEF Stop

LEMMA ReloadWatches ==
  ASSUME TypeOK, WatchInv, NEW c \in Callers, Reload(c)
  PROVE  WatchInv'
  <1>1. CASE ReloadRead(c)
    BY <1>1 DEF ReloadRead, TypeOK, WatchInv, ProcessInv, RequestInv, RegistryWatched,
              PidWatched, Dead, Goto, osVars, Row
  <1>2. CASE ReloadBuild(c)
    BY <1>2 DEF ReloadBuild, TypeOK, WatchInv, ProcessInv, RequestInv, RegistryWatched,
              PidWatched, Dead, Goto, osVars, Return, NoRow
  <1>3. CASE ReloadPrevious(c)
    BY <1>3 DEF ReloadPrevious, TypeOK, WatchInv, ProcessInv, RequestInv,
              RegistryWatched, PidWatched, Dead, Goto, osVars
  <1>4. CASE ReloadWrite(c)
    <2>1. ProcessInv'
      BY <1>4 DEF ReloadWrite, WriteFails, WatchInv, ProcessInv, RegistryWatched, PidWatched,
             Dead, osVars
    <2>2. CASE WriteFails(c)
      BY <1>4, <2>1, <2>2, ReturnWatches DEF ReloadWrite, WriteFails, WatchInv
    <2>3. CASE ~WriteFails(c)
      <3>1. \A d \in Callers : RequestInv(d)'
        BY <1>4, <2>3 DEF ReloadWrite, TypeOK, WatchInv, RequestInv, Dead, Goto, osVars
      <3>2. QED
        BY <2>1, <3>1 DEF WatchInv
    <2>4. QED
      BY <2>2, <2>3
  <1>5. CASE ReloadReloading(c)
    <2> DEFINE r == [inst[c] EXCEPT !.status = "reloading"]
    <2>1. r \in Row
      BY RowUpdates DEF TypeOK, Statuses
    <2>2. r.pid = inst[c].pid
      BY DEF TypeOK, Row
    <2>3. r.pid # None => waiter[r.pid] # "none"
      BY <1>5, <2>2 DEF WatchInv, RequestInv, ReloadReloading
    <2>4. QED
      BY <1>5, <2>1, <2>3, SaveOrReturnWatches DEF ReloadReloading
  <1>6. CASE ReloadCall(c)
    BY <1>6 DEF ReloadCall, TypeOK, WatchInv, ProcessInv, RequestInv, RegistryWatched,
              PidWatched, Dead, Goto, osVars
  <1>7. CASE ReloadRestore(c)
    BY <1>7 DEF ReloadRestore, TypeOK, WatchInv, ProcessInv, RequestInv,
              RegistryWatched, PidWatched, Dead, Goto, osVars
  <1>8. CASE ReloadError(c)
    <2> DEFINE r == [inst[c] EXCEPT !.status = "error"]
    <2>1. r \in Row
      BY RowUpdates DEF TypeOK, Statuses
    <2>2. r.pid = inst[c].pid
      BY DEF TypeOK, Row
    <2>3. r.pid # None => waiter[r.pid] # "none"
      BY <1>8, <2>2 DEF WatchInv, RequestInv, ReloadError
    <2>4. QED
      BY <1>8, <2>1, <2>3, SaveAndReturnWatches DEF ReloadError
  <1>9. CASE ReloadRunning(c)
    <2> DEFINE r == [inst[c] EXCEPT !.status = "running", !.checksum = cfg[c]]
    <2>1. r \in Row
      BY RowUpdates DEF TypeOK, Statuses
    <2>2. r.pid = inst[c].pid
      BY DEF TypeOK, Row
    <2>3. r.pid # None => waiter[r.pid] # "none"
      BY <1>9, <2>2 DEF WatchInv, RequestInv, ReloadRunning
    <2>4. QED
      BY <1>9, <2>1, <2>3, SaveAndReturnWatches DEF ReloadRunning
  <1>10. QED
    BY <1>1, <1>2, <1>3, <1>4, <1>5, <1>6, <1>7, <1>8, <1>9 DEF Reload

LEMMA WaitProcessExitWatches ==
  ASSUME TypeOK, WatchInv, NEW p \in Pids, WaitProcessExit(p)
  PROVE  WatchInv'
  <1>1. CASE ExitReap(p)
    BY <1>1 DEF ExitReap, TypeOK, WatchInv, ProcessInv, RequestInv, RegistryWatched,
              PidWatched, Dead, Goto, osVars, reqVars
  <1>2. CASE ExitLock(p)
    BY <1>2 DEF ExitLock, TypeOK, WatchInv, ProcessInv, RequestInv, RegistryWatched,
              PidWatched, Dead, Goto, osVars, reqVars, LockFree
  <1>3. CASE ExitSave(p)
    <2>1. /\ waiter[p] = "saving" /\ waiter' = [waiter EXCEPT ![p] = "done"]
          /\ UNCHANGED <<reg, kernel>> /\ seen'.pid = None /\ row'.pid \in {None, row.pid}
      BY <1>3 DEF ExitSave, TypeOK, Save, SaveFails, Row, NoRow, osVars
    <2>2. UNCHANGED <<pc, inst, cmd>>
      BY <1>3 DEF ExitSave, reqVars
    <2>3. \A q \in Pids : /\ waiter'[q] = IF q = p THEN "done" ELSE waiter[q]
                          /\ Dead(q)' = Dead(q)
      BY <2>1 DEF TypeOK, Dead
    <2>4. ProcessInv'
      BY <2>1, <2>3 DEF TypeOK, Row, WatchInv, ProcessInv, RegistryWatched, PidWatched
    <2>5. ASSUME NEW c \in Callers PROVE RequestInv(c)'
      BY <2>1, <2>2, <2>3 DEF TypeOK, Row, WatchInv, RequestInv
    <2> QED
      BY <2>4, <2>5 DEF WatchInv
  <1>4. QED
    BY <1>1, <1>2, <1>3 DEF WaitProcessExit

LEMMA EnvironmentWatches ==
  ASSUME TypeOK, WatchInv, Edit \/ PoolXRestart \/ \E p \in Pids : Kernel(p)
  PROVE  WatchInv'
  <1> USE DEF TypeOK, WatchInv, ProcessInv, RequestInv, RegistryWatched, PidWatched, Dead
  <1>1. CASE Edit
    BY <1>1 DEF Edit, reqVars, osVars
  <1>2. CASE PoolXRestart
    <2>1. \A p \in Pids : waiter'[p] = IF waiter[p] \in {"none", "done"} THEN waiter[p] ELSE "lost"
      BY <1>2 DEF PoolXRestart
    <2>2. ProcessInv'
      BY <1>2, <2>1 DEF PoolXRestart, NoRow, Row, osVars
    <2>3. \A c \in Callers : RequestInv(c)'
      BY <1>2 DEF PoolXRestart, NoRow
    <2>4. QED
      BY <2>2, <2>3
  <1>3. ASSUME NEW p \in Pids, KernelBoot(p)
        PROVE  WatchInv'
    BY <1>3 DEF KernelBoot, reqVars
  <1>4. ASSUME NEW p \in Pids, KernelExit(p)
        PROVE  WatchInv'
    BY <1>4 DEF KernelExit, Alive, reqVars
  <1>5. ASSUME NEW p \in Pids, KernelLateReload(p)
        PROVE  WatchInv'
    BY <1>5 DEF KernelLateReload, reqVars
  <1>6. QED
    BY <1>1, <1>2, <1>3, <1>4, <1>5 DEF Kernel

LEMMA InitInductive ==
  ASSUME Init
  PROVE  TypeOK /\ WatchInv
  <1>1. TypeOK
    BY DEF Init, TypeOK, NoRow, Row, Statuses, KernelStates, WaiterStates, Blocks
  <1>2. WatchInv
    BY DEF Init, WatchInv, ProcessInv, RequestInv, RegistryWatched, PidWatched, NoRow
  <1>3. QED
    BY <1>1, <1>2

LEMMA NextInductive ==
  ASSUME TypeOK, WatchInv, [Next]_vars
  PROVE  TypeOK' /\ WatchInv'
  <1>1. ASSUME NEW c \in Callers, Request(c)
        PROVE  TypeOK' /\ WatchInv'
    <2>1. CASE Start(c)
      BY <2>1, StartTyped, StartWatches
    <2>2. CASE Terminate(c)
      <3>1. cmd[c] # None
        BY <2>2 DEF Terminate, TerminateSeesExit, TerminateKills, WatchInv, RequestInv
      <3>2. QED
        BY <2>2, <3>1, TerminateTyped, TerminateWatches
    <2>3. CASE Stop(c)
      BY <2>3, StopTyped, StopWatches
    <2>4. CASE Reload(c)
      BY <2>4, ReloadTyped, ReloadWatches
    <2>5. QED
      BY <1>1, <2>1, <2>2, <2>3, <2>4 DEF Request
  <1>2. ASSUME NEW p \in Pids, WaitProcessExit(p)
        PROVE  TypeOK' /\ WatchInv'
    BY <1>2, WaitProcessExitTyped, WaitProcessExitWatches
  <1>3. CASE Edit \/ PoolXRestart \/ \E p \in Pids : Kernel(p)
    BY <1>3, EnvironmentTyped, EnvironmentWatches
  <1>4. CASE UNCHANGED vars
    <2>1. TypeOK'
      BY <1>4 DEF vars, osVars, reqVars, TypeOK
    <2>2. ProcessInv'
      BY <1>4 DEF vars, osVars, reqVars, WatchInv, ProcessInv, RegistryWatched, PidWatched, Dead
    <2>3. \A c \in Callers : RequestInv(c)'
      BY <1>4 DEF vars, osVars, reqVars, WatchInv, RequestInv, Dead
    <2>4. QED
      BY <2>1, <2>2, <2>3 DEF WatchInv
  <1>5. QED
    BY <1>1, <1>2, <1>3, <1>4 DEF Next

LEMMA AlwaysWatched == Spec => [](TypeOK /\ WatchInv)
  BY InitInductive, NextInductive, PTL DEF Spec

\* Every step of every interleaving, failure and restart keeps the state well typed; in
\* particular the row only ever carries one of the six statuses.
THEOREM TypeCorrect == Spec => []TypeOK
  BY AlwaysWatched, PTL

\* The registry never keeps a command whose exit goroutine has already run, however many
\* requests interleave with StartRuntime's registration (runtime.go:142-148).
THEOREM RegistryAlwaysWatched == Spec => []RegistryWatched
  <1>1. WatchInv => RegistryWatched
    BY DEF WatchInv, ProcessInv
  <1>2. QED
    BY <1>1, AlwaysWatched, PTL

\* No handler's stale copy of the row can bring in a pid that no goroutine watches.
THEOREM PidAlwaysWatched == Spec => []PidWatched
  <1>1. WatchInv => PidWatched
    BY DEF WatchInv, ProcessInv
  <1>2. QED
    BY <1>1, AlwaysWatched, PTL

\* Every way out of terminateProcess that StopRuntime reports as stopped leaves the
\* process it took from the registry dead, for any number of concurrent requests.
THEOREM StopAlwaysMeansDead == Spec => []StopMeansDead
  <1>1. WatchInv => StopMeansDead
    BY DEF WatchInv, RequestInv, StopMeansDead
  <1>2. QED
    BY <1>1, AlwaysWatched, PTL

-----------------------------------------------------------------------------
(* One request at a time and no failure *)

OneAtATime == (\A c, d \in Callers : c = d) /\ MaxMishaps = 0

\* A living kernel is registered and watched, or is about to be; a start that has
\* passed the registry check and has not spawned yet finds none, and neither does
\* a stop that has terminated its process.
SerialRequest(c) ==
  /\ pc[c] \in {"s_read", "s_build", "s_write", "s_probe", "s_starting", "s_spawn",
                "p_stopped", "p_forget"} => LiveKernels = {}
  /\ pc[c] \in {"s_register", "p_terminate"} => LiveKernels \subseteq {cmd[c]}

SerialInv ==
  /\ mishaps = 0
  /\ \A p \in Pids : waiter[p] # "lost"
  /\ \A p \in Pids : Alive(p) =>
       \/ reg = p /\ waiter[p] = "waiting"
       \/ \E c \in Callers : pc[c] = "s_register" /\ cmd[c] = p
  /\ \A c \in Callers : SerialRequest(c)

LEMMA SaveSerially ==
  ASSUME OneAtATime, TypeOK, mishaps = 0, NEW r, Save(r) \/ SaveFails
  PROVE  mishaps' = 0
  BY DEF OneAtATime, Save, SaveFails, Mishap

\* A step of the only request that leaves processes, goroutines and registry alone keeps
\* SerialInv, unless it enters a block that promises more than the block it leaves.
LEMMA QuietSerial ==
  ASSUME OneAtATime, TypeOK, SerialInv, NEW c \in Callers, NEW b \in Blocks,
         pc' = [pc EXCEPT ![c] = b],
         pc[c] # "s_register", b # "s_register",
         b \in {"s_read", "s_build", "s_write", "s_probe", "s_starting", "s_spawn",
                "p_stopped", "p_forget"} => LiveKernels = {},
         b = "p_terminate" => LiveKernels \subseteq {cmd'[c]},
         UNCHANGED <<reg, kernel, waiter>>,
         mishaps' = 0
  PROVE  SerialInv'
  <1>1. \A p \in Pids : Alive(p)' <=> Alive(p)
    BY DEF Alive
  <1>2. LiveKernels' = LiveKernels
    BY <1>1 DEF LiveKernels
  <1>3. ASSUME NEW p \in Pids, Alive(p)'
        PROVE  reg' = p /\ waiter'[p] = "waiting"
    BY <1>1, <1>3 DEF SerialInv, OneAtATime
  <1>4. ASSUME NEW d \in Callers
        PROVE  SerialRequest(d)'
    BY <1>2 DEF OneAtATime, TypeOK, SerialRequest
  <1>5. QED
    BY <1>3, <1>4 DEF SerialInv

LEMMA SaveAndReturnSerial ==
  ASSUME OneAtATime, TypeOK, SerialInv, NEW c \in Callers, NEW r, SaveAndReturn(c, r),
         pc[c] # "s_register", UNCHANGED <<reg, kernel, waiter>>
  PROVE  SerialInv'
  <1>1. mishaps' = 0
    BY SaveSerially DEF SaveAndReturn, SerialInv
  <1>2. QED
    BY <1>1, QuietSerial DEF SaveAndReturn, Return, Goto, Blocks

LEMMA SaveOrReturnSerial ==
  ASSUME OneAtATime, TypeOK, SerialInv, NEW c \in Callers, NEW r,
         NEW b \in {"s_spawn", "p_take", "p_forget", "r_call"},
         b \in {"s_spawn", "p_forget"} => LiveKernels = {},
         SaveOrReturn(c, r, b),
         pc[c] # "s_register", UNCHANGED <<reg, kernel, waiter>>
  PROVE  SerialInv'
  <1>1. mishaps' = 0
    BY SaveSerially DEF SaveOrReturn, SerialInv
  <1>2. CASE Goto(c, b)
    BY <1>1, <1>2, QuietSerial DEF Goto, Blocks, StartBlocks, StopBlocks, ReloadBlocks
  <1>3. CASE Return(c)
    BY <1>1, <1>3, QuietSerial DEF Return, Goto, Blocks
  <1>4. QED
    BY <1>2, <1>3 DEF SaveOrReturn

LEMMA StartSerial ==
  ASSUME OneAtATime, TypeOK, WatchInv, SerialInv, NEW c \in Callers, Start(c)
  PROVE  SerialInv'
  <1>0. SerialRequest(c) /\ mishaps = 0
    BY DEF SerialInv
  <1>1. CASE StartCheck(c)
    <2>1. LiveKernels = {}
      <3>1. ASSUME NEW p \in Pids, Alive(p)
            PROVE  FALSE
        <4>1. reg = p /\ waiter[p] = "waiting"
          BY <1>1, <3>1 DEF StartCheck, SerialInv, OneAtATime
        <4>2. QED
          BY <1>1, <4>1, RuntimeAssumption DEF StartCheck, Running
      <3>2. QED
        BY <3>1 DEF LiveKernels
    <2>2. QED
      BY <1>0, <1>1, <2>1, QuietSerial DEF StartCheck, Goto, osVars, Blocks, StartBlocks
  <1>2. CASE StartRead(c)
    BY <1>0, <1>2, QuietSerial DEF StartRead, SerialRequest, Goto, osVars, Blocks, StartBlocks
  <1>3. CASE StartBuild(c)
    <2>1. CASE desired # None
      BY <1>0, <1>3, <2>1, QuietSerial
      DEF StartBuild, SerialRequest, Goto, osVars, Blocks, StartBlocks
    <2>2. CASE desired = None
      BY <1>3, <2>2, SaveAndReturnSerial DEF StartBuild, osVars
    <2>3. QED
      BY <2>1, <2>2
  <1>4. CASE StartWrite(c)
    <2>1. ~WriteFails(c)
      BY <1>0 DEF WriteFails, Mishap, OneAtATime
    <2>2. QED
      BY <1>0, <1>4, <2>1, QuietSerial
      DEF StartWrite, SerialRequest, Goto, osVars, Blocks, StartBlocks
  <1>5. CASE StartProbe(c)
    <2>1. CASE Goto(c, "s_starting") /\ UNCHANGED mishaps
      BY <1>0, <1>5, <2>1, QuietSerial
      DEF StartProbe, SerialRequest, Goto, osVars, Blocks, StartBlocks
    <2>2. CASE SaveAndReturn(c, [inst[c] EXCEPT !.status = "error"])
      BY <1>5, <2>2, SaveAndReturnSerial DEF StartProbe, osVars
    <2>3. QED
      BY <1>5, <2>1, <2>2 DEF StartProbe
  <1>6. CASE StartStarting(c)
    BY <1>0, <1>6, SaveOrReturnSerial DEF StartStarting, SerialRequest, osVars
  <1>7. CASE StartSpawn(c)
    <2>1. CASE SaveAndReturn(c, [inst[c] EXCEPT !.status = "error"]) /\ UNCHANGED osVars
      BY <1>7, <2>1, SaveAndReturnSerial DEF StartSpawn, osVars
    <2>2. ASSUME NEW p \in Pids,
                 kernel' = [kernel EXCEPT ![p] = "booting"],
                 cmd' = [cmd EXCEPT ![c] = p],
                 Goto(c, "s_register"),
                 UNCHANGED mishaps
          PROVE  SerialInv'
      <3>1. \A q \in Pids : Alive(q)' <=> q = p
        BY <1>0, <1>7, <2>2 DEF StartSpawn, SerialRequest, LiveKernels, Alive, TypeOK
      <3>2. pc'[c] = "s_register" /\ cmd'[c] = p
        BY <2>2 DEF Goto, TypeOK
      <3>3. SerialRequest(c)'
        BY <3>1, <3>2 DEF SerialRequest, LiveKernels
      <3>4. QED
        BY <1>0, <1>7, <2>2, <3>1, <3>2, <3>3 DEF StartSpawn, SerialInv, OneAtATime
    <2>3. QED
      BY <1>7, <2>1, <2>2 DEF StartSpawn
  <1>8. CASE StartRegister(c)
    <2>1. LiveKernels' = LiveKernels /\ cmd[c] \in Pids
      BY <1>8 DEF StartRegister, LiveKernels, Alive, osVars, WatchInv, RequestInv, TypeOK
    <2>2. ASSUME NEW p \in Pids, Alive(p)'
          PROVE  reg' = p /\ waiter'[p] = "waiting"
      BY <1>0, <1>8, <2>1, <2>2 DEF StartRegister, LiveKernels, SerialRequest, TypeOK
    <2>3. SerialRequest(c)'
      BY <1>8 DEF StartRegister, Goto, SerialRequest, TypeOK
    <2>4. QED
      BY <1>0, <1>8, <2>1, <2>2, <2>3 DEF StartRegister, SerialInv, OneAtATime, TypeOK
  <1>9. CASE StartReady(c)
    BY <1>0, <1>9, QuietSerial DEF StartReady, Goto, osVars, Blocks, StartBlocks
  <1>10. CASE StartAbort(c)
    BY <1>10, SaveAndReturnSerial DEF StartAbort, osVars
  <1>11. CASE StartRunning(c)
    BY <1>11, SaveAndReturnSerial DEF StartRunning, osVars
  <1>12. QED
    BY <1>1, <1>2, <1>3, <1>4, <1>5, <1>6, <1>7, <1>8, <1>9, <1>10, <1>11 DEF Start

LEMMA TerminateSerial ==
  ASSUME OneAtATime, TypeOK, WatchInv, SerialInv, NEW c \in Callers, Terminate(c)
  PROVE  SerialInv'
  <1>0. /\ SerialRequest(c) /\ mishaps = 0
        /\ cmd[c] \in Pids
        /\ pc[c] \in {"s_terminate", "p_terminate"}
    <2>1. SerialRequest(c) /\ mishaps = 0
      BY DEF SerialInv
    <2>2. pc[c] \in {"s_terminate", "p_terminate"}
      BY DEF Terminate, TerminateSeesExit, TerminateKills
    <2>3. cmd[c] \in Pids
      BY <2>2 DEF WatchInv, RequestInv, TypeOK
    <2>4. QED
      BY <2>1, <2>2, <2>3
  <1>1. CASE TerminateSeesExit(c)
    <2>1. pc[c] = "p_terminate" => LiveKernels = {}
      <3>1. ASSUME pc[c] = "p_terminate", NEW p \in LiveKernels
            PROVE  FALSE
        <4>1. p \in Pids /\ p = cmd[c] /\ Alive(p)
          BY <1>0, <3>1 DEF SerialRequest, LiveKernels
        <4>2. waiter[p] = "waiting"
          BY <3>1, <4>1 DEF SerialInv, OneAtATime
        <4>3. QED
          BY <1>1, <4>1, <4>2 DEF TerminateSeesExit
      <3>2. QED
        BY <3>1
    <2>2. PICK b \in {"s_abort", "p_stopped"} :
            Goto(c, b) /\ (b = "p_stopped" => pc[c] = "p_terminate")
      BY <1>0, <1>1 DEF TerminateSeesExit, AfterTerminate
    <2>3. b \in Blocks
      BY DEF Blocks, StartBlocks, StopBlocks
    <2>4. QED
      BY <1>0, <1>1, <2>1, <2>2, <2>3, QuietSerial DEF TerminateSeesExit, Goto, osVars
  <1>2. CASE TerminateKills(c)
    <2>1. \A p \in Pids : Alive(p)' => Alive(p) /\ p # cmd[c]
      BY <1>0, <1>2 DEF TerminateKills, Kill, Alive, osVars, TypeOK
    <2>2. pc[c] = "p_terminate" => LiveKernels' = {}
      BY <1>0, <2>1 DEF SerialRequest, LiveKernels
    <2>3. PICK b \in {"s_abort", "p_abort", "p_stopped"} :
            Goto(c, b) /\ (b = "p_stopped" => pc[c] = "p_terminate")
      BY <1>0, <1>2 DEF TerminateKills, AfterTerminate
    <2>4. SerialRequest(c)'
      BY <2>2, <2>3 DEF Goto, SerialRequest, TypeOK
    <2>5. ASSUME NEW p \in Pids, Alive(p)'
          PROVE  reg' = p /\ waiter'[p] = "waiting"
      BY <1>0, <1>2, <2>1, <2>5 DEF TerminateKills, SerialInv, OneAtATime
    <2>6. QED
      BY <1>0, <1>2, <2>4, <2>5 DEF TerminateKills, SerialInv, OneAtATime
  <1>3. QED
    BY <1>1, <1>2 DEF Terminate

LEMMA StopSerial ==
  ASSUME OneAtATime, TypeOK, SerialInv, NEW c \in Callers, Stop(c)
  PROVE  SerialInv'
  <1>0. SerialRequest(c) /\ mishaps = 0
    BY DEF SerialInv
  <1>1. CASE StopRead(c)
    BY <1>0, <1>1, QuietSerial DEF StopRead, Goto, osVars, Blocks, StopBlocks
  <1>2. CASE StopStopping(c)
    BY <1>2, SaveOrReturnSerial DEF StopStopping, osVars
  <1>3. CASE StopTake(c)
    <2>1. CASE reg # None
      <3>1. LiveKernels \subseteq {reg}
        BY <1>3 DEF StopTake, SerialInv, LiveKernels, OneAtATime
      <3>2. QED
        BY <1>0, <1>3, <2>1, <3>1, QuietSerial
        DEF StopTake, Goto, osVars, Blocks, StopBlocks, TypeOK
    <2>2. CASE reg = None
      <3>1. LiveKernels = {}
        BY <1>3, <2>2, RuntimeAssumption DEF StopTake, SerialInv, LiveKernels, OneAtATime
      <3>2. inst[c].pid # None => inst[c].pid \in Pids
        BY DEF TypeOK, Row
      <3>3. UNCHANGED kernel
        BY <1>3, <2>2, <3>1, <3>2 DEF StopTake, Kill, LiveKernels, osVars
      <3>4. QED
        BY <1>0, <1>3, <2>2, <3>1, <3>3, QuietSerial DEF StopTake, Goto, Blocks, StopBlocks
    <2>3. QED
      BY <2>1, <2>2
  <1>4. CASE StopAbort(c)
    BY <1>4, SaveAndReturnSerial DEF StopAbort, osVars
  <1>5. CASE StopStopped(c)
    BY <1>0, <1>5, SaveOrReturnSerial DEF StopStopped, SerialRequest, osVars
  <1>6. CASE StopForget(c)
    <2>1. LiveKernels = {} /\ LiveKernels' = LiveKernels
      BY <1>0, <1>6 DEF StopForget, SerialRequest, LiveKernels, Alive, osVars
    <2>2. SerialRequest(c)'
      BY <1>6 DEF StopForget, Return, Goto, SerialRequest, TypeOK
    <2>3. QED
      BY <1>0, <1>6, <2>1, <2>2 DEF StopForget, SerialInv, LiveKernels, OneAtATime
  <1>7. QED
    BY <1>1, <1>2, <1>3, <1>4, <1>5, <1>6 DEF Stop

LEMMA ReloadSerial ==
  ASSUME OneAtATime, TypeOK, SerialInv, NEW c \in Callers, Reload(c)
  PROVE  SerialInv'
  <1>0. mishaps = 0
    BY DEF SerialInv
  <1>1. CASE ReloadRead(c)
    BY <1>0, <1>1, QuietSerial DEF ReloadRead, Goto, osVars, Blocks, ReloadBlocks
  <1>2. CASE ReloadBuild(c)
    BY <1>0, <1>2, QuietSerial DEF ReloadBuild, Return, Goto, osVars, Blocks, ReloadBlocks
  <1>3. CASE ReloadPrevious(c)
    BY <1>0, <1>3, QuietSerial DEF ReloadPrevious, Goto, osVars, Blocks, ReloadBlocks
  <1>4. CASE ReloadWrite(c)
    <2>1. ~WriteFails(c)
      BY <1>0 DEF WriteFails, Mishap, OneAtATime
    <2>2. QED
      BY <1>0, <1>4, <2>1, QuietSerial DEF ReloadWrite, Goto, osVars, Blocks, ReloadBlocks
  <1>5. CASE ReloadReloading(c)
    BY <1>5, SaveOrReturnSerial DEF ReloadReloading, osVars
  <1>6. CASE ReloadCall(c)
    BY <1>0, <1>6, QuietSerial DEF ReloadCall, Goto, Blocks, ReloadBlocks
  <1>7. CASE ReloadRestore(c)
    <2>1. ~Mishap
      BY <1>0 DEF Mishap, OneAtATime
    <2>2. QED
      BY <1>0, <1>7, <2>1, QuietSerial DEF ReloadRestore, Goto, osVars, Blocks, ReloadBlocks
  <1>8. CASE ReloadError(c)
    BY <1>8, SaveAndReturnSerial DEF ReloadError, osVars
  <1>9. CASE ReloadRunning(c)
    BY <1>9, SaveAndReturnSerial DEF ReloadRunning, osVars
  <1>10. QED
    BY <1>1, <1>2, <1>3, <1>4, <1>5, <1>6, <1>7, <1>8, <1>9 DEF Reload

LEMMA WaitProcessExitSerial ==
  ASSUME OneAtATime, TypeOK, WatchInv, SerialInv, NEW p \in Pids, WaitProcessExit(p)
  PROVE  SerialInv'
  <1>1. ~Alive(p)
    BY DEF WaitProcessExit, ExitReap, ExitLock, ExitSave, WatchInv, ProcessInv, Dead, Alive
  <1>2. /\ UNCHANGED <<kernel, pc, cmd>>
        /\ \A q \in Pids \ {p} : waiter'[q] = waiter[q] /\ (reg = q => reg' = q)
        /\ waiter'[p] # "lost"
    BY DEF WaitProcessExit, ExitReap, ExitLock, ExitSave, osVars, reqVars, TypeOK
  <1>3. LiveKernels' = LiveKernels
    BY <1>2 DEF LiveKernels, Alive
  <1>4. mishaps' = 0
    BY SaveSerially DEF WaitProcessExit, ExitReap, ExitLock, ExitSave, SerialInv
  <1>5. ASSUME NEW q \in Pids, Alive(q)'
        PROVE  \/ reg' = q /\ waiter'[q] = "waiting"
               \/ \E c \in Callers : pc'[c] = "s_register" /\ cmd'[c] = q
    BY <1>1, <1>2, <1>5 DEF SerialInv, Alive
  <1>6. \A c \in Callers : SerialRequest(c)'
    BY <1>2, <1>3 DEF SerialInv, SerialRequest
  <1>7. QED
    BY <1>2, <1>4, <1>5, <1>6 DEF SerialInv

LEMMA EnvironmentSerial ==
  ASSUME OneAtATime, TypeOK, SerialInv, Edit \/ PoolXRestart \/ \E p \in Pids : Kernel(p)
  PROVE  SerialInv'
  <1>1. ~PoolXRestart
    BY DEF PoolXRestart, Mishap, SerialInv, OneAtATime
  <1>2. /\ UNCHANGED <<reg, waiter, pc, cmd, mishaps>>
        /\ \A p \in Pids : Alive(p)' => Alive(p)
    BY <1>1 DEF Edit, Kernel, KernelBoot, KernelExit, KernelLateReload, Alive, osVars, reqVars,
           TypeOK
  <1>3. LiveKernels' \subseteq LiveKernels
    BY <1>2 DEF LiveKernels
  <1>4. \A c \in Callers : SerialRequest(c)'
    BY <1>2, <1>3 DEF SerialInv, SerialRequest
  <1>5. QED
    BY <1>2, <1>4 DEF SerialInv

LEMMA AlwaysSerial ==
  ASSUME OneAtATime
  PROVE  Spec => [](TypeOK /\ WatchInv /\ SerialInv)
  <1>1. Init => SerialInv
    BY DEF Init, SerialInv, SerialRequest, LiveKernels, Alive
  <1>2. ASSUME TypeOK, WatchInv, SerialInv, [Next]_vars
        PROVE  SerialInv'
    <2>1. CASE UNCHANGED vars
      <3>1. LiveKernels' = LiveKernels
        BY <2>1 DEF vars, osVars, LiveKernels, Alive
      <3>2. QED
        BY <1>2, <2>1, <3>1 DEF vars, osVars, reqVars, SerialInv, SerialRequest, Alive
    <2>2. CASE Next
      BY <1>2, <2>2, StartSerial, TerminateSerial, StopSerial, ReloadSerial,
         WaitProcessExitSerial, EnvironmentSerial DEF Next, Request
    <2>3. QED
      BY <1>2, <2>1, <2>2
  <1>3. QED
    BY <1>1, <1>2, AlwaysWatched, PTL DEF Spec

\* With requests one at a time, no failed write and no restart, a living kernel is in the
\* registry except between its spawn and its registration (runtime.go:135-147).
THEOREM NeverStray == ASSUME OneAtATime PROVE Spec => []NoStrayKernel
  <1>1. SerialInv => NoStrayKernel
    BY DEF SerialInv, NoStrayKernel
  <1>2. QED
    BY <1>1, AlwaysSerial, PTL

\* ... and two kernels never live at once: the registry check at the head of StartRuntime
\* (runtime.go:77-82) is enough when nothing interleaves with it.
THEOREM SeriallySingle == ASSUME OneAtATime PROVE Spec => []SingleKernel
  <1>1. SerialInv => SingleKernel
    BY DEF SerialInv, SerialRequest, SingleKernel, LiveKernels, OneAtATime
  <1>2. QED
    BY <1>1, AlwaysSerial, PTL

-----------------------------------------------------------------------------
(* Refinement: what runs is one kernel and a configuration PoolX wrote *)

\* The controller address and a pending reload belong to a kernel that is up; a
\* kernel that is not up runs no configuration; and, no write having failed, a kernel
\* was only ever started after its file was written.
FileInv ==
  /\ ctl # None => kernel[ctl] = "up"
  /\ \A p \in Pids : late[p] => kernel[p] = "up"
  /\ \A p \in Pids : kernel[p] # "up" => loaded[p] = None
  /\ (\E p \in Pids : kernel[p] # "unborn") => file # None
  /\ \A c \in Callers : pc[c] \in {"s_write", "r_previous", "r_write"} => cfg[c] # None
  /\ \A c \in Callers : pc[c] \in {"s_probe", "s_starting", "s_spawn"} => file # None

\* Steps that leave the processes and the file alone can only disturb FileInv by
\* bringing the request into a block that relies on a written file.
LEMMA QuietFile ==
  ASSUME TypeOK, FileInv, NEW c \in Callers, NEW b \in Blocks,
         pc' = [pc EXCEPT ![c] = b],
         b \in {"s_write", "r_previous", "r_write"} => cfg'[c] # None,
         b \in {"s_probe", "s_starting", "s_spawn"} => file # None,
         \A d \in Callers \ {c} : cfg'[d] = cfg[d],
         UNCHANGED <<osVars, file>>
  PROVE  FileInv'
  BY DEF FileInv, TypeOK, osVars

LEMMA SaveAndReturnFile ==
  ASSUME TypeOK, FileInv, NEW c \in Callers, NEW r, SaveAndReturn(c, r),
         UNCHANGED <<osVars, file>>
  PROVE  FileInv'
  BY QuietFile DEF SaveAndReturn, Return, Goto, Blocks, TypeOK

LEMMA SaveOrReturnFile ==
  ASSUME TypeOK, FileInv, NEW c \in Callers, NEW r,
         NEW b \in {"s_spawn", "p_take", "p_forget", "r_call"},
         b = "s_spawn" => file # None,
         SaveOrReturn(c, r, b),
         UNCHANGED <<osVars, file>>
  PROVE  FileInv'
  <1>1. CASE Return(c)
    BY <1>1, QuietFile DEF Return, Goto, Blocks, TypeOK
  <1>2. CASE Goto(c, b) /\ UNCHANGED cfg
    BY <1>2, QuietFile DEF Goto, Blocks, StartBlocks, StopBlocks, ReloadBlocks
  <1>3. QED
    BY <1>1, <1>2 DEF SaveOrReturn

LEMMA KillFile ==
  ASSUME TypeOK, FileInv, NEW p \in Pids, Kill(p), UNCHANGED file
  PROVE  /\ ctl' # None => kernel'[ctl'] = "up"
         /\ \A q \in Pids : late'[q] => kernel'[q] = "up"
         /\ \A q \in Pids : kernel'[q] # "up" => loaded'[q] = None
         /\ (\E q \in Pids : kernel'[q] # "unborn") => file' # None
  BY DEF TypeOK, FileInv, Kill, Alive, osVars

LEMMA StartFile ==
  ASSUME OneAtATime, TypeOK, SerialInv, FileInv, NEW c \in Callers, Start(c)
  PROVE  FileInv'
  <1>1. CASE StartCheck(c)
    BY <1>1, QuietFile DEF StartCheck, Goto, Blocks, StartBlocks
  <1>2. CASE StartRead(c)
    BY <1>2, QuietFile DEF StartRead, Goto, Blocks, StartBlocks
  <1>3. CASE StartBuild(c)
    <2>1. CASE desired # None
      BY <1>3, <2>1, QuietFile DEF StartBuild, Goto, Blocks, StartBlocks, TypeOK
    <2>2. CASE desired = None
      BY <1>3, <2>2, SaveAndReturnFile DEF StartBuild
    <2>3. QED
      BY <2>1, <2>2
  <1>4. CASE StartWrite(c)
    <2>1. ~WriteFails(c)
      BY DEF SerialInv, WriteFails, Mishap, OneAtATime
    <2>2. QED
      BY <1>4, <2>1 DEF StartWrite, FileInv, TypeOK, Goto, osVars
  <1>5. CASE StartProbe(c)
    <2>1. CASE Goto(c, "s_starting") /\ UNCHANGED cfg
      BY <1>5, <2>1, QuietFile DEF StartProbe, FileInv, Goto, Blocks, StartBlocks
    <2>2. CASE SaveAndReturn(c, [inst[c] EXCEPT !.status = "error"])
      BY <1>5, <2>2, SaveAndReturnFile DEF StartProbe
    <2>3. QED
      BY <1>5, <2>1, <2>2 DEF StartProbe
  <1>6. CASE StartStarting(c)
    BY <1>6, SaveOrReturnFile DEF StartStarting, FileInv
  <1>7. CASE StartSpawn(c)
    <2>1. CASE SaveAndReturn(c, [inst[c] EXCEPT !.status = "error"]) /\ UNCHANGED osVars
      BY <1>7, <2>1, SaveAndReturnFile DEF StartSpawn
    <2>2. ASSUME NEW p \in Pids,
                 kernel[p] = "unborn",
                 kernel' = [kernel EXCEPT ![p] = "booting"],
                 Goto(c, "s_register"),
                 UNCHANGED <<cfg, loaded, late, ctl>>
          PROVE  FileInv'
      BY <1>7, <2>2 DEF StartSpawn, FileInv, Goto, TypeOK
    <2>3. QED
      BY <1>7, <2>1, <2>2 DEF StartSpawn
  <1>8. CASE StartRegister(c)
    BY <1>8, QuietFile DEF StartRegister, Goto, Blocks, StartBlocks
  <1>9. CASE StartReady(c)
    BY <1>9, QuietFile DEF StartReady, Goto, Blocks, StartBlocks
  <1>10. CASE StartAbort(c)
    BY <1>10, SaveAndReturnFile DEF StartAbort
  <1>11. CASE StartRunning(c)
    BY <1>11, SaveAndReturnFile DEF StartRunning
  <1>12. QED
    BY <1>1, <1>2, <1>3, <1>4, <1>5, <1>6, <1>7, <1>8, <1>9, <1>10, <1>11 DEF Start

LEMMA StopFile ==
  ASSUME TypeOK, WatchInv, FileInv, NEW c \in Callers, Terminate(c) \/ Stop(c)
  PROVE  FileInv'
  <1>1. CASE Terminate(c)
    <2>1. PICK b \in {"s_abort", "p_abort", "p_stopped"} : Goto(c, b) /\ UNCHANGED <<cfg, file>>
      BY <1>1 DEF Terminate, TerminateSeesExit, TerminateKills, AfterTerminate
    <2>2. b \in Blocks
      BY DEF Blocks, StartBlocks, StopBlocks
    <2>3. CASE TerminateSeesExit(c)
      BY <2>1, <2>2, <2>3, QuietFile DEF TerminateSeesExit, Goto
    <2>4. CASE TerminateKills(c)
      <3>1. cmd[c] \in Pids /\ Kill(cmd[c])
        BY <2>4 DEF TerminateKills, WatchInv, RequestInv, TypeOK
      <3>2. QED
        BY <2>1, <3>1, KillFile DEF Goto, FileInv, TypeOK
    <2>5. QED
      BY <1>1, <2>3, <2>4 DEF Terminate
  <1>2. CASE StopRead(c)
    BY <1>2, QuietFile DEF StopRead, Goto, Blocks, StopBlocks
  <1>3. CASE StopStopping(c)
    BY <1>3, SaveOrReturnFile DEF StopStopping
  <1>4. CASE StopTake(c)
    <2>1. PICK b \in {"p_terminate", "p_stopped"} : Goto(c, b) /\ UNCHANGED <<cfg, file>>
      BY <1>4 DEF StopTake
    <2>2. b \in Blocks
      BY DEF Blocks, StopBlocks
    <2>3. CASE UNCHANGED osVars
      BY <2>1, <2>2, <2>3, QuietFile DEF Goto
    <2>4. CASE inst[c].pid # None /\ Kill(inst[c].pid)
      <3>1. inst[c].pid \in Pids
        BY <2>4 DEF TypeOK, Row
      <3>2. QED
        BY <2>1, <2>4, <3>1, KillFile DEF Goto, FileInv, TypeOK
    <2>5. QED
      BY <1>4, <2>3, <2>4 DEF StopTake
  <1>5. CASE StopAbort(c)
    BY <1>5, SaveAndReturnFile DEF StopAbort
  <1>6. CASE StopStopped(c)
    BY <1>6, SaveOrReturnFile DEF StopStopped
  <1>7. CASE StopForget(c)
    BY <1>7, QuietFile DEF StopForget, Return, Goto, Blocks, TypeOK
  <1>8. QED
    BY <1>1, <1>2, <1>3, <1>4, <1>5, <1>6, <1>7 DEF Stop

LEMMA ReloadFile ==
  ASSUME OneAtATime, TypeOK, SerialInv, FileInv, NEW c \in Callers, Reload(c)
  PROVE  FileInv'
  <1>1. CASE ReloadRead(c)
    BY <1>1, QuietFile DEF ReloadRead, Goto, Blocks, ReloadBlocks
  <1>2. CASE ReloadBuild(c)
    <2>1. CASE Return(c)
      BY <1>2, <2>1, QuietFile DEF ReloadBuild, Return, Goto, Blocks, TypeOK
    <2>2. CASE ~Return(c)
      BY <1>2, <2>2, QuietFile DEF ReloadBuild, Goto, Blocks, ReloadBlocks, TypeOK
    <2>3. QED
      BY <2>1, <2>2
  <1>3. CASE ReloadPrevious(c)
    BY <1>3, QuietFile DEF ReloadPrevious, FileInv, Goto, Blocks, ReloadBlocks
  <1>4. CASE ReloadWrite(c)
    <2>1. ~WriteFails(c)
      BY DEF SerialInv, WriteFails, Mishap, OneAtATime
    <2>2. QED
      BY <1>4, <2>1 DEF ReloadWrite, FileInv, TypeOK, Goto, osVars
  <1>5. CASE ReloadReloading(c)
    BY <1>5, SaveOrReturnFile DEF ReloadReloading
  <1>6. CASE ReloadCall(c)
    BY <1>6 DEF ReloadCall, FileInv, TypeOK, Goto
  <1>7. CASE ReloadRestore(c)
    <2>1. ~Mishap
      BY DEF SerialInv, Mishap, OneAtATime
    <2>2. QED
      BY <1>7, <2>1 DEF ReloadRestore, FileInv, TypeOK, Goto, osVars
  <1>8. CASE ReloadError(c)
    BY <1>8, SaveAndReturnFile DEF ReloadError
  <1>9. CASE ReloadRunning(c)
    BY <1>9, SaveAndReturnFile DEF ReloadRunning
  <1>10. QED
    BY <1>1, <1>2, <1>3, <1>4, <1>5, <1>6, <1>7, <1>8, <1>9 DEF Reload

LEMMA EnvironmentFile ==
  ASSUME TypeOK, FileInv,
         Edit \/ PoolXRestart \/ \E p \in Pids : WaitProcessExit(p) \/ Kernel(p)
  PROVE  FileInv'
  <1>1. CASE Edit
    BY <1>1 DEF Edit, FileInv, osVars, reqVars
  <1>2. CASE PoolXRestart
    BY <1>2 DEF PoolXRestart, FileInv, osVars
  <1>3. ASSUME NEW p \in Pids, WaitProcessExit(p)
        PROVE  FileInv'
    BY <1>3 DEF WaitProcessExit, ExitReap, ExitLock, ExitSave, FileInv, osVars, reqVars
  <1>4. ASSUME NEW p \in Pids, KernelBoot(p) \/ KernelExit(p) \/ KernelLateReload(p)
        PROVE  FileInv'
    BY <1>4 DEF KernelBoot, KernelExit, KernelLateReload, FileInv, TypeOK, Alive, reqVars
  <1>5. QED
    BY <1>1, <1>2, <1>3, <1>4 DEF Kernel

LEMMA AlwaysFile ==
  ASSUME OneAtATime
  PROVE  Spec => [](TypeOK /\ WatchInv /\ SerialInv /\ FileInv)
  <1>1. Init => FileInv
    BY DEF Init, FileInv
  <1>2. ASSUME TypeOK, WatchInv, SerialInv, FileInv, [Next]_vars
        PROVE  FileInv'
    <2>1. CASE UNCHANGED vars
      BY <1>2, <2>1 DEF vars, osVars, reqVars, FileInv
    <2>2. CASE Next
      BY <1>2, <2>2, StartFile, StopFile, ReloadFile, EnvironmentFile DEF Next, Request
    <2>3. QED
      BY <1>2, <2>1, <2>2
  <1>3. QED
    BY <1>1, <1>2, AlwaysSerial, PTL DEF Spec

\* What KernelService's config stands for.
RunningConfig == IF LiveKernels = {} THEN None ELSE loaded[CHOOSE p \in Pids : Alive(p)]

ConfigOfTheLiving == \A p \in Pids : LiveKernels = {p} => RunningConfig = loaded[p]

LEMMA ConfigOfOne == ConfigOfTheLiving
  <1>1. ASSUME NEW p \in Pids, LiveKernels = {p}
        PROVE  (CHOOSE q \in Pids : Alive(q)) = p
    <2>1. Alive(p) /\ \A q \in Pids : Alive(q) => q = p
      BY <1>1 DEF LiveKernels
    <2>2. QED
      BY <2>1
  <1>2. QED
    BY <1>1 DEF RunningConfig, ConfigOfTheLiving

LEMMA ConfigOfOneNext == ConfigOfTheLiving'
  BY ConfigOfOne, PTL

\* The kernel processes as KernelService sees them.
Spawned == {p \in Pids : kernel[p] # "unborn"}

ServiceStep ==
  \/ \E p \in Pids : /\ LiveKernels = {} /\ p \notin Spawned
                     /\ LiveKernels' = {p} /\ Spawned' = Spawned \cup {p}
                     /\ RunningConfig' = None
  \/ /\ LiveKernels # {} /\ RunningConfig' \in Configs
     /\ LiveKernels' = LiveKernels /\ Spawned' = Spawned
  \/ /\ LiveKernels # {} /\ LiveKernels' = {} /\ RunningConfig' = None
     /\ Spawned' = Spawned
  \/ UNCHANGED <<LiveKernels, Spawned, RunningConfig>>

LEMMA ServiceStepIsService ==
  ASSUME ServiceStep
  PROVE  [Service!Next]_(Service!abstractVars)
  BY DEF ServiceStep, RunningConfig, Spawned, Service!Next, Service!Launch, Service!Load,
         Service!End, Service!abstractVars

\* A step that leaves every kernel and what it runs alone is a stutter.
LEMMA QuietRefines ==
  ASSUME SingleKernel, UNCHANGED <<kernel, loaded>>
  PROVE  ServiceStep
  <1>1. LiveKernels' = LiveKernels /\ Spawned' = Spawned
    BY DEF LiveKernels, Alive, Spawned
  <1>2. RunningConfig' = RunningConfig
    <2>1. CASE LiveKernels = {}
      BY <1>1, <2>1 DEF RunningConfig
    <2>2. CASE LiveKernels # {}
      <3>1. PICK p \in Pids : LiveKernels = {p}
        BY <2>2 DEF LiveKernels, SingleKernel
      <3>2. RunningConfig = loaded[p] /\ RunningConfig' = loaded'[p]
        BY <1>1, <3>1, ConfigOfOne, ConfigOfOneNext DEF ConfigOfTheLiving
      <3>3. QED
        BY <3>2
    <2>3. QED
      BY <2>1, <2>2
  <1>3. QED
    BY <1>1, <1>2 DEF ServiceStep

\* A kernel that boots or is reloaded reads the file: that is Load.
LEMMA LoadRefines ==
  ASSUME TypeOK, SingleKernel, FileInv, NEW p \in Pids, Alive(p),
         \A q \in Pids : Alive(q)' <=> Alive(q),
         \A q \in Pids : kernel'[q] = "unborn" <=> kernel[q] = "unborn",
         loaded' = [loaded EXCEPT ![p] = file]
  PROVE  ServiceStep
  <1>1. LiveKernels = {p} /\ LiveKernels' = {p} /\ Spawned' = Spawned
    BY DEF LiveKernels, Spawned, SingleKernel
  <1>2. file \in Configs
    BY DEF FileInv, Alive, TypeOK
  <1>3. RunningConfig' = file
    BY <1>1, ConfigOfOneNext DEF ConfigOfTheLiving, TypeOK
  <1>4. QED
    BY <1>1, <1>2, <1>3 DEF ServiceStep

\* A kernel that exits or is killed was the only one: that is End.
LEMMA EndRefines ==
  ASSUME TypeOK, SingleKernel, NEW p \in Pids, Alive(p),
         NEW end \in {"exited", "failed"}, kernel' = [kernel EXCEPT ![p] = end]
  PROVE  ServiceStep
  <1>1. LiveKernels = {p} /\ LiveKernels' = {}
    BY DEF LiveKernels, SingleKernel, Alive, TypeOK
  <1>2. Spawned' = Spawned
    BY DEF Spawned, Alive, TypeOK
  <1>3. RunningConfig' = None
    BY <1>1 DEF RunningConfig
  <1>4. QED
    BY <1>1, <1>2, <1>3 DEF ServiceStep

LEMMA KillRefines ==
  ASSUME TypeOK, SingleKernel, NEW p \in Pids, Kill(p)
  PROVE  ServiceStep
  <1>1. CASE Alive(p)
    BY <1>1, EndRefines DEF Kill
  <1>2. CASE ~Alive(p)
    BY <1>2, QuietRefines DEF Kill, osVars
  <1>3. QED
    BY <1>1, <1>2

\* A spawn finds no living kernel: that is Launch.
LEMMA SpawnRefines ==
  ASSUME OneAtATime, TypeOK, SerialInv, FileInv, SingleKernel, NEW c \in Callers, StartSpawn(c)
  PROVE  ServiceStep
  <1>1. CASE UNCHANGED osVars
    BY <1>1, QuietRefines DEF osVars
  <1>2. ASSUME NEW p \in Pids, kernel[p] = "unborn", UNCHANGED loaded,
               kernel' = [kernel EXCEPT ![p] = "booting"]
        PROVE  ServiceStep
    <2>1. LiveKernels = {}
      BY DEF StartSpawn, SerialInv, SerialRequest
    <2>2. LiveKernels' = {p} /\ Spawned' = Spawned \cup {p} /\ p \notin Spawned
      BY <1>2, <2>1 DEF LiveKernels, Spawned, Alive, TypeOK
    <2>3. RunningConfig' = None
      BY <1>2, <2>2, ConfigOfOneNext DEF ConfigOfTheLiving, FileInv
    <2>4. QED
      BY <2>1, <2>2, <2>3 DEF ServiceStep
  <1>3. QED
    BY <1>1, <1>2 DEF StartSpawn

LEMMA StepRefines ==
  ASSUME OneAtATime, TypeOK, WatchInv, SerialInv, FileInv, SingleKernel, [Next]_vars
  PROVE  ServiceStep
  <1>1. CASE UNCHANGED <<kernel, loaded>>
    BY <1>1, QuietRefines
  <1>2. ASSUME NEW c \in Callers, Start(c)
        PROVE  ServiceStep
    <2>1. CASE StartSpawn(c)
      BY <2>1, SpawnRefines
    <2>2. CASE ~StartSpawn(c)
      BY <1>1, <1>2, <2>2 DEF Start, StartCheck, StartRead, StartBuild, StartWrite, StartProbe,
         StartStarting, StartRegister, StartReady, StartAbort, StartRunning, osVars
    <2>3. QED
      BY <2>1, <2>2
  <1>3. ASSUME NEW c \in Callers, Terminate(c)
        PROVE  ServiceStep
    <2>1. CASE TerminateSeesExit(c)
      BY <1>1, <2>1 DEF TerminateSeesExit, osVars
    <2>2. CASE TerminateKills(c)
      BY <2>2, KillRefines DEF TerminateKills, WatchInv, RequestInv, TypeOK
    <2>3. QED
      BY <1>3, <2>1, <2>2 DEF Terminate
  <1>4. ASSUME NEW c \in Callers, Stop(c)
        PROVE  ServiceStep
    <2>1. CASE StopTake(c)
      <3>1. CASE UNCHANGED osVars
        BY <1>1, <3>1 DEF osVars
      <3>2. CASE inst[c].pid # None /\ Kill(inst[c].pid)
        BY <3>2, KillRefines DEF TypeOK, Row
      <3>3. QED
        BY <2>1, <3>1, <3>2 DEF StopTake
    <2>2. CASE ~StopTake(c)
      BY <1>1, <1>4, <2>2 DEF Stop, StopRead, StopStopping, StopAbort, StopStopped, StopForget,
         osVars
    <2>3. QED
      BY <2>1, <2>2
  <1>5. ASSUME NEW c \in Callers, Reload(c)
        PROVE  ServiceStep
    <2>1. CASE ctl # None /\ loaded' = [loaded EXCEPT ![ctl] = file] /\ UNCHANGED kernel
      <3>1. ctl \in Pids /\ Alive(ctl)
        BY <2>1 DEF FileInv, Alive, TypeOK
      <3>2. QED
        BY <2>1, <3>1, LoadRefines DEF Alive
    <2>2. CASE UNCHANGED <<kernel, loaded>>
      BY <1>1, <2>2
    <2>3. QED
      BY <1>5, <2>1, <2>2 DEF Reload, ReloadRead, ReloadBuild, ReloadPrevious, ReloadWrite,
         ReloadReloading, ReloadCall, ReloadRestore, ReloadError, ReloadRunning, osVars
  <1>6. ASSUME NEW p \in Pids, Kernel(p)
        PROVE  ServiceStep
    <2>1. CASE KernelBoot(p)
      BY <2>1, LoadRefines DEF KernelBoot, Alive, TypeOK
    <2>2. CASE KernelExit(p)
      BY <2>2, EndRefines DEF KernelExit
    <2>3. CASE KernelLateReload(p)
      BY <2>3, LoadRefines DEF KernelLateReload, FileInv, Alive
    <2>4. QED
      BY <1>6, <2>1, <2>2, <2>3 DEF Kernel
  <1>7. CASE Edit \/ PoolXRestart \/ UNCHANGED vars \/ \E p \in Pids : WaitProcessExit(p)
    BY <1>1, <1>7 DEF Edit, PoolXRestart, WaitProcessExit, ExitReap, ExitLock, ExitSave, vars,
       osVars
  <1>8. QED
    BY <1>2, <1>3, <1>4, <1>5, <1>6, <1>7 DEF Next, Request

\* Requests one at a time, without restarts or failed writes, make the runtime implement
\* KernelService: kernels are launched one after the other, never while one lives, and only
\* ever run a configuration PoolX wrote to the file.
THEOREM RuntimeIsKernelService == ASSUME OneAtATime PROVE Spec => ImplementsKernelService
  <1>1. Init => Service!Init
    BY DEF Init, Service!Init, LiveKernels, Alive
  <1>2. ASSUME TypeOK, WatchInv, SerialInv, FileInv, SingleKernel, [Next]_vars
        PROVE  [Service!Next]_(Service!abstractVars)
    BY <1>2, StepRefines, ServiceStepIsService
  <1>3. QED
    BY <1>1, <1>2, AlwaysFile, SeriallySingle, PTL
    DEF Spec, ImplementsKernelService, Service!Spec

\* When every request has returned and every exit is recorded, GetRuntimeStatus says running
\* exactly when a kernel lives (runtime.go:280-317), for any number of kernels and configs.
THEOREM StatusAlwaysReports == ASSUME OneAtATime PROVE Spec => []StatusReportsKernel
  <1>1. ASSUME TypeOK, WatchInv, SerialInv, FileInv, Settled
        PROVE  ReportedRunning <=> LiveKernels # {}
    <2>1. ASSUME NEW p \in Pids, Alive(p)
          PROVE  ReportedRunning
      <3>1. reg = p /\ waiter[p] = "waiting"
        BY <1>1, <2>1 DEF SerialInv, Settled
      <3>2. QED
        BY <3>1, RuntimeAssumption DEF ReportedRunning, Running
    <2>2. ASSUME ReportedRunning
          PROVE  LiveKernels # {}
      <3>1. CASE Running(reg)
        BY <1>1, <3>1 DEF Running, Settled, LiveKernels, TypeOK
      <3>2. CASE ctl # None
        BY <1>1, <3>2 DEF FileInv, LiveKernels, Alive, TypeOK
      <3>3. QED
        BY <2>2, <3>1, <3>2 DEF ReportedRunning
    <2>3. QED
      BY <2>1, <2>2 DEF LiveKernels
  <1>2. TypeOK /\ WatchInv /\ SerialInv /\ FileInv => StatusReportsKernel
    BY <1>1 DEF StatusReportsKernel
  <1>3. QED
    BY <1>2, AlwaysFile, PTL

-----------------------------------------------------------------------------
(* The configuration that runs is the one the row names *)

\* A request saves another status before it does anything a row at running would deny;
\* until it reports its own success the file is the configuration it rendered.
Unreported == {"s_spawn", "s_register", "s_ready", "s_terminate", "s_abort", "s_running",
               "p_take", "p_terminate", "p_abort", "p_stopped", "p_forget",
               "r_call", "r_restore", "r_error", "r_running"}
Written == {"s_probe", "s_starting", "s_spawn", "s_register", "s_ready", "s_running",
            "r_reloading", "r_call", "r_running"}

AppliesFile == \A p \in Pids : kernel[p] = "up" => late[p] \/ loaded[p] = file

ConfigRequest(c) ==
  /\ pc[c] \in Unreported => row.status # "running"
  /\ pc[c] \in Written => file = cfg[c]
  /\ pc[c] \in {"s_spawn", "s_register", "s_ready", "s_running"} => inst[c].checksum = cfg[c]
  /\ pc[c] \in {"s_register", "s_ready", "s_running", "r_running"} => AppliesFile
  /\ pc[c] \in {"s_running", "r_running"} => \A p \in Pids : Alive(p) => kernel[p] = "up"

RowTrue ==
  row.status = "running" => \A p \in Pids : Alive(p) =>
    kernel[p] = "up" /\ file = row.checksum /\ (late[p] \/ loaded[p] = file)

ConfigInv ==
  /\ \A c \in Callers : ConfigRequest(c)
  /\ (\A c \in Callers : pc[c] # "r_reloading") => RowTrue

\* A step that leaves the processes, the file and the row alone, except that it may save
\* another status than running.
LEMMA QuietConfig ==
  ASSUME OneAtATime, TypeOK, ConfigInv, NEW c \in Callers, NEW b \in Blocks,
         pc' = [pc EXCEPT ![c] = b],
         row' = row \/ row'.status # "running",
         b \in Unreported => row'.status # "running",
         b \in Written => file = cfg'[c],
         b \in {"s_spawn", "s_register", "s_ready", "s_running"} => inst'[c].checksum = cfg'[c],
         b \in {"s_register", "s_ready", "s_running", "r_running"} => AppliesFile,
         b \in {"s_running", "r_running"} => \A p \in Pids : Alive(p) => kernel[p] = "up",
         pc[c] = "r_reloading" => row'.status # "running",
         UNCHANGED <<osVars, file>>
  PROVE  ConfigInv'
  <1>1. pc'[c] = b /\ UNCHANGED <<kernel, loaded, late, file>>
    BY DEF TypeOK, osVars
  <1>2. (AppliesFile' <=> AppliesFile) /\ \A p \in Pids : Alive(p)' <=> Alive(p)
    BY <1>1 DEF AppliesFile, Alive
  <1>3. ConfigRequest(c)'
    BY <1>1, <1>2 DEF ConfigRequest
  <1>4. RowTrue'
    <2>1. CASE row'.status # "running"
      BY <2>1 DEF RowTrue
    <2>2. CASE row'.status = "running"
      <3>1. row' = row /\ pc[c] # "r_reloading"
        BY <2>2
      <3>2. RowTrue
        BY <3>1 DEF ConfigInv, OneAtATime
      <3> QED
        BY <1>1, <1>2, <3>1, <3>2 DEF RowTrue
    <2> QED
      BY <2>1, <2>2
  <1> QED
    BY <1>3, <1>4 DEF ConfigInv, OneAtATime

LEMMA SaveAndReturnConfig ==
  ASSUME OneAtATime, TypeOK, SerialInv, ConfigInv, NEW c \in Callers, NEW r, r.status # "running",
         SaveAndReturn(c, r), UNCHANGED <<osVars, file>>
  PROVE  ConfigInv'
  <1>1. row' = r /\ pc' = [pc EXCEPT ![c] = "idle"]
    BY DEF SaveAndReturn, Save, SaveFails, Mishap, Return, Goto, SerialInv, OneAtATime
  <1> QED
    BY <1>1, QuietConfig DEF Blocks, Unreported, Written

LEMMA SaveOrReturnConfig ==
  ASSUME OneAtATime, TypeOK, SerialInv, ConfigInv, NEW c \in Callers, NEW r \in Row,
         r.status # "running", NEW b \in {"s_spawn", "p_take", "p_forget", "r_call"},
         SaveOrReturn(c, r, b),
         b \in {"s_spawn", "r_call"} => file = cfg[c],
         b = "s_spawn" => r.checksum = cfg[c],
         UNCHANGED <<osVars, file>>
  PROVE  ConfigInv'
  <1>1. /\ row' = r /\ pc' = [pc EXCEPT ![c] = b] /\ UNCHANGED cfg
        /\ inst' = [inst EXCEPT ![c] = r]
    BY DEF SaveOrReturn, Save, SaveFails, Mishap, Goto, SerialInv, OneAtATime
  <1>2. inst'[c] = r /\ b \in Blocks
    BY <1>1 DEF TypeOK, Blocks, StartBlocks, StopBlocks, ReloadBlocks
  <1> QED
    BY <1>1, <1>2, QuietConfig DEF Written

LEMMA StartConfig ==
  ASSUME OneAtATime, TypeOK, WatchInv, SerialInv, FileInv, ConfigInv, NEW c \in Callers, Start(c)
  PROVE  ConfigInv'
  <1> USE DEF Unreported, Written
  <1>0. ConfigRequest(c) /\ SerialRequest(c) /\ mishaps = 0 /\ inst[c] \in Row
    BY DEF ConfigInv, SerialInv, TypeOK
  <1>1. CASE StartCheck(c)
    BY <1>1, QuietConfig DEF StartCheck, Goto, Blocks, StartBlocks
  <1>2. CASE StartRead(c)
    BY <1>2, QuietConfig DEF StartRead, Goto, Blocks, StartBlocks
  <1>3. CASE StartBuild(c)
    <2>1. CASE desired # None
      BY <1>3, <2>1, QuietConfig DEF StartBuild, Goto, Blocks, StartBlocks
    <2>2. CASE desired = None
      <3>1. [inst[c] EXCEPT !.status = "error", !.pid = None].status # "running"
        BY <1>0 DEF Row
      <3> QED
        BY <1>3, <2>2, <3>1, SaveAndReturnConfig DEF StartBuild
    <2> QED
      BY <2>1, <2>2
  <1>4. CASE StartWrite(c)
    <2>1. /\ file' = cfg[c] /\ pc' = [pc EXCEPT ![c] = "s_probe"]
          /\ UNCHANGED <<cfg, kernel, row>> /\ LiveKernels = {}
      BY <1>0, <1>4 DEF StartWrite, WriteFails, Mishap, OneAtATime, Goto, SerialRequest, osVars
    <2>2. ConfigRequest(c)'
      BY <2>1 DEF ConfigRequest, TypeOK
    <2>3. RowTrue'
      BY <2>1 DEF RowTrue, LiveKernels, Alive
    <2> QED
      BY <2>2, <2>3 DEF ConfigInv, OneAtATime
  <1>5. CASE StartProbe(c)
    <2>1. CASE Goto(c, "s_starting") /\ UNCHANGED <<row, cfg>>
      BY <1>0, <1>5, <2>1, QuietConfig
      DEF StartProbe, ConfigRequest, Goto, Blocks, StartBlocks
    <2>2. CASE SaveAndReturn(c, [inst[c] EXCEPT !.status = "error"])
      <3>1. [inst[c] EXCEPT !.status = "error"].status # "running"
        BY <1>0 DEF Row
      <3> QED
        BY <1>5, <2>2, <3>1, SaveAndReturnConfig DEF StartProbe
    <2> QED
      BY <1>5, <2>1, <2>2 DEF StartProbe
  <1>6. CASE StartStarting(c)
    <2> DEFINE r == [inst[c] EXCEPT !.status = "starting", !.checksum = cfg[c]]
    <2>1. r \in Row /\ r.status # "running" /\ r.checksum = cfg[c]
      BY <1>0 DEF Row, TypeOK, Statuses
    <2>2. SaveOrReturn(c, r, "s_spawn") /\ file = cfg[c] /\ UNCHANGED <<osVars, file>>
      BY <1>0, <1>6 DEF StartStarting, ConfigRequest
    <2> HIDE DEF r
    <2> QED
      BY <2>1, <2>2, SaveOrReturnConfig
  <1>7. CASE StartSpawn(c)
    <2>1. CASE SaveAndReturn(c, [inst[c] EXCEPT !.status = "error"]) /\ UNCHANGED osVars
      <3>1. [inst[c] EXCEPT !.status = "error"].status # "running"
        BY <1>0 DEF Row
      <3> QED
        BY <1>7, <2>1, <3>1, SaveAndReturnConfig DEF StartSpawn
    <2>2. ASSUME NEW p \in Pids,
                 kernel' = [kernel EXCEPT ![p] = "booting"],
                 inst' = [inst EXCEPT ![c].pid = p],
                 Goto(c, "s_register"),
                 UNCHANGED <<row, cfg>>
          PROVE  ConfigInv'
      <3>1. \A q \in Pids : kernel'[q] # "up"
        BY <1>0, <1>7, <2>2 DEF StartSpawn, SerialRequest, LiveKernels, Alive, TypeOK
      <3>2. pc'[c] = "s_register" /\ inst'[c].checksum = inst[c].checksum
        BY <1>0, <2>2 DEF Goto, TypeOK, Row
      <3>3. pc[c] = "s_spawn" /\ row.status # "running" /\ UNCHANGED file
        BY <1>0, <1>7 DEF StartSpawn, ConfigRequest
      <3>4. ConfigRequest(c)'
        BY <1>0, <2>2, <3>1, <3>2, <3>3 DEF ConfigRequest, AppliesFile
      <3>5. RowTrue'
        BY <2>2, <3>3 DEF RowTrue
      <3> QED
        BY <3>4, <3>5 DEF ConfigInv, OneAtATime
    <2>3. QED
      BY <1>7, <2>1, <2>2 DEF StartSpawn
  <1>8. CASE StartRegister(c)
    BY <1>0, <1>8, QuietConfig DEF StartRegister, ConfigRequest, Goto, Blocks, StartBlocks
  <1>9. CASE StartReady(c)
    <2>1. CASE ctl # None /\ Goto(c, "s_running")
      <3>1. ctl \in Pids /\ kernel[ctl] = "up"
        BY <2>1 DEF FileInv, TypeOK
      <3>2. \A p \in Pids : Alive(p) => p = ctl
        BY <1>9, <3>1 DEF StartReady, SerialInv, OneAtATime, Alive
      <3> QED
        BY <1>0, <1>9, <2>1, <3>1, <3>2, QuietConfig
        DEF StartReady, ConfigRequest, Goto, Blocks, StartBlocks
    <2>2. CASE Goto(c, "s_terminate")
      BY <1>0, <1>9, <2>2, QuietConfig DEF StartReady, ConfigRequest, Goto, Blocks, StartBlocks
    <2> QED
      BY <1>9, <2>1, <2>2 DEF StartReady
  <1>10. CASE StartAbort(c)
    <2>1. [inst[c] EXCEPT !.status = "error"].status # "running"
      BY <1>0 DEF Row
    <2> QED
      BY <1>10, <2>1, SaveAndReturnConfig DEF StartAbort
  <1>11. CASE StartRunning(c)
    <2>1. /\ row' = [inst[c] EXCEPT !.status = "running"] /\ pc'[c] = "idle"
          /\ UNCHANGED <<kernel, loaded, late, file>> /\ pc[c] = "s_running"
      BY <1>0, <1>11 DEF StartRunning, SaveAndReturn, Save, SaveFails, Mishap, Return, Goto,
                         OneAtATime, osVars, TypeOK
    <2>2. row'.checksum = inst[c].checksum
      BY <1>0, <2>1 DEF Row
    <2>3. RowTrue'
      BY <1>0, <2>1, <2>2 DEF RowTrue, ConfigRequest, AppliesFile, Alive
    <2>4. ConfigRequest(c)'
      BY <2>1 DEF ConfigRequest
    <2> QED
      BY <2>3, <2>4 DEF ConfigInv, OneAtATime
  <1>12. QED
    BY <1>1, <1>2, <1>3, <1>4, <1>5, <1>6, <1>7, <1>8, <1>9, <1>10, <1>11 DEF Start

\* Fewer kernels live, and nothing else that the invariant is about has changed.
LEMMA FewerConfig ==
  ASSUME OneAtATime, TypeOK, ConfigInv, NEW c \in Callers, NEW b \in Blocks,
         pc' = [pc EXCEPT ![c] = b],
         b \in Unreported => row.status # "running",
         b \notin Written, pc[c] # "r_reloading",
         \A p \in Pids : Alive(p)' => Alive(p) /\ kernel'[p] = kernel[p]
                                       /\ loaded'[p] = loaded[p] /\ late'[p] = late[p],
         UNCHANGED <<file, row>>
  PROVE  ConfigInv'
  <1>1. pc'[c] = b
    BY DEF TypeOK
  <1>2. ConfigRequest(c)'
    BY <1>1 DEF ConfigRequest, Written
  <1>3. RowTrue
    BY DEF ConfigInv, OneAtATime
  <1>4. RowTrue'
    BY <1>3 DEF RowTrue
  <1> QED
    BY <1>2, <1>4 DEF ConfigInv, OneAtATime

LEMMA KillLeavesFewer ==
  ASSUME TypeOK, NEW q \in Pids, Kill(q)
  PROVE  \A p \in Pids : Alive(p)' => Alive(p) /\ kernel'[p] = kernel[p]
                                       /\ loaded'[p] = loaded[p] /\ late'[p] = late[p]
  BY DEF TypeOK, Kill, Alive, osVars

LEMMA StopConfig ==
  ASSUME OneAtATime, TypeOK, WatchInv, SerialInv, ConfigInv, NEW c \in Callers,
         Terminate(c) \/ Stop(c)
  PROVE  ConfigInv'
  <1> USE DEF Unreported, Written
  <1>0. ConfigRequest(c) /\ inst[c] \in Row
    BY DEF ConfigInv, TypeOK
  <1>1. CASE Terminate(c)
    <2>1. PICK b \in {"s_abort", "p_abort", "p_stopped"} : Goto(c, b)
      BY <1>1 DEF Terminate, TerminateSeesExit, TerminateKills, AfterTerminate
    <2>2. b \in Blocks
      BY DEF Blocks, StartBlocks, StopBlocks
    <2>3. /\ UNCHANGED <<file, row>> /\ row.status # "running"
          /\ pc[c] \in {"s_terminate", "p_terminate"} /\ pc' = [pc EXCEPT ![c] = b]
      BY <1>0, <1>1, <2>1 DEF Terminate, TerminateSeesExit, TerminateKills, ConfigRequest, Goto
    <2>4. \A p \in Pids : Alive(p)' => Alive(p) /\ kernel'[p] = kernel[p]
                                        /\ loaded'[p] = loaded[p] /\ late'[p] = late[p]
      <3>1. CASE TerminateSeesExit(c)
        BY <3>1 DEF TerminateSeesExit, osVars, Alive
      <3>2. CASE TerminateKills(c)
        <4>1. cmd[c] \in Pids /\ Kill(cmd[c])
          BY <3>2 DEF TerminateKills, WatchInv, RequestInv, TypeOK
        <4> QED
          BY <4>1, KillLeavesFewer
      <3> QED
        BY <1>1, <3>1, <3>2 DEF Terminate
    <2> QED
      BY <2>2, <2>3, <2>4, FewerConfig
  <1>2. CASE StopRead(c)
    BY <1>2, QuietConfig DEF StopRead, Goto, Blocks, StopBlocks
  <1>3. CASE StopStopping(c)
    <2> DEFINE r == [inst[c] EXCEPT !.status = "stopping"]
    <2>1. r \in Row /\ r.status # "running"
      BY <1>0 DEF Row, Statuses
    <2>2. SaveOrReturn(c, r, "p_take") /\ UNCHANGED <<osVars, file>>
      BY <1>3 DEF StopStopping
    <2> HIDE DEF r
    <2> QED
      BY <2>1, <2>2, SaveOrReturnConfig
  <1>4. CASE StopTake(c)
    <2>1. PICK b \in {"p_terminate", "p_stopped"} : Goto(c, b)
      BY <1>4 DEF StopTake
    <2>2. b \in Blocks
      BY DEF Blocks, StopBlocks
    <2>3. /\ UNCHANGED <<file, row>> /\ row.status # "running" /\ pc[c] = "p_take"
          /\ pc' = [pc EXCEPT ![c] = b]
      BY <1>0, <1>4, <2>1 DEF StopTake, ConfigRequest, Goto
    <2>4. \A p \in Pids : Alive(p)' => Alive(p) /\ kernel'[p] = kernel[p]
                                        /\ loaded'[p] = loaded[p] /\ late'[p] = late[p]
      <3>1. CASE UNCHANGED osVars
        BY <3>1 DEF osVars, Alive
      <3>2. CASE inst[c].pid # None /\ Kill(inst[c].pid)
        <4>1. inst[c].pid \in Pids
          BY <1>0, <3>2 DEF Row
        <4> QED
          BY <3>2, <4>1, KillLeavesFewer
      <3> QED
        BY <1>4, <3>1, <3>2 DEF StopTake
    <2> QED
      BY <2>2, <2>3, <2>4, FewerConfig
  <1>5. CASE StopAbort(c)
    <2>1. [inst[c] EXCEPT !.status = "error"].status # "running"
      BY <1>0 DEF Row
    <2> QED
      BY <1>5, <2>1, SaveAndReturnConfig DEF StopAbort
  <1>6. CASE StopStopped(c)
    <2> DEFINE r == [inst[c] EXCEPT !.status = "stopped", !.pid = None]
    <2>1. r \in Row /\ r.status # "running"
      BY <1>0 DEF Row, Statuses
    <2>2. SaveOrReturn(c, r, "p_forget") /\ UNCHANGED <<osVars, file>>
      BY <1>6 DEF StopStopped
    <2> HIDE DEF r
    <2> QED
      BY <2>1, <2>2, SaveOrReturnConfig
  <1>7. CASE StopForget(c)
    BY <1>7, QuietConfig DEF StopForget, Return, Goto, Blocks
  <1>8. QED
    BY <1>1, <1>2, <1>3, <1>4, <1>5, <1>6, <1>7 DEF Stop

LEMMA ReloadConfig ==
  ASSUME OneAtATime, TypeOK, SerialInv, FileInv, SingleKernel, ConfigInv,
         NEW c \in Callers, Reload(c)
  PROVE  ConfigInv'
  <1> USE DEF Unreported, Written
  <1>0. ConfigRequest(c) /\ mishaps = 0 /\ inst[c] \in Row
    BY DEF ConfigInv, SerialInv, TypeOK
  <1>1. CASE ReloadRead(c)
    BY <1>1, QuietConfig DEF ReloadRead, Goto, Blocks, ReloadBlocks
  <1>2. CASE ReloadBuild(c)
    <2>1. PICK b \in {"idle", "r_previous"} : Goto(c, b)
      BY <1>2 DEF ReloadBuild, Return
    <2>2. b \in Blocks
      BY DEF Blocks, ReloadBlocks
    <2> QED
      BY <1>2, <2>1, <2>2, QuietConfig DEF ReloadBuild, Goto
  <1>3. CASE ReloadPrevious(c)
    BY <1>3, QuietConfig DEF ReloadPrevious, Goto, Blocks, ReloadBlocks
  <1>4. CASE ReloadWrite(c)
    <2>1. file' = cfg[c] /\ pc'[c] = "r_reloading" /\ UNCHANGED cfg
      BY <1>0, <1>4 DEF ReloadWrite, WriteFails, Mishap, OneAtATime, Goto, TypeOK
    <2>2. ConfigRequest(c)'
      BY <2>1 DEF ConfigRequest
    <2> QED
      BY <2>1, <2>2 DEF ConfigInv, OneAtATime
  <1>5. CASE ReloadReloading(c)
    <2> DEFINE r == [inst[c] EXCEPT !.status = "reloading"]
    <2>1. r \in Row /\ r.status # "running"
      BY <1>0 DEF Row, Statuses
    <2>2. SaveOrReturn(c, r, "r_call") /\ UNCHANGED <<osVars, file>> /\ file = cfg[c]
      BY <1>0, <1>5 DEF ReloadReloading, ConfigRequest
    <2> HIDE DEF r
    <2> QED
      BY <2>1, <2>2, SaveOrReturnConfig
  <1>6. CASE ReloadCall(c)
    <2>1. /\ pc[c] = "r_call" /\ UNCHANGED <<file, row, cfg, kernel>>
          /\ row.status # "running" /\ file = cfg[c]
      BY <1>0, <1>6 DEF ReloadCall, ConfigRequest
    <2>2. RowTrue'
      BY <2>1 DEF RowTrue
    <2>3. CASE Goto(c, "r_restore")
      <3>1. pc'[c] = "r_restore"
        BY <2>3 DEF Goto, TypeOK
      <3>2. ConfigRequest(c)'
        BY <2>1, <3>1 DEF ConfigRequest
      <3> QED
        BY <2>2, <3>2 DEF ConfigInv, OneAtATime
    <2>4. CASE ctl # None /\ loaded' = [loaded EXCEPT ![ctl] = file] /\ Goto(c, "r_running")
      <3>1. ctl \in Pids /\ kernel[ctl] = "up" /\ pc'[c] = "r_running"
        BY <2>4 DEF FileInv, TypeOK, Goto
      <3>2. \A p \in Pids : Alive(p) => p = ctl
        BY <3>1 DEF SingleKernel, Alive
      <3>3. AppliesFile'
        BY <2>1, <2>4, <3>1, <3>2 DEF AppliesFile, Alive, TypeOK
      <3>4. ConfigRequest(c)'
        BY <2>1, <3>1, <3>2, <3>3 DEF ConfigRequest, Alive
      <3> QED
        BY <2>2, <3>4 DEF ConfigInv, OneAtATime
    <2> QED
      BY <1>6, <2>3, <2>4 DEF ReloadCall
  <1>7. CASE ReloadRestore(c)
    <2>1. pc'[c] = "r_error" /\ row' = row /\ row.status # "running"
      BY <1>0, <1>7 DEF ReloadRestore, Goto, TypeOK, ConfigRequest
    <2>2. ConfigRequest(c)' /\ RowTrue'
      BY <2>1 DEF ConfigRequest, RowTrue
    <2> QED
      BY <2>2 DEF ConfigInv, OneAtATime
  <1>8. CASE ReloadError(c)
    <2>1. [inst[c] EXCEPT !.status = "error"].status # "running"
      BY <1>0 DEF Row
    <2> QED
      BY <1>8, <2>1, SaveAndReturnConfig DEF ReloadError
  <1>9. CASE ReloadRunning(c)
    <2>1. /\ row' = [inst[c] EXCEPT !.status = "running", !.checksum = cfg[c]] /\ pc'[c] = "idle"
          /\ UNCHANGED <<kernel, loaded, late, file>> /\ pc[c] = "r_running"
      BY <1>0, <1>9 DEF ReloadRunning, SaveAndReturn, Save, SaveFails, Mishap, Return, Goto,
                        OneAtATime, osVars, TypeOK
    <2>2. row'.checksum = cfg[c]
      BY <1>0, <2>1 DEF Row
    <2>3. RowTrue'
      BY <1>0, <2>1, <2>2 DEF RowTrue, ConfigRequest, AppliesFile, Alive
    <2>4. ConfigRequest(c)'
      BY <2>1 DEF ConfigRequest
    <2> QED
      BY <2>3, <2>4 DEF ConfigInv, OneAtATime
  <1>10. QED
    BY <1>1, <1>2, <1>3, <1>4, <1>5, <1>6, <1>7, <1>8, <1>9 DEF Reload

\* The exit goroutine saves stopped or error; what a kernel reads late is the file.
LEMMA EnvironmentConfig ==
  ASSUME OneAtATime, TypeOK, SerialInv, FileInv, ConfigInv,
         Edit \/ PoolXRestart \/ \E p \in Pids : WaitProcessExit(p) \/ Kernel(p)
  PROVE  ConfigInv'
  <1>1. ~PoolXRestart
    BY DEF PoolXRestart, Mishap, SerialInv, OneAtATime
  <1>2. UNCHANGED <<pc, file, inst, cfg>> /\ (row' = row \/ row'.status # "running")
    BY <1>1 DEF Edit, WaitProcessExit, ExitReap, ExitLock, ExitSave, Save, SaveFails, Kernel,
                KernelBoot, KernelExit, KernelLateReload, reqVars, TypeOK, Row
  <1>3. \A p \in Pids : Alive(p)' => Alive(p) /\ (kernel[p] = "up" => kernel'[p] = "up")
    BY <1>1 DEF Edit, WaitProcessExit, ExitReap, ExitLock, ExitSave, Kernel, KernelBoot,
                KernelExit, KernelLateReload, osVars, Alive, TypeOK
  <1>4. ASSUME NEW p \in Pids, kernel'[p] = "up", kernel[p] = "up" => late[p] \/ loaded[p] = file
        PROVE  late'[p] \/ loaded'[p] = file
    <2>1. CASE Edit \/ \E q \in Pids : WaitProcessExit(q)
      BY <1>4, <2>1 DEF Edit, WaitProcessExit, ExitReap, ExitLock, ExitSave, osVars
    <2>2. ASSUME NEW q \in Pids, Kernel(q) PROVE late'[p] \/ loaded'[p] = file
      BY <1>4, <2>2 DEF Kernel, KernelBoot, KernelExit, KernelLateReload, TypeOK
    <2> QED
      BY <1>1, <2>1, <2>2
  <1>5. AppliesFile => AppliesFile'
    BY <1>2, <1>4 DEF AppliesFile
  <1>6. ASSUME NEW c \in Callers PROVE ConfigRequest(c)'
    <2>1. ConfigRequest(c)
      BY DEF ConfigInv
    <2>2. (\A p \in Pids : Alive(p) => kernel[p] = "up")
            => \A p \in Pids : Alive(p)' => kernel'[p] = "up"
      BY <1>3
    <2> QED
      BY <1>2, <1>5, <2>1, <2>2 DEF ConfigRequest
  <1>7. RowTrue => RowTrue'
    <2>1. ASSUME RowTrue, row'.status = "running", NEW p \in Pids, Alive(p)'
          PROVE  kernel'[p] = "up" /\ file' = row'.checksum /\ (late'[p] \/ loaded'[p] = file')
      <3>1. row' = row /\ Alive(p)
        BY <1>2, <1>3, <2>1
      <3>2. kernel[p] = "up" /\ file = row.checksum /\ (late[p] \/ loaded[p] = file)
        BY <2>1, <3>1 DEF RowTrue
      <3>3. kernel'[p] = "up"
        BY <1>3, <2>1, <3>2
      <3> QED
        BY <1>2, <1>4, <3>1, <3>2, <3>3
    <2> QED
      BY <2>1 DEF RowTrue
  <1> QED
    BY <1>2, <1>6, <1>7 DEF ConfigInv

LEMMA AlwaysConfig ==
  ASSUME OneAtATime
  PROVE  Spec => [](TypeOK /\ SerialInv /\ ConfigInv)
  <1>1. Init => ConfigInv
    BY DEF Init, ConfigInv, ConfigRequest, RowTrue, Alive, Unreported, Written
  <1>2. ASSUME TypeOK, WatchInv, SerialInv, FileInv, SingleKernel, ConfigInv, [Next]_vars
        PROVE  ConfigInv'
    <2>1. CASE UNCHANGED vars
      <3>1. UNCHANGED <<pc, file, row, inst, cfg, kernel, loaded, late>>
        BY <2>1 DEF vars, osVars, reqVars
      <3>2. (AppliesFile' <=> AppliesFile) /\ \A p \in Pids : Alive(p)' <=> Alive(p)
        BY <3>1 DEF AppliesFile, Alive
      <3>3. (RowTrue' <=> RowTrue) /\ \A c \in Callers : ConfigRequest(c)' <=> ConfigRequest(c)
        BY <3>1, <3>2 DEF RowTrue, ConfigRequest
      <3> QED
        BY <1>2, <3>1, <3>3 DEF ConfigInv
    <2>2. CASE Next
      BY <1>2, <2>2, StartConfig, StopConfig, ReloadConfig, EnvironmentConfig DEF Next, Request
    <2> QED
      BY <1>2, <2>1, <2>2
  <1> QED
    BY <1>1, <1>2, AlwaysFile, SeriallySingle, PTL DEF Spec

\* When every request has returned and every exit is recorded, a row at running names the
\* configuration the registered kernel runs, unless a reload that was given up is still to
\* come (runtime.go:150-165, 252-275).
THEOREM ConfigAlwaysKnown == ASSUME OneAtATime PROVE Spec => []RunningConfigKnown
  <1>1. ASSUME TypeOK, ConfigInv, Settled, row.status = "running", reg # None,
               kernel[reg] = "up", ~late[reg]
        PROVE  loaded[reg] = row.checksum
    <2>1. reg \in Pids /\ Alive(reg) /\ RowTrue
      BY <1>1 DEF TypeOK, Alive, ConfigInv, Settled
    <2> QED
      BY <1>1, <2>1 DEF RowTrue
  <1>2. TypeOK /\ ConfigInv => RunningConfigKnown
    BY <1>1 DEF RunningConfigKnown
  <1> QED
    BY <1>2, AlwaysConfig, PTL
=============================================================================
