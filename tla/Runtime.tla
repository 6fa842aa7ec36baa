------------------------------- MODULE Runtime -------------------------------
(***************************************************************************)
(* The runtime control of PoolX (internal/service/runtime.go): StartRuntime, *)
(* StopRuntime and ReloadRuntime run as concurrent HTTP handlers (and the    *)
(* auto-start goroutine), each working on its own in-memory copy of the      *)
(* kernel_instances row, which every DB.Save writes back whole.  They share  *)
(* the registry's command under a mutex, the runtime config file, the row,   *)
(* and the operating system's processes.  One goroutine per kernel waits for *)
(* its exit and writes the row too.                                          *)
(*                                                                           *)
(* One request is a thread in Callers; its pc names the next block of the    *)
(* handler.  Blocks that touch only local variables are merged with the      *)
(* block that follows.                                                       *)
(***************************************************************************)
EXTENDS Naturals

CONSTANTS
  Callers,     \* concurrent requests: HTTP handlers and the auto-start goroutine
  Pids,        \* kernel processes that may ever be spawned (a bound; no pid is reused)
  Configs,     \* rendered configurations, identified with their checksums
  None,        \* nil command, NULL pid, empty checksum, absent file
  MaxMishaps   \* bound on the failures injected: PoolX restarts, failed saves and writes

ASSUME RuntimeAssumption ==
  /\ None \notin Pids \cup Configs
  /\ MaxMishaps \in Nat

VARIABLES
  desired,   \* the config RenderFinalMihomoConfig produces from the DB now, None if it fails
  row,       \* the kernel_instances row
  file,      \* data/runtime/mihomo/config.yaml, None when absent or truncated
  reg,       \* runtimeRegistry.cmd
  kernel,    \* kernel[p]: state of process p
  loaded,    \* loaded[p]: the config that the living process p runs, else None
  late,      \* late[p]: p still holds a reload request whose caller gave up
  ctl,       \* the process that holds the controller address
  waiter,    \* waiter[p]: the goroutine in waitProcessExit(p)
  seen,      \* the row as read by the exit goroutine that holds the mutex
  pc,        \* pc[c]: the block that request c runs next
  inst,      \* inst[c]: request c's copy of the row
  cfg,       \* cfg[c]: the config request c rendered
  prev,      \* prev[c]: the file content ReloadRuntime c keeps for restoring
  cmd,       \* cmd[c]: the process request c started or took from the registry
  mishaps    \* failures injected so far

osVars  == <<kernel, loaded, late, ctl>>
reqVars == <<pc, inst, cfg, prev, cmd>>
vars    == <<desired, row, file, reg, osVars, waiter, seen, reqVars, mishaps>>

Statuses == {"stopped", "starting", "running", "stopping", "error", "reloading"}

Row == [status : Statuses, pid : Pids \cup {None}, checksum : Configs \cup {None}]

NoRow == [status |-> "stopped", pid |-> None, checksum |-> None]

\* A kernel between exec and its config being loaded is "booting".  SIGKILL is
\* modelled as immediate death: the process runs no more of its code.
KernelStates == {"unborn", "booting", "up", "exited", "failed"}

\* "reaped": cmd.Wait has set ProcessState, the mutex is not held yet.
\* "lost": the PoolX process that ran the goroutine is gone.
WaiterStates == {"none", "waiting", "reaped", "saving", "done", "lost"}

StartBlocks  == {"s_read", "s_build", "s_write", "s_probe", "s_starting", "s_spawn",
                 "s_register", "s_ready", "s_terminate", "s_abort", "s_running"}
StopBlocks   == {"p_stopping", "p_take", "p_terminate", "p_abort", "p_stopped", "p_forget"}
ReloadBlocks == {"r_build", "r_previous", "r_write", "r_reloading", "r_call", "r_restore",
                 "r_error", "r_running"}
Blocks       == {"idle"} \cup StartBlocks \cup StopBlocks \cup ReloadBlocks

Alive(p)   == kernel[p] \in {"booting", "up"}
Dead(p)    == kernel[p] \in {"exited", "failed"}
LockFree   == \A p \in Pids : waiter[p] # "saving"
Running(p) == p # None /\ waiter[p] = "waiting"   \* cmd != nil && ProcessState == nil

-----------------------------------------------------------------------------
Init ==
  /\ desired \in Configs
  /\ row = NoRow
  /\ file = None
  /\ reg = None
  /\ kernel = [p \in Pids |-> "unborn"]
  /\ loaded = [p \in Pids |-> None]
  /\ late = [p \in Pids |-> FALSE]
  /\ ctl = None
  /\ waiter = [p \in Pids |-> "none"]
  /\ seen = NoRow
  /\ pc = [c \in Callers |-> "idle"]
  /\ inst = [c \in Callers |-> NoRow]
  /\ cfg = [c \in Callers |-> None]
  /\ prev = [c \in Callers |-> None]
  /\ cmd = [c \in Callers |-> None]
  /\ mishaps = 0

Goto(c, block) == pc' = [pc EXCEPT ![c] = block]

\* The handler returns: its local variables go out of scope.
Return(c) ==
  /\ Goto(c, "idle")
  /\ inst' = [inst EXCEPT ![c] = NoRow]
  /\ cfg' = [cfg EXCEPT ![c] = None]
  /\ prev' = [prev EXCEPT ![c] = None]
  /\ cmd' = [cmd EXCEPT ![c] = None]

Mishap == mishaps < MaxMishaps /\ mishaps' = mishaps + 1

\* model.DB.Save writes the whole row or fails.
Save(r) == row' = r /\ UNCHANGED mishaps
SaveFails == Mishap /\ UNCHANGED row

\* `_ = model.DB.Save(instance).Error` followed by return.
SaveAndReturn(c, r) ==
  /\ Save(r) \/ SaveFails
  /\ Return(c)

\* `if err := model.DB.Save(instance).Error; err != nil { return nil, err }`
SaveOrReturn(c, r, block) ==
  \/ /\ Save(r)
     /\ inst' = [inst EXCEPT ![c] = r]
     /\ Goto(c, block)
     /\ UNCHANGED <<cfg, prev, cmd>>
  \/ SaveFails /\ Return(c)

\* os.WriteFile fails before or after it has truncated the file; the handler returns.
WriteFails(c) ==
  /\ Mishap
  /\ file' \in {file, None}
  /\ Return(c)
  /\ UNCHANGED row

Kill(p) ==
  IF Alive(p)
    THEN /\ kernel' = [kernel EXCEPT ![p] = "failed"]
         /\ loaded' = [loaded EXCEPT ![p] = None]
         /\ late' = [late EXCEPT ![p] = FALSE]
         /\ ctl' = IF ctl = p THEN None ELSE ctl
    ELSE UNCHANGED osVars

-----------------------------------------------------------------------------
(* StartRuntime *)

\* Mutant: a start is admitted without asking the registry.
StartCheck_NoGuard(c) ==
  /\ pc[c] = "idle"
  /\ LockFree
  /\ Goto(c, "s_read")
  /\ UNCHANGED <<desired, row, file, reg, osVars, waiter, seen, inst, cfg, prev, cmd, mishaps>>

\* The running check holds the mutex only for itself.
StartCheck(c) ==
  /\ pc[c] = "idle"
  /\ LockFree
  /\ ~Running(reg)
  /\ Goto(c, "s_read")
  /\ UNCHANGED <<desired, row, file, reg, osVars, waiter, seen, inst, cfg, prev, cmd, mishaps>>

StartRead(c) ==
  /\ pc[c] = "s_read"
  /\ inst' = [inst EXCEPT ![c] = row]
  /\ Goto(c, "s_build")
  /\ UNCHANGED <<desired, row, file, reg, osVars, waiter, seen, cfg, prev, cmd, mishaps>>

\* A failed build persists status error and a NULL pid.
StartBuild(c) ==
  /\ pc[c] = "s_build"
  /\ \/ /\ desired # None
        /\ cfg' = [cfg EXCEPT ![c] = desired]
        /\ Goto(c, "s_write")
        /\ UNCHANGED <<row, inst, prev, cmd, mishaps>>
     \/ /\ desired = None
        /\ SaveAndReturn(c, [inst[c] EXCEPT !.status = "error", !.pid = None])
  /\ UNCHANGED <<desired, file, reg, osVars, waiter, seen>>

StartWrite(c) ==
  /\ pc[c] = "s_write"
  /\ \/ /\ file' = cfg[c]
        /\ Goto(c, "s_probe")
        /\ UNCHANGED <<row, inst, cfg, prev, cmd, mishaps>>
     \/ WriteFails(c)
  /\ UNCHANGED <<desired, reg, osVars, waiter, seen>>

\* net.Listen on every listener: it fails while a kernel that runs the same
\* config holds the ports, and may fail because of anything else on the host.
StartProbe(c) ==
  /\ pc[c] = "s_probe"
  /\ \/ /\ \A p \in Pids : kernel[p] = "up" => loaded[p] # cfg[c]
        /\ Goto(c, "s_starting")
        /\ UNCHANGED <<row, inst, cfg, prev, cmd, mishaps>>
     \/ SaveAndReturn(c, [inst[c] EXCEPT !.status = "error"])
  /\ UNCHANGED <<desired, file, reg, osVars, waiter, seen>>

StartStarting(c) ==
  /\ pc[c] = "s_starting"
  /\ SaveOrReturn(c, [inst[c] EXCEPT !.status = "starting", !.checksum = cfg[c]], "s_spawn")
  /\ UNCHANGED <<desired, file, reg, osVars, waiter, seen>>

\* Mutant: the new pid is saved before the command is registered and watched.
StartSpawn_SavesPid(c) ==
  /\ pc[c] = "s_spawn"
  /\ \E p \in Pids :
       /\ kernel[p] = "unborn"
       /\ kernel' = [kernel EXCEPT ![p] = "booting"]
       /\ cmd' = [cmd EXCEPT ![c] = p]
       /\ inst' = [inst EXCEPT ![c].pid = p]
       /\ row' = [inst[c] EXCEPT !.pid = p]
  /\ Goto(c, "s_register")
  /\ UNCHANGED <<desired, file, reg, cfg, prev, loaded, late, ctl, waiter, seen, mishaps>>

StartSpawn(c) ==
  /\ pc[c] = "s_spawn"
  /\ \/ \E p \in Pids :
          /\ kernel[p] = "unborn"
          /\ kernel' = [kernel EXCEPT ![p] = "booting"]
          /\ cmd' = [cmd EXCEPT ![c] = p]
          /\ inst' = [inst EXCEPT ![c].pid = p]
          /\ Goto(c, "s_register")
          /\ UNCHANGED <<row, cfg, prev, loaded, late, ctl, mishaps>>
     \/ /\ SaveAndReturn(c, [inst[c] EXCEPT !.status = "error"])
        /\ UNCHANGED osVars
  /\ UNCHANGED <<desired, file, reg, waiter, seen>>

\* Mutant: the exit goroutine starts before the registry holds the command.
StartRegister_WatchFirst(c) ==
  /\ pc[c] = "s_register"
  /\ \/ /\ waiter[cmd[c]] = "none"
        /\ waiter' = [waiter EXCEPT ![cmd[c]] = "waiting"]
        /\ UNCHANGED <<reg, pc>>
     \/ /\ waiter[cmd[c]] # "none"
        /\ LockFree
        /\ reg' = cmd[c]
        /\ Goto(c, "s_ready")
        /\ UNCHANGED waiter
  /\ UNCHANGED <<desired, row, file, osVars, seen, inst, cfg, prev, cmd, mishaps>>

\* runtimeRegistry.cmd = cmd under the mutex, then `go waitProcessExit(cmd)`.
StartRegister(c) ==
  /\ pc[c] = "s_register"
  /\ LockFree
  /\ reg' = cmd[c]
  /\ waiter' = [waiter EXCEPT ![cmd[c]] = "waiting"]
  /\ Goto(c, "s_ready")
  /\ UNCHANGED <<desired, row, file, osVars, seen, inst, cfg, prev, cmd, mishaps>>

\* WaitForControllerReady: any kernel holding the controller address answers
\* (every instance uses the row's secret); the 12 s may pass at any moment.
StartReady(c) ==
  /\ pc[c] = "s_ready"
  /\ \/ ctl # None /\ Goto(c, "s_running")
     \/ Goto(c, "s_terminate")
  /\ UNCHANGED <<desired, row, file, reg, osVars, waiter, seen, inst, cfg, prev, cmd, mishaps>>

\* The abort keeps the dead process's pid in the row.
StartAbort(c) ==
  /\ pc[c] = "s_abort"
  /\ SaveAndReturn(c, [inst[c] EXCEPT !.status = "error"])
  /\ UNCHANGED <<desired, file, reg, osVars, waiter, seen>>

StartRunning(c) ==
  /\ pc[c] = "s_running"
  /\ SaveAndReturn(c, [inst[c] EXCEPT !.status = "running"])
  /\ UNCHANGED <<desired, file, reg, osVars, waiter, seen>>

-----------------------------------------------------------------------------
(* terminateProcess, for a failed start (its error is ignored) and for a stop *)

AfterTerminate(block, failed) ==
  CASE block = "s_terminate" -> "s_abort"
    [] block = "p_terminate" -> IF failed THEN "p_abort" ELSE "p_stopped"

\* The poll sees ProcessState set: cmd.Wait has returned.
TerminateSeesExit(c) ==
  /\ pc[c] \in {"s_terminate", "p_terminate"}
  /\ waiter[cmd[c]] # "waiting"
  /\ Goto(c, AfterTerminate(pc[c], FALSE))
  /\ UNCHANGED <<desired, row, file, reg, osVars, waiter, seen, inst, cfg, prev, cmd, mishaps>>

\* Mutant: a process that ignores the interrupt is waited for, not killed.
TerminateKills_Waits(c) ==
  /\ pc[c] \in {"s_terminate", "p_terminate"}
  /\ Dead(cmd[c])
  /\ Goto(c, AfterTerminate(pc[c], FALSE))
  /\ UNCHANGED <<desired, row, file, reg, osVars, waiter, seen, inst, cfg, prev, cmd, mishaps>>

\* Mutant: the deadline ends the wait without the kill.
TerminateKills_GivesUp(c) ==
  /\ pc[c] \in {"s_terminate", "p_terminate"}
  /\ Goto(c, AfterTerminate(pc[c], FALSE))
  /\ UNCHANGED <<desired, row, file, reg, osVars, waiter, seen, inst, cfg, prev, cmd, mishaps>>

\* 5 s have passed since the interrupt without the (unsynchronised) poll seeing
\* ProcessState: Process.Kill fails with ErrProcessDone once Wait has reaped it.
TerminateKills(c) ==
  /\ pc[c] \in {"s_terminate", "p_terminate"}
  /\ Kill(cmd[c])
  /\ Goto(c, AfterTerminate(pc[c], waiter[cmd[c]] # "waiting"))
  /\ UNCHANGED <<desired, row, file, reg, waiter, seen, inst, cfg, prev, cmd, mishaps>>

-----------------------------------------------------------------------------
(* StopRuntime *)

StopRead(c) ==
  /\ pc[c] = "idle"
  /\ inst' = [inst EXCEPT ![c] = row]
  /\ Goto(c, "p_stopping")
  /\ UNCHANGED <<desired, row, file, reg, osVars, waiter, seen, cfg, prev, cmd, mishaps>>

StopStopping(c) ==
  /\ pc[c] = "p_stopping"
  /\ SaveOrReturn(c, [inst[c] EXCEPT !.status = "stopping"], "p_take")
  /\ UNCHANGED <<desired, file, reg, osVars, waiter, seen>>

\* Without a command, the pid of the row is killed: the way to stop a kernel
\* that survived the PoolX process that started it.
StopTake(c) ==
  /\ pc[c] = "p_take"
  /\ LockFree
  /\ \/ /\ reg # None
        /\ cmd' = [cmd EXCEPT ![c] = reg]
        /\ Goto(c, "p_terminate")
        /\ UNCHANGED osVars
     \/ /\ reg = None
        /\ IF inst[c].pid # None THEN Kill(inst[c].pid) ELSE UNCHANGED osVars
        /\ Goto(c, "p_stopped")
        /\ UNCHANGED cmd
  /\ UNCHANGED <<desired, row, file, reg, waiter, seen, inst, cfg, prev, mishaps>>

StopAbort(c) ==
  /\ pc[c] = "p_abort"
  /\ SaveAndReturn(c, [inst[c] EXCEPT !.status = "error"])
  /\ UNCHANGED <<desired, file, reg, osVars, waiter, seen>>

StopStopped(c) ==
  /\ pc[c] = "p_stopped"
  /\ SaveOrReturn(c, [inst[c] EXCEPT !.status = "stopped", !.pid = None], "p_forget")
  /\ UNCHANGED <<desired, file, reg, osVars, waiter, seen>>

\* The registry is cleared whatever command it holds by now.
StopForget(c) ==
  /\ pc[c] = "p_forget"
  /\ LockFree
  /\ reg' = None
  /\ Return(c)
  /\ UNCHANGED <<desired, row, file, osVars, waiter, seen, mishaps>>

-----------------------------------------------------------------------------
(* ReloadRuntime *)

ReloadRead(c) ==
  /\ pc[c] = "idle"
  /\ row.pid # None
  /\ inst' = [inst EXCEPT ![c] = row]
  /\ Goto(c, "r_build")
  /\ UNCHANGED <<desired, row, file, reg, osVars, waiter, seen, cfg, prev, cmd, mishaps>>

\* An unchanged checksum ends the reload, and so does a failed build.
ReloadBuild(c) ==
  /\ pc[c] = "r_build"
  /\ IF desired \in {None, inst[c].checksum}
       THEN Return(c)
       ELSE /\ cfg' = [cfg EXCEPT ![c] = desired]
            /\ Goto(c, "r_previous")
            /\ UNCHANGED <<inst, prev, cmd>>
  /\ UNCHANGED <<desired, row, file, reg, osVars, waiter, seen, mishaps>>

ReloadPrevious(c) ==
  /\ pc[c] = "r_previous"
  /\ prev' = [prev EXCEPT ![c] = file]
  /\ Goto(c, "r_write")
  /\ UNCHANGED <<desired, row, file, reg, osVars, waiter, seen, inst, cfg, cmd, mishaps>>

ReloadWrite(c) ==
  /\ pc[c] = "r_write"
  /\ \/ /\ file' = cfg[c]
        /\ Goto(c, "r_reloading")
        /\ UNCHANGED <<row, inst, cfg, prev, cmd, mishaps>>
     \/ WriteFails(c)
  /\ UNCHANGED <<desired, reg, osVars, waiter, seen>>

\* Mutant: a status that is none of the constants of kernel_instance.go.
ReloadReloading_Misspelt(c) ==
  /\ pc[c] = "r_reloading"
  /\ SaveOrReturn(c, [inst[c] EXCEPT !.status = "reload"], "r_call")
  /\ UNCHANGED <<desired, file, reg, osVars, waiter, seen>>

ReloadReloading(c) ==
  /\ pc[c] = "r_reloading"
  /\ SaveOrReturn(c, [inst[c] EXCEPT !.status = "reloading"], "r_call")
  /\ UNCHANGED <<desired, file, reg, osVars, waiter, seen>>

\* PUT /configs to whoever holds the controller address, 5 s client timeout.
ReloadCall(c) ==
  /\ pc[c] = "r_call"
  /\ \/ /\ ctl # None                              \* applied and answered in time
        /\ loaded' = [loaded EXCEPT ![ctl] = file]
        /\ Goto(c, "r_running")
        /\ UNCHANGED late
     \/ /\ ctl # None                              \* delivered, not answered in time
        /\ late' = [late EXCEPT ![ctl] = TRUE]
        /\ Goto(c, "r_restore")
        /\ UNCHANGED loaded
     \/ /\ Goto(c, "r_restore")                    \* refused or never delivered
        /\ UNCHANGED <<loaded, late>>
  /\ UNCHANGED <<desired, row, file, reg, kernel, ctl, waiter, seen, inst, cfg, prev, cmd,
                 mishaps>>

\* The error of the write is ignored.
ReloadRestore(c) ==
  /\ pc[c] = "r_restore"
  /\ \/ file' = (IF prev[c] # None THEN prev[c] ELSE file) /\ UNCHANGED mishaps
     \/ prev[c] # None /\ file' \in {file, None} /\ Mishap
  /\ Goto(c, "r_error")
  /\ UNCHANGED <<desired, row, reg, osVars, waiter, seen, inst, cfg, prev, cmd>>

ReloadError(c) ==
  /\ pc[c] = "r_error"
  /\ SaveAndReturn(c, [inst[c] EXCEPT !.status = "error"])
  /\ UNCHANGED <<desired, file, reg, osVars, waiter, seen>>

\* Mutant: a successful reload does not record what it applied.
ReloadRunning_KeepsChecksum(c) ==
  /\ pc[c] = "r_running"
  /\ SaveAndReturn(c, [inst[c] EXCEPT !.status = "running"])
  /\ UNCHANGED <<desired, file, reg, osVars, waiter, seen>>

ReloadRunning(c) ==
  /\ pc[c] = "r_running"
  /\ SaveAndReturn(c, [inst[c] EXCEPT !.status = "running", !.checksum = cfg[c]])
  /\ UNCHANGED <<desired, file, reg, osVars, waiter, seen>>

-----------------------------------------------------------------------------
(* waitProcessExit: one goroutine per registered kernel *)

ExitReap(p) ==
  /\ waiter[p] = "waiting"
  /\ Dead(p)
  /\ waiter' = [waiter EXCEPT ![p] = "reaped"]
  /\ UNCHANGED <<desired, row, file, reg, osVars, seen, reqVars, mishaps>>

\* Mutant: the exit is recorded in the row but not in the registry.
ExitLock_KeepsCommand(p) ==
  /\ waiter[p] = "reaped"
  /\ LockFree
  /\ seen' = row
  /\ waiter' = [waiter EXCEPT ![p] = "saving"]
  /\ UNCHANGED <<desired, row, file, reg, osVars, reqVars, mishaps>>

\* Takes the mutex, clears the registry if it still holds p, reads the row; the
\* mutex is kept until the row is saved.
ExitLock(p) ==
  /\ waiter[p] = "reaped"
  /\ LockFree
  /\ reg' = IF reg = p THEN None ELSE reg
  /\ seen' = row
  /\ waiter' = [waiter EXCEPT ![p] = "saving"]
  /\ UNCHANGED <<desired, row, file, osVars, reqVars, mishaps>>

\* The pid is cleared whichever process the row names by now.
ExitSave(p) ==
  /\ waiter[p] = "saving"
  /\ \/ Save([seen EXCEPT !.pid = None,
                          !.status = IF kernel[p] = "failed" THEN "error" ELSE "stopped"])
     \/ SaveFails
  /\ seen' = NoRow
  /\ waiter' = [waiter EXCEPT ![p] = "done"]
  /\ UNCHANGED <<desired, file, reg, osVars, reqVars>>

-----------------------------------------------------------------------------
(* The environment: the kernel, the operator's edits, PoolX itself dying *)

\* mihomo reads the file PoolX wrote and binds the controller if it is free.
KernelBoot(p) ==
  /\ kernel[p] = "booting"
  /\ kernel' = [kernel EXCEPT ![p] = "up"]
  /\ loaded' = [loaded EXCEPT ![p] = file]
  /\ ctl' = IF ctl = None THEN p ELSE ctl
  /\ UNCHANGED <<desired, row, file, reg, late, waiter, seen, reqVars, mishaps>>

\* It exits by itself, or because of the interrupt, with or without an error.
KernelExit(p) ==
  /\ Alive(p)
  /\ \E end \in {"exited", "failed"} : kernel' = [kernel EXCEPT ![p] = end]
  /\ loaded' = [loaded EXCEPT ![p] = None]
  /\ late' = [late EXCEPT ![p] = FALSE]
  /\ ctl' = IF ctl = p THEN None ELSE ctl
  /\ UNCHANGED <<desired, row, file, reg, waiter, seen, reqVars, mishaps>>

\* A reload whose caller timed out is applied after all, from the file as it is now.
KernelLateReload(p) ==
  /\ late[p]
  /\ late' = [late EXCEPT ![p] = FALSE]
  /\ loaded' = [loaded EXCEPT ![p] = file]
  /\ UNCHANGED <<desired, row, file, reg, kernel, ctl, waiter, seen, reqVars, mishaps>>

\* Profiles, nodes or options change: another config, or none that renders.
Edit ==
  /\ \E d \in Configs \cup {None} : d # desired /\ desired' = d
  /\ UNCHANGED <<row, file, reg, osVars, waiter, seen, reqVars, mishaps>>

\* PoolX dies or re-executes itself: memory is lost, row, file and kernels stay.
PoolXRestart ==
  /\ Mishap
  /\ reg' = None
  /\ waiter' = [p \in Pids |-> IF waiter[p] \in {"none", "done"} THEN waiter[p] ELSE "lost"]
  /\ seen' = NoRow
  /\ pc' = [c \in Callers |-> "idle"]
  /\ inst' = [c \in Callers |-> NoRow]
  /\ cfg' = [c \in Callers |-> None]
  /\ prev' = [c \in Callers |-> None]
  /\ cmd' = [c \in Callers |-> None]
  /\ UNCHANGED <<desired, row, file, osVars>>

-----------------------------------------------------------------------------
Start(c) ==
  \/ StartCheck(c) \/ StartRead(c) \/ StartBuild(c) \/ StartWrite(c) \/ StartProbe(c)
  \/ StartStarting(c) \/ StartSpawn(c) \/ StartRegister(c) \/ StartReady(c)
  \/ StartAbort(c) \/ StartRunning(c)

Terminate(c) == TerminateSeesExit(c) \/ TerminateKills(c)

Stop(c) ==
  \/ StopRead(c) \/ StopStopping(c) \/ StopTake(c) \/ StopAbort(c) \/ StopStopped(c)
  \/ StopForget(c)

Reload(c) ==
  \/ ReloadRead(c) \/ ReloadBuild(c) \/ ReloadPrevious(c) \/ ReloadWrite(c)
  \/ ReloadReloading(c) \/ ReloadCall(c) \/ ReloadRestore(c) \/ ReloadError(c)
  \/ ReloadRunning(c)

Request(c) == Start(c) \/ Terminate(c) \/ Stop(c) \/ Reload(c)

WaitProcessExit(p) == ExitReap(p) \/ ExitLock(p) \/ ExitSave(p)

Kernel(p) == KernelBoot(p) \/ KernelExit(p) \/ KernelLateReload(p)

Next ==
  \/ \E c \in Callers : Request(c)
  \/ \E p \in Pids : WaitProcessExit(p) \/ Kernel(p)
  \/ Edit
  \/ PoolXRestart

Spec == Init /\ [][Next]_vars

\* A request that has begun goes on, and so do the exit goroutines: the Go
\* scheduler runs every runnable goroutine.  Beginning a request, editing, the
\* kernel's own steps and restarts are never forced.
Fairness ==
  /\ \A c \in Callers : WF_vars(pc[c] # "idle" /\ Request(c))
  /\ \A p \in Pids : WF_vars(WaitProcessExit(p))

FairSpec == Spec /\ Fairness

-----------------------------------------------------------------------------
\* GetRuntimeStatus: the registry's process runs, or the row says running and
\* some kernel answers on the controller address.
ReportedRunning_TrustsRow == row.status = "running"
ReportedRunning == Running(reg) \/ (row.status = "running" /\ ctl # None)

\* No request is in a handler and every exit has been recorded.
Settled ==
  /\ \A c \in Callers : pc[c] = "idle"
  /\ \A p \in Pids : /\ waiter[p] \notin {"reaped", "saving"}
                     /\ waiter[p] = "waiting" => Alive(p)

LiveKernels == {p \in Pids : Alive(p)}

Service == INSTANCE KernelService WITH
  Ids <- Pids,
  live <- LiveKernels,
  used <- {p \in Pids : kernel[p] # "unborn"},
  config <- IF LiveKernels = {} THEN None ELSE loaded[CHOOSE p \in Pids : Alive(p)]

-----------------------------------------------------------------------------
(* Properties *)

\* Every variable stays in its domain; the statuses are the six constants of
\* kernel_instance.go.
TypeOK ==
  /\ desired \in Configs \cup {None}
  /\ row \in Row
  /\ file \in Configs \cup {None}
  /\ reg \in Pids \cup {None}
  /\ kernel \in [Pids -> KernelStates]
  /\ loaded \in [Pids -> Configs \cup {None}]
  /\ late \in [Pids -> BOOLEAN]
  /\ ctl \in Pids \cup {None}
  /\ waiter \in [Pids -> WaiterStates]
  /\ seen \in Row
  /\ pc \in [Callers -> Blocks]
  /\ inst \in [Callers -> Row]
  /\ cfg \in [Callers -> Configs \cup {None}]
  /\ prev \in [Callers -> Configs \cup {None}]
  /\ cmd \in [Callers -> Pids \cup {None}]
  /\ mishaps \in Nat

\* The registry never holds a command whose exit goroutine has already run: no
\* handler would ever clear it.  It rests on StartRuntime publishing the command
\* (runtime.go:145) before it starts the goroutine (148), whatever other requests do.
RegistryWatched == reg # None => waiter[reg] \in {"waiting", "reaped"}

\* A pid reaches the row, through whichever in-memory copy of it, only after the
\* goroutine that will clear it has been started (runtime.go:142-148 against every Save).
PidWatched == row.pid # None => waiter[row.pid] # "none"

\* When StopRuntime goes on to report the kernel stopped, the process it took
\* from the registry is dead, whichever way terminateProcess ended.
StopMeansDead == \A c \in Callers :
  pc[c] \in {"p_stopped", "p_forget"} /\ cmd[c] # None => Dead(cmd[c])

\* With requests one at a time and no failure, a living kernel is always in the
\* registry, except between its spawn and its registration (runtime.go:135-147).
NoStrayKernel == \A p \in Pids :
  Alive(p) => reg = p \/ \E c \in Callers : pc[c] = "s_register" /\ cmd[c] = p

\* At rest, GetRuntimeStatus says running exactly when a kernel lives.
StatusReportsKernel == Settled => (ReportedRunning <=> LiveKernels # {})

\* At rest, with the row at running, the registered kernel runs the configuration
\* the row's checksum names, unless a reload PoolX gave up on is still to come.
RunningConfigKnown ==
  Settled /\ row.status = "running" /\ reg # None =>
    (kernel[reg] = "up" /\ ~late[reg] => loaded[reg] = row.checksum)

\* One instance, one configuration: two kernels never live at the same time.
SingleKernel == \A p, q \in Pids : Alive(p) /\ Alive(q) => p = q

\* The status is accurate: at rest, a row at running means that a kernel lives,
\* and a living kernel's pid is the row's.
StatusAccurate ==
  Settled => /\ row.status = "running" => LiveKernels # {}
             /\ \A p \in Pids : Alive(p) => row.pid = p

\* A reload ends early as unchanged only when the kernel runs that configuration.
SkipsOnlyUnchanged ==
  [][\A c \in Callers :
       /\ pc[c] = "r_build"
       /\ pc'[c] = "idle"
       /\ desired # None
       => \A p \in Pids : kernel[p] = "up" => loaded[p] = desired]_vars

\* Requests one at a time and no failure: the runtime implements KernelService.
ImplementsKernelService == Service!Spec

\* Every request ends: no handler waits for ever for the mutex, the controller or
\* a kernel that ignores the interrupt.
RequestsReturn == \A c \in Callers : pc[c] # "idle" ~> pc[c] = "idle"

\* A dead kernel leaves the registry, so that it cannot block the next start.
ExitNoticed == \A p \in Pids : reg = p /\ Dead(p) ~> reg # p

=============================================================================
