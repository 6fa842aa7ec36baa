---------------------------- MODULE KernelInstall ----------------------------
(***************************************************************************)
(* The installation of the kernel (service/kernel.go): an existing file is *)
(* inspected, or one that is uploaded or downloaded is checked and put in  *)
(* its place; then path, version and source are written as options         *)
(* (model/option.go).  No mutex is held: several requests may do so at     *)
(* once, every step may fail, and the process may die between any two.     *)
(*                                                                         *)
(* A content is named by the version it reports.  KernelType is left out:  *)
(* every installation writes the same value.                               *)
(***************************************************************************)
EXTENDS Integers, Sequences

CONSTANTS
  Installers,   \* requests
  InstallPaths, \* paths asked for
  KernelVersions,     \* contents that report a version of Mihomo
  Bad,          \* one that does not, or not the version of its release
  Nothing,      \* no file; an option never written
  MaxInstalls,  \* bound: requests
  MaxInstallFaults \* bound: failed steps and deaths

\* What the constants are: assumed where they get their values.
KernelInstallAssumption ==
  /\ Bad \notin KernelVersions /\ Nothing \notin KernelVersions \union {Bad}
  /\ MaxInstalls \in Nat /\ MaxInstallFaults \in Nat

VARIABLES
  disk,       \* path -> content
  saved,      \* the options table
  loaded,     \* the options in memory
  request,    \* request -> [at, kind, path, content, left]: left, the options to be written
  alone,      \* history: requests in their critical part that have met no other, no fault
  torn,       \* history: such a part was entered, and none has been gone through since
  installs, installFaults  \* counters of the bounds

installVars ==
  <<disk, saved, loaded, request, alone, torn, installs, installFaults>>

Keys == {"path", "version", "source"}
Kinds == {"existing", "upload", "download"}
Order == <<"path", "version", "source">>
NoRequest == [at |-> "idle", kind |-> "existing", path |-> Nothing, content |-> Nothing,
              left |-> <<>>]

KernelInstallInit ==
  /\ disk \in [InstallPaths -> KernelVersions \union {Nothing}]
  /\ saved = [k \in Keys |-> Nothing] /\ loaded = saved
  /\ request = [r \in Installers |-> NoRequest]
  /\ alone = {} /\ torn = FALSE /\ installs = 0 /\ installFaults = 0

InstallFault == installFaults < MaxInstallFaults /\ installFaults' = installFaults + 1
NoFault == UNCHANGED installFaults
Options == <<saved, loaded>>
StepTo(r, at) == request' = [request EXCEPT ![r].at = at]
End(r) == request' = [request EXCEPT ![r] = NoRequest]

\* From its check of an existing file, or its removal of the old one, to its last option a
\* request must not meet another.
Critical == {"removed", "placed", "storing", "loading"}
Busy == {r \in Installers : request[r].at \in Critical}
EnterCritical(r) == torn' = TRUE /\ alone' = IF Busy \ {r} = {} THEN {r} ELSE {}

-----------------------------------------------------------------------------
\* A request reaches the server.
Begin(r, kind, path) ==
  /\ request[r].at = "idle" /\ installs < MaxInstalls /\ installs' = installs + 1
  /\ request' = [request EXCEPT ![r] = [NoRequest EXCEPT
       !.at = IF kind = "existing" THEN "inspecting" ELSE "receiving",
       !.kind = kind, !.path = path]]
  /\ UNCHANGED <<disk, Options, alone, torn>> /\ NoFault

\* Mutant: the version read is of no consequence.
Checked_Anything(r) == request[r].content # Nothing

Checked(r) == request[r].content \in KernelVersions

\* persistExecutableTempFile: a temporary file beside the target.
Receive(r) ==
  /\ request[r].at = "receiving"
  /\ \E c \in KernelVersions \union {Bad} :
       request' = [request EXCEPT ![r].content = c, ![r].at = "received"]
  /\ UNCHANGED <<disk, Options, alone, torn, installs>> /\ NoFault

\* The file does not come, or not whole.
ReceiveFails(r) ==
  /\ request[r].at = "receiving" /\ End(r)
  /\ UNCHANGED <<disk, Options, alone, torn, installs>> /\ NoFault

\* installPreparedMihomoBinary: a content that is no Mihomo, or another version than its
\* release, is removed; else replaceExecutableFile begins and removes the old file.
CheckRefuses(r) ==
  /\ request[r].at = "received" /\ ~Checked(r) /\ End(r)
  /\ UNCHANGED <<disk, Options, alone, torn, installs>> /\ NoFault

RemoveOld(r) ==
  /\ request[r].at = "received" /\ Checked(r)
  /\ disk' = [disk EXCEPT ![request[r].path] = Nothing]
  /\ StepTo(r, "removed") /\ EnterCritical(r)
  /\ UNCHANGED <<Options, installs>> /\ NoFault

Rename(r) ==
  /\ request[r].at = "removed"
  /\ disk' = [disk EXCEPT ![request[r].path] = request[r].content]
  /\ StepTo(r, "placed")
  /\ UNCHANGED <<Options, alone, torn, installs>> /\ NoFault

\* The new file cannot be put in place: the old one is gone, the temporary one removed.
RenameFails(r) ==
  /\ request[r].at = "removed" /\ InstallFault /\ End(r) /\ alone' = alone \ {r}
  /\ UNCHANGED <<disk, Options, torn, installs>>

\* Nor made executable: the new one stays.
ChmodFails(r) ==
  /\ request[r].at = "placed" /\ InstallFault /\ End(r) /\ alone' = alone \ {r}
  /\ UNCHANGED <<disk, Options, torn, installs>>

Chmod(r) ==
  /\ request[r].at = "placed"
  /\ request' = [request EXCEPT ![r].at = "storing", ![r].left = Order]
  /\ UNCHANGED <<disk, Options, alone, torn, installs>> /\ NoFault

\* InspectMihomoBinary: the version of what is at the path now.
Inspect(r) ==
  /\ request[r].at = "inspecting"
  /\ LET c == disk[request[r].path]
     IN  IF c \in KernelVersions
         THEN /\ request' = [request EXCEPT ![r].at = "storing", ![r].content = c,
                                            ![r].left = Order]
              /\ EnterCritical(r)
         ELSE End(r) /\ UNCHANGED <<alone, torn>>
  /\ UNCHANGED <<disk, Options, installs>> /\ NoFault

-----------------------------------------------------------------------------
\* persistInstalledMihomoBinary: UpdateOption for each.
ValueOf(r, k) ==
  CASE k = "path" -> request[r].path [] k = "version" -> request[r].content
    [] OTHER -> request[r].kind

\* Its two statements on the table; that one fails is not noticed.
StoreOption(r) ==
  /\ request[r].at = "storing" /\ StepTo(r, "loading")
  /\ LET k == Head(request[r].left)
     IN  \/ saved' = [saved EXCEPT ![k] = ValueOf(r, k)] /\ UNCHANGED alone /\ NoFault
         \/ InstallFault /\ alone' = alone \ {r} /\ UNCHANGED saved
  /\ UNCHANGED <<disk, loaded, torn, installs>>

\* updateOptionMap; after the last the request has its answer.
updateOptionMap(r) ==
  /\ request[r].at = "loading"
  /\ LET k == Head(request[r].left)
         left == Tail(request[r].left)
     IN  /\ loaded' = [loaded EXCEPT ![k] = ValueOf(r, k)]
         /\ IF left = <<>>
            THEN End(r) /\ torn' = (torn /\ r \notin alone) /\ alone' = alone \ {r}
            ELSE /\ request' = [request EXCEPT ![r].at = "storing", ![r].left = left]
                 /\ UNCHANGED <<torn, alone>>
  /\ UNCHANGED <<disk, saved, installs>> /\ NoFault

\* PoolX dies and starts again: the options come from the table; a temporary file stays.
Restart ==
  /\ InstallFault
  /\ request' = [r \in Installers |-> NoRequest] /\ alone' = {}
  /\ loaded' = saved
  /\ UNCHANGED <<disk, saved, torn, installs>>

KernelInstallNext ==
  \/ Restart
  \/ \E r \in Installers :
       \/ \E kind \in Kinds, path \in InstallPaths : Begin(r, kind, path)
       \/ Receive(r) \/ ReceiveFails(r) \/ CheckRefuses(r) \/ RemoveOld(r) \/ Rename(r)
       \/ RenameFails(r) \/ ChmodFails(r) \/ Chmod(r) \/ Inspect(r) \/ StoreOption(r)
       \/ updateOptionMap(r)

KernelInstallSpec == KernelInstallInit /\ [][KernelInstallNext]_installVars

-----------------------------------------------------------------------------
KernelInstallTypeOK ==
  LET Values == InstallPaths \union KernelVersions \union Kinds \union {Nothing}
  IN  /\ disk \in [InstallPaths -> KernelVersions \union {Bad, Nothing}]
      /\ saved \in [Keys -> Values] /\ loaded \in [Keys -> Values]
      /\ \A r \in Installers :
           /\ request[r].at \in Critical \union {"idle", "receiving", "received", "inspecting"}
           /\ request[r].kind \in Kinds /\ request[r].path \in InstallPaths \union {Nothing}
           /\ request[r].content \in KernelVersions \union {Bad, Nothing}
           /\ request[r].at \in {"storing", "loading"} <=> request[r].left # <<>>
      /\ alone \subseteq Installers /\ torn \in BOOLEAN
      /\ installs \in 0 .. MaxInstalls /\ installFaults \in 0 .. MaxInstallFaults

(* No file that did not report a version of Mihomo ever comes to a path.  And whatever        *)
(* requests overlapped and failed before: once one has gone through alone, memory and table   *)
(* agree, also after a restart, and the version they name is that of the file at their path   *)
(* (kernel.go:219-241, 336-353, 370-381).                                                     *)
InstallSound ==
  /\ \A p \in InstallPaths : disk[p] # Bad
  /\ ~torn => /\ loaded = saved
              /\ saved["path"] # Nothing => disk[saved["path"]] = saved["version"]
=============================================================================
