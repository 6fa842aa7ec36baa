---------------------------- MODULE ConsoleProofs ----------------------------
(***************************************************************************)
(* What holds of the console's pages of the runtime and of the settings,   *)
(* for any buttons the kernel supports, pollers, fields and bounds: what a *)
(* page at rest shows is what the server has, however its requests, their  *)
(* answers and what others do overlap.                                     *)
(***************************************************************************)
EXTENDS RuntimePage, SettingsPage, QueryCacheProofs, SequenceTheorems, TLAPS

-----------------------------------------------------------------------------
(* The status of the kernel on its page. *)

JobStates == {"idle", "sent", "done", "refused", "refreshing", "relisting"}

StatusTyped ==
  /\ IsQueryOf(statusQ, BOOLEAN) /\ kernelUp \in BOOLEAN /\ unseen \in BOOLEAN
  /\ jobs \in [Buttons -> JobStates]

\* A button works only on a page that has something to show.
JobsHaveData ==
  /\ statusQ.phase = "read" => statusQ.answer # <<>>
  /\ \A b \in Buttons : jobs[b] # "idle" => statusQ.data # <<>>

\* The status is that of the kernel, or will be asked for, or is known to have failed.
StatusShows ==
  \/ statusQ.phase = "sent"
  \/ statusQ.phase = "read" /\ statusQ.answer = <<kernelUp>>
  \/ statusQ.phase = "idle" /\ (statusQ.failed \/ statusQ.data = <<kernelUp>>)

\* Unless the page was not told, or is about to be: then an action has ended and its answer
\* is under way.
StatusKept == unseen \/ (\E b \in Buttons : jobs[b] = "done") \/ StatusShows

StatusInv == StatusTyped /\ JobsHaveData /\ StatusKept

LEMMA InitStatus == RuntimeInit => StatusInv
<1> SUFFICES ASSUME RuntimeInit PROVE StatusInv
  OBVIOUS
<1>1. StatusTyped
  BY QueryBegins DEF RuntimeInit, StatusTyped, JobStates
<1>2. JobsHaveData /\ StatusKept
  BY QueryBegins DEF RuntimeInit, JobsHaveData, StatusKept, StatusShows
<1>3. QED
  BY <1>1, <1>2 DEF StatusInv

\* Steps that leave the kernel, the status and the jobs alone.
LEMMA StatusUntouched ==
  ASSUME StatusInv, UNCHANGED <<kernelUp, statusQ, jobs, unseen>>
  PROVE  StatusInv'
BY DEF StatusInv, StatusTyped, JobsHaveData, StatusKept, StatusShows

\* The query moves on.
LEMMA StatusSteps ==
  ASSUME StatusInv, StatusTimer \/ StatusRead \/ StatusAnswer \/ StatusFails
  PROVE  StatusInv'
<1>1. /\ UNCHANGED <<kernelUp, jobs>> /\ IsQueryOf(statusQ, BOOLEAN) /\ kernelUp \in BOOLEAN
      /\ unseen' \in BOOLEAN
  BY DEF StatusTimer, StatusRead, StatusAnswer, StatusFails, StatusUnchanged, StatusInv, StatusTyped
<1>2. CASE StatusTimer
  <2>1. statusQ' = Fetch(statusQ) /\ unseen' = unseen /\ ~Fetching(statusQ)
    BY <1>2 DEF StatusTimer
  <2>2. IsQueryOf(statusQ', BOOLEAN) /\ statusQ'.data = statusQ.data /\ statusQ'.phase = "sent"
    BY <1>1, <2>1, QueryFetched DEF Fetch, Fetching, IsQueryOf, Phases
  <2>3. QED
    BY <1>1, <2>1, <2>2 DEF StatusInv, StatusTyped, JobsHaveData, StatusKept, StatusShows
<1>3. CASE StatusRead
  <2>1. statusQ' = Read(statusQ, kernelUp) /\ statusQ.phase = "sent"
    BY <1>3 DEF StatusRead
  <2>2. /\ IsQueryOf(statusQ', BOOLEAN) /\ statusQ'.data = statusQ.data
        /\ statusQ'.phase = "read" /\ statusQ'.answer = <<kernelUp>> /\ statusQ'.answer # <<>>
    BY <1>1, <2>1, QueryReads
  <2>3. QED
    BY <1>1, <2>2 DEF StatusInv, StatusTyped, JobsHaveData, StatusKept, StatusShows
<1>4. CASE StatusAnswer
  <2>1. statusQ' = Answered(statusQ) /\ statusQ.phase = "read" /\ unseen' = unseen
    BY <1>4 DEF StatusAnswer
  <2>2. /\ IsQueryOf(statusQ', BOOLEAN) /\ statusQ'.data = statusQ.answer
        /\ statusQ'.phase = "idle"
    BY <1>1, <2>1, QueryAnswered
  <2>3. statusQ.answer # <<>>
    BY <2>1 DEF StatusInv, JobsHaveData
  <2>4. QED
    BY <1>1, <2>1, <2>2, <2>3 DEF StatusInv, StatusTyped, JobsHaveData, StatusKept, StatusShows
<1>5. CASE StatusFails
  <2>1. statusQ' = Failed(statusQ) /\ unseen' = unseen
    BY <1>5 DEF StatusFails
  <2>2. /\ IsQueryOf(statusQ', BOOLEAN) /\ statusQ'.data = statusQ.data
        /\ statusQ'.phase = "idle" /\ statusQ'.failed
    BY <1>1, <2>1, QueryFailed
  <2>3. QED
    BY <1>1, <2>1, <2>2 DEF StatusInv, StatusTyped, JobsHaveData, StatusKept, StatusShows
<1>6. QED
  BY <1>2, <1>3, <1>4, <1>5

\* A click makes a job of a page that shows something; the handler changes the kernel only
\* with an answer under way.
LEMMA JobSteps ==
  ASSUME StatusInv, NEW b \in Buttons, Click(b) \/ Handle(b)
  PROVE  StatusInv'
<1>1. statusQ' = statusQ /\ unseen' = unseen
  BY DEF Click, Handle
<1>2. StatusTyped
  BY DEF StatusInv
<1>3. CASE Click(b)
  <2>1. jobs' = [jobs EXCEPT ![b] = "sent"] /\ kernelUp' = kernelUp /\ jobs[b] = "idle"
    BY <1>3 DEF Click, Offered
  <2>2. statusQ.data # <<>>
    BY <1>3 DEF Click, Offered, View
  <2>3. \A c \in Buttons : jobs[c] = "done" => jobs'[c] = "done"
    BY <1>2, <2>1 DEF StatusTyped
  <2>4. StatusTyped'
    BY <1>1, <1>2, <2>1 DEF StatusTyped, JobStates
  <2>5. JobsHaveData'
    BY <1>1, <2>2 DEF StatusInv, JobsHaveData
  <2>6. StatusKept'
    BY <1>1, <2>1, <2>3 DEF StatusInv, StatusKept, StatusShows
  <2>7. QED
    BY <2>4, <2>5, <2>6 DEF StatusInv
<1>4. CASE Handle(b)
  <2>1. jobs[b] = "sent" /\ kernelUp' \in BOOLEAN
    BY <1>2, <1>4 DEF Handle, StatusTyped
  <2>2. PICK s \in {"done", "refused"} : jobs' = [jobs EXCEPT ![b] = s]
    BY <1>4 DEF Handle
  <2>3. s = "done" \/ kernelUp' = kernelUp
    BY <1>2, <1>4, <2>2 DEF Handle, StatusTyped
  <2>4. \A c \in Buttons : jobs'[c] = IF c = b THEN s ELSE jobs[c]
    BY <1>2, <2>2 DEF StatusTyped
  <2>5. StatusTyped'
    BY <1>1, <1>2, <2>1, <2>2 DEF StatusTyped, JobStates
  <2>6. JobsHaveData'
    BY <1>1, <2>1, <2>4 DEF StatusInv, JobsHaveData
  <2>7. StatusKept'
    <3>1. CASE s = "done"
      BY <2>4, <3>1 DEF StatusKept
    <3>2. CASE kernelUp' = kernelUp
      <4>1. \A c \in Buttons : jobs[c] = "done" => jobs'[c] = "done"
        BY <2>1, <2>4
      <4>2. QED
        BY <1>1, <3>2, <4>1 DEF StatusInv, StatusKept, StatusShows
    <3>3. QED
      BY <2>3, <3>1, <3>2
  <2>8. QED
    BY <2>5, <2>6, <2>7 DEF StatusInv
<1>5. QED
  BY <1>3, <1>4

\* An answer of success asks for the status again; a lost one leaves the page untold.
LEMMA JobAnswers ==
  ASSUME StatusInv, NEW b \in Buttons, JobSucceeds(b) \/ JobFails(b)
  PROVE  StatusInv'
<1>1. kernelUp' = kernelUp
  BY DEF JobSucceeds, JobFails
<1>2. StatusTyped
  BY DEF StatusInv
<1>3. CASE JobSucceeds(b)
  <2>1. /\ jobs[b] = "done" /\ jobs' = [jobs EXCEPT ![b] = "refreshing"]
        /\ statusQ' = Invalidated(statusQ) /\ unseen' = unseen
    BY <1>3 DEF JobSucceeds
  <2>2. statusQ.data # <<>>
    BY <2>1 DEF StatusInv, JobsHaveData
  <2>3. /\ IsQueryOf(statusQ', BOOLEAN) /\ statusQ'.data = statusQ.data
        /\ statusQ'.phase # "idle" /\ statusQ'.phase # "read"
    BY <1>2, <2>1, <2>2, QueryInvalidated DEF StatusTyped
  <2>4. statusQ'.phase = "sent"
    BY <2>3, QueryFields
  <2>5. StatusTyped'
    BY <1>1, <1>2, <2>1, <2>3 DEF StatusTyped, JobStates
  <2>6. JobsHaveData'
    BY <2>2, <2>3 DEF JobsHaveData
  <2>7. QED
    BY <2>4, <2>5, <2>6 DEF StatusInv, StatusKept, StatusShows
<1>4. CASE JobFails(b)
  <2>1. jobs' = [jobs EXCEPT ![b] = "idle"] /\ statusQ' = statusQ
    BY <1>4 DEF JobFails
  <2>2. unseen' \in BOOLEAN /\ (unseen' \/ (unseen' = unseen /\ jobs[b] = "refused"))
    BY <1>2, <1>4 DEF JobFails, StatusTyped
  <2>3. \A c \in Buttons : jobs'[c] = IF c = b THEN "idle" ELSE jobs[c]
    BY <1>2, <2>1 DEF StatusTyped
  <2>4. StatusTyped'
    BY <1>1, <1>2, <2>1, <2>2 DEF StatusTyped, JobStates
  <2>5. JobsHaveData'
    BY <2>1, <2>3 DEF StatusInv, JobsHaveData
  <2>6. StatusKept'
    <3>1. CASE unseen'
      BY <3>1 DEF StatusKept
    <3>2. CASE unseen' = unseen /\ jobs[b] = "refused"
      <4>1. \A c \in Buttons : jobs[c] = "done" => jobs'[c] = "done"
        BY <2>3, <3>2
      <4>2. QED
        BY <1>1, <2>1, <3>2, <4>1 DEF StatusInv, StatusKept, StatusShows
    <3>3. QED
      BY <2>2, <3>1, <3>2
  <2>7. QED
    BY <2>4, <2>5, <2>6 DEF StatusInv
<1>5. QED
  BY <1>3, <1>4

\* The refetch has ended and so, in the end, has the job.
LEMMA JobEnds ==
  ASSUME StatusInv, NEW b \in Buttons, NEW s \in {"relisting", "idle"},
         jobs[b] \in {"refreshing", "relisting"}, jobs' = [jobs EXCEPT ![b] = s],
         UNCHANGED <<kernelUp, statusQ, unseen>>
  PROVE  StatusInv'
<1>1. StatusTyped
  BY DEF StatusInv
<1>2. \A c \in Buttons : jobs'[c] = IF c = b THEN s ELSE jobs[c]
  BY <1>1 DEF StatusTyped
<1>3. StatusTyped'
  BY <1>1 DEF StatusTyped, JobStates
<1>4. JobsHaveData'
  BY <1>2 DEF StatusInv, JobsHaveData
<1>5. StatusKept'
  <2>1. \A c \in Buttons : jobs[c] = "done" => jobs'[c] = "done"
    BY <1>2
  <2>2. QED
    BY <2>1 DEF StatusInv, StatusKept, StatusShows
<1>6. QED
  BY <1>3, <1>4, <1>5 DEF StatusInv

LEMMA NextStatus == StatusInv /\ [RuntimeNext]_runtimeVars => StatusInv'
<1> SUFFICES ASSUME StatusInv, [RuntimeNext]_runtimeVars PROVE StatusInv'
  OBVIOUS
<1>1. CASE Log \/ MountAnswer \/ Clear \/ ToggleAuto
  <2>1. UNCHANGED <<kernelUp, statusQ, jobs, unseen>>
    BY <1>1 DEF Log, MountAnswer, Clear, ToggleAuto, PanelUnchanged
  <2>2. QED
    BY <2>1, StatusUntouched
<1>2. CASE ChangedElsewhere
  <2>1. UNCHANGED <<statusQ, jobs>> /\ kernelUp' = ~kernelUp /\ unseen' = TRUE
    BY <1>2 DEF ChangedElsewhere
  <2>2. QED
    BY <2>1 DEF StatusInv, StatusTyped, JobsHaveData, StatusKept
<1>3. CASE StatusTimer \/ StatusRead \/ StatusAnswer \/ StatusFails
  BY <1>3, StatusSteps
<1>4. CASE \E a \in Pollers : PollTimer(a) \/ PollAnswer(a)
  <2>1. UNCHANGED <<kernelUp, statusQ, jobs, unseen>>
    BY <1>4 DEF PollTimer, PollAnswer, PanelUnchanged
  <2>2. QED
    BY <2>1, StatusUntouched
<1>5. CASE \E a \in Askers : LogsRead(a) \/ LogsFail(a)
  <2>1. UNCHANGED <<kernelUp, statusQ, jobs, unseen>>
    BY <1>5 DEF LogsRead, LogsFail, PanelUnchanged
  <2>2. QED
    BY <2>1, StatusUntouched
<1>6. ASSUME NEW b \in Buttons, Click(b) \/ Handle(b) \/ JobSucceeds(b) \/ JobFails(b)
      PROVE  StatusInv'
  BY <1>6, JobSteps, JobAnswers
<1>7. ASSUME NEW b \in Buttons, JobRefreshed(b) PROVE StatusInv'
  <2>1. jobs[b] = "refreshing" /\ UNCHANGED <<kernelUp, statusQ, unseen>>
    BY <1>7 DEF JobRefreshed, PanelUnchanged
  <2>2. \E s \in {"relisting", "idle"} : jobs' = [jobs EXCEPT ![b] = s]
    BY <1>7 DEF JobRefreshed
  <2>3. QED
    BY <2>1, <2>2, JobEnds
<1>8. CASE Relisted
  <2>1. /\ jobs["start"] = "relisting" /\ jobs' = [jobs EXCEPT !["start"] = "idle"]
        /\ UNCHANGED <<kernelUp, statusQ, unseen>>
    BY <1>8 DEF Relisted, PanelUnchanged
  <2>2. QED
    BY <2>1, JobEnds DEF Buttons
<1>9. CASE UNCHANGED runtimeVars
  BY <1>9, StatusUntouched DEF runtimeVars
<1>10. QED
  BY <1>1, <1>2, <1>3, <1>4, <1>5, <1>6, <1>7, <1>8, <1>9 DEF RuntimeNext

LEMMA StatusInvIsFresh == StatusInv => StatusFresh
<1> SUFFICES ASSUME StatusInv, \A b \in Buttons : jobs[b] = "idle", View = "page",
                    ~Fetching(statusQ), ~unseen
             PROVE  ShownUp = kernelUp
  BY DEF StatusFresh
<1>1. StatusShows /\ kernelUp \in BOOLEAN
  BY DEF StatusInv, StatusKept, StatusTyped
<1>2. ~statusQ.failed /\ statusQ.phase = "idle"
  BY DEF View, Fetching
<1>3. statusQ.data = <<kernelUp>>
  BY <1>1, <1>2 DEF StatusShows
<1>4. <<kernelUp>> = <<TRUE>> <=> kernelUp = TRUE
  BY <1>1
<1>5. QED
  BY <1>1, <1>3, <1>4 DEF ShownUp, Cards

(* However automatic refreshing, clicks, their answers and changes from elsewhere overlap, a  *)
(* runtime page at rest whose actions were answered shows whether the kernel runs             *)
(* (runtime-page.tsx:121-154).                                                                *)
THEOREM StatusAlwaysFresh == RuntimeSpec => []StatusFresh
<1>1. RuntimeSpec => []StatusInv
  BY InitStatus, NextStatus, PTL DEF RuntimeSpec
<1>2. QED
  BY <1>1, StatusInvIsFresh, PTL

-----------------------------------------------------------------------------
(* The settings. *)

Words == Texts \union {"true", "false"}

\* Values for a set of fields.
Valued(S) == {f \in [S -> Words] : \A k \in S : f[k] \in Values(k)}
OfPublic == Followed \intersect Public
OfSelf == Followed \intersect SelfKeys

\* Kernel options that a save of a card does not write.
KernelOnly == ToSet(KernelKeys) \ {"KernelType"}

\* What the entries of a save may be: those of the account, of options, or none.
GoodEntries(of, left) ==
  \A i \in DOMAIN left :
    /\ left[i] \in Followed \X Words /\ left[i][2] \in Values(left[i][1])
    /\ left[i][1] \notin KernelOnly
    /\ of = (IF left[i][1] \in SelfKeys THEN "self" ELSE "options")

CardKeys ==
  {"", "profile", "email-send", "email-bind", "wechat-bind", "clash-settings", "system-runtime",
   "system-general", "system-smtp", "system-integrations", "operation-rate-limit", "other-brand",
   "other-about"} \union Switches

\* The entries of a save by the places of its keys: there are at most ten.
Entries == UNION {[S -> Followed \X Words] : S \in SUBSET (1 .. 10)}

SaveRecord ==
  [key : CardKeys, left : Entries,
   wrote : SUBSET Followed, phase : {"idle", "writing", "options", "last"},
   of : {"options", "self", "none"}]

SettingsTyped ==
  /\ stored \in Valued(Followed) /\ fields \in Valued(Followed)
  /\ IsQueryOf(optionsQ, Valued(Options)) /\ IsQueryOf(publicQ, Valued(OfPublic))
  /\ IsQueryOf(selfQ, Valued(OfSelf))
  /\ saves \in [Slots -> SaveRecord] /\ \A s \in Slots : GoodEntries(saves[s].of, saves[s].left)
  /\ install \in [phase : {"idle", "sent", "awaiting"}, left : SUBSET (1 .. 4), path : Texts]
  /\ edited \subseteq Followed

\* What is saved or installed was on display; what was read is there to be answered.
DataThere ==
  /\ \A q \in {optionsQ, publicQ, selfQ} : q.phase = "read" => q.answer # <<>>
  /\ \A s \in Slots : saves[s].phase # "idle" =>
       selfQ.data # <<>> /\ publicQ.data # <<>> /\ (saves[s].of = "options" => optionsQ.data # <<>>)
  /\ install.phase # "idle" => optionsQ.data # <<>>
  /\ ~IsRoot => optionsQ.data = <<>> /\ optionsQ.phase = "idle"

\* A save, or the installation, has written k and will ask for it again.
OptionComing(k) ==
  \/ \E s \in Slots : saves[s].phase = "writing" /\ saves[s].of = "options" /\ k \in saves[s].wrote
  \/ install.phase = "sent" /\ k \in ToSet(KernelKeys)
PublicComing(k) ==
  \E s \in Slots : /\ saves[s].phase \in {"writing", "options"} /\ saves[s].of = "options"
                   /\ k \in saves[s].wrote
SelfComing(k) ==
  \E s \in Slots : saves[s].phase = "writing" /\ saves[s].of = "self" /\ k \in saves[s].wrote

\* The query has k as it is stored, or will.
Current(q, k) ==
  \/ q.phase = "sent"
  \/ q.phase = "read" /\ q.answer[1][k] = stored[k]
  \/ q.phase = "idle" /\ (q.failed \/ q.data = <<>> \/ q.data[1][k] = stored[k])

OptionsFollow ==
  \A k \in Options : <<"options", k>> \in torn \/ OptionComing(k) \/ Current(optionsQ, k)
PublicFollows ==
  \A k \in OfPublic : <<"public", k>> \in torn \/ PublicComing(k) \/ Current(publicQ, k)
SelfFollows ==
  \A k \in OfSelf : <<"self", k>> \in torn \/ SelfComing(k) \/ Current(selfQ, k)

\* The field of an option shows the options' answer, the status that arrived after it, or what
\* an installation has just stored.
FromOptions(k) == fields[k] = Display(k, optionsQ.data[1][k], StatusAddress(publicQ))
FromStatus(k) ==
  /\ k \in Public /\ publicQ.data # <<>>
  /\ IF k = "ServerAddress" THEN fields[k] = Address(publicQ.data[1][k], "")
     ELSE publicQ.data[1][k] \in {fields[k], ""}
FromInstall(k) ==
  /\ k \in KernelOnly /\ fields[k] = stored[k]
  /\ IF k = "MihomoBinaryPath" THEN install.phase # "idle" => install.path = fields[k]
     ELSE fields[k] = "new"

OptionsShown ==
  \A k \in Options \ edited :
    optionsQ.data # <<>> /\ (FromOptions(k) \/ FromStatus(k) \/ FromInstall(k))
SelfShown ==
  \A k \in (OfSelf \ {"wechat"}) \ edited : selfQ.data # <<>> /\ fields[k] = selfQ.data[1][k]

\* The installation alone writes what the kernel's card shows of it.
Installed ==
  /\ install.phase # "idle" =>
       \A i \in 1 .. 4 : KernelKeys[i] \in Followed /\ i \notin install.left =>
         stored[KernelKeys[i]] = KernelValue(KernelKeys[i])
  /\ install.phase = "awaiting" => install.left = {}

SettingsInv ==
  /\ SettingsTyped /\ DataThere /\ OptionsFollow /\ PublicFollows /\ SelfFollows
  /\ OptionsShown /\ SelfShown /\ Installed

-----------------------------------------------------------------------------
(* The fields. *)

LEMMA KernelFields ==
  /\ DOMAIN KernelKeys = 1 .. 4
  /\ KernelKeys[1] = "KernelType" /\ KernelKeys[2] = "MihomoBinaryPath"
  /\ KernelKeys[3] = "MihomoBinaryVersion" /\ KernelKeys[4] = "MihomoBinarySource"
  /\ ToSet(KernelKeys) =
       {"KernelType", "MihomoBinaryPath", "MihomoBinaryVersion", "MihomoBinarySource"}
  /\ KernelOnly = {"MihomoBinaryPath", "MihomoBinaryVersion", "MihomoBinarySource"}
<1>1. /\ DOMAIN KernelKeys = 1 .. 4
      /\ KernelKeys[1] = "KernelType" /\ KernelKeys[2] = "MihomoBinaryPath"
      /\ KernelKeys[3] = "MihomoBinaryVersion" /\ KernelKeys[4] = "MihomoBinarySource"
  BY DEF KernelKeys
<1>2. ToSet(KernelKeys) =
        {"KernelType", "MihomoBinaryPath", "MihomoBinaryVersion", "MihomoBinarySource"}
  <2>1. ToSet(KernelKeys) = {KernelKeys[i] : i \in 1 .. 4}
    BY <1>1 DEF ToSet
  <2>2. \A i \in 1 .. 4 : i = 1 \/ i = 2 \/ i = 3 \/ i = 4
    OBVIOUS
  <2>3. 1 \in 1 .. 4 /\ 2 \in 1 .. 4 /\ 3 \in 1 .. 4 /\ 4 \in 1 .. 4
    OBVIOUS
  <2>4. QED
    BY <1>1, <2>1, <2>2, <2>3, Zenon
<1>3. QED
  BY <1>1, <1>2 DEF KernelOnly

\* What a field of a kind is not.
LEMMA OptionKinds ==
  ASSUME NEW k
  PROVE  /\ k \in SelfKeys => /\ k \notin Public /\ k \notin KernelOnly /\ k \notin Secrets
                             /\ k # "ServerAddress"
         /\ k \in Public => k \notin KernelOnly /\ k \notin Secrets /\ k # "KernelType"
         /\ k \in KernelOnly => k \notin Secrets /\ k # "ServerAddress" /\ k \notin SelfKeys
         /\ k \in Switches => k \notin SelfKeys /\ k \notin KernelOnly /\ k # "KernelType"
         /\ k \in SelfKeys \union Public \union KernelOnly \union Secrets => Values(k) = Texts
         /\ "KernelType" \notin KernelOnly /\ "KernelType" \notin SelfKeys
         /\ "KernelType" \notin Secrets
         /\ k \in Switches => Values(k) = {"true", "false"}
         /\ k \notin Switches /\ k # "KernelType" => Values(k) = Texts
         /\ Values("KernelType") = {"new"} /\ Values("ServerAddress") = Texts
         /\ "ServerAddress" \in Public /\ Values("MihomoBinaryPath") = Texts
         /\ Values(k) \in {Texts, {"true", "false"}, {"new"}}
BY KernelFields DEF SelfKeys, Public, Secrets, Switches, Values

LEMMA OptionSets ==
  /\ Options \subseteq Followed /\ OfPublic \subseteq Options /\ OfSelf \subseteq Followed
  /\ Options \intersect SelfKeys = {} /\ Followed \intersect Options = Options
  /\ Followed = Options \union OfSelf
BY OptionKinds DEF Options, OfPublic, OfSelf

LEMMA TextValues ==
  /\ {"", "origin", "new"} \subseteq Texts /\ Texts \subseteq Words
  /\ \A k : Values(k) \subseteq Words /\ Values(k) # {}
BY OptionKinds DEF Texts, Words

LEMMA Addresses ==
  ASSUME NEW v \in Texts, NEW s \in Texts
  PROVE  Address(v, s) \in Texts /\ Address(v, v) = Address(v, "")
BY DEF Address, Texts

LEMMA Displays ==
  ASSUME NEW k, NEW v \in Values(k), NEW s \in Texts
  PROVE  /\ Display(k, v, s) \in Values(k)
         /\ k \notin Secrets /\ k # "ServerAddress" => Display(k, v, s) = v
<1>1. CASE k \in Secrets
  BY <1>1, OptionKinds DEF Display, Texts
<1>2. CASE k \notin Secrets /\ k = "ServerAddress"
  BY <1>2, OptionKinds, Addresses DEF Display
<1>3. CASE k \notin Secrets /\ k # "ServerAddress"
  BY <1>3 DEF Display
<1>4. QED
  BY <1>1, <1>2, <1>3

LEMMA StatusAddressIsText ==
  ASSUME SettingsTyped
  PROVE  StatusAddress(publicQ) \in Texts
<1>1. CASE publicQ.data = <<>> \/ "ServerAddress" \notin Followed
  BY <1>1 DEF StatusAddress, Texts
<1>2. CASE publicQ.data # <<>> /\ "ServerAddress" \in Followed
  <2>1. publicQ.data \in Seq(Valued(OfPublic))
    BY QueryFields DEF SettingsTyped
  <2>2. publicQ.data[1] \in Valued(OfPublic)
    BY <1>2, <2>1, Present1
  <2>3. publicQ.data[1]["ServerAddress"] \in Texts
    BY <1>2, <2>2, OptionKinds DEF Valued, OfPublic
  <2>4. QED
    BY <1>2, <2>3 DEF StatusAddress
<1>3. QED
  BY <1>1, <1>2

\* An update of the fields by new values of their kinds.
LEMMA ValuedBy ==
  ASSUME NEW S, NEW f, f = [k \in S |-> f[k]], \A k \in S : f[k] \in Values(k)
  PROVE  f \in Valued(S)
BY TextValues DEF Valued

LEMMA OptionsFill ==
  ASSUME NEW f \in Valued(Followed), NEW o \in Valued(Options), NEW status \in Texts
  PROVE  /\ FillOptions(f, o, status) \in Valued(Followed)
         /\ \A k \in Options : FillOptions(f, o, status)[k] = Display(k, o[k], status)
         /\ \A k \in Followed \ Options : FillOptions(f, o, status)[k] = f[k]
<1> DEFINE g == FillOptions(f, o, status)
<1>1. g = [k \in Followed |-> IF k \in Options THEN Display(k, o[k], status) ELSE f[k]]
  BY DEF FillOptions
<1> HIDE DEF g
<1>2. \A k \in Options : g[k] = Display(k, o[k], status)
  BY <1>1, OptionSets
<1>3. \A k \in Followed \ Options : g[k] = f[k]
  BY <1>1
<1>4. \A k \in Followed : g[k] \in Values(k)
  <2>1. ASSUME NEW k \in Options PROVE g[k] \in Values(k)
    BY <1>2, <2>1, Displays DEF Valued
  <2>2. ASSUME NEW k \in Followed \ Options PROVE g[k] \in Values(k)
    BY <1>3, <2>2 DEF Valued
  <2>3. QED
    BY <2>1, <2>2
<1>5. g = [k \in Followed |-> g[k]]
  BY <1>1
<1>6. g \in Valued(Followed)
  BY <1>4, <1>5, ValuedBy
<1>7. QED
  BY <1>2, <1>3, <1>6 DEF g

LEMMA PublicFill ==
  ASSUME NEW f \in Valued(Followed), NEW s \in Valued(OfPublic)
  PROVE  /\ FillPublic(f, s) \in Valued(Followed)
         /\ \A k \in Followed \ Public : FillPublic(f, s)[k] = f[k]
         /\ \A k \in OfPublic :
              IF k = "ServerAddress" THEN FillPublic(f, s)[k] = Address(s[k], "")
              ELSE s[k] \in {FillPublic(f, s)[k], ""}
<1> DEFINE g == FillPublic(f, s)
<1>1. g = [k \in Followed |->
            IF k \notin Public THEN f[k]
            ELSE IF k = "ServerAddress" THEN Address(s[k], "")
            ELSE IF s[k] # "" THEN s[k] ELSE f[k]]
  BY DEF FillPublic
<1> HIDE DEF g
<1>2. \A k \in Followed \ Public : g[k] = f[k]
  BY <1>1
<1>3. \A k \in OfPublic : IF k = "ServerAddress" THEN g[k] = Address(s[k], "")
                          ELSE g[k] = (IF s[k] # "" THEN s[k] ELSE f[k])
  BY <1>1 DEF OfPublic
<1>4. \A k \in Followed : g[k] \in Values(k)
  <2>1. ASSUME NEW k \in Followed \ Public PROVE g[k] \in Values(k)
    BY <1>2, <2>1 DEF Valued
  <2>2. ASSUME NEW k \in OfPublic PROVE g[k] \in Values(k)
    <3>1. s[k] \in Values(k) /\ f[k] \in Values(k)
      BY <2>2, OptionSets DEF Valued
    <3>2. CASE k = "ServerAddress"
      <4>1. Values(k) = Texts
        BY <3>2, OptionKinds
      <4>2. Address(s[k], "") \in Texts
        BY <3>1, <4>1, Addresses, TextValues
      <4>3. QED
        BY <1>3, <2>2, <3>2, <4>1, <4>2
    <3>3. CASE k # "ServerAddress"
      BY <1>3, <2>2, <3>1, <3>3
    <3>4. QED
      BY <3>2, <3>3
  <2>3. QED
    BY <2>1, <2>2 DEF OfPublic
<1>5. g = [k \in Followed |-> g[k]]
  BY <1>1
<1>6. g \in Valued(Followed)
  BY <1>4, <1>5, ValuedBy
<1>7. QED
  BY <1>2, <1>3, <1>6 DEF g

LEMMA SelfFill ==
  ASSUME NEW f \in Valued(Followed), NEW s \in Valued(OfSelf)
  PROVE  /\ FillSelf(f, s) \in Valued(Followed)
         /\ \A k \in OfSelf \ {"wechat"} : FillSelf(f, s)[k] = s[k]
         /\ \A k \in Options : FillSelf(f, s)[k] = f[k]
<1> DEFINE g == FillSelf(f, s)
<1>1. g = [k \in Followed |-> IF k \in SelfKeys \ {"wechat"} THEN s[k] ELSE f[k]]
  BY DEF FillSelf
<1> HIDE DEF g
<1>2. \A k \in OfSelf \ {"wechat"} : g[k] = s[k]
  BY <1>1 DEF OfSelf
<1>3. \A k \in Options : g[k] = f[k]
  BY <1>1 DEF Options
<1>4. \A k \in Followed : g[k] \in Values(k)
  <2>1. \A k \in Followed : f[k] \in Values(k)
    BY DEF Valued
  <2>2. \A k \in OfSelf : s[k] \in Values(k)
    BY DEF Valued
  <2>3. QED
    BY <1>1, <2>1, <2>2 DEF OfSelf
<1>5. g = [k \in Followed |-> g[k]]
  BY <1>1
<1>6. g \in Valued(Followed)
  BY <1>4, <1>5, ValuedBy
<1>7. QED
  BY <1>2, <1>3, <1>6 DEF g

\* One field that is given a value of its kind.
LEMMA OneValue ==
  ASSUME NEW f \in Valued(Followed), NEW k \in Followed, NEW v \in Values(k)
  PROVE  [f EXCEPT ![k] = v] \in Valued(Followed)
<1> DEFINE g == [f EXCEPT ![k] = v]
<1>1. DOMAIN f = Followed /\ \A j \in Followed : f[j] \in Values(j)
  BY DEF Valued
<1>2. g = [j \in Followed |-> g[j]] /\ \A j \in Followed : g[j] \in Values(j)
  BY <1>1
<1>3. QED
  BY <1>2, ValuedBy

\* What the server answers.
LEMMA PartIsValued ==
  ASSUME NEW keys, stored \in Valued(Followed)
  PROVE  /\ Part(keys) \in Valued(Followed \intersect keys)
         /\ \A k \in Followed \intersect keys : Part(keys)[k] = stored[k]
<1>1. Part(keys) = [k \in Followed \intersect keys |-> stored[k]]
  BY DEF Part
<1>2. \A k \in Followed \intersect keys : Part(keys)[k] = stored[k]
  BY <1>1
<1>3. \A k \in Followed \intersect keys : Part(keys)[k] \in Values(k)
  BY <1>2 DEF Valued
<1>4. Part(keys) = [k \in Followed \intersect keys |-> Part(keys)[k]]
  BY <1>1
<1>5. QED
  BY <1>2, <1>3, <1>4, ValuedBy

-----------------------------------------------------------------------------
(* At first, and at rest. *)

LEMMA InitSettings == SettingsInit => SettingsInv
<1> SUFFICES ASSUME SettingsInit PROVE SettingsInv
  OBVIOUS
<1>1. stored \in Valued(Followed) /\ fields \in Valued(Followed)
  <2>1. \A k \in Followed :
          (IF k \in Switches THEN "false" ELSE IF k \in NonBlank THEN "new" ELSE "") \in Values(k)
    <3>1. "KernelType" \in NonBlank
      BY DEF NonBlank
    <3>2. QED
      BY <3>1, TextValues, OptionKinds
  <2>2. \A k \in Followed :
          (IF k \in Switches THEN "false" ELSE IF k = "KernelType" THEN "new" ELSE "")
            \in Values(k)
    BY TextValues, OptionKinds
  <2>3. stored = [k \in Followed |-> stored[k]] /\ \A k \in Followed : stored[k] \in Values(k)
    BY <2>1 DEF SettingsInit
  <2>4. fields = [k \in Followed |-> fields[k]] /\ \A k \in Followed : fields[k] \in Values(k)
    BY <2>2 DEF SettingsInit
  <2>5. QED
    BY <2>3, <2>4, ValuedBy
<1>2. /\ IsQueryOf(optionsQ, Valued(Options)) /\ IsQueryOf(publicQ, Valued(OfPublic))
      /\ IsQueryOf(selfQ, Valued(OfSelf))
  BY QueryBegins DEF SettingsInit
<1>3. /\ publicQ.phase = "sent" /\ selfQ.phase = "sent"
      /\ optionsQ.phase \in {"sent", "idle"} /\ optionsQ.data = <<>>
      /\ ~IsRoot => optionsQ.phase = "idle"
  BY QueryBegins DEF SettingsInit
<1>4. \A s \in Slots : saves[s] \in SaveRecord /\ GoodEntries(saves[s].of, saves[s].left)
  <2>1. <<>> = [i \in {} |-> <<>>] /\ DOMAIN <<>> = {}
    OBVIOUS
  <2>2. <<>> \in Entries
    <3>1. <<>> \in [{} -> Followed \X Words]
      BY <2>1
    <3>2. QED
      BY <3>1 DEF Entries
  <2>3. NoSave \in SaveRecord
    <3>1. "" \in CardKeys /\ {} \in SUBSET Followed
      BY DEF CardKeys
    <3> DEFINE none == <<>>
    <3>2. none \in Entries
      BY <2>2
    <3> HIDE DEF none
    <3>3. [key |-> "", left |-> none, wrote |-> {}, phase |-> "idle", of |-> "options"] \in
            [key : CardKeys, left : Entries, wrote : SUBSET Followed,
             phase : {"idle", "writing", "options", "last"}, of : {"options", "self", "none"}]
      BY <3>1, <3>2
    <3> QED
      BY <3>3 DEF NoSave, SaveRecord, none
  <2>4. GoodEntries("options", <<>>)
    BY <2>1 DEF GoodEntries
  <2>5. QED
    BY <2>3, <2>4 DEF SettingsInit, NoSave
<1>5. saves \in [Slots -> SaveRecord] /\ \A s \in Slots : saves[s].phase = "idle"
  BY <1>4 DEF SettingsInit, NoSave
<1>6. install \in [phase : {"idle", "sent", "awaiting"}, left : SUBSET (1 .. 4), path : Texts]
      /\ install.phase = "idle"
  BY DEF SettingsInit, NoInstall, Texts
<1>7. SettingsTyped
  BY <1>1, <1>2, <1>4, <1>5, <1>6 DEF SettingsTyped, SettingsInit
<1>8. DataThere
  BY <1>3, <1>5, <1>6 DEF DataThere
<1>9. OptionsFollow /\ PublicFollows /\ SelfFollows
  BY <1>3 DEF OptionsFollow, PublicFollows, SelfFollows, Current
<1>10. OptionsShown /\ SelfShown /\ Installed
  BY <1>6, OptionSets DEF OptionsShown, SelfShown, Installed, SettingsInit
<1>11. QED
  BY <1>7, <1>8, <1>9, <1>10 DEF SettingsInv

\* A query at rest with an answer has what is stored, unless a save failed half-way.
LEMMA RestIsCurrent ==
  ASSUME NEW q, NEW k, Answers(q), ~Fetching(q), Current(q, k)
  PROVE  q.data # <<>> /\ q.data[1][k] = stored[k]
BY DEF Answers, Fetching, Current

LEMMA RestShows == SettingsInv => FieldsShowStored
<1> SUFFICES ASSUME SettingsInv, \A s \in Slots : saves[s].phase = "idle", install.phase = "idle",
                    \A q \in {publicQ, selfQ} \union (IF IsRoot THEN {optionsQ} ELSE {}) :
                      Answers(q) /\ ~Fetching(q),
                    NEW k \in Followed \ (edited \union {t[2] : t \in torn} \union {"wechat"})
             PROVE  \/ k \in Public \ {"ServerAddress"} /\ stored[k] = ""
                    \/ fields[k] = Display(k, stored[k], StatusAddress(publicQ))
  BY DEF FieldsShowStored
<1>1. ~OptionComing(k) /\ ~PublicComing(k) /\ ~SelfComing(k)
  BY DEF OptionComing, PublicComing, SelfComing
<1>2. ASSUME NEW q, <<q, k>> \in torn PROVE FALSE
  <2>1. <<q, k>>[2] = k
    OBVIOUS
  <2>2. QED
    BY <1>2, <2>1
<1>3. stored[k] \in Values(k) /\ StatusAddress(publicQ) \in Texts
  BY StatusAddressIsText DEF SettingsInv, SettingsTyped, Valued
<1>4. CASE k \in OfSelf
  <2>1. Current(selfQ, k)
    BY <1>1, <1>2, <1>4 DEF SettingsInv, SelfFollows
  <2>2. selfQ.data[1][k] = stored[k]
    BY <2>1, RestIsCurrent
  <2>3. fields[k] = stored[k]
    BY <1>4, <2>2 DEF SettingsInv, SelfShown
  <2>4. k \notin Secrets /\ k # "ServerAddress"
    BY <1>4, OptionKinds DEF OfSelf
  <2>5. QED
    BY <1>3, <2>3, <2>4, Displays
<1>5. CASE k \in Options
  <2>1. optionsQ.data # <<>> /\ (FromOptions(k) \/ FromStatus(k) \/ FromInstall(k))
    BY <1>5 DEF SettingsInv, OptionsShown
  <2>2. IsRoot
    BY <2>1 DEF SettingsInv, DataThere
  <2>3. Current(optionsQ, k)
    BY <1>1, <1>2, <1>5 DEF SettingsInv, OptionsFollow
  <2>4. optionsQ.data[1][k] = stored[k]
    BY <2>2, <2>3, RestIsCurrent
  <2>5. CASE FromOptions(k)
    BY <2>4, <2>5 DEF FromOptions
  <2>6. CASE FromStatus(k)
    <3>1. k \in OfPublic
      BY <1>5, <2>6, OptionSets DEF FromStatus, OfPublic
    <3>2. Current(publicQ, k)
      BY <1>1, <1>2, <3>1 DEF SettingsInv, PublicFollows
    <3>3. publicQ.data # <<>> /\ publicQ.data[1][k] = stored[k]
      BY <3>2, RestIsCurrent
    <3>4. CASE k = "ServerAddress"
      <4>1. StatusAddress(publicQ) = stored[k]
        BY <3>3, <3>4, <1>5, OptionSets DEF StatusAddress
      <4>2. fields[k] = Address(stored[k], "")
        BY <2>6, <3>3, <3>4 DEF FromStatus
      <4>3. stored[k] \in Texts
        BY <1>3, <3>4, OptionKinds
      <4>4. fields[k] = Address(stored[k], stored[k])
        BY <4>2, <4>3, Addresses
      <4>5. Display(k, stored[k], StatusAddress(publicQ)) = Address(stored[k], stored[k])
        BY <3>1, <3>4, <4>1, OptionKinds DEF Display, OfPublic
      <4>6. QED
        BY <4>4, <4>5
    <3>5. CASE k # "ServerAddress"
      <4>1. stored[k] = fields[k] \/ stored[k] = ""
        BY <2>6, <3>3, <3>5 DEF FromStatus
      <4>2. k \in Public /\ k \notin Secrets
        BY <3>1, OptionKinds DEF OfPublic
      <4>3. Display(k, stored[k], StatusAddress(publicQ)) = stored[k]
        BY <1>3, <3>5, <4>2, Displays
      <4>4. QED
        BY <3>5, <4>1, <4>2, <4>3
    <3>6. QED
      BY <3>4, <3>5
  <2>7. CASE FromInstall(k)
    <3>1. fields[k] = stored[k] /\ k \notin Secrets /\ k # "ServerAddress"
      BY <2>7, OptionKinds DEF FromInstall
    <3>2. QED
      BY <1>3, <3>1, Displays
  <2>8. QED
    BY <2>1, <2>5, <2>6, <2>7
<1>6. QED
  BY <1>4, <1>5, OptionSets

-----------------------------------------------------------------------------
(* The queries ask, are answered and fail. *)

LEMMA ShownKept ==
  ASSUME SettingsInv, UNCHANGED <<fields, edited, stored, install>>,
         optionsQ'.data = optionsQ.data, publicQ'.data = publicQ.data, selfQ'.data = selfQ.data
  PROVE  OptionsShown' /\ SelfShown' /\ Installed'
<1>1. StatusAddress(publicQ)' = StatusAddress(publicQ)
  BY DEF StatusAddress
<1>2. ASSUME NEW k
      PROVE  /\ FromOptions(k)' <=> FromOptions(k)
             /\ FromStatus(k)' <=> FromStatus(k)
             /\ FromInstall(k)' <=> FromInstall(k)
  BY <1>1 DEF FromOptions, FromStatus, FromInstall
<1>3. OptionsShown'
  BY <1>2 DEF SettingsInv, OptionsShown
<1>4. SelfShown' /\ Installed'
  BY DEF SettingsInv, SelfShown, Installed, KernelValue
<1>5. QED
  BY <1>3, <1>4

\* Steps of the queries alone: what is on display is not touched.
LEMMA QueriesMove ==
  ASSUME SettingsInv, UNCHANGED <<fields, edited, stored, install, saves>>,
         IsQueryOf(optionsQ', Valued(Options)), IsQueryOf(publicQ', Valued(OfPublic)),
         IsQueryOf(selfQ', Valued(OfSelf)),
         optionsQ'.data = optionsQ.data, publicQ'.data = publicQ.data, selfQ'.data = selfQ.data,
         \A q \in {optionsQ', publicQ', selfQ'} : q.phase = "read" => q.answer # <<>>,
         ~IsRoot => optionsQ'.phase = "idle",
         OptionsFollow', PublicFollows', SelfFollows'
  PROVE  SettingsInv'
<1>1. SettingsTyped'
  BY DEF SettingsInv, SettingsTyped
<1>2. DataThere'
  BY DEF SettingsInv, DataThere
<1>3. QED
  BY <1>1, <1>2, ShownKept DEF SettingsInv

\* A query that is left alone follows as it did.
LEMMA ComingKept ==
  ASSUME UNCHANGED <<saves, install>>, NEW k
  PROVE  /\ OptionComing(k)' <=> OptionComing(k)
         /\ PublicComing(k)' <=> PublicComing(k)
         /\ SelfComing(k)' <=> SelfComing(k)
BY DEF OptionComing, PublicComing, SelfComing

LEMMA CurrentKept ==
  ASSUME UNCHANGED stored, NEW k
  PROVE  /\ optionsQ' = optionsQ => (Current(optionsQ, k)' <=> Current(optionsQ, k))
         /\ publicQ' = publicQ => (Current(publicQ, k)' <=> Current(publicQ, k))
         /\ selfQ' = selfQ => (Current(selfQ, k)' <=> Current(selfQ, k))
BY DEF Current

LEMMA FollowKept ==
  ASSUME SettingsInv, UNCHANGED <<stored, saves, install>>
  PROVE  /\ optionsQ' = optionsQ /\ (\A k \in Options : <<"options", k>> \in torn => <<"options", k>> \in torn')
              => OptionsFollow'
         /\ publicQ' = publicQ /\ (\A k \in OfPublic : <<"public", k>> \in torn => <<"public", k>> \in torn')
              => PublicFollows'
         /\ selfQ' = selfQ /\ (\A k \in OfSelf : <<"self", k>> \in torn => <<"self", k>> \in torn')
              => SelfFollows'
<1>1. optionsQ' = optionsQ /\ (\A k \in Options : <<"options", k>> \in torn => <<"options", k>> \in torn')
        => OptionsFollow'
  BY ComingKept, CurrentKept DEF SettingsInv, OptionsFollow
<1>2. publicQ' = publicQ /\ (\A k \in OfPublic : <<"public", k>> \in torn => <<"public", k>> \in torn')
        => PublicFollows'
  BY ComingKept, CurrentKept DEF SettingsInv, PublicFollows
<1>3. selfQ' = selfQ /\ (\A k \in OfSelf : <<"self", k>> \in torn => <<"self", k>> \in torn')
        => SelfFollows'
  BY ComingKept, CurrentKept DEF SettingsInv, SelfFollows
<1>4. QED
  BY <1>1, <1>2, <1>3

\* A read clears what was torn for its own query only.
LEMMA TornOnly ==
  ASSUME NEW a, NEW b, a # b, NEW k, NEW T, <<b, k>> \in T
  PROVE  <<b, k>> \in T \ Torn(a, Followed)
BY DEF Torn

LEMMA OptionsReadStep ==
  ASSUME SettingsInv, OptionsRead
  PROVE  SettingsInv'
<1>1. /\ optionsQ' = Read(optionsQ, Part(Options)) /\ optionsQ.phase = "sent"
      /\ torn' = torn \ Torn("options", Followed)
      /\ UNCHANGED <<publicQ, selfQ, stored, saves, install, fields, edited>>
  BY DEF OptionsRead, AsksOnly
<1>2. SettingsTyped /\ stored' = stored
  BY <1>1 DEF SettingsInv
<1>3. PICK p : p = Part(Options)
  OBVIOUS
<1>4. p \in Valued(Options) /\ \A k \in Options : p[k] = stored[k]
  BY <1>2, <1>3, PartIsValued, OptionSets DEF SettingsTyped
<1>5. /\ IsQueryOf(optionsQ', Valued(Options)) /\ optionsQ'.data = optionsQ.data
      /\ optionsQ'.phase = "read" /\ optionsQ'.answer = <<p>> /\ optionsQ'.answer # <<>>
  BY <1>1, <1>2, <1>3, <1>4, QueryReads DEF SettingsTyped
<1>6. OptionsFollow'
  <2>1. ASSUME NEW k \in Options PROVE Current(optionsQ, k)'
    <3>1. optionsQ'.answer[1] = p
      BY <1>5
    <3>2. QED
      BY <1>1, <1>4, <1>5, <3>1 DEF Current
  <2>2. QED
    BY <2>1 DEF OptionsFollow
<1>7. PublicFollows' /\ SelfFollows'
  <2>1. \A k : <<"public", k>> \in torn => <<"public", k>> \in torn'
    BY <1>1, TornOnly
  <2>2. \A k : <<"self", k>> \in torn => <<"self", k>> \in torn'
    BY <1>1, TornOnly
  <2>3. QED
    BY <1>1, <2>1, <2>2, FollowKept
<1>8. IsRoot
  BY <1>1 DEF SettingsInv, DataThere
<1>9. \A q \in {optionsQ', publicQ', selfQ'} : q.phase = "read" => q.answer # <<>>
  BY <1>1, <1>5 DEF SettingsInv, DataThere
<1>10. QED
  BY <1>1, <1>2, <1>5, <1>6, <1>7, <1>8, <1>9, QueriesMove DEF SettingsTyped

LEMMA OthersReadStep ==
  ASSUME SettingsInv, OthersRead
  PROVE  SettingsInv'
<1>1. UNCHANGED <<optionsQ, stored, saves, install, fields, edited>>
  BY DEF OthersRead, AsksOnly
<1>2. SettingsTyped
  BY DEF SettingsInv
<1>3. CASE /\ publicQ' = Read(publicQ, Part(Public)) /\ selfQ' = selfQ
           /\ torn' = torn \ Torn("public", Followed)
  <2>1. PICK p : p = Part(Public)
    OBVIOUS
  <2>2. p \in Valued(OfPublic) /\ \A k \in OfPublic : p[k] = stored[k]
    BY <1>2, <2>1, PartIsValued DEF SettingsTyped, OfPublic
  <2>3. /\ IsQueryOf(publicQ', Valued(OfPublic)) /\ publicQ'.data = publicQ.data
        /\ publicQ'.phase = "read" /\ publicQ'.answer = <<p>> /\ publicQ'.answer # <<>>
    BY <1>2, <1>3, <2>1, <2>2, QueryReads DEF SettingsTyped
  <2>4. PublicFollows'
    <3>1. ASSUME NEW k \in OfPublic PROVE Current(publicQ, k)'
      <4>1. publicQ'.answer[1] = p
        BY <2>3
      <4>2. QED
        BY <1>1, <2>2, <2>3, <4>1 DEF Current
    <3>2. QED
      BY <3>1 DEF PublicFollows
  <2>5. OptionsFollow' /\ SelfFollows'
    <3>1. \A k : <<"options", k>> \in torn => <<"options", k>> \in torn'
      BY <1>3, TornOnly
    <3>2. \A k : <<"self", k>> \in torn => <<"self", k>> \in torn'
      BY <1>3, TornOnly
    <3>3. QED
      BY <1>1, <1>3, <3>1, <3>2, FollowKept
  <2>6. \A q \in {optionsQ', publicQ', selfQ'} : q.phase = "read" => q.answer # <<>>
    BY <1>1, <1>3, <2>3 DEF SettingsInv, DataThere
  <2>7. ~IsRoot => optionsQ'.phase = "idle"
    BY <1>1 DEF SettingsInv, DataThere
  <2>8. QED
    BY <1>1, <1>2, <1>3, <2>3, <2>4, <2>5, <2>6, <2>7, QueriesMove DEF SettingsTyped
<1>4. CASE /\ selfQ' = Read(selfQ, Part(SelfKeys)) /\ publicQ' = publicQ
           /\ torn' = torn \ Torn("self", Followed)
  <2>1. PICK p : p = Part(SelfKeys)
    OBVIOUS
  <2>2. p \in Valued(OfSelf) /\ \A k \in OfSelf : p[k] = stored[k]
    BY <1>2, <2>1, PartIsValued DEF SettingsTyped, OfSelf
  <2>3. /\ IsQueryOf(selfQ', Valued(OfSelf)) /\ selfQ'.data = selfQ.data
        /\ selfQ'.phase = "read" /\ selfQ'.answer = <<p>> /\ selfQ'.answer # <<>>
    BY <1>2, <1>4, <2>1, <2>2, QueryReads DEF SettingsTyped
  <2>4. SelfFollows'
    <3>1. ASSUME NEW k \in OfSelf PROVE Current(selfQ, k)'
      <4>1. selfQ'.answer[1] = p
        BY <2>3
      <4>2. QED
        BY <1>1, <2>2, <2>3, <4>1 DEF Current
    <3>2. QED
      BY <3>1 DEF SelfFollows
  <2>5. OptionsFollow' /\ PublicFollows'
    <3>1. \A k : <<"options", k>> \in torn => <<"options", k>> \in torn'
      BY <1>4, TornOnly
    <3>2. \A k : <<"public", k>> \in torn => <<"public", k>> \in torn'
      BY <1>4, TornOnly
    <3>3. QED
      BY <1>1, <1>4, <3>1, <3>2, FollowKept
  <2>6. \A q \in {optionsQ', publicQ', selfQ'} : q.phase = "read" => q.answer # <<>>
    BY <1>1, <1>4, <2>3 DEF SettingsInv, DataThere
  <2>7. ~IsRoot => optionsQ'.phase = "idle"
    BY <1>1 DEF SettingsInv, DataThere
  <2>8. QED
    BY <1>1, <1>2, <1>4, <2>3, <2>4, <2>5, <2>6, <2>7, QueriesMove DEF SettingsTyped
<1>5. QED
  BY <1>3, <1>4 DEF OthersRead

LEMMA QueryFailsStep ==
  ASSUME SettingsInv, QueryFails
  PROVE  SettingsInv'
<1>1. UNCHANGED <<stored, saves, install, fields, edited, torn>>
  BY DEF QueryFails, AsksOnly
<1>2. SettingsTyped
  BY DEF SettingsInv
<1>3. \/ optionsQ' = Failed(optionsQ) /\ UNCHANGED <<publicQ, selfQ>>
      \/ publicQ' = Failed(publicQ) /\ UNCHANGED <<optionsQ, selfQ>>
      \/ selfQ' = Failed(selfQ) /\ UNCHANGED <<optionsQ, publicQ>>
  BY DEF QueryFails
<1>4. /\ IsQueryOf(optionsQ, Valued(Options)) /\ IsQueryOf(publicQ, Valued(OfPublic))
      /\ IsQueryOf(selfQ, Valued(OfSelf))
  BY <1>2 DEF SettingsTyped
<1>5. /\ IsQueryOf(optionsQ', Valued(Options)) /\ IsQueryOf(publicQ', Valued(OfPublic))
      /\ IsQueryOf(selfQ', Valued(OfSelf))
      /\ optionsQ'.data = optionsQ.data /\ publicQ'.data = publicQ.data
      /\ selfQ'.data = selfQ.data
  <2>1. CASE optionsQ' = Failed(optionsQ) /\ UNCHANGED <<publicQ, selfQ>>
    BY <1>4, <2>1, QueryFailed
  <2>2. CASE publicQ' = Failed(publicQ) /\ UNCHANGED <<optionsQ, selfQ>>
    BY <1>4, <2>2, QueryFailed
  <2>3. CASE selfQ' = Failed(selfQ) /\ UNCHANGED <<optionsQ, publicQ>>
    BY <1>4, <2>3, QueryFailed
  <2>4. QED
    BY <1>3, <2>1, <2>2, <2>3
<1>6. /\ optionsQ' = optionsQ \/ optionsQ'.phase = "idle"
      /\ publicQ' = publicQ \/ publicQ'.phase = "idle"
      /\ selfQ' = selfQ \/ selfQ'.phase = "idle"
  <2>1. CASE optionsQ' = Failed(optionsQ) /\ UNCHANGED <<publicQ, selfQ>>
    BY <1>4, <2>1, QueryFailed
  <2>2. CASE publicQ' = Failed(publicQ) /\ UNCHANGED <<optionsQ, selfQ>>
    BY <1>4, <2>2, QueryFailed
  <2>3. CASE selfQ' = Failed(selfQ) /\ UNCHANGED <<optionsQ, publicQ>>
    BY <1>4, <2>3, QueryFailed
  <2>4. QED
    BY <1>3, <2>1, <2>2, <2>3
<1>7. \A q \in {optionsQ', publicQ', selfQ'} : q.phase = "read" => q.answer # <<>>
  BY <1>6 DEF SettingsInv, DataThere
<1>8. OptionsFollow'
  <2>1. CASE optionsQ' = optionsQ
    BY <1>1, <2>1, FollowKept
  <2>2. CASE optionsQ' = Failed(optionsQ)
    <3>1. optionsQ'.phase = "idle" /\ optionsQ'.failed
      BY <1>4, <2>2, QueryFailed
    <3>2. QED
      BY <3>1 DEF OptionsFollow, Current
  <2>3. QED
    BY <1>3, <2>1, <2>2
<1>9. PublicFollows'
  <2>1. CASE publicQ' = publicQ
    BY <1>1, <2>1, FollowKept
  <2>2. CASE publicQ' = Failed(publicQ)
    <3>1. publicQ'.phase = "idle" /\ publicQ'.failed
      BY <1>4, <2>2, QueryFailed
    <3>2. QED
      BY <3>1 DEF PublicFollows, Current
  <2>3. QED
    BY <1>3, <2>1, <2>2
<1>10. SelfFollows'
  <2>1. CASE selfQ' = selfQ
    BY <1>1, <2>1, FollowKept
  <2>2. CASE selfQ' = Failed(selfQ)
    <3>1. selfQ'.phase = "idle" /\ selfQ'.failed
      BY <1>4, <2>2, QueryFailed
    <3>2. QED
      BY <3>1 DEF SelfFollows, Current
  <2>3. QED
    BY <1>3, <2>1, <2>2
<1>11. ~IsRoot => optionsQ'.phase = "idle"
  BY <1>6 DEF SettingsInv, DataThere
<1>12. QED
  BY <1>1, <1>5, <1>7, <1>8, <1>9, <1>10, <1>11, QueriesMove

\* Answers fill fields: nothing is stored or torn by them.
LEMMA AnswersMove ==
  ASSUME SettingsInv, UNCHANGED <<stored, install, saves>>, edited' \subseteq edited,
         fields' \in Valued(Followed),
         IsQueryOf(optionsQ', Valued(Options)), IsQueryOf(publicQ', Valued(OfPublic)),
         IsQueryOf(selfQ', Valued(OfSelf)),
         optionsQ.data # <<>> => optionsQ'.data # <<>>, publicQ.data # <<>> => publicQ'.data # <<>>,
         selfQ.data # <<>> => selfQ'.data # <<>>,
         \A q \in {optionsQ', publicQ', selfQ'} : q.phase = "read" => q.answer # <<>>,
         ~IsRoot => optionsQ'.data = <<>> /\ optionsQ'.phase = "idle",
         OptionsFollow', PublicFollows', SelfFollows', OptionsShown', SelfShown'
  PROVE  SettingsInv'
<1>1. SettingsTyped'
  BY DEF SettingsInv, SettingsTyped
<1>2. DataThere'
  BY DEF SettingsInv, DataThere
<1>3. Installed'
  BY DEF SettingsInv, Installed, KernelValue
<1>4. QED
  BY <1>1, <1>2, <1>3 DEF SettingsInv

\* What was read is there, of its kinds.
LEMMA AnswerIsThere ==
  ASSUME NEW S, NEW q, IsQueryOf(q, Valued(S)), q.answer # <<>>
  PROVE  q.answer[1] \in Valued(S)
<1>1. q.answer \in Seq(Valued(S))
  BY QueryFields
<1>2. QED
  BY <1>1, Present1

LEMMA OptionsAnswerStep ==
  ASSUME SettingsInv, OptionsAnswer
  PROVE  SettingsInv'
<1>1. /\ optionsQ.phase = "read" /\ optionsQ' = Answered(optionsQ)
      /\ UNCHANGED <<publicQ, selfQ, stored, saves, install, torn>>
  BY DEF OptionsAnswer, AsksOnly
<1>2. SettingsTyped /\ DataThere
  BY DEF SettingsInv
<1>3. /\ IsQueryOf(optionsQ', Valued(Options)) /\ optionsQ'.data = optionsQ.answer
      /\ ~optionsQ'.failed /\ optionsQ'.phase = "idle"
  BY <1>1, <1>2, QueryAnswered DEF SettingsTyped
<1>4. optionsQ.answer # <<>> /\ optionsQ.answer[1] \in Valued(Options)
  <2>1. optionsQ.answer # <<>>
    BY <1>1, <1>2 DEF DataThere
  <2>2. QED
    BY <1>2, <2>1, AnswerIsThere DEF SettingsTyped
<1>5. IsRoot
  BY <1>1, <1>2 DEF DataThere
<1>6. OptionsFollow'
  <2>1. ASSUME NEW k \in Options
        PROVE  <<"options", k>> \in torn \/ OptionComing(k) \/ Current(optionsQ, k)'
    <3>1. \/ <<"options", k>> \in torn \/ OptionComing(k)
          \/ optionsQ.answer[1][k] = stored[k]
      BY <1>1 DEF SettingsInv, OptionsFollow, Current
    <3>2. QED
      BY <1>1, <1>3, <3>1 DEF Current
  <2>2. QED
    BY <1>1, <2>1, ComingKept DEF OptionsFollow
<1>7. PublicFollows' /\ SelfFollows'
  BY <1>1, FollowKept
<1>8. \A q \in {optionsQ', publicQ', selfQ'} : q.phase = "read" => q.answer # <<>>
  BY <1>1, <1>2, <1>3 DEF DataThere
<1>9. CASE /\ fields' = FillOptions(fields, optionsQ.answer[1], StatusAddress(publicQ))
           /\ edited' = edited \ Options
  <2>1. PICK o \in Valued(Options) : o = optionsQ.answer[1]
    BY <1>4
  <2>2. /\ fields' = FillOptions(fields, o, StatusAddress(publicQ))
        /\ edited' = edited \ Options
    BY <1>9, <2>1
  <2>3. PICK a \in Texts : a = StatusAddress(publicQ)
    BY <1>2, StatusAddressIsText
  <2>4. fields \in Valued(Followed)
    BY <1>2 DEF SettingsTyped
  <2>5. /\ fields' \in Valued(Followed)
        /\ \A k \in Options : fields'[k] = Display(k, o[k], a)
        /\ \A k \in Followed \ Options : fields'[k] = fields[k]
    BY <2>2, <2>3, <2>4, OptionsFill
  <2>6. StatusAddress(publicQ)' = a
    BY <1>1, <2>3 DEF StatusAddress
  <2>7. OptionsShown'
    <3>1. optionsQ'.data # <<>> /\ optionsQ'.data[1] = o
      BY <1>3, <1>4, <2>1
    <3>2. \A k \in Options : FromOptions(k)'
      BY <2>5, <2>6, <3>1 DEF FromOptions
    <3>3. QED
      BY <3>1, <3>2 DEF OptionsShown
  <2>8. SelfShown'
    <3>1. \A k \in OfSelf : k \in Followed \ Options
      BY OptionSets DEF OfSelf
    <3>2. \A k \in OfSelf : fields'[k] = fields[k] /\ (k \in edited' <=> k \in edited)
      BY <2>2, <2>5, <3>1
    <3>3. QED
      BY <1>1, <3>2 DEF SettingsInv, SelfShown
  <2>9. edited' \subseteq edited
    BY <2>2
  <2>10. /\ IsQueryOf(publicQ', Valued(OfPublic)) /\ IsQueryOf(selfQ', Valued(OfSelf))
         /\ optionsQ'.data # <<>>
    BY <1>1, <1>2, <1>3, <1>4 DEF SettingsTyped
  <2>11. QED
    BY <1>1, <1>3, <1>5, <1>6, <1>7, <1>8, <2>5, <2>7, <2>8, <2>9, <2>10, AnswersMove
<1>10. CASE optionsQ.answer = optionsQ.data /\ UNCHANGED <<fields, edited>>
  <2>1. UNCHANGED <<fields, edited>>
    BY <1>10
  <2>2. optionsQ'.data = optionsQ.data
    BY <1>3, <1>10
  <2>3. IsQueryOf(publicQ', Valued(OfPublic)) /\ IsQueryOf(selfQ', Valued(OfSelf))
    BY <1>1, <1>2 DEF SettingsTyped
  <2>4. QED
    BY <1>1, <1>3, <1>5, <1>6, <1>7, <1>8, <2>1, <2>2, <2>3, QueriesMove
<1>11. QED
  BY <1>9, <1>10 DEF OptionsAnswer

LEMMA SelfAnswerStep ==
  ASSUME SettingsInv, SelfAnswer
  PROVE  SettingsInv'
<1>1. /\ selfQ.phase = "read" /\ selfQ' = Answered(selfQ)
      /\ UNCHANGED <<publicQ, optionsQ, stored, saves, install, torn>>
  BY DEF SelfAnswer, AsksOnly
<1>2. SettingsTyped /\ DataThere
  BY DEF SettingsInv
<1>3. /\ IsQueryOf(selfQ', Valued(OfSelf)) /\ selfQ'.data = selfQ.answer
      /\ ~selfQ'.failed /\ selfQ'.phase = "idle"
  BY <1>1, <1>2, QueryAnswered DEF SettingsTyped
<1>4. selfQ.answer # <<>> /\ selfQ.answer[1] \in Valued(OfSelf)
  <2>1. selfQ.answer # <<>>
    BY <1>1, <1>2 DEF DataThere
  <2>2. QED
    BY <1>2, <2>1, AnswerIsThere DEF SettingsTyped
<1>5. SelfFollows'
  <2>1. ASSUME NEW k \in OfSelf
        PROVE  <<"self", k>> \in torn \/ SelfComing(k) \/ Current(selfQ, k)'
    <3>1. <<"self", k>> \in torn \/ SelfComing(k) \/ selfQ.answer[1][k] = stored[k]
      BY <1>1 DEF SettingsInv, SelfFollows, Current
    <3>2. QED
      BY <1>1, <1>3, <3>1 DEF Current
  <2>2. QED
    BY <1>1, <2>1, ComingKept DEF SelfFollows
<1>6. PublicFollows' /\ OptionsFollow'
  BY <1>1, FollowKept
<1>7. \A q \in {optionsQ', publicQ', selfQ'} : q.phase = "read" => q.answer # <<>>
  BY <1>1, <1>2, <1>3 DEF DataThere
<1>8. IsQueryOf(publicQ', Valued(OfPublic)) /\ IsQueryOf(optionsQ', Valued(Options))
  BY <1>1, <1>2 DEF SettingsTyped
<1>9. ~IsRoot => optionsQ'.data = <<>> /\ optionsQ'.phase = "idle"
  BY <1>1, <1>2 DEF DataThere
<1>10. CASE selfQ.answer # selfQ.data
  <2>1. PICK u \in Valued(OfSelf) : u = selfQ.answer[1]
    BY <1>4
  <2>2. fields' = FillSelf(fields, u) /\ edited' = edited \ (SelfKeys \ {"wechat"})
    BY <1>10, <2>1 DEF SelfAnswer
  <2>3. fields \in Valued(Followed)
    BY <1>2 DEF SettingsTyped
  <2>4. /\ fields' \in Valued(Followed)
        /\ \A k \in OfSelf \ {"wechat"} : fields'[k] = u[k]
        /\ \A k \in Options : fields'[k] = fields[k]
    BY <2>2, <2>3, SelfFill
  <2>5. OptionsShown'
    <3>1. \A k \in Options : k \in edited' <=> k \in edited
      BY <2>2, OptionSets
    <3>2. StatusAddress(publicQ)' = StatusAddress(publicQ)
      BY <1>1 DEF StatusAddress
    <3>3. ASSUME NEW k \in Options
          PROVE  /\ FromOptions(k)' <=> FromOptions(k)
                 /\ FromStatus(k)' <=> FromStatus(k)
                 /\ FromInstall(k)' <=> FromInstall(k)
      BY <1>1, <2>4, <3>2 DEF FromOptions, FromStatus, FromInstall
    <3>4. QED
      BY <1>1, <3>1, <3>3 DEF SettingsInv, OptionsShown
  <2>6. SelfShown'
    <3>1. selfQ'.data # <<>> /\ selfQ'.data[1] = u
      BY <1>3, <1>4, <2>1
    <3>2. QED
      BY <2>4, <3>1 DEF SelfShown
  <2>7. edited' \subseteq edited /\ selfQ'.data # <<>>
    BY <1>3, <1>4, <2>2
  <2>8. QED
    BY <1>1, <1>3, <1>5, <1>6, <1>7, <1>8, <1>9, <2>4, <2>5, <2>6, <2>7, AnswersMove
<1>11. CASE selfQ.answer = selfQ.data
  <2>1. UNCHANGED <<fields, edited>> /\ selfQ'.data = selfQ.data
    BY <1>3, <1>11 DEF SelfAnswer
  <2>2. QED
    BY <1>1, <1>3, <1>5, <1>6, <1>7, <1>8, <1>9, <2>1, QueriesMove
<1>12. QED
  BY <1>10, <1>11

LEMMA PublicAnswerStep ==
  ASSUME SettingsInv, PublicAnswer
  PROVE  SettingsInv'
<1>1. /\ publicQ.phase = "read" /\ publicQ' = Answered(publicQ)
      /\ UNCHANGED <<optionsQ, selfQ, stored, saves, install, torn>>
  BY DEF PublicAnswer, AsksOnly
<1>2. SettingsTyped /\ DataThere
  BY DEF SettingsInv
<1>3. /\ IsQueryOf(publicQ', Valued(OfPublic)) /\ publicQ'.data = publicQ.answer
      /\ ~publicQ'.failed /\ publicQ'.phase = "idle"
  BY <1>1, <1>2, QueryAnswered DEF SettingsTyped
<1>4. publicQ.answer # <<>> /\ publicQ.answer[1] \in Valued(OfPublic)
  <2>1. publicQ.answer # <<>>
    BY <1>1, <1>2 DEF DataThere
  <2>2. QED
    BY <1>2, <2>1, AnswerIsThere DEF SettingsTyped
<1>5. PublicFollows'
  <2>1. ASSUME NEW k \in OfPublic
        PROVE  <<"public", k>> \in torn \/ PublicComing(k) \/ Current(publicQ, k)'
    <3>1. <<"public", k>> \in torn \/ PublicComing(k) \/ publicQ.answer[1][k] = stored[k]
      BY <1>1 DEF SettingsInv, PublicFollows, Current
    <3>2. QED
      BY <1>1, <1>3, <3>1 DEF Current
  <2>2. QED
    BY <1>1, <2>1, ComingKept DEF PublicFollows
<1>6. SelfFollows' /\ OptionsFollow'
  BY <1>1, FollowKept
<1>7. \A q \in {optionsQ', publicQ', selfQ'} : q.phase = "read" => q.answer # <<>>
  BY <1>1, <1>2, <1>3 DEF DataThere
<1>8. IsQueryOf(selfQ', Valued(OfSelf)) /\ IsQueryOf(optionsQ', Valued(Options))
  BY <1>1, <1>2 DEF SettingsTyped
<1>9. ~IsRoot => optionsQ'.data = <<>> /\ optionsQ'.phase = "idle"
  BY <1>1, <1>2 DEF DataThere
<1> DEFINE s == publicQ.answer[1]
           filled == FillPublic(fields, s)
           again == optionsQ.data # <<>> /\ StatusAddress(publicQ') # StatusAddress(publicQ)
<1>10. CASE publicQ.answer # publicQ.data
  <2>1. s \in Valued(OfPublic) /\ fields \in Valued(Followed)
    BY <1>2, <1>4 DEF SettingsTyped
  <2> HIDE DEF s
  <2>2. /\ filled \in Valued(Followed)
        /\ \A k \in Followed \ Public : filled[k] = fields[k]
        /\ \A k \in OfPublic : IF k = "ServerAddress" THEN filled[k] = Address(s[k], "")
                               ELSE s[k] \in {filled[k], ""}
    BY <2>1, PublicFill
  <2> HIDE DEF filled
  <2>3. publicQ'.data # <<>> /\ publicQ'.data[1] = s
    BY <1>3, <1>4 DEF s
  <2>4. \A k \in OfSelf : k \in Followed \ Public /\ k \in Followed \ Options
    BY OptionSets, OptionKinds DEF OfSelf
  <2>5. CASE again
    <3>1. optionsQ.data[1] \in Valued(Options)
      <4>1. optionsQ.data \in Seq(Valued(Options))
        BY <1>2, QueryFields DEF SettingsTyped
      <4>2. QED
        BY <2>5, <4>1, Present1
    <3>2. PICK o \in Valued(Options) : o = optionsQ.data[1]
      BY <3>1
    <3>3. /\ fields' = FillOptions(filled, o, StatusAddress(publicQ'))
          /\ edited' = edited \ Options
      BY <1>10, <2>5, <3>2 DEF PublicAnswer, filled, s
    <3>4. StatusAddress(publicQ') \in Texts /\ StatusAddress(publicQ)' = StatusAddress(publicQ')
      <4>1. CASE "ServerAddress" \notin Followed
        BY <4>1 DEF StatusAddress, Texts
      <4>2. CASE "ServerAddress" \in Followed
        <5>1. s["ServerAddress"] \in Texts
          BY <2>1, <4>2, OptionKinds DEF Valued, OfPublic
        <5>2. QED
          BY <2>3, <4>2, <5>1 DEF StatusAddress
      <4>3. QED
        BY <4>1, <4>2
    <3>5. PICK a \in Texts : a = StatusAddress(publicQ')
      BY <3>4
    <3>6. /\ fields' \in Valued(Followed)
          /\ \A k \in Options : fields'[k] = Display(k, o[k], a)
          /\ \A k \in Followed \ Options : fields'[k] = filled[k]
      BY <2>2, <3>3, <3>5, OptionsFill
    <3>7. OptionsShown'
      <4>1. \A k \in Options : FromOptions(k)'
        BY <1>1, <3>2, <3>4, <3>5, <3>6 DEF FromOptions
      <4>2. QED
        BY <1>1, <2>5, <4>1 DEF OptionsShown
    <3>8. SelfShown'
      <4>1. \A k \in OfSelf : fields'[k] = fields[k] /\ (k \in edited' <=> k \in edited)
        BY <2>2, <2>4, <3>3, <3>6
      <4>2. QED
        BY <1>1, <4>1 DEF SettingsInv, SelfShown
    <3>9. edited' \subseteq edited
      BY <3>3
    <3>10. QED
      BY <1>1, <1>3, <1>5, <1>6, <1>7, <1>8, <1>9, <2>3, <3>6, <3>7, <3>8, <3>9, AnswersMove
  <2>6. CASE ~again
    <3>1. fields' = filled /\ edited' = edited
      BY <1>10, <2>6 DEF PublicAnswer, filled, s
    <3>2. OptionsShown'
      <4>1. SUFFICES ASSUME NEW k \in Options \ edited
                     PROVE  (FromOptions(k) \/ FromStatus(k) \/ FromInstall(k))'
        BY <1>1, <3>1 DEF SettingsInv, OptionsShown
      <4>2. CASE k \in Public
        <5>1. k \in OfPublic
          BY <4>2, OptionSets DEF OfPublic
        <5>2. FromStatus(k)'
          BY <2>2, <2>3, <3>1, <4>2, <5>1 DEF FromStatus
        <5>3. QED
          BY <5>2
      <4>3. CASE k \notin Public
        <5>1. fields'[k] = fields[k] /\ k # "ServerAddress"
          BY <2>2, <3>1, <4>3, OptionSets, OptionKinds
        <5>2. FromOptions(k) \/ FromInstall(k)
          BY <4>3 DEF SettingsInv, OptionsShown, FromStatus
        <5>3. FromInstall(k)' <=> FromInstall(k)
          BY <1>1, <5>1 DEF FromInstall
        <5>4. FromOptions(k)' <=> FromOptions(k)
          BY <1>1, <5>1 DEF FromOptions, Display
        <5>5. QED
          BY <5>2, <5>3, <5>4
      <4>4. QED
        BY <4>2, <4>3
    <3>3. SelfShown'
      <4>1. \A k \in OfSelf : fields'[k] = fields[k]
        BY <2>2, <2>4, <3>1
      <4>2. QED
        BY <1>1, <3>1, <4>1 DEF SettingsInv, SelfShown
    <3>4. edited' \subseteq edited
      BY <3>1
    <3>5. QED
      BY <1>1, <1>3, <1>5, <1>6, <1>7, <1>8, <1>9, <2>2, <2>3, <3>1, <3>2, <3>3, <3>4, AnswersMove
  <2>7. QED
    BY <2>5, <2>6
<1>11. CASE publicQ.answer = publicQ.data
  <2>1. UNCHANGED <<fields, edited>> /\ publicQ'.data = publicQ.data
    BY <1>3, <1>11 DEF PublicAnswer
  <2>2. QED
    BY <1>1, <1>3, <1>5, <1>6, <1>7, <1>8, <1>9, <2>1, QueriesMove
<1>12. QED
  BY <1>10, <1>11

-----------------------------------------------------------------------------
(* The acts of the user. *)

LEMMA ActsMove ==
  ASSUME SettingsInv, UNCHANGED <<stored, optionsQ, publicQ, selfQ, install, torn>>,
         fields' \in Valued(Followed), edited \subseteq edited', edited' \subseteq Followed,
         \A k \in Followed \ edited' : fields'[k] = fields[k],
         saves' \in [Slots -> SaveRecord],
         \A s \in Slots : GoodEntries(saves'[s].of, saves'[s].left),
         \A s \in Slots :
           \/ saves'[s] = saves[s]
           \/ /\ saves[s].phase = "idle" /\ selfQ.data # <<>> /\ publicQ.data # <<>>
              /\ saves'[s].of = "options" => optionsQ.data # <<>>
  PROVE  SettingsInv'
<1>1. SettingsTyped'
  BY DEF SettingsInv, SettingsTyped
<1>2. DataThere'
  BY DEF SettingsInv, DataThere
<1>3. ASSUME NEW k
      PROVE  /\ OptionComing(k) => OptionComing(k)'
             /\ PublicComing(k) => PublicComing(k)'
             /\ SelfComing(k) => SelfComing(k)'
  <2>1. \A s \in Slots : saves[s].phase \in {"writing", "options"} => saves'[s] = saves[s]
    OBVIOUS
  <2>2. OptionComing(k) => OptionComing(k)'
    BY <2>1 DEF OptionComing
  <2>3. PublicComing(k) => PublicComing(k)'
    BY <2>1 DEF PublicComing
  <2>4. SelfComing(k) => SelfComing(k)'
    BY <2>1 DEF SelfComing
  <2>5. QED
    BY <2>2, <2>3, <2>4
<1>4. ASSUME NEW k
      PROVE  /\ Current(optionsQ, k)' <=> Current(optionsQ, k)
             /\ Current(publicQ, k)' <=> Current(publicQ, k)
             /\ Current(selfQ, k)' <=> Current(selfQ, k)
  BY CurrentKept
<1>5. OptionsFollow'
  BY <1>3, <1>4 DEF SettingsInv, OptionsFollow
<1>6. PublicFollows'
  BY <1>3, <1>4 DEF SettingsInv, PublicFollows
<1>7. SelfFollows'
  BY <1>3, <1>4 DEF SettingsInv, SelfFollows
<1>8. OptionsShown'
  <2>1. StatusAddress(publicQ)' = StatusAddress(publicQ)
    BY DEF StatusAddress
  <2>2. ASSUME NEW k \in Options \ edited'
        PROVE  /\ FromOptions(k)' <=> FromOptions(k)
               /\ FromStatus(k)' <=> FromStatus(k)
               /\ FromInstall(k)' <=> FromInstall(k)
    <3>1. fields'[k] = fields[k]
      BY <2>2, OptionSets
    <3>2. QED
      BY <2>1, <3>1 DEF FromOptions, FromStatus, FromInstall
  <2>3. QED
    BY <2>2 DEF SettingsInv, OptionsShown
<1>9. SelfShown'
  <2>1. \A k \in OfSelf \ edited' : fields'[k] = fields[k]
    BY OptionSets
  <2>2. QED
    BY <2>1 DEF SettingsInv, SelfShown
<1>10. Installed'
  BY DEF SettingsInv, Installed, KernelValue
<1>11. QED
  BY <1>1, <1>2, <1>5, <1>6, <1>7, <1>8, <1>9, <1>10 DEF SettingsInv

LEMMA EditStep ==
  ASSUME SettingsInv, NEW keys, Edit(keys)
  PROVE  SettingsInv'
<1>1. UNCHANGED <<stored, optionsQ, publicQ, selfQ, install, torn, saves>>
  BY DEF Edit, queries
<1>2. PICK k \in Followed \intersect keys : \E v \in Values(k) :
        fields' = [fields EXCEPT ![k] = v] /\ edited' = edited \union {k}
  BY DEF Edit
<1>3. fields \in Valued(Followed) /\ edited \subseteq Followed
  BY DEF SettingsInv, SettingsTyped
<1>4. fields' \in Valued(Followed)
  <2>1. PICK v \in Values(k) : fields' = [fields EXCEPT ![k] = v]
    BY <1>2
  <2>2. [fields EXCEPT ![k] = v] \in Valued(Followed)
    BY <1>3, OneValue
  <2>3. QED
    BY <2>1, <2>2
<1>5. \A j \in Followed \ edited' : fields'[j] = fields[j]
  <2>1. DOMAIN fields = Followed
    BY <1>3 DEF Valued
  <2>2. \A j \in Followed \ {k} : fields'[j] = fields[j]
    BY <1>2, <2>1
  <2>3. QED
    BY <1>2, <2>2
<1>6. edited \subseteq edited' /\ edited' \subseteq Followed
  BY <1>2, <1>3
<1>7. saves' \in [Slots -> SaveRecord] /\ \A s \in Slots : GoodEntries(saves'[s].of, saves'[s].left)
  BY <1>1 DEF SettingsInv, SettingsTyped
<1>8. \A s \in Slots : saves'[s] = saves[s]
  BY <1>1
<1>9. QED
  BY <1>1, <1>4, <1>5, <1>6, <1>7, <1>8, ActsMove

LEMMA BeginStep ==
  ASSUME SettingsInv, NEW key \in CardKeys, NEW of \in {"options", "self", "none"},
         NEW entries \in Entries, Begin(key, of, entries), GoodEntries(of, entries),
         selfQ.data # <<>>, publicQ.data # <<>>, of = "options" => optionsQ.data # <<>>,
         fields' \in Valued(Followed), edited \subseteq edited', edited' \subseteq Followed,
         \A k \in Followed \ edited' : fields'[k] = fields[k]
  PROVE  SettingsInv'
<1>1. UNCHANGED <<stored, optionsQ, publicQ, selfQ, install, torn>>
  BY DEF Begin, queries
<1>2. PICK r : r = [key |-> key, left |-> entries, wrote |-> {}, phase |-> "writing", of |-> of]
  OBVIOUS
<1>3. r \in SaveRecord /\ r.left = entries /\ r.of = of /\ r.phase = "writing"
  <2>1. r \in [key : CardKeys, left : Entries, wrote : SUBSET Followed,
               phase : {"idle", "writing", "options", "last"}, of : {"options", "self", "none"}]
    BY <1>2
  <2>2. QED
    BY <1>2, <2>1 DEF SaveRecord
<1>4. PICK s \in Slots : saves[s].phase = "idle" /\ saves' = [saves EXCEPT ![s] = r]
  BY <1>2 DEF Begin
<1>5. saves \in [Slots -> SaveRecord] /\ \A t \in Slots : GoodEntries(saves[t].of, saves[t].left)
  BY DEF SettingsInv, SettingsTyped
<1>6. saves' \in [Slots -> SaveRecord]
  BY <1>3, <1>4, <1>5
<1>7. saves'[s] = r /\ \A t \in Slots \ {s} : saves'[t] = saves[t]
  BY <1>4, <1>5
<1>8. \A t \in Slots : GoodEntries(saves'[t].of, saves'[t].left)
  <2>1. GoodEntries(saves'[s].of, saves'[s].left)
    BY <1>3, <1>7
  <2>2. \A t \in Slots \ {s} : GoodEntries(saves'[t].of, saves'[t].left)
    BY <1>5, <1>7
  <2>3. QED
    BY <2>1, <2>2
<1>9. \A t \in Slots : saves'[t] = saves[t] \/ (saves[t].phase = "idle" /\ saves'[t].of = of)
  BY <1>3, <1>4, <1>7
<1>10. QED
  BY <1>1, <1>6, <1>8, <1>9, ActsMove

LEMMA RejectedStep ==
  ASSUME SettingsInv, NEW key, NEW needed, Rejected(key, needed)
  PROVE  SettingsInv'
<1>1. UNCHANGED <<stored, optionsQ, publicQ, selfQ, install, torn, saves, fields, edited>>
  BY DEF Rejected, queries
<1>2. /\ fields' \in Valued(Followed) /\ edited' \subseteq Followed
      /\ saves' \in [Slots -> SaveRecord]
      /\ \A s \in Slots : GoodEntries(saves'[s].of, saves'[s].left)
  BY <1>1 DEF SettingsInv, SettingsTyped
<1>3. QED
  BY <1>1, <1>2, ActsMove

LEMMA EntriesAreGood ==
  ASSUME SettingsInv, NEW of, NEW keys, DOMAIN keys \subseteq 1 .. 10,
         \A i \in DOMAIN keys : /\ keys[i] \notin KernelOnly
                                /\ of = (IF keys[i] \in SelfKeys THEN "self" ELSE "options")
  PROVE  EntriesOf(keys) \in Entries /\ GoodEntries(of, EntriesOf(keys))
<1> DEFINE S == {i \in DOMAIN keys : keys[i] \in Followed}
           e == EntriesOf(keys)
<1>1. fields \in Valued(Followed)
  BY DEF SettingsInv, SettingsTyped
<1>2. \A k \in Followed : fields[k] \in Values(k) /\ fields[k] \in Words
  BY <1>1, TextValues DEF Valued
<1>3. e = [i \in S |-> <<keys[i], fields[keys[i]]>>]
  BY DEF EntriesOf
<1> HIDE DEF e
<1>4. DOMAIN e = S /\ \A i \in S : e[i] = <<keys[i], fields[keys[i]]>>
  BY <1>3
<1>5. \A i \in S : e[i] \in Followed \X Words /\ e[i][1] = keys[i] /\ e[i][2] = fields[keys[i]]
  BY <1>2, <1>4
<1>6. e \in [S -> Followed \X Words] /\ S \in SUBSET (1 .. 10)
  BY <1>3, <1>5
<1>7. e \in Entries
  BY <1>6 DEF Entries
<1>8. GoodEntries(of, e)
  <2>1. ASSUME NEW i \in DOMAIN e
        PROVE  /\ e[i] \in Followed \X Words /\ e[i][2] \in Values(e[i][1])
               /\ e[i][1] \notin KernelOnly
               /\ of = (IF e[i][1] \in SelfKeys THEN "self" ELSE "options")
    <3>1. i \in S /\ i \in DOMAIN keys /\ keys[i] \in Followed
      BY <1>4
    <3>2. e[i] \in Followed \X Words /\ e[i][1] = keys[i] /\ e[i][2] = fields[keys[i]]
      BY <1>5, <3>1
    <3>3. e[i][2] \in Values(e[i][1])
      BY <1>2, <3>1, <3>2
    <3>4. e[i][1] \notin KernelOnly
      BY <3>1, <3>2
    <3>5. of = (IF e[i][1] \in SelfKeys THEN "self" ELSE "options")
      BY <3>1, <3>2
    <3>6. QED
      BY <3>2, <3>3, <3>4, <3>5
  <2>2. QED
    BY <2>1 DEF GoodEntries
<1>9. QED
  BY <1>7, <1>8 DEF e

LEMMA SaveStep ==
  ASSUME SettingsInv, NEW key \in CardKeys, NEW of \in {"options", "self", "none"}, NEW keys,
         Save(key, of, keys), DOMAIN keys \subseteq 1 .. 10,
         \A i \in DOMAIN keys : /\ keys[i] \notin KernelOnly
                                /\ of = (IF keys[i] \in SelfKeys THEN "self" ELSE "options"),
         selfQ.data # <<>>, publicQ.data # <<>>, of = "options" => optionsQ.data # <<>>
  PROVE  SettingsInv'
<1>1. Begin(key, of, EntriesOf(keys)) /\ UNCHANGED <<fields, edited>>
  BY DEF Save
<1>2. PICK e : e = EntriesOf(keys)
  OBVIOUS
<1>3. e \in Entries /\ GoodEntries(of, e)
  BY <1>2, EntriesAreGood
<1>4. fields' \in Valued(Followed) /\ edited' \subseteq Followed /\ edited \subseteq edited'
  BY <1>1 DEF SettingsInv, SettingsTyped
<1>5. \A k \in Followed \ edited' : fields'[k] = fields[k]
  BY <1>1
<1>6. Begin(key, of, e)
  BY <1>1, <1>2
<1>7. QED
  BY <1>3, <1>4, <1>5, <1>6, BeginStep

\* What a tab shows has been answered.
LEMMA ShownData ==
  ASSUME NEW t, Shows(t)
  PROVE  /\ selfQ.data # <<>> /\ publicQ.data # <<>>
         /\ t # "personal" => optionsQ.data # <<>>
BY DEF Shows, Answers

LEMMA CardStep ==
  ASSUME SettingsInv, NEW t, t # "personal", NEW key \in CardKeys, NEW keys, NEW needed,
         Card(t, key, keys, needed), DOMAIN keys \subseteq 1 .. 10,
         \A i \in DOMAIN keys : keys[i] \notin KernelOnly /\ keys[i] \notin SelfKeys
  PROVE  SettingsInv'
<1>1. selfQ.data # <<>> /\ publicQ.data # <<>> /\ optionsQ.data # <<>>
  BY ShownData DEF Card
<1>2. CASE Edit(ToSet(keys))
  BY <1>2, EditStep
<1>3. CASE Save(key, "options", keys)
  BY <1>1, <1>3, SaveStep
<1>4. CASE Rejected(key, needed)
  BY <1>4, RejectedStep
<1>5. QED
  BY <1>2, <1>3, <1>4 DEF Card

\* The cards name options by literal tuples.
LEMMA CardFields ==
  ASSUME NEW keys,
         keys \in {ClashKeys, RateLimits, <<"ServerUpdateRepo">>,
                   <<"ServerAddress", "GeoIPProvider">>,
                   <<"SMTPServer", "SMTPPort", "SMTPAccount", "SMTPToken">>,
                   <<"GitHubClientId", "GitHubClientSecret", "WeChatServerAddress",
                     "WeChatServerToken", "WeChatAccountQRCodeImageURL", "TurnstileSiteKey",
                     "TurnstileSecretKey">>,
                   <<"Notice", "SystemName", "HomePageLink", "Footer">>, <<"About">>}
  PROVE  /\ DOMAIN keys \subseteq 1 .. 10
         /\ \A i \in DOMAIN keys : keys[i] \notin KernelOnly /\ keys[i] \notin SelfKeys
<1>1. KernelOnly \union SelfKeys =
        {"MihomoBinaryPath", "MihomoBinaryVersion", "MihomoBinarySource",
         "username", "email", "wechat"}
  BY KernelFields DEF SelfKeys
<1>2. CASE keys = ClashKeys
  <2>1. DOMAIN keys = 1 .. 8
    BY <1>2 DEF ClashKeys
  <2>2. \A i \in 1 .. 8 : keys[i] \notin KernelOnly \union SelfKeys
    BY <1>1, <1>2 DEF ClashKeys
  <2>3. QED
    BY <2>1, <2>2
<1>3. CASE keys = RateLimits
  <2>1. DOMAIN keys = 1 .. 10
    BY <1>3 DEF RateLimits
  <2>2. \A i \in 1 .. 10 : keys[i] \notin KernelOnly \union SelfKeys
    BY <1>1, <1>3 DEF RateLimits
  <2>3. QED
    BY <2>1, <2>2
<1>4. CASE keys = <<"ServerUpdateRepo">> \/ keys = <<"About">>
           \/ keys = <<"ServerAddress", "GeoIPProvider">>
  BY <1>1, <1>4
<1>5. CASE keys = <<"SMTPServer", "SMTPPort", "SMTPAccount", "SMTPToken">>
           \/ keys = <<"Notice", "SystemName", "HomePageLink", "Footer">>
  BY <1>1, <1>5
<1>6. CASE keys = <<"GitHubClientId", "GitHubClientSecret", "WeChatServerAddress",
                    "WeChatServerToken", "WeChatAccountQRCodeImageURL", "TurnstileSiteKey",
                    "TurnstileSecretKey">>
  <2>1. DOMAIN keys = 1 .. 7
    BY <1>6
  <2>2. \A i \in 1 .. 7 : keys[i] \notin KernelOnly \union SelfKeys
    BY <1>1, <1>6
  <2>3. QED
    BY <2>1, <2>2
<1>7. QED
  BY <1>2, <1>3, <1>4, <1>5, <1>6

LEMMA OptionCardSteps ==
  ASSUME SettingsInv,
         \/ ClashCard \/ UpdateCard \/ GeneralCard \/ SmtpCard \/ IntegrationsCard
         \/ RateLimitCard \/ BrandCard \/ AboutCard
  PROVE  SettingsInv'
<1>1. {"clash-settings", "system-runtime", "system-general", "system-smtp",
       "system-integrations", "operation-rate-limit", "other-brand", "other-about"}
        \subseteq CardKeys
  BY DEF CardKeys
<1>2. ASSUME NEW t \in {"clash", "system", "other"}, NEW key \in CardKeys, NEW keys, NEW needed,
             Card(t, key, keys, needed), DOMAIN keys \subseteq 1 .. 10,
             \A i \in DOMAIN keys : keys[i] \notin KernelOnly /\ keys[i] \notin SelfKeys
      PROVE  SettingsInv'
  BY <1>2, CardStep
<1>3. CASE ClashCard
  BY <1>1, <1>2, <1>3, CardFields DEF ClashCard
<1>4. CASE UpdateCard
  BY <1>1, <1>2, <1>4, CardFields DEF UpdateCard
<1>5. CASE GeneralCard
  BY <1>1, <1>2, <1>5, CardFields DEF GeneralCard
<1>6. CASE SmtpCard
  BY <1>1, <1>2, <1>6, CardFields DEF SmtpCard
<1>7. CASE IntegrationsCard
  BY <1>1, <1>2, <1>7, CardFields DEF IntegrationsCard
<1>8. CASE RateLimitCard
  BY <1>1, <1>2, <1>8, CardFields DEF RateLimitCard
<1>9. CASE BrandCard
  BY <1>1, <1>2, <1>9, CardFields DEF BrandCard
<1>10. CASE AboutCard
  BY <1>1, <1>2, <1>10, CardFields DEF AboutCard
<1>11. QED
  BY <1>3, <1>4, <1>5, <1>6, <1>7, <1>8, <1>9, <1>10

LEMMA OwnCardSteps ==
  ASSUME SettingsInv, ProfileCard \/ BindingCard
  PROVE  SettingsInv'
<1>1. selfQ.data # <<>> /\ publicQ.data # <<>>
  BY ShownData DEF ProfileCard, BindingCard
<1>2. {"profile", "email-send", "email-bind", "wechat-bind"} \subseteq CardKeys
  BY DEF CardKeys
<1>3. ASSUME NEW k \in SelfKeys
      PROVE  /\ DOMAIN <<k>> \subseteq 1 .. 10
             /\ \A i \in DOMAIN <<k>> : /\ <<k>>[i] \notin KernelOnly
                                        /\ "self" = (IF <<k>>[i] \in SelfKeys THEN "self"
                                                     ELSE "options")
  <2>1. DOMAIN <<k>> = {1} /\ <<k>>[1] = k
    OBVIOUS
  <2>2. QED
    BY <2>1, OptionKinds
<1>4. ASSUME NEW key \in CardKeys, NEW k \in SelfKeys, Save(key, "self", <<k>>)
      PROVE  SettingsInv'
  BY <1>1, <1>3, <1>4, SaveStep
<1>5. CASE \E keys : Edit(keys)
  BY <1>5, EditStep
<1>6. CASE handleProfileSave
  BY <1>2, <1>4, <1>6 DEF handleProfileSave, SelfKeys
<1>7. CASE handleBindEmail
  BY <1>2, <1>4, <1>7 DEF handleBindEmail, SelfKeys
<1>8. CASE handleBindWeChat
  BY <1>2, <1>4, <1>8 DEF handleBindWeChat, SelfKeys
<1>9. CASE handleEmailVerification
  <2>1. Save("email-send", "none", <<>>)
    BY <1>9 DEF handleEmailVerification
  <2>2. DOMAIN <<>> = {}
    OBVIOUS
  <2>3. QED
    BY <1>1, <1>2, <2>1, <2>2, SaveStep
<1>10. QED
  BY <1>5, <1>6, <1>7, <1>8, <1>9 DEF ProfileCard, BindingCard

LEMMA ToggleStep ==
  ASSUME SettingsInv, handleToggleOption
  PROVE  SettingsInv'
<1>1. selfQ.data # <<>> /\ publicQ.data # <<>> /\ optionsQ.data # <<>>
  BY ShownData DEF handleToggleOption
<1>2. PICK k \in Followed \intersect Switches :
        LET v == IF fields[k] = "true" THEN "false" ELSE "true"
        IN  /\ fields' = [fields EXCEPT ![k] = v] /\ edited' = edited \union {k}
            /\ Begin(k, "options", <<<<k, v>>>>)
  BY DEF handleToggleOption
<1>3. PICK v \in {"true", "false"} :
        /\ fields' = [fields EXCEPT ![k] = v] /\ edited' = edited \union {k}
        /\ Begin(k, "options", <<<<k, v>>>>)
  BY <1>2
<1>4. PICK e : e = <<<<k, v>>>>
  OBVIOUS
<1>5. fields \in Valued(Followed) /\ edited \subseteq Followed
  BY DEF SettingsInv, SettingsTyped
<1>6. v \in Values(k) /\ k \notin KernelOnly /\ k \notin SelfKeys
  BY <1>2, <1>3, OptionKinds
<1>7. fields' \in Valued(Followed)
  BY <1>3, <1>5, <1>6, OneValue
<1>8. \A j \in Followed \ edited' : fields'[j] = fields[j]
  BY <1>3, <1>5 DEF Valued
<1>9. DOMAIN e = {1} /\ e[1] = <<k, v>> /\ e[1][1] = k /\ e[1][2] = v
  BY <1>4
<1>10. e \in Entries /\ GoodEntries("options", e)
  <2>1. <<k, v>> \in Followed \X Words
    BY <1>2, <1>6, TextValues
  <2>2. e \in [{1} -> Followed \X Words]
    BY <1>4, <1>9, <2>1
  <2>3. {1} \in SUBSET (1 .. 10)
    OBVIOUS
  <2>4. e \in Entries
    BY <2>2, <2>3 DEF Entries
  <2>5. GoodEntries("options", e)
    BY <1>6, <1>9, <2>1 DEF GoodEntries
  <2>6. QED
    BY <2>4, <2>5
<1>11. k \in CardKeys /\ edited \subseteq edited' /\ edited' \subseteq Followed
  BY <1>2, <1>3, <1>5 DEF CardKeys
<1>12. Begin(k, "options", e)
  BY <1>3, <1>4
<1>13. QED
  BY <1>1, <1>7, <1>8, <1>10, <1>11, <1>12, BeginStep

-----------------------------------------------------------------------------
(* The saves. *)

\* A save moves, which may store what is in K: what it shows of the queries is not touched.
LEMMA SavesMove ==
  ASSUME SettingsInv, UNCHANGED <<fields, edited, install>>,
         NEW K, K \intersect KernelOnly = {}, stored' \in Valued(Followed),
         \A k \in Followed \ K : stored'[k] = stored[k],
         IsQueryOf(optionsQ', Valued(Options)), IsQueryOf(publicQ', Valued(OfPublic)),
         IsQueryOf(selfQ', Valued(OfSelf)),
         optionsQ'.data = optionsQ.data, publicQ'.data = publicQ.data, selfQ'.data = selfQ.data,
         \A q \in {optionsQ', publicQ', selfQ'} : q.phase = "read" => q.answer # <<>>,
         ~IsRoot => optionsQ'.phase = "idle",
         saves' \in [Slots -> SaveRecord],
         \A s \in Slots : GoodEntries(saves'[s].of, saves'[s].left),
         \A s \in Slots : saves'[s].phase # "idle" =>
           saves[s].phase # "idle" /\ saves'[s].of = saves[s].of,
         OptionsFollow', PublicFollows', SelfFollows'
  PROVE  SettingsInv'
<1>1. SettingsTyped'
  BY DEF SettingsInv, SettingsTyped
<1>2. DataThere'
  BY DEF SettingsInv, DataThere
<1>3. OptionsShown'
  <2>1. StatusAddress(publicQ)' = StatusAddress(publicQ)
    BY DEF StatusAddress
  <2>2. ASSUME NEW k \in Options
        PROVE  /\ FromOptions(k)' <=> FromOptions(k)
               /\ FromStatus(k)' <=> FromStatus(k)
               /\ FromInstall(k)' <=> FromInstall(k)
    <3>1. FromOptions(k)' <=> FromOptions(k)
      BY <2>1 DEF FromOptions
    <3>2. FromStatus(k)' <=> FromStatus(k)
      BY DEF FromStatus
    <3>3. FromInstall(k)' <=> FromInstall(k)
      <4>1. k \in KernelOnly => stored'[k] = stored[k]
        BY OptionSets
      <4>2. QED
        BY <4>1 DEF FromInstall
    <3>4. QED
      BY <3>1, <3>2, <3>3
  <2>3. QED
    BY <2>2 DEF SettingsInv, OptionsShown
<1>4. SelfShown'
  BY DEF SettingsInv, SelfShown
<1>5. Installed'
  <2>1. SUFFICES ASSUME install.phase # "idle", NEW i \in 1 .. 4, KernelKeys[i] \in Followed,
                        i \notin install.left
                 PROVE  stored'[KernelKeys[i]] = KernelValue(KernelKeys[i])
    BY DEF SettingsInv, Installed, KernelValue
  <2>2. CASE KernelKeys[i] = "KernelType"
    <3>1. stored'[KernelKeys[i]] \in {"new"}
      BY <2>1, <2>2, OptionKinds DEF Valued
    <3>2. QED
      BY <2>2, <3>1 DEF KernelValue
  <2>3. CASE KernelKeys[i] # "KernelType"
    <3>1. KernelKeys[i] \in KernelOnly
      <4>1. i \in {1, 2, 3, 4}
        BY <2>1
      <4>2. QED
        BY <2>3, <4>1, KernelFields
    <3>2. stored'[KernelKeys[i]] = stored[KernelKeys[i]]
      BY <2>1, <3>1
    <3>3. QED
      BY <2>1, <3>2 DEF SettingsInv, Installed
  <2>4. QED
    BY <2>2, <2>3
<1>6. QED
  BY <1>1, <1>2, <1>3, <1>4, <1>5 DEF SettingsInv

LEMMA OneSave ==
  ASSUME SettingsInv, NEW s \in Slots, NEW r \in SaveRecord, GoodEntries(r.of, r.left),
         saves' = [saves EXCEPT ![s] = r]
  PROVE  /\ saves' \in [Slots -> SaveRecord] /\ saves'[s] = r
         /\ \A t \in Slots : GoodEntries(saves'[t].of, saves'[t].left)
         /\ \A t \in Slots \ {s} : saves'[t] = saves[t]
<1>1. saves \in [Slots -> SaveRecord] /\ \A t \in Slots : GoodEntries(saves[t].of, saves[t].left)
  BY DEF SettingsInv, SettingsTyped
<1>2. saves' \in [Slots -> SaveRecord] /\ saves'[s] = r
      /\ \A t \in Slots \ {s} : saves'[t] = saves[t]
  BY <1>1
<1>3. \A t \in Slots : GoodEntries(saves'[t].of, saves'[t].left)
  <2>1. GoodEntries(saves'[s].of, saves'[s].left)
    BY <1>2
  <2>2. \A t \in Slots \ {s} : GoodEntries(saves'[t].of, saves'[t].left)
    BY <1>1, <1>2
  <2>3. QED
    BY <2>1, <2>2
<1>4. QED
  BY <1>2, <1>3

LEMMA NoSaveIsGood ==
  NoSave \in SaveRecord /\ NoSave.phase = "idle" /\ GoodEntries(NoSave.of, NoSave.left)
<1> DEFINE none == <<>>
<1>1. DOMAIN none = {} /\ none = [i \in {} |-> <<>>]
  OBVIOUS
<1>2. none \in [{} -> Followed \X Words]
  BY <1>1
<1>3. none \in Entries
  BY <1>2 DEF Entries
<1>4. GoodEntries("options", none)
  BY <1>1 DEF GoodEntries
<1> HIDE DEF none
<1>5. "" \in CardKeys /\ {} \in SUBSET Followed
  BY DEF CardKeys
<1>6. NoSave = [key |-> "", left |-> none, wrote |-> {}, phase |-> "idle", of |-> "options"]
  BY DEF NoSave, none
<1>7. QED
  BY <1>3, <1>4, <1>5, <1>6 DEF SaveRecord

\* What is written and not read, by a save that ends, is torn: the others are still coming.
LEMMA TornFollows ==
  ASSUME SettingsInv, UNCHANGED <<optionsQ, publicQ, selfQ, install>>, NEW s \in Slots,
         NEW W, saves[s].wrote \subseteq W, torn' = torn \union Unread(W),
         \A t \in Slots \ {s} : saves'[t] = saves[t],
         \A k \in Followed \ W : stored'[k] = stored[k],
         saves[s].phase = "writing"
  PROVE  OptionsFollow' /\ PublicFollows' /\ SelfFollows'
<1>1. ASSUME NEW k \in W
      PROVE  /\ k \in Options => <<"options", k>> \in torn'
             /\ k \in OfPublic => <<"public", k>> \in torn'
             /\ k \in OfSelf => <<"self", k>> \in torn'
  BY DEF Unread, Torn, OfPublic, OfSelf
<1>2. ASSUME NEW k \in Followed \ W
      PROVE  /\ OptionComing(k) => OptionComing(k)'
             /\ PublicComing(k) => PublicComing(k)'
             /\ SelfComing(k) => SelfComing(k)'
  <2>1. k \notin saves[s].wrote
    BY <1>2
  <2>2. OptionComing(k) => OptionComing(k)'
    BY <2>1 DEF OptionComing
  <2>3. PublicComing(k) => PublicComing(k)'
    BY <2>1 DEF PublicComing
  <2>4. SelfComing(k) => SelfComing(k)'
    BY <2>1 DEF SelfComing
  <2>5. QED
    BY <2>2, <2>3, <2>4
<1>3. ASSUME NEW k \in Followed \ W
      PROVE  /\ Current(optionsQ, k) => Current(optionsQ, k)'
             /\ Current(publicQ, k) => Current(publicQ, k)'
             /\ Current(selfQ, k) => Current(selfQ, k)'
  <2>1. stored'[k] = stored[k]
    BY <1>3
  <2>2. QED
    BY <2>1 DEF Current
<1>4. torn \subseteq torn'
  OBVIOUS
<1>5. OptionsFollow'
  BY <1>1, <1>2, <1>3, <1>4, OptionSets DEF SettingsInv, OptionsFollow
<1>6. PublicFollows'
  BY <1>1, <1>2, <1>3, <1>4, OptionSets DEF SettingsInv, PublicFollows
<1>7. SelfFollows'
  BY <1>1, <1>2, <1>3, <1>4, OptionSets DEF SettingsInv, SelfFollows
<1>8. QED
  BY <1>5, <1>6, <1>7

\* A save fails, having written W, of which at most K just now.
LEMMA FailureStep ==
  ASSUME SettingsInv, NEW s \in Slots, saves[s].phase = "writing", Failure(s),
         NEW K, K \subseteq Followed, K \intersect KernelOnly = {}, stored' \in Valued(Followed),
         \A k \in Followed \ K : stored'[k] = stored[k],
         torn' = torn \union Unread(saves[s].wrote \union K)
  PROVE  SettingsInv'
<1>1. /\ saves' = [saves EXCEPT ![s] = NoSave]
      /\ UNCHANGED <<optionsQ, publicQ, selfQ, fields, install, edited>>
  BY DEF Failure, queries
<1>2. /\ saves' \in [Slots -> SaveRecord] /\ saves'[s] = NoSave
      /\ \A t \in Slots : GoodEntries(saves'[t].of, saves'[t].left)
      /\ \A t \in Slots \ {s} : saves'[t] = saves[t]
  BY <1>1, NoSaveIsGood, OneSave
<1>3. PICK W : W = saves[s].wrote \union K
  OBVIOUS
<1>4. OptionsFollow' /\ PublicFollows' /\ SelfFollows'
  <2>1. saves[s].wrote \subseteq W /\ torn' = torn \union Unread(W)
        /\ \A k \in Followed \ W : stored'[k] = stored[k]
    BY <1>3
  <2>2. QED
    BY <1>1, <1>2, <2>1, TornFollows
<1>5. /\ IsQueryOf(optionsQ', Valued(Options)) /\ IsQueryOf(publicQ', Valued(OfPublic))
      /\ IsQueryOf(selfQ', Valued(OfSelf))
  BY <1>1 DEF SettingsInv, SettingsTyped
<1>6. /\ \A q \in {optionsQ', publicQ', selfQ'} : q.phase = "read" => q.answer # <<>>
      /\ ~IsRoot => optionsQ'.phase = "idle"
  BY <1>1 DEF SettingsInv, DataThere
<1>7. \A t \in Slots : saves'[t].phase # "idle" =>
        saves[t].phase # "idle" /\ saves'[t].of = saves[t].of
  BY <1>2, NoSaveIsGood
<1>8. QED
  BY <1>1, <1>2, <1>4, <1>5, <1>6, <1>7, SavesMove

LEMMA LostStep ==
  ASSUME SettingsInv, NEW s \in Slots, Lost(s)
  PROVE  SettingsInv'
<1>1. PICK K : K = {}
  OBVIOUS
<1>2. saves[s].wrote \union K = saves[s].wrote
  BY <1>1
<1>3. /\ saves[s].phase = "writing" /\ Failure(s) /\ stored' = stored
      /\ torn' = torn \union Unread(saves[s].wrote \union K)
  BY <1>2 DEF Lost
<1>4. /\ K \subseteq Followed /\ K \intersect KernelOnly = {}
      /\ stored' \in Valued(Followed) /\ \A k \in Followed \ K : stored'[k] = stored[k]
  BY <1>1, <1>3 DEF SettingsInv, SettingsTyped
<1>5. QED
  BY <1>3, <1>4, FailureStep

LEMMA WriteEntryStep ==
  ASSUME SettingsInv, NEW s \in Slots, WriteEntry(s)
  PROVE  SettingsInv'
<1> DEFINE left == saves[s].left
<1>1. saves[s] \in SaveRecord /\ GoodEntries(saves[s].of, left)
  BY DEF SettingsInv, SettingsTyped
<1>2. saves[s].phase = "writing" /\ stored \in Valued(Followed)
  BY DEF WriteEntry, SettingsInv, SettingsTyped
<1>3. PICK i \in DOMAIN left :
        LET k == left[i][1]
            v == left[i][2]
        IN  IF Refuses(k, v)
            THEN /\ Failure(s) /\ torn' = torn \union Unread(saves[s].wrote)
                 /\ UNCHANGED <<stored, did>>
            ELSE /\ stored' = [stored EXCEPT ![k] = v]
                 /\ \/ /\ saves' = [saves EXCEPT ![s].left = Restrict(@, DOMAIN @ \ {i}),
                                                  ![s].wrote = @ \union {k}]
                       /\ UNCHANGED <<queries, fields, busyKey, install, edited, torn, did>>
                    \/ /\ Act /\ Failure(s)
                       /\ torn' = torn \union Unread(saves[s].wrote \union {k})
  BY DEF WriteEntry
<1>4. PICK k, v : k = left[i][1] /\ v = left[i][2]
  OBVIOUS
<1>5. /\ k \in Followed /\ v \in Values(k) /\ k \notin KernelOnly
      /\ saves[s].of = (IF k \in SelfKeys THEN "self" ELSE "options")
  BY <1>1, <1>3, <1>4 DEF GoodEntries
<1>6. CASE Failure(s) /\ torn' = torn \union Unread(saves[s].wrote) /\ stored' = stored
  <2>1. PICK K : K = {}
    OBVIOUS
  <2>2. saves[s].wrote \union K = saves[s].wrote
    BY <2>1
  <2>3. torn' = torn \union Unread(saves[s].wrote \union K)
    BY <1>6, <2>2
  <2>4. /\ K \subseteq Followed /\ K \intersect KernelOnly = {}
        /\ stored' \in Valued(Followed) /\ \A j \in Followed \ K : stored'[j] = stored[j]
    BY <1>2, <1>6, <2>1
  <2>5. QED
    BY <1>2, <1>6, <2>3, <2>4, FailureStep
<1>7. ASSUME stored' = [stored EXCEPT ![k] = v]
      PROVE  /\ stored' \in Valued(Followed) /\ stored'[k] = v
             /\ \A j \in Followed \ {k} : stored'[j] = stored[j]
  <2>1. stored' \in Valued(Followed)
    BY <1>2, <1>5, <1>7, OneValue
  <2>2. DOMAIN stored = Followed
    BY <1>2 DEF Valued
  <2>3. QED
    BY <1>5, <1>7, <2>1, <2>2
<1>8. CASE /\ stored' = [stored EXCEPT ![k] = v] /\ Failure(s)
           /\ torn' = torn \union Unread(saves[s].wrote \union {k})
  <2>1. PICK K : K = {k}
    OBVIOUS
  <2>2. /\ K \subseteq Followed /\ K \intersect KernelOnly = {}
        /\ stored' \in Valued(Followed) /\ \A j \in Followed \ K : stored'[j] = stored[j]
    BY <1>5, <1>7, <1>8, <2>1
  <2>3. torn' = torn \union Unread(saves[s].wrote \union K)
    BY <1>8, <2>1
  <2>4. QED
    BY <1>2, <1>8, <2>2, <2>3, FailureStep
<1>9. CASE /\ stored' = [stored EXCEPT ![k] = v]
           /\ saves' = [saves EXCEPT ![s].left = Restrict(@, DOMAIN @ \ {i}),
                                     ![s].wrote = @ \union {k}]
           /\ UNCHANGED <<queries, fields, busyKey, install, edited, torn, did>>
  <2>1. UNCHANGED <<optionsQ, publicQ, selfQ, fields, edited, install, torn>>
    BY <1>9 DEF queries
  <2>2. /\ stored' \in Valued(Followed) /\ stored'[k] = v
        /\ \A j \in Followed \ {k} : stored'[j] = stored[j]
    BY <1>7, <1>9
  <2>3. PICK rest : rest = Restrict(left, DOMAIN left \ {i})
    OBVIOUS
  <2>4. rest \in Entries /\ GoodEntries(saves[s].of, rest)
    <3>1. rest = [j \in DOMAIN left \ {i} |-> left[j]]
      BY <2>3 DEF Restrict
    <3>2. left \in Entries
      BY <1>1 DEF SaveRecord
    <3>3. PICK S \in SUBSET (1 .. 10) : left \in [S -> Followed \X Words]
      BY <3>2 DEF Entries
    <3>4. S \ {i} \in SUBSET (1 .. 10) /\ rest \in [S \ {i} -> Followed \X Words]
      BY <3>1, <3>3
    <3>5. rest \in Entries
      BY <3>4 DEF Entries
    <3>6. DOMAIN rest \subseteq DOMAIN left /\ \A j \in DOMAIN rest : rest[j] = left[j]
      BY <3>1
    <3>7. GoodEntries(saves[s].of, rest)
      BY <1>1, <3>6 DEF GoodEntries
    <3>8. QED
      BY <3>5, <3>7
  <2>5. PICK r : r = [saves[s] EXCEPT !.left = rest, !.wrote = @ \union {k}]
    OBVIOUS
  <2>6. /\ r \in SaveRecord /\ r.left = rest /\ r.wrote = saves[s].wrote \union {k}
        /\ r.of = saves[s].of /\ r.phase = saves[s].phase
    BY <1>1, <1>5, <2>4, <2>5 DEF SaveRecord
  <2>7. saves' = [saves EXCEPT ![s] = r]
    <3>1. saves \in [Slots -> SaveRecord]
      BY DEF SettingsInv, SettingsTyped
    <3>2. saves' = [saves EXCEPT ![s] = [saves[s] EXCEPT
                      !.left = Restrict(left, DOMAIN left \ {i}), !.wrote = @ \union {k}]]
      BY <1>9, <3>1
    <3>3. QED
      BY <2>3, <2>5, <3>2
  <2>8. /\ saves' \in [Slots -> SaveRecord] /\ saves'[s] = r
        /\ \A t \in Slots : GoodEntries(saves'[t].of, saves'[t].left)
        /\ \A t \in Slots \ {s} : saves'[t] = saves[t]
    BY <2>4, <2>6, <2>7, OneSave
  <2>9. ASSUME NEW j
        PROVE  /\ OptionComing(j) => OptionComing(j)'
               /\ PublicComing(j) => PublicComing(j)'
               /\ SelfComing(j) => SelfComing(j)'
    <3>1. \A t \in Slots : /\ saves'[t].phase = saves[t].phase /\ saves'[t].of = saves[t].of
                           /\ saves[t].wrote \subseteq saves'[t].wrote
      BY <2>6, <2>8
    <3>2. OptionComing(j) => OptionComing(j)'
      BY <2>1, <3>1 DEF OptionComing
    <3>3. PublicComing(j) => PublicComing(j)'
      BY <3>1 DEF PublicComing
    <3>4. SelfComing(j) => SelfComing(j)'
      BY <3>1 DEF SelfComing
    <3>5. QED
      BY <3>2, <3>3, <3>4
  <2>10. /\ k \in Options => OptionComing(k)' /\ PublicComing(k)'
         /\ k \in OfSelf => SelfComing(k)'
    <3>1. saves'[s].phase = "writing" /\ saves'[s].of = saves[s].of /\ k \in saves'[s].wrote
      BY <1>2, <2>6, <2>8
    <3>2. k \in Options => saves'[s].of = "options"
      BY <1>5, <3>1, OptionSets DEF Options
    <3>3. k \in OfSelf => saves'[s].of = "self"
      BY <1>5, <3>1 DEF OfSelf
    <3>4. k \in Options => OptionComing(k)' /\ PublicComing(k)'
      BY <3>1, <3>2 DEF OptionComing, PublicComing
    <3>5. k \in OfSelf => SelfComing(k)'
      BY <3>1, <3>3 DEF SelfComing
    <3>6. QED
      BY <3>4, <3>5
  <2>11. ASSUME NEW j \in Followed \ {k}
         PROVE  /\ Current(optionsQ, j) => Current(optionsQ, j)'
                /\ Current(publicQ, j) => Current(publicQ, j)'
                /\ Current(selfQ, j) => Current(selfQ, j)'
    BY <2>1, <2>2, <2>11 DEF Current
  <2>12. OptionsFollow'
    BY <2>1, <2>9, <2>10, <2>11, OptionSets DEF SettingsInv, OptionsFollow
  <2>13. PublicFollows'
    BY <2>1, <2>9, <2>10, <2>11, OptionSets DEF SettingsInv, PublicFollows
  <2>14. SelfFollows'
    BY <2>1, <2>9, <2>10, <2>11, OptionSets DEF SettingsInv, SelfFollows
  <2>15. PICK K : K = {k}
    OBVIOUS
  <2>16. K \intersect KernelOnly = {} /\ \A j \in Followed \ K : stored'[j] = stored[j]
    BY <1>5, <2>2, <2>15
  <2>17. /\ IsQueryOf(optionsQ', Valued(Options)) /\ IsQueryOf(publicQ', Valued(OfPublic))
         /\ IsQueryOf(selfQ', Valued(OfSelf))
    BY <2>1 DEF SettingsInv, SettingsTyped
  <2>18. /\ \A q \in {optionsQ', publicQ', selfQ'} : q.phase = "read" => q.answer # <<>>
         /\ ~IsRoot => optionsQ'.phase = "idle"
    BY <2>1 DEF SettingsInv, DataThere
  <2>19. \A t \in Slots : saves'[t].phase # "idle" =>
           saves[t].phase # "idle" /\ saves'[t].of = saves[t].of
    BY <2>6, <2>8
  <2>20. QED
    BY <2>1, <2>2, <2>8, <2>12, <2>13, <2>14, <2>16, <2>17, <2>18, <2>19, SavesMove
<1>10. CASE Refuses(k, v)
  BY <1>3, <1>4, <1>6, <1>10
<1>11. CASE ~Refuses(k, v)
  BY <1>3, <1>4, <1>8, <1>9, <1>11
<1>12. QED
  BY <1>10, <1>11

LEMMA PhaseMoves ==
  ASSUME SettingsInv, NEW s \in Slots, NEW p \in {"idle", "writing", "options", "last"},
         saves' = [saves EXCEPT ![s].phase = p]
  PROVE  /\ saves' \in [Slots -> SaveRecord]
         /\ saves'[s].phase = p /\ saves'[s].of = saves[s].of /\ saves'[s].wrote = saves[s].wrote
         /\ \A t \in Slots : GoodEntries(saves'[t].of, saves'[t].left)
         /\ \A t \in Slots \ {s} : saves'[t] = saves[t]
<1>1. saves \in [Slots -> SaveRecord] /\ GoodEntries(saves[s].of, saves[s].left)
  BY DEF SettingsInv, SettingsTyped
<1>2. PICK r : r = [saves[s] EXCEPT !.phase = p]
  OBVIOUS
<1>3. /\ r \in SaveRecord /\ r.phase = p /\ r.of = saves[s].of /\ r.wrote = saves[s].wrote
      /\ r.left = saves[s].left
  BY <1>1, <1>2 DEF SaveRecord
<1>4. saves' = [saves EXCEPT ![s] = r]
  BY <1>1, <1>2
<1>5. QED
  BY <1>1, <1>3, <1>4, OneSave

\* A query that has shown something is asked again.
LEMMA AskedAgain ==
  ASSUME NEW D, NEW q, IsQueryOf(q, D), q.data # <<>>
  PROVE  /\ IsQueryOf(Invalidated(q), D) /\ Invalidated(q).data = q.data
         /\ Invalidated(q).phase = "sent"
<1>1. PICK r : r = Invalidated(q)
  OBVIOUS
<1>2. IsQueryOf(r, D) /\ r.data = q.data /\ r.phase # "idle" /\ r.phase # "read"
  BY <1>1, QueryInvalidated
<1>3. r.phase = "sent"
  BY <1>2, QueryFields
<1>4. QED
  BY <1>1, <1>2, <1>3

LEMMA WrittenStep ==
  ASSUME SettingsInv, NEW s \in Slots, Written(s)
  PROVE  SettingsInv'
<1>1. /\ saves[s].phase = "writing"
      /\ saves' = [saves EXCEPT ![s].phase = IF saves[s].of = "options" THEN "options" ELSE "last"]
      /\ optionsQ' = (IF saves[s].of = "options" THEN Invalidated(optionsQ) ELSE optionsQ)
      /\ selfQ' = (IF saves[s].of = "self" THEN Invalidated(selfQ) ELSE selfQ)
      /\ UNCHANGED <<stored, publicQ, fields, install, edited, torn>>
  BY DEF Written
<1>2. PICK p \in {"options", "last"} : p = (IF saves[s].of = "options" THEN "options" ELSE "last")
  OBVIOUS
<1>3. /\ saves' \in [Slots -> SaveRecord]
      /\ saves'[s].phase = p /\ saves'[s].of = saves[s].of /\ saves'[s].wrote = saves[s].wrote
      /\ \A t \in Slots : GoodEntries(saves'[t].of, saves'[t].left)
      /\ \A t \in Slots \ {s} : saves'[t] = saves[t]
  BY <1>1, <1>2, PhaseMoves
<1>4. /\ IsQueryOf(optionsQ, Valued(Options)) /\ IsQueryOf(publicQ, Valued(OfPublic))
      /\ IsQueryOf(selfQ, Valued(OfSelf)) /\ stored' \in Valued(Followed)
  BY <1>1 DEF SettingsInv, SettingsTyped
<1>5. selfQ.data # <<>> /\ (saves[s].of = "options" => optionsQ.data # <<>>)
  BY <1>1 DEF SettingsInv, DataThere
<1>6. /\ IsQueryOf(optionsQ', Valued(Options)) /\ optionsQ'.data = optionsQ.data
      /\ saves[s].of = "options" => optionsQ'.phase = "sent"
  <2>1. CASE saves[s].of = "options"
    BY <1>1, <1>4, <1>5, <2>1, AskedAgain
  <2>2. CASE saves[s].of # "options"
    BY <1>1, <1>4, <2>2
  <2>3. QED
    BY <2>1, <2>2
<1>7. /\ IsQueryOf(selfQ', Valued(OfSelf)) /\ selfQ'.data = selfQ.data
      /\ saves[s].of = "self" => selfQ'.phase = "sent"
  <2>1. CASE saves[s].of = "self"
    BY <1>1, <1>4, <1>5, <2>1, AskedAgain
  <2>2. CASE saves[s].of # "self"
    BY <1>1, <1>4, <2>2
  <2>3. QED
    BY <2>1, <2>2
<1>8. OptionsFollow'
  <2>1. CASE saves[s].of = "options"
    BY <1>6, <2>1 DEF OptionsFollow, Current
  <2>2. CASE saves[s].of # "options"
    <3>1. \A k : OptionComing(k) => OptionComing(k)'
      BY <1>1, <1>3, <2>2 DEF OptionComing
    <3>2. \A k : Current(optionsQ, k) => Current(optionsQ, k)'
      BY <1>1, <2>2, CurrentKept
    <3>3. QED
      BY <1>1, <3>1, <3>2 DEF SettingsInv, OptionsFollow
  <2>3. QED
    BY <2>1, <2>2
<1>9. PublicFollows'
  <2>1. ASSUME NEW k PROVE PublicComing(k) => PublicComing(k)'
    <3>1. SUFFICES ASSUME NEW t \in Slots, saves[t].phase \in {"writing", "options"},
                          saves[t].of = "options", k \in saves[t].wrote
                   PROVE  PublicComing(k)'
      BY DEF PublicComing
    <3>2. /\ saves'[t].phase \in {"writing", "options"} /\ saves'[t].of = "options"
          /\ k \in saves'[t].wrote
      BY <1>2, <1>3, <3>1
    <3>3. QED
      BY <3>2 DEF PublicComing
  <2>2. \A k : Current(publicQ, k) => Current(publicQ, k)'
    BY <1>1, CurrentKept
  <2>3. QED
    BY <1>1, <2>1, <2>2 DEF SettingsInv, PublicFollows
<1>10. SelfFollows'
  <2>1. CASE saves[s].of = "self"
    BY <1>7, <2>1 DEF SelfFollows, Current
  <2>2. CASE saves[s].of # "self"
    <3>1. \A k : SelfComing(k) => SelfComing(k)'
      BY <1>1, <1>3, <2>2 DEF SelfComing
    <3>2. \A k : Current(selfQ, k) => Current(selfQ, k)'
      BY <1>1, <2>2, CurrentKept
    <3>3. QED
      BY <1>1, <3>1, <3>2 DEF SettingsInv, SelfFollows
  <2>3. QED
    BY <2>1, <2>2
<1>11. /\ \A q \in {optionsQ', publicQ', selfQ'} : q.phase = "read" => q.answer # <<>>
       /\ ~IsRoot => optionsQ'.phase = "idle"
  BY <1>1, <1>5, <1>6, <1>7 DEF SettingsInv, DataThere
<1>12. \A t \in Slots : saves'[t].phase # "idle" =>
         saves[t].phase # "idle" /\ saves'[t].of = saves[t].of
  BY <1>1, <1>3
<1>13. PICK K : K = {}
  OBVIOUS
<1>14. K \intersect KernelOnly = {} /\ \A k \in Followed \ K : stored'[k] = stored[k]
  BY <1>1, <1>13
<1>15. IsQueryOf(publicQ', Valued(OfPublic))
  BY <1>1, <1>4
<1>16. QED
  BY <1>1, <1>3, <1>4, <1>6, <1>7, <1>8, <1>9, <1>10, <1>11, <1>12, <1>14, <1>15, SavesMove

LEMMA OptionsAwaitedStep ==
  ASSUME SettingsInv, NEW s \in Slots, OptionsAwaited(s)
  PROVE  SettingsInv'
<1>1. /\ saves[s].phase = "options" /\ publicQ' = Invalidated(publicQ)
      /\ saves' = [saves EXCEPT ![s].phase = "last"]
      /\ UNCHANGED <<stored, optionsQ, selfQ, fields, install, edited, torn>>
  BY DEF OptionsAwaited
<1>2. /\ saves' \in [Slots -> SaveRecord] /\ saves'[s].phase = "last"
      /\ saves'[s].of = saves[s].of
      /\ \A t \in Slots : GoodEntries(saves'[t].of, saves'[t].left)
      /\ \A t \in Slots \ {s} : saves'[t] = saves[t]
  BY <1>1, PhaseMoves
<1>3. /\ IsQueryOf(optionsQ', Valued(Options)) /\ IsQueryOf(publicQ, Valued(OfPublic))
      /\ IsQueryOf(selfQ', Valued(OfSelf)) /\ stored' \in Valued(Followed)
  BY <1>1 DEF SettingsInv, SettingsTyped
<1>4. publicQ.data # <<>>
  BY <1>1 DEF SettingsInv, DataThere
<1>5. /\ IsQueryOf(publicQ', Valued(OfPublic)) /\ publicQ'.data = publicQ.data
      /\ publicQ'.phase = "sent"
  BY <1>1, <1>3, <1>4, AskedAgain
<1>6. PublicFollows'
  BY <1>5 DEF PublicFollows, Current
<1>7. OptionsFollow'
  <2>1. \A k : OptionComing(k) => OptionComing(k)'
    BY <1>1, <1>2 DEF OptionComing
  <2>2. \A k : Current(optionsQ, k) => Current(optionsQ, k)'
    BY <1>1, CurrentKept
  <2>3. QED
    BY <1>1, <2>1, <2>2 DEF SettingsInv, OptionsFollow
<1>8. SelfFollows'
  <2>1. \A k : SelfComing(k) => SelfComing(k)'
    BY <1>1, <1>2 DEF SelfComing
  <2>2. \A k : Current(selfQ, k) => Current(selfQ, k)'
    BY <1>1, CurrentKept
  <2>3. QED
    BY <1>1, <2>1, <2>2 DEF SettingsInv, SelfFollows
<1>9. /\ \A q \in {optionsQ', publicQ', selfQ'} : q.phase = "read" => q.answer # <<>>
      /\ ~IsRoot => optionsQ'.phase = "idle"
  BY <1>1, <1>5 DEF SettingsInv, DataThere
<1>10. \A t \in Slots : saves'[t].phase # "idle" =>
         saves[t].phase # "idle" /\ saves'[t].of = saves[t].of
  BY <1>1, <1>2
<1>11. PICK K : K = {}
  OBVIOUS
<1>12. K \intersect KernelOnly = {} /\ \A k \in Followed \ K : stored'[k] = stored[k]
  BY <1>1, <1>11
<1>13. QED
  BY <1>1, <1>2, <1>3, <1>5, <1>6, <1>7, <1>8, <1>9, <1>10, <1>12, SavesMove

LEMMA SaveEndsStep ==
  ASSUME SettingsInv, NEW s \in Slots, SaveEnds(s)
  PROVE  SettingsInv'
<1>1. /\ saves[s].phase = "last" /\ saves' = [saves EXCEPT ![s] = NoSave]
      /\ UNCHANGED <<stored, optionsQ, publicQ, selfQ, fields, install, edited, torn>>
  BY DEF SaveEnds, queries
<1>2. /\ saves' \in [Slots -> SaveRecord] /\ saves'[s] = NoSave
      /\ \A t \in Slots : GoodEntries(saves'[t].of, saves'[t].left)
      /\ \A t \in Slots \ {s} : saves'[t] = saves[t]
  BY <1>1, NoSaveIsGood, OneSave
<1>3. /\ \A k : OptionComing(k) => OptionComing(k)'
      /\ \A k : PublicComing(k) => PublicComing(k)'
      /\ \A k : SelfComing(k) => SelfComing(k)'
  <2>1. \A k : OptionComing(k) => OptionComing(k)'
    BY <1>1, <1>2 DEF OptionComing
  <2>2. \A k : PublicComing(k) => PublicComing(k)'
    BY <1>1, <1>2 DEF PublicComing
  <2>3. \A k : SelfComing(k) => SelfComing(k)'
    BY <1>1, <1>2 DEF SelfComing
  <2>4. QED
    BY <2>1, <2>2, <2>3
<1>4. /\ \A k : Current(optionsQ, k) => Current(optionsQ, k)'
      /\ \A k : Current(publicQ, k) => Current(publicQ, k)'
      /\ \A k : Current(selfQ, k) => Current(selfQ, k)'
  BY <1>1, CurrentKept
<1>5. OptionsFollow'
  BY <1>1, <1>3, <1>4 DEF SettingsInv, OptionsFollow
<1>6. PublicFollows'
  BY <1>1, <1>3, <1>4 DEF SettingsInv, PublicFollows
<1>7. SelfFollows'
  BY <1>1, <1>3, <1>4 DEF SettingsInv, SelfFollows
<1>8. /\ IsQueryOf(optionsQ', Valued(Options)) /\ IsQueryOf(publicQ', Valued(OfPublic))
      /\ IsQueryOf(selfQ', Valued(OfSelf)) /\ stored' \in Valued(Followed)
  BY <1>1 DEF SettingsInv, SettingsTyped
<1>9. /\ \A q \in {optionsQ', publicQ', selfQ'} : q.phase = "read" => q.answer # <<>>
      /\ ~IsRoot => optionsQ'.phase = "idle"
  BY <1>1 DEF SettingsInv, DataThere
<1>10. \A t \in Slots : saves'[t].phase # "idle" =>
         saves[t].phase # "idle" /\ saves'[t].of = saves[t].of
  BY <1>2, NoSaveIsGood
<1>11. PICK K : K = {}
  OBVIOUS
<1>12. K \intersect KernelOnly = {} /\ \A k \in Followed \ K : stored'[k] = stored[k]
  BY <1>1, <1>11
<1>13. QED
  BY <1>1, <1>2, <1>5, <1>6, <1>7, <1>8, <1>9, <1>10, <1>12, SavesMove

-----------------------------------------------------------------------------
(* The installation. *)

\* It begins with the path on display, and everything to be stored.
LEMMA InstallBegins ==
  ASSUME SettingsInv, UNCHANGED <<stored, optionsQ, publicQ, selfQ, saves, torn>>,
         install.phase = "idle", optionsQ.data # <<>>, NEW p \in Texts,
         install' = [phase |-> "sent", path |-> p,
                     left |-> {i \in DOMAIN KernelKeys : KernelKeys[i] \in Followed}],
         fields' \in Valued(Followed), edited \subseteq edited', edited' \subseteq Followed,
         \A k \in Followed \ edited' : fields'[k] = fields[k],
         "MihomoBinaryPath" \in Followed => fields'["MihomoBinaryPath"] = p
  PROVE  SettingsInv'
<1>1. /\ install' \in [phase : {"idle", "sent", "awaiting"}, left : SUBSET (1 .. 4), path : Texts]
      /\ install'.phase = "sent" /\ install'.path = p
      /\ install'.left = {i \in 1 .. 4 : KernelKeys[i] \in Followed}
  BY KernelFields
<1>2. SettingsTyped'
  BY <1>1 DEF SettingsInv, SettingsTyped
<1>3. DataThere'
  BY DEF SettingsInv, DataThere
<1>4. ASSUME NEW k
      PROVE  /\ OptionComing(k) => OptionComing(k)'
             /\ PublicComing(k) => PublicComing(k)'
             /\ SelfComing(k) => SelfComing(k)'
  <2>1. OptionComing(k) => OptionComing(k)'
    BY DEF OptionComing
  <2>2. PublicComing(k) => PublicComing(k)'
    BY DEF PublicComing
  <2>3. SelfComing(k) => SelfComing(k)'
    BY DEF SelfComing
  <2>4. QED
    BY <2>1, <2>2, <2>3
<1>5. /\ \A k : Current(optionsQ, k) => Current(optionsQ, k)'
      /\ \A k : Current(publicQ, k) => Current(publicQ, k)'
      /\ \A k : Current(selfQ, k) => Current(selfQ, k)'
  BY CurrentKept
<1>6. OptionsFollow'
  BY <1>4, <1>5 DEF SettingsInv, OptionsFollow
<1>7. PublicFollows'
  BY <1>4, <1>5 DEF SettingsInv, PublicFollows
<1>8. SelfFollows'
  BY <1>4, <1>5 DEF SettingsInv, SelfFollows
<1>9. OptionsShown'
  <2>1. StatusAddress(publicQ)' = StatusAddress(publicQ)
    BY DEF StatusAddress
  <2>2. ASSUME NEW k \in Options \ edited'
        PROVE  /\ FromOptions(k) => FromOptions(k)'
               /\ FromStatus(k) => FromStatus(k)'
               /\ FromInstall(k) => FromInstall(k)'
    <3>1. fields'[k] = fields[k] /\ k \in Followed
      BY <2>2, OptionSets
    <3>2. FromOptions(k) => FromOptions(k)'
      BY <2>1, <3>1 DEF FromOptions
    <3>3. FromStatus(k) => FromStatus(k)'
      BY <3>1 DEF FromStatus
    <3>4. FromInstall(k) => FromInstall(k)'
      BY <1>1, <3>1 DEF FromInstall
    <3>5. QED
      BY <3>2, <3>3, <3>4
  <2>3. QED
    BY <2>2 DEF SettingsInv, OptionsShown
<1>10. SelfShown'
  <2>1. \A k \in OfSelf \ edited' : fields'[k] = fields[k]
    BY OptionSets
  <2>2. QED
    BY <2>1 DEF SettingsInv, SelfShown
<1>11. Installed'
  <2>1. \A i \in 1 .. 4 : KernelKeys[i] \in Followed => i \in install'.left
    BY <1>1
  <2>2. QED
    BY <1>1, <2>1 DEF Installed
<1>12. QED
  BY <1>2, <1>3, <1>6, <1>7, <1>8, <1>9, <1>10, <1>11 DEF SettingsInv

\* The path that is used, as it is or by default.
LEMMA InstallPath ==
  ASSUME SettingsInv, NEW b \in BOOLEAN
  PROVE  requireMihomoInstallPath(b) \in Texts
<1>1. fields \in Valued(Followed)
  BY DEF SettingsInv, SettingsTyped
<1>2. "MihomoBinaryPath" \in Followed => fields["MihomoBinaryPath"] \in Texts
  BY <1>1, OptionKinds DEF Valued
<1>3. QED
  BY <1>2, TextValues DEF requireMihomoInstallPath

LEMMA KernelCardStep ==
  ASSUME SettingsInv, KernelCard
  PROVE  SettingsInv'
<1>1. optionsQ.data # <<>>
  BY ShownData DEF KernelCard
<1>2. fields \in Valued(Followed) /\ edited \subseteq Followed
  BY DEF SettingsInv, SettingsTyped
<1>3. CASE Edit({"KernelType", "MihomoBinaryPath"})
  BY <1>3, EditStep
<1>4. CASE handleMihomoInspect
  <2>1. PICK p \in Texts : p = requireMihomoInstallPath(FALSE)
    BY InstallPath
  <2>2. /\ install.phase = "idle"
        /\ install' = [phase |-> "sent", path |-> p,
                       left |-> {i \in DOMAIN KernelKeys : KernelKeys[i] \in Followed}]
        /\ UNCHANGED <<stored, optionsQ, publicQ, selfQ, fields, saves, edited, torn>>
    BY <1>4, <2>1 DEF handleMihomoInspect, queries
  <2>3. "MihomoBinaryPath" \in Followed => fields'["MihomoBinaryPath"] = p
    BY <2>1, <2>2 DEF requireMihomoInstallPath
  <2>4. /\ fields' \in Valued(Followed) /\ edited \subseteq edited' /\ edited' \subseteq Followed
        /\ \A k \in Followed \ edited' : fields'[k] = fields[k]
    BY <1>2, <2>2
  <2>5. QED
    BY <1>1, <2>2, <2>3, <2>4, InstallBegins
<1>5. CASE handleMihomoInstall
  <2>1. PICK p \in Texts : p = requireMihomoInstallPath(TRUE)
    BY InstallPath
  <2>2. /\ install.phase = "idle"
        /\ install' = [phase |-> "sent", path |-> p,
                       left |-> {i \in DOMAIN KernelKeys : KernelKeys[i] \in Followed}]
        /\ fields' = [k \in Followed |-> IF k = "MihomoBinaryPath" THEN p ELSE fields[k]]
        /\ edited' = edited \union ({"MihomoBinaryPath"} \intersect Followed)
        /\ UNCHANGED <<stored, optionsQ, publicQ, selfQ, saves, torn>>
    BY <1>5, <2>1 DEF handleMihomoInstall, queries
  <2>3. fields' \in Valued(Followed)
    <3>1. \A k \in Followed : fields'[k] \in Values(k)
      BY <1>2, <2>2, OptionKinds DEF Valued
    <3>2. fields' = [k \in Followed |-> fields'[k]]
      BY <2>2
    <3>3. QED
      BY <3>1, <3>2, ValuedBy
  <2>4. /\ edited \subseteq edited' /\ edited' \subseteq Followed
        /\ \A k \in Followed \ edited' : fields'[k] = fields[k]
        /\ "MihomoBinaryPath" \in Followed => fields'["MihomoBinaryPath"] = p
    BY <1>2, <2>2
  <2>5. QED
    BY <1>1, <2>2, <2>3, <2>4, InstallBegins
<1>6. QED
  BY <1>3, <1>4, <1>5 DEF KernelCard

\* What the installation stores.
LEMMA InstallValues ==
  ASSUME SettingsInv, NEW k \in ToSet(KernelKeys)
  PROVE  /\ KernelValue(k) \in Values(k) /\ k \notin OfPublic /\ k \notin OfSelf
         /\ k = "KernelType" \/ k \in KernelOnly
<1>1. install.path \in Texts
  BY DEF SettingsInv, SettingsTyped
<1>2. k = "KernelType" \/ k \in KernelOnly
  BY KernelFields
<1>3. k \notin OfPublic /\ k \notin OfSelf
  BY <1>2, OptionKinds DEF OfPublic, OfSelf
<1>4. KernelValue(k) \in Values(k)
  <2>1. CASE k = "KernelType"
    BY <2>1, OptionKinds DEF KernelValue
  <2>2. CASE k \in KernelOnly
    <3>1. Values(k) = Texts
      BY <2>2, OptionKinds
    <3>2. QED
      BY <1>1, <3>1, TextValues DEF KernelValue
  <2>3. QED
    BY <1>2, <2>1, <2>2
<1>5. QED
  BY <1>2, <1>3, <1>4

LEMMA InstallWritesStep ==
  ASSUME SettingsInv, InstallWrites
  PROVE  SettingsInv'
<1>1. PICK i \in install.left :
        /\ stored' = [stored EXCEPT ![KernelKeys[i]] = KernelValue(KernelKeys[i])]
        /\ install' = [install EXCEPT !.left = @ \ {i}]
  BY DEF InstallWrites
<1>2. /\ install.phase = "sent"
      /\ UNCHANGED <<optionsQ, publicQ, selfQ, fields, saves, edited, torn>>
  BY DEF InstallWrites, queries
<1>3. /\ install \in [phase : {"idle", "sent", "awaiting"}, left : SUBSET (1 .. 4), path : Texts]
      /\ stored \in Valued(Followed)
  BY DEF SettingsInv, SettingsTyped
<1>4. /\ install' \in [phase : {"idle", "sent", "awaiting"}, left : SUBSET (1 .. 4), path : Texts]
      /\ install'.phase = "sent" /\ install'.path = install.path
      /\ install'.left = install.left \ {i} /\ i \in 1 .. 4
  BY <1>1, <1>2, <1>3
<1>5. PICK k : k = KernelKeys[i]
  OBVIOUS
<1>6. k \in ToSet(KernelKeys)
  BY <1>4, <1>5, KernelFields DEF ToSet
<1>7. PICK v \in Values(k) : v = KernelValue(k)
  BY <1>6, InstallValues
<1>8. stored' = [stored EXCEPT ![k] = v]
  BY <1>1, <1>5, <1>7
<1>9. DOMAIN stored = Followed
  BY <1>3 DEF Valued
<1>10. stored' \in Valued(Followed) /\ (\A j \in Followed \ {k} : stored'[j] = stored[j])
       /\ (k \in Followed => stored'[k] = v)
  <2>1. \A j \in Followed \ {k} : stored'[j] = stored[j]
    BY <1>8, <1>9
  <2>2. k \in Followed => stored'[k] = v
    BY <1>8, <1>9
  <2>3. CASE k \in Followed
    BY <1>3, <1>8, <2>1, <2>2, <2>3, OneValue
  <2>4. CASE k \notin Followed
    <3>1. stored' = stored
      BY <1>3, <1>8, <1>9, <2>4 DEF Valued
    <3>2. QED
      BY <1>3, <2>4, <3>1
  <2>5. QED
    BY <2>1, <2>2, <2>3, <2>4
<1>11. SettingsTyped'
  BY <1>2, <1>4, <1>10 DEF SettingsInv, SettingsTyped
<1>12. DataThere'
  BY <1>2, <1>4 DEF SettingsInv, DataThere
<1>13. OptionsFollow'
  <2>1. ASSUME NEW j \in Options
        PROVE  <<"options", j>> \in torn \/ OptionComing(j)' \/ Current(optionsQ, j)'
    <3>1. CASE j = k
      BY <1>4, <1>6, <3>1 DEF OptionComing
    <3>2. CASE j # k
      <4>1. stored'[j] = stored[j]
        BY <1>10, <3>2, OptionSets
      <4>2. Current(optionsQ, j) => Current(optionsQ, j)'
        BY <1>2, <4>1 DEF Current
      <4>3. OptionComing(j) => OptionComing(j)'
        BY <1>2, <1>4 DEF OptionComing
      <4>4. QED
        BY <4>2, <4>3 DEF SettingsInv, OptionsFollow
    <3>3. QED
      BY <3>1, <3>2
  <2>2. QED
    BY <1>2, <2>1 DEF OptionsFollow
<1>14. /\ \A j : PublicComing(j) => PublicComing(j)'
       /\ \A j : SelfComing(j) => SelfComing(j)'
  <2>1. \A j : PublicComing(j) => PublicComing(j)'
    BY <1>2 DEF PublicComing
  <2>2. \A j : SelfComing(j) => SelfComing(j)'
    BY <1>2 DEF SelfComing
  <2>3. QED
    BY <2>1, <2>2
<1>15. \A j \in OfPublic \union OfSelf : stored'[j] = stored[j]
  BY <1>6, <1>10, InstallValues, OptionSets
<1>16. PublicFollows'
  <2>1. \A j \in OfPublic : Current(publicQ, j) => Current(publicQ, j)'
    BY <1>2, <1>15 DEF Current
  <2>2. QED
    BY <1>2, <1>14, <2>1 DEF SettingsInv, PublicFollows
<1>17. SelfFollows'
  <2>1. \A j \in OfSelf : Current(selfQ, j) => Current(selfQ, j)'
    BY <1>2, <1>15 DEF Current
  <2>2. QED
    BY <1>2, <1>14, <2>1 DEF SettingsInv, SelfFollows
<1>18. OptionsShown'
  <2>1. StatusAddress(publicQ)' = StatusAddress(publicQ)
    BY <1>2 DEF StatusAddress
  <2>2. ASSUME NEW j \in Options
        PROVE  /\ FromOptions(j) => FromOptions(j)'
               /\ FromStatus(j) => FromStatus(j)'
               /\ FromInstall(j) => FromInstall(j)'
    <3>1. FromOptions(j) => FromOptions(j)'
      BY <1>2, <2>1 DEF FromOptions
    <3>2. FromStatus(j) => FromStatus(j)'
      BY <1>2 DEF FromStatus
    <3>3. ASSUME FromInstall(j)
          PROVE  stored'[j] = stored[j]
      <4>1. CASE j = k
        <5>1. KernelValue(j) = stored[j]
          BY <1>2, <3>3 DEF FromInstall, KernelValue
        <5>2. QED
          BY <1>7, <1>10, <4>1, <5>1, OptionSets
      <4>2. CASE j # k
        BY <1>10, <4>2, OptionSets
      <4>3. QED
        BY <4>1, <4>2
    <3>4. FromInstall(j) => FromInstall(j)'
      BY <1>2, <1>4, <3>3 DEF FromInstall
    <3>5. QED
      BY <3>1, <3>2, <3>4
  <2>3. QED
    BY <1>2, <2>2 DEF SettingsInv, OptionsShown
<1>19. SelfShown'
  BY <1>2 DEF SettingsInv, SelfShown
<1>20. Installed'
  <2>1. ASSUME NEW j \in 1 .. 4, KernelKeys[j] \in Followed, j \notin install'.left
        PROVE  stored'[KernelKeys[j]] = KernelValue(KernelKeys[j])
    <3>1. CASE KernelKeys[j] = k
      BY <1>7, <1>10, <2>1, <3>1
    <3>2. CASE KernelKeys[j] # k
      <4>1. j \notin install.left
        BY <1>4, <1>5, <2>1, <3>2
      <4>2. stored'[KernelKeys[j]] = stored[KernelKeys[j]]
        BY <1>10, <2>1, <3>2
      <4>3. QED
        BY <1>2, <2>1, <4>1, <4>2 DEF SettingsInv, Installed
    <3>3. QED
      BY <3>1, <3>2
  <2>2. \A j : KernelValue(j)' = KernelValue(j)
    BY <1>4 DEF KernelValue
  <2>3. QED
    BY <1>4, <2>1, <2>2 DEF Installed
<1>21. QED
  BY <1>11, <1>12, <1>13, <1>16, <1>17, <1>18, <1>19, <1>20 DEF SettingsInv

\* The installation moves on or ends, having stored what it will.
LEMMA InstallMoves ==
  ASSUME SettingsInv, UNCHANGED <<stored, publicQ, selfQ, saves>>,
         NEW K, K \subseteq Options, edited' = edited, fields' \in Valued(Followed),
         \A k \in Followed \ K : fields'[k] = fields[k], \A k \in K \ edited : FromInstall(k)',
         IsQueryOf(optionsQ', Valued(Options)), optionsQ'.data = optionsQ.data,
         optionsQ'.phase = "read" => optionsQ'.answer # <<>>,
         install' \in [phase : {"idle", "sent", "awaiting"}, left : SUBSET (1 .. 4), path : Texts],
         install.phase # "idle", install'.phase # "idle" => install'.path = install.path,
         torn \subseteq torn', OptionsFollow', Installed'
  PROVE  SettingsInv'
<1>1. SettingsTyped'
  BY DEF SettingsInv, SettingsTyped
<1>2. IsRoot /\ optionsQ.data # <<>>
  BY DEF SettingsInv, DataThere
<1>3. DataThere'
  BY <1>2 DEF SettingsInv, DataThere
<1>4. PublicFollows' /\ SelfFollows'
  <2>1. /\ \A k : PublicComing(k) => PublicComing(k)'
        /\ \A k : SelfComing(k) => SelfComing(k)'
    BY DEF PublicComing, SelfComing
  <2>2. /\ \A k : Current(publicQ, k) => Current(publicQ, k)'
        /\ \A k : Current(selfQ, k) => Current(selfQ, k)'
    BY CurrentKept
  <2>3. PublicFollows'
    BY <2>1, <2>2 DEF SettingsInv, PublicFollows
  <2>4. SelfFollows'
    BY <2>1, <2>2 DEF SettingsInv, SelfFollows
  <2>5. QED
    BY <2>3, <2>4
<1>5. OptionsShown'
  <2>1. StatusAddress(publicQ)' = StatusAddress(publicQ)
    BY DEF StatusAddress
  <2>2. ASSUME NEW k \in Options \ K
        PROVE  /\ FromOptions(k) => FromOptions(k)'
               /\ FromStatus(k) => FromStatus(k)'
               /\ FromInstall(k) => FromInstall(k)'
    <3>1. fields'[k] = fields[k]
      BY <2>2, OptionSets
    <3>2. FromOptions(k) => FromOptions(k)'
      BY <2>1, <3>1 DEF FromOptions
    <3>3. FromStatus(k) => FromStatus(k)'
      BY <3>1 DEF FromStatus
    <3>4. FromInstall(k) => FromInstall(k)'
      BY <3>1 DEF FromInstall
    <3>5. QED
      BY <3>2, <3>3, <3>4
  <2>3. QED
    BY <1>2, <2>2 DEF SettingsInv, OptionsShown
<1>6. SelfShown'
  <2>1. \A k \in OfSelf : fields'[k] = fields[k]
    BY OptionSets DEF OfSelf
  <2>2. QED
    BY <2>1 DEF SettingsInv, SelfShown
<1>7. QED
  BY <1>1, <1>3, <1>4, <1>5, <1>6 DEF SettingsInv

LEMMA InstallAnswerStep ==
  ASSUME SettingsInv, InstallAnswer
  PROVE  SettingsInv'
<1>1. /\ install.phase = "sent" /\ install.left = {} /\ optionsQ' = Invalidated(optionsQ)
      /\ install' = [install EXCEPT !.phase = "awaiting"]
      /\ UNCHANGED <<stored, publicQ, selfQ, fields, saves, edited, torn>>
  BY DEF InstallAnswer
<1>2. /\ install \in [phase : {"idle", "sent", "awaiting"}, left : SUBSET (1 .. 4), path : Texts]
      /\ IsQueryOf(optionsQ, Valued(Options)) /\ fields' \in Valued(Followed)
  BY <1>1 DEF SettingsInv, SettingsTyped
<1>3. /\ install' \in [phase : {"idle", "sent", "awaiting"}, left : SUBSET (1 .. 4), path : Texts]
      /\ install'.phase = "awaiting" /\ install'.path = install.path /\ install'.left = {}
  BY <1>1, <1>2
<1>4. optionsQ.data # <<>>
  BY <1>1 DEF SettingsInv, DataThere
<1>5. /\ IsQueryOf(optionsQ', Valued(Options)) /\ optionsQ'.data = optionsQ.data
      /\ optionsQ'.phase = "sent"
  BY <1>1, <1>2, <1>4, AskedAgain
<1>6. OptionsFollow'
  BY <1>5 DEF OptionsFollow, Current
<1>7. Installed'
  BY <1>1, <1>3 DEF SettingsInv, Installed, KernelValue
<1>8. PICK K : K = {}
  OBVIOUS
<1>9. /\ K \subseteq Options /\ \A k \in Followed \ K : fields'[k] = fields[k]
      /\ \A k \in K \ edited : FromInstall(k)'
  BY <1>1, <1>8
<1>10. QED
  BY <1>1, <1>2, <1>3, <1>5, <1>6, <1>7, <1>9, InstallMoves

LEMMA InstallIsOver ==
  /\ NoInstall \in [phase : {"idle", "sent", "awaiting"}, left : SUBSET (1 .. 4), path : Texts]
  /\ NoInstall.phase = "idle" /\ NoInstall.left = {}
BY TextValues DEF NoInstall

LEMMA InstallShownStep ==
  ASSUME SettingsInv, InstallShown
  PROVE  SettingsInv'
<1>1. /\ install.phase = "awaiting" /\ install' = NoInstall
      /\ fields' = [k \in Followed |->
                     IF k \in ToSet(KernelKeys) THEN KernelValue(k) ELSE fields[k]]
      /\ UNCHANGED <<stored, optionsQ, publicQ, selfQ, saves, edited, torn>>
  BY DEF InstallShown, queries
<1>2. fields \in Valued(Followed) /\ IsQueryOf(optionsQ', Valued(Options))
  BY <1>1 DEF SettingsInv, SettingsTyped
<1>3. fields' \in Valued(Followed)
  <2>1. ASSUME NEW k \in Followed PROVE fields'[k] \in Values(k)
    BY <1>1, <1>2, InstallValues DEF Valued
  <2>2. fields' = [k \in Followed |-> fields'[k]]
    BY <1>1
  <2>3. QED
    BY <2>1, <2>2, ValuedBy
<1>4. PICK K : K = KernelOnly \intersect Followed
  OBVIOUS
<1>5. K \subseteq Options
  BY <1>4, OptionKinds DEF Options
<1>6. ASSUME NEW k \in Followed \ K PROVE fields'[k] = fields[k]
  <2>1. CASE k \in ToSet(KernelKeys)
    <3>1. k = "KernelType"
      BY <1>4, <1>6, <2>1, InstallValues
    <3>2. fields[k] \in {"new"} /\ fields'[k] \in {"new"}
      BY <1>2, <1>3, <1>6, <3>1, OptionKinds DEF Valued
    <3>3. QED
      BY <3>2
  <2>2. CASE k \notin ToSet(KernelKeys)
    BY <1>1, <1>6, <2>2
  <2>3. QED
    BY <2>1, <2>2
<1>7. ASSUME NEW k \in K PROVE FromInstall(k)'
  <2>1. k \in KernelOnly /\ k \in Followed /\ k \in ToSet(KernelKeys)
    BY <1>4 DEF KernelOnly
  <2>2. fields'[k] = KernelValue(k)
    BY <1>1, <2>1
  <2>3. PICK i \in 1 .. 4 : k = KernelKeys[i]
    BY <2>1, KernelFields DEF ToSet
  <2>4. install.left = {}
    BY <1>1 DEF SettingsInv, Installed
  <2>5. stored[k] = KernelValue(k)
    BY <1>1, <2>1, <2>3, <2>4 DEF SettingsInv, Installed
  <2>6. k # "MihomoBinaryPath" => fields'[k] = "new"
    BY <2>2 DEF KernelValue
  <2>7. install'.phase = "idle"
    BY <1>1, InstallIsOver
  <2>8. QED
    BY <1>1, <2>1, <2>2, <2>5, <2>6, <2>7 DEF FromInstall
<1>8. OptionsFollow'
  <2>1. \A k : OptionComing(k) => OptionComing(k)'
    BY <1>1 DEF OptionComing
  <2>2. \A k : Current(optionsQ, k) => Current(optionsQ, k)'
    BY <1>1, CurrentKept
  <2>3. QED
    BY <1>1, <2>1, <2>2 DEF SettingsInv, OptionsFollow
<1>9. install'.phase = "idle" /\ Installed'
  BY <1>1, InstallIsOver DEF Installed
<1>10. optionsQ'.phase = "read" => optionsQ'.answer # <<>>
  BY <1>1 DEF SettingsInv, DataThere
<1>11. QED
  BY <1>1, <1>2, <1>3, <1>5, <1>6, <1>7, <1>8, <1>9, <1>10, InstallIsOver, InstallMoves

LEMMA InstallFailsStep ==
  ASSUME SettingsInv, InstallFails
  PROVE  SettingsInv'
<1>1. /\ install.phase = "sent" /\ install' = NoInstall
      /\ torn' = torn \union Unread(ToSet(KernelKeys) \intersect Followed)
      /\ UNCHANGED <<stored, optionsQ, publicQ, selfQ, fields, saves, edited>>
  BY DEF InstallFails, queries
<1>2. fields' \in Valued(Followed) /\ IsQueryOf(optionsQ', Valued(Options))
  BY <1>1 DEF SettingsInv, SettingsTyped
<1>3. OptionsFollow'
  <2>1. ASSUME NEW k \in Options, OptionComing(k)
        PROVE  <<"options", k>> \in torn' \/ OptionComing(k)'
    <3>1. CASE k \in ToSet(KernelKeys)
      BY <1>1, <2>1, <3>1, OptionSets DEF Unread, Torn
    <3>2. CASE k \notin ToSet(KernelKeys)
      BY <1>1, <2>1, <3>2 DEF OptionComing
    <3>3. QED
      BY <3>1, <3>2
  <2>2. \A k : Current(optionsQ, k) => Current(optionsQ, k)'
    BY <1>1, CurrentKept
  <2>3. torn \subseteq torn'
    BY <1>1
  <2>4. QED
    BY <2>1, <2>2, <2>3 DEF SettingsInv, OptionsFollow
<1>4. install'.phase = "idle" /\ Installed' /\ torn \subseteq torn'
  BY <1>1, InstallIsOver DEF Installed
<1>5. optionsQ'.phase = "read" => optionsQ'.answer # <<>>
  BY <1>1 DEF SettingsInv, DataThere
<1>6. PICK K : K = {}
  OBVIOUS
<1>7. /\ K \subseteq Options /\ \A k \in Followed \ K : fields'[k] = fields[k]
      /\ \A k \in K \ edited : FromInstall(k)'
  BY <1>1, <1>6
<1>8. QED
  BY <1>1, <1>2, <1>3, <1>4, <1>5, <1>7, InstallIsOver, InstallMoves

-----------------------------------------------------------------------------
LEMMA NextSettings == SettingsInv /\ [SettingsNext]_settingsVars => SettingsInv'
<1> SUFFICES ASSUME SettingsInv, [SettingsNext]_settingsVars PROVE SettingsInv'
  OBVIOUS
<1>1. CASE OptionsRead \/ OthersRead \/ OptionsAnswer \/ PublicAnswer \/ SelfAnswer \/ QueryFails
  BY <1>1, OptionsReadStep, OthersReadStep, OptionsAnswerStep, PublicAnswerStep, SelfAnswerStep,
     QueryFailsStep
<1>2. CASE ProfileCard \/ BindingCard
  BY <1>2, OwnCardSteps
<1>3. CASE ClashCard \/ UpdateCard \/ GeneralCard \/ SmtpCard \/ IntegrationsCard
           \/ RateLimitCard \/ BrandCard \/ AboutCard
  BY <1>3, OptionCardSteps
<1>4. CASE handleToggleOption
  BY <1>4, ToggleStep
<1>5. ASSUME NEW s \in Slots,
             WriteEntry(s) \/ Lost(s) \/ Written(s) \/ OptionsAwaited(s) \/ SaveEnds(s)
      PROVE  SettingsInv'
  BY <1>5, WriteEntryStep, LostStep, WrittenStep, OptionsAwaitedStep, SaveEndsStep
<1>6. CASE KernelCard \/ InstallWrites \/ InstallAnswer \/ InstallShown \/ InstallFails
  BY <1>6, KernelCardStep, InstallWritesStep, InstallAnswerStep, InstallShownStep, InstallFailsStep
<1>7. CASE UNCHANGED settingsVars
  <2>1. UNCHANGED <<stored, optionsQ, publicQ, selfQ, fields, saves, install, edited, torn>>
    BY <1>7 DEF settingsVars
  <2>2. /\ fields' \in Valued(Followed) /\ saves' \in [Slots -> SaveRecord]
        /\ edited' \subseteq Followed
        /\ \A s \in Slots : GoodEntries(saves'[s].of, saves'[s].left)
    BY <2>1 DEF SettingsInv, SettingsTyped
  <2>3. QED
    BY <2>1, <2>2, ActsMove
<1>8. QED
  BY <1>1, <1>2, <1>3, <1>4, <1>5, <1>6, <1>7 DEF SettingsNext

(* However saves of several cards, installations of the kernel and refreshes of the three     *)
(* queries overlap, are lost, refused or fail half-way, the settings page at rest shows what  *)
(* is stored: whichever options the instance follows, for root and for any other user, with   *)
(* any number of saves in flight (settings-page.tsx:265-341, 495-507).                        *)
THEOREM FieldsAlwaysShowStored == SettingsSpec => []FieldsShowStored
<1>1. SettingsInit => SettingsInv
  BY InitSettings
<1>2. SettingsInv /\ [SettingsNext]_settingsVars => SettingsInv'
  BY NextSettings
<1>3. SettingsInv => FieldsShowStored
  BY RestShows
<1>4. QED
  BY <1>1, <1>2, <1>3, PTL DEF SettingsSpec
=============================================================================
