---------------------------- MODULE SettingsPage ----------------------------
(***************************************************************************)
(* The settings (web/features/settings/components/settings-page.tsx)       *)
(* against the option map and the own account of the server                *)
(* (internal/service/option.go, internal/model/option.go, kernel.go).      *)
(*                                                                         *)
(* A card saves its fields with one request for each, in order, then asks  *)
(* for the options and for the public status again; each answer that       *)
(* differs from the cached one overwrites every field, edited or not, and  *)
(* the options come in the order of a Go map, which nearly always differs. *)
(* Saves of different cards overlap; busyKey names the last one begun and  *)
(* is cleared by the first to end.                                         *)
(***************************************************************************)
EXTENDS Integers, SequencesExt, QueryCache

CONSTANTS
  Followed,   \* the options and account fields whose values the instance follows
  IsRoot,     \* isRoot
  Slots,      \* bound: saves in flight together
  MaxActs     \* bound: edits, saves and failed requests, together

SelfKeys == {"username", "email", "wechat"}
Secrets == {"SMTPToken", "GitHubClientSecret", "WeChatServerToken", "TurnstileSecretKey"}
Switches ==
  {"PasswordLoginEnabled", "PasswordRegisterEnabled", "EmailVerificationEnabled",
   "GitHubOAuthEnabled", "WeChatAuthEnabled", "TurnstileCheckEnabled", "RegisterEnabled",
   "ClashAllowLAN", "KernelAutoStart"}
\* handleClashSettingsSave: the saved fields, and those its checks refuse when they are blank.
ClashKeys ==
  <<"KernelType", "KernelAutoStart", "ClashAllowLAN", "ClashExternalController", "ClashMode",
    "ClashSecret", "NodeTestDefaultURL", "NodeTestDefaultTimeoutMS">>
ClashNeeds ==
  {"ClashExternalController", "ClashMode", "ClashSecret", "NodeTestDefaultURL",
   "NodeTestDefaultTimeoutMS"}
RateLimits ==
  <<"GlobalApiRateLimitNum", "GlobalApiRateLimitDuration", "GlobalWebRateLimitNum",
    "GlobalWebRateLimitDuration", "UploadRateLimitNum", "UploadRateLimitDuration",
    "DownloadRateLimitNum", "DownloadRateLimitDuration", "CriticalRateLimitNum",
    "CriticalRateLimitDuration">>

\* What the server refuses blank.
NonBlank ==
  {"ServerUpdateRepo", "KernelType", "MihomoBinaryPath", "MihomoBinarySource", "GeoIPProvider"}
    \union ClashNeeds \union ToSet(RateLimits)
KernelKeys == <<"KernelType", "MihomoBinaryPath", "MihomoBinaryVersion", "MihomoBinarySource">>

\* Public options are also part of the public status.
Public ==
  {"ServerAddress", "GitHubClientId", "WeChatAccountQRCodeImageURL", "TurnstileSiteKey",
   "SystemName", "HomePageLink", "Footer"}

\* "" is blank, "origin" the browser's own address, "new" any other text.
Texts == {"", "origin", "new"}
Values(k) ==
  CASE k \in Switches -> {"true", "false"} [] k = "KernelType" -> {"new"} [] OTHER -> Texts

\* What the constants are: assumed where they get their values.
SettingsAssumption == IsRoot \in BOOLEAN /\ MaxActs \in Nat

VARIABLES
  stored,     \* OptionMap and the own row of users
  optionsQ, publicQ, selfQ,  \* the queries
  fields,     \* systemFields, operationFields, otherFields and profileFields
  busyKey,
  saves,      \* actions in flight: key, entries left, entries written, what is awaited
  install,    \* the three mutations of the kernel, of which one runs at a time
  edited,     \* history: fields edited since an answer filled them
  torn,       \* history: queries with options that a save wrote which then failed, not read since
  did         \* counter of the bound

settingsVars ==
  <<stored, optionsQ, publicQ, selfQ, fields, busyKey, saves, install, edited, torn, did>>
queries == <<optionsQ, publicQ, selfQ>>

Torn(q, keys) == {q} \X keys
NoSave == [key |-> "", left |-> <<>>, wrote |-> {}, phase |-> "idle", of |-> "options"]
NoInstall == [phase |-> "idle", left |-> {}, path |-> ""]
Options == Followed \ SelfKeys
Part(keys) == [k \in Followed \intersect keys |-> stored[k]]

SettingsInit ==
  /\ stored = [k \in Followed |->
       IF k \in Switches THEN "false" ELSE IF k \in NonBlank THEN "new" ELSE ""]
  /\ optionsQ = (IF IsRoot THEN Fresh ELSE Unasked) /\ publicQ = Fresh /\ selfQ = Fresh
  /\ fields = [k \in Followed |-> IF k \in Switches THEN "false" ELSE IF k = "KernelType" THEN "new" ELSE ""]
  /\ busyKey = "" /\ saves = [s \in Slots |-> NoSave] /\ install = NoInstall
  /\ edited = Followed /\ torn = {} /\ did = 0

-----------------------------------------------------------------------------
\* What the answers put into the fields.
Address(value, status) ==
  IF value # "" THEN value
  ELSE IF status # "" THEN status ELSE "origin"

StatusAddress(q) ==
  IF q.data = <<>> \/ "ServerAddress" \notin Followed THEN "" ELSE q.data[1]["ServerAddress"]

Display(k, value, status) ==
  CASE k \in Secrets -> ""
    [] k = "ServerAddress" -> Address(value, status)
    [] OTHER -> value

FillOptions(f, options, status) ==
  [k \in Followed |-> IF k \in Options THEN Display(k, options[k], status) ELSE f[k]]

FillPublic(f, status) ==
  [k \in Followed |->
     IF k \notin Public THEN f[k]
     ELSE IF k = "ServerAddress" THEN Address(status[k], "")
     ELSE IF status[k] # "" THEN status[k] ELSE f[k]]

FillSelf(f, self) == [k \in Followed |-> IF k \in SelfKeys \ {"wechat"} THEN self[k] ELSE f[k]]

\* The three queries: a read and an answer each, and a failure.
AsksOnly == UNCHANGED <<stored, busyKey, saves, install>>

OptionsRead ==
  /\ optionsQ.phase = "sent" /\ optionsQ' = Read(optionsQ, Part(Options))
  /\ torn' = torn \ Torn("options", Followed)
  /\ AsksOnly /\ UNCHANGED <<publicQ, selfQ, fields, edited, did>>

OthersRead ==
  /\ \/ /\ publicQ.phase = "sent" /\ publicQ' = Read(publicQ, Part(Public))
        /\ torn' = torn \ Torn("public", Followed) /\ UNCHANGED selfQ
     \/ /\ selfQ.phase = "sent" /\ selfQ' = Read(selfQ, Part(SelfKeys))
        /\ torn' = torn \ Torn("self", Followed) /\ UNCHANGED publicQ
  /\ AsksOnly /\ UNCHANGED <<optionsQ, fields, edited, did>>

\* Options that nobody changed fill the fields as well, unless they come in the same order.
OptionsAnswer ==
  /\ optionsQ.phase = "read" /\ optionsQ' = Answered(optionsQ)
  /\ \/ /\ fields' = FillOptions(fields, optionsQ.answer[1], StatusAddress(publicQ))
        /\ edited' = edited \ Options
     \/ optionsQ.answer = optionsQ.data /\ UNCHANGED <<fields, edited>>
  /\ AsksOnly /\ UNCHANGED <<publicQ, selfQ, torn, did>>

\* A new address also runs the effect of the options again, with the cached options.
PublicAnswer ==
  /\ publicQ.phase = "read" /\ publicQ' = Answered(publicQ)
  /\ LET filled == FillPublic(fields, publicQ.answer[1])
         again == optionsQ.data # <<>> /\ StatusAddress(publicQ') # StatusAddress(publicQ)
     IN  IF publicQ.answer # publicQ.data /\ again
         THEN /\ fields' = FillOptions(filled, optionsQ.data[1], StatusAddress(publicQ'))
              /\ edited' = edited \ Options
         ELSE /\ fields' = IF publicQ.answer = publicQ.data THEN fields ELSE filled
              /\ UNCHANGED edited
  /\ AsksOnly /\ UNCHANGED <<optionsQ, selfQ, torn, did>>

SelfAnswer ==
  /\ selfQ.phase = "read" /\ selfQ' = Answered(selfQ)
  /\ IF selfQ.answer # selfQ.data
     THEN /\ fields' = FillSelf(fields, selfQ.answer[1])
          /\ edited' = edited \ (SelfKeys \ {"wechat"})
     ELSE UNCHANGED <<fields, edited>>
  /\ AsksOnly /\ UNCHANGED <<optionsQ, publicQ, torn, did>>

Act == did < MaxActs /\ did' = did + 1

QueryFails ==
  /\ Act
  /\ \/ Fetching(optionsQ) /\ optionsQ' = Failed(optionsQ) /\ UNCHANGED <<publicQ, selfQ>>
     \/ Fetching(publicQ) /\ publicQ' = Failed(publicQ) /\ UNCHANGED <<optionsQ, selfQ>>
     \/ Fetching(selfQ) /\ selfQ' = Failed(selfQ) /\ UNCHANGED <<optionsQ, publicQ>>
  /\ AsksOnly /\ UNCHANGED <<fields, edited, torn>>

-----------------------------------------------------------------------------
\* The tabs and what they show.  A tab only hides fields: switching is left out, and a card
\* can be used whenever its tab can be selected and has something to show.
Answers(q) == q.data # <<>> /\ ~q.failed
SettingsTabs == {"personal"} \union (IF IsRoot THEN {"clash", "system", "other"} ELSE {})
Shows(t) ==
  /\ t \in SettingsTabs /\ Answers(selfQ) /\ Answers(publicQ)
  /\ t # "personal" => IsRoot /\ Answers(optionsQ)

\* runBusyAction.
Begin(key, of, entries) ==
  /\ busyKey # key /\ Act
  /\ \E s \in Slots :
       /\ saves[s].phase = "idle" /\ \A t \in Slots : saves[t].phase = "idle" => s <= t
       /\ saves' = [saves EXCEPT ![s] = [key |-> key, left |-> entries, wrote |-> {},
                                         phase |-> "writing", of |-> of]]
  /\ busyKey' = key
  /\ UNCHANGED <<stored, queries, install, torn>>

\* The entries of a save, by their place in its order.
EntriesOf(keys) ==
  [i \in {i \in DOMAIN keys : keys[i] \in Followed} |-> <<keys[i], fields[keys[i]]>>]

Save(key, of, keys) == Begin(key, of, EntriesOf(keys)) /\ UNCHANGED <<fields, edited>>

Edit(keys) ==
  /\ Act
  /\ \E k \in Followed \intersect keys : \E v \in Values(k) \ {fields[k]} :
       fields' = [fields EXCEPT ![k] = v] /\ edited' = edited \union {k}
  /\ UNCHANGED <<stored, queries, busyKey, saves, install, torn>>

NotBlank(keys) == \A k \in Followed \intersect keys : fields[k] # ""

\* A check that fails is one of the action: it clears busyKey, whoever set it.
Rejected(key, needed) ==
  /\ ~NotBlank(needed) /\ busyKey # key /\ Act /\ busyKey' = ""
  /\ UNCHANGED <<stored, queries, fields, saves, install, edited, torn>>

Card(t, key, keys, needed) ==
  /\ Shows(t)
  /\ \/ Edit(ToSet(keys))
     \/ NotBlank(needed) /\ Save(key, "options", keys)
     \/ Rejected(key, needed)

handleProfileSave == Save("profile", "self", <<"username">>)
ProfileCard == Shows("personal") /\ (Edit({"username"}) \/ handleProfileSave)

\* A bind needs an address and a code, which is not followed.
handleEmailVerification == NotBlank({"email"}) /\ Save("email-send", "none", <<>>)
handleBindEmail == NotBlank({"email"}) /\ Save("email-bind", "self", <<"email">>)
handleBindWeChat == NotBlank({"wechat"}) /\ Save("wechat-bind", "self", <<"wechat">>)
BindingCard ==
  /\ Shows("personal")
  /\ \/ Edit({"email", "wechat"})
     \/ handleEmailVerification \/ handleBindEmail \/ handleBindWeChat

ClashCard == Card("clash", "clash-settings", ClashKeys, ClashNeeds)

handleToggleOption ==
  /\ Shows("system")
  /\ \E k \in Followed \intersect (Switches \ {"ClashAllowLAN", "KernelAutoStart"}) :
       LET v == IF fields[k] = "true" THEN "false" ELSE "true"
       IN  /\ fields' = [fields EXCEPT ![k] = v] /\ edited' = edited \union {k}
           /\ Begin(k, "options", <<<<k, v>>>>)

UpdateCard == Card("system", "system-runtime", <<"ServerUpdateRepo">>, {})
GeneralCard == Card("system", "system-general", <<"ServerAddress", "GeoIPProvider">>, {})
SmtpCard == Card("system", "system-smtp", <<"SMTPServer", "SMTPPort", "SMTPAccount", "SMTPToken">>, {})
IntegrationsCard ==
  Card("system", "system-integrations",
       <<"GitHubClientId", "GitHubClientSecret", "WeChatServerAddress", "WeChatServerToken",
         "WeChatAccountQRCodeImageURL", "TurnstileSiteKey", "TurnstileSecretKey">>, {})

RateLimitCard == Card("system", "operation-rate-limit", RateLimits, ToSet(RateLimits))

BrandCard == Card("other", "other-brand", <<"Notice", "SystemName", "HomePageLink", "Footer">>, {})
AboutCard == Card("other", "other-about", <<"About">>, {})

-----------------------------------------------------------------------------
\* UpdateEditableOption: what it refuses of what the cards may send.
Needs(k) ==
  CASE k = "GitHubOAuthEnabled" -> {"GitHubClientId"}
    [] k = "WeChatAuthEnabled" -> {"WeChatServerAddress"}
    [] k = "TurnstileCheckEnabled" -> {"TurnstileSiteKey"}
    [] OTHER -> {}
Refuses(k, v) ==
  \/ k \in NonBlank /\ v = ""
  \/ v = "true" /\ \E n \in Needs(k) \intersect Followed : stored[n] = ""

\* What a save has written that the queries have yet to read.
Unread(keys) ==
  Torn("options", keys \intersect Options) \union Torn("public", keys \intersect Public)
    \union Torn("self", keys \intersect SelfKeys)

Failure(s) ==
  /\ saves' = [saves EXCEPT ![s] = NoSave] /\ busyKey' = ""
  /\ UNCHANGED <<queries, fields, install, edited>>

\* saveOptionEntries: one request after the other, then the options.
WriteEntry(s) ==
  /\ saves[s].phase = "writing"
  /\ \E i \in DOMAIN saves[s].left :
       /\ \A j \in DOMAIN saves[s].left : i <= j
       /\ LET k == saves[s].left[i][1]
              v == saves[s].left[i][2]
          IN  IF Refuses(k, v)
              THEN /\ Failure(s) /\ torn' = torn \union Unread(saves[s].wrote)
                   /\ UNCHANGED <<stored, did>>
              ELSE /\ stored' = [stored EXCEPT ![k] = v]
                   /\ \/ /\ saves' = [saves EXCEPT ![s].left = Restrict(@, DOMAIN @ \ {i}),
                                                    ![s].wrote = @ \union {k}]
                         /\ UNCHANGED <<queries, fields, busyKey, install, edited, torn, did>>
                      \/ /\ Act /\ Failure(s)
                         /\ torn' = torn \union Unread(saves[s].wrote \union {k})

Lost(s) ==
  /\ saves[s].phase = "writing" /\ Act
  /\ Failure(s) /\ torn' = torn \union Unread(saves[s].wrote)
  /\ UNCHANGED stored

Written(s) ==
  /\ saves[s].phase = "writing" /\ DOMAIN saves[s].left = {}
  /\ saves' = [saves EXCEPT ![s].phase = IF saves[s].of = "options" THEN "options" ELSE "last"]
  /\ optionsQ' = IF saves[s].of = "options" THEN Invalidated(optionsQ) ELSE optionsQ
  /\ selfQ' = IF saves[s].of = "self" THEN Invalidated(selfQ) ELSE selfQ
  /\ UNCHANGED <<stored, publicQ, fields, busyKey, install, edited, torn, did>>

\* An awaited fetch has ended, or was dropped for one that another action asked for.
Others(s) == install.phase # "idle" \/ \E t \in Slots \ {s} : saves[t].phase # "idle"

OptionsAwaited(s) ==
  /\ saves[s].phase = "options" /\ (Fetching(optionsQ) => Others(s))
  /\ publicQ' = Invalidated(publicQ)
  /\ saves' = [saves EXCEPT ![s].phase = "last"]
  /\ UNCHANGED <<stored, optionsQ, selfQ, fields, busyKey, install, edited, torn, did>>

SaveEnds(s) ==
  /\ saves[s].phase = "last"
  /\ Fetching(CASE saves[s].of = "self" -> selfQ [] saves[s].of = "options" -> publicQ
                [] OTHER -> Unasked) => Others(s)
  /\ saves' = [saves EXCEPT ![s] = NoSave] /\ busyKey' = ""
  /\ UNCHANGED <<stored, queries, fields, install, edited, torn, did>>

-----------------------------------------------------------------------------
\* The kernel's card: inspect, upload or download, with the path of the field or a default.
requireMihomoInstallPath(allowDefault) ==
  LET typed == IF "MihomoBinaryPath" \in Followed THEN fields["MihomoBinaryPath"] ELSE "new"
  IN  IF typed = "" /\ allowDefault THEN "new" ELSE typed

handleMihomoInspect ==
  /\ install.phase = "idle" /\ Act /\ requireMihomoInstallPath(FALSE) # ""
  /\ install' = [phase |-> "sent", path |-> requireMihomoInstallPath(FALSE),
                 left |-> {i \in DOMAIN KernelKeys : KernelKeys[i] \in Followed}]
  /\ UNCHANGED <<stored, queries, fields, busyKey, saves, edited, torn>>

\* Upload and download show the path they use.
handleMihomoInstall ==
  LET path == requireMihomoInstallPath(TRUE)
  IN  /\ install.phase = "idle" /\ Act
      /\ install' = [phase |-> "sent", path |-> path,
                     left |-> {i \in DOMAIN KernelKeys : KernelKeys[i] \in Followed}]
      /\ fields' = [k \in Followed |-> IF k = "MihomoBinaryPath" THEN path ELSE fields[k]]
      /\ edited' = edited \union ({"MihomoBinaryPath"} \intersect Followed)
      /\ UNCHANGED <<stored, queries, busyKey, saves, torn>>

KernelCard ==
  /\ Shows("clash")
  /\ Edit({"KernelType", "MihomoBinaryPath"}) \/ handleMihomoInspect \/ handleMihomoInstall

KernelValue(k) == IF k = "MihomoBinaryPath" THEN install.path ELSE "new"

\* persistInstalledMihomoBinary: one option after the other.
InstallWrites ==
  /\ install.phase = "sent"
  /\ \E i \in install.left :
       /\ \A j \in install.left : i <= j
       /\ stored' = [stored EXCEPT ![KernelKeys[i]] = KernelValue(KernelKeys[i])]
       /\ install' = [install EXCEPT !.left = @ \ {i}]
  /\ UNCHANGED <<queries, fields, busyKey, saves, edited, torn, did>>

InstallAnswer ==
  /\ install.phase = "sent" /\ install.left = {}
  /\ optionsQ' = Invalidated(optionsQ) /\ install' = [install EXCEPT !.phase = "awaiting"]
  /\ UNCHANGED <<stored, publicQ, selfQ, fields, busyKey, saves, edited, torn, did>>

InstallShown ==
  /\ install.phase = "awaiting"
  /\ Fetching(optionsQ) => \E s \in Slots : saves[s].phase # "idle"
  /\ fields' = [k \in Followed |-> IF k \in ToSet(KernelKeys) THEN KernelValue(k) ELSE fields[k]]
  /\ install' = NoInstall
  /\ UNCHANGED <<stored, queries, busyKey, saves, edited, torn, did>>

InstallFails ==
  /\ install.phase = "sent" /\ Act /\ install' = NoInstall
  /\ torn' = torn \union Unread(ToSet(KernelKeys) \intersect Followed)
  /\ UNCHANGED <<stored, queries, fields, busyKey, saves, edited>>

SettingsNext ==
  \/ OptionsRead \/ OthersRead \/ OptionsAnswer \/ PublicAnswer \/ SelfAnswer \/ QueryFails
  \/ ProfileCard \/ BindingCard \/ ClashCard \/ handleToggleOption
  \/ UpdateCard \/ GeneralCard \/ SmtpCard \/ IntegrationsCard \/ RateLimitCard
  \/ BrandCard \/ AboutCard
  \/ \E s \in Slots : WriteEntry(s) \/ Lost(s) \/ Written(s) \/ OptionsAwaited(s) \/ SaveEnds(s)
  \/ KernelCard \/ InstallWrites \/ InstallAnswer \/ InstallShown \/ InstallFails

SettingsSpec == SettingsInit /\ [][SettingsNext]_settingsVars

-----------------------------------------------------------------------------
SettingsTypeOK ==
  /\ \A k \in Followed : stored[k] \in Values(k) /\ fields[k] \in Values(k)
  /\ edited \subseteq Followed /\ did \in 0 .. MaxActs
  /\ busyKey # "" => \E s \in Slots : saves[s].phase # "idle"
  /\ \A s \in Slots : /\ saves[s].phase \in {"idle", "writing", "options", "last"}
                      /\ saves[s].wrote \subseteq Followed
  /\ install.phase \in {"idle", "sent", "awaiting"} /\ install.path \in Texts

\* However saves, installations and refreshes overlap, the settings at rest show what is
\* stored: every field that was neither edited since it was filled nor written by a save
\* that failed half-way and not read since (settings-page.tsx:265-341, 495-507).  A text of
\* the public status that has become blank may be shown as it was: the status fills no field
\* with a blank (settings-page.tsx:250-258).
FieldsShowStored ==
  /\ \A s \in Slots : saves[s].phase = "idle"
  /\ install.phase = "idle"
  /\ \A q \in {publicQ, selfQ} \union (IF IsRoot THEN {optionsQ} ELSE {}) :
       Answers(q) /\ ~Fetching(q)
  => \A k \in Followed \ (edited \union {t[2] : t \in torn} \union {"wechat"}) :
       \/ k \in Public \ {"ServerAddress"} /\ stored[k] = ""
       \/ fields[k] = Display(k, stored[k], StatusAddress(publicQ))
=============================================================================
