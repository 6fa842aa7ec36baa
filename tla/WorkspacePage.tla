---------------------------- MODULE WorkspacePage ----------------------------
(***************************************************************************)
(* The workspace (web/features/workspace/components/workspace-page.tsx)    *)
(* against the port profiles and templates of the server                   *)
(* (internal/service/port_profile.go, port_profile_template.go).           *)
(*                                                                         *)
(* The page edits one draft.  Selecting a profile asks for its detail, and *)
(* each new detail overwrites the draft and the preview; until it arrives  *)
(* the draft is what it was.  Eight mutations may be in flight together;   *)
(* each sends the draft as it was when clicked, but what its answer        *)
(* invalidates is named by the render of the answer.                       *)
(***************************************************************************)
EXTENDS Integers, FiniteSets, QueryCache

CONSTANTS
  ProfileCount,  \* bound: the profiles are 1 .. ProfileCount, as their ids
  ProfileNames,  \* names of profiles
  DefaultName,   \* the one that stands for an empty field
  ProxyNodes,    \* nodes that can be picked
  TemplateCount, \* bound: templates
  MaxActs        \* bound: clicks and edits, failed requests and details that grow stale

Ids == 1 .. ProfileCount
Ports == {0, 1}
\* own stands for the socks and http ports; settings for the listener's authentication:
\* off, on with a field left empty, on.
Payload == [name : ProfileNames, mixed : Ports, own : Ports,
            settings : {"plain", "empty", "auth"}, included : BOOLEAN, nodes : SUBSET ProxyNodes]
defaultPayload == [name |-> DefaultName, mixed |-> 1, own |-> 0, settings |-> "plain",
                   included |-> TRUE, nodes |-> {}]

\* What the constants are: assumed where they get their values.
WorkspaceAssumption ==
  /\ ProfileCount \in Nat \ {0} /\ TemplateCount \in Nat /\ MaxActs \in Nat
  /\ DefaultName \in ProfileNames

VARIABLES
  rows, stored,         \* port_profiles and runtime_configs, by id: none or one payload
  born,                 \* ids given so far
  templates,            \* port_profile_templates
  profileList, details, \* the queries: the list, and the detail of each profile
  templateList,
  aged,                 \* details to be asked for again when shown next
  selectedId, creating, \* selectedProfileId (0 for null), isCreating
  draft,                \* payload
  fragment,             \* preview
  calls,                \* the mutations
  filledBy,             \* history: the profile whose detail last filled the draft, or 0
  overlapped,           \* history: profiles updated while a save of their snapshot had
                        \* rendered them and not yet stored the result
  acts                  \* counter of the bound

profileTables == <<rows, stored, born, templates>>
caches == <<profileList, details, templateList, aged>>
form == <<selectedId, creating, draft, fragment, filledBy>>
workspaceVars == <<profileTables, caches, form, calls, overlapped, acts>>

Mutations ==
  {"create", "update", "delete", "toggle", "preview", "snapshot", "saveTemplate", "deleteTemplate"}
NoCall == [phase |-> "idle", id |-> 0, payload |-> defaultPayload, early |-> FALSE, source |-> 0]
Present == {i \in Ids : rows[i] # <<>>}

\* normalizePortProfilePayload: what it refuses, and what it makes of the rest.
Valid(p) == p.nodes # {} /\ p.settings # "empty" /\ (p.mixed > 0 \/ p.own > 0)
Normalized(p) == IF p.mixed > 0 THEN [p EXCEPT !.own = 0] ELSE p

\* validatePortProfileUniqueness: names, and mixed ports alone.
Unique(p, id) ==
  \A i \in Present \ {id} :
    /\ rows[i][1].name # p.name
    /\ p.mixed > 0 => rows[i][1].mixed # p.mixed

WorkspaceInit ==
  /\ born \in Ids
  /\ rows = [i \in Ids |->
       IF i > born THEN <<>>
       ELSE <<[defaultPayload EXCEPT
                 !.name = IF i = 2 THEN @ ELSE CHOOSE n \in ProfileNames : n # DefaultName,
                 !.mixed = 0, !.own = 1, !.nodes = ProxyNodes]>>]
  /\ stored = [i \in Ids |-> <<>>] /\ templates = {}
  /\ profileList = Fresh /\ templateList = Fresh /\ aged = {}
  /\ details = [i \in Ids |-> Unasked]
  /\ selectedId = 0 /\ creating = FALSE /\ draft = defaultPayload /\ fragment = <<>>
  /\ calls = [m \in Mutations |-> NoCall]
  /\ filledBy = 0 /\ overlapped = {} /\ acts = 0

-----------------------------------------------------------------------------
\* The form follows the selection and the detail.
Act == acts < MaxActs /\ acts' = acts + 1

\* A detail fills the draft, and the preview with the snapshot if there is one.
Fill(i, detail) ==
  /\ draft' = detail.row /\ fragment' = detail.snapshot /\ filledBy' = i

\* Mutant: a profile whose detail is cached does not fill the form again.
Show_KeepsDraft(i, queries, d, f, source) ==
  /\ selectedId' = i /\ draft' = d /\ fragment' = f /\ filledBy' = source
  /\ details' = IF queries[i].data = <<>> \/ i \in aged
                THEN [queries EXCEPT ![i] = Fetch(@)] ELSE queries

\* Profile i is shown: its detail is asked for unless it is cached and not old; a cached
\* one fills the form at once.  Otherwise the form holds d and f.
Show(i, queries, d, f, source) ==
  /\ selectedId' = i
  /\ details' = IF queries[i].data = <<>> \/ i \in aged
                THEN [queries EXCEPT ![i] = Fetch(@)] ELSE queries
  /\ IF queries[i].data # <<>> THEN Fill(i, queries[i].data[1])
     ELSE draft' = d /\ fragment' = f /\ filledBy' = source

\* Nothing is selected: the page selects the first of the list, unless it is creating.
Settle(list, d, f, source) ==
  LET ids == {i \in Ids : list.data # <<>> /\ list.data[1][i] # <<>>}
  IN  \/ \E i \in ids : (\A j \in ids : j <= i) /\ Show(i, details, d, f, source)
      \/ /\ ids = {}
         /\ selectedId' = 0 /\ draft' = d /\ fragment' = f /\ filledBy' = source
         /\ UNCHANGED details

ListRead ==
  /\ profileList.phase = "sent" /\ profileList' = Read(profileList, rows)
  /\ UNCHANGED <<profileTables, details, templateList, aged, form, calls, overlapped, acts>>

ListAnswer ==
  /\ profileList.phase = "read" /\ profileList' = Answered(profileList)
  /\ IF selectedId = 0 /\ ~creating
     THEN Settle(profileList', draft, fragment, filledBy)
     ELSE UNCHANGED <<selectedId, draft, fragment, filledBy, details>>
  /\ UNCHANGED <<profileTables, templateList, aged, creating, calls, overlapped, acts>>

\* GetPortProfile: a profile that is gone is an error, and the cached detail stays.
DetailRead(i) ==
  /\ details[i].phase = "sent"
  /\ details' = [details EXCEPT ![i] =
       IF rows[i] = <<>> THEN Failed(@)
       ELSE Read(@, [row |-> rows[i][1], snapshot |-> stored[i]])]
  /\ UNCHANGED <<profileTables, profileList, templateList, aged, form, calls, overlapped, acts>>

\* An answer equal to the cached detail changes nothing on the page.
DetailAnswer(i) ==
  /\ details[i].phase = "read"
  /\ details' = [details EXCEPT ![i] = Answered(@)]
  /\ aged' = aged \ {i}
  /\ IF i = selectedId /\ details[i].answer # details[i].data
     THEN Fill(i, details[i].answer[1])
     ELSE UNCHANGED <<draft, fragment, filledBy>>
  /\ UNCHANGED <<profileTables, profileList, templateList, selectedId, creating, calls,
                 overlapped, acts>>

TemplatesRead ==
  /\ templateList.phase = "sent"
  /\ templateList' = Answered(Read(templateList, templates))
  /\ UNCHANGED <<profileTables, profileList, details, aged, form, calls, overlapped, acts>>

\* staleTime passes for a detail.
Age(i) ==
  /\ Act /\ details[i].data # <<>> /\ i \notin aged /\ aged' = aged \union {i}
  /\ UNCHANGED <<profileTables, profileList, details, templateList, form, calls, overlapped>>

-----------------------------------------------------------------------------
\* The list, the templates and the fields.
FormOnly == Act /\ UNCHANGED <<profileTables, profileList, templateList, aged, calls, overlapped>>

Select(i) ==
  /\ profileList.data # <<>> /\ profileList.data[1][i] # <<>> /\ i # selectedId
  /\ creating' = FALSE /\ Show(i, details, draft, fragment, filledBy)
  /\ FormOnly

StartNew(d) ==
  /\ creating' = TRUE /\ selectedId' = 0 /\ draft' = d /\ fragment' = <<>> /\ filledBy' = 0
  /\ FormOnly /\ UNCHANGED details

handleCreateNew == StartNew(defaultPayload)
applyTemplate ==
  \E t \in UNION {templateList.data[n] : n \in DOMAIN templateList.data} : StartNew(t)

Edit(d) ==
  /\ d # draft /\ draft' = d
  /\ FormOnly /\ UNCHANGED <<details, selectedId, creating, fragment, filledBy>>

EditName == \E n \in ProfileNames : Edit([draft EXCEPT !.name = n])

\* The switch fills in default ports where there is none; the fields take any number.
UseMixed(on) ==
  Edit([draft EXCEPT !.mixed = IF on THEN 1 ELSE 0, !.own = IF on THEN 0 ELSE 1])
EditPorts ==
  \/ \E on \in BOOLEAN : UseMixed(on)
  \/ draft.mixed > 0 /\ Edit([draft EXCEPT !.mixed = 0])
  \/ draft.mixed = 0 /\ \E p \in Ports : Edit([draft EXCEPT !.own = p])

EditSettings ==
  \E s \in {"plain", "empty", "auth"} :
    /\ draft.settings = "plain" => s = "empty"
    /\ Edit([draft EXCEPT !.settings = s])

handleToggleNode(n, checked) ==
  Edit([draft EXCEPT !.nodes = IF checked THEN @ \union {n} ELSE @ \ {n}])

\* The box of every node: checked if the draft has the node.
NodePicker == \E n \in ProxyNodes : handleToggleNode(n, n \notin draft.nodes)

-----------------------------------------------------------------------------
\* The buttons.  Of an update the call remembers whose detail the form holds (source) and
\* whether its own had not come yet (early).
Call(m, id, p) ==
  /\ calls[m].phase = "idle" /\ Act
  /\ calls' = [calls EXCEPT ![m] =
       [phase |-> "sent", id |-> id, payload |-> p,
        source |-> IF m = "update" THEN filledBy ELSE 0,
        early |-> m = "update" /\ details[id].data = <<>>]]
  /\ UNCHANGED <<profileTables, caches, form, overlapped>>

Editing == ~creating /\ selectedId # 0

ClickForm ==
  \/ Call("preview", 0, draft)
  \/ Editing /\ (Call("update", selectedId, draft) \/ Call("delete", selectedId, defaultPayload))
  \/ ~Editing /\ Call("create", 0, draft)

\* The card of the preview offers to store the snapshot of a saved profile.
SnapshotCard ==
  selectedId # 0 /\ fragment # <<>> /\ Call("snapshot", selectedId, defaultPayload)

\* The switch of a listed profile sends the whole profile as the list has it.
ClickToggle ==
  /\ profileList.data # <<>>
  /\ \E i \in Ids : /\ profileList.data[1][i] # <<>>
                    /\ LET p == profileList.data[1][i][1]
                       IN  Call("toggle", i, [p EXCEPT !.included = ~@])

ClickTemplates ==
  \/ Call("saveTemplate", 0, draft)
  \/ /\ templateList.data # <<>>
     /\ \E t \in templateList.data[1] : Call("deleteTemplate", 0, t)

-----------------------------------------------------------------------------
\* The server.
Phase(m, p) == calls' = [calls EXCEPT ![m].phase = p]
Served == UNCHANGED <<caches, form, acts>>

\* Create and update check first and write in a transaction of their own.
Check(m) ==
  /\ m \in {"create", "update", "toggle"} /\ calls[m].phase = "sent"
  /\ LET p == Normalized(calls[m].payload)
         ok == Valid(p) /\ Unique(p, calls[m].id) /\ (m = "create" \/ calls[m].id \in Present)
     IN  calls' = [calls EXCEPT ![m].phase = IF ok THEN "checked" ELSE "refused",
                                ![m].payload = p]
  /\ Served /\ UNCHANGED <<profileTables, overlapped>>

CreateProfile ==
  /\ calls["create"].phase = "checked" /\ born < ProfileCount
  /\ born' = born + 1
  /\ rows' = [rows EXCEPT ![born + 1] = <<calls["create"].payload>>]
  /\ calls' = [calls EXCEPT !["create"].phase = "done", !["create"].id = born + 1]
  /\ Served /\ UNCHANGED <<stored, templates, overlapped>>

\* The row, its nodes and the removal of its snapshot are one transaction.
UpdateProfile(m) ==
  /\ m \in {"update", "toggle"} /\ calls[m].phase = "checked"
  /\ LET i == calls[m].id
     IN  /\ rows' = [rows EXCEPT ![i] = <<calls[m].payload>>]
         /\ stored' = [stored EXCEPT ![i] = <<>>]
         /\ overlapped' = IF calls["snapshot"].phase = "checked" /\ calls["snapshot"].id = i
                          THEN overlapped \union {i} ELSE overlapped \ {i}
  /\ Phase(m, "done") /\ Served /\ UNCHANGED <<born, templates>>

DeleteProfile ==
  /\ calls["delete"].phase = "sent"
  /\ LET i == calls["delete"].id
     IN  /\ rows' = [rows EXCEPT ![i] = <<>>] /\ stored' = [stored EXCEPT ![i] = <<>>]
         /\ overlapped' = IF calls["snapshot"].phase = "checked" /\ calls["snapshot"].id = i
                          THEN overlapped \union {i} ELSE overlapped
  /\ Phase("delete", "done") /\ Served /\ UNCHANGED <<born, templates>>

PreviewPortProfile ==
  /\ calls["preview"].phase = "sent"
  /\ LET p == calls["preview"].payload
     IN  calls' = [calls EXCEPT !["preview"].phase = IF Valid(p) THEN "done" ELSE "refused",
                                !["preview"].payload = Normalized(p)]
  /\ Served /\ UNCHANGED <<profileTables, overlapped>>

\* Mutant: the saved profile is read without its nodes.
RenderSaved_NoNodes ==
  /\ calls["snapshot"].phase = "sent"
  /\ LET i == calls["snapshot"].id
     IN  calls' = [calls EXCEPT
           !["snapshot"].phase = IF i \in Present THEN "checked" ELSE "refused",
           !["snapshot"].payload = IF i \in Present THEN [rows[i][1] EXCEPT !.nodes = {}] ELSE @]
  /\ Served /\ UNCHANGED <<profileTables, overlapped>>

\* SaveRuntimePreview renders the saved profile, then stores the result.
RenderSaved ==
  /\ calls["snapshot"].phase = "sent"
  /\ LET i == calls["snapshot"].id
     IN  calls' = [calls EXCEPT
           !["snapshot"].phase = IF i \in Present THEN "checked" ELSE "refused",
           !["snapshot"].payload = IF i \in Present THEN rows[i][1] ELSE @]
  /\ Served /\ UNCHANGED <<profileTables, overlapped>>

\* FirstOrCreate reads a row that is there into the very record Assign was given, so what
\* it writes then is what it read: only a missing snapshot is stored.
StoreSnapshot ==
  /\ calls["snapshot"].phase = "checked"
  /\ stored' = [stored EXCEPT ![calls["snapshot"].id] =
                    IF @ = <<>> THEN <<calls["snapshot"].payload>> ELSE @]
  /\ Phase("snapshot", "done") /\ Served /\ UNCHANGED <<rows, born, templates, overlapped>>

SavePortProfileTemplate ==
  /\ calls["saveTemplate"].phase = "sent"
  /\ LET p == calls["saveTemplate"].payload
     IN  IF Valid(p)
         THEN /\ Cardinality(templates) < TemplateCount
              /\ templates' = templates \union {Normalized(p)}
              /\ Phase("saveTemplate", "done")
         ELSE UNCHANGED templates /\ Phase("saveTemplate", "refused")
  /\ Served /\ UNCHANGED <<rows, stored, born, overlapped>>

DeletePortProfileTemplate ==
  /\ calls["deleteTemplate"].phase = "sent"
  /\ templates' = templates \ {calls["deleteTemplate"].payload}
  /\ Phase("deleteTemplate", "done") /\ Served /\ UNCHANGED <<rows, stored, born, overlapped>>

\* Any request may fail on the way to the server.
Lost(m) ==
  /\ Act /\ calls[m].phase = "sent" /\ Phase(m, "refused")
  /\ UNCHANGED <<profileTables, caches, form, overlapped>>

-----------------------------------------------------------------------------
\* The answers.
Finish(m) == calls' = [calls EXCEPT ![m] = NoCall]
Answering == UNCHANGED <<profileTables, overlapped, acts>>

\* invalidateQueries on the detail of profile i: asked for again if shown, else when shown.
InvalidateDetail(i) ==
  /\ details' = IF i = selectedId /\ i # 0 THEN [details EXCEPT ![i] = Invalidated(@)]
                                           ELSE details
  /\ aged' = IF i \in Ids THEN aged \union {i} ELSE aged

CreateAnswer ==
  /\ calls["create"].phase = "done"
  /\ creating' = FALSE /\ Show(calls["create"].id, details, draft, fragment, calls["create"].id)
  /\ profileList' = Invalidated(profileList)
  /\ Finish("create") /\ Answering /\ UNCHANGED <<templateList, aged>>

\* The detail of the profile shown now, which may be another than the one saved.
SavedAnswer(m) ==
  /\ m \in {"update", "snapshot"} /\ calls[m].phase = "done"
  /\ profileList' = Invalidated(profileList) /\ InvalidateDetail(selectedId)
  /\ Finish(m) /\ Answering /\ UNCHANGED <<templateList, form>>

ToggleAnswer ==
  /\ calls["toggle"].phase = "done"
  /\ profileList' = Invalidated(profileList) /\ InvalidateDetail(calls["toggle"].id)
  /\ Finish("toggle") /\ Answering /\ UNCHANGED <<templateList, form>>

\* The draft is emptied whichever profile is shown by now.
DeleteAnswer ==
  /\ calls["delete"].phase = "done"
  /\ profileList' = Invalidated(profileList)
  /\ IF selectedId \in {0, calls["delete"].id} /\ ~creating
     THEN Settle(profileList, defaultPayload, <<>>, 0)
     ELSE /\ draft' = defaultPayload /\ fragment' = <<>> /\ filledBy' = 0
          /\ UNCHANGED <<selectedId, details>>
  /\ Finish("delete") /\ Answering /\ UNCHANGED <<templateList, aged, creating>>

PreviewAnswer ==
  /\ calls["preview"].phase = "done"
  /\ fragment' = <<calls["preview"].payload>>
  /\ Finish("preview") /\ Answering /\ UNCHANGED <<caches, selectedId, creating, draft, filledBy>>

TemplateAnswer(m) ==
  /\ m \in {"saveTemplate", "deleteTemplate"} /\ calls[m].phase = "done"
  /\ templateList' = Invalidated(templateList)
  /\ Finish(m) /\ Answering /\ UNCHANGED <<profileList, details, aged, form>>

CallRefused(m) ==
  /\ calls[m].phase = "refused"
  /\ Finish(m) /\ Answering /\ UNCHANGED <<caches, form>>

WorkspaceNext ==
  \/ ListRead \/ ListAnswer \/ TemplatesRead
  \/ \E i \in Ids : DetailRead(i) \/ DetailAnswer(i) \/ Age(i) \/ Select(i)
  \/ handleCreateNew \/ applyTemplate
  \/ EditName \/ EditPorts \/ EditSettings \/ NodePicker
  \/ ClickForm \/ SnapshotCard \/ ClickToggle \/ ClickTemplates
  \/ CreateProfile \/ DeleteProfile \/ PreviewPortProfile \/ RenderSaved \/ StoreSnapshot
  \/ SavePortProfileTemplate \/ DeletePortProfileTemplate
  \/ CreateAnswer \/ ToggleAnswer \/ DeleteAnswer \/ PreviewAnswer
  \/ \E m \in Mutations :
       \/ Check(m) \/ UpdateProfile(m) \/ Lost(m)
       \/ SavedAnswer(m) \/ TemplateAnswer(m) \/ CallRefused(m)

WorkspaceSpec == WorkspaceInit /\ [][WorkspaceNext]_workspaceVars

-----------------------------------------------------------------------------
WorkspaceTypeOK ==
  /\ \A i \in Ids : /\ rows[i] \in Seq(Payload) /\ Len(rows[i]) <= 1
                    /\ stored[i] \in Seq(Payload) /\ Len(stored[i]) <= 1
  /\ born \in Ids /\ templates \subseteq Payload
  /\ selectedId \in 0 .. ProfileCount /\ creating \in BOOLEAN /\ draft \in Payload
  /\ fragment \in Seq(Payload) /\ Len(fragment) <= 1
  /\ filledBy \in 0 .. ProfileCount /\ aged \subseteq Ids /\ acts \in 0 .. MaxActs
  /\ \A m \in Mutations : /\ calls[m].phase \in {"idle", "sent", "checked", "done", "refused"}
                          /\ calls[m].payload \in Payload /\ calls[m].id \in 0 .. ProfileCount

\* A stored snapshot is what its profile renders to as it is saved now, although profile
\* and snapshot are changed by requests that overlap (port_profile.go:95-131, 205-223).
\* The one exception is a profile changed between the render and the store of a
\* snapshot, which then is stored over the removal.
SnapshotCurrent ==
  \A i \in Ids \ overlapped : stored[i] # <<>> => stored[i] = rows[i]

\* A profile is saved with the content of the form that showed it: never with what another
\* profile's detail filled in, unless the operator saved before its own detail had arrived
\* (workspace-page.tsx:177-204, 219-229).
SavesItsOwn ==
  LET c == calls["update"]
  IN  c.phase # "idle" => c.source \in {0, c.id} \/ c.early
=============================================================================
