----------------------------- MODULE ImportPage -----------------------------
(***************************************************************************)
(* The import panel                                                        *)
(* (web/features/import/components/source-import-page.tsx) against the     *)
(* import of the server (internal/service/source_config.go).               *)
(*                                                                         *)
(* A source is the content of a file or of a subscription; its nodes are   *)
(* their fingerprints, possibly repeated.  Parsing stores a record and     *)
(* answers a preview; testing and importing name the record and the        *)
(* selected fingerprints.  Parse, test and import are three mutations      *)
(* that may be in flight together, while the operator goes on editing the  *)
(* preview and another client imports or deletes nodes.                    *)
(***************************************************************************)
EXTENDS Integers, FiniteSets, SequencesExt

CONSTANTS
  Sources,   \* contents that can be parsed
  Content,   \* for each, the fingerprints it lists
  NoSource,  \* nothing entered, or an address that is not valid
  MaxParses, \* bound: records
  MaxEdits   \* bound: clicks that edit the input, the selection or the preview, and nodes
             \* that another client imports or deletes, together

SourcePrints == UNION {ToSet(Content[s]) : s \in Sources}

\* What the constants are: assumed where they get their values.
ImportPageAssumption ==
  /\ NoSource \notin Sources /\ \A s \in Sources : Content[s] \in Seq(ToSet(Content[s]))
  /\ MaxParses \in Nat /\ MaxEdits \in Nat

VARIABLES
  pool,      \* fingerprints in proxy_nodes, where they are unique
  records,   \* source_configs, by id: the source and the status
  mode, inputs,  \* sourceMode, and what is entered in each mode
  parsed,    \* parseResult: 0, or the record's id
  preview,   \* previewNodes: fingerprint and duplicate scope, equal rows as one
  chosen,    \* selectedFingerprints
  results,   \* testResults: 0, or the record they are of
  flight,    \* the three mutations
  removed,   \* history: fingerprints removed from the preview since the last parse
  edits      \* counter of the bound

importVars ==
  <<pool, records, mode, inputs, parsed, preview, chosen, results, flight, removed, edits>>
panelState == <<mode, inputs, parsed, preview, chosen, results, removed, edits>>

Modes == {"upload", "subscription_url"}
Mutations == {"parse", "test", "import"}
NoFlight == [phase |-> "idle", source |-> NoSource, record |-> 0, picked |-> {},
             barred |-> {}, nodes |-> {}, answer |-> {}]

\* buildPreviewNodes: the first of equal nodes is importable unless the pool has it.
PreviewOf(fs) ==
  {[fp |-> fs[i],
    scope |-> CASE \E j \in 1 .. i - 1 : fs[j] = fs[i] -> "batch"
                [] (\A j \in 1 .. i - 1 : fs[j] # fs[i]) /\ fs[i] \in pool -> "database"
                [] OTHER -> "none"] : i \in DOMAIN fs}

\* filterParsedNodes: an empty selection stands for every node of the record.
Filtered(fs, picked) == IF picked = {} THEN ToSet(fs) ELSE ToSet(fs) \intersect picked

Importable(nodes) == {n.fp : n \in {m \in nodes : m.scope = "none"}}
Idle(m) == flight[m].phase = "idle"

ImportInit ==
  /\ pool = {} /\ records = <<>>
  /\ mode = "upload" /\ inputs = [m \in Modes |-> NoSource]
  /\ parsed = 0 /\ preview = {} /\ chosen = {} /\ results = 0 /\ removed = {}
  /\ flight = [m \in Mutations |-> NoFlight] /\ edits = 0

-----------------------------------------------------------------------------
\* The inputs, the selection and the preview.
Edit ==
  /\ edits < MaxEdits /\ edits' = edits + 1
  /\ UNCHANGED <<pool, records, flight>>

SetMode(m) ==
  /\ m # mode /\ mode' = m
  /\ Edit /\ UNCHANGED <<inputs, parsed, preview, chosen, results, removed>>

SetInput(s) ==
  /\ inputs' = [inputs EXCEPT ![mode] = s]
  /\ Edit /\ UNCHANGED <<mode, parsed, preview, chosen, results, removed>>

\* Everything is forgotten but the mutations in flight.
Clear ==
  /\ mode' = "upload" /\ inputs' = [m \in Modes |-> NoSource]
  /\ parsed' = 0 /\ preview' = {} /\ chosen' = {} /\ results' = 0 /\ removed' = {}
  /\ Edit

Select(fs) ==
  /\ parsed # 0 /\ chosen' = fs
  /\ Edit /\ UNCHANGED <<mode, inputs, parsed, preview, results, removed>>

Toggle(f) ==
  /\ f \in Importable(preview)
  /\ Select(IF f \in chosen THEN chosen \ {f} ELSE chosen \union {f})
SelectAll == Select(Importable(preview))
SelectNone == Select({})

RemoveChosen ==
  /\ parsed # 0 /\ chosen # {}
  /\ preview' = {n \in preview : n.fp \notin chosen}
  /\ chosen' = {} /\ results' = 0 /\ removed' = removed \union chosen
  /\ Edit /\ UNCHANGED <<mode, inputs, parsed>>

-----------------------------------------------------------------------------
\* Parsing.  Nothing entered fails at once, and a failure clears the result.
Forget == parsed' = 0 /\ preview' = {} /\ chosen' = {} /\ results' = 0 /\ removed' = {}

ClickParse ==
  /\ Idle("parse")
  /\ IF inputs[mode] = NoSource
     THEN Forget /\ UNCHANGED flight
     ELSE /\ flight' = [flight EXCEPT !["parse"] =
                          [NoFlight EXCEPT !.phase = "sent", !.source = inputs[mode]]]
          /\ UNCHANGED <<parsed, preview, chosen, results, removed>>
  /\ UNCHANGED <<pool, records, mode, inputs, edits>>

ServerParse ==
  /\ flight["parse"].phase = "sent"
  /\ LET s == flight["parse"].source
     IN  \/ /\ Len(records) < MaxParses
            /\ records' = Append(records, [source |-> s, status |-> "parsed"])
            /\ flight' = [flight EXCEPT !["parse"].phase = "done",
                            !["parse"].record = Len(records) + 1,
                            !["parse"].answer = PreviewOf(Content[s])]
         \/ flight' = [flight EXCEPT !["parse"].phase = "refused"] /\ UNCHANGED records
  /\ UNCHANGED <<pool, panelState>>

ParseAnswer ==
  /\ flight["parse"].phase = "done"
  /\ parsed' = flight["parse"].record /\ preview' = flight["parse"].answer
  /\ chosen' = Importable(flight["parse"].answer)
  /\ results' = 0 /\ removed' = {}
  /\ flight' = [flight EXCEPT !["parse"] = NoFlight]
  /\ UNCHANGED <<pool, records, mode, inputs, edits>>

ParseFails ==
  /\ flight["parse"].phase \in {"refused", "done"}
  /\ Forget
  /\ flight' = [flight EXCEPT !["parse"] = NoFlight]
  /\ UNCHANGED <<pool, records, mode, inputs, edits>>

-----------------------------------------------------------------------------
\* Testing and importing the selection.
CanSend(m) == parsed # 0 /\ Idle(m) /\ chosen # {}

Send(m) ==
  /\ CanSend(m)
  /\ flight' = [flight EXCEPT ![m] = [NoFlight EXCEPT !.phase = "sent", !.record = parsed,
                                        !.picked = chosen, !.barred = removed]]
  /\ UNCHANGED <<pool, records, panelState>>

ClickTest == Send("test")
ClickImport == Send("import")

ServerTest ==
  /\ flight["test"].phase = "sent"
  /\ \E outcome \in {"done", "refused"} : flight' = [flight EXCEPT !["test"].phase = outcome]
  /\ UNCHANGED <<pool, records, panelState>>

\* The results are shown whatever the panel holds by now.
TestAnswer ==
  /\ flight["test"].phase \in {"done", "refused"}
  /\ results' = IF flight["test"].phase = "done" THEN flight["test"].record ELSE results
  /\ flight' = [flight EXCEPT !["test"] = NoFlight]
  /\ UNCHANGED <<pool, records, mode, inputs, parsed, preview, chosen, removed, edits>>

\* ImportSourceConfig looks up which nodes exist, outside the transaction that writes.
ImportLookUp ==
  /\ flight["import"].phase = "sent"
  /\ LET f == flight["import"]
     IN  flight' = [flight EXCEPT !["import"].phase = "read", !["import"].nodes =
                      Filtered(Content[records[f.record].source], f.picked) \ pool]
  /\ UNCHANGED <<pool, records, panelState>>

\* persistImportedNodes: all nodes and the status, or, if one exists by now, nothing.
ImportWrite ==
  /\ flight["import"].phase = "read"
  /\ LET f == flight["import"]
     IN  \/ /\ f.nodes \intersect pool = {}
            /\ pool' = pool \union f.nodes
            /\ records' = [records EXCEPT ![f.record].status = "imported"]
            /\ flight' = [flight EXCEPT !["import"].phase = "done"]
         \/ /\ flight' = [flight EXCEPT !["import"].phase = "refused", !["import"].nodes = {}]
            /\ UNCHANGED <<pool, records>>
  /\ UNCHANGED <<panelState>>

\* The answer is reported, and marks whatever result is shown as imported.
ImportAnswer ==
  /\ flight["import"].phase \in {"done", "refused"}
  /\ flight' = [flight EXCEPT !["import"] = NoFlight]
  /\ UNCHANGED <<pool, records, panelState>>

OtherClient ==
  /\ edits < MaxEdits /\ edits' = edits + 1
  /\ \E f \in SourcePrints :
       pool' = IF f \in pool THEN pool \ {f} ELSE pool \union {f}
  /\ UNCHANGED <<records, mode, inputs, parsed, preview, chosen, results, removed, flight>>

ImportNext ==
  \/ \E m \in Modes : SetMode(m)
  \/ \E s \in Sources : SetInput(s)
  \/ Clear \/ SelectAll \/ SelectNone \/ RemoveChosen
  \/ \E f \in SourcePrints : Toggle(f)
  \/ ClickParse \/ ServerParse \/ ParseAnswer \/ ParseFails
  \/ ClickTest \/ ServerTest \/ TestAnswer
  \/ ClickImport \/ ImportLookUp \/ ImportWrite \/ ImportAnswer
  \/ OtherClient

ImportSpec == ImportInit /\ [][ImportNext]_importVars

-----------------------------------------------------------------------------
ImportTypeOK ==
  /\ pool \subseteq SourcePrints
  /\ records \in Seq([source : Sources, status : {"parsed", "imported"}])
  /\ mode \in Modes /\ inputs \in [Modes -> Sources \union {NoSource}]
  /\ parsed \in 0 .. Len(records) /\ results \in 0 .. Len(records)
  /\ preview \subseteq [fp : SourcePrints, scope : {"none", "batch", "database"}]
  /\ chosen \subseteq SourcePrints /\ removed \subseteq SourcePrints
  /\ edits \in 0 .. MaxEdits
  /\ \A m \in Mutations :
       /\ flight[m].phase \in {"idle", "sent", "read", "done", "refused"}
       /\ flight[m].record \in 0 .. Len(records)
       /\ flight[m].picked \union flight[m].barred \union flight[m].nodes \subseteq SourcePrints

\* What was removed from the preview is in no import clicked afterwards, as the panel
\* promises (source-import-page.tsx:440): an import creates nodes of its own record that
\* were selected when it was clicked and nothing else, although to the server a selection
\* of nothing means everything (source_config.go:342-353).
RemovedStaysOut ==
  LET f == flight["import"]
  IN  f.phase \in {"read", "done"} =>
        /\ f.nodes \intersect f.barred = {}
        /\ f.nodes \subseteq f.picked \intersect ToSet(Content[records[f.record].source])
=============================================================================
