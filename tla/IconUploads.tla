----------------------------- MODULE IconUploads -----------------------------
(***************************************************************************)
(* The panel's icons for groups (zashboard/src/components/settings/        *)
(* IconSettings.vue): entries with an icon each, a form for a new one, and *)
(* files that are dropped on one of them or chosen in a dialog, whose one  *)
(* input serves all.  uploadTargetItem remembers whom the dialog is for;   *)
(* files are read asynchronously.                                          *)
(*                                                                         *)
(* An icon is "own" when it was typed or its file was meant for the place  *)
(* it is at.  Names and pictures are left out.                             *)
(***************************************************************************)
EXTENDS Integers

CONSTANTS FirstEntries, MaxEntries, MaxFiles  \* entries at first; bounds: entries made, files

New == 0  \* the form, and no uploadTargetItem
Entries == 1 .. MaxEntries
Places == Entries \union {New}

\* What the constants are: assumed where they get their values.
IconAssumption == MaxEntries \in Nat /\ FirstEntries \in 0 .. MaxEntries /\ MaxFiles \in Nat

VARIABLES
  iconReflectList,   \* the entries there are
  icon,              \* of each entry, and of the form: none, own, or another's
  uploadTargetItem,
  dialog,            \* the place whose dialog is open, if any
  reads,             \* files being read: for which place, by which way, and whether the
                     \* operator has given other orders since
  abandoned,         \* history: an upload was given up, failed, or lost its target to another, and
                     \* none was begun for an entry since
  made, files        \* counters of the bounds

iconVars ==
  <<iconReflectList, icon, uploadTargetItem, dialog, reads, abandoned, made, files>>

NoDialog == -1
Ways == {"input", "drop"}

IconUploadsInit ==
  /\ made = FirstEntries /\ iconReflectList = 1 .. made
  /\ icon = [p \in Places |-> IF p \in iconReflectList THEN "own" ELSE "none"]
  /\ uploadTargetItem = New /\ dialog = NoDialog
  /\ reads = {} /\ abandoned = FALSE /\ files = 0

Present == iconReflectList \union {New}
Disturbed == {[r EXCEPT !.crossed = TRUE] : r \in reads}
Read(place, way, crossed) ==
  /\ files < MaxFiles /\ files' = files + 1
  /\ [place |-> place, way |-> way, crossed |-> crossed] \notin reads

-----------------------------------------------------------------------------
\* The dialog is modal: nothing else is clicked while it is open.
triggerUploadForItem ==
  /\ dialog = NoDialog /\ dialog' \in iconReflectList /\ uploadTargetItem' = dialog'
  /\ reads' = Disturbed /\ abandoned' = FALSE
  /\ UNCHANGED <<iconReflectList, icon, made, files>>

clickNew ==
  /\ dialog = NoDialog /\ dialog' = New
  /\ UNCHANGED <<iconReflectList, icon, uploadTargetItem, reads, abandoned, made, files>>

\* Cancelled, or the file chosen that the input still names since a read failed: no event.
Dismiss ==
  /\ dialog # NoDialog /\ dialog' = NoDialog
  /\ abandoned' = (abandoned \/ dialog # New)
  /\ UNCHANGED <<iconReflectList, icon, uploadTargetItem, reads, made, files>>

handleFileSelect ==
  /\ dialog # NoDialog /\ dialog' = NoDialog
  /\ LET crossed == abandoned \/ \E r \in reads : r.way = "input"
     IN  /\ Read(dialog, "input", crossed)
         /\ reads' = Disturbed \union {[place |-> dialog, way |-> "input", crossed |-> crossed]}
  /\ UNCHANGED <<iconReflectList, icon, uploadTargetItem, abandoned, made>>

handleDrop ==
  /\ dialog = NoDialog
  /\ \E p \in Present :
       /\ Read(p, "drop", FALSE)
       /\ reads' = reads \union {[place |-> p, way |-> "drop", crossed |-> FALSE]}
  /\ UNCHANGED <<iconReflectList, icon, uploadTargetItem, dialog, abandoned, made>>

Landed(r, place) ==
  icon' = [icon EXCEPT ![place] =
            IF r.place = place THEN "own" ELSE IF r.crossed THEN "crossed" ELSE "another's"]

\* The file has been read; that of the input goes to whoever is the target by now, and the
\* target is cleared.
Loaded(r) ==
  /\ reads' = reads \ {r}
  /\ IF r.way = "drop"
     THEN Landed(r, r.place) /\ UNCHANGED <<uploadTargetItem, abandoned>>
     ELSE /\ Landed(r, uploadTargetItem) /\ uploadTargetItem' = New
          /\ abandoned' = (dialog \in Entries)
  /\ UNCHANGED <<iconReflectList, dialog, made, files>>

\* Not an image, or unreadable: the exception leaves target and input as they are.
LoadFails(r) ==
  /\ reads' = reads \ {r}
  /\ abandoned' = (abandoned \/ (r.way = "input" /\ (r.crossed \/ r.place # New)))
  /\ UNCHANGED <<iconReflectList, icon, uploadTargetItem, dialog, made, files>>

-----------------------------------------------------------------------------
TypeIcon ==
  /\ dialog = NoDialog
  /\ \E p \in Present : icon' \in {[icon EXCEPT ![p] = "own"], [icon EXCEPT ![p] = "none"]}
  /\ UNCHANGED <<iconReflectList, uploadTargetItem, dialog, reads, abandoned, made, files>>

addIconReflect ==
  /\ dialog = NoDialog /\ icon[New] # "none" /\ made < MaxEntries /\ made' = made + 1
  /\ iconReflectList' = iconReflectList \union {made'}
  /\ icon' = [icon EXCEPT ![made'] = icon[New], ![New] = "none"]
  /\ UNCHANGED <<uploadTargetItem, dialog, reads, abandoned, files>>

removeIconReflect ==
  /\ dialog = NoDialog
  /\ \E e \in iconReflectList : iconReflectList' = iconReflectList \ {e}
  /\ UNCHANGED <<icon, uploadTargetItem, dialog, reads, abandoned, made, files>>

IconUploadsNext ==
  \/ triggerUploadForItem \/ clickNew \/ Dismiss \/ handleFileSelect \/ handleDrop
  \/ \E r \in reads : Loaded(r) \/ LoadFails(r)
  \/ TypeIcon \/ addIconReflect \/ removeIconReflect

IconUploadsSpec == IconUploadsInit /\ [][IconUploadsNext]_iconVars

-----------------------------------------------------------------------------
IconUploadsTypeOK ==
  /\ iconReflectList \subseteq Entries
  /\ icon \in [Places -> {"none", "own", "crossed", "another's"}]
  /\ uploadTargetItem \in Places /\ dialog \in Places \union {NoDialog}
  /\ abandoned \in BOOLEAN
  /\ reads \subseteq [place : Places, way : Ways, crossed : BOOLEAN]
  /\ made \in 0 .. MaxEntries /\ files \in 0 .. MaxFiles

\* A picture lands on the entry, or in the form, that it was dropped on or chosen for, as the
\* variable is there to track (IconSettings.vue:163-164), although entries are removed and
\* other files dropped while it is read.  Not so when two uploads overlap, or when one for an
\* entry was given up or failed before: its target is still there and takes the next file that
\* is chosen for the form (IconSettings.vue:212-228).
IconsLand == \A p \in Places : icon[p] # "another's"
=============================================================================
