-------------------------- MODULE ConnectionTable --------------------------
(***************************************************************************)
(* The table of the connections page (zashboard/src/components/            *)
(* connections/ConnectionTable.vue): it is scrolled by dragging, a click   *)
(* on a row opens it, and the two are told apart by a flag that a timer    *)
(* resets.                                                                 *)
(*                                                                         *)
(* The browser sends a click to what was pressed if the mouse is released  *)
(* on it; the table moves with the mouse, so after a drag that is usual.   *)
(***************************************************************************)
EXTENDS Naturals, FiniteSets

CONSTANTS
  Listable,   \* the connections that may be listed
  GroupOf,    \* GroupOf[c]: the value of the grouped column
  NoInfo,     \* no connection is shown in the dialog
  MaxResets   \* bound: timers of 100 ms that run at once

\* What the constants are: assumed where they get their values.
ConnectionTableAssumption ==
  NoInfo \notin Listable /\ GroupOf \in [Listable -> STRING] /\ MaxResets \in Nat

VARIABLES
  listed,       \* renderConnections
  cut,          \* the kernel: connections the table had it close
  isClosedTab,  \* the closed connections are shown: there is no close column
  grouping, expanded, sorting, columnPinning,   \* the table's state, which the browser stores
  info,         \* handlerInfo: the connection in the dialog
  isMouseDown, isDragging,
  resets,       \* timers that will reset isDragging
  inside,       \* the mouse is over the table
  press         \* what is pressed, whether a report came since, and history: whether the
                \* press dragged the table, began while a timer ran, left the table

tableVars == <<grouping, expanded, sorting, columnPinning, info, cut>>
mouseVars == <<isMouseDown, isDragging, resets, inside, press>>
tableAll == <<listed, isClosedTab, tableVars, mouseVars>>

Groups == {GroupOf[c] : c \in Listable}
Pinnable == {"host", "sniffHost"}

Target(kind, of) == [kind |-> kind, of |-> of]
Released == [on |-> Target("nothing", ""), moved |-> FALSE, dragged |-> FALSE, early |-> FALSE,
             left |-> FALSE]
Pressed == press.on.kind # "nothing"

ConnectionTableInit ==
  /\ listed = Listable /\ cut = {} /\ isClosedTab = FALSE
  /\ grouping = FALSE /\ expanded = {} /\ sorting = "none" /\ columnPinning = {}
  /\ info = NoInfo
  /\ isMouseDown = FALSE /\ isDragging = FALSE /\ resets = 0 /\ inside = TRUE
  /\ press = Released

-----------------------------------------------------------------------------
\* The rows: groups, and in an open group its connections; the buttons of the header.
Rows == {c \in listed : grouping => GroupOf[c] \in expanded}
Targets ==
  {Target("row", c) : c \in Rows}
    \union {Target("close", c) : c \in {d \in Rows : ~isClosedTab}}
    \union {Target("group", GroupOf[c]) : c \in {d \in listed : grouping}}
    \union {Target("pin", col) : col \in Pinnable}
    \union {Target("sort", "host"), Target("grouping", "host")}

\* handleMouseDown: the left button.
handleMouseDown(t) ==
  /\ ~Pressed /\ inside /\ info = NoInfo
  /\ isMouseDown' = TRUE
  /\ press' = [Released EXCEPT !.on = t, !.early = resets > 0]
  /\ UNCHANGED <<listed, isClosedTab, tableVars, isDragging, resets, inside>>

\* handleMouseMove: a move longer than DRAG_THRESHOLD starts a drag, and any move goes on with
\* one; slower ones do nothing.
handleMouseMove ==
  /\ isMouseDown /\ inside
  /\ isDragging' = TRUE
  /\ press' = [press EXCEPT !.dragged = TRUE]
  /\ UNCHANGED <<listed, isClosedTab, tableVars, isMouseDown, resets, inside>>

\* Mutant: the flag is reset at once.
handleMouseUp_AtOnce ==
  /\ isDragging' = FALSE
  /\ isMouseDown' = FALSE
  /\ UNCHANGED resets

\* handleMouseUp, on release and on leaving the table.
handleMouseUp ==
  /\ resets' = IF isDragging THEN resets + 1 ELSE resets
  /\ isMouseDown' = FALSE
  /\ UNCHANGED isDragging

\* The timer of handleMouseUp.
ResetDragging ==
  /\ resets > 0 /\ resets' = resets - 1
  /\ isDragging' = FALSE
  /\ UNCHANGED <<listed, isClosedTab, tableVars, isMouseDown, inside, press>>

\* mouseleave; the button may still be pressed on coming back.
Leave ==
  /\ inside /\ inside' = FALSE
  /\ (isDragging => resets < MaxResets)
  /\ handleMouseUp
  /\ press' = [press EXCEPT !.left = Pressed]
  /\ UNCHANGED <<listed, isClosedTab, tableVars>>

Enter ==
  /\ ~inside /\ inside' = TRUE
  /\ UNCHANGED <<listed, isClosedTab, tableVars, isMouseDown, isDragging, resets, press>>

-----------------------------------------------------------------------------
\* handlerClickRow: a group is opened or closed, a connection shown, not by a drag.
handlerClickRow(t) ==
  /\ ~isDragging'
  /\ \/ /\ t.kind = "group"
        /\ expanded' = IF t.of \in expanded THEN expanded \ {t.of} ELSE expanded \union {t.of}
        /\ UNCHANGED info
     \/ /\ t.kind = "row"
        /\ info' = t.of
        /\ UNCHANGED expanded
  /\ UNCHANGED <<grouping, sorting, columnPinning, cut>>

\* Mutant: the column pinned before stays so.
handlePinColumn_Keeps(col) ==
  /\ columnPinning' = IF col \in columnPinning THEN columnPinning \ {col}
                                              ELSE columnPinning \union {col}
  /\ UNCHANGED <<grouping, expanded, sorting, info, cut>>

\* handlePinColumn: one column at most.
handlePinColumn(col) ==
  /\ columnPinning' = IF col \in columnPinning THEN {} ELSE {col}
  /\ UNCHANGED <<grouping, expanded, sorting, info, cut>>

NextOrder ==
  sorting' = CASE sorting = "none" -> "first" [] sorting = "first" -> "second" [] OTHER -> "none"

\* The header and the close button do not look at isDragging.
ClickButton(t) ==
  \/ t.kind = "pin" /\ handlePinColumn(t.of)
  \/ t.kind = "sort" /\ NextOrder /\ UNCHANGED <<grouping, expanded, columnPinning, info, cut>>
  \/ /\ t.kind = "grouping"
     /\ grouping' = ~grouping
     /\ UNCHANGED <<expanded, sorting, columnPinning, info, cut>>
  \/ /\ t.kind = "close"
     /\ cut' = cut \union {t.of}
     /\ UNCHANGED <<grouping, expanded, sorting, columnPinning, info>>

Click(t) ==
  IF t.kind \in {"group", "row"} /\ isDragging'
  THEN UNCHANGED tableVars
  ELSE handlerClickRow(t) \/ ClickButton(t)

\* What is in the place of what was pressed: rows, cells and the buttons in them are those of
\* a place in the list, and a report may have put another connection or group there.
InPlace ==
  LET kinds == CASE press.on.kind \in {"row", "group"} -> {"row", "group"}
                 [] press.on.kind = "close" -> {"close"}
                 [] OTHER -> {}
  IN  {t \in Targets : t = press.on \/ (press.moved /\ t.kind \in kinds)}

\* The button is released over the table: the click comes with it if the place is still there.
Release ==
  /\ Pressed /\ inside
  /\ (isDragging => resets < MaxResets)
  /\ handleMouseUp
  /\ press' = Released
  /\ \/ \E t \in InPlace : Click(t)
     \/ UNCHANGED tableVars
  /\ UNCHANGED <<listed, isClosedTab, inside>>

\* It is released elsewhere.
ReleaseOutside ==
  /\ Pressed /\ ~inside
  /\ press' = Released
  /\ UNCHANGED <<listed, isClosedTab, tableVars, isMouseDown, isDragging, resets, inside>>

-----------------------------------------------------------------------------
\* The kernel's next report; what was closed is not in it again.
Reported ==
  /\ listed' \in SUBSET IF isClosedTab THEN Listable ELSE Listable \ cut
  /\ press' = [press EXCEPT !.moved = Pressed]
  /\ UNCHANGED <<isClosedTab, tableVars, isMouseDown, isDragging, resets, inside>>

ShowClosed ==
  /\ ~Pressed /\ isClosedTab' = ~isClosedTab
  /\ listed' = {}
  /\ UNCHANGED <<tableVars, mouseVars>>

CloseInfo ==
  /\ info # NoInfo /\ ~Pressed
  /\ info' = NoInfo
  /\ UNCHANGED <<listed, isClosedTab, grouping, expanded, sorting, columnPinning, cut, mouseVars>>

\* The page is loaded again: what useStorage keeps is still there.
Reloaded ==
  /\ ~Pressed
  /\ listed' = {} /\ isClosedTab' = FALSE /\ info' = NoInfo
  /\ isMouseDown' = FALSE /\ isDragging' = FALSE /\ resets' = 0
  /\ UNCHANGED <<grouping, expanded, sorting, columnPinning, cut, inside, press>>

ConnectionTableNext ==
  \/ \E t \in Targets : handleMouseDown(t)
  \/ handleMouseMove \/ Leave \/ Enter \/ Release \/ ReleaseOutside
  \/ ResetDragging
  \/ Reported \/ ShowClosed \/ CloseInfo \/ Reloaded

ConnectionTableSpec == ConnectionTableInit /\ [][ConnectionTableNext]_tableAll

-----------------------------------------------------------------------------
(* The type of the table. *)
ConnectionTableTypeOK ==
  /\ listed \subseteq Listable /\ cut \subseteq Listable /\ isClosedTab \in BOOLEAN
  /\ grouping \in BOOLEAN /\ expanded \subseteq Groups
  /\ sorting \in {"none", "first", "second"}
  /\ columnPinning \subseteq Pinnable /\ Cardinality(columnPinning) <= 1
  /\ info \in Listable \union {NoInfo}
  /\ isMouseDown \in BOOLEAN /\ isDragging \in BOOLEAN /\ resets \in 0 .. MaxResets
  /\ inside \in BOOLEAN
  /\ press \in [on : [kind : {"nothing", "row", "close", "group", "pin", "sort", "grouping"},
                      of : Listable \union Groups \union Pinnable \union {""}],
                moved : BOOLEAN, dragged : BOOLEAN, early : BOOLEAN, left : BOOLEAN]

(* Dragging the table opens nothing: no connection is shown and no group opened or closed by *)
(* releasing a press that dragged (ConnectionTable.vue:594, 651-659), unless the press began *)
(* within 100 ms of an earlier drag or left the table on its way.                            *)
OpensOnlyByClick ==
  info' \notin {info, NoInfo} \/ expanded' # expanded
    => ~press.dragged \/ press.early \/ press.left
DragOpensNothing == [][OpensOnlyByClick]_tableAll
=============================================================================
