----------------------------- MODULE PanelProofs -----------------------------
(***************************************************************************)
(* What holds of the theme of any number of tabs, of the panel's           *)
(* notifications for any keys, of its table for any columns, of its        *)
(* traffic history for any connections and types, of its pages of proxies  *)
(* and of rules for any nodes, rules and clicks, of the pictures of its    *)
(* groups for any files and orders of their reading, of its charts and     *)
(* the topology's for any samples and connections, of the names of         *)
(* addresses for any list, and of the kernel's log for any lines.          *)
(***************************************************************************)
EXTENDS Theme, Notifications, ConnectionTable, Connections, ProxyBoard, ConfigBoard,
  IconUploads, Topology, SourceLabels, PanelLogs, OverviewCharts, SequenceTheorems,
  FiniteSetTheorems, WellFoundedInduction, NaturalsInduction, TLAPS

Phases == {"closed", "script", "mounted", "ready"}
TabRow == [phase : Phases, domMode : Modes, domTheme : Resolved, themeMode : Modes,
           resolvedTheme : Resolved, listener : Modes]

-----------------------------------------------------------------------------
(* The theme.  A tab that has not been told of the last change of the preference may show the *)
(* wrong theme, but only in the mode "system"; and its listener knows its mode, or still the  *)
(* initial "system".                                                                          *)

TabAgrees(t) ==
  /\ tab[t].phase # "ready" => tab[t].listener = "system"
  /\ tab[t].phase \in {"mounted", "ready"} /\ t \notin crossed =>
       /\ tab[t].themeMode = tab[t].domMode /\ tab[t].resolvedTheme = tab[t].domTheme
       /\ (t \notin unheard \/ tab[t].domMode # "system")
            => tab[t].domTheme = resolveTheme(tab[t].domMode)
       /\ tab[t].phase = "ready" => tab[t].listener = tab[t].themeMode

ThemeInv == ThemeTypeOK /\ \A t \in Tabs : TabAgrees(t)

\* The modes follow each other in a circle.
LEMMA NextMode ==
  \A i \in DOMAIN themeModes : themeModes[(i % Len(themeModes)) + 1] \in Modes
<1>1. Len(themeModes) = 3 /\ DOMAIN themeModes = 1 .. 3
  BY DEF themeModes
<1>2. themeModes[1] \in Modes /\ themeModes[2] \in Modes /\ themeModes[3] \in Modes
  BY DEF themeModes, Modes
<1>3. ASSUME NEW i \in 1 .. 3 PROVE (i % 3) + 1 \in {1, 2, 3}
  OBVIOUS
<1>4. QED
  BY <1>1, <1>2, <1>3

\* A mode means a theme, whatever the system prefers.
LEMMA ResolvesTheme ==
  ASSUME NEW mode \in Modes
  PROVE  resolveTheme(mode) \in Resolved /\ (mode # "system" => resolveTheme(mode) = mode)
BY DEF resolveTheme, Modes, Resolved

\* A step of one tab leaves the others as they are.
LEMMA TabRows ==
  ASSUME ThemeTypeOK, NEW t \in Tabs, NEW row \in TabRow, tab' = [tab EXCEPT ![t] = row]
  PROVE  /\ tab' \in [Tabs -> TabRow] /\ tab'[t] = row
         /\ \A u \in Tabs \ {t} : tab'[u] = tab[u]
BY DEF ThemeTypeOK, TabRow, Phases

\* applyTheme makes document and state agree, and a row of it.
LEMMA Applies ==
  ASSUME ThemeTypeOK, NEW t \in Tabs, NEW mode \in Modes, NEW other \in TabRow,
         applyTheme(t, mode, other)
  PROVE  /\ storedMode' = mode /\ tab' \in [Tabs -> TabRow]
         /\ \A u \in Tabs \ {t} : tab'[u] = tab[u]
         /\ tab'[t].phase = other.phase /\ tab'[t].domMode = mode
         /\ tab'[t].domTheme = resolveTheme(mode) /\ tab'[t].resolvedTheme = resolveTheme(mode)
         /\ tab'[t].themeMode = other.themeMode /\ tab'[t].listener = other.listener
<1> DEFINE row == [other EXCEPT !.domMode = mode, !.domTheme = resolveTheme(mode),
                                !.resolvedTheme = resolveTheme(mode)]
<1>1. resolveTheme(mode) \in Resolved
  BY ResolvesTheme
<1>2. /\ row \in TabRow /\ row.phase = other.phase /\ row.domMode = mode
      /\ row.domTheme = resolveTheme(mode) /\ row.resolvedTheme = resolveTheme(mode)
      /\ row.themeMode = other.themeMode /\ row.listener = other.listener
  BY <1>1 DEF TabRow
<1>3. storedMode' = mode /\ tab' = [tab EXCEPT ![t] = row]
  BY DEF applyTheme
<1> HIDE DEF row
<1>4. QED
  BY <1>2, <1>3, TabRows

LEMMA InitTheme == ASSUME ThemeAssumption PROVE ThemeInit => ThemeInv
<1> SUFFICES ASSUME ThemeInit PROVE ThemeInv
  OBVIOUS
<1>1. Closed \in TabRow /\ Closed.phase = "closed" /\ Closed.listener = "system"
  BY DEF Closed, TabRow, Phases, Modes, Resolved
<1>2. ThemeTypeOK
  BY <1>1 DEF ThemeInit, ThemeTypeOK, ThemeAssumption, TabRow, Phases
<1>3. QED
  BY <1>1, <1>2 DEF ThemeInit, ThemeInv, TabAgrees

\* A tab that a step leaves alone still agrees.
LEMMA Untouched ==
  ASSUME ThemeInv, NEW u \in Tabs, tab'[u] = tab[u], UNCHANGED prefersDark,
         u \in crossed => u \in crossed', u \in unheard => u \in unheard'
  PROVE  TabAgrees(u)'
BY DEF ThemeInv, TabAgrees, resolveTheme

\* applyTheme in a tab that is up, with the mode its state has or gets.
LEMMA AppliedAgrees ==
  ASSUME ThemeInv, NEW t \in Tabs, NEW mode \in Modes, NEW other \in TabRow,
         applyTheme(t, mode, other), UNCHANGED prefersDark,
         other.themeMode = mode \/ t \in crossed',
         other.phase = "mounted" => other.listener = "system",
         other.phase = "ready" => other.listener = other.themeMode \/ t \in crossed',
         other.phase \in {"mounted", "ready"}
  PROVE  TabAgrees(t)'
<1>1. /\ tab'[t].phase = other.phase /\ tab'[t].domMode = mode
      /\ tab'[t].domTheme = resolveTheme(mode) /\ tab'[t].resolvedTheme = resolveTheme(mode)
      /\ tab'[t].themeMode = other.themeMode /\ tab'[t].listener = other.listener
  BY Applies DEF ThemeInv
<1>2. resolveTheme(mode)' = resolveTheme(mode)
  BY DEF resolveTheme
<1>3. QED
  BY <1>1, <1>2 DEF TabAgrees, resolveTheme

LEMMA NextTheme ==
  ASSUME ThemeAssumption PROVE ThemeInv /\ [ThemeNext]_themeVars => ThemeInv'
<1> SUFFICES ASSUME ThemeInv, [ThemeNext]_themeVars PROVE ThemeInv'
  OBVIOUS
<1>1. CASE UNCHANGED themeVars
  BY <1>1 DEF themeVars, ThemeInv, ThemeTypeOK, TabAgrees, resolveTheme
<1>2. CASE PreferenceFlips
  <2>1. ThemeTypeOK'
    BY <1>2 DEF PreferenceFlips, ThemeInv, ThemeTypeOK, ThemeAssumption
  <2>2. ASSUME NEW u \in Tabs PROVE TabAgrees(u)'
    <3>1. tab[u].domMode \in Modes
      BY DEF ThemeInv, ThemeTypeOK
    <3>2. tab[u].phase \in {"mounted", "ready"} => u \in unheard'
      BY <1>2 DEF PreferenceFlips
    <3>3. tab[u].domMode # "system" =>
            resolveTheme(tab[u].domMode)' = resolveTheme(tab[u].domMode)
      BY <1>2, <3>1 DEF resolveTheme, PreferenceFlips
    <3>4. tab' = tab /\ crossed' = crossed
      BY <1>2 DEF PreferenceFlips
    <3>5. TabAgrees(u)
      BY DEF ThemeInv
    <3>6. QED
      BY <3>2, <3>3, <3>4, <3>5 DEF TabAgrees, resolveTheme
  <2>3. QED
    BY <2>1, <2>2 DEF ThemeInv
<1>3. ASSUME NEW t \in Tabs, InitScript(t) PROVE ThemeInv'
  <2> DEFINE mode == IF storedMode = "none" THEN "system" ELSE storedMode
             row == [tab[t] EXCEPT !.phase = "script", !.domMode = mode,
                                   !.domTheme = resolveTheme(mode)]
  <2>1. mode \in Modes /\ resolveTheme(mode) \in Resolved
    <3>1. mode \in Modes
      BY DEF ThemeInv, ThemeTypeOK, Modes
    <3>2. QED
      BY <3>1, ResolvesTheme
  <2>2. row \in TabRow /\ row.phase = "script" /\ row.listener = tab[t].listener
    <3> HIDE DEF mode
    <3>1. QED
      BY <2>1 DEF ThemeInv, ThemeTypeOK, TabRow, Phases
  <2>3. tab[t].listener = "system"
    BY <1>3 DEF ThemeInv, TabAgrees, InitScript
  <2>4. tab' = [tab EXCEPT ![t] = row]
    BY <1>3 DEF InitScript
  <2>5. UNCHANGED <<prefersDark, storedMode, unheard, crossed, toggles, flips>>
    BY <1>3 DEF InitScript
  <2> HIDE DEF row, mode
  <2>6. /\ tab' \in [Tabs -> TabRow] /\ tab'[t] = row
        /\ \A u \in Tabs \ {t} : tab'[u] = tab[u]
    BY <2>2, <2>4, TabRows DEF ThemeInv
  <2>7. ThemeTypeOK'
    BY <2>5, <2>6 DEF ThemeInv, ThemeTypeOK, TabRow, Phases
  <2>8. TabAgrees(t)'
    BY <2>2, <2>3, <2>6 DEF TabAgrees
  <2>9. QED
    BY <2>5, <2>6, <2>7, <2>8, Untouched DEF ThemeInv
<1>4. ASSUME NEW t \in Tabs, Mount(t) PROVE ThemeInv'
  <2> DEFINE other == [tab[t] EXCEPT !.phase = "mounted", !.themeMode = tab[t].domMode]
  <2>1. tab[t].phase = "script" /\ tab[t] \in TabRow /\ tab[t].listener = "system"
    BY <1>4 DEF Mount, ThemeInv, ThemeTypeOK, TabAgrees, TabRow, Phases
  <2>2. /\ tab[t].domMode \in Modes /\ other \in TabRow /\ other.phase = "mounted"
        /\ other.themeMode = tab[t].domMode /\ other.listener = "system"
    BY <2>1 DEF TabRow, Phases
  <2>3. /\ applyTheme(t, tab[t].domMode, other)
        /\ UNCHANGED <<prefersDark, unheard, crossed, toggles, flips>>
    BY <1>4 DEF Mount
  <2> HIDE DEF other
  <2>4. /\ storedMode' = tab[t].domMode /\ tab' \in [Tabs -> TabRow]
        /\ \A u \in Tabs \ {t} : tab'[u] = tab[u]
    BY <2>2, <2>3, Applies DEF ThemeInv
  <2>5. ThemeTypeOK'
    BY <2>2, <2>3, <2>4 DEF ThemeInv, ThemeTypeOK, TabRow, Phases
  <2>6. TabAgrees(t)'
    BY <2>2, <2>3, AppliedAgrees
  <2>7. QED
    BY <2>3, <2>4, <2>5, <2>6, Untouched DEF ThemeInv
<1>5. ASSUME NEW t \in Tabs, Rerender(t) PROVE ThemeInv'
  <2> DEFINE row == [tab[t] EXCEPT !.phase = "ready", !.listener = tab[t].themeMode]
  <2>1. tab[t].phase = "mounted" /\ tab[t] \in TabRow /\ TabAgrees(t)
    BY <1>5 DEF Rerender, ThemeInv, ThemeTypeOK, TabRow, Phases
  <2>2. /\ row \in TabRow /\ row.phase = "ready" /\ row.listener = row.themeMode
        /\ row.themeMode = tab[t].themeMode /\ row.domMode = tab[t].domMode
        /\ row.domTheme = tab[t].domTheme /\ row.resolvedTheme = tab[t].resolvedTheme
    BY <2>1 DEF TabRow, Phases
  <2>3. /\ tab' = [tab EXCEPT ![t] = row]
        /\ UNCHANGED <<prefersDark, storedMode, unheard, crossed, toggles, flips>>
    BY <1>5 DEF Rerender
  <2> HIDE DEF row
  <2>4. /\ tab' \in [Tabs -> TabRow] /\ tab'[t] = row
        /\ \A u \in Tabs \ {t} : tab'[u] = tab[u]
    BY <2>2, <2>3, TabRows DEF ThemeInv
  <2>5. ThemeTypeOK'
    BY <2>3, <2>4 DEF ThemeInv, ThemeTypeOK, TabRow, Phases
  <2>6. TabAgrees(t)'
    BY <2>1, <2>2, <2>3, <2>4 DEF TabAgrees, resolveTheme
  <2>7. QED
    BY <2>3, <2>4, <2>5, <2>6, Untouched DEF ThemeInv
<1>6. ASSUME NEW t \in Tabs, Close(t) PROVE ThemeInv'
  <2>1. Closed \in TabRow /\ Closed.phase = "closed" /\ Closed.listener = "system"
    BY DEF Closed, TabRow, Phases, Modes, Resolved
  <2>2. /\ tab' = [tab EXCEPT ![t] = Closed]
        /\ unheard' = unheard \ {t} /\ crossed' = crossed \ {t}
        /\ UNCHANGED <<prefersDark, storedMode, toggles, flips>>
    BY <1>6 DEF Close
  <2>3. /\ tab' \in [Tabs -> TabRow] /\ tab'[t] = Closed
        /\ \A u \in Tabs \ {t} : tab'[u] = tab[u]
    BY <2>1, <2>2, TabRows DEF ThemeInv
  <2>4. ThemeTypeOK'
    BY <2>2, <2>3 DEF ThemeInv, ThemeTypeOK, TabRow, Phases
  <2>5. TabAgrees(t)'
    BY <2>1, <2>3 DEF TabAgrees
  <2>6. ASSUME NEW u \in Tabs \ {t} PROVE TabAgrees(u)'
    BY <2>2, <2>3, Untouched
  <2>7. QED
    BY <2>4, <2>5, <2>6 DEF ThemeInv
<1>7. ASSUME NEW t \in Tabs, Heard(t) PROVE ThemeInv'
  <2>1. /\ unheard' = unheard \ {t} /\ handleChange(t)
        /\ crossed' = crossed \union {s \in {t} : tab[s].phase = "mounted" /\ tab[s].themeMode # "system"}
        /\ UNCHANGED <<prefersDark, toggles, flips>>
    BY <1>7 DEF Heard
  <2>2. tab[t] \in TabRow /\ TabAgrees(t) /\ t \in unheard
    BY <1>7 DEF Heard, ThemeInv, ThemeTypeOK, TabRow, Phases
  <2>3. CASE tab[t].listener # "system"
    <3>1. UNCHANGED <<storedMode, tab>>
      BY <2>1, <2>3 DEF handleChange
    <3>2. crossed' = crossed
      BY <2>1, <2>2, <2>3 DEF TabAgrees
    <3>3. ThemeTypeOK'
      BY <2>1, <3>1, <3>2 DEF ThemeInv, ThemeTypeOK
    <3>4. TabAgrees(t)'
      BY <2>1, <2>2, <2>3, <3>1, <3>2 DEF TabAgrees, resolveTheme
    <3>5. QED
      BY <2>1, <3>1, <3>2, <3>3, <3>4, Untouched DEF ThemeInv
  <2>4. CASE tab[t].listener = "system"
    <3>1. applyTheme(t, "system", tab[t]) /\ "system" \in Modes
      BY <2>1, <2>4 DEF handleChange, Modes
    <3>2. /\ storedMode' = "system" /\ tab' \in [Tabs -> TabRow]
          /\ \A u \in Tabs \ {t} : tab'[u] = tab[u]
          /\ tab'[t].phase = tab[t].phase /\ tab'[t].listener = tab[t].listener
      BY <2>2, <3>1, Applies DEF ThemeInv
    <3>3. ThemeTypeOK'
      BY <2>1, <3>1, <3>2 DEF ThemeInv, ThemeTypeOK, TabRow, Phases
    <3>4. TabAgrees(t)'
      <4>1. CASE tab[t].phase \in {"mounted", "ready"}
        <5>1. tab[t].themeMode = "system" \/ t \in crossed'
          BY <2>1, <2>2, <2>4, <4>1 DEF TabAgrees
        <5>2. tab[t].phase = "ready" => tab[t].listener = tab[t].themeMode \/ t \in crossed'
          BY <2>1, <2>2 DEF TabAgrees
        <5>3. QED
          BY <2>1, <2>2, <2>4, <3>1, <4>1, <5>1, <5>2, AppliedAgrees
      <4>2. CASE tab[t].phase \notin {"mounted", "ready"}
        BY <2>4, <3>2, <4>2 DEF TabAgrees
      <4>3. QED
        BY <4>1, <4>2
    <3>5. ASSUME NEW u \in Tabs \ {t} PROVE TabAgrees(u)'
      BY <2>1, <3>2, Untouched
    <3>6. QED
      BY <3>3, <3>4, <3>5 DEF ThemeInv
  <2>5. QED
    BY <2>3, <2>4
<1>8. ASSUME NEW t \in Tabs, ThemeToggle(t) PROVE ThemeInv'
  <2>1. PICK i \in DOMAIN themeModes : setThemeMode(t, themeModes[(i % Len(themeModes)) + 1])
    BY <1>8 DEF ThemeToggle
  <2> DEFINE mode == themeModes[(i % Len(themeModes)) + 1]
             other == [tab[t] EXCEPT !.themeMode = mode, !.listener = mode]
  <2>2. mode \in Modes
    BY NextMode
  <2>3. applyTheme(t, mode, other)
    BY <2>1 DEF setThemeMode
  <2> HIDE DEF mode
  <2>4. tab[t].phase = "ready" /\ tab[t] \in TabRow
    BY <1>8 DEF ThemeToggle, ThemeInv, ThemeTypeOK, TabRow, Phases
  <2>5. /\ other \in TabRow /\ other.phase = "ready" /\ other.themeMode = mode
        /\ other.listener = mode
    BY <2>2, <2>4 DEF TabRow
  <2> HIDE DEF other
  <2>6. toggles' = toggles + 1 /\ toggles < MaxToggles /\ UNCHANGED <<prefersDark, unheard, crossed, flips>>
    BY <1>8 DEF ThemeToggle
  <2>7. storedMode' = mode /\ tab' \in [Tabs -> TabRow] /\ \A u \in Tabs \ {t} : tab'[u] = tab[u]
    BY <2>2, <2>3, <2>5, Applies DEF ThemeInv
  <2>8. ThemeTypeOK'
    BY <2>2, <2>6, <2>7 DEF ThemeInv, ThemeTypeOK, TabRow, Phases, ThemeAssumption
  <2>9. TabAgrees(t)'
    BY <2>2, <2>3, <2>5, <2>6, AppliedAgrees
  <2>10. QED
    BY <2>6, <2>7, <2>8, <2>9, Untouched DEF ThemeInv
<1>9. QED
  BY <1>1, <1>2, <1>3, <1>4, <1>5, <1>6, <1>7, <1>8 DEF ThemeNext

\* Buttons and document of any number of tabs agree on the theme, and it is the one their mode
\* means, whatever other tabs choose and however often the preference changes
\* (theme-provider.tsx:64-85).
THEOREM ThemeAlwaysAgrees == ASSUME ThemeAssumption PROVE ThemeSpec => []ThemeAgrees
<1>1. ThemeInv => ThemeAgrees
  BY DEF ThemeInv, TabAgrees, ThemeAgrees
<1>2. QED
  BY InitTheme, NextTheme, <1>1, PTL DEF ThemeSpec

-----------------------------------------------------------------------------
(* The notifications.  Every alert the map knows has a key of its own and, if any, a timer of *)
(* its own; so what is cleared, changed or removed is never another one's.                    *)

Entry == [alert : Nat, timer : Nat \union {NoTimer}, isPaused : BOOLEAN,
          remaining : Remaining \union {"none"}]
Timer == [timer : Nat, key : AlertKeys, alert : Nat]

NotifTyped ==
  /\ shows \in Nat /\ nextTimer \in Nat
  /\ DOMAIN alertMap \subseteq AlertKeys /\ alertMap \in [DOMAIN alertMap -> Entry]
  /\ DOMAIN alertKey \subseteq 1 .. shows /\ alertKey \in [DOMAIN alertKey -> AlertKeys]
  /\ running \subseteq Timer
  /\ onScreen \subseteq DOMAIN alertKey /\ over \in onScreen \union {0}

\* An alert on the screen is the one its key has.
Shown(a) == alertKey[a] \in DOMAIN alertMap /\ alertMap[alertKey[a]].alert = a

\* A timer that runs is the one its key has.
Runs(r) ==
  /\ r.key \in DOMAIN alertMap
  /\ alertMap[r.key].alert = r.alert /\ alertMap[r.key].timer = r.timer
  /\ r.timer < nextTimer

\* An entry of the map is of an alert of that key, whose timer, with a number given before,
\* runs, unless the mouse has stopped it or there is none.
Kept(k) ==
  LET e == alertMap[k]
  IN  /\ e.alert \in DOMAIN alertKey /\ alertKey[e.alert] = k
      /\ e.timer < nextTimer
      /\ e.isPaused => over = e.alert /\ ~\E r \in running : r.key = k
      /\ ~e.isPaused => \/ \E r \in running : r.key = k
                        \/ e.timer = NoTimer /\ e.remaining = "none"

\* No two keys have one timer.
OwnTimers ==
  \A k, l \in DOMAIN alertMap :
    alertMap[k].timer = alertMap[l].timer /\ alertMap[k].timer # NoTimer => k = l

NotifInv ==
  /\ NotifTyped /\ OwnTimers
  /\ \A a \in onScreen : Shown(a)
  /\ \A r \in running : Runs(r)
  /\ \A k \in DOMAIN alertMap : Kept(k)

\* The timers that are not an entry's are those of other keys: to clear one clears no other.
LEMMA ClearsItsOwn ==
  ASSUME NotifInv, NEW key \in DOMAIN alertMap
  PROVE  OtherTimers(alertMap[key].timer) = {r \in running : r.key # key}
<1>1. ASSUME NEW r \in running PROVE r.timer = alertMap[key].timer <=> r.key = key
  <2>1. /\ r.key \in DOMAIN alertMap /\ alertMap[r.key].timer = r.timer
        /\ r.timer \in Nat /\ r.timer # NoTimer
    BY DEF NotifInv, Runs, NotifTyped, Timer, NoTimer
  <2>2. QED
    BY <2>1 DEF NotifInv, OwnTimers
<1>2. QED
  BY <1>1 DEF OtherTimers

LEMMA ClearsNone ==
  ASSUME NotifInv PROVE OtherTimers(NoTimer) = running
BY DEF OtherTimers, NotifInv, NotifTyped, Timer, NoTimer

LEMMA InitNotif == NotificationsInit => NotifInv
<1> SUFFICES ASSUME NotificationsInit PROVE NotifInv
  OBVIOUS
<1>1. DOMAIN Empty = {}
  BY DEF Empty
<1>2. /\ alertMap \in [DOMAIN alertMap -> Entry] /\ alertKey \in [DOMAIN alertKey -> AlertKeys]
      /\ DOMAIN alertMap = {} /\ DOMAIN alertKey = {}
  BY <1>1 DEF NotificationsInit, Empty
<1>3. QED
  BY <1>2 DEF NotificationsInit, NotifInv, NotifTyped, OwnTimers

-----------------------------------------------------------------------------
\* setTimer, for a new key or with the timer of its key: the entry is of the alert given, and
\* the timer, if there is one, its own.
LEMMA SetsTimer ==
  ASSUME NotifInv, NEW key \in AlertKeys, NEW alert \in Nat, NEW old, NEW lasts \in BOOLEAN,
         setTimer(key, alert, old, lasts),
         OtherTimers(old) = {r \in running : r.key # key},
         shows' \in Nat, DOMAIN alertKey' \subseteq 1 .. shows',
         alertKey' \in [DOMAIN alertKey' -> AlertKeys],
         DOMAIN alertKey \subseteq DOMAIN alertKey',
         \A a \in DOMAIN alertKey : alertKey'[a] = alertKey[a],
         alert \in DOMAIN alertKey', alertKey'[alert] = key,
         onScreen \subseteq onScreen', onScreen' \subseteq onScreen \union {alert},
         \A a \in onScreen : alertKey[a] = key => a = alert,
         over' = over
  PROVE  NotifInv'
<1> DEFINE timer == IF lasts THEN NoTimer ELSE nextTimer
           e == [alert |-> alert, timer |-> timer, isPaused |-> FALSE,
                 remaining |-> IF lasts THEN "none" ELSE "whole"]
           others == {r \in running : r.key # key}
<1>1. e \in Entry
  BY DEF Entry, Remaining, NotifInv, NotifTyped, NoTimer
<1>2. /\ alertMap' = With(alertMap, key, e)
      /\ running' = others \union (IF lasts THEN {} ELSE {[timer |-> timer, key |-> key, alert |-> alert]})
      /\ nextTimer' = IF lasts THEN nextTimer ELSE nextTimer + 1
  BY DEF setTimer
<1>3. /\ e.alert = alert /\ e.timer = timer /\ e.isPaused = FALSE
      /\ e.remaining = IF lasts THEN "none" ELSE "whole"
  OBVIOUS
<1>4. /\ timer < nextTimer' /\ nextTimer \in Nat /\ nextTimer' \in Nat /\ nextTimer <= nextTimer'
      /\ ~lasts => timer = nextTimer
      /\ lasts => timer = NoTimer
  BY <1>2 DEF NotifInv, NotifTyped, NoTimer
<1>5. running' = others \union (IF lasts THEN {} ELSE {[timer |-> timer, key |-> key, alert |-> alert]})
  BY <1>2
<1> HIDE DEF e, timer
<1>6. /\ alertMap' \in [DOMAIN alertMap' -> Entry] /\ DOMAIN alertMap' = DOMAIN alertMap \union {key}
      /\ alertMap'[key] = e /\ \A x \in DOMAIN alertMap \ {key} : alertMap'[x] = alertMap[x]
  <2> DEFINE new == With(alertMap, key, e)
  <2>1. alertMap \in [DOMAIN alertMap -> Entry]
    BY DEF NotifInv, NotifTyped
  <2>2. /\ new \in [DOMAIN new -> Entry] /\ DOMAIN new = DOMAIN alertMap \union {key}
        /\ new[key] = e /\ \A x \in DOMAIN alertMap \ {key} : new[x] = alertMap[x]
    BY <1>1, <2>1 DEF With
  <2>3. alertMap' = new
    BY <1>2
  <2> HIDE DEF new
  <2>4. QED
    BY <2>2, <2>3
<1>7. NotifTyped'
  <2>1. running' \subseteq Timer
    BY <1>4, <1>5 DEF NotifInv, NotifTyped, Timer
  <2>2. QED
    BY <1>4, <1>6, <2>1 DEF NotifInv, NotifTyped
<1>8. OwnTimers'
  <2>1. ASSUME NEW k \in DOMAIN alertMap PROVE alertMap[k].timer < nextTimer
    BY DEF NotifInv, Kept
  <2>2. ASSUME NEW k \in DOMAIN alertMap \ {key}, timer # NoTimer PROVE alertMap'[k].timer # timer
    BY <1>4, <1>6, <2>1, <2>2 DEF NotifInv, NotifTyped, Entry, NoTimer
  <2>3. ASSUME NEW k \in DOMAIN alertMap', NEW l \in DOMAIN alertMap',
               alertMap'[k].timer = alertMap'[l].timer, alertMap'[k].timer # NoTimer
        PROVE  k = l
    <3>1. CASE k = key \/ l = key
      BY <1>3, <1>6, <2>2, <2>3, <3>1
    <3>2. CASE k # key /\ l # key
      BY <1>6, <2>3, <3>2 DEF NotifInv, OwnTimers
    <3>3. QED
      BY <3>1, <3>2
  <2>4. QED
    BY <2>3 DEF OwnTimers
<1>9. ASSUME NEW a \in onScreen' PROVE Shown(a)'
  <2>1. CASE a = alert
    BY <1>3, <1>6, <2>1 DEF Shown
  <2>2. CASE a # alert
    <3>1. /\ a \in onScreen /\ a \in DOMAIN alertKey /\ alertKey[a] # key
          /\ alertKey'[a] = alertKey[a] /\ Shown(a)
      BY <2>2 DEF NotifInv, NotifTyped
    <3>2. QED
      BY <1>6, <3>1 DEF Shown
  <2>3. QED
    BY <2>1, <2>2
<1>10. ASSUME NEW r \in running' PROVE Runs(r)'
  <2>1. CASE r \in others
    <3>1. r \in running /\ r.key # key /\ Runs(r) /\ r.timer \in Nat
      BY <2>1 DEF NotifInv, NotifTyped, Timer
    <3>2. QED
      BY <1>4, <1>6, <3>1 DEF Runs
  <2>2. CASE r = [timer |-> timer, key |-> key, alert |-> alert]
    BY <1>3, <1>4, <1>6, <2>2 DEF Runs
  <2>3. QED
    BY <1>5, <2>1, <2>2
<1>11. ASSUME NEW k \in DOMAIN alertMap' PROVE Kept(k)'
  <2>1. CASE k = key
    <3>1. lasts \/ \E r \in running' : r.key = key
      <4>1. [timer |-> timer, key |-> key, alert |-> alert].key = key
        OBVIOUS
      <4>2. QED
        BY <1>5, <4>1
    <3>2. QED
      BY <1>3, <1>4, <1>6, <2>1, <3>1 DEF Kept
  <2>2. CASE k # key
    <3>1. k \in DOMAIN alertMap /\ Kept(k) /\ alertMap'[k] = alertMap[k]
      BY <1>6, <2>2 DEF NotifInv
    <3>2. (\E r \in running' : r.key = k) <=> (\E r \in running : r.key = k)
      BY <1>5, <2>2
    <3>3. alertMap[k].timer < nextTimer'
      BY <1>4, <3>1 DEF Kept, NotifInv, NotifTyped, Entry, NoTimer
    <3>4. QED
      BY <3>1, <3>2, <3>3 DEF Kept
  <2>3. QED
    BY <2>1, <2>2
<1>12. QED
  BY <1>7, <1>8, <1>9, <1>10, <1>11 DEF NotifInv

\* showNotification, for a key on the map or a new one.
LEMMA Shows ==
  ASSUME NotifInv, NEW key \in AlertKeys, NEW lasts \in BOOLEAN, showNotification(key, lasts)
  PROVE  NotifInv'
<1>1. shows' = shows + 1 /\ shows' \in Nat /\ shows + 1 \in Nat /\ over' = over
  BY DEF showNotification, NotifInv, NotifTyped
<1>2. CASE ShowAgain(key, lasts)
  <2>1. /\ key \in DOMAIN alertMap /\ UNCHANGED <<onScreen, alertKey>>
        /\ setTimer(key, alertMap[key].alert, alertMap[key].timer, lasts)
    BY <1>2 DEF ShowAgain
  <2>2. /\ alertMap[key].alert \in Nat /\ alertMap[key].alert \in DOMAIN alertKey
        /\ alertKey[alertMap[key].alert] = key
    BY <2>1 DEF NotifInv, NotifTyped, Kept, Entry
  <2>3. OtherTimers(alertMap[key].timer) = {r \in running : r.key # key}
    BY <2>1, ClearsItsOwn
  <2>4. \A a \in onScreen : alertKey[a] = key => a = alertMap[key].alert
    BY DEF NotifInv, Shown
  <2>5. DOMAIN alertKey' \subseteq 1 .. shows' /\ alertKey' \in [DOMAIN alertKey' -> AlertKeys]
    BY <1>1, <2>1 DEF NotifInv, NotifTyped
  <2>6. QED
    BY <1>1, <2>1, <2>2, <2>3, <2>4, <2>5, SetsTimer
<1>3. CASE ShowNew(key, lasts)
  <2>1. /\ key \notin DOMAIN alertMap /\ alertKey' = With(alertKey, shows + 1, key)
        /\ onScreen' = IF hasToast THEN onScreen \union {shows + 1} ELSE onScreen
        /\ setTimer(key, shows + 1, NoTimer, lasts)
    BY <1>3 DEF ShowNew
  <2>2. shows + 1 \notin DOMAIN alertKey
    BY DEF NotifInv, NotifTyped
  <2>3. /\ DOMAIN alertKey' = DOMAIN alertKey \union {shows + 1}
        /\ alertKey' \in [DOMAIN alertKey' -> AlertKeys] /\ alertKey'[shows + 1] = key
        /\ \A a \in DOMAIN alertKey : alertKey'[a] = alertKey[a]
    BY <2>1, <2>2 DEF With, NotifInv, NotifTyped
  <2>4. DOMAIN alertKey' \subseteq 1 .. shows'
    BY <1>1, <2>3 DEF NotifInv, NotifTyped
  <2>5. OtherTimers(NoTimer) = {r \in running : r.key # key}
    <3>1. \A r \in running : r.key # key
      BY <2>1 DEF NotifInv, Runs
    <3>2. QED
      BY <3>1, ClearsNone
  <2>6. \A a \in onScreen : alertKey[a] # key
    BY <2>1 DEF NotifInv, Shown
  <2>7. onScreen \subseteq onScreen' /\ onScreen' \subseteq onScreen \union {shows + 1}
    BY <2>1
  <2>8. QED
    BY <1>1, <2>1, <2>3, <2>4, <2>5, <2>6, <2>7, SetsTimer
<1>4. QED
  BY <1>2, <1>3 DEF showNotification

-----------------------------------------------------------------------------
\* A key leaves the map, with its timer and its alert.
LEMMA Removes ==
  ASSUME NotifInv, NEW key \in DOMAIN alertMap, alertMap' = Less(alertMap, key),
         running' = {r \in running : r.key # key}, RemoveAlert(alertMap[key].alert),
         UNCHANGED <<alertKey, nextTimer, shows>>
  PROVE  NotifInv'
<1> DEFINE alert == alertMap[key].alert
<1>1. onScreen' = onScreen \ {alert} /\ over' = IF over = alert THEN 0 ELSE over
  BY DEF RemoveAlert
<1>2. alert \in DOMAIN alertKey /\ alertKey[alert] = key
  BY DEF NotifInv, Kept
<1>3. /\ alertMap' \in [DOMAIN alertMap' -> Entry] /\ DOMAIN alertMap' = DOMAIN alertMap \ {key}
      /\ \A x \in DOMAIN alertMap \ {key} : alertMap'[x] = alertMap[x]
  BY DEF Less, NotifInv, NotifTyped
<1>4. NotifTyped' /\ OwnTimers'
  BY <1>1, <1>3 DEF NotifInv, NotifTyped, OwnTimers
<1>5. ASSUME NEW a \in onScreen' PROVE Shown(a)'
  BY <1>1, <1>3 DEF NotifInv, Shown
<1>6. ASSUME NEW r \in running' PROVE Runs(r)'
  BY <1>3 DEF NotifInv, Runs
<1>7. ASSUME NEW k \in DOMAIN alertMap' PROVE Kept(k)'
  <2>1. k \in DOMAIN alertMap /\ k # key /\ Kept(k) /\ alertMap'[k] = alertMap[k]
    BY <1>3 DEF NotifInv
  <2>2. alertMap[k].alert # alert
    BY <1>2, <2>1 DEF Kept
  <2>3. (\E r \in running' : r.key = k) <=> (\E r \in running : r.key = k)
    BY <2>1
  <2>4. over = alertMap[k].alert => over' = alertMap[k].alert
    BY <1>1, <2>2
  <2>5. QED
    BY <2>1, <2>3, <2>4 DEF Kept
<1>8. QED
  BY <1>4, <1>5, <1>6, <1>7 DEF NotifInv

\* A timer ends: it was the only one of its key, and its alert the key's.
LEMMA AlertEnds == ASSUME NotifInv, TimerEnds PROVE NotifInv'
<1>1. PICK r \in running : /\ running' = running \ {r} /\ alertMap' = Less(alertMap, r.key)
                          /\ RemoveAlert(r.alert)
  BY DEF TimerEnds
<1>2. r.key \in DOMAIN alertMap /\ alertMap[r.key].alert = r.alert
  BY DEF NotifInv, Runs
<1>3. ASSUME NEW q \in running, q.key = r.key PROVE q = r
  <2>1. q.timer = r.timer /\ q.alert = r.alert /\ q \in Timer /\ r \in Timer
    BY <1>3 DEF NotifInv, Runs, NotifTyped
  <2>2. QED
    BY <1>3, <2>1 DEF Timer
<1>4. running' = {q \in running : q.key # r.key}
  BY <1>1, <1>3
<1>5. QED
  BY <1>1, <1>2, <1>4, Removes DEF TimerEnds

\* What is under the mouse is on the screen, so its key knows it.
LEMMA UnderTheMouse ==
  ASSUME NotifInv, over # 0
  PROVE  /\ alertKey[over] \in DOMAIN alertMap /\ alertMap[alertKey[over]].alert = over
         /\ over \in onScreen
BY DEF NotifInv, NotifTyped, Shown

LEMMA AlertCloses == ASSUME NotifInv, closeAlert PROVE NotifInv'
<1> DEFINE key == alertKey[over]
<1>1. over # 0 /\ key \in DOMAIN alertMap /\ alertMap[key].alert = over
  BY UnderTheMouse DEF closeAlert
<1>2. /\ running' = OtherTimers(alertMap[key].timer) /\ alertMap' = Less(alertMap, key)
      /\ RemoveAlert(over) /\ UNCHANGED <<alertKey, nextTimer, shows>>
  BY <1>1 DEF closeAlert
<1>3. running' = {r \in running : r.key # key}
  BY <1>1, <1>2, ClearsItsOwn
<1> HIDE DEF key
<1>4. QED
  BY <1>1, <1>2, <1>3, Removes

-----------------------------------------------------------------------------
\* The mouse stops a timer: the only entry without one that is not meant to last is now that
\* of the alert it is over.
LEMMA Pauses == ASSUME NotifInv, pauseTimer PROVE NotifInv'
<1>1. PICK alert \in onScreen :
        LET key == alertKey[alert]
        IN  /\ over' = alert
            /\ IF key \in DOMAIN alertMap /\ ~alertMap[key].isPaused
               THEN /\ running' = OtherTimers(alertMap[key].timer)
                    /\ alertMap' = [alertMap EXCEPT
                         ![key].isPaused = TRUE,
                         ![key].remaining = IF @ \in {"none", "negative"} THEN "negative"
                                            ELSE "part"]
               ELSE UNCHANGED <<running, alertMap>>
  BY DEF pauseTimer
<1> DEFINE key == alertKey[alert]
           rest == IF alertMap[key].remaining \in {"none", "negative"} THEN "negative" ELSE "part"
           e == [alertMap[key] EXCEPT !.isPaused = TRUE, !.remaining = rest]
<1>2. over = 0 /\ UNCHANGED <<hasToast, onScreen, alertKey, nextTimer, shows>>
  BY DEF pauseTimer
<1>3. key \in DOMAIN alertMap /\ alertMap[key].alert = alert /\ alert \in DOMAIN alertKey /\ alert # 0
  BY DEF NotifInv, NotifTyped, Shown
<1>4. \A k \in DOMAIN alertMap : ~alertMap[k].isPaused
  <2> SUFFICES ASSUME NEW k \in DOMAIN alertMap, alertMap[k].isPaused PROVE FALSE
    BY DEF NotifInv, NotifTyped, Entry
  <2>1. over = alertMap[k].alert /\ alertMap[k].alert \in DOMAIN alertKey
    BY DEF NotifInv, Kept
  <2>2. QED
    BY <1>2, <2>1 DEF NotifInv, NotifTyped
<1>5. /\ over' = alert /\ running' = OtherTimers(alertMap[key].timer)
      /\ alertMap' = [alertMap EXCEPT ![key] = e]
  BY <1>1, <1>3, <1>4 DEF NotifInv, NotifTyped
<1>6. running' = {r \in running : r.key # key}
  BY <1>3, <1>5, ClearsItsOwn
<1>7. /\ e \in Entry /\ e.isPaused = TRUE /\ e.alert = alert
      /\ e.timer = alertMap[key].timer
  <2>1. alertMap[key] \in Entry
    BY <1>3 DEF NotifInv, NotifTyped
  <2>2. rest \in Remaining \union {"none"}
    BY DEF Remaining
  <2> HIDE DEF rest, key
  <2> QED
    BY <1>3, <2>1, <2>2 DEF Entry
<1> HIDE DEF e, rest, key
<1>8. /\ alertMap' \in [DOMAIN alertMap' -> Entry] /\ DOMAIN alertMap' = DOMAIN alertMap
      /\ alertMap'[key] = e /\ \A k \in DOMAIN alertMap \ {key} : alertMap'[k] = alertMap[k]
  BY <1>3, <1>5, <1>7 DEF NotifInv, NotifTyped
<1>9. \A k \in DOMAIN alertMap : /\ alertMap'[k].timer = alertMap[k].timer
                                /\ alertMap'[k].alert = alertMap[k].alert
  BY <1>3, <1>7, <1>8
<1>10. NotifTyped' /\ OwnTimers'
  BY <1>2, <1>5, <1>6, <1>8, <1>9 DEF NotifInv, NotifTyped, OwnTimers
<1>11. ASSUME NEW a \in onScreen' PROVE Shown(a)'
  BY <1>2, <1>8, <1>9 DEF NotifInv, Shown
<1>12. ASSUME NEW r \in running' PROVE Runs(r)'
  BY <1>2, <1>6, <1>8, <1>9 DEF NotifInv, Runs
<1>13. ASSUME NEW k \in DOMAIN alertMap' PROVE Kept(k)'
  <2>1. CASE k = key
    BY <1>2, <1>3, <1>5, <1>6, <1>7, <1>8, <2>1 DEF NotifInv, Kept
  <2>2. CASE k # key
    <3>1. k \in DOMAIN alertMap /\ Kept(k) /\ ~alertMap[k].isPaused /\ alertMap'[k] = alertMap[k]
      BY <1>4, <1>8, <2>2 DEF NotifInv
    <3>2. (\E r \in running' : r.key = k) <=> (\E r \in running : r.key = k)
      BY <1>6, <2>2
    <3>3. QED
      BY <1>2, <3>1, <3>2 DEF Kept
  <2>3. QED
    BY <2>1, <2>2
<1>14. QED
  BY <1>10, <1>11, <1>12, <1>13 DEF NotifInv

\* It leaves: a timer starts again, unless a call has started one in between.
LEMMA Resumes == ASSUME NotifInv, resumeTimer PROVE NotifInv'
<1> DEFINE key == alertKey[over]
           e == [alertMap[key] EXCEPT !.isPaused = FALSE, !.timer = nextTimer]
           new == [timer |-> nextTimer, key |-> key, alert |-> alertMap[key].alert]
<1>1. /\ over # 0 /\ over' = 0 /\ key \in DOMAIN alertMap /\ alertMap[key].alert = over
      /\ Kept(key) /\ UNCHANGED <<hasToast, onScreen, alertKey, shows>>
  BY UnderTheMouse DEF resumeTimer, NotifInv
<1>2. \A k \in DOMAIN alertMap \ {key} : ~alertMap[k].isPaused
  <2> SUFFICES ASSUME NEW k \in DOMAIN alertMap \ {key}, alertMap[k].isPaused PROVE FALSE
    BY DEF NotifInv, NotifTyped, Entry
  <2>1. over = alertMap[k].alert /\ alertKey[alertMap[k].alert] = k
    BY DEF NotifInv, Kept
  <2>2. QED
    BY <2>1
<1>3. CASE ~alertMap[key].isPaused
  <2>1. UNCHANGED <<alertMap, running, nextTimer>>
    BY <1>1, <1>3 DEF resumeTimer
  <2>2. ASSUME NEW k \in DOMAIN alertMap PROVE Kept(k)'
    BY <1>1, <1>2, <1>3, <2>1 DEF NotifInv, Kept
  <2>3. QED
    BY <1>1, <2>1, <2>2 DEF NotifInv, NotifTyped, OwnTimers, Shown, Runs
<1>4. CASE alertMap[key].isPaused
  <2>1. /\ alertMap' = [alertMap EXCEPT ![key] = e] /\ running' = running \union {new}
        /\ nextTimer' = nextTimer + 1
    BY <1>1, <1>4 DEF resumeTimer, NotifInv, NotifTyped
  <2>2. /\ e \in Entry /\ e.isPaused = FALSE /\ e.alert = over /\ e.timer = nextTimer
    <3>1. /\ alertMap[key] \in Entry /\ over \in Nat /\ nextTimer \in Nat
          /\ alertMap[key].alert = over
      BY <1>1 DEF NotifInv, NotifTyped
    <3> HIDE DEF key
    <3> QED
      BY <3>1 DEF Entry
  <2>3. new \in Timer /\ new.timer = nextTimer /\ new.key = key /\ new.alert = over
    BY <1>1 DEF NotifInv, NotifTyped, Entry, Timer
  <2> HIDE DEF e, new
  <2>4. nextTimer \in Nat /\ nextTimer' \in Nat /\ nextTimer < nextTimer' /\ nextTimer # NoTimer
    BY <2>1 DEF NotifInv, NotifTyped, NoTimer
  <2>5. /\ alertMap' \in [DOMAIN alertMap' -> Entry] /\ DOMAIN alertMap' = DOMAIN alertMap
        /\ alertMap'[key] = e /\ \A k \in DOMAIN alertMap \ {key} : alertMap'[k] = alertMap[k]
    BY <1>1, <2>1, <2>2 DEF NotifInv, NotifTyped
  <2>6. \A r \in running : r.key # key
    BY <1>1, <1>4 DEF Kept
  <2>7. \A k \in DOMAIN alertMap : /\ alertMap'[k].alert = alertMap[k].alert
                                  /\ alertMap[k].timer < nextTimer
                                  /\ alertMap[k].timer \in Nat \union {NoTimer}
    BY <1>1, <2>2, <2>5 DEF NotifInv, NotifTyped, Kept, Entry
  <2>8. NotifTyped'
    BY <1>1, <2>1, <2>3, <2>4, <2>5 DEF NotifInv, NotifTyped
  <2>9. OwnTimers'
    <3>1. \A k \in DOMAIN alertMap \ {key} : alertMap'[k].timer # nextTimer
      BY <2>4, <2>5, <2>7 DEF NoTimer
    <3>2. QED
      BY <2>2, <2>5, <3>1 DEF NotifInv, OwnTimers
  <2>10. ASSUME NEW a \in onScreen' PROVE Shown(a)'
    BY <1>1, <2>5, <2>7 DEF NotifInv, Shown
  <2>11. ASSUME NEW r \in running' PROVE Runs(r)'
    <3>1. CASE r = new
      BY <1>1, <2>2, <2>3, <2>4, <2>5, <3>1 DEF Runs
    <3>2. CASE r \in running
      <4>1. Runs(r) /\ r.key # key /\ r.timer \in Nat
        BY <2>6, <3>2 DEF NotifInv, NotifTyped, Timer
      <4>2. QED
        BY <2>4, <2>5, <4>1 DEF Runs
    <3>3. QED
      BY <2>1, <3>1, <3>2
  <2>12. ASSUME NEW k \in DOMAIN alertMap' PROVE Kept(k)'
    <3>1. CASE k = key
      BY <1>1, <2>1, <2>2, <2>3, <2>4, <2>5, <3>1 DEF Kept
    <3>2. CASE k # key
      <4>1. /\ k \in DOMAIN alertMap /\ Kept(k) /\ ~alertMap[k].isPaused
            /\ alertMap'[k] = alertMap[k]
        BY <1>2, <2>5, <3>2 DEF NotifInv
      <4>2. alertMap[k].timer < nextTimer'
        BY <2>4, <2>7, <4>1 DEF NoTimer
      <4>3. (\E r \in running : r.key = k) => \E r \in running' : r.key = k
        BY <2>1
      <4>4. QED
        BY <1>1, <4>1, <4>2, <4>3 DEF Kept
    <3>3. QED
      BY <3>1, <3>2
  <2>13. QED
    BY <2>8, <2>9, <2>10, <2>11, <2>12 DEF NotifInv
<1>5. QED
  BY <1>3, <1>4

LEMMA NextNotif == NotifInv /\ [NotificationsNext]_notifVars => NotifInv'
<1> SUFFICES ASSUME NotifInv, [NotificationsNext]_notifVars PROVE NotifInv'
  OBVIOUS
<1>1. CASE initNotification \/ UNCHANGED notifVars
  <2>1. UNCHANGED <<alertMap, onScreen, alertKey, running, over, nextTimer, shows>>
    BY <1>1 DEF initNotification, notifVars
  <2>2. QED
    BY <2>1 DEF NotifInv, NotifTyped, OwnTimers, Shown, Runs, Kept
<1>2. QED
  BY <1>1, Shows, AlertEnds, Pauses, Resumes, AlertCloses DEF NotificationsNext

\* Every alert on the screen is the one its key stands for, a timer that runs is the one of
\* its key, and an alert stays for good only without a timeout or under the mouse, for any
\* keys, calls and moves of the mouse (notification.ts:22-88, 146-161).
THEOREM AlertsAlwaysTimed == NotificationsSpec => []AlertsTimed
<1>1. NotifInv => AlertsTimed
  BY DEF NotifInv, Shown, Runs, Kept, AlertsTimed, NotifTyped, Entry
<1>2. QED
  BY InitNotif, NextNotif, <1>1, PTL DEF NotificationsSpec

-----------------------------------------------------------------------------
\* The table of connections.  A press that is held, began with no timer under way and never
\* left the table has met no timer since: if it dragged, the flag is still there.
TableInv ==
  /\ resets \in Nat
  /\ isMouseDown => Pressed /\ inside
  /\ Pressed /\ ~ press.early /\ ~ press.left =>
       resets = 0 /\ (press.dragged => isDragging)
  /\ DOMAIN press = {"on", "moved", "dragged", "early", "left"}

LEMMA Unpressed ==
  /\ Released.on.kind = "nothing" /\ DOMAIN Released = {"on", "moved", "dragged", "early", "left"}
  /\ Released.dragged = FALSE /\ Released.left = FALSE
  BY DEF Released, Target

LEMMA InitTable == ConnectionTableInit => TableInv
  BY Unpressed DEF ConnectionTableInit, TableInv, Pressed

LEMMA TableSteps == ASSUME TableInv, [ConnectionTableNext]_tableAll PROVE TableInv'
<1>1. ASSUME NEW t \in Targets, handleMouseDown(t) PROVE TableInv'
  <2>1. press' = [Released EXCEPT !.on = t, !.early = resets > 0] /\ isMouseDown' = TRUE
        /\ inside' = TRUE /\ resets' = resets
    BY <1>1 DEF handleMouseDown
  <2>2. /\ DOMAIN press' = {"on", "moved", "dragged", "early", "left"} /\ press'.on = t
        /\ press'.dragged = FALSE /\ press'.early = (resets > 0)
    BY <2>1, Unpressed
  <2>3. t.kind # "nothing"
    BY <1>1 DEF Targets, Target
  <2>4. CASE resets = 0
    BY <2>1, <2>2, <2>3, <2>4 DEF TableInv, Pressed
  <2>5. CASE resets # 0
    <3>1. (resets > 0) = TRUE
      BY <2>5 DEF TableInv
    <3>2. press'.early = TRUE
      BY <2>2, <3>1
    <3>3. QED
      BY <2>1, <2>2, <2>3, <3>2 DEF TableInv, Pressed
  <2>6. QED
    BY <2>4, <2>5
<1>2. CASE handleMouseMove
  BY <1>2 DEF TableInv, handleMouseMove, Pressed
<1>3. CASE Leave
  <2>1. /\ isMouseDown' = FALSE /\ resets' \in Nat
        /\ press' = [press EXCEPT !.left = Pressed]
    BY <1>3 DEF TableInv, Leave, handleMouseUp
  <2>2. /\ DOMAIN press' = {"on", "moved", "dragged", "early", "left"} /\ press'.on = press.on
        /\ press'.left = Pressed
    BY <2>1 DEF TableInv
  <2>3. QED
    BY <2>1, <2>2 DEF TableInv, Pressed
<1>4. CASE Enter
  BY <1>4 DEF TableInv, Enter, Pressed
<1>5. CASE Release
  <2>1. press' = Released /\ resets' \in Nat /\ isMouseDown' = FALSE
    BY <1>5 DEF TableInv, Release, handleMouseUp
  <2>2. QED
    BY <2>1, Unpressed DEF TableInv, Pressed
<1>6. CASE ReleaseOutside
  BY <1>6, Unpressed DEF TableInv, ReleaseOutside, Pressed
<1>7. CASE ResetDragging
  BY <1>7 DEF TableInv, ResetDragging, Pressed
<1>8. CASE Reloaded
  BY <1>8 DEF TableInv, Reloaded, Pressed
<1>9. CASE ShowClosed \/ CloseInfo \/ UNCHANGED tableAll
  BY <1>9 DEF TableInv, ShowClosed, CloseInfo, tableAll, mouseVars, Pressed
<1>10. CASE Reported
  BY <1>10 DEF TableInv, Reported, Pressed
<1>11. QED
  BY <1>1, <1>2, <1>3, <1>4, <1>5, <1>6, <1>7, <1>8, <1>9, <1>10 DEF ConnectionTableNext

LEMMA DragStep ==
  ASSUME TableInv, [ConnectionTableNext]_tableAll PROVE OpensOnlyByClick
<1>1. CASE Release
  <2>1. CASE isDragging
    <3>1. isDragging' BY <1>1, <2>1 DEF Release, handleMouseUp
    <3>2. ASSUME NEW t \in InPlace, Click(t) PROVE UNCHANGED <<info, expanded>>
      BY <3>1, <3>2 DEF Click, handlerClickRow, ClickButton, handlePinColumn, tableVars
    <3>3. QED
      BY <1>1, <3>2 DEF Release, OpensOnlyByClick, tableVars
  <2>2. CASE ~ isDragging
    BY <1>1, <2>2 DEF Release, TableInv, OpensOnlyByClick
  <2>3. QED
    BY <2>1, <2>2
<1>2. CASE CloseInfo \/ Reloaded
  BY <1>2 DEF CloseInfo, Reloaded, OpensOnlyByClick
<1>3. CASE ~ (Release \/ CloseInfo \/ Reloaded)
  <2>1. UNCHANGED tableVars
    BY <1>3 DEF ConnectionTableNext, handleMouseDown, handleMouseMove, Leave, Enter,
      ReleaseOutside, ResetDragging, Reported, ShowClosed, tableAll
  <2>2. QED
    BY <2>1 DEF tableVars, OpensOnlyByClick
<1>4. QED
  BY <1>1, <1>2, <1>3

\* Dragging the table opens no dialog and toggles no group, whatever is listed, grouped,
\* reported and pressed, and however many timers run (ConnectionTable.vue:594, 651-659), but
\* for presses that began within 100 ms of an earlier drag or left the table on their way.
THEOREM DragAlwaysOpensNothing == ConnectionTableSpec => DragOpensNothing
<1>1. ConnectionTableInit => TableInv
  BY InitTable
<1>2. TableInv /\ [ConnectionTableNext]_tableAll => TableInv'
  BY TableSteps
<1>3. TableInv /\ [ConnectionTableNext]_tableAll => OpensOnlyByClick
  BY DragStep
<1>4. QED
  BY <1>1, <1>2, <1>3, PTL DEF ConnectionTableSpec, DragOpensNothing

-----------------------------------------------------------------------------
(* The traffic history.  The database is as the cache once the transactions under way have    *)
(* ended; the cache counts what has closed, except for the saves that have not come to its    *)
(* type; and memory is as the cache for the types that are loaded.                            *)

SaveCall == [conns : (SUBSET Conns) \ {{}}, at : TypeSet, waits : BOOLEAN]

\* A list of counts for every type.
AreCounts(lists) ==
  /\ lists = [t \in TypeSet |-> lists[t]]
  /\ \A t \in TypeSet : lists[t] \in [KeysOf(t) -> Nat]

HistoryTyped ==
  /\ live \subseteq opened /\ opened \subseteq Conns /\ active \subseteq opened /\ previous = active
  /\ AreCounts(memory) /\ AreCounts(cache) /\ AreCounts(objectStore)
  /\ loading \in TypeSet \union {"done"}
  /\ saving \subseteq SaveCall /\ \A s \in saving : s.conns \subseteq opened
  /\ counted \in [TypeSet -> SUBSET opened] /\ excused \in BOOLEAN

\* What is saved or counted has closed for good, and no two saves have a connection in common.
ClosedOnce ==
  /\ \A s \in saving : s.conns \intersect (live \union previous) = {}
  /\ \A s, r \in saving : s # r => s.conns \intersect r.conns = {}
  /\ \A t \in TypeSet : counted[t] \intersect (live \union previous) = {}

\* A write is of a type, or clears for one of those who wait for that.
IsWrite(x, clears) ==
  /\ x.kind \in {"save", "load", "clear"}
  /\ x.kind # "clear" => x.of \in TypeSet /\ x.list \in [KeysOf(x.of) -> Nat]
  /\ x.kind = "clear" => x.of \in clears /\ x.list = NoRows

Waits(s, x) == s.waits /\ s.conns = x.conns /\ s.at = x.of

Unlike(x, y) ==
  x.kind = y.kind => /\ x.kind # "load"
                     /\ x.kind = "save" => x.conns # y.conns
                     /\ x.kind = "clear" => x.of # y.of

\* Every write has the call that waits for it, and a call has one write.
QueueSound(queue, calls, clears) ==
  /\ queue \in Seq(ToSet(queue))
  /\ \A i \in DOMAIN queue : /\ IsWrite(queue[i], clears)
                             /\ queue[i].kind = "save" => \E s \in calls : Waits(s, queue[i])
  /\ \A i, j \in DOMAIN queue : i # j => Unlike(queue[i], queue[j])

WritesAwaited ==
  /\ QueueSound(transactions, saving, clearing)
  /\ opening => /\ transactions = <<>> /\ loading = Types[1] /\ clearing = {}
                /\ \A s \in saving : s.at = Types[1] /\ ~s.waits
  /\ \A i \in DOMAIN transactions : transactions[i].kind = "load" => transactions[i].of = loading

Awaits(s, t) == Index(s.at) < Index(t) \/ (s.at = t /\ ~s.waits)
Pending(t) == UNION {s.conns : s \in {r \in saving : Awaits(r, t)}}
Merged(t) == counted[t] \ Pending(t)

Touches(x, t) == x.kind = "clear" \/ x.of = t
Leaves(x, t) == IF x.kind = "clear" THEN x.list[t] ELSE x.list

\* The writes in queue turn stored into list, for type t.
Settles(queue, stored, list, t) ==
  /\ \A i \in DOMAIN queue :
       Touches(queue[i], t) =>
         Leaves(queue[i], t) = list \/ \E j \in DOMAIN queue : j > i /\ Touches(queue[j], t)
  /\ (\A i \in DOMAIN queue : ~Touches(queue[i], t)) => stored = list

CountsExact ==
  /\ \A s \in saving, t \in TypeSet : Awaits(s, t) => s.conns \subseteq counted[t]
  /\ loading # "done" \/ clearing # {} => \A s \in saving : s.at = Types[1] /\ ~s.waits
  /\ \A t \in TypeSet :
       IF opening THEN objectStore[t] = aggregateConnections(Merged(t), t)
       ELSE /\ cache[t] = aggregateConnections(Merged(t), t)
            /\ Settles(transactions, objectStore[t], cache[t], t)
  /\ ~opening /\ clearing = {} =>
       /\ \A t \in TypeSet \ From(loading) : memory[t] = cache[t]
       /\ \A i \in DOMAIN transactions :
            transactions[i].kind = "load" => transactions[i].list = cache[transactions[i].of]

ConnectionsInv ==
  HistoryTyped /\ ClosedOnce /\ WritesAwaited /\ (excused \/ CountsExact)

-----------------------------------------------------------------------------
\* The types have places of their own.
LEMMA TypePlaces ==
  ASSUME ConnectionsAssumption
  PROVE  /\ Len(Types) \in Nat \ {0} /\ TypeSet = {Types[i] : i \in 1 .. Len(Types)}
         /\ "done" \notin TypeSet
         /\ \A t \in TypeSet : Index(t) \in 1 .. Len(Types) /\ Types[Index(t)] = t
         /\ \A i \in 1 .. Len(Types) : Types[i] \in TypeSet /\ Index(Types[i]) = i
<1>1. /\ Len(Types) \in Nat \ {0} /\ DOMAIN Types = 1 .. Len(Types)
      /\ \A a, b \in DOMAIN Types : Types[a] = Types[b] => a = b
  BY DEF ConnectionsAssumption, IsInjective
<1>2. TypeSet = {Types[i] : i \in 1 .. Len(Types)} /\ "done" \notin TypeSet
  BY <1>1 DEF TypeSet, ToSet, ConnectionsAssumption
<1>3. ASSUME NEW t \in TypeSet PROVE Index(t) \in 1 .. Len(Types) /\ Types[Index(t)] = t
  <2>1. \E i \in DOMAIN Types : Types[i] = t
    BY <1>1, <1>2
  <2>2. QED
    BY <1>1, <2>1 DEF Index
<1>4. QED
  BY <1>1, <1>2, <1>3

\* Types from one on, from the next on, from none on.
LEMMA FromTypes ==
  ASSUME ConnectionsAssumption
  PROVE  /\ Types[1] \in TypeSet /\ From(Types[1]) = TypeSet /\ From("done") = {}
         /\ \A t \in TypeSet : t \in From(t)
         /\ \A t \in TypeSet \union {"done"} : From(t) \subseteq TypeSet
         /\ \A t \in TypeSet, u \in TypeSet : u \in From(t) <=> Index(u) >= Index(t)
         /\ \A t \in TypeSet : /\ After(t) \in TypeSet \union {"done"}
                               /\ From(After(t)) = From(t) \ {t}
                               /\ After(t) \in TypeSet => Index(After(t)) = Index(t) + 1
                               /\ After(t) = "done" => Index(t) = Len(Types)
<1>1. /\ Types[1] \in TypeSet /\ Index(Types[1]) = 1
      /\ \A t \in TypeSet : Index(t) \in 1 .. Len(Types) /\ Types[Index(t)] = t /\ t # "done"
      /\ \A i \in 1 .. Len(Types) : Types[i] \in TypeSet /\ Index(Types[i]) = i
  BY TypePlaces
<1>2. \A t \in TypeSet, u \in TypeSet : u \in From(t) <=> Index(u) >= Index(t)
  BY <1>1 DEF From
<1>3. /\ From("done") = {} /\ From(Types[1]) = TypeSet
      /\ \A t \in TypeSet \union {"done"} : From(t) \subseteq TypeSet
  BY <1>1 DEF From
<1>4. ASSUME NEW t \in TypeSet
      PROVE  /\ After(t) \in TypeSet \union {"done"}
             /\ From(After(t)) = From(t) \ {t}
             /\ After(t) \in TypeSet => Index(After(t)) = Index(t) + 1
             /\ After(t) = "done" => Index(t) = Len(Types)
  <2>1. Last(Types) = Types[Len(Types)] /\ Len(Types) \in Nat \ {0}
    BY TypePlaces DEF Last
  <2>2. CASE t = Last(Types)
    <3>1. Index(t) = Len(Types) /\ After(t) = "done"
      BY <1>1, <2>1, <2>2 DEF After
    <3>2. \A u \in TypeSet : u \in From(t) => u = t
      BY <1>1, <1>2, <3>1
    <3>3. QED
      BY <1>1, <1>3, <3>1, <3>2
  <2>3. CASE t # Last(Types)
    <3>1. After(t) = Types[Index(t) + 1]
      BY <2>3 DEF After
    <3>2. Index(t) + 1 \in 1 .. Len(Types)
      BY <1>1, <2>1, <2>3
    <3>3. After(t) \in TypeSet /\ Index(After(t)) = Index(t) + 1
      BY <1>1, <3>1, <3>2
    <3>4. \A u \in TypeSet : Index(u) >= Index(t) + 1 <=> Index(u) >= Index(t) /\ u # t
      BY <1>1
    <3>5. QED
      BY <1>1, <1>2, <1>3, <3>3, <3>4
  <2>4. QED
    BY <2>2, <2>3
<1>5. QED
  BY <1>1, <1>2, <1>3, <1>4

\* Of some types one is the first.
LEMMA FirstType ==
  ASSUME ConnectionsAssumption, NEW some \in SUBSET TypeSet, some # {}
  PROVE  \E u \in some : some \subseteq From(u)
<1> DEFINE places == {Index(u) : u \in some}
           below == OpToRel(<, Nat)
<1>1. places \subseteq Nat /\ places # {} /\ \A u \in some : Index(u) \in Nat
  BY TypePlaces
<1>2. \A a, b \in Nat : a < b => <<a, b>> \in below
  BY DEF OpToRel
<1>3. IsWellFoundedOn(below, Nat)
  BY NatLessThanWellFounded
<1> HIDE DEF below
<1>4. PICK n \in places : \A m \in places : ~ (<<m, n>> \in below)
  <2> HIDE DEF places
  <2>1. QED
    BY <1>1, <1>3, WFMin
<1>5. PICK u \in some : Index(u) = n
  BY <1>4
<1>6. ASSUME NEW v \in some PROVE Index(v) >= Index(u)
  <2>1. Index(v) \in places /\ Index(v) \in Nat /\ n \in Nat
    BY <1>1
  <2>2. ~ (<<Index(v), n>> \in below)
    BY <1>4, <2>1
  <2>3. ~ (Index(v) < n)
    BY <1>2, <2>1, <2>2
  <2>4. QED
    BY <1>5, <2>1, <2>3
<1>7. QED
  BY <1>5, <1>6, FromTypes

\* Counting.
LEMMA CountsTyped ==
  ASSUME ConnectionsAssumption, NEW t \in TypeSet, NEW conns \in SUBSET Conns
  PROVE  /\ aggregateConnections(conns, t) \in [KeysOf(t) -> Nat]
         /\ \A k \in KeysOf(t) : IsFiniteSet({c \in conns : KeyOf[t][c] = k})
<1>1. IsFiniteSet(conns)
  BY FS_Subset DEF ConnectionsAssumption
<1>2. ASSUME NEW k \in KeysOf(t)
      PROVE  /\ IsFiniteSet({c \in conns : KeyOf[t][c] = k})
             /\ Cardinality({c \in conns : KeyOf[t][c] = k}) \in Nat
  <2>1. {c \in conns : KeyOf[t][c] = k} \in SUBSET conns
    OBVIOUS
  <2>2. QED
    BY <1>1, <2>1, FS_Subset, FS_CardinalityType
<1>3. QED
  BY <1>2 DEF aggregateConnections

\* What is counted apart is merged to what is counted together.
LEMMA CountsMerge ==
  ASSUME ConnectionsAssumption, NEW t \in TypeSet,
         NEW old \in SUBSET Conns, NEW new \in SUBSET Conns, old \intersect new = {}
  PROVE  mergeAggregatedData(aggregateConnections(old, t), aggregateConnections(new, t))
           = aggregateConnections(old \union new, t)
<1> DEFINE of(conns, k) == {c \in conns : KeyOf[t][c] = k}
<1>1. ASSUME NEW k \in KeysOf(t)
      PROVE  Cardinality(of(old \union new, k)) = Cardinality(of(old, k)) + Cardinality(of(new, k))
  <2>1. IsFiniteSet(of(old, k)) /\ IsFiniteSet(of(new, k))
    BY CountsTyped
  <2>2. of(old \union new, k) = of(old, k) \union of(new, k) /\ of(old, k) \intersect of(new, k) = {}
    OBVIOUS
  <2>3. /\ Cardinality(of(old, k)) \in Nat /\ Cardinality(of(new, k)) \in Nat
        /\ Cardinality({}) = 0
    BY <2>1, FS_CardinalityType, FS_EmptySet
  <2>4. Cardinality(of(old, k) \union of(new, k))
          = Cardinality(of(old, k)) + Cardinality(of(new, k)) - Cardinality(of(old, k) \intersect of(new, k))
    BY <2>1, FS_Union
  <2>5. /\ Cardinality(of(old \union new, k)) = Cardinality(of(old, k) \union of(new, k))
        /\ Cardinality(of(old, k) \intersect of(new, k)) = 0
    BY <2>2, <2>3, Zenon
  <2> DEFINE m == Cardinality(of(old, k))
             n == Cardinality(of(new, k))
             both == Cardinality(of(old, k) \intersect of(new, k))
             sum == Cardinality(of(old, k) \union of(new, k))
  <2>6. m \in Nat /\ n \in Nat /\ both = 0 /\ sum = m + n - both
    BY <2>3, <2>4, <2>5, Zenon
  <2>7. sum = m + n
    <3> HIDE DEF m, n, both, sum
    <3>1. QED
      BY <2>6
  <2>8. QED
    BY <2>5, <2>7, Zenon
<1>2. QED
  BY <1>1 DEF mergeAggregatedData, aggregateConnections

LEMMA CountsNone ==
  ASSUME NEW t \in TypeSet
  PROVE  aggregateConnections({}, t) = NoRows[t]
<1>1. \A k \in KeysOf(t) : Cardinality({c \in {} : KeyOf[t][c] = k}) = 0
  <2>1. \A k \in KeysOf(t) : {c \in {} : KeyOf[t][c] = k} = {}
    OBVIOUS
  <2>2. QED
    BY <2>1, FS_EmptySet
<1>2. QED
  BY <1>1 DEF aggregateConnections, NoRows

\* A cut list has some of the rows, and nothing in the others.
LEMMA CutRows ==
  ASSUME NEW K, NEW list \in [K -> Nat], NEW short \in Cuts(list)
  PROVE  short \in [K -> Nat] /\ \A k \in K : short[k] = list[k] \/ short[k] = 0
<1>1. PICK kept : short = [k \in DOMAIN list |-> IF k \in kept THEN list[k] ELSE 0]
  BY DEF Cuts
<1>2. QED
  BY <1>1

\* It counts the connections of the rows it keeps.
LEMMA CountsCut ==
  ASSUME ConnectionsAssumption, NEW t \in TypeSet, NEW conns \in SUBSET Conns,
         NEW short \in Cuts(aggregateConnections(conns, t))
  PROVE  aggregateConnections({c \in conns : short[KeyOf[t][c]] > 0}, t) = short
<1> DEFINE list == aggregateConnections(conns, t)
<1>1. list \in [KeysOf(t) -> Nat]
  BY CountsTyped
<1>2. short \in [KeysOf(t) -> Nat] /\ \A k \in KeysOf(t) : short[k] = list[k] \/ short[k] = 0
  <2> HIDE DEF list
  <2>1. short \in Cuts(list)
    BY DEF list
  <2>2. QED
    BY <1>1, <2>1, CutRows
<1>3. \A c \in conns : KeyOf[t][c] \in KeysOf(t)
  BY DEF KeysOf
<1>4. ASSUME NEW k \in KeysOf(t)
      PROVE  Cardinality({c \in {d \in conns : short[KeyOf[t][d]] > 0} : KeyOf[t][c] = k}) = short[k]
  <2> DEFINE left == {c \in {d \in conns : short[KeyOf[t][d]] > 0} : KeyOf[t][c] = k}
             all == {c \in conns : KeyOf[t][c] = k}
  <2>1. list[k] = Cardinality(all)
    BY DEF aggregateConnections
  <2>2. CASE short[k] > 0
    <3>1. left = all
      BY <2>2
    <3>2. short[k] = list[k]
      BY <1>2, <2>2
    <3>3. QED
      BY <2>1, <3>1, <3>2, Zenon
  <2>3. CASE short[k] = 0
    <3>1. left = {}
      BY <2>3
    <3>2. QED
      BY <2>3, <3>1, FS_EmptySet
  <2>4. QED
    BY <1>2, <2>2, <2>3
<1>5. QED
  BY <1>2, <1>4 DEF aggregateConnections

-----------------------------------------------------------------------------
\* Queues: a write at the end, and the first one gone.
LEMMA QueueEnd ==
  ASSUME NEW queue, queue \in Seq(ToSet(queue)), NEW x
  PROVE  /\ Append(queue, x) \in Seq(ToSet(Append(queue, x)))
         /\ Len(queue) \in Nat /\ DOMAIN queue = 1 .. Len(queue)
         /\ DOMAIN Append(queue, x) = 1 .. Len(queue) + 1
         /\ \A i \in 1 .. Len(queue) : Append(queue, x)[i] = queue[i]
         /\ Append(queue, x)[Len(queue) + 1] = x
<1> DEFINE both == ToSet(queue) \union {x}
           long == Append(queue, x)
<1>1. queue \in Seq(both) /\ x \in both
  OBVIOUS
<1>2. /\ long \in Seq(both) /\ Len(queue) \in Nat /\ DOMAIN queue = 1 .. Len(queue)
      /\ Len(long) = Len(queue) + 1 /\ DOMAIN long = 1 .. Len(queue) + 1
      /\ \A i \in 1 .. Len(queue) : long[i] = queue[i]
      /\ long[Len(queue) + 1] = x
  <2> HIDE DEF both
  <2>1. QED
    BY <1>1
<1>3. long \in Seq(ToSet(long))
  <2> HIDE DEF both, long
  <2>1. \A i \in 1 .. Len(long) : long[i] \in ToSet(long)
    BY <1>2 DEF ToSet
  <2>2. long = [i \in 1 .. Len(long) |-> long[i]] /\ Len(long) \in Nat
    BY <1>2
  <2>3. QED
    BY <2>1, <2>2
<1>4. QED
  BY <1>2, <1>3

LEMMA QueueRest ==
  ASSUME NEW queue, queue \in Seq(ToSet(queue)), queue # <<>>
  PROVE  /\ Tail(queue) \in Seq(ToSet(Tail(queue)))
         /\ Len(queue) \in Nat \ {0} /\ DOMAIN queue = 1 .. Len(queue) /\ 1 \in DOMAIN queue
         /\ DOMAIN Tail(queue) = 1 .. Len(queue) - 1
         /\ \A i \in 1 .. Len(queue) - 1 : Tail(queue)[i] = queue[i + 1] /\ i + 1 \in DOMAIN queue
<1> DEFINE all == ToSet(queue)
           rest == Tail(queue)
<1>1. /\ rest \in Seq(all) /\ Len(queue) \in Nat \ {0} /\ DOMAIN queue = 1 .. Len(queue)
      /\ Len(rest) = Len(queue) - 1 /\ DOMAIN rest = 1 .. Len(queue) - 1
      /\ \A i \in 1 .. Len(queue) - 1 : rest[i] = queue[i + 1]
  <2> HIDE DEF all
  <2>1. queue \in Seq(all)
    BY DEF all
  <2>2. QED
    BY <2>1
<1>2. rest \in Seq(ToSet(rest))
  <2> HIDE DEF all, rest
  <2>1. \A i \in 1 .. Len(rest) : rest[i] \in ToSet(rest)
    BY <1>1 DEF ToSet
  <2>2. rest = [i \in 1 .. Len(rest) |-> rest[i]] /\ Len(rest) \in Nat
    BY <1>1
  <2>3. QED
    BY <2>1, <2>2
<1>3. QED
  BY <1>1, <1>2

\* The calls go on as long as those with a write still wait.
LEMMA QueueKept ==
  ASSUME NEW queue, NEW calls, NEW clears, QueueSound(queue, calls, clears), NEW calls2, NEW clears2,
         \A s \in calls : s.waits => s \in calls2, clears \subseteq clears2
  PROVE  QueueSound(queue, calls2, clears2)
BY DEF QueueSound, IsWrite, Waits

LEMMA WriteAdded ==
  ASSUME NEW queue, NEW calls, NEW clears, QueueSound(queue, calls, clears), NEW x,
         IsWrite(x, clears), x.kind = "save" => \E s \in calls : Waits(s, x),
         \A i \in DOMAIN queue : Unlike(queue[i], x) /\ Unlike(x, queue[i])
  PROVE  QueueSound(Append(queue, x), calls, clears)
<1> DEFINE n == Len(queue)
           long == Append(queue, x)
<1>1. /\ long \in Seq(ToSet(long)) /\ n \in Nat /\ DOMAIN queue = 1 .. n
      /\ DOMAIN long = 1 .. n + 1
      /\ \A i \in 1 .. n : long[i] = queue[i]
      /\ long[n + 1] = x
  BY QueueEnd DEF QueueSound
<1> HIDE DEF n, long
<1>2. \A i \in DOMAIN long : (i \in DOMAIN queue /\ long[i] = queue[i]) \/ (i = n + 1 /\ long[i] = x)
  BY <1>1
<1>3. ASSUME NEW i \in DOMAIN long
      PROVE  IsWrite(long[i], clears) /\ (long[i].kind = "save" => \E s \in calls : Waits(s, long[i]))
  BY <1>2 DEF QueueSound
<1>4. ASSUME NEW i \in DOMAIN long, NEW j \in DOMAIN long, i # j PROVE Unlike(long[i], long[j])
  BY <1>2, <1>4 DEF QueueSound
<1>5. QED
  BY <1>1, <1>3, <1>4 DEF QueueSound, long

LEMMA FirstDone ==
  ASSUME NEW queue, NEW calls, NEW clears, QueueSound(queue, calls, clears), queue # <<>>,
         NEW calls2, NEW clears2,
         \A s \in calls : s.waits => s \in calls2 \/ (queue[1].kind = "save" /\ s.conns = queue[1].conns),
         \A w \in clears : w \in clears2 \/ (queue[1].kind = "clear" /\ w = queue[1].of)
  PROVE  QueueSound(Tail(queue), calls2, clears2)
<1> DEFINE rest == Tail(queue)
<1>1. /\ rest \in Seq(ToSet(rest)) /\ 1 \in DOMAIN queue
      /\ \A i \in DOMAIN rest : rest[i] = queue[i + 1] /\ i + 1 \in DOMAIN queue /\ i + 1 # 1
      /\ \A i, j \in DOMAIN rest : i # j => i + 1 # j + 1
  BY QueueRest DEF QueueSound
<1> HIDE DEF rest
<1>2. ASSUME NEW i \in DOMAIN rest
      PROVE  IsWrite(rest[i], clears2) /\ (rest[i].kind = "save" => \E s \in calls2 : Waits(s, rest[i]))
  <2> DEFINE x == queue[i + 1]
  <2>1. rest[i] = x /\ IsWrite(x, clears) /\ (x.kind = "save" => \E s \in calls : Waits(s, x))
    BY <1>1 DEF QueueSound
  <2>2. Unlike(x, queue[1])
    BY <1>1 DEF QueueSound
  <2> HIDE DEF x
  <2>3. x.kind = "clear" => x.of \in clears2
    BY <2>1, <2>2 DEF Unlike, IsWrite
  <2>4. x.kind = "save" => \E s \in calls2 : Waits(s, x)
    BY <2>1, <2>2 DEF Unlike, Waits
  <2>5. QED
    BY <2>1, <2>3, <2>4 DEF IsWrite
<1>3. ASSUME NEW i \in DOMAIN rest, NEW j \in DOMAIN rest, i # j PROVE Unlike(rest[i], rest[j])
  BY <1>1, <1>3 DEF QueueSound
<1>4. QED
  BY <1>1, <1>2, <1>3 DEF QueueSound, rest

\* What the database will be.
LEMMA SettledByLast ==
  ASSUME NEW queue, queue \in Seq(ToSet(queue)), NEW x, NEW t, NEW stored, Touches(x, t)
  PROVE  Settles(Append(queue, x), stored, Leaves(x, t), t)
<1> DEFINE n == Len(queue)
           long == Append(queue, x)
<1>1. /\ n \in Nat /\ DOMAIN long = 1 .. n + 1 /\ long[n + 1] = x
  BY QueueEnd
<1> HIDE DEF n, long
<1>2. ASSUME NEW i \in DOMAIN long
      PROVE  Leaves(long[i], t) = Leaves(x, t) \/ \E j \in DOMAIN long : j > i /\ Touches(long[j], t)
  <2>1. i = n + 1 \/ n + 1 > i
    BY <1>1
  <2>2. QED
    BY <1>1, <2>1
<1>3. n + 1 \in DOMAIN long
  BY <1>1
<1>4. QED
  BY <1>1, <1>2, <1>3 DEF Settles, long

LEMMA SettledByOthers ==
  ASSUME NEW queue, queue \in Seq(ToSet(queue)), NEW x, NEW t, NEW stored, NEW list,
         ~Touches(x, t), Settles(queue, stored, list, t)
  PROVE  Settles(Append(queue, x), stored, list, t)
<1> DEFINE n == Len(queue)
           long == Append(queue, x)
<1>1. /\ n \in Nat /\ DOMAIN queue = 1 .. n
      /\ DOMAIN long = 1 .. n + 1
      /\ \A i \in 1 .. n : long[i] = queue[i]
      /\ long[n + 1] = x
  BY QueueEnd
<1> HIDE DEF n, long
<1>2. \A i \in DOMAIN long : (i \in DOMAIN queue /\ long[i] = queue[i]) \/ (i = n + 1 /\ long[i] = x)
  BY <1>1
<1>3. \A i \in DOMAIN queue : i \in DOMAIN long /\ long[i] = queue[i]
  BY <1>1
<1>4. QED
  BY <1>2, <1>3 DEF Settles, long

LEMMA SettledByFirst ==
  ASSUME NEW queue, queue \in Seq(ToSet(queue)), queue # <<>>, NEW t, NEW stored, NEW list,
         Settles(queue, stored, list, t)
  PROVE  Settles(Tail(queue), IF Touches(queue[1], t) THEN Leaves(queue[1], t) ELSE stored, list, t)
<1> DEFINE rest == Tail(queue)
<1>1. /\ Len(queue) \in Nat \ {0} /\ DOMAIN queue = 1 .. Len(queue)
      /\ DOMAIN rest = 1 .. Len(queue) - 1
      /\ \A i \in DOMAIN rest : rest[i] = queue[i + 1] /\ i + 1 \in DOMAIN queue
  BY QueueRest
<1> HIDE DEF rest
<1>2. \A j \in DOMAIN queue : j = 1 \/ (j - 1 \in DOMAIN rest /\ rest[j - 1] = queue[j])
  <2>1. \A j \in DOMAIN queue : j = 1 \/ (j - 1 \in DOMAIN rest /\ (j - 1) + 1 = j)
    BY <1>1
  <2>2. QED
    BY <1>1, <2>1
<1>3. ASSUME NEW i \in DOMAIN rest, Touches(rest[i], t)
      PROVE  Leaves(rest[i], t) = list \/ \E j \in DOMAIN rest : j > i /\ Touches(rest[j], t)
  <2>1. /\ Leaves(queue[i + 1], t) = list \/ \E j \in DOMAIN queue : j > i + 1 /\ Touches(queue[j], t)
        /\ rest[i] = queue[i + 1]
    BY <1>1, <1>3 DEF Settles
  <2>2. ASSUME NEW j \in DOMAIN queue, j > i + 1, Touches(queue[j], t)
        PROVE  j - 1 \in DOMAIN rest /\ j - 1 > i /\ Touches(rest[j - 1], t)
    <3>1. j # 1 /\ j - 1 > i
      BY <1>1, <2>2
    <3>2. QED
      BY <1>2, <2>2, <3>1
  <2>3. QED
    BY <2>1, <2>2
<1>4. ASSUME \A i \in DOMAIN rest : ~Touches(rest[i], t)
      PROVE  (IF Touches(queue[1], t) THEN Leaves(queue[1], t) ELSE stored) = list
  <2>1. \A j \in DOMAIN queue : Touches(queue[j], t) => j = 1
    BY <1>2, <1>4
  <2>2. 1 \in DOMAIN queue /\ \A j \in DOMAIN queue : j > 1 => j # 1
    BY <1>1
  <2>3. QED
    BY <2>1, <2>2 DEF Settles
<1>5. QED
  BY <1>3, <1>4 DEF Settles, rest

-----------------------------------------------------------------------------
\* Where a loop of loads stops, and what it has loaded and cut by then.
LEMMA Loads ==
  ASSUME ConnectionsAssumption, NEW t \in TypeSet \union {"done"}, NEW mem, NEW stored, NEW queue,
         AreCounts(mem), AreCounts(stored), Load(t, mem, stored, queue)
  PROVE  /\ loading' \in From(t) \union {"done"} /\ From(loading') \subseteq From(t)
         /\ AreCounts(memory') /\ AreCounts(cache')
         /\ \A u \in TypeSet :
              memory'[u] = IF u \in From(t) \ From(loading') THEN stored[u] ELSE mem[u]
         /\ loading' = "done" => cache' = stored /\ transactions' = queue /\ counted' = counted
         /\ loading' # "done" =>
              \E short \in Cuts(stored[loading']) :
                /\ short \in [KeysOf(loading') -> Nat]
                /\ cache' = [stored EXCEPT ![loading'] = short]
                /\ transactions' = Write(queue, "load", loading', short, {})
                /\ counted' = [counted EXCEPT ![loading'] =
                     {c \in @ : short[KeyOf[loading'][c]] > 0 \/ \E s \in saving : c \in s.conns}]
<1> DEFINE long == {u \in From(t) : Cardinality(RowsOf(stored[u])) > RowLimit}
           at == IF long = {} THEN "done" ELSE CHOOSE u \in long : long \subseteq From(u)
<1>1. /\ memory' = [u \in TypeSet |-> IF u \in From(t) \ From(at) THEN stored[u] ELSE mem[u]]
      /\ loading' = at
      /\ IF at = "done"
         THEN cache' = stored /\ transactions' = queue /\ UNCHANGED counted
         ELSE \E short \in Cuts(stored[at]) :
                /\ cache' = [stored EXCEPT ![at] = short]
                /\ transactions' = Write(queue, "load", at, short, {})
                /\ counted' = [counted EXCEPT ![at] =
                     {c \in @ : short[KeyOf[at][c]] > 0 \/ \E s \in saving : c \in s.conns}]
  BY DEF Load
<1>2. From(t) \subseteq TypeSet /\ "done" \notin TypeSet /\ From("done") = {}
  BY FromTypes, TypePlaces
<1>3. at \in From(t) \union {"done"}
  <2>1. CASE long = {}
    BY <2>1
  <2>2. CASE long # {}
    <3>1. \E u \in long : long \subseteq From(u)
      <4>1. long \in SUBSET TypeSet
        BY <1>2
      <4> HIDE DEF long
      <4> QED
        BY <2>2, <4>1, FirstType
    <3>2. QED
      BY <2>2, <3>1
  <2>3. QED
    BY <2>1, <2>2
<1> HIDE DEF long, at
<1>4. From(at) \subseteq From(t)
  <2>1. CASE at = "done"
    BY <1>2, <2>1
  <2>2. CASE at # "done"
    <3>1. at \in From(t) /\ at \in TypeSet /\ t \in TypeSet
      BY <1>2, <1>3, <2>2
    <3>2. \A u \in TypeSet : Index(u) \in Nat
      BY TypePlaces
    <3>3. Index(at) >= Index(t)
      BY <3>1, FromTypes
    <3>4. \A u \in From(at) : u \in TypeSet /\ Index(u) >= Index(at)
      BY <3>1, FromTypes
    <3>5. \A u \in From(at) : Index(u) >= Index(t)
      BY <3>1, <3>2, <3>3, <3>4
    <3>6. QED
      BY <3>1, <3>4, <3>5, FromTypes
  <2>3. QED
    BY <2>1, <2>2
<1>5. AreCounts(memory')
  BY <1>1 DEF AreCounts
<1>6. ASSUME at # "done", NEW short \in Cuts(stored[at])
      PROVE  short \in [KeysOf(at) -> Nat] /\ AreCounts([stored EXCEPT ![at] = short])
  <2>1. at \in TypeSet /\ stored[at] \in [KeysOf(at) -> Nat]
    BY <1>2, <1>3, <1>6 DEF AreCounts
  <2>2. short \in [KeysOf(at) -> Nat]
    BY <2>1, CutRows
  <2>3. QED
    BY <2>1, <2>2 DEF AreCounts
<1>7. AreCounts(cache')
  BY <1>1, <1>6
<1>8. QED
  BY <1>1, <1>3, <1>4, <1>5, <1>6, <1>7

\* What holds of the parts one by one, after a loop of loads ...
LEMMA LoadSound ==
  ASSUME ConnectionsAssumption, NEW t \in TypeSet \union {"done"}, NEW mem, NEW stored, NEW queue,
         AreCounts(mem), AreCounts(stored), Load(t, mem, stored, queue),
         HistoryTyped, ClosedOnce, AreCounts(objectStore'),
         UNCHANGED <<live, opened, active, previous, saving>>, ~opening', excused' = excused,
         QueueSound(queue, saving, clearing'), \A i \in DOMAIN queue : queue[i].kind # "load"
  PROVE  HistoryTyped' /\ ClosedOnce' /\ WritesAwaited'
<1>1. /\ loading' \in TypeSet \union {"done"} /\ AreCounts(memory') /\ AreCounts(cache')
      /\ loading' = "done" => transactions' = queue /\ counted' = counted
      /\ loading' # "done" =>
           \E short \in [KeysOf(loading') -> Nat] :
             /\ transactions' = Write(queue, "load", loading', short, {})
             /\ counted' = [counted EXCEPT ![loading'] =
                  {c \in @ : short[KeyOf[loading'][c]] > 0 \/ \E s \in saving : c \in s.conns}]
  BY Loads, FromTypes
<1>2. /\ counted' \in [TypeSet -> SUBSET opened]
      /\ \A u \in TypeSet : counted'[u] \subseteq counted[u]
  BY <1>1 DEF HistoryTyped
<1>3. HistoryTyped'
  BY <1>1, <1>2 DEF HistoryTyped, AreCounts
<1>4. ClosedOnce'
  BY <1>2 DEF ClosedOnce
<1>5. CASE loading' = "done"
  BY <1>1, <1>3, <1>4, <1>5 DEF WritesAwaited
<1>6. CASE loading' # "done"
  <2>1. PICK short \in [KeysOf(loading') -> Nat] : transactions' = Write(queue, "load", loading', short, {})
    BY <1>1, <1>6
  <2> DEFINE x == [kind |-> "load", of |-> loading', list |-> short, conns |-> {}]
  <2>2. x.kind = "load" /\ x.of = loading' /\ transactions' = Append(queue, x)
    BY <2>1 DEF Write
  <2>3. IsWrite(x, clearing')
    BY <1>1, <1>6 DEF IsWrite
  <2> HIDE DEF x
  <2>4. \A i \in DOMAIN queue : Unlike(queue[i], x) /\ Unlike(x, queue[i])
    BY <2>2 DEF Unlike
  <2>5. QueueSound(transactions', saving, clearing')
    BY <2>2, <2>3, <2>4, WriteAdded
  <2>6. \A i \in DOMAIN transactions' : transactions'[i].kind = "load" => transactions'[i].of = loading'
    <3>1. queue \in Seq(ToSet(queue))
      BY DEF QueueSound
    <3>2. \A i \in DOMAIN transactions' :
            (i \in DOMAIN queue /\ transactions'[i] = queue[i]) \/ transactions'[i] = x
      BY <2>2, <3>1, QueueEnd
    <3>3. QED
      BY <2>2, <3>2
  <2>7. QED
    BY <1>3, <1>4, <2>5, <2>6 DEF WritesAwaited
<1>7. QED
  BY <1>5, <1>6

\* ... and that the counts are exact, if no save has begun.
LEMMA LoadExact ==
  ASSUME ConnectionsAssumption, NEW t \in TypeSet \union {"done"}, NEW mem, NEW stored, NEW queue,
         AreCounts(mem), AreCounts(stored), Load(t, mem, stored, queue),
         HistoryTyped, saving' = saving, ~opening',
         queue \in Seq(ToSet(queue)), \A i \in DOMAIN queue : queue[i].kind # "load",
         \A s \in saving : s.at = Types[1] /\ ~s.waits,
         \A s \in saving, u \in TypeSet : s.conns \subseteq counted[u],
         \A u \in TypeSet : stored[u] = aggregateConnections(Merged(u), u),
         \A u \in TypeSet : Settles(queue, objectStore'[u], stored[u], u),
         clearing' = {} => \A u \in TypeSet \ From(t) : mem[u] = stored[u]
  PROVE  CountsExact'
<1>1. /\ loading' \in From(t) \union {"done"} /\ From(loading') \subseteq From(t)
      /\ \A u \in TypeSet :
           memory'[u] = IF u \in From(t) \ From(loading') THEN stored[u] ELSE mem[u]
      /\ loading' = "done" => cache' = stored /\ transactions' = queue /\ counted' = counted
      /\ loading' # "done" =>
           \E short \in Cuts(stored[loading']) :
             /\ cache' = [stored EXCEPT ![loading'] = short]
             /\ transactions' = Write(queue, "load", loading', short, {})
             /\ counted' = [counted EXCEPT ![loading'] =
                  {c \in @ : short[KeyOf[loading'][c]] > 0 \/ \E s \in saving : c \in s.conns}]
  BY Loads
<1>2. \A s \in saving, u \in TypeSet : Awaits(s, u)
  <2>1. Index(Types[1]) = 1 /\ Types[1] \in TypeSet
    BY TypePlaces
  <2>2. \A u \in TypeSet : Index(u) \in Nat /\ Index(u) >= 1 /\ Types[Index(u)] = u
    BY TypePlaces
  <2>3. \A u \in TypeSet : Index(u) > 1 \/ u = Types[1]
    BY <2>2
  <2>4. QED
    BY <2>1, <2>3 DEF Awaits
<1>3. \A u \in TypeSet : Pending(u) = UNION {s.conns : s \in saving} /\ Pending(u)' = Pending(u)
  <2>1. \A u \in TypeSet : {r \in saving : Awaits(r, u)} = saving
    BY <1>2
  <2>2. \A u \in TypeSet : Pending(u)' = Pending(u)
    BY DEF Pending, Awaits
  <2>3. QED
    BY <2>1, <2>2 DEF Pending
<1>4. \A u \in TypeSet : Merged(u) \in SUBSET Conns
  BY DEF Merged, HistoryTyped
<1>5. CASE loading' = "done"
  <2>1. cache' = stored /\ transactions' = queue /\ counted' = counted
    BY <1>1, <1>5
  <2>2. \A u \in TypeSet : Merged(u)' = Merged(u)
    BY <1>3, <2>1 DEF Merged
  <2>3. clearing' = {} => \A u \in TypeSet \ From(loading') : memory'[u] = cache'[u]
    BY <1>1, <2>1
  <2>4. QED
    BY <1>1, <2>1, <2>2, <2>3 DEF CountsExact
<1>6. CASE loading' # "done"
  <2>0. PICK at \in TypeSet : at = loading'
    BY <1>1, <1>6, FromTypes
  <2>1. PICK short \in Cuts(stored[at]) :
          /\ cache' = [stored EXCEPT ![at] = short]
          /\ transactions' = Write(queue, "load", at, short, {})
          /\ counted' = [counted EXCEPT ![at] =
               {c \in @ : short[KeyOf[at][c]] > 0 \/ \E s \in saving : c \in s.conns}]
    BY <1>1, <1>6, <2>0
  <2> DEFINE x == [kind |-> "load", of |-> at, list |-> short, conns |-> {}]
  <2>2. x.kind = "load" /\ x.of = at /\ x.list = short /\ transactions' = Append(queue, x)
    BY <2>1 DEF Write
  <2>3. at \in From(at) /\ From(at) \subseteq From(t)
    BY <1>1, <2>0, FromTypes
  <2>4. /\ cache'[at] = short /\ \A u \in TypeSet \ {at} : cache'[u] = stored[u]
    BY <2>1, <2>3 DEF AreCounts
  <2>5. /\ counted'[at] = {c \in counted[at] : short[KeyOf[at][c]] > 0 \/ \E s \in saving : c \in s.conns}
        /\ \A u \in TypeSet \ {at} : counted'[u] = counted[u]
    BY <2>1, <2>3 DEF HistoryTyped
  <2> HIDE DEF x
  <2>6. \A s \in saving, u \in TypeSet : s.conns \subseteq counted'[u]
    BY <2>5
  <2>7. /\ Merged(at)' = {c \in Merged(at) : short[KeyOf[at][c]] > 0}
        /\ \A u \in TypeSet \ {at} : Merged(u)' = Merged(u)
    BY <1>3, <2>3, <2>5 DEF Merged
  <2>8. aggregateConnections(Merged(at)', at) = short
    BY <1>4, <2>1, <2>3, <2>7, CountsCut
  <2>9. \A u \in TypeSet : cache'[u] = aggregateConnections(Merged(u)', u)
    BY <2>4, <2>7, <2>8
  <2>10. \A u \in TypeSet : Settles(transactions', objectStore'[u], cache'[u], u)
    <3>1. Touches(x, at) /\ Leaves(x, at) = short
      BY <2>2 DEF Touches, Leaves
    <3>2. \A u \in TypeSet \ {at} : ~Touches(x, u)
      BY <2>2 DEF Touches
    <3>3. QED
      BY <2>2, <2>4, <3>1, <3>2, SettledByLast, SettledByOthers
  <2>11. \A i \in DOMAIN transactions' :
           transactions'[i].kind = "load" => transactions'[i].list = cache'[transactions'[i].of]
    <3>1. \A i \in DOMAIN transactions' :
            (i \in DOMAIN queue /\ transactions'[i] = queue[i]) \/ transactions'[i] = x
      BY <2>2, QueueEnd
    <3>2. QED
      BY <2>2, <2>4, <3>1
  <2>12. clearing' = {} => \A u \in TypeSet \ From(at) : memory'[u] = cache'[u]
    BY <1>1, <2>0, <2>3, <2>4
  <2>13. QED
    BY <2>0, <2>6, <2>9, <2>10, <2>11, <2>12 DEF CountsExact
<1>7. QED
  BY <1>5, <1>6

-----------------------------------------------------------------------------
\* The steps.
LEMMA InitConnections == ASSUME ConnectionsAssumption PROVE ConnectionsInit => ConnectionsInv
<1> SUFFICES ASSUME ConnectionsInit PROVE ConnectionsInv
  OBVIOUS
<1>1. AreCounts(NoRows)
  BY DEF AreCounts, NoRows
<1>2. Types[1] \in TypeSet
  BY FromTypes
<1>3. HistoryTyped /\ ClosedOnce
  BY <1>1, <1>2 DEF ConnectionsInit, HistoryTyped, ClosedOnce
<1>4. WritesAwaited
  <2>1. QueueSound(<<>>, {}, {})
    BY DEF QueueSound
  <2>2. QED
    BY <2>1 DEF ConnectionsInit, WritesAwaited
<1>5. CountsExact
  <2>1. \A t \in TypeSet : Merged(t) = {}
    BY DEF ConnectionsInit, Merged
  <2>2. \A t \in TypeSet : objectStore[t] = aggregateConnections(Merged(t), t)
    BY <2>1, CountsNone DEF ConnectionsInit
  <2>3. QED
    BY <2>2 DEF ConnectionsInit, CountsExact
<1>6. QED
  BY <1>3, <1>4, <1>5 DEF ConnectionsInv

\* Connections come and go, and controls change, without the history.
LEMMA HistoryApart ==
  ASSUME ConnectionsInv, live' \subseteq live \union (Conns \ opened), live' \subseteq opened',
         opened \subseteq opened', opened' \subseteq Conns,
         UNCHANGED <<active, previous, storeVars, clearing, ghostVars>>
  PROVE  ConnectionsInv'
<1>1. /\ UNCHANGED <<active, previous, opening, memory, cache, objectStore, transactions, loading,
                     saving, clearing, counted, excused>>
  BY DEF storeVars, ghostVars
<1>2. HistoryTyped'
  BY <1>1 DEF ConnectionsInv, HistoryTyped, AreCounts
<1>3. ClosedOnce'
  BY <1>1 DEF ConnectionsInv, HistoryTyped, ClosedOnce
<1>4. WritesAwaited'
  BY <1>1 DEF ConnectionsInv, WritesAwaited
<1>5. CountsExact => CountsExact'
  BY <1>1 DEF CountsExact, Merged, Pending, Awaits
<1>6. QED
  BY <1>1, <1>2, <1>3, <1>4, <1>5 DEF ConnectionsInv

\* A report: what is gone is counted and waits to be saved.
LEMMA ReportStep ==
  ASSUME ConnectionsAssumption, ConnectionsInv, Report
  PROVE  ConnectionsInv'
<1> DEFINE gone == previous \ live
           new == [conns |-> gone, at |-> Types[1], waits |-> FALSE]
<1>1. /\ active' = live /\ previous' = live /\ live' \subseteq live
      /\ saving' = IF gone = {} THEN saving ELSE saving \union {new}
      /\ counted' = [t \in TypeSet |-> counted[t] \union gone]
      /\ UNCHANGED <<opened, opening, memory, cache, objectStore, transactions, loading, clearing, excused>>
  BY DEF Report, cleanVars
<1>2. HistoryTyped /\ ClosedOnce /\ WritesAwaited /\ (excused \/ CountsExact)
  BY DEF ConnectionsInv
<1>3. /\ gone \subseteq opened /\ gone \intersect live = {} /\ gone \subseteq previous
      /\ opened \subseteq Conns
  BY <1>2 DEF HistoryTyped
<1>4. Types[1] \in TypeSet /\ Index(Types[1]) = 1
  BY TypePlaces
<1>5. new.conns = gone /\ new.at = Types[1] /\ ~new.waits /\ (gone # {} => new \in SaveCall)
  BY <1>3, <1>4 DEF SaveCall
<1> HIDE DEF gone, new
<1>6. HistoryTyped'
  <2>1. saving' \subseteq SaveCall /\ \A s \in saving' : s.conns \subseteq opened
    BY <1>1, <1>2, <1>3, <1>5 DEF HistoryTyped
  <2>2. counted' \in [TypeSet -> SUBSET opened]
    BY <1>1, <1>2, <1>3 DEF HistoryTyped
  <2>3. QED
    BY <1>1, <1>2, <2>1, <2>2 DEF HistoryTyped, AreCounts
<1>7. ClosedOnce'
  <2>1. \A s \in saving : s.conns \intersect gone = {}
    BY <1>2, <1>3 DEF ClosedOnce
  <2>2. \A s, r \in saving' : s # r => s.conns \intersect r.conns = {}
    BY <1>1, <1>2, <1>5, <2>1 DEF ClosedOnce
  <2>3. \A s \in saving' : s.conns \intersect live = {}
    BY <1>1, <1>2, <1>3, <1>5 DEF ClosedOnce
  <2>4. \A t \in TypeSet : counted'[t] \intersect live = {}
    BY <1>1, <1>2, <1>3 DEF ClosedOnce
  <2>5. QED
    BY <1>1, <2>2, <2>3, <2>4 DEF ClosedOnce
<1>8. WritesAwaited'
  <2>1. QueueSound(transactions, saving', clearing)
    BY <1>1, <1>2, QueueKept DEF WritesAwaited
  <2>2. QED
    BY <1>1, <1>2, <1>5, <2>1 DEF WritesAwaited
<1>9. ASSUME CountsExact PROVE CountsExact'
  <2>1. \A t \in TypeSet : gone # {} => Awaits(new, t)
    <3>1. \A t \in TypeSet : Index(t) \in Nat /\ Index(t) >= 1 /\ Types[Index(t)] = t
      BY TypePlaces
    <3>2. \A t \in TypeSet : Index(t) > 1 \/ t = Types[1]
      BY <3>1
    <3>3. QED
      BY <1>4, <1>5, <3>2 DEF Awaits
  <2>2. ASSUME NEW t \in TypeSet PROVE Merged(t)' = Merged(t)
    <3>1. Pending(t)' = Pending(t) \union gone
      BY <1>1, <1>5, <2>1 DEF Pending, Awaits
    <3>2. counted'[t] = counted[t] \union gone /\ counted[t] \intersect gone = {}
      BY <1>1, <1>2, <1>3 DEF ClosedOnce
    <3>3. QED
      BY <3>1, <3>2 DEF Merged
  <2>3. \A s \in saving', t \in TypeSet : Awaits(s, t) => s.conns \subseteq counted'[t]
    BY <1>1, <1>5, <1>9 DEF CountsExact
  <2>4. loading # "done" \/ clearing # {} => \A s \in saving' : s.at = Types[1] /\ ~s.waits
    BY <1>1, <1>5, <1>9 DEF CountsExact
  <2>5. QED
    BY <1>1, <1>9, <2>2, <2>3, <2>4 DEF CountsExact, Awaits
<1>10. QED
  BY <1>1, <1>2, <1>6, <1>7, <1>8, <1>9 DEF ConnectionsInv

\* A save that has merged its connections into a type awaits its write.
LEMMA SaveStepStep ==
  ASSUME ConnectionsAssumption, ConnectionsInv, NEW s \in saving, SaveStep(s)
  PROVE  ConnectionsInv'
<1> DEFINE t == s.at
           merged == mergeAggregatedData(memory[t], aggregateConnections(s.conns, t))
           r == [s EXCEPT !.waits = TRUE]
           x == [kind |-> "save", of |-> t, list |-> merged, conns |-> s.conns]
<1>1. /\ ~s.waits /\ (s.at = Types[1] => loading = "done")
      /\ memory' = [memory EXCEPT ![t] = merged] /\ cache' = [cache EXCEPT ![t] = merged]
      /\ transactions' = Append(transactions, x)
      /\ saving' = (saving \ {s}) \union {r}
      /\ excused' = (excused \/ clearing # {})
      /\ UNCHANGED <<live, opened, active, previous, opening, objectStore, loading, clearing, counted>>
  BY DEF SaveStep, Merge, Write, kernelVars, listVars, cleanVars
<1>2. HistoryTyped /\ ClosedOnce /\ WritesAwaited /\ (excused \/ CountsExact)
  BY DEF ConnectionsInv
<1>3. /\ t \in TypeSet /\ s.conns # {} /\ s.conns \subseteq Conns /\ s \in SaveCall
      /\ r.conns = s.conns /\ r.at = t /\ r.waits /\ r \in SaveCall
      /\ x.kind = "save" /\ x.of = t /\ x.list = merged /\ x.conns = s.conns
  BY <1>2 DEF HistoryTyped, SaveCall
<1>4. ~opening
  BY <1>1, <1>2, FromTypes, TypePlaces DEF WritesAwaited
<1>5. merged \in [KeysOf(t) -> Nat]
  <2>1. memory[t] \in [KeysOf(t) -> Nat] /\ aggregateConnections(s.conns, t) \in [KeysOf(t) -> Nat]
    BY <1>2, <1>3, CountsTyped DEF HistoryTyped, AreCounts
  <2>2. QED
    BY <2>1 DEF mergeAggregatedData
<1> HIDE DEF t, merged, r, x
<1>6. HistoryTyped'
  <2>1. AreCounts(memory') /\ AreCounts(cache')
    BY <1>1, <1>2, <1>3, <1>5 DEF HistoryTyped, AreCounts
  <2>2. saving' \subseteq SaveCall /\ \A q \in saving' : q.conns \subseteq opened
    BY <1>1, <1>2, <1>3 DEF HistoryTyped
  <2>3. QED
    BY <1>1, <1>2, <2>1, <2>2 DEF HistoryTyped, AreCounts
<1>7. ClosedOnce'
  BY <1>1, <1>2, <1>3 DEF ClosedOnce
<1>8. WritesAwaited'
  <2>1. QueueSound(transactions, saving', clearing)
    BY <1>1, <1>2, QueueKept DEF WritesAwaited
  <2>2. IsWrite(x, clearing) /\ Waits(r, x)
    BY <1>3, <1>5 DEF IsWrite, Waits
  <2>3. ASSUME NEW i \in DOMAIN transactions
        PROVE  Unlike(transactions[i], x) /\ Unlike(x, transactions[i])
    <3>1. transactions[i].kind = "save" =>
            \E q \in saving : q.waits /\ q.conns = transactions[i].conns
      BY <1>2 DEF WritesAwaited, QueueSound, Waits
    <3>2. transactions[i].kind = "save" => transactions[i].conns # s.conns
      BY <1>1, <1>2, <1>3, <3>1 DEF ClosedOnce
    <3>3. QED
      BY <1>3, <3>2 DEF Unlike
  <2>4. QueueSound(transactions', saving', clearing)
    BY <1>1, <1>3, <2>1, <2>2, <2>3, WriteAdded
  <2>5. \A i \in DOMAIN transactions' :
          transactions'[i].kind = "load" => transactions'[i].of = loading'
    <3>1. \A i \in DOMAIN transactions :
            transactions[i].kind = "load" => transactions[i].of = loading
      BY <1>2 DEF WritesAwaited
    <3>2. transactions \in Seq(ToSet(transactions))
      BY <1>2 DEF WritesAwaited, QueueSound
    <3>3. \A i \in DOMAIN transactions' :
            (i \in DOMAIN transactions /\ transactions'[i] = transactions[i]) \/ transactions'[i] = x
      BY <1>1, <3>2, QueueEnd
    <3>4. QED
      BY <1>1, <1>3, <3>1, <3>3
  <2>6. QED
    BY <1>1, <1>4, <2>4, <2>5 DEF WritesAwaited
<1>9. ASSUME CountsExact, clearing = {} PROVE CountsExact'
  <2>1. \A u \in TypeSet : Index(u) \in Nat
    BY TypePlaces
  <2>2. Awaits(s, t)
    BY <1>1 DEF Awaits, t
  <2>3. \A u \in TypeSet : Awaits(r, u) <=> Awaits(s, u) /\ u # t
    BY <1>1, <1>3, <2>1 DEF Awaits, t
  <2>4. /\ Pending(t)' = Pending(t) \ s.conns
        /\ \A u \in TypeSet \ {t} : Pending(u)' = Pending(u)
    <3>1. \A q \in saving \ {s} : q.conns \intersect s.conns = {}
      BY <1>2 DEF ClosedOnce
    <3>2. \A u : Pending(u)' = UNION {q.conns : q \in {p \in saving' : Awaits(p, u)}}
      BY DEF Pending, Awaits
    <3>3. \A u \in TypeSet \ {t} : Pending(u)' = Pending(u)
      <4>1. \A u \in TypeSet \ {t} : \A c : c \in Pending(u)' <=> c \in Pending(u)
        BY <1>1, <1>3, <2>3, <3>2 DEF Pending
      <4>2. QED
        BY <4>1
    <3>4. Pending(t)' = Pending(t) \ s.conns
      <4>1. \A c : c \in Pending(t)' <=> c \in Pending(t) \ s.conns
        BY <1>1, <1>3, <2>3, <3>1, <3>2 DEF Pending
      <4>2. QED
        BY <4>1
    <3>5. QED
      BY <3>3, <3>4
  <2>5. s.conns \subseteq Pending(t) /\ s.conns \subseteq counted[t]
    BY <1>3, <1>9, <2>2 DEF Pending, CountsExact
  <2>6. /\ Merged(t)' = Merged(t) \union s.conns /\ Merged(t) \intersect s.conns = {}
        /\ \A u \in TypeSet \ {t} : Merged(u)' = Merged(u)
    BY <1>1, <2>4, <2>5 DEF Merged
  <2>7. memory[t] = aggregateConnections(Merged(t), t)
    BY <1>1, <1>3, <1>4, <1>9, FromTypes DEF CountsExact
  <2>8. Merged(t) \subseteq Conns
    BY <1>2, <1>3 DEF Merged, HistoryTyped
  <2>9. merged = aggregateConnections(Merged(t) \union s.conns, t)
    BY <1>3, <2>6, <2>7, <2>8, CountsMerge DEF merged
  <2>10. /\ cache'[t] = merged /\ memory'[t] = merged
         /\ \A u \in TypeSet \ {t} : cache'[u] = cache[u] /\ memory'[u] = memory[u]
    BY <1>1, <1>2, <1>3 DEF HistoryTyped, AreCounts
  <2>11. \A u \in TypeSet : cache'[u] = aggregateConnections(Merged(u)', u)
    <3>1. \A u \in TypeSet : cache[u] = aggregateConnections(Merged(u), u)
      BY <1>4, <1>9 DEF CountsExact
    <3>2. cache'[t] = aggregateConnections(Merged(t)', t)
      BY <2>6, <2>9, <2>10
    <3>3. \A u \in TypeSet \ {t} : cache'[u] = aggregateConnections(Merged(u)', u)
      BY <2>6, <2>10, <3>1
    <3> QED
      BY <3>2, <3>3
  <2>12. \A u \in TypeSet : Settles(transactions', objectStore'[u], cache'[u], u)
    <3>1. transactions \in Seq(ToSet(transactions))
      BY <1>2 DEF WritesAwaited, QueueSound
    <3>2. /\ Touches(x, t) /\ Leaves(x, t) = merged
          /\ \A u \in TypeSet \ {t} : ~Touches(x, u)
      BY <1>3 DEF Touches, Leaves
    <3>3. Settles(transactions', objectStore[t], merged, t)
      BY <1>1, <3>1, <3>2, SettledByLast
    <3>4. ASSUME NEW u \in TypeSet \ {t} PROVE Settles(transactions', objectStore[u], cache[u], u)
      <4>1. Settles(transactions, objectStore[u], cache[u], u)
        BY <1>4, <1>9 DEF CountsExact
      <4>2. QED
        BY <1>1, <3>1, <3>2, <4>1, SettledByOthers
    <3>5. QED
      BY <1>1, <1>3, <2>10, <3>3, <3>4
  <2>13. \A q \in saving', u \in TypeSet : Awaits(q, u) => q.conns \subseteq counted'[u]
    BY <1>1, <1>3, <1>9, <2>3 DEF CountsExact
  <2>14. \A u \in TypeSet : memory'[u] = cache'[u]
    BY <1>1, <1>4, <1>9, <2>10, FromTypes DEF CountsExact
  <2>15. \A i \in DOMAIN transactions' : transactions'[i].kind # "load"
    <3>1. loading = "done"
      BY <1>1, <1>9 DEF CountsExact
    <3>2. QED
      BY <1>1, <1>8, <3>1, TypePlaces DEF WritesAwaited, QueueSound, IsWrite
  <2>16. QED
    BY <1>1, <1>4, <1>9, <2>11, <2>12, <2>13, <2>14, <2>15 DEF CountsExact, Awaits
<1>10. QED
  BY <1>1, <1>2, <1>6, <1>7, <1>8, <1>9 DEF ConnectionsInv

\* A save whose write has ended goes on with the next type, or is done.
LEMMA SaveMovesOn ==
  ASSUME ConnectionsAssumption, ConnectionsInv, Ends("save"), SaveGoesOn, excused' \in BOOLEAN,
         AreCounts(objectStore')
  PROVE  /\ HistoryTyped' /\ ClosedOnce' /\ WritesAwaited'
         /\ ~excused' /\ CountsExact
            /\ objectStore' = [objectStore EXCEPT ![transactions[1].of] = transactions[1].list]
            => CountsExact'
<1> DEFINE x == transactions[1]
           s == CHOOSE q \in saving : q.conns = x.conns
           next == After(s.at)
           r == [s EXCEPT !.at = next, !.waits = FALSE]
<1>1. /\ transactions # <<>> /\ x.kind = "save"
      /\ saving' = (saving \ {s}) \union (IF next = "done" THEN {} ELSE {r})
      /\ transactions' = Tail(transactions)
      /\ UNCHANGED <<live, opened, active, previous, opening, memory, cache, loading, clearing, counted>>
  BY DEF Ends, SaveGoesOn, kernelVars, listVars, cleanVars
<1>2. HistoryTyped /\ ClosedOnce /\ WritesAwaited
  BY DEF ConnectionsInv
<1>3. transactions \in Seq(ToSet(transactions)) /\ 1 \in DOMAIN transactions /\ IsWrite(x, clearing)
  BY <1>1, <1>2, QueueRest DEF WritesAwaited, QueueSound
<1>4. s \in saving /\ Waits(s, x)
  <2>1. PICK q \in saving : Waits(q, x)
    BY <1>1, <1>2, <1>3 DEF WritesAwaited, QueueSound
  <2>2. s \in saving /\ s.conns = x.conns
    BY <2>1 DEF Waits
  <2>3. s = q
    BY <1>2, <2>1, <2>2 DEF ClosedOnce, HistoryTyped, SaveCall, Waits
  <2>4. QED
    BY <2>1, <2>2, <2>3
<1> HIDE DEF s
<1>5. /\ s \in SaveCall /\ s.at = x.of /\ s.at \in TypeSet /\ s.waits /\ s.conns = x.conns
      /\ s.conns # {} /\ s.conns \subseteq opened
  BY <1>2, <1>4 DEF HistoryTyped, SaveCall, Waits
<1>6. /\ next \in TypeSet \union {"done"} /\ "done" \notin TypeSet
      /\ next \in TypeSet => Index(next) = Index(s.at) + 1
      /\ next = "done" => Index(s.at) = Len(Types)
  BY <1>5, FromTypes, TypePlaces
<1> HIDE DEF next
<1>7. r.conns = s.conns /\ r.at = next /\ ~r.waits /\ (next # "done" => r \in SaveCall)
  BY <1>5, <1>6 DEF SaveCall
<1> HIDE DEF r, x
<1>8. HistoryTyped'
  <2>1. saving' \subseteq SaveCall /\ \A q \in saving' : q.conns \subseteq opened
    BY <1>1, <1>2, <1>5, <1>7 DEF HistoryTyped
  <2>2. QED
    BY <1>1, <1>2, <2>1 DEF HistoryTyped, AreCounts
<1>9. ClosedOnce'
  BY <1>1, <1>2, <1>4, <1>7 DEF ClosedOnce
<1>10. WritesAwaited'
  <2>1. QueueSound(transactions', saving', clearing)
    <3>1. \A q \in saving : q.waits => q \in saving' \/ (x.kind = "save" /\ q.conns = x.conns)
      BY <1>1, <1>5
    <3>2. QED
      BY <1>1, <1>2, <3>1, FirstDone DEF WritesAwaited, x
  <2>2. \A i \in DOMAIN transactions' : transactions'[i].kind = "load" => transactions'[i].of = loading
    BY <1>1, <1>2, <1>3, QueueRest DEF WritesAwaited
  <2>3. ~opening
    BY <1>1, <1>2 DEF WritesAwaited
  <2>4. QED
    BY <1>1, <2>1, <2>2, <2>3 DEF WritesAwaited
<1>11. ASSUME CountsExact, objectStore' = [objectStore EXCEPT ![transactions[1].of] = transactions[1].list]
       PROVE  CountsExact'
  <2>1. ~opening
    BY <1>1, <1>2 DEF WritesAwaited
  <2>2. \A u \in TypeSet : Index(u) \in 1 .. Len(Types) /\ Types[Index(u)] = u
    BY TypePlaces
  <2>3. \A u \in TypeSet : Awaits(s, u) <=> Index(s.at) < Index(u)
    BY <1>5 DEF Awaits
  <2>4. next = "done" => \A u \in TypeSet : ~Awaits(s, u)
    BY <1>5, <1>6, <2>2, <2>3, TypePlaces
  <2>5. next # "done" => \A u \in TypeSet : Awaits(r, u) <=> Awaits(s, u)
    <3>1. SUFFICES ASSUME next \in TypeSet, NEW u \in TypeSet PROVE Awaits(r, u) <=> Awaits(s, u)
      BY <1>6
    <3>2. Awaits(r, u) <=> Index(next) < Index(u) \/ next = u
      BY <1>7 DEF Awaits
    <3>3. next = u <=> Index(next) = Index(u)
      BY <2>2, <3>1
    <3>4. Index(next) \in Nat /\ Index(u) \in Nat /\ Index(s.at) \in Nat /\ Index(next) = Index(s.at) + 1
      BY <1>5, <1>6, <2>2, <3>1
    <3>5. QED
      BY <2>3, <3>2, <3>3, <3>4
  <2>6. \A u \in TypeSet : Pending(u)' = Pending(u)
    <3>1. \A u : Pending(u)' = UNION {q.conns : q \in {p \in saving' : Awaits(p, u)}}
      BY DEF Pending, Awaits
    <3>2. \A u \in TypeSet : \A c : c \in Pending(u)' <=> c \in Pending(u)
      BY <1>1, <1>4, <1>7, <2>4, <2>5, <3>1 DEF Pending
    <3>3. QED
      BY <3>2
  <2>7. \A u \in TypeSet : Merged(u)' = Merged(u)
    BY <1>1, <2>6 DEF Merged
  <2>8. \A q \in saving', u \in TypeSet : Awaits(q, u) => q.conns \subseteq counted'[u]
    BY <1>1, <1>4, <1>7, <1>11, <2>5 DEF CountsExact
  <2>9. loading = "done" /\ clearing = {}
    BY <1>4, <1>5, <1>11 DEF CountsExact
  <2>10. \A u \in TypeSet : Settles(transactions', objectStore'[u], cache[u], u)
    <3>1. ASSUME NEW u \in TypeSet
          PROVE  objectStore'[u] = IF Touches(x, u) THEN Leaves(x, u) ELSE objectStore[u]
      BY <1>1, <1>2, <1>5, <1>11 DEF Touches, Leaves, HistoryTyped, AreCounts, x
    <3>2. \A u \in TypeSet : Settles(transactions, objectStore[u], cache[u], u)
      BY <1>11, <2>1 DEF CountsExact
    <3>3. QED
      BY <1>1, <1>3, <3>1, <3>2, SettledByFirst DEF x
  <2>11. \A i \in DOMAIN transactions' : transactions'[i].kind # "load"
    BY <1>1, <1>10, <2>9, TypePlaces DEF WritesAwaited, QueueSound, IsWrite
  <2>12. QED
    BY <1>1, <1>11, <2>1, <2>7, <2>8, <2>9, <2>10, <2>11 DEF CountsExact, Awaits
<1>12. QED
  BY <1>8, <1>9, <1>10, <1>11

LEMMA SaveStoredStep ==
  ASSUME ConnectionsAssumption, ConnectionsInv, SaveStored PROVE ConnectionsInv'
<1>1. /\ Ends("save") /\ SaveGoesOn /\ excused' = excused
      /\ objectStore' = [objectStore EXCEPT ![transactions[1].of] = transactions[1].list]
  BY DEF SaveStored
<1>2. HistoryTyped /\ WritesAwaited
  BY DEF ConnectionsInv
<1>3. transactions[1].of \in TypeSet /\ transactions[1].list \in [KeysOf(transactions[1].of) -> Nat]
  BY <1>1, <1>2, QueueRest DEF Ends, WritesAwaited, QueueSound, IsWrite
<1>4. AreCounts(objectStore')
  BY <1>1, <1>2, <1>3 DEF HistoryTyped, AreCounts
<1>5. excused' \in BOOLEAN
  BY <1>1, <1>2 DEF HistoryTyped
<1>6. QED
  BY <1>1, <1>4, <1>5, SaveMovesOn DEF ConnectionsInv

\* No save has begun: all their connections are to come.
LEMMA NoneBegun ==
  ASSUME ConnectionsAssumption, CountsExact, loading # "done" \/ clearing # {}
  PROVE  /\ \A s \in saving : s.at = Types[1] /\ ~s.waits
         /\ \A s \in saving, t \in TypeSet : s.conns \subseteq counted[t]
<1>1. \A s \in saving : s.at = Types[1] /\ ~s.waits
  BY DEF CountsExact
<1>2. Index(Types[1]) = 1
  BY TypePlaces
<1>3. \A t \in TypeSet : Index(t) > 1 \/ t = Types[1]
  <2>1. \A t \in TypeSet : Index(t) \in Nat /\ Index(t) >= 1 /\ Types[Index(t)] = t
    BY TypePlaces
  <2>2. QED
    BY <2>1
<1>4. \A s \in saving, t \in TypeSet : Awaits(s, t)
  BY <1>1, <1>2, <1>3 DEF Awaits
<1>5. QED
  BY <1>1, <1>4 DEF CountsExact

LEMMA DatabaseOpensStep ==
  ASSUME ConnectionsAssumption, ConnectionsInv, DatabaseOpens PROVE ConnectionsInv'
<1>1. /\ opening /\ ~opening' /\ Load(loading, memory, objectStore, transactions)
      /\ UNCHANGED <<live, opened, active, previous, objectStore, saving, clearing, excused>>
  BY DEF DatabaseOpens, kernelVars, listVars, cleanVars
<1>2. HistoryTyped /\ ClosedOnce /\ WritesAwaited
  BY DEF ConnectionsInv
<1>3. /\ transactions = <<>> /\ loading = Types[1] /\ Types[1] \in TypeSet /\ loading # "done"
      /\ From(loading) = TypeSet /\ clearing = {}
  BY <1>1, <1>2, FromTypes, TypePlaces DEF WritesAwaited
<1>4. \A i \in DOMAIN transactions : FALSE
  BY <1>3
<1>5. QueueSound(transactions, saving, clearing') /\ transactions \in Seq(ToSet(transactions))
  BY <1>1, <1>2 DEF WritesAwaited, QueueSound
<1>6. AreCounts(memory) /\ AreCounts(objectStore) /\ AreCounts(objectStore')
  BY <1>1, <1>2 DEF HistoryTyped
<1>7. HistoryTyped' /\ ClosedOnce' /\ WritesAwaited'
  BY <1>1, <1>2, <1>3, <1>4, <1>5, <1>6, LoadSound
<1>8. ASSUME CountsExact PROVE CountsExact'
  <2>1. /\ \A s \in saving : s.at = Types[1] /\ ~s.waits
        /\ \A s \in saving, u \in TypeSet : s.conns \subseteq counted[u]
    BY <1>3, <1>8, NoneBegun
  <2>2. \A u \in TypeSet : objectStore[u] = aggregateConnections(Merged(u), u)
    BY <1>1, <1>8 DEF CountsExact
  <2>3. \A u \in TypeSet : Settles(transactions, objectStore'[u], objectStore[u], u)
    BY <1>1, <1>4 DEF Settles
  <2>4. QED
    BY <1>1, <1>2, <1>3, <1>4, <1>5, <1>6, <2>1, <2>2, <2>3, LoadExact
<1>9. QED
  BY <1>1, <1>7, <1>8 DEF ConnectionsInv

LEMMA CutStoredStep ==
  ASSUME ConnectionsAssumption, ConnectionsInv, CutStored PROVE ConnectionsInv'
<1> DEFINE x == transactions[1]
           t == x.of
           mem == [memory EXCEPT ![t] = x.list]
           rest == Tail(transactions)
<1>1. /\ transactions # <<>> /\ x.kind = "load" /\ objectStore' = [objectStore EXCEPT ![t] = x.list]
      /\ Load(After(t), mem, cache, rest)
      /\ UNCHANGED <<live, opened, active, previous, opening, saving, clearing, excused>>
  BY DEF CutStored, Ends, kernelVars, listVars, cleanVars
<1>2. HistoryTyped /\ ClosedOnce /\ WritesAwaited
  BY DEF ConnectionsInv
<1>3. transactions \in Seq(ToSet(transactions)) /\ 1 \in DOMAIN transactions /\ IsWrite(x, clearing)
  BY <1>1, <1>2, QueueRest DEF WritesAwaited, QueueSound
<1>4. t \in TypeSet /\ x.list \in [KeysOf(t) -> Nat] /\ t = loading /\ ~opening
  BY <1>1, <1>2, <1>3 DEF WritesAwaited, IsWrite
<1> HIDE DEF x, t, rest
<1>5. AreCounts(mem) /\ AreCounts(cache) /\ AreCounts(objectStore')
  BY <1>1, <1>2, <1>4 DEF HistoryTyped, AreCounts
<1>6. mem[t] = x.list /\ \A u \in TypeSet \ {t} : mem[u] = memory[u]
  BY <1>2, <1>4 DEF HistoryTyped, AreCounts
<1> HIDE DEF mem
<1>7. After(t) \in TypeSet \union {"done"} /\ From(After(t)) = From(t) \ {t}
  BY <1>4, FromTypes
<1>8. QueueSound(rest, saving, clearing')
  BY <1>1, <1>2, FirstDone DEF WritesAwaited, rest
<1>9. \A i \in DOMAIN rest : rest[i].kind # "load"
  <2>1. \A i \in DOMAIN rest : rest[i] = transactions[i + 1] /\ i + 1 \in DOMAIN transactions /\ i + 1 # 1
    BY <1>1, <1>3, QueueRest DEF rest
  <2>2. \A i \in DOMAIN rest : Unlike(rest[i], x)
    BY <1>2, <1>3, <2>1 DEF WritesAwaited, QueueSound, x
  <2>3. QED
    BY <1>1, <2>2 DEF Unlike
<1>10. HistoryTyped' /\ ClosedOnce' /\ WritesAwaited'
  BY <1>1, <1>2, <1>4, <1>5, <1>7, <1>8, <1>9, LoadSound
<1>11. ASSUME CountsExact PROVE CountsExact'
  <2>1. /\ \A s \in saving : s.at = Types[1] /\ ~s.waits
        /\ \A s \in saving, u \in TypeSet : s.conns \subseteq counted[u]
    BY <1>4, <1>11, NoneBegun, TypePlaces
  <2>2. \A u \in TypeSet : cache[u] = aggregateConnections(Merged(u), u)
    BY <1>4, <1>11 DEF CountsExact
  <2>3. \A u \in TypeSet : Settles(rest, objectStore'[u], cache[u], u)
    <3>1. ASSUME NEW u \in TypeSet
          PROVE  objectStore'[u] = IF Touches(x, u) THEN Leaves(x, u) ELSE objectStore[u]
      BY <1>1, <1>2, <1>4 DEF Touches, Leaves, HistoryTyped, AreCounts, t
    <3>2. \A u \in TypeSet : Settles(transactions, objectStore[u], cache[u], u)
      BY <1>4, <1>11 DEF CountsExact
    <3>3. QED
      BY <1>1, <1>3, <3>1, <3>2, SettledByFirst DEF x, rest
  <2>4. clearing' = {} => \A u \in TypeSet \ From(After(t)) : mem[u] = cache[u]
    <3>1. clearing = {} => x.list = cache[t] /\ \A u \in TypeSet \ From(loading) : memory[u] = cache[u]
      BY <1>1, <1>3, <1>4, <1>11 DEF CountsExact, x, t
    <3>2. QED
      BY <1>1, <1>4, <1>6, <1>7, <3>1
  <2>5. rest \in Seq(ToSet(rest))
    BY <1>8 DEF QueueSound
  <2>6. QED
    BY <1>1, <1>2, <1>4, <1>5, <1>7, <1>9, <2>1, <2>2, <2>3, <2>4, <2>5, LoadExact
<1>12. QED
  BY <1>1, <1>10, <1>11 DEF ConnectionsInv

LEMMA ClearStoredStep ==
  ASSUME ConnectionsAssumption, ConnectionsInv, ClearStored PROVE ConnectionsInv'
<1> DEFINE x == transactions[1]
           rest == Tail(transactions)
<1>1. /\ transactions # <<>> /\ x.kind = "clear" /\ loading = "done" /\ objectStore' = NoRows
      /\ Load(Types[1], NoRows, cache, rest)
      /\ clearing' = clearing \ {x.of}
      /\ UNCHANGED <<live, opened, active, previous, opening, saving, excused>>
  BY DEF ClearStored, Ends, kernelVars, listVars
<1>2. HistoryTyped /\ ClosedOnce /\ WritesAwaited
  BY DEF ConnectionsInv
<1>3. /\ transactions \in Seq(ToSet(transactions)) /\ 1 \in DOMAIN transactions
      /\ x.list = NoRows /\ x.of \in clearing
  BY <1>1, <1>2, QueueRest DEF WritesAwaited, QueueSound, IsWrite
<1>4. ~opening
  BY <1>1, <1>2 DEF WritesAwaited
<1> HIDE DEF x, rest
<1>5. AreCounts(NoRows) /\ AreCounts(cache) /\ AreCounts(objectStore')
  BY <1>1, <1>2 DEF HistoryTyped, AreCounts, NoRows
<1>6. QueueSound(rest, saving, clearing')
  BY <1>1, <1>2, FirstDone DEF WritesAwaited, rest, x
<1>7. \A i \in DOMAIN rest : rest[i].kind # "load"
  <2>1. \A i \in DOMAIN transactions : transactions[i].kind # "load"
    BY <1>1, <1>2, TypePlaces DEF WritesAwaited, QueueSound, IsWrite
  <2>2. \A i \in DOMAIN rest : rest[i] = transactions[i + 1] /\ i + 1 \in DOMAIN transactions
    BY <1>1, <1>3, QueueRest DEF rest
  <2>3. QED
    BY <2>1, <2>2
<1>8. Types[1] \in TypeSet /\ From(Types[1]) = TypeSet
  BY FromTypes
<1>9. HistoryTyped' /\ ClosedOnce' /\ WritesAwaited'
  <2>1. ~opening' /\ excused' = excused /\ UNCHANGED <<live, opened, active, previous, saving>>
    BY <1>1, <1>4
  <2>2. Types[1] \in TypeSet \union {"done"} /\ Load(Types[1], NoRows, cache, rest)
    BY <1>1, <1>8
  <2>3. QED
    <3> PICK t \in TypeSet \union {"done"} : t = Types[1]
      BY <2>2
    <3>1. Load(t, NoRows, cache, rest)
      BY <2>2
    <3> QED
      BY <1>2, <1>5, <1>6, <1>7, <2>1, <3>1, LoadSound
<1>10. ASSUME CountsExact PROVE CountsExact'
  <2>1. /\ \A s \in saving : s.at = Types[1] /\ ~s.waits
        /\ \A s \in saving, u \in TypeSet : s.conns \subseteq counted[u]
    BY <1>3, <1>10, NoneBegun
  <2>2. \A u \in TypeSet : cache[u] = aggregateConnections(Merged(u), u)
    BY <1>4, <1>10 DEF CountsExact
  <2>3. \A u \in TypeSet : Settles(rest, objectStore'[u], cache[u], u)
    <3>1. \A u \in TypeSet : Touches(x, u) /\ Leaves(x, u) = objectStore'[u]
      BY <1>1, <1>3 DEF Touches, Leaves
    <3>2. \A u \in TypeSet : Settles(transactions, objectStore[u], cache[u], u)
      BY <1>4, <1>10 DEF CountsExact
    <3>3. QED
      BY <1>1, <1>3, <3>1, <3>2, SettledByFirst DEF x, rest
  <2>4. rest \in Seq(ToSet(rest))
    BY <1>6 DEF QueueSound
  <2>5. QED
    BY <1>1, <1>2, <1>4, <1>5, <1>7, <1>8, <2>1, <2>2, <2>3, <2>4, LoadExact
<1>11. QED
  BY <1>1, <1>9, <1>10 DEF ConnectionsInv

LEMMA WriteFailsStep ==
  ASSUME ConnectionsAssumption, ConnectionsInv, WriteFails PROVE ConnectionsInv'
<1>1. excused' = TRUE /\ objectStore' = objectStore
  BY DEF WriteFails
<1>2. HistoryTyped /\ ClosedOnce /\ WritesAwaited
  BY DEF ConnectionsInv
<1>3. CASE Ends("save") /\ SaveGoesOn
  BY <1>1, <1>2, <1>3, SaveMovesOn DEF ConnectionsInv, HistoryTyped
<1>4. CASE /\ Ends("load") \/ Ends("clear")
           /\ transactions' = Tail(transactions)
           /\ clearing' = IF Ends("clear") THEN clearing \ {transactions[1].of} ELSE clearing
           /\ UNCHANGED <<kernelVars, listVars, controlVars, opening, memory, cache, loading, saving,
                          showDialog, due, counted>>
  <2>1. transactions # <<>> /\ UNCHANGED <<live, opened, active, previous, opening, memory, cache,
                                           loading, saving, counted>>
    BY <1>4 DEF Ends, kernelVars, listVars
  <2>2. HistoryTyped' /\ ClosedOnce'
    BY <1>1, <1>2, <2>1 DEF HistoryTyped, ClosedOnce, AreCounts
  <2>3. QueueSound(transactions', saving', clearing')
    BY <1>2, <1>4, <2>1, FirstDone DEF WritesAwaited, Ends
  <2>4. \A i \in DOMAIN transactions' : transactions'[i].kind = "load" => transactions'[i].of = loading
    <3>1. transactions \in Seq(ToSet(transactions))
      BY <1>2 DEF WritesAwaited, QueueSound
    <3>2. QED
      BY <1>2, <1>4, <2>1, <3>1, QueueRest DEF WritesAwaited
  <2>5. ~opening
    BY <1>2, <2>1 DEF WritesAwaited
  <2>6. QED
    BY <1>1, <2>1, <2>2, <2>3, <2>4, <2>5 DEF ConnectionsInv, WritesAwaited
<1>5. QED
  BY <1>3, <1>4 DEF WriteFails

LEMMA ClearStep ==
  ASSUME ConnectionsAssumption, ConnectionsInv, NEW who, Clear(who) PROVE ConnectionsInv'
<1> DEFINE x == [kind |-> "clear", of |-> who, list |-> NoRows, conns |-> {}]
<1>1. /\ ~opening /\ who \notin clearing
      /\ cache' = NoRows /\ clearing' = clearing \union {who}
      /\ transactions' = Append(transactions, x)
      /\ counted' = [t \in TypeSet |-> {}] /\ excused' = (excused \/ saving # {})
      /\ UNCHANGED <<live, opened, active, previous, opening, memory, objectStore, loading, saving>>
  BY DEF Clear, Write, kernelVars, listVars
<1>2. HistoryTyped /\ ClosedOnce /\ WritesAwaited
  BY DEF ConnectionsInv
<1>3. x.kind = "clear" /\ x.of = who /\ x.list = NoRows
  OBVIOUS
<1> HIDE DEF x
<1>4. HistoryTyped' /\ ClosedOnce'
  <2>1. AreCounts(NoRows)
    BY DEF AreCounts, NoRows
  <2>2. QED
    BY <1>1, <1>2, <2>1 DEF HistoryTyped, ClosedOnce, AreCounts
<1>5. WritesAwaited'
  <2>1. QueueSound(transactions, saving, clearing')
    BY <1>1, <1>2, QueueKept DEF WritesAwaited
  <2>2. \A i \in DOMAIN transactions : Unlike(transactions[i], x) /\ Unlike(x, transactions[i])
    BY <1>1, <1>2, <1>3 DEF WritesAwaited, QueueSound, IsWrite, Unlike
  <2>3. QueueSound(transactions', saving, clearing')
    BY <1>1, <1>3, <2>1, <2>2, WriteAdded DEF IsWrite
  <2>4. \A i \in DOMAIN transactions' :
          (i \in DOMAIN transactions /\ transactions'[i] = transactions[i]) \/ transactions'[i] = x
    BY <1>1, <1>2, QueueEnd DEF WritesAwaited, QueueSound
  <2>5. QED
    BY <1>1, <1>2, <1>3, <2>3, <2>4 DEF WritesAwaited
<1>6. ASSUME saving = {} PROVE CountsExact'
  <2>1. \A t \in TypeSet : Merged(t)' = {}
    BY <1>1 DEF Merged
  <2>2. \A t \in TypeSet : cache'[t] = aggregateConnections(Merged(t)', t)
    BY <1>1, <2>1, CountsNone
  <2>3. \A t \in TypeSet : Touches(x, t) /\ Leaves(x, t) = cache'[t]
    BY <1>1, <1>3 DEF Touches, Leaves
  <2>4. \A t \in TypeSet : Settles(transactions', objectStore[t], cache'[t], t)
    BY <1>1, <1>2, <2>3, SettledByLast DEF WritesAwaited, QueueSound
  <2>5. QED
    BY <1>1, <1>6, <2>2, <2>4 DEF CountsExact
<1>7. QED
  BY <1>1, <1>4, <1>5, <1>6 DEF ConnectionsInv

LEMMA ReloadStep ==
  ASSUME ConnectionsAssumption, ConnectionsInv, Reload PROVE ConnectionsInv'
<1>1. /\ active' = {} /\ previous' = {} /\ opening' = TRUE /\ memory' = NoRows /\ cache' = NoRows
      /\ transactions' = <<>> /\ loading' = Types[1] /\ saving' = {} /\ clearing' = {}
      /\ excused' = (excused \/ saving # {} \/ transactions # <<>>)
      /\ UNCHANGED <<live, opened, objectStore, counted>>
  BY DEF Reload, kernelVars
<1>2. HistoryTyped /\ ClosedOnce
  BY DEF ConnectionsInv
<1>3. HistoryTyped' /\ ClosedOnce'
  <2>1. AreCounts(NoRows) /\ Types[1] \in TypeSet
    BY FromTypes DEF AreCounts, NoRows
  <2>2. QED
    BY <1>1, <1>2, <2>1 DEF HistoryTyped, ClosedOnce, AreCounts
<1>4. WritesAwaited'
  BY <1>1 DEF WritesAwaited, QueueSound
<1>5. ASSUME CountsExact, saving = {}, transactions = <<>> PROVE CountsExact'
  <2>1. \A t \in TypeSet : Merged(t)' = counted[t] /\ Merged(t) = counted[t]
    BY <1>1, <1>5 DEF Merged, Pending
  <2>2. \A t \in TypeSet : objectStore[t] = aggregateConnections(Merged(t), t)
    BY <1>5 DEF CountsExact, Settles
  <2>3. QED
    BY <1>1, <2>1, <2>2 DEF CountsExact
<1>6. QED
  BY <1>1, <1>3, <1>4, <1>5 DEF ConnectionsInv

LEMMA NextConnections ==
  ASSUME ConnectionsAssumption PROVE ConnectionsInv /\ [ConnectionsNext]_connVars => ConnectionsInv'
<1> SUFFICES ASSUME ConnectionsInv, [ConnectionsNext]_connVars PROVE ConnectionsInv'
  OBVIOUS
<1> USE DEF kernelVars, listVars, controlVars, cleanVars
<1>1. live \subseteq opened /\ opened \subseteq Conns
  BY DEF ConnectionsInv, HistoryTyped
<1>2. CASE UNCHANGED connVars
  BY <1>1, <1>2, HistoryApart DEF connVars
<1>3. CASE Opens
  BY <1>1, <1>3, HistoryApart DEF Opens
<1>4. CASE Closes \/ Control \/ handlerClickCloseAll \/ CloseOne \/ AskClear
  BY <1>1, <1>4, HistoryApart DEF Closes, Control, handlerClickCloseAll, CloseOne, AskClear
<1>5. CASE handleClearHistory \/ checkAndPerformAutoCleanup
  <2>1. CASE handleClearHistory
    BY <2>1, ClearStep DEF handleClearHistory
  <2>2. CASE due /\ Clear("auto")
    BY <2>2, ClearStep
  <2>3. CASE UNCHANGED <<kernelVars, listVars, controlVars, storeVars, showDialog, clearing, ghostVars>>
    BY <1>1, <2>3, HistoryApart
  <2>4. QED
    BY <1>5, <2>1, <2>2, <2>3 DEF checkAndPerformAutoCleanup
<1>6. QED
  BY <1>2, <1>3, <1>4, <1>5, ReportStep, DatabaseOpensStep, SaveStepStep, SaveStoredStep,
     CutStoredStep, ClearStoredStep, WriteFailsStep, ReloadStep
     DEF ConnectionsNext

\* At rest the history of every type counts each connection that closed since it was last
\* cleared exactly once, in memory, in the cache and in the database, and the card counts each
\* connection once, open or closed, for any connections, types and keys and however reports,
\* saves, loads and reloads interleave (connections.ts:87-94, connHistory.ts:33-54, 125-144).
THEOREM HistoryAlwaysExact == ASSUME ConnectionsAssumption PROVE ConnectionsSpec => []HistoryExact
<1>1. ConnectionsInv => HistoryExact
  <2> SUFFICES ASSUME ConnectionsInv, ~opening, loading = "done", saving = {}, clearing = {},
                      transactions = <<>>, ~excused, NEW t \in TypeSet
               PROVE  /\ memory[t] = aggregateConnections(counted[t], t)
                      /\ cache[t] = memory[t] /\ objectStore[t] = memory[t]
                      /\ aggregatedData(t) = aggregateConnections(counted[t] \union active, t)
    BY DEF HistoryExact
  <2>1. CountsExact /\ HistoryTyped /\ ClosedOnce
    BY DEF ConnectionsInv
  <2>2. Merged(t) = counted[t]
    BY DEF Merged, Pending
  <2>3. memory[t] = cache[t] /\ cache[t] = aggregateConnections(counted[t], t)
    BY <2>1, <2>2, FromTypes DEF CountsExact
  <2>4. objectStore[t] = cache[t]
    BY <2>1 DEF CountsExact, Settles
  <2>5. counted[t] \in SUBSET Conns /\ active \in SUBSET Conns /\ counted[t] \intersect active = {}
    BY <2>1 DEF HistoryTyped, ClosedOnce
  <2>6. QED
    BY <2>3, <2>4, <2>5, CountsMerge DEF aggregatedData
<1>2. QED
  BY InitConnections, NextConnections, <1>1, PTL DEF ConnectionsSpec

-----------------------------------------------------------------------------
(* The page of proxies.  Unless two fetches had one stamp or one failed, at most one fetch is *)
(* current, and what it will show is the kernel's choice; or a handler is still to fetch; or  *)
(* the choice is on the page.                                                                 *)

FlowStages == {"request", "fetch", "again", "timer"}
CurrentFetches == {f \in fetches : Current(f)}

FetchRow == [id : 1 .. started, of : 0 .. pushes, stamp : 1 .. fetchTime,
             read : Nodes \union {NoNode}]
FlowRow == [id : 1 .. pushes, kind : Buttons \union {"select"}, stage : FlowStages,
            node : Nodes \union {NoNode}, held : Nodes \union {NoNode},
            attached : BOOLEAN, done : BOOLEAN]

PageTyped ==
  /\ choice \in Nodes /\ through \in BOOLEAN /\ shown \in Nodes \union {NoNode}
  /\ busy \subseteq Buttons /\ boardTab \in {"proxies", "provider"} /\ pushes \in 0 .. MaxPushes

FetchesTyped ==
  /\ started \in Nat /\ fetchTime \in 1 .. started /\ fetches \subseteq FetchRow
  /\ twins \in BOOLEAN /\ lost \in BOOLEAN

FlowsTyped ==
  /\ flows \subseteq FlowRow
  /\ \A w \in flows : w.kind = "select" => w.node \in Nodes

\* A flow has its own number, and one that is awaited has one fetch.
FlowsApart ==
  /\ \A v, w \in flows : v.id = w.id => v = w
  /\ \A f, g \in fetches : f.of = g.of /\ f.of # 0 => f = g
  /\ \A f \in fetches, w \in flows : w.id = f.of => w.stage \in {"fetch", "again"}

\* The kernel has done what a handler asked for that has still to fetch.
WillFetch(w) == w.kind \in Replaces /\ w.done /\ w.stage \in {"request", "timer"}

ChoiceFollowed ==
  /\ \A f, g \in CurrentFetches : f = g
  /\ \/ \E w \in flows : WillFetch(w)
     \/ \E f \in CurrentFetches : f.read \in {NoNode, choice}
     \/ CurrentFetches = {} /\ shown = choice

BoardInv ==
  PageTyped /\ FetchesTyped /\ FlowsTyped /\ FlowsApart /\ (twins \/ lost \/ ChoiceFollowed)

LEMMA InitBoard == ASSUME ProxyBoardAssumption PROVE ProxyBoardInit => BoardInv
<1> SUFFICES ASSUME ProxyBoardInit PROVE BoardInv
  OBVIOUS
<1> DEFINE begun == [id |-> 1, of |-> 0, stamp |-> 1, read |-> NoNode]
<1>0. /\ choice \in Nodes /\ through = FALSE /\ shown = NoNode /\ fetchTime = 1 /\ started = 1
      /\ fetches = {begun} /\ flows = {} /\ busy = {} /\ boardTab = "proxies"
      /\ twins = FALSE /\ lost = FALSE /\ pushes = 0 /\ MaxPushes \in Nat
      /\ begun.of = 0 /\ begun.stamp = 1 /\ begun.read = NoNode
  BY DEF ProxyBoardAssumption, ProxyBoardInit
<1>1. PageTyped /\ FlowsTyped
  <2>1. pushes \in 0 .. MaxPushes
    BY <1>0
  <2> HIDE DEF begun
  <2> QED
    BY <1>0, <2>1 DEF PageTyped, FlowsTyped
<1>2. FetchesTyped
  <2>1. begun \in FetchRow
    BY <1>0 DEF FetchRow
  <2>2. started \in Nat /\ fetchTime \in 1 .. started
    BY <1>0
  <2> HIDE DEF begun
  <2>3. fetches \subseteq FetchRow
    BY <1>0, <2>1
  <2> QED
    BY <1>0, <2>2, <2>3 DEF FetchesTyped
<1> HIDE DEF begun
<1>3. FlowsApart
  BY <1>0 DEF FlowsApart
<1>4. ChoiceFollowed
  <2>1. CurrentFetches = {begun}
    BY <1>0 DEF CurrentFetches, Current
  <2> QED
    BY <1>0, <2>1 DEF ChoiceFollowed
<1> QED
  BY <1>1, <1>2, <1>3, <1>4 DEF BoardInv

\* A fetch that starts is the current one, and the only one unless two share their time.
LEMMA FetchStarts ==
  ASSUME ProxyBoardAssumption, BoardInv, NEW fs, fs \subseteq fetches, NEW of,
         of \in 0 .. pushes', pushes' \in Nat, pushes <= pushes', fetchProxies(fs, of),
         \A f \in fs : f.of = of => of = 0
  PROVE  /\ FetchesTyped'
         /\ \A f, g \in fetches' : f.of = g.of /\ f.of # 0 => f = g
         /\ \A f \in fetches' : f \in fs \/ f.of = of
         /\ twins' \/ ChoiceFollowed'
<1> DEFINE new == [id |-> started + 1, of |-> of, stamp |-> fetchTime', read |-> NoNode]
<1>1. /\ started \in Nat /\ fetchTime \in 1 .. started /\ fetches \subseteq FetchRow
      /\ twins \in BOOLEAN /\ pushes \in Nat
      /\ \A f, g \in fetches : f.of = g.of /\ f.of # 0 => f = g
  BY DEF BoardInv, FetchesTyped, FlowsApart, PageTyped, ProxyBoardAssumption
<1>2. /\ started' = started + 1 /\ fetchTime' \in {started + 1, fetchTime}
      /\ fetches' = fs \union {new} /\ lost' = FALSE
      /\ twins' = (fetchTime' = fetchTime /\ (twins \/ \E f \in fs : f.stamp = fetchTime))
  BY DEF fetchProxies
<1>3. \A f \in fs : f \in FetchRow
  BY <1>1
<1>4. started' \in Nat /\ fetchTime' \in 1 .. started' /\ fetchTime <= fetchTime'
  BY <1>1, <1>2
<1>5. new \in FetchRow'
  BY <1>1, <1>2, <1>4 DEF FetchRow
<1>6. \A f \in fs : f \in FetchRow'
  BY <1>1, <1>2, <1>3, <1>4 DEF FetchRow
<1>7. FetchesTyped'
  <2>1. twins' \in BOOLEAN /\ lost' \in BOOLEAN
    BY <1>2
  <2>2. fetches' \subseteq FetchRow'
    BY <1>2, <1>5, <1>6
  <2> QED
    BY <1>4, <2>1, <2>2 DEF FetchesTyped
<1>8. new.of = of /\ new.stamp = fetchTime' /\ new.read = NoNode
  OBVIOUS
<1>9. \A f, g \in fetches' : f.of = g.of /\ f.of # 0 => f = g
  BY <1>1, <1>2, <1>8
<1>10. ASSUME ~twins', NEW f \in fs PROVE f.stamp # fetchTime'
  <2>1. CASE fetchTime' = fetchTime
    BY <1>2, <1>10, <2>1
  <2>2. CASE fetchTime' = started + 1
    BY <1>1, <1>3, <2>2 DEF FetchRow
  <2> QED
    BY <1>2, <2>1, <2>2
<1>11. ASSUME ~twins' PROVE ChoiceFollowed'
  <2>1. CurrentFetches' = {new}
    BY <1>2, <1>8, <1>10, <1>11 DEF CurrentFetches, Current
  <2> QED
    BY <1>8, <2>1 DEF ChoiceFollowed
<1> QED
  BY <1>2, <1>7, <1>8, <1>9, <1>11

\* What keeps the fetches and the choice keeps what is known of them.
LEMMA NoFetchStarts ==
  ASSUME BoardInv, NoFetch, pushes' \in Nat, pushes <= pushes'
  PROVE  /\ FetchesTyped' /\ fetches' = fetches /\ CurrentFetches' = CurrentFetches
         /\ twins' = twins /\ lost' = lost
<1>1. /\ UNCHANGED <<started, fetchTime, fetches, twins, lost>> /\ FetchesTyped /\ pushes \in Nat
  BY DEF NoFetch, BoardInv, PageTyped
<1>2. fetches' \subseteq FetchRow'
  BY <1>1 DEF FetchesTyped, FetchRow
<1> QED
  BY <1>1, <1>2 DEF FetchesTyped, CurrentFetches, Current

\* Flows that are joined by a new one.
LEMMA FlowAdded ==
  ASSUME ProxyBoardAssumption, BoardInv, Push, NEW w, flows' = flows \union {w},
         w \in FlowRow', w.id = pushes + 1, w.kind = "select" => w.node \in Nodes
  PROVE  /\ pushes' \in 0 .. MaxPushes /\ pushes \in Nat /\ pushes' = pushes + 1
         /\ FlowsTyped' /\ \A v, u \in flows' : v.id = u.id => v = u
         /\ \A v \in flows : v.id <= pushes
<1>1. /\ pushes \in Nat /\ pushes' = pushes + 1 /\ pushes' \in 0 .. MaxPushes
  BY DEF BoardInv, PageTyped, Push, ProxyBoardAssumption
<1>2. \A v \in flows : v \in FlowRow /\ v \in FlowRow' /\ v.id <= pushes
  BY <1>1 DEF BoardInv, FlowsTyped, FlowRow
<1>3. FlowsTyped'
  BY <1>2 DEF BoardInv, FlowsTyped
<1> QED
  BY <1>1, <1>2, <1>3 DEF BoardInv, FlowsApart

LEMMA FlowTyped ==
  ASSUME NEW k \in Buttons \union {"select"}, NEW st \in FlowStages,
         NEW n \in Nodes \union {NoNode}, pushes \in Nat, pushes' = pushes + 1
  PROVE  Flow(k, st, n) \in FlowRow'
  BY DEF Flow, FlowRow

-----------------------------------------------------------------------------
LEMMA AnswersStep ==
  ASSUME ProxyBoardAssumption, BoardInv, NEW f \in fetches, Answers(f)
  PROVE  BoardInv'
<1> DEFINE g == [f EXCEPT !.read = choice]
<1>1. /\ fetches' = (fetches \ {f}) \union {g}
      /\ UNCHANGED <<choice, through, shown, fetchTime, started, flows, busy, boardTab, twins,
                     lost, pushes>>
      /\ PageTyped /\ FetchesTyped /\ FlowsTyped /\ FlowsApart
  BY DEF Answers, BoardInv
<1>2. g \in FetchRow /\ g.of = f.of /\ g.stamp = f.stamp /\ g.read = choice
  BY <1>1 DEF FetchesTyped, FetchRow, PageTyped
<1>3. PageTyped' /\ FlowsTyped'
  BY <1>1 DEF PageTyped, FlowsTyped, FlowRow
<1>4. FetchesTyped'
  <2>1. FetchRow' = FetchRow
    BY <1>1 DEF FetchRow
  <2> QED
    BY <1>1, <1>2, <2>1 DEF FetchesTyped
<1>5. FlowsApart'
  <2>1. \A e \in fetches' : \E d \in fetches : d.of = e.of /\ (e = d \/ (d = f /\ e = g))
    BY <1>1, <1>2
  <2> HIDE DEF g
  <2>2. \A d, e \in fetches' : d.of = e.of /\ d.of # 0 => d = e
    BY <1>1, <1>2 DEF FlowsApart
  <2>3. \A e \in fetches', w \in flows' : w.id = e.of => w.stage \in {"fetch", "again"}
    BY <1>1, <2>1 DEF FlowsApart
  <2> QED
    BY <1>1, <2>2, <2>3 DEF FlowsApart
<1>6. ASSUME ChoiceFollowed PROVE ChoiceFollowed'
  <2>1. \A h \in CurrentFetches' : (h \in CurrentFetches /\ h # f) \/ (h = g /\ f \in CurrentFetches)
    BY <1>1, <1>2 DEF CurrentFetches, Current
  <2>2. \A h, e \in CurrentFetches' : h = e
    BY <1>6, <2>1 DEF ChoiceFollowed
  <2>3. CASE \E w \in flows : WillFetch(w)
    BY <1>1, <2>2, <2>3 DEF ChoiceFollowed, WillFetch
  <2>4. CASE \E h \in CurrentFetches : h.read \in {NoNode, choice}
    <3>1. PICK h \in CurrentFetches : h.read \in {NoNode, choice}
      BY <2>4
    <3>2. h # f => h \in CurrentFetches'
      BY <1>1 DEF CurrentFetches, Current
    <3>3. h = f => g \in CurrentFetches'
      BY <1>1, <1>2 DEF CurrentFetches, Current
    <3> QED
      BY <1>1, <1>2, <2>2, <3>1, <3>2, <3>3 DEF ChoiceFollowed
  <2>5. CASE CurrentFetches = {} /\ shown = choice
    BY <1>1, <2>1, <2>2, <2>5 DEF ChoiceFollowed
  <2> QED
    BY <1>6, <2>3, <2>4, <2>5 DEF ChoiceFollowed
<1> QED
  BY <1>1, <1>3, <1>4, <1>5, <1>6 DEF BoardInv

\* The flows after an answer, each with its number and node.
LEMMA ArrivesStep ==
  ASSUME ProxyBoardAssumption, BoardInv, NEW f \in fetches, Arrives(f)
  PROVE  BoardInv'
<1> DEFINE goesOn == {w \in Waiting(f) : w.kind = "select" /\ w.held # w.node}
           left == flows \ (Waiting(f) \ goesOn)
           Then(w) == [w EXCEPT !.attached = @ /\ ~Current(f),
                                !.stage = IF w \in goesOn THEN "request" ELSE @]
<1>1. /\ f.read # NoNode /\ fetches' = fetches \ {f}
      /\ shown' = IF Current(f) THEN f.read ELSE shown
      /\ flows' = {Then(w) : w \in left}
      /\ busy' = busy \ {w.kind : w \in Waiting(f)}
      /\ UNCHANGED <<choice, through, fetchTime, started, boardTab, twins, lost, pushes>>
      /\ PageTyped /\ FetchesTyped /\ FlowsTyped /\ FlowsApart
  BY DEF Arrives, BoardInv
<1>2. f \in FetchRow /\ Current(f) \in BOOLEAN
  BY <1>1 DEF FetchesTyped, Current
<1>3. ASSUME NEW w \in flows
      PROVE  /\ w \in FlowRow /\ Then(w) \in FlowRow /\ Then(w).id = w.id
             /\ Then(w).kind = w.kind /\ Then(w).node = w.node /\ Then(w).done = w.done
             /\ Then(w).stage = IF w \in goesOn THEN "request" ELSE w.stage
  <2>1. w \in FlowRow
    BY <1>1 DEF FlowsTyped
  <2> QED
    BY <1>2, <2>1 DEF FlowRow, FlowStages
<1>4. PageTyped'
  BY <1>1, <1>2 DEF PageTyped, FetchRow
<1>5. FetchesTyped'
  BY <1>1 DEF FetchesTyped, FetchRow
<1>6. FlowsTyped'
  <2>1. FlowRow' = FlowRow
    BY <1>1 DEF FlowRow
  <2>2. ASSUME NEW v \in flows'
        PROVE  v \in FlowRow' /\ (v.kind = "select" => v.node \in Nodes)
    <3>1. PICK w \in left : v = Then(w)
      BY <1>1
    <3> HIDE DEF Then
    <3> QED
      BY <1>1, <1>3, <2>1, <3>1 DEF FlowsTyped
  <2> QED
    BY <2>2 DEF FlowsTyped
<1>7. FlowsApart'
  <2>1. ASSUME NEW v \in flows', NEW w \in flows', v.id = w.id PROVE v = w
    <3>1. PICK x \in left : v = Then(x)
      BY <1>1
    <3>2. PICK y \in left : w = Then(y)
      BY <1>1
    <3>3. x.id = y.id
      BY <1>3, <2>1, <3>1, <3>2
    <3> QED
      BY <1>1, <3>1, <3>2, <3>3 DEF FlowsApart
  <2>2. ASSUME NEW e \in fetches', NEW w \in flows', w.id = e.of PROVE w.stage \in {"fetch", "again"}
    <3>1. PICK x \in left : w = Then(x)
      BY <1>1
    <3>2. x.id = e.of /\ x.id # 0 /\ e \in fetches /\ e # f
      <4>1. x \in FlowRow /\ Then(x).id = x.id
        BY <1>3
      <4>2. x.id # 0
        BY <4>1 DEF FlowRow
      <4> HIDE DEF Then
      <4> QED
        BY <1>1, <2>2, <3>1, <4>1, <4>2
    <3>3. x \notin goesOn
      BY <1>1, <3>2 DEF Waiting, FlowsApart
    <3>4. x \in flows /\ x.stage \in {"fetch", "again"}
      BY <1>1, <3>2 DEF FlowsApart
    <3>5. w.stage = x.stage
      BY <1>3, <3>1, <3>3, <3>4
    <3> QED
      BY <3>4, <3>5
  <2> QED
    BY <1>1, <2>1, <2>2 DEF FlowsApart
<1>8. ASSUME ChoiceFollowed PROVE ChoiceFollowed'
  <2>1. CurrentFetches' = CurrentFetches \ {f}
    BY <1>1 DEF CurrentFetches, Current
  <2>2. CASE \E w \in flows : WillFetch(w)
    <3>1. PICK w \in flows : WillFetch(w)
      BY <2>2
    <3>2. w \notin Waiting(f)
      BY <1>1, <3>1 DEF WillFetch, Waiting, FlowsApart
    <3>3. Then(w) \in flows' /\ WillFetch(Then(w))
      BY <1>1, <1>3, <3>1, <3>2 DEF WillFetch
    <3> QED
      BY <1>8, <2>1, <3>3 DEF ChoiceFollowed
  <2>3. CASE \E h \in CurrentFetches : h.read \in {NoNode, choice}
    <3>1. PICK h \in CurrentFetches : h.read \in {NoNode, choice}
      BY <2>3
    <3>2. CASE h = f
      <4>1. Current(f) /\ shown' = choice'
        BY <1>1, <3>1, <3>2 DEF CurrentFetches
      <4>2. CurrentFetches' = {}
        BY <1>8, <2>1, <3>1, <3>2 DEF ChoiceFollowed
      <4> QED
        BY <4>1, <4>2 DEF ChoiceFollowed
    <3>3. CASE h # f
      BY <1>1, <1>8, <2>1, <3>1, <3>3 DEF ChoiceFollowed
    <3> QED
      BY <3>2, <3>3
  <2>4. CASE CurrentFetches = {} /\ shown = choice
    <3>1. ~Current(f)
      BY <2>4 DEF CurrentFetches
    <3> QED
      BY <1>1, <2>1, <2>4, <3>1 DEF ChoiceFollowed
  <2> QED
    BY <1>8, <2>2, <2>3, <2>4 DEF ChoiceFollowed
<1> QED
  BY <1>1, <1>4, <1>5, <1>6, <1>7, <1>8 DEF BoardInv

\* The kernel's part is the same, flows are only joined by one that is in its request.
LEMMA FlowStarts ==
  ASSUME ProxyBoardAssumption, BoardInv, Push, NoFetch, NEW w, flows' = flows \union {w},
         w \in FlowRow', w.id = pushes + 1, w.kind = "select" => w.node \in Nodes,
         UNCHANGED <<choice, through, shown, boardTab>>, busy' \subseteq Buttons
  PROVE  BoardInv'
<1>1. /\ pushes' \in 0 .. MaxPushes /\ pushes \in Nat /\ pushes' = pushes + 1 /\ FlowsTyped'
      /\ \A v, u \in flows' : v.id = u.id => v = u
  BY FlowAdded
<1>2. /\ FetchesTyped' /\ fetches' = fetches /\ CurrentFetches' = CurrentFetches
      /\ twins' = twins /\ lost' = lost
  BY <1>1, NoFetchStarts
<1>3. PageTyped'
  BY <1>1 DEF BoardInv, PageTyped
<1>4. FlowsApart'
  <2>1. \A f \in fetches : f.of <= pushes /\ f.of \in Nat
    BY <1>1 DEF BoardInv, FetchesTyped, FetchRow
  <2>2. \A f \in fetches : f.of # w.id
    BY <1>1, <2>1
  <2> QED
    BY <1>1, <1>2, <2>2 DEF BoardInv, FlowsApart
<1>5. ASSUME ChoiceFollowed PROVE ChoiceFollowed'
  BY <1>2, <1>5 DEF ChoiceFollowed, WillFetch
<1> QED
  BY <1>1, <1>2, <1>3, <1>4, <1>5 DEF BoardInv

LEMMA SelectStep ==
  ASSUME ProxyBoardAssumption, BoardInv, NEW n \in Nodes, Select(n)
  PROVE  BoardInv'
<1>1. Push /\ UNCHANGED <<choice, through, shown, busy, boardTab>>
  BY DEF Select
<1>2. pushes \in Nat /\ pushes' = pushes + 1 /\ busy' \subseteq Buttons
  BY <1>1 DEF Push, BoardInv, PageTyped
<1>3. CASE shown = n
  <2> DEFINE w == Flow("select", "fetch", n)
  <2>1. flows' = flows \union {w} /\ fetchProxies(fetches, pushes + 1)
    BY <1>3 DEF Select
  <2>2. w \in FlowRow' /\ w.id = pushes + 1 /\ w.stage = "fetch" /\ w.node = n
    <3>1. "select" \in Buttons \union {"select"} /\ "fetch" \in FlowStages
      BY DEF FlowStages
    <3>2. w \in FlowRow'
      BY <1>2, <3>1, FlowTyped
    <3> QED
      BY <3>2 DEF Flow
  <2> HIDE DEF w
  <2>3. /\ pushes' \in 0 .. MaxPushes /\ FlowsTyped'
        /\ \A v, u \in flows' : v.id = u.id => v = u
        /\ \A v \in flows : v.id <= pushes
    BY <1>1, <2>1, <2>2, FlowAdded
  <2>4. \A f \in fetches : f.of <= pushes /\ f.of \in Nat
    BY <1>2 DEF BoardInv, FetchesTyped, FetchRow
  <2>5. /\ FetchesTyped'
        /\ \A f, g \in fetches' : f.of = g.of /\ f.of # 0 => f = g
        /\ \A f \in fetches' : f \in fetches \/ f.of = pushes + 1
        /\ twins' \/ ChoiceFollowed'
    BY <1>2, <2>1, <2>4, FetchStarts
  <2>6. PageTyped'
    BY <1>1, <2>3 DEF BoardInv, PageTyped
  <2>7. FlowsApart'
    <3>1. ASSUME NEW f \in fetches', NEW v \in flows', v.id = f.of
          PROVE  v.stage \in {"fetch", "again"}
      <4>1. CASE v = w
        BY <2>2, <4>1
      <4>2. CASE v # w
        <5>1. v \in flows /\ v.id <= pushes /\ v.id \in Nat
          BY <2>1, <2>3, <4>2 DEF BoardInv, FlowsTyped, FlowRow
        <5>2. f \in fetches
          BY <1>2, <2>5, <3>1, <5>1
        <5> QED
          BY <3>1, <5>1, <5>2 DEF BoardInv, FlowsApart
      <4> QED
        BY <4>1, <4>2
    <3> QED
      BY <2>3, <2>5, <3>1 DEF FlowsApart
  <2> QED
    BY <2>3, <2>5, <2>6, <2>7 DEF BoardInv
<1>4. CASE shown # n
  <2> DEFINE w == Flow("select", "request", n)
  <2>1. flows' = flows \union {w} /\ NoFetch
    BY <1>4 DEF Select
  <2>2. "select" \in Buttons \union {"select"} /\ "request" \in FlowStages
    BY DEF FlowStages
  <2>3. w \in FlowRow'
    BY <1>2, <2>2, FlowTyped
  <2>4. w.id = pushes + 1 /\ w.node = n
    BY DEF Flow
  <2> HIDE DEF w
  <2> QED
    BY <1>1, <1>2, <2>1, <2>3, <2>4, FlowStarts
<1> QED
  BY <1>3, <1>4

LEMMA PressStep ==
  ASSUME ProxyBoardAssumption, BoardInv, NEW b \in Buttons, Press(b)
  PROVE  BoardInv'
<1> DEFINE w == Flow(b, "request", NoNode)
<1>1. /\ Push /\ busy' = busy \union {b} /\ flows' = flows \union {w} /\ NoFetch
      /\ UNCHANGED <<choice, through, shown, boardTab>>
  BY DEF Press
<1>2. pushes \in Nat /\ pushes' = pushes + 1 /\ busy' \subseteq Buttons
  BY <1>1 DEF Push, BoardInv, PageTyped
<1>3. w \in FlowRow'
  BY <1>2, FlowTyped DEF FlowStages
<1>4. w.id = pushes + 1 /\ w.kind # "select"
  BY DEF Flow, Buttons, Tests, Updates, Core
<1> HIDE DEF w
<1> QED
  BY <1>1, <1>2, <1>3, <1>4, FlowStarts

\* A fetch that nobody awaits.
LEMMA FetchAlone ==
  ASSUME ProxyBoardAssumption, BoardInv, fetchProxies(fetches, 0), PageTyped', FlowsTyped',
         pushes <= pushes', \A v, w \in flows' : v.id = w.id => v = w,
         \A w \in flows' : \E v \in flows : v.id = w.id /\ v.stage = w.stage
  PROVE  BoardInv'
<1>1. pushes \in Nat /\ pushes' \in Nat
  BY DEF BoardInv, PageTyped, ProxyBoardAssumption
<1>2. /\ FetchesTyped'
      /\ \A f, g \in fetches' : f.of = g.of /\ f.of # 0 => f = g
      /\ \A f \in fetches' : f \in fetches \/ f.of = 0
      /\ twins' \/ ChoiceFollowed'
  BY <1>1, FetchStarts
<1>3. ASSUME NEW f \in fetches', NEW w \in flows', w.id = f.of PROVE w.stage \in {"fetch", "again"}
  <2>1. PICK v \in flows : v.id = w.id /\ v.stage = w.stage
    OBVIOUS
  <2>2. v.id # 0
    BY DEF BoardInv, FlowsTyped, FlowRow
  <2>3. f \in fetches
    BY <1>2, <1>3, <2>1, <2>2
  <2> QED
    BY <1>3, <2>1, <2>3 DEF BoardInv, FlowsApart
<1> QED
  BY <1>2, <1>3 DEF BoardInv, FlowsApart

LEMMA LookStep == ASSUME ProxyBoardAssumption, BoardInv, Look PROVE BoardInv'
<1>1. /\ Push /\ fetchProxies(fetches, 0)
      /\ UNCHANGED <<choice, through, shown, flows, busy, boardTab>>
  BY DEF Look
<1>2. pushes \in Nat /\ pushes' = pushes + 1 /\ pushes' \in 0 .. MaxPushes
  BY <1>1 DEF Push, BoardInv, PageTyped, ProxyBoardAssumption
<1>3. PageTyped'
  BY <1>1, <1>2 DEF BoardInv, PageTyped
<1>4. FlowsTyped'
  <2>1. \A w \in flows : w \in FlowRow'
    BY <1>2 DEF BoardInv, FlowsTyped, FlowRow
  <2> QED
    BY <1>1, <2>1 DEF BoardInv, FlowsTyped
<1>5. \A v, w \in flows' : v.id = w.id => v = w
  BY <1>1 DEF BoardInv, FlowsApart
<1>6. pushes <= pushes'
  BY <1>2
<1> QED
  BY <1>1, <1>3, <1>4, <1>5, <1>6, FetchAlone

-----------------------------------------------------------------------------
\* One flow is replaced by another of its number.
LEMMA FlowReplaced ==
  ASSUME BoardInv, NEW w \in flows, NEW u, u.id = w.id, u \in FlowRow, pushes' = pushes,
         u.kind = w.kind, u.node = w.node, flows' = (flows \ {w}) \union {u}
  PROVE  FlowsTyped' /\ \A v, x \in flows' : v.id = x.id => v = x
<1>1. FlowRow' = FlowRow
  BY DEF FlowRow
<1> QED
  BY <1>1 DEF BoardInv, FlowsTyped, FlowsApart

LEMMA DoneStep ==
  ASSUME ProxyBoardAssumption, BoardInv, NEW w \in flows, Done(w)
  PROVE  BoardInv'
<1> DEFINE u == [w EXCEPT !.done = TRUE]
<1>1. /\ w.stage \in {"request", "timer"} /\ ~w.done /\ flows' = (flows \ {w}) \union {u}
      /\ w.kind \notin Replaces => choice' = choice
      /\ UNCHANGED <<through, shown, busy, boardTab, pushes>> /\ NoFetch
  BY DEF Done
<1>2. w \in FlowRow
  BY DEF BoardInv, FlowsTyped
<1>3. /\ u \in FlowRow /\ u.id = w.id /\ u.kind = w.kind /\ u.node = w.node /\ u.stage = w.stage
      /\ u.done = TRUE
  BY <1>2 DEF FlowRow
<1> HIDE DEF u
<1>4. FlowsTyped' /\ \A v, x \in flows' : v.id = x.id => v = x
  BY <1>1, <1>3, FlowReplaced
<1>5. pushes \in Nat /\ pushes' = pushes
  BY <1>1 DEF BoardInv, PageTyped
<1>6. /\ FetchesTyped' /\ fetches' = fetches /\ CurrentFetches' = CurrentFetches
      /\ twins' = twins /\ lost' = lost
  BY <1>1, <1>5, NoFetchStarts
<1>7. PageTyped'
  <2>1. choice' \in Nodes
    <3>1. w.kind = "select" => w.node \in Nodes
      BY DEF BoardInv, FlowsTyped
    <3> QED
      BY <3>1 DEF Done, BoardInv, PageTyped
  <2> QED
    BY <1>1, <2>1 DEF BoardInv, PageTyped
<1>8. FlowsApart'
  BY <1>1, <1>3, <1>4, <1>6 DEF BoardInv, FlowsApart
<1>9. ASSUME ChoiceFollowed PROVE ChoiceFollowed'
  <2>1. CASE w.kind \in Replaces
    <3>1. WillFetch(u) /\ u \in flows'
      BY <1>1, <1>3, <2>1 DEF WillFetch
    <3> QED
      BY <1>6, <1>9, <3>1 DEF ChoiceFollowed
  <2>2. CASE w.kind \notin Replaces
    <3>1. \A v \in flows : WillFetch(v) => v \in flows'
      BY <1>1 DEF WillFetch
    <3> QED
      BY <1>1, <1>6, <1>9, <2>2, <3>1 DEF ChoiceFollowed
  <2> QED
    BY <2>1, <2>2
<1> QED
  BY <1>4, <1>6, <1>7, <1>8, <1>9 DEF BoardInv

LEMMA SelectedStep ==
  ASSUME ProxyBoardAssumption, BoardInv, NEW w \in flows, Selected(w)
  PROVE  BoardInv'
<1> DEFINE Then(v) == [v EXCEPT !.held = IF v.attached THEN w.node ELSE @]
<1>1. /\ w.kind = "select" /\ shown' = w.node /\ flows' = {Then(v) : v \in flows \ {w}}
      /\ through' \in {FALSE, through} /\ fetchProxies(fetches, 0)
      /\ UNCHANGED <<choice, busy, boardTab, pushes>>
  BY DEF Selected
<1>2. w.node \in Nodes
  BY <1>1 DEF BoardInv, FlowsTyped
<1>3. ASSUME NEW v \in flows
      PROVE  Then(v) \in FlowRow /\ Then(v).id = v.id /\ Then(v).stage = v.stage
             /\ Then(v).kind = v.kind /\ Then(v).node = v.node
  <2>1. v \in FlowRow
    BY DEF BoardInv, FlowsTyped
  <2> QED
    BY <1>2, <2>1 DEF FlowRow
<1> HIDE DEF Then
<1>4. PageTyped'
  BY <1>1, <1>2 DEF BoardInv, PageTyped
<1>5. FlowRow' = FlowRow /\ pushes <= pushes'
  BY <1>1 DEF FlowRow, BoardInv, PageTyped
<1>6. FlowsTyped'
  BY <1>1, <1>3, <1>5 DEF BoardInv, FlowsTyped
<1>7. ASSUME NEW v \in flows', NEW x \in flows', v.id = x.id PROVE v = x
  <2>1. PICK a \in flows : v = Then(a)
    BY <1>1
  <2>2. PICK b \in flows : x = Then(b)
    BY <1>1
  <2> QED
    BY <1>3, <1>7, <2>1, <2>2 DEF BoardInv, FlowsApart
<1>8. \A x \in flows' : \E v \in flows : v.id = x.id /\ v.stage = x.stage
  BY <1>1, <1>3
<1> QED
  BY <1>1, <1>4, <1>5, <1>6, <1>7, <1>8, FetchAlone

\* A handler that awaits a fetch of its own from now on.
LEMMA FetchAwaited ==
  ASSUME ProxyBoardAssumption, BoardInv, NEW fs, fs \subseteq fetches, NEW w \in flows, NEW u,
         u \in FlowRow, u.id = w.id, u.kind = w.kind, u.node = w.node,
         u.stage \in {"fetch", "again"}, flows' = (flows \ {w}) \union {u},
         fetchProxies(fs, w.id), \A f \in fs : f.of # w.id,
         pushes' \in 0 .. MaxPushes, pushes <= pushes',
         UNCHANGED <<choice, through, shown, busy, boardTab>>
  PROVE  BoardInv'
<1>1. pushes \in Nat /\ pushes' \in Nat /\ w.id \in 1 .. pushes
  BY DEF BoardInv, PageTyped, FlowsTyped, FlowRow, ProxyBoardAssumption
<1>2. /\ FetchesTyped'
      /\ \A f, g \in fetches' : f.of = g.of /\ f.of # 0 => f = g
      /\ \A f \in fetches' : f \in fs \/ f.of = w.id
      /\ twins' \/ ChoiceFollowed'
  BY <1>1, FetchStarts
<1>3. PageTyped'
  BY DEF BoardInv, PageTyped
<1>4. \A v \in flows' : v \in FlowRow'
  BY <1>1 DEF BoardInv, FlowsTyped, FlowRow
<1>5. FlowsTyped'
  BY <1>4 DEF BoardInv, FlowsTyped
<1>6. FlowsApart'
  BY <1>2 DEF BoardInv, FlowsApart
<1> QED
  BY <1>2, <1>3, <1>5, <1>6 DEF BoardInv

LEMMA RefetchesStep ==
  ASSUME ProxyBoardAssumption, BoardInv, NEW w \in flows, Refetches(w)
  PROVE  BoardInv'
<1> DEFINE u == [w EXCEPT !.stage = "fetch"]
<1>1. /\ w.stage = "request" /\ flows' = (flows \ {w}) \union {u} /\ fetchProxies(fetches, w.id)
      /\ UNCHANGED <<choice, through, shown, busy, boardTab, pushes>>
  BY DEF Refetches
<1>2. w \in FlowRow
  BY DEF BoardInv, FlowsTyped
<1>3. u \in FlowRow /\ u.id = w.id /\ u.kind = w.kind /\ u.node = w.node /\ u.stage = "fetch"
  BY <1>2 DEF FlowRow, FlowStages
<1> HIDE DEF u
<1>4. \A f \in fetches : f.of # w.id
  BY <1>1 DEF BoardInv, FlowsApart
<1>5. pushes' \in 0 .. MaxPushes /\ pushes <= pushes'
  BY <1>1 DEF BoardInv, PageTyped, ProxyBoardAssumption
<1> QED
  BY <1>1, <1>3, <1>4, <1>5, FetchAwaited

LEMMA ReloadsStep ==
  ASSUME ProxyBoardAssumption, BoardInv, NEW w \in flows, Reloads(w)
  PROVE  BoardInv'
<1>1. /\ busy' \subseteq busy /\ UNCHANGED <<choice, through, shown, boardTab, pushes>>
  BY DEF Reloads
<1>2. PageTyped' /\ FlowRow' = FlowRow /\ pushes \in Nat /\ pushes <= pushes'
  BY <1>1 DEF BoardInv, PageTyped, FlowRow
<1>3. CASE w.kind = "restart" /\ w.stage = "request"
  <2> DEFINE u == [w EXCEPT !.stage = "timer"]
  <2>1. flows' = (flows \ {w}) \union {u} /\ NoFetch
    BY <1>3 DEF Reloads
  <2>2. w \in FlowRow
    BY DEF BoardInv, FlowsTyped
  <2>3. /\ u \in FlowRow /\ u.id = w.id /\ u.kind = w.kind /\ u.node = w.node /\ u.stage = "timer"
        /\ u.done = w.done
    BY <2>2 DEF FlowRow, FlowStages
  <2> HIDE DEF u
  <2>4. FlowsTyped' /\ \A v, x \in flows' : v.id = x.id => v = x
    BY <1>1, <2>1, <2>3, FlowReplaced
  <2>5. /\ FetchesTyped' /\ fetches' = fetches /\ CurrentFetches' = CurrentFetches
        /\ twins' = twins /\ lost' = lost
    BY <1>1, <1>2, <2>1, NoFetchStarts
  <2>6. FlowsApart'
    BY <1>3, <2>1, <2>3, <2>4, <2>5 DEF BoardInv, FlowsApart
  <2>7. ASSUME ChoiceFollowed PROVE ChoiceFollowed'
    <3>1. \A v \in flows : WillFetch(v) => \E x \in flows' : WillFetch(x)
      BY <2>1, <2>3 DEF WillFetch
    <3> QED
      BY <1>1, <2>5, <2>7, <3>1 DEF ChoiceFollowed
  <2> QED
    BY <1>2, <2>4, <2>5, <2>6, <2>7 DEF BoardInv
<1>4. CASE ~(w.kind = "restart" /\ w.stage = "request")
  <2>1. flows' = flows \ {w} /\ fetchProxies(fetches, 0)
    BY <1>4 DEF Reloads
  <2>2. /\ FlowsTyped' /\ \A v, x \in flows' : v.id = x.id => v = x
        /\ \A x \in flows' : \E v \in flows : v.id = x.id /\ v.stage = x.stage
    BY <1>2, <2>1 DEF BoardInv, FlowsTyped, FlowsApart
  <2> QED
    BY <1>2, <2>1, <2>2, FetchAlone
<1> QED
  BY <1>3, <1>4

\* Handlers that end or fail without a fetch: one that is lost is excused.
LEMMA FlowsEnd ==
  ASSUME ProxyBoardAssumption, BoardInv, NEW gone, flows' = flows \ gone,
         fetches' \subseteq fetches, lost' \in BOOLEAN, lost => lost', busy' \subseteq busy,
         \A w \in gone \intersect flows : WillFetch(w) => lost',
         \A f \in CurrentFetches : f \in fetches' \/ lost',
         pushes' \in 0 .. MaxPushes, pushes <= pushes',
         UNCHANGED <<choice, through, shown, boardTab, started, fetchTime, twins>>
  PROVE  BoardInv'
<1>1. pushes \in Nat /\ pushes' \in Nat
  BY DEF BoardInv, PageTyped, ProxyBoardAssumption
<1>2. PageTyped'
  BY DEF BoardInv, PageTyped
<1>3. FetchesTyped'
  <2>1. \A f \in fetches : f \in FetchRow'
    BY <1>1 DEF BoardInv, FetchesTyped, FetchRow
  <2>2. fetches' \subseteq FetchRow'
    BY <2>1
  <2> QED
    BY <2>2 DEF BoardInv, FetchesTyped
<1>4. FlowsTyped'
  <2>1. \A w \in flows : w \in FlowRow'
    BY <1>1 DEF BoardInv, FlowsTyped, FlowRow
  <2> QED
    BY <2>1 DEF BoardInv, FlowsTyped
<1>5. FlowsApart'
  BY DEF BoardInv, FlowsApart
<1>6. ASSUME ChoiceFollowed, ~lost' PROVE ChoiceFollowed'
  <2>1. CurrentFetches' = CurrentFetches
    BY <1>6 DEF CurrentFetches, Current
  <2>2. \A w \in flows : WillFetch(w) => w \in flows'
    BY <1>6
  <2> QED
    BY <1>6, <2>1, <2>2 DEF ChoiceFollowed
<1>7. twins' \/ lost' \/ ChoiceFollowed'
  BY <1>6 DEF BoardInv
<1> QED
  BY <1>2, <1>3, <1>4, <1>5, <1>7 DEF BoardInv

LEMMA FailsStep ==
  ASSUME ProxyBoardAssumption, BoardInv, NEW f \in fetches, Fails(f)
  PROVE  BoardInv'
<1> DEFINE again == {w \in Waiting(f) : w.kind = "providers" /\ w.stage = "fetch"}
           stuck == {w.kind : w \in {v \in Waiting(f) : v.stage = "again"}}
<1>1. Push /\ UNCHANGED <<choice, through, shown, boardTab>>
  BY DEF Fails
<1>2. pushes' \in 0 .. MaxPushes /\ pushes <= pushes'
  BY <1>1 DEF Push, BoardInv, PageTyped, ProxyBoardAssumption
<1>3. CASE again # {}
  <2>1. PICK w \in Waiting(f) : w.kind = "providers" /\ w.stage = "fetch"
    BY <1>3
  <2> DEFINE u == [w EXCEPT !.stage = "again"]
  <2>2. w \in flows /\ w.id = f.of /\ w \in FlowRow
    BY <2>1 DEF Waiting, BoardInv, FlowsTyped
  <2>3. again = {w}
    BY <2>1, <2>2 DEF Waiting, BoardInv, FlowsApart
  <2>4. /\ fetchProxies(fetches \ {f}, f.of) /\ UNCHANGED busy
        /\ flows' = (flows \ again) \union {[v EXCEPT !.stage = "again"] : v \in again}
    BY <1>3 DEF Fails
  <2>5. flows' = (flows \ {w}) \union {u}
    BY <2>3, <2>4
  <2>6. u \in FlowRow /\ u.id = w.id /\ u.kind = w.kind /\ u.node = w.node /\ u.stage = "again"
    BY <2>2 DEF FlowRow, FlowStages
  <2>7. w.id # 0
    BY <2>2 DEF FlowRow
  <2>8. \A g \in fetches \ {f} : g.of # w.id
    BY <2>2, <2>7 DEF BoardInv, FlowsApart
  <2> HIDE DEF u, again
  <2> QED
    BY <1>1, <1>2, <2>2, <2>4, <2>5, <2>6, <2>8, FetchAwaited
<1>4. CASE again = {}
  <2>1. /\ fetches' = fetches \ {f} /\ lost' = (lost \/ Current(f))
        /\ flows' = flows \ Waiting(f) /\ busy' \subseteq busy
        /\ UNCHANGED <<started, fetchTime, twins>>
    BY <1>4 DEF Fails
  <2>2. lost' \in BOOLEAN /\ (lost => lost')
    BY <2>1
  <2>3. \A w \in Waiting(f) \intersect flows : ~WillFetch(w)
    BY DEF Waiting, WillFetch, BoardInv, FlowsApart
  <2>4. \A g \in CurrentFetches : g \in fetches' \/ lost'
    BY <2>1 DEF CurrentFetches
  <2> QED
    BY <1>1, <1>2, <2>1, <2>2, <2>3, <2>4, FlowsEnd
<1> QED
  BY <1>3, <1>4

LEMMA RefusedStep ==
  ASSUME ProxyBoardAssumption, BoardInv, NEW w \in flows, Refused(w)
  PROVE  BoardInv'
<1>1. w.stage = "request" /\ Push /\ UNCHANGED <<choice, through, shown, boardTab>>
  BY DEF Refused
<1>2. pushes' \in 0 .. MaxPushes /\ pushes <= pushes'
  BY <1>1 DEF Push, BoardInv, PageTyped, ProxyBoardAssumption
<1>3. CASE w.kind = "providers"
  <2> DEFINE u == [w EXCEPT !.stage = "again"]
  <2>1. flows' = (flows \ {w}) \union {u} /\ fetchProxies(fetches, w.id) /\ UNCHANGED busy
    BY <1>3 DEF Refused
  <2>2. w \in FlowRow
    BY DEF BoardInv, FlowsTyped
  <2>3. u \in FlowRow /\ u.id = w.id /\ u.kind = w.kind /\ u.node = w.node /\ u.stage = "again"
    BY <2>2 DEF FlowRow, FlowStages
  <2>4. \A f \in fetches : f.of # w.id
    BY <1>1 DEF BoardInv, FlowsApart
  <2> HIDE DEF u
  <2> QED
    BY <1>1, <1>2, <2>1, <2>3, <2>4, FetchAwaited
<1>4. CASE w.kind # "providers"
  <2>1. /\ flows' = flows \ {w} /\ busy' \subseteq busy
        /\ lost' = (lost \/ (w.done /\ w.kind \in Replaces))
        /\ UNCHANGED <<started, fetchTime, fetches, twins>>
    BY <1>4 DEF Refused
  <2>2. lost' \in BOOLEAN /\ (lost => lost') /\ (WillFetch(w) => lost')
    BY <2>1 DEF WillFetch
  <2>3. fetches' \subseteq fetches /\ \A f \in CurrentFetches : f \in fetches' \/ lost'
    BY <2>1 DEF CurrentFetches
  <2>4. \A v \in {w} \intersect flows : WillFetch(v) => lost'
    BY <2>2
  <2> QED
    BY <1>1, <1>2, <2>1, <2>2, <2>3, <2>4, FlowsEnd
<1> QED
  BY <1>3, <1>4

\* Steps of the tabs and of the machine's traffic, and steps of none.
LEMMA BoardOtherStep ==
  ASSUME ProxyBoardAssumption, BoardInv, NoFetch, UNCHANGED <<choice, shown, flows, busy, pushes>>,
         through' \in BOOLEAN, boardTab' \in {"proxies", "provider"}
  PROVE  BoardInv'
<1>1. pushes \in Nat /\ pushes' \in Nat /\ pushes <= pushes'
  BY DEF BoardInv, PageTyped
<1>2. /\ FetchesTyped' /\ fetches' = fetches /\ CurrentFetches' = CurrentFetches
      /\ twins' = twins /\ lost' = lost
  BY <1>1, NoFetchStarts
<1>3. PageTyped' /\ FlowsTyped'
  BY DEF BoardInv, PageTyped, FlowsTyped, FlowRow
<1>4. FlowsApart' /\ (ChoiceFollowed => ChoiceFollowed')
  BY <1>2 DEF BoardInv, FlowsApart, ChoiceFollowed, WillFetch
<1> QED
  BY <1>2, <1>3, <1>4 DEF BoardInv

LEMMA NextBoard ==
  ASSUME ProxyBoardAssumption, BoardInv, [ProxyBoardNext]_boardVars
  PROVE  BoardInv'
<1>1. ASSUME NEW f \in fetches, Answers(f) \/ Arrives(f) \/ Fails(f) PROVE BoardInv'
  BY <1>1, AnswersStep, ArrivesStep, FailsStep
<1>2. ASSUME NEW n \in Nodes, Select(n) PROVE BoardInv'
  BY <1>2, SelectStep
<1>3. CASE \/ TestNode \/ TestGroup \/ TestAll \/ UpdateProvider \/ CheckHealth \/ UpdateAll
           \/ RestartCore \/ ReloadConfigs \/ UpdateConfigs \/ UpgradeCore \/ UpdateGeo
  <2>1. PICK b \in Buttons : Press(b)
    <3>1. {"node", "group", "all", "provider", "health", "providers", "restart", "reload",
           "config", "upgrade", "geo"} \subseteq Buttons
      BY DEF Buttons, Tests, Updates, Core
    <3> QED
      BY <1>3, <3>1 DEF TestNode, TestGroup, TestAll, UpdateProvider, CheckHealth, UpdateAll,
                        RestartCore, ReloadConfigs, UpdateConfigs, UpgradeCore, UpdateGeo
  <2> QED
    BY <2>1, PressStep
<1>4. CASE OpenProxies \/ Visible
  BY <1>4, LookStep DEF OpenProxies, Visible
<1>5. CASE ShowTab
  <2>1. through' \in BOOLEAN
    BY <1>5 DEF ShowTab, BoardInv, PageTyped
  <2> QED
    BY <1>5, <2>1, BoardOtherStep DEF ShowTab
<1>6. CASE Connects
  <2>1. through' \in BOOLEAN /\ boardTab' \in {"proxies", "provider"}
    BY <1>6 DEF Connects, BoardInv, PageTyped
  <2> QED
    BY <1>6, <2>1, BoardOtherStep DEF Connects
<1>7. ASSUME NEW w \in flows, Done(w) \/ Selected(w) \/ Refetches(w) \/ Reloads(w) \/ Refused(w)
      PROVE  BoardInv'
  BY <1>7, DoneStep, SelectedStep, RefetchesStep, ReloadsStep, RefusedStep
<1>8. CASE UNCHANGED boardVars
  <2>1. through' \in BOOLEAN /\ boardTab' \in {"proxies", "provider"}
    BY <1>8 DEF boardVars, BoardInv, PageTyped
  <2> QED
    BY <1>8, <2>1, BoardOtherStep DEF boardVars, NoFetch
<1> QED
  BY <1>1, <1>2, <1>3, <1>4, <1>5, <1>6, <1>7, <1>8 DEF ProxyBoardNext

LEMMA BoardTyped == ASSUME ProxyBoardAssumption, BoardInv PROVE ProxyBoardTypeOK
<1>0. /\ pushes \in Nat /\ MaxPushes \in Nat /\ pushes <= MaxPushes
      /\ \A f \in fetches : f \in FetchRow
      /\ \A w \in flows : w \in FlowRow
  BY DEF BoardInv, PageTyped, FetchesTyped, FlowsTyped, ProxyBoardAssumption
<1>1. \A f \in fetches : f \in [id : 1 .. started, of : 0 .. MaxPushes, stamp : 1 .. fetchTime,
                                read : Nodes \union {NoNode}]
  BY <1>0 DEF FetchRow
<1>2. \A w \in flows : w \in [id : 1 .. MaxPushes, kind : Buttons \union {"select"},
                              stage : {"request", "fetch", "again", "timer"},
                              node : Nodes \union {NoNode}, held : Nodes \union {NoNode},
                              attached : BOOLEAN, done : BOOLEAN]
  BY <1>0 DEF FlowRow, FlowStages
<1> QED
  BY <1>1, <1>2 DEF BoardInv, PageTyped, FetchesTyped, ProxyBoardTypeOK

LEMMA BoardAlwaysSound == ASSUME ProxyBoardAssumption PROVE ProxyBoardSpec => []BoardInv
<1>1. ProxyBoardInit => BoardInv
  BY InitBoard
<1>2. BoardInv /\ [ProxyBoardNext]_boardVars => BoardInv'
  BY NextBoard
<1> QED
  BY <1>1, <1>2, PTL DEF ProxyBoardSpec

\* The records of the page of proxies have their types.
THEOREM ProxyBoardTypeCorrect == ASSUME ProxyBoardAssumption PROVE ProxyBoardSpec => []ProxyBoardTypeOK
BY BoardAlwaysSound, BoardTyped, PTL

\* In whatever order selections, tests, restarts and fetches ran, the page shows the kernel's
\* node once nothing is under way (proxies.ts:106-199).
THEOREM ChoiceAlwaysShown == ASSUME ProxyBoardAssumption PROVE ProxyBoardSpec => []ShownChoice
<1>1. BoardInv => ShownChoice
  BY DEF BoardInv, ShownChoice, ChoiceFollowed, CurrentFetches
<1> QED
  BY <1>1, BoardAlwaysSound, PTL

-----------------------------------------------------------------------------
(* The pages of rules and configuration.  Unless calls of fetchRules overlapped or one failed *)
(* there is at most one, which has yet to be answered or holds what the kernel has; or the    *)
(* kernel has done what a handler asked for that is still to fetch; or the page shows it.     *)

RuleReadRow == [id : 1 .. readCount, of : 0 .. steps, answered : BOOLEAN, read : SUBSET Rules]
Destinations == {"", "on", "off"}
RuleFlowRow == [id : 1 .. steps, kind : Kinds, rule : Rules \union {NoRule},
                to : KernelModes \union Destinations, stage : {"request", "fetch", "again"},
                done : BOOLEAN]

\* The mode, and what of it is read.
ModeTyped ==
  /\ kernelMode \in KernelModes /\ shownMode \in KernelModes \union {""} /\ readCount \in Nat
  /\ configReads \subseteq [id : 1 .. readCount, read : KernelModes \union {""}]

RulesTyped ==
  /\ disabled \subseteq Rules /\ matched \subseteq Rules /\ shownRules \subseteq Rules
  /\ loaded \in BOOLEAN /\ rulesTab \in {"rules", "provider"}
  /\ ruleBusy \subseteq Kinds \X (Rules \union {NoRule}) /\ steps \in 0 .. MaxSteps

RuleReadsTyped ==
  ruleReads \subseteq RuleReadRow /\ crossedReads \in BOOLEAN /\ rulesLost \in BOOLEAN

RuleFlowsTyped ==
  /\ ruleFlows \subseteq RuleFlowRow
  /\ \A w \in ruleFlows : /\ w.kind = "set" => w.to \in KernelModes
                          /\ w.kind = "toggle" => w.rule \in Rules

\* A flow has its own number, and one that is awaited has one call.
RuleFlowsApart ==
  /\ \A v, w \in ruleFlows : v.id = w.id => v = w
  /\ \A f, g \in ruleReads : f.of = g.of /\ f.of # 0 => f = g
  /\ \A f \in ruleReads, w \in ruleFlows : w.id = f.of => w.stage \in {"fetch", "again"}

\* The kernel has done what a handler asked for that has still to fetch.
WillRead(w) == w.kind \in {"toggle", "reload"} /\ w.done /\ w.stage = "request"

RulesFollowed ==
  /\ \A f, g \in ruleReads : f = g
  /\ \/ \E w \in ruleFlows : WillRead(w)
     \/ \E f \in ruleReads : f.answered => f.read = disabled
     \/ ruleReads = {} /\ shownRules = disabled

RulesInv ==
  /\ ModeTyped /\ RulesTyped /\ RuleReadsTyped /\ RuleFlowsTyped /\ RuleFlowsApart
  /\ crossedReads \/ rulesLost \/ RulesFollowed

LEMMA InitRules == ASSUME ConfigBoardAssumption PROVE ConfigBoardInit => RulesInv
<1> SUFFICES ASSUME ConfigBoardInit PROVE RulesInv
  OBVIOUS
<1> DEFINE call == [id |-> 2, of |-> 0, answered |-> FALSE, read |-> {}]
<1>1. /\ readCount = 2 /\ steps = 0 /\ MaxSteps \in Nat /\ ruleFlows = {} /\ ruleReads = {call}
      /\ crossedReads = FALSE /\ rulesLost = FALSE
      /\ call.of = 0 /\ call.answered = FALSE
  BY DEF ConfigBoardAssumption, ConfigBoardInit
<1>2. call \in RuleReadRow
  BY <1>1 DEF RuleReadRow
<1>3. ModeTyped
  <2> DEFINE ask == [id |-> 1, read |-> ""]
  <2>1. ask \in [id : 1 .. readCount, read : KernelModes \union {""}]
    BY <1>1
  <2>2. configReads = {ask} /\ kernelMode \in KernelModes /\ shownMode = ""
    BY DEF ConfigBoardInit
  <2> HIDE DEF ask
  <2>3. readCount \in Nat
    BY <1>1
  <2> QED
    BY <2>1, <2>2, <2>3 DEF ModeTyped
<1>4. RulesTyped
  <2>1. steps \in 0 .. MaxSteps
    BY <1>1
  <2> QED
    BY <2>1 DEF ConfigBoardInit, RulesTyped
<1> HIDE DEF call
<1>5. RuleReadsTyped /\ RuleFlowsTyped /\ RuleFlowsApart
  BY <1>1, <1>2 DEF RuleReadsTyped, RuleFlowsTyped, RuleFlowsApart
<1>6. RulesFollowed
  BY <1>1 DEF RulesFollowed
<1> QED
  BY <1>3, <1>4, <1>5, <1>6 DEF RulesInv

LEMMA StepsTyped ==
  ASSUME ConfigBoardAssumption, RulesInv
  PROVE  steps \in Nat /\ MaxSteps \in Nat /\ steps \in 0 .. MaxSteps /\ readCount \in Nat
<1>1. steps \in 0 .. MaxSteps /\ readCount \in Nat /\ MaxSteps \in Nat
  BY DEF ConfigBoardAssumption, RulesInv, RulesTyped, ModeTyped
<1> QED
  BY <1>1

\* A call that starts is the only one, or it started beside another.
LEMMA ReadStarts ==
  ASSUME ConfigBoardAssumption, RulesInv, NEW n, NEW fs, fs \subseteq ruleReads, NEW of,
         of \in 0 .. steps', steps' \in Nat, steps <= steps', n \in 1 .. readCount',
         readCount' \in Nat, readCount <= readCount', NewRuleRead(n, fs, of),
         \A f \in fs : f.of = of => of = 0
  PROVE  /\ RuleReadsTyped'
         /\ \A f, g \in ruleReads' : f.of = g.of /\ f.of # 0 => f = g
         /\ \A f \in ruleReads' : f \in fs \/ f.of = of
         /\ crossedReads' \/ RulesFollowed'
<1> DEFINE new == [id |-> n, of |-> of, answered |-> FALSE, read |-> {}]
<1>1. /\ ruleReads' = fs \union {new} /\ crossedReads' = (fs # {}) /\ rulesLost' = FALSE
      /\ new.of = of /\ new.answered = FALSE
  BY DEF NewRuleRead
<1>2. steps \in Nat /\ readCount \in Nat /\ \A f \in fs : f \in RuleReadRow
  BY StepsTyped DEF RulesInv, RuleReadsTyped
<1>3. new \in RuleReadRow'
  BY DEF RuleReadRow
<1>4. \A f \in fs : f \in RuleReadRow'
  BY <1>2 DEF RuleReadRow
<1> HIDE DEF new
<1>5. RuleReadsTyped'
  BY <1>1, <1>3, <1>4 DEF RuleReadsTyped
<1>6. \A f, g \in ruleReads' : f.of = g.of /\ f.of # 0 => f = g
  BY <1>1 DEF RulesInv, RuleFlowsApart
<1>7. ASSUME ~crossedReads' PROVE RulesFollowed'
  <2>1. ruleReads' = {new}
    BY <1>1, <1>7
  <2> QED
    BY <1>1, <2>1 DEF RulesFollowed
<1> QED
  BY <1>1, <1>5, <1>6, <1>7

\* What starts no call keeps what is known of them.
LEMMA NoReadStarts ==
  ASSUME RulesInv, UNCHANGED <<ruleReads, crossedReads>>, rulesLost' \in BOOLEAN,
         steps \in Nat, steps' \in Nat, steps <= steps', readCount' \in Nat,
         readCount <= readCount'
  PROVE  RuleReadsTyped'
<1>1. readCount \in Nat /\ \A f \in ruleReads : f \in RuleReadRow
  BY DEF RulesInv, ModeTyped, RuleReadsTyped
<1>2. \A f \in ruleReads : f \in RuleReadRow'
  BY <1>1 DEF RuleReadRow
<1> QED
  BY <1>2 DEF RulesInv, RuleReadsTyped

\* Flows are known to have their types whatever becomes of the bound.
LEMMA RuleFlowsKept ==
  ASSUME RulesInv, steps \in Nat, steps' \in Nat, steps <= steps', NEW w \in ruleFlows
  PROVE  w \in RuleFlowRow /\ w \in RuleFlowRow' /\ w.id \in 1 .. steps
<1>1. w \in RuleFlowRow
  BY DEF RulesInv, RuleFlowsTyped
<1>2. w.id \in 1 .. steps
  BY <1>1 DEF RuleFlowRow
<1>3. w.id \in 1 .. steps'
  BY <1>2
<1> QED
  BY <1>1, <1>2, <1>3 DEF RuleFlowRow

\* What concerns the mode alone.
LEMMA ModeStep ==
  ASSUME RulesInv, UNCHANGED <<ruleVars, readCount>>, ModeTyped', steps \in Nat,
         steps' \in 0 .. MaxSteps, steps <= steps', MaxSteps \in Nat
  PROVE  RulesInv'
<1>1. /\ UNCHANGED <<disabled, matched, shownRules, loaded, ruleReads, ruleFlows, ruleBusy,
                     rulesTab, crossedReads, rulesLost, readCount>>
      /\ steps' \in Nat
  BY DEF ruleVars
<1>2. RulesTyped'
  BY <1>1 DEF RulesInv, RulesTyped
<1>3. RuleReadsTyped'
  <2>1. rulesLost' \in BOOLEAN
    BY <1>1 DEF RulesInv, RuleReadsTyped
  <2>2. readCount \in Nat
    BY DEF RulesInv, ModeTyped
  <2>3. readCount' \in Nat /\ readCount <= readCount'
    BY <1>1, <2>2
  <2> QED
    BY <1>1, <2>1, <2>3, NoReadStarts
<1>4. RuleFlowsTyped'
  <2>1. \A w \in ruleFlows : w \in RuleFlowRow'
    BY <1>1, RuleFlowsKept
  <2> QED
    BY <1>1, <2>1 DEF RulesInv, RuleFlowsTyped
<1>5. RuleFlowsApart' /\ (RulesFollowed => RulesFollowed')
  BY <1>1 DEF RulesInv, RuleFlowsApart, RulesFollowed, WillRead
<1> QED
  BY <1>1, <1>2, <1>3, <1>4, <1>5 DEF RulesInv

LEMMA StepCounts ==
  ASSUME ConfigBoardAssumption, RulesInv, Step
  PROVE  steps' = steps + 1 /\ steps' \in 0 .. MaxSteps /\ steps' \in Nat /\ steps <= steps'
BY DEF ConfigBoardAssumption, RulesInv, RulesTyped, Step

LEMMA ConfigSteps ==
  ASSUME ConfigBoardAssumption, RulesInv, NEW c \in configReads,
         ConfigAnswers(c) \/ ConfigArrives(c) \/ ConfigFails(c)
  PROVE  RulesInv'
<1>1. steps \in Nat /\ MaxSteps \in Nat /\ steps \in 0 .. MaxSteps
  BY StepsTyped
<1>2. ModeTyped /\ c \in [id : 1 .. readCount, read : KernelModes \union {""}]
  BY DEF RulesInv, ModeTyped
<1>3. steps' \in 0 .. MaxSteps /\ steps <= steps'
  <2>1. CASE Step
    BY <2>1, StepCounts
  <2>2. CASE steps' = steps
    BY <1>1, <2>2
  <2> QED
    BY <2>1, <2>2 DEF ConfigAnswers, ConfigArrives, ConfigFails
<1>4. UNCHANGED <<ruleVars, readCount>> /\ kernelMode' = kernelMode
  BY DEF ConfigAnswers, ConfigArrives, ConfigFails
<1>5. ModeTyped'
  <2>1. [c EXCEPT !.read = kernelMode] \in [id : 1 .. readCount, read : KernelModes \union {""}]
    BY <1>2 DEF ModeTyped
  <2>2. /\ configReads' \subseteq configReads \union {[c EXCEPT !.read = kernelMode]}
        /\ shownMode' \in {shownMode, c.read}
    BY DEF ConfigAnswers, ConfigArrives, ConfigFails
  <2>3. shownMode' \in KernelModes \union {""}
    BY <1>2, <2>2 DEF ModeTyped
  <2> QED
    BY <1>2, <1>4, <2>1, <2>2, <2>3 DEF ModeTyped
<1> QED
  BY <1>1, <1>3, <1>4, <1>5, ModeStep

-----------------------------------------------------------------------------
LEMMA RulesAnswerStep ==
  ASSUME ConfigBoardAssumption, RulesInv, NEW f \in ruleReads, RulesAnswer(f)
  PROVE  RulesInv'
<1> DEFINE g == [f EXCEPT !.answered = TRUE, !.read = disabled]
<1>1. /\ ruleReads' = (ruleReads \ {f}) \union {g}
      /\ UNCHANGED <<modeVars, disabled, matched, shownRules, loaded, ruleFlows, ruleBusy,
                     rulesTab, crossedReads, rulesLost, readCount, steps>>
      /\ RulesTyped /\ RuleReadsTyped /\ RuleFlowsApart
  BY DEF RulesAnswer, RulesInv
<1>2. g \in RuleReadRow /\ g.of = f.of /\ g.read = disabled
  BY <1>1 DEF RuleReadsTyped, RuleReadRow, RulesTyped
<1> HIDE DEF g
<1>3. ModeTyped' /\ RulesTyped'
  BY <1>1 DEF modeVars, RulesInv, ModeTyped, RulesTyped
<1>4. RuleFlowsTyped' /\ RuleReadsTyped'
  <2>1. RuleFlowRow' = RuleFlowRow /\ RuleReadRow' = RuleReadRow
    BY <1>1 DEF RuleFlowRow, RuleReadRow
  <2> QED
    BY <1>1, <1>2, <2>1 DEF RulesInv, RuleFlowsTyped, RuleReadsTyped
<1>5. RuleFlowsApart'
  BY <1>1, <1>2 DEF RuleFlowsApart
<1>6. ASSUME RulesFollowed PROVE RulesFollowed'
  <2>1. ruleReads' = {g}
    BY <1>1, <1>6 DEF RulesFollowed
  <2> QED
    BY <1>1, <1>2, <2>1 DEF RulesFollowed
<1> QED
  BY <1>1, <1>3, <1>4, <1>5, <1>6 DEF RulesInv

\* More calls than before.
LEMMA ModeKept ==
  ASSUME ModeTyped, UNCHANGED <<kernelMode, shownMode, configReads>>,
         readCount' \in {readCount, readCount + 1}
  PROVE  ModeTyped'
<1>0. readCount \in Nat
  BY DEF ModeTyped
<1>1. readCount' \in Nat /\ readCount <= readCount'
  BY <1>0
<1>2. 1 .. readCount \subseteq 1 .. readCount'
  BY <1>0, <1>1
<1>3. ASSUME NEW c \in configReads PROVE c \in [id : 1 .. readCount', read : KernelModes \union {""}]
  <2>1. c \in [id : 1 .. readCount, read : KernelModes \union {""}]
    BY DEF ModeTyped
  <2> QED
    BY <1>2, <2>1
<1> QED
  BY <1>1, <1>3 DEF ModeTyped

\* Calls and handlers that end without a new call: what is lost is excused.
LEMMA RulesEnd ==
  ASSUME ConfigBoardAssumption, RulesInv, NEW gone, ruleFlows' = ruleFlows \ gone,
         ruleReads' \subseteq ruleReads, rulesLost' \in BOOLEAN, RulesFollowed => rulesLost' \/ RulesFollowed',
         rulesLost => rulesLost', ModeTyped', RulesTyped', readCount <= readCount', steps <= steps',
         crossedReads' = crossedReads
  PROVE  RulesInv'
<1>1. steps \in Nat /\ steps' \in Nat /\ readCount \in Nat /\ readCount' \in Nat
  <2>1. steps' \in 0 .. MaxSteps
    BY DEF RulesTyped
  <2>2. readCount' \in Nat
    BY DEF ModeTyped
  <2> QED
    BY <2>1, <2>2, StepsTyped
<1>2. RuleReadsTyped'
  <2>1. \A f \in ruleReads : f \in RuleReadRow
    BY DEF RulesInv, RuleReadsTyped
  <2>2. \A f \in ruleReads : f \in RuleReadRow'
    BY <1>1, <2>1 DEF RuleReadRow
  <2> QED
    BY <2>2 DEF RulesInv, RuleReadsTyped
<1>3. RuleFlowsTyped'
  <2>1. \A w \in ruleFlows : w \in RuleFlowRow'
    BY <1>1, RuleFlowsKept
  <2> QED
    BY <2>1 DEF RulesInv, RuleFlowsTyped
<1>4. RuleFlowsApart'
  BY DEF RulesInv, RuleFlowsApart
<1> QED
  BY <1>2, <1>3, <1>4 DEF RulesInv

LEMMA RulesArriveStep ==
  ASSUME ConfigBoardAssumption, RulesInv, NEW f \in ruleReads, RulesArrive(f)
  PROVE  RulesInv'
<1>1. /\ f.answered /\ ruleReads' = ruleReads \ {f} /\ shownRules' = f.read /\ loaded' = TRUE
      /\ ruleFlows' = ruleFlows \ AwaitedBy(f) /\ ruleBusy' \subseteq ruleBusy
      /\ UNCHANGED <<modeVars, disabled, matched, rulesTab, crossedReads, rulesLost, readCount,
                     steps>>
  BY DEF RulesArrive
<1>2. f.read \subseteq Rules /\ rulesLost' \in BOOLEAN
  BY <1>1 DEF RulesInv, RuleReadsTyped, RuleReadRow
<1>5. steps <= steps' /\ readCount <= readCount'
  BY <1>1, StepsTyped
<1>3. ModeTyped' /\ RulesTyped'
  BY <1>1, <1>2 DEF modeVars, RulesInv, ModeTyped, RulesTyped
<1>4. ASSUME RulesFollowed PROVE RulesFollowed'
  <2>1. ruleReads = {f} /\ ruleReads' = {}
    BY <1>1, <1>4 DEF RulesFollowed
  <2>2. CASE \E w \in ruleFlows : WillRead(w)
    <3>1. PICK w \in ruleFlows : WillRead(w)
      BY <2>2
    <3>2. w \notin AwaitedBy(f)
      BY <3>1 DEF WillRead, AwaitedBy, RulesInv, RuleFlowsApart
    <3> QED
      BY <1>1, <2>1, <3>1, <3>2 DEF RulesFollowed, WillRead
  <2>3. CASE f.read = disabled
    BY <1>1, <2>1, <2>3 DEF RulesFollowed
  <2> QED
    BY <1>1, <1>4, <2>1, <2>2, <2>3 DEF RulesFollowed
<1> QED
  BY <1>1, <1>2, <1>3, <1>4, <1>5, RulesEnd

\* A handler that awaits a call of its own from now on.
LEMMA ReadAwaited ==
  ASSUME ConfigBoardAssumption, RulesInv, NEW fs, fs \subseteq ruleReads, NEW w \in ruleFlows,
         NEW u, u \in RuleFlowRow, u.id = w.id, u.kind = w.kind, u.to = w.to, u.rule = w.rule,
         u.stage \in {"fetch", "again"}, ruleFlows' = (ruleFlows \ {w}) \union {u},
         fetchRules(fs, w.id), \A f \in fs : f.of # w.id, steps <= steps', ModeTyped', RulesTyped'
  PROVE  RulesInv'
<1>1. steps \in Nat /\ steps' \in Nat /\ readCount \in Nat /\ w.id \in 1 .. steps
  <2>1. steps' \in 0 .. MaxSteps
    BY DEF RulesTyped
  <2>2. steps \in Nat /\ steps' \in Nat /\ readCount \in Nat
    BY <2>1, StepsTyped
  <2> QED
    BY <2>2, RuleFlowsKept
<1>2. readCount' = readCount + 1 /\ NewRuleRead(readCount + 1, fs, w.id)
  BY DEF fetchRules
<1>3. /\ RuleReadsTyped'
      /\ \A f, g \in ruleReads' : f.of = g.of /\ f.of # 0 => f = g
      /\ \A f \in ruleReads' : f \in fs \/ f.of = w.id
      /\ crossedReads' \/ RulesFollowed'
  BY <1>1, <1>2, ReadStarts
<1>4. RuleFlowsTyped'
  <2>1. \A v \in ruleFlows : v \in RuleFlowRow'
    BY <1>1, RuleFlowsKept
  <2>2. u \in RuleFlowRow'
    <3>1. u.id \in 1 .. steps'
      BY <1>1
    <3> QED
      BY <3>1 DEF RuleFlowRow
  <2> QED
    BY <2>1, <2>2 DEF RulesInv, RuleFlowsTyped
<1>5. RuleFlowsApart'
  BY <1>3 DEF RulesInv, RuleFlowsApart
<1> QED
  BY <1>3, <1>4, <1>5 DEF RulesInv

LEMMA RulesFailStep ==
  ASSUME ConfigBoardAssumption, RulesInv, NEW f \in ruleReads, RulesFail(f)
  PROVE  RulesInv'
<1> DEFINE again == {w \in AwaitedBy(f) : w.kind = "all" /\ w.stage = "fetch"}
<1>1. Step /\ UNCHANGED <<modeVars, disabled, matched, shownRules, loaded, rulesTab>>
  BY DEF RulesFail
<1>2. steps' \in 0 .. MaxSteps /\ steps <= steps'
  BY <1>1, StepCounts
<1>3. CASE again # {}
  <2>1. PICK w \in AwaitedBy(f) : w.kind = "all" /\ w.stage = "fetch"
    BY <1>3
  <2> DEFINE u == [w EXCEPT !.stage = "again"]
  <2>2. w \in ruleFlows /\ w.id = f.of /\ w \in RuleFlowRow
    BY <2>1 DEF AwaitedBy, RulesInv, RuleFlowsTyped
  <2>3. again = {w}
    BY <2>1, <2>2 DEF AwaitedBy, RulesInv, RuleFlowsApart
  <2>4. /\ fetchRules(ruleReads \ {f}, f.of) /\ ruleBusy' = ruleBusy
        /\ ruleFlows' = (ruleFlows \ again) \union {[v EXCEPT !.stage = "again"] : v \in again}
    BY <1>3 DEF RulesFail
  <2>5. ruleFlows' = (ruleFlows \ {w}) \union {u}
    BY <2>3, <2>4
  <2>6. /\ u \in RuleFlowRow /\ u.id = w.id /\ u.kind = w.kind /\ u.to = w.to /\ u.rule = w.rule
        /\ u.stage = "again"
    BY <2>2 DEF RuleFlowRow
  <2>7. w.id # 0
    <3>1. w.id \in 1 .. steps /\ steps \in Nat
      BY <2>2, StepsTyped DEF RuleFlowRow
    <3> QED
      BY <3>1
  <2>8. \A g \in ruleReads \ {f} : g.of # w.id
    BY <2>2, <2>7 DEF RulesInv, RuleFlowsApart
  <2>9. RulesTyped'
    BY <1>1, <1>2, <2>4 DEF RulesInv, RulesTyped
  <2>10. ModeTyped'
    <3>1. readCount' = readCount + 1
      BY <2>4 DEF fetchRules
    <3> QED
      BY <1>1, <3>1, ModeKept DEF modeVars, RulesInv
  <2> HIDE DEF u, again
  <2> QED
    BY <1>2, <2>2, <2>4, <2>5, <2>6, <2>8, <2>9, <2>10, ReadAwaited
<1>4. CASE again = {}
  <2>1. /\ ruleReads' = ruleReads \ {f} /\ rulesLost' = TRUE
        /\ ruleFlows' = ruleFlows \ AwaitedBy(f) /\ ruleBusy' \subseteq ruleBusy
        /\ UNCHANGED <<crossedReads, readCount>>
    BY <1>4 DEF RulesFail
  <2>2. ModeTyped' /\ RulesTyped'
    BY <1>1, <1>2, <2>1 DEF modeVars, RulesInv, ModeTyped, RulesTyped
  <2>3. readCount <= readCount'
    BY <2>1, StepsTyped
  <2> QED
    BY <1>1, <1>2, <2>1, <2>2, <2>3, RulesEnd
<1> QED
  BY <1>3, <1>4

-----------------------------------------------------------------------------
LEMMA RuleFlowTyped ==
  ASSUME NEW k \in Kinds, NEW x \in Rules \union {NoRule},
         NEW m \in KernelModes \union Destinations, steps + 1 \in 1 .. steps'
  PROVE  /\ RuleFlow(k, x, m) \in RuleFlowRow' /\ RuleFlow(k, x, m).id = steps + 1
         /\ RuleFlow(k, x, m).kind = k /\ RuleFlow(k, x, m).rule = x /\ RuleFlow(k, x, m).to = m
BY DEF RuleFlow, RuleFlowRow

\* A handler starts: nothing else concerns the rules.
LEMMA RuleFlowStarts ==
  ASSUME ConfigBoardAssumption, RulesInv, Step, NoRuleRead, NEW w, w.id = steps + 1,
         w \in RuleFlowRow', w.kind = "set" => w.to \in KernelModes,
         w.kind = "toggle" => w.rule \in Rules, ruleFlows' = ruleFlows \union {w},
         UNCHANGED <<disabled, shownRules>>, ModeTyped', RulesTyped'
  PROVE  RulesInv'
<1>1. /\ steps \in Nat /\ steps' = steps + 1 /\ steps' \in Nat /\ steps <= steps'
      /\ readCount \in Nat /\ UNCHANGED <<ruleReads, crossedReads, rulesLost, readCount>>
  BY StepsTyped, StepCounts DEF NoRuleRead
<1>2. \A v \in ruleFlows : v \in RuleFlowRow' /\ v.id \in 1 .. steps
  BY <1>1, RuleFlowsKept
<1>3. RuleReadsTyped'
  <2>1. rulesLost' \in BOOLEAN
    BY <1>1 DEF RulesInv, RuleReadsTyped
  <2> QED
    BY <1>1, <2>1, NoReadStarts
<1>4. RuleFlowsTyped'
  BY <1>2 DEF RulesInv, RuleFlowsTyped
<1>5. RuleFlowsApart'
  <2>1. \A v \in ruleFlows : v.id # w.id
    BY <1>1, <1>2
  <2>2. \A f \in ruleReads : f.of \in 0 .. steps
    BY DEF RulesInv, RuleReadsTyped, RuleReadRow
  <2>3. \A f \in ruleReads : f.of # w.id
    BY <1>1, <2>2
  <2> QED
    BY <1>1, <2>1, <2>3 DEF RulesInv, RuleFlowsApart
<1>6. RulesFollowed => RulesFollowed'
  BY <1>1 DEF RulesFollowed, WillRead
<1> QED
  BY <1>1, <1>3, <1>4, <1>5, <1>6 DEF RulesInv

LEMMA SetModeStep ==
  ASSUME ConfigBoardAssumption, RulesInv, NEW m \in KernelModes, SetMode(m)
  PROVE  RulesInv'
<1> DEFINE w == RuleFlow("set", NoRule, m)
<1>1. /\ Step /\ NoRuleRead /\ shownMode' = m /\ ruleFlows' = ruleFlows \union {w}
      /\ UNCHANGED <<kernelMode, configReads, disabled, matched, shownRules, loaded, ruleBusy,
                     rulesTab, readCount>>
  BY DEF SetMode, NoRuleRead
<1>2. steps' \in 0 .. MaxSteps /\ steps + 1 \in 1 .. steps'
  BY <1>1, StepsTyped, StepCounts
<1>3. ModeTyped'
  BY <1>1 DEF RulesInv, ModeTyped
<1>4. RulesTyped'
  BY <1>1, <1>2 DEF RulesInv, RulesTyped
<1>5. w \in RuleFlowRow' /\ w.id = steps + 1 /\ w.kind = "set" /\ w.to = m
  <2>1. "set" \in Kinds
    BY DEF Kinds
  <2> QED
    BY <1>2, <2>1, RuleFlowTyped
<1> HIDE DEF w
<1> QED
  BY <1>1, <1>3, <1>4, <1>5, RuleFlowStarts

LEMMA StartStep ==
  ASSUME ConfigBoardAssumption, RulesInv, NEW k \in Kinds \ {"set"}, NEW x \in Rules \union {NoRule},
         NEW m \in Destinations, k = "toggle" => x \in Rules, Start(k, x, m)
  PROVE  RulesInv'
<1> DEFINE w == RuleFlow(k, x, m)
<1>1. /\ Step /\ NoRuleRead /\ ruleBusy' = ruleBusy \union {<<k, x>>}
      /\ ruleFlows' = ruleFlows \union {w}
      /\ UNCHANGED <<modeVars, disabled, matched, shownRules, loaded, rulesTab, readCount>>
  BY DEF Start, NoRuleRead
<1>2. steps' \in 0 .. MaxSteps /\ steps + 1 \in 1 .. steps'
  BY <1>1, StepsTyped, StepCounts
<1>3. ModeTyped'
  BY <1>1 DEF modeVars, RulesInv, ModeTyped
<1>4. RulesTyped'
  <2>1. <<k, x>> \in Kinds \X (Rules \union {NoRule})
    OBVIOUS
  <2> QED
    BY <1>1, <1>2, <2>1 DEF RulesInv, RulesTyped
<1>5. w \in RuleFlowRow' /\ w.id = steps + 1 /\ w.kind = k /\ w.rule = x
  <2>1. k \in Kinds /\ m \in KernelModes \union Destinations
    OBVIOUS
  <2> QED
    BY <1>2, <2>1 DEF RuleFlow, RuleFlowRow
<1>6. /\ w.kind = "set" => w.to \in KernelModes
      /\ w.kind = "toggle" => w.rule \in Rules
  BY <1>5
<1> HIDE DEF w
<1> QED
  BY <1>1, <1>3, <1>4, <1>5, <1>6, RuleFlowStarts

LEMMA RuleStartSteps ==
  ASSUME ConfigBoardAssumption, RulesInv,
         \/ \E r \in Rules : ToggleRule(r) \/ UpdateRuleSet(r)
         \/ UpdateRuleProvider \/ UpdateAllProviders \/ ReloadAll
  PROVE  RulesInv'
<1>1. /\ {"toggle", "ruleset", "provider", "all", "reload"} \subseteq Kinds \ {"set"}
      /\ {"", "on", "off"} \subseteq Destinations
  BY DEF Kinds, Destinations
<1>2. ASSUME NEW r \in Rules, ToggleRule(r) PROVE RulesInv'
  <2>1. PICK to \in {"on", "off"} : Start("toggle", r, to)
    BY <1>2 DEF ToggleRule
  <2> QED
    BY <1>1, <2>1, StartStep
<1>3. ASSUME NEW r \in Rules, UpdateRuleSet(r) PROVE RulesInv'
  BY <1>1, <1>3, StartStep DEF UpdateRuleSet
<1>4. CASE UpdateRuleProvider
  BY <1>1, <1>4, StartStep DEF UpdateRuleProvider
<1>5. CASE UpdateAllProviders
  BY <1>1, <1>5, StartStep DEF UpdateAllProviders
<1>6. CASE ReloadAll
  BY <1>1, <1>6, StartStep DEF ReloadAll
<1> QED
  BY <1>2, <1>3, <1>4, <1>5, <1>6

\* A call that nobody awaits.
LEMMA ReadAlone ==
  ASSUME ConfigBoardAssumption, RulesInv, NEW n, n \in 1 .. readCount', readCount <= readCount',
         NewRuleRead(n, ruleReads, 0), NEW gone, ruleFlows' = ruleFlows \ gone,
         steps <= steps', ModeTyped', RulesTyped'
  PROVE  RulesInv'
<1>1. steps \in Nat /\ steps' \in Nat /\ readCount' \in Nat
  <2>1. steps' \in 0 .. MaxSteps
    BY DEF RulesTyped
  <2>2. readCount' \in Nat
    BY DEF ModeTyped
  <2> QED
    BY <2>1, <2>2, StepsTyped
<1>2. /\ RuleReadsTyped'
      /\ \A f, g \in ruleReads' : f.of = g.of /\ f.of # 0 => f = g
      /\ \A f \in ruleReads' : f \in ruleReads \/ f.of = 0
      /\ crossedReads' \/ RulesFollowed'
  BY <1>1, ReadStarts
<1>3. \A w \in ruleFlows : w \in RuleFlowRow' /\ w.id \in 1 .. steps
  BY <1>1, RuleFlowsKept
<1>4. RuleFlowsTyped'
  BY <1>3 DEF RulesInv, RuleFlowsTyped
<1>5. RuleFlowsApart'
  <2>1. \A w \in ruleFlows : w.id # 0
    BY <1>1, <1>3
  <2> QED
    BY <1>2, <2>1 DEF RulesInv, RuleFlowsApart
<1> QED
  BY <1>2, <1>4, <1>5 DEF RulesInv

LEMMA OpenRulesStep == ASSUME ConfigBoardAssumption, RulesInv, OpenRules PROVE RulesInv'
<1>1. /\ Step /\ readCount' = readCount + 1 /\ NewRuleRead(readCount + 1, ruleReads, 0)
      /\ UNCHANGED <<modeVars, disabled, matched, shownRules, loaded, ruleFlows, ruleBusy,
                     rulesTab>>
  BY DEF OpenRules, fetchRules
<1>2. steps' \in 0 .. MaxSteps /\ steps <= steps'
  BY <1>1, StepCounts
<1>3. RulesTyped'
  BY <1>1, <1>2 DEF RulesInv, RulesTyped
<1>4. ModeTyped'
  BY <1>1, ModeKept DEF modeVars, RulesInv
<1>5. readCount \in Nat
  BY StepsTyped
<1>6. readCount + 1 \in 1 .. readCount' /\ readCount <= readCount'
  BY <1>1, <1>5
<1>7. ruleFlows' = ruleFlows \ {}
  BY <1>1
<1> QED
  BY <1>1, <1>2, <1>3, <1>4, <1>6, <1>7, ReadAlone

\* StepsTyped that concern neither calls nor flows.
LEMMA RulesRest ==
  ASSUME ConfigBoardAssumption, RulesInv, NoRuleRead,
         UNCHANGED <<modeVars, disabled, shownRules, ruleFlows, steps>>, RulesTyped'
  PROVE  RulesInv'
<1>1. /\ steps <= steps' /\ readCount <= readCount'
      /\ UNCHANGED <<ruleReads, crossedReads, rulesLost, readCount>>
  BY StepsTyped DEF NoRuleRead
<1>2. ModeTyped'
  BY <1>1 DEF modeVars, RulesInv, ModeTyped
<1>3. rulesLost' \in BOOLEAN
  BY <1>1 DEF RulesInv, RuleReadsTyped
<1>4. RulesFollowed => RulesFollowed'
  BY <1>1 DEF RulesFollowed, WillRead
<1>5. ruleFlows' = ruleFlows \ {}
  OBVIOUS
<1> QED
  BY <1>1, <1>2, <1>3, <1>4, <1>5, RulesEnd

-----------------------------------------------------------------------------
LEMMA KernelDoesStep ==
  ASSUME ConfigBoardAssumption, RulesInv, NEW w \in ruleFlows, KernelDoes(w)
  PROVE  RulesInv'
<1> DEFINE u == [w EXCEPT !.done = TRUE]
<1>1. /\ w.stage = "request" /\ ~w.done /\ ruleFlows' = (ruleFlows \ {w}) \union {u}
      /\ UNCHANGED <<ruleReads, crossedReads, rulesLost, readCount>>
      /\ UNCHANGED <<shownMode, configReads, matched, shownRules, loaded, ruleBusy, rulesTab, steps>>
  BY DEF KernelDoes, NoRuleRead
<1>2. w \in RuleFlowRow /\ (w.kind = "set" => w.to \in KernelModes) /\ (w.kind = "toggle" => w.rule \in Rules)
  BY DEF RulesInv, RuleFlowsTyped
<1>3. /\ u \in RuleFlowRow /\ u.id = w.id /\ u.kind = w.kind /\ u.to = w.to /\ u.rule = w.rule
      /\ u.stage = w.stage /\ u.done = TRUE
  BY <1>2 DEF RuleFlowRow
<1> HIDE DEF u
<1>4. ModeTyped'
  <2>1. kernelMode' \in KernelModes
    BY <1>2 DEF KernelDoes, RulesInv, ModeTyped
  <2> QED
    BY <1>1, <2>1 DEF RulesInv, ModeTyped
<1>5. RulesTyped'
  <2>1. disabled' \subseteq Rules
    BY <1>2 DEF KernelDoes, RulesInv, RulesTyped
  <2> QED
    BY <1>1, <2>1 DEF RulesInv, RulesTyped
<1>6. RuleFlowRow' = RuleFlowRow /\ RuleReadRow' = RuleReadRow
  BY <1>1 DEF RuleFlowRow, RuleReadRow
<1>7. RuleReadsTyped' /\ RuleFlowsTyped'
  BY <1>1, <1>2, <1>3, <1>6 DEF RulesInv, RuleReadsTyped, RuleFlowsTyped
<1>8. RuleFlowsApart'
  BY <1>1, <1>3 DEF RulesInv, RuleFlowsApart
<1>9. ASSUME RulesFollowed PROVE RulesFollowed'
  <2>1. CASE w.kind \in {"toggle", "reload"}
    <3>1. u \in ruleFlows' /\ WillRead(u)
      BY <1>1, <1>3, <2>1 DEF WillRead
    <3> QED
      BY <1>1, <1>9, <3>1 DEF RulesFollowed
  <2>2. CASE w.kind \notin {"toggle", "reload"}
    <3>1. disabled' = disabled
      BY <2>2 DEF KernelDoes
    <3>2. \A v \in ruleFlows : WillRead(v) => v \in ruleFlows'
      BY <1>1 DEF WillRead
    <3> QED
      BY <1>1, <1>9, <3>1, <3>2 DEF RulesFollowed, WillRead
  <2> QED
    BY <2>1, <2>2
<1> QED
  BY <1>1, <1>4, <1>5, <1>7, <1>8, <1>9 DEF RulesInv

\* A handler whose request is answered awaits a call.
LEMMA RequestAnswered ==
  ASSUME ConfigBoardAssumption, RulesInv, NEW w \in ruleFlows, w.stage = "request",
         NEW st \in {"fetch", "again"}, NEW u, u = [w EXCEPT !.stage = st],
         ruleFlows' = (ruleFlows \ {w}) \union {u}, fetchRules(ruleReads, w.id), steps <= steps',
         UNCHANGED modeVars, RulesTyped'
  PROVE  RulesInv'
<1>1. w \in RuleFlowRow
  BY DEF RulesInv, RuleFlowsTyped
<1>2. /\ u \in RuleFlowRow /\ u.id = w.id /\ u.kind = w.kind /\ u.to = w.to /\ u.rule = w.rule
      /\ u.stage = st
  BY <1>1 DEF RuleFlowRow
<1>3. \A f \in ruleReads : f.of # w.id
  BY DEF RulesInv, RuleFlowsApart
<1>4. ModeTyped'
  <2>1. readCount' = readCount + 1
    BY DEF fetchRules
  <2> QED
    BY <2>1, ModeKept DEF modeVars, RulesInv
<1>5. ruleReads \subseteq ruleReads /\ u.stage \in {"fetch", "again"}
  BY <1>2
<1> QED
  BY <1>2, <1>3, <1>4, <1>5, ReadAwaited

LEMMA RuleToggledStep ==
  ASSUME ConfigBoardAssumption, RulesInv, NEW w \in ruleFlows, RuleToggled(w)
  PROVE  RulesInv'
<1>1. /\ w.stage = "request" /\ matched' \subseteq matched /\ fetchRules(ruleReads, w.id)
      /\ ruleFlows' = (ruleFlows \ {w}) \union {[w EXCEPT !.stage = "fetch"]}
      /\ UNCHANGED <<modeVars, disabled, shownRules, loaded, ruleBusy, rulesTab, steps>>
  BY DEF RuleToggled
<1>2. RulesTyped' /\ steps <= steps'
  BY <1>1, StepsTyped DEF RulesInv, RulesTyped
<1> QED
  BY <1>1, <1>2, RequestAnswered

LEMMA RulesUpdatedStep ==
  ASSUME ConfigBoardAssumption, RulesInv, NEW w \in ruleFlows, RulesUpdated(w)
  PROVE  RulesInv'
<1>1. /\ w.stage = "request" /\ ruleBusy' \subseteq ruleBusy
      /\ UNCHANGED <<modeVars, disabled, matched, shownRules, loaded, rulesTab, steps>>
  BY DEF RulesUpdated
<1>2. RulesTyped' /\ steps <= steps'
  BY <1>1, StepsTyped DEF RulesInv, RulesTyped
<1>3. CASE w.kind # "provider"
  <2>1. /\ ruleFlows' = (ruleFlows \ {w}) \union {[w EXCEPT !.stage = "fetch"]}
        /\ fetchRules(ruleReads, w.id)
    BY <1>3 DEF RulesUpdated
  <2> QED
    BY <1>1, <1>2, <2>1, RequestAnswered
<1>4. CASE w.kind = "provider"
  <2>1. ruleFlows' = ruleFlows \ {w} /\ fetchRules(ruleReads, 0)
    BY <1>4 DEF RulesUpdated
  <2>2. readCount' = readCount + 1 /\ NewRuleRead(readCount + 1, ruleReads, 0)
    BY <2>1 DEF fetchRules
  <2>3. ModeTyped'
    BY <1>1, <2>2, ModeKept DEF modeVars, RulesInv
  <2>4. readCount \in Nat
    BY StepsTyped
  <2>5. readCount + 1 \in 1 .. readCount' /\ readCount <= readCount'
    BY <2>2, <2>4
  <2> QED
    BY <1>2, <2>1, <2>2, <2>3, <2>5, ReadAlone
<1> QED
  BY <1>3, <1>4

LEMMA ConfigSentStep ==
  ASSUME ConfigBoardAssumption, RulesInv, NEW w \in ruleFlows, ConfigSent(w)
  PROVE  RulesInv'
<1>1. /\ w.kind \in {"set", "reload"} /\ ruleFlows' = ruleFlows \ {w} /\ ruleBusy' \subseteq ruleBusy
      /\ NewConfigRead(readCount + 1)
      /\ UNCHANGED <<kernelMode, shownMode, disabled, matched, shownRules, loaded, rulesTab, steps>>
  BY DEF ConfigSent
<1>2. RulesTyped' /\ steps <= steps' /\ readCount \in Nat
  BY <1>1, StepsTyped DEF RulesInv, RulesTyped
<1>3. readCount' \in {readCount + 1, readCount + 2}
  BY DEF ConfigSent
<1>4. ModeTyped'
  <2> DEFINE ask == [id |-> readCount + 1, read |-> ""]
  <2>1. /\ readCount' \in Nat /\ readCount <= readCount' /\ readCount + 1 \in 1 .. readCount'
        /\ 1 .. readCount \subseteq 1 .. readCount'
    BY <1>2, <1>3
  <2>2. ask \in [id : 1 .. readCount', read : KernelModes \union {""}]
    BY <2>1
  <2>3. ASSUME NEW c \in configReads
        PROVE  c \in [id : 1 .. readCount', read : KernelModes \union {""}]
    <3>1. c \in [id : 1 .. readCount, read : KernelModes \union {""}]
      BY DEF RulesInv, ModeTyped
    <3> QED
      BY <2>1, <3>1
  <2>4. configReads' = configReads \union {ask}
    BY <1>1 DEF NewConfigRead
  <2> HIDE DEF ask
  <2> QED
    BY <1>1, <2>1, <2>2, <2>3, <2>4 DEF RulesInv, ModeTyped
<1>5. CASE w.kind = "set"
  <2>1. UNCHANGED <<ruleReads, crossedReads, rulesLost>>
    BY <1>5 DEF ConfigSent
  <2>2. rulesLost' \in BOOLEAN
    BY <2>1 DEF RulesInv, RuleReadsTyped
  <2>3. RulesFollowed => RulesFollowed'
    BY <1>1, <1>5, <2>1 DEF RulesFollowed, WillRead
  <2>4. readCount <= readCount'
    BY <1>2, <1>3
  <2> QED
    BY <1>1, <1>2, <1>4, <2>1, <2>2, <2>3, <2>4, RulesEnd
<1>6. CASE w.kind # "set"
  <2>1. readCount' = readCount + 2 /\ NewRuleRead(readCount + 2, ruleReads, 0)
    BY <1>6 DEF ConfigSent
  <2>2. readCount + 2 \in 1 .. readCount' /\ readCount <= readCount'
    BY <1>2, <2>1
  <2> QED
    BY <1>1, <1>2, <1>4, <2>1, <2>2, ReadAlone
<1> QED
  BY <1>5, <1>6

LEMMA RuleRefusedStep ==
  ASSUME ConfigBoardAssumption, RulesInv, NEW w \in ruleFlows, RuleRefused(w)
  PROVE  RulesInv'
<1>1. /\ w.stage = "request" /\ Step /\ ruleBusy' \subseteq ruleBusy
      /\ UNCHANGED <<modeVars, disabled, matched, shownRules, loaded, rulesTab>>
  BY DEF RuleRefused
<1>2. steps' \in 0 .. MaxSteps /\ steps <= steps'
  BY <1>1, StepCounts
<1>3. RulesTyped'
  BY <1>1, <1>2 DEF RulesInv, RulesTyped
<1>4. CASE w.kind = "all"
  <2>1. /\ ruleFlows' = (ruleFlows \ {w}) \union {[w EXCEPT !.stage = "again"]}
        /\ fetchRules(ruleReads, w.id)
    BY <1>4 DEF RuleRefused
  <2> QED
    BY <1>1, <1>2, <1>3, <2>1, RequestAnswered
<1>5. CASE w.kind # "all"
  <2>1. /\ ruleFlows' = ruleFlows \ {w}
        /\ rulesLost' = (rulesLost \/ (w.done /\ w.kind \in {"toggle", "reload"}))
        /\ UNCHANGED <<ruleReads, crossedReads, readCount>>
    BY <1>5 DEF RuleRefused
  <2>2. rulesLost' \in BOOLEAN /\ (rulesLost => rulesLost') /\ (WillRead(w) => rulesLost')
    BY <2>1 DEF WillRead
  <2>3. RulesFollowed => rulesLost' \/ RulesFollowed'
    BY <1>1, <2>1, <2>2 DEF RulesFollowed, WillRead
  <2>4. ModeTyped'
    BY <1>1, <2>1, ModeKept DEF modeVars, RulesInv
  <2>5. readCount <= readCount'
    BY <2>1, StepsTyped
  <2> QED
    BY <1>1, <1>2, <1>3, <2>1, <2>2, <2>3, <2>4, <2>5, RulesEnd
<1> QED
  BY <1>4, <1>5

LEMMA NextRules ==
  ASSUME ConfigBoardAssumption, RulesInv, [ConfigBoardNext]_configVars
  PROVE  RulesInv'
<1>1. ASSUME NEW c \in configReads, ConfigAnswers(c) \/ ConfigArrives(c) \/ ConfigFails(c)
      PROVE  RulesInv'
  BY <1>1, ConfigSteps
<1>2. ASSUME NEW f \in ruleReads, RulesAnswer(f) \/ RulesArrive(f) \/ RulesFail(f) PROVE RulesInv'
  BY <1>2, RulesAnswerStep, RulesArriveStep, RulesFailStep
<1>3. ASSUME NEW m \in KernelModes, SetMode(m) PROVE RulesInv'
  BY <1>3, SetModeStep
<1>4. CASE \/ \E r \in Rules : ToggleRule(r) \/ UpdateRuleSet(r)
           \/ UpdateRuleProvider \/ UpdateAllProviders \/ ReloadAll
  BY <1>4, RuleStartSteps
<1>5. CASE OpenRules
  BY <1>5, OpenRulesStep
<1>6. CASE ShowRulesTab
  <2>1. RulesTyped'
    BY <1>6 DEF ShowRulesTab, RulesInv, RulesTyped
  <2> QED
    BY <1>6, <2>1, RulesRest DEF ShowRulesTab
<1>7. CASE RuleMatches
  <2>1. RulesTyped'
    BY <1>7 DEF RuleMatches, RulesInv, RulesTyped
  <2> QED
    BY <1>7, <2>1, RulesRest DEF RuleMatches
<1>8. ASSUME NEW w \in ruleFlows,
             KernelDoes(w) \/ RuleToggled(w) \/ RulesUpdated(w) \/ ConfigSent(w) \/ RuleRefused(w)
      PROVE  RulesInv'
  BY <1>8, KernelDoesStep, RuleToggledStep, RulesUpdatedStep, ConfigSentStep, RuleRefusedStep
<1>9. CASE UNCHANGED configVars
  <2>1. RulesTyped'
    BY <1>9 DEF configVars, ruleVars, RulesInv, RulesTyped
  <2> QED
    BY <1>9, <2>1, RulesRest DEF configVars, ruleVars, NoRuleRead
<1> QED
  BY <1>1, <1>2, <1>3, <1>4, <1>5, <1>6, <1>7, <1>8, <1>9 DEF ConfigBoardNext

LEMMA BoardOfRulesTyped ==
  ASSUME ConfigBoardAssumption, RulesInv PROVE ConfigBoardTypeOK
<1>1. /\ steps \in Nat /\ MaxSteps \in Nat /\ steps \in 0 .. MaxSteps /\ readCount \in Nat
  BY StepsTyped
<1>2. ASSUME NEW f \in ruleReads
      PROVE  /\ f.id \in 1 .. readCount /\ f.of \in 0 .. MaxSteps /\ f.answered \in BOOLEAN
             /\ f.read \subseteq Rules
  <2>1. f \in RuleReadRow
    BY DEF RulesInv, RuleReadsTyped
  <2>2. f.of \in 0 .. steps
    BY <2>1 DEF RuleReadRow
  <2>3. f.of \in 0 .. MaxSteps
    BY <1>1, <2>2
  <2> QED
    BY <2>1, <2>3 DEF RuleReadRow
<1>3. ASSUME NEW w \in ruleFlows
      PROVE  w \in [id : 1 .. MaxSteps, kind : Kinds, rule : Rules \union {NoRule}, done : BOOLEAN,
                    to : KernelModes \union {"", "on", "off"}, stage : {"request", "fetch", "again"}]
  <2>1. w \in RuleFlowRow
    BY DEF RulesInv, RuleFlowsTyped
  <2>2. w.id \in 1 .. MaxSteps
    <3>1. w.id \in 1 .. steps
      BY <2>1 DEF RuleFlowRow
    <3> QED
      BY <1>1, <3>1
  <2> QED
    BY <2>1, <2>2 DEF RuleFlowRow, Destinations
<1>4. ModeTyped /\ RulesTyped /\ RuleReadsTyped
  BY DEF RulesInv
<1> QED
  BY <1>2, <1>3, <1>4 DEF ModeTyped, RulesTyped, RuleReadsTyped, ConfigBoardTypeOK

LEMMA RulesAlwaysInv == ASSUME ConfigBoardAssumption PROVE ConfigBoardSpec => []RulesInv
<1>1. ConfigBoardInit => RulesInv
  BY InitRules
<1>2. RulesInv /\ [ConfigBoardNext]_configVars => RulesInv'
  BY NextRules
<1> QED
  BY <1>1, <1>2, PTL DEF ConfigBoardSpec

\* The records of the pages of rules and configuration have their types.
THEOREM RulesTypeCorrect == ASSUME ConfigBoardAssumption PROVE ConfigBoardSpec => []ConfigBoardTypeOK
BY RulesAlwaysInv, BoardOfRulesTyped, PTL

\* In whatever order rules were switched, updated or reloaded, the page shows them as the kernel
\* has them once nothing is under way (RuleCard.vue:211-239, rules.ts:46-60).
THEOREM RulesAlwaysShown == ASSUME ConfigBoardAssumption PROVE ConfigBoardSpec => []ShownRules
<1>1. RulesInv => ShownRules
  BY DEF RulesInv, ShownRules, RulesFollowed
<1> QED
  BY <1>1, RulesAlwaysInv, PTL

-----------------------------------------------------------------------------
(* The pictures of the groups (IconUploads). *)

InputReads == {r \in reads : r.way = "input"}

\* A file of the input, that no other orders have crossed, is the only one being read and is
\* for the target; the target is whom the dialog is for, unless an upload was given up.
TargetKept ==
  /\ \A r \in InputReads : ~r.crossed =>
       r.place = uploadTargetItem /\ InputReads = {r} /\ dialog \in {NoDialog, New}
  /\ ~abandoned /\ InputReads = {} =>
       uploadTargetItem = (IF dialog = NoDialog THEN New ELSE dialog)

IconInv == IconUploadsTypeOK /\ TargetKept /\ IconsLand

LEMMA InitIcons == ASSUME IconAssumption PROVE IconUploadsInit => IconInv
<1> SUFFICES ASSUME IconUploadsInit PROVE IconInv
  OBVIOUS
<1>1. IconUploadsTypeOK
  <2>1. made \in 0 .. MaxEntries /\ iconReflectList \subseteq Entries /\ files \in 0 .. MaxFiles
    BY DEF IconAssumption, IconUploadsInit, Entries
  <2>2. New \in Places
    BY DEF Places
  <2>3. icon \in [Places -> {"none", "own", "crossed", "another's"}]
    BY DEF IconUploadsInit
  <2>4. QED
    BY <2>1, <2>2, <2>3 DEF IconUploadsInit, IconUploadsTypeOK
<1>2. TargetKept /\ IconsLand
  BY DEF IconUploadsInit, TargetKept, InputReads, IconsLand
<1>3. QED
  BY <1>1, <1>2 DEF IconInv

\* A picture lands where it is meant to, or is known to be crossed.
LEMMA LandedSafely ==
  ASSUME IconInv, NEW r \in reads, NEW p \in Places, Landed(r, p), r.place = p \/ r.crossed
  PROVE  icon' \in [Places -> {"none", "own", "crossed", "another's"}] /\ IconsLand'
<1>1. icon \in [Places -> {"none", "own", "crossed", "another's"}]
  BY DEF IconInv, IconUploadsTypeOK
<1>2. PICK v \in {"own", "crossed"} : icon' = [icon EXCEPT ![p] = v]
  BY DEF Landed
<1>3. icon' \in [Places -> {"none", "own", "crossed", "another's"}]
  BY <1>1, <1>2
<1>4. \A q \in Places : icon'[q] = icon[q] \/ icon'[q] = v
  BY <1>1, <1>2
<1>5. QED
  BY <1>2, <1>3, <1>4 DEF IconInv, IconsLand

\* What the orders of the operator make of the files being read.
LEMMA AllCrossed ==
  ASSUME IconInv
  PROVE  /\ Disturbed \subseteq [place : Places, way : Ways, crossed : BOOLEAN]
         /\ \A r \in Disturbed : r.crossed
<1>1. reads \subseteq [place : Places, way : Ways, crossed : BOOLEAN]
  BY DEF IconInv, IconUploadsTypeOK
<1>2. \A r \in reads : /\ [r EXCEPT !.crossed = TRUE] \in [place : Places, way : Ways, crossed : BOOLEAN]
                       /\ [r EXCEPT !.crossed = TRUE].crossed
  BY <1>1
<1>3. QED
  BY <1>2 DEF Disturbed

LEMMA TriggerStep ==
  ASSUME IconAssumption, IconInv, triggerUploadForItem
  PROVE  IconInv'
<1>1. /\ dialog' \in Entries /\ uploadTargetItem' = dialog' /\ reads' = Disturbed
      /\ UNCHANGED <<iconReflectList, icon, made, files>> /\ abandoned' = FALSE
  BY DEF triggerUploadForItem, IconInv, IconUploadsTypeOK
<1>2. IconUploadsTypeOK'
  BY <1>1, AllCrossed DEF IconInv, IconUploadsTypeOK, Places
<1>3. TargetKept'
  <2>1. \A r \in InputReads' : r.crossed
    BY <1>1, AllCrossed DEF InputReads
  <2>2. dialog' # NoDialog
    BY <1>1 DEF Entries, NoDialog, IconAssumption
  <2>3. QED
    BY <1>1, <2>1, <2>2 DEF TargetKept
<1>4. IconsLand'
  BY <1>1 DEF IconInv, IconsLand
<1>5. QED
  BY <1>2, <1>3, <1>4 DEF IconInv

LEMMA DialogSteps ==
  ASSUME IconInv, clickNew \/ Dismiss
  PROVE  IconInv'
<1>1. /\ UNCHANGED <<iconReflectList, icon, uploadTargetItem, reads, made, files>>
      /\ \/ dialog = NoDialog /\ dialog' = New /\ abandoned' = abandoned
         \/ /\ dialog # NoDialog /\ dialog' = NoDialog
            /\ abandoned' = (abandoned \/ dialog # New)
  BY DEF clickNew, Dismiss
<1>2. IconUploadsTypeOK'
  BY <1>1 DEF IconInv, IconUploadsTypeOK, Places
<1>3. TargetKept'
  <2>1. InputReads' = InputReads
    BY <1>1 DEF InputReads
  <2>2. dialog' \in {NoDialog, New} /\ New # NoDialog
    BY <1>1 DEF New, NoDialog
  <2>3. ASSUME ~abandoned', InputReads = {}
        PROVE  uploadTargetItem = New
    BY <1>1, <2>2, <2>3 DEF IconInv, TargetKept
  <2>4. QED
    BY <1>1, <2>1, <2>2, <2>3 DEF IconInv, TargetKept
<1>4. IconsLand'
  BY <1>1 DEF IconInv, IconsLand
<1>5. QED
  BY <1>2, <1>3, <1>4 DEF IconInv

LEMMA FileSelectStep ==
  ASSUME IconAssumption, IconInv, handleFileSelect
  PROVE  IconInv'
<1>1. PICK c \in BOOLEAN :
        /\ c = (abandoned \/ \E r \in reads : r.way = "input")
        /\ reads' = Disturbed \union {[place |-> dialog, way |-> "input", crossed |-> c]}
  BY DEF handleFileSelect, IconInv, IconUploadsTypeOK
<1>2. /\ dialog \in Places /\ dialog' = NoDialog
      /\ UNCHANGED <<iconReflectList, icon, uploadTargetItem, abandoned, made>>
      /\ files < MaxFiles /\ files' = files + 1
  BY DEF handleFileSelect, IconInv, IconUploadsTypeOK, Read
<1>3. IconUploadsTypeOK'
  <2>1. reads' \subseteq [place : Places, way : Ways, crossed : BOOLEAN]
    <3>1. [place |-> dialog, way |-> "input", crossed |-> c]
            \in [place : Places, way : Ways, crossed : BOOLEAN]
      BY <1>2 DEF Ways
    <3>2. QED
      BY <1>1, <3>1, AllCrossed
  <2>2. files' \in 0 .. MaxFiles
    BY <1>2 DEF IconInv, IconUploadsTypeOK, IconAssumption
  <2>3. QED
    BY <1>2, <2>1, <2>2 DEF IconInv, IconUploadsTypeOK
<1>4. PICK n : n = [place |-> dialog, way |-> "input", crossed |-> c]
  OBVIOUS
<1>5. n.place = dialog /\ n.way = "input" /\ n.crossed = c /\ reads' = Disturbed \union {n}
  BY <1>1, <1>4
<1>6. TargetKept'
  <2>1. n \in InputReads'
    BY <1>5 DEF InputReads
  <2>2. ASSUME NEW r \in InputReads', ~r.crossed
        PROVE  r.place = uploadTargetItem /\ InputReads' = {r}
    <3>1. r = n /\ ~c
      BY <1>5, <2>2, AllCrossed DEF InputReads
    <3>2. InputReads = {} /\ ~abandoned
      BY <1>1, <3>1 DEF InputReads
    <3>3. \A d \in Disturbed : d.way # "input"
      <4>1. ASSUME NEW q \in reads PROVE [q EXCEPT !.crossed = TRUE].way # "input"
        <5>1. q.way # "input" /\ q \in [place : Places, way : Ways, crossed : BOOLEAN]
          BY <3>2, <4>1 DEF InputReads, IconInv, IconUploadsTypeOK
        <5>2. QED
          BY <5>1
      <4>2. QED
        BY <4>1 DEF Disturbed
    <3>4. InputReads' = {n}
      BY <1>5, <3>3 DEF InputReads
    <3>5. dialog = uploadTargetItem
      BY <3>2 DEF IconInv, TargetKept, handleFileSelect
    <3>6. QED
      BY <1>5, <3>1, <3>4, <3>5
  <2>3. QED
    BY <1>2, <2>1, <2>2 DEF TargetKept
<1>7. IconsLand'
  BY <1>2 DEF IconInv, IconsLand
<1>8. QED
  BY <1>3, <1>6, <1>7 DEF IconInv

LEMMA DropStep ==
  ASSUME IconAssumption, IconInv, handleDrop
  PROVE  IconInv'
<1>1. PICK p \in Present : reads' = reads \union {[place |-> p, way |-> "drop", crossed |-> FALSE]}
  BY DEF handleDrop
<1>2. /\ files < MaxFiles /\ files' = files + 1
      /\ UNCHANGED <<iconReflectList, icon, uploadTargetItem, dialog, abandoned, made>>
  BY DEF handleDrop, Read
<1>3. p \in Places
  BY DEF Present, Places, IconInv, IconUploadsTypeOK
<1>4. IconUploadsTypeOK'
  <2>1. reads' \subseteq [place : Places, way : Ways, crossed : BOOLEAN]
    <3>1. [place |-> p, way |-> "drop", crossed |-> FALSE]
            \in [place : Places, way : Ways, crossed : BOOLEAN]
      BY <1>3 DEF Ways
    <3>2. reads \subseteq [place : Places, way : Ways, crossed : BOOLEAN]
      BY DEF IconInv, IconUploadsTypeOK
    <3>3. QED
      BY <1>1, <3>1, <3>2
  <2>2. files' \in 0 .. MaxFiles
    BY <1>2 DEF IconInv, IconUploadsTypeOK, IconAssumption
  <2>3. QED
    BY <1>2, <2>1, <2>2 DEF IconInv, IconUploadsTypeOK
<1>5. InputReads' = InputReads
  BY <1>1 DEF InputReads
<1>6. TargetKept' /\ IconsLand'
  BY <1>2, <1>5 DEF IconInv, TargetKept, IconsLand
<1>7. QED
  BY <1>4, <1>6 DEF IconInv

LEMMA LoadedStep ==
  ASSUME IconInv, NEW r \in reads, Loaded(r)
  PROVE  IconInv'
<1>1. reads' = reads \ {r} /\ UNCHANGED <<iconReflectList, dialog, made, files>>
  BY DEF Loaded
<1>2. /\ r \in [place : Places, way : Ways, crossed : BOOLEAN] /\ uploadTargetItem \in Places
      /\ New \in Places
  BY DEF IconInv, IconUploadsTypeOK, Places
<1>3. CASE r.way = "drop"
  <2>1. Landed(r, r.place) /\ UNCHANGED <<uploadTargetItem, abandoned>>
    BY <1>3 DEF Loaded
  <2>2. r.place \in Places
    BY <1>2
  <2>3. icon' \in [Places -> {"none", "own", "crossed", "another's"}] /\ IconsLand'
    BY <2>1, <2>2, LandedSafely
  <2>4. InputReads' = InputReads
    BY <1>1, <1>3 DEF InputReads
  <2>5. IconUploadsTypeOK'
    BY <1>1, <2>1, <2>3 DEF IconInv, IconUploadsTypeOK
  <2>6. TargetKept'
    BY <1>1, <2>1, <2>4 DEF IconInv, TargetKept
  <2>7. QED
    BY <2>3, <2>5, <2>6 DEF IconInv
<1>4. CASE r.way = "input"
  <2>1. /\ Landed(r, uploadTargetItem) /\ uploadTargetItem' = New
        /\ abandoned' = (dialog \in Entries)
    BY <1>4 DEF Loaded
  <2>2. r \in InputReads /\ InputReads' = InputReads \ {r}
    BY <1>1, <1>4 DEF InputReads
  <2>3. r.place = uploadTargetItem \/ r.crossed
    BY <2>2 DEF IconInv, TargetKept
  <2>4. icon' \in [Places -> {"none", "own", "crossed", "another's"}] /\ IconsLand'
    BY <1>2, <2>1, <2>3, LandedSafely
  <2>5. IconUploadsTypeOK'
    BY <1>1, <1>2, <2>1, <2>4 DEF IconInv, IconUploadsTypeOK
  <2>6. \A q \in InputReads' : q.crossed
    BY <2>2 DEF IconInv, TargetKept
  <2>7. ~abandoned' => dialog = NoDialog \/ dialog = New
    BY <2>1 DEF IconInv, IconUploadsTypeOK, Places
  <2>8. TargetKept'
    BY <1>1, <2>1, <2>6, <2>7 DEF TargetKept
  <2>9. QED
    BY <2>4, <2>5, <2>8 DEF IconInv
<1>5. QED
  BY <1>2, <1>3, <1>4 DEF Ways

LEMMA LoadFailsStep ==
  ASSUME IconInv, NEW r \in reads, LoadFails(r)
  PROVE  IconInv'
<1>1. /\ reads' = reads \ {r}
      /\ abandoned' = (abandoned \/ (r.way = "input" /\ (r.crossed \/ r.place # New)))
      /\ UNCHANGED <<iconReflectList, icon, uploadTargetItem, dialog, made, files>>
  BY DEF LoadFails
<1>2. IconUploadsTypeOK' /\ IconsLand'
  BY <1>1 DEF IconInv, IconUploadsTypeOK, IconsLand
<1>3. r \in [place : Places, way : Ways, crossed : BOOLEAN]
  BY DEF IconInv, IconUploadsTypeOK
<1>4. CASE r.way = "drop"
  <2>1. InputReads' = InputReads /\ (~abandoned' => ~abandoned)
    BY <1>1, <1>4 DEF InputReads
  <2>2. QED
    BY <1>1, <1>2, <2>1 DEF IconInv, TargetKept
<1>5. CASE r.way = "input"
  <2>1. r \in InputReads /\ InputReads' = InputReads \ {r}
    BY <1>1, <1>5 DEF InputReads
  <2>2. \A q \in InputReads' : q.crossed
    BY <2>1 DEF IconInv, TargetKept
  <2>3. ~abandoned' => uploadTargetItem = New /\ dialog \in {NoDialog, New}
    BY <1>1, <1>5, <2>1 DEF IconInv, TargetKept
  <2>4. TargetKept'
    BY <1>1, <2>2, <2>3 DEF TargetKept
  <2>5. QED
    BY <1>2, <2>4 DEF IconInv
<1>6. QED
  BY <1>3, <1>4, <1>5 DEF Ways

LEMMA EntriesSteps ==
  ASSUME IconAssumption, IconInv, TypeIcon \/ addIconReflect \/ removeIconReflect
  PROVE  IconInv'
<1>1. UNCHANGED <<uploadTargetItem, dialog, reads, abandoned, files>>
  BY DEF TypeIcon, addIconReflect, removeIconReflect
<1>2. InputReads' = InputReads
  BY <1>1 DEF InputReads
<1>3. TargetKept'
  BY <1>1, <1>2 DEF IconInv, TargetKept
<1>4. icon \in [Places -> {"none", "own", "crossed", "another's"}] /\ New \in Places
  BY DEF IconInv, IconUploadsTypeOK, Places
<1>5. CASE TypeIcon
  <2>1. PICK p \in Present, v \in {"own", "none"} : icon' = [icon EXCEPT ![p] = v]
    BY <1>5 DEF TypeIcon
  <2>2. UNCHANGED <<iconReflectList, made>>
    BY <1>5 DEF TypeIcon
  <2>3. icon' \in [Places -> {"none", "own", "crossed", "another's"}]
    BY <1>4, <2>1
  <2>4. \A q \in Places : icon'[q] = icon[q] \/ icon'[q] = v
    BY <1>4, <2>1
  <2>5. IconsLand'
    BY <2>1, <2>4 DEF IconInv, IconsLand
  <2>6. QED
    BY <1>1, <1>3, <2>2, <2>3, <2>5 DEF IconInv, IconUploadsTypeOK
<1>6. CASE addIconReflect
  <2>1. /\ made < MaxEntries /\ made' = made + 1
        /\ iconReflectList' = iconReflectList \union {made'}
        /\ icon' = [icon EXCEPT ![made'] = icon[New], ![New] = "none"]
    BY <1>6 DEF addIconReflect
  <2>2. made' \in Entries /\ made' \in 0 .. MaxEntries
    BY <2>1 DEF Entries, IconInv, IconUploadsTypeOK, IconAssumption
  <2>3. \A q \in Places : icon'[q] \in {icon[q], icon[New], "none"}
    BY <1>4, <2>1
  <2>4. icon' \in [Places -> {"none", "own", "crossed", "another's"}]
    BY <1>4, <2>1, <2>3
  <2>5. IconsLand'
    BY <1>4, <2>3 DEF IconInv, IconsLand
  <2>6. QED
    BY <1>1, <1>3, <2>1, <2>2, <2>4, <2>5 DEF IconInv, IconUploadsTypeOK
<1>7. CASE removeIconReflect
  <2>1. iconReflectList' \subseteq iconReflectList /\ UNCHANGED <<icon, made>>
    BY <1>7 DEF removeIconReflect
  <2>2. QED
    BY <1>1, <1>3, <2>1 DEF IconInv, IconUploadsTypeOK, IconsLand
<1>8. QED
  BY <1>5, <1>6, <1>7

LEMMA NextIcons ==
  ASSUME IconAssumption PROVE IconInv /\ [IconUploadsNext]_iconVars => IconInv'
<1> SUFFICES ASSUME IconInv, [IconUploadsNext]_iconVars PROVE IconInv'
  OBVIOUS
<1>1. CASE UNCHANGED iconVars
  <2>1. UNCHANGED <<iconReflectList, icon, uploadTargetItem, dialog, reads, abandoned, made, files>>
    BY <1>1 DEF iconVars
  <2>2. InputReads' = InputReads
    BY <2>1 DEF InputReads
  <2>3. QED
    BY <2>1, <2>2 DEF IconInv, IconUploadsTypeOK, TargetKept, IconsLand
<1>2. CASE triggerUploadForItem \/ clickNew \/ Dismiss \/ handleFileSelect \/ handleDrop
  BY <1>2, TriggerStep, DialogSteps, FileSelectStep, DropStep
<1>3. CASE \E r \in reads : Loaded(r) \/ LoadFails(r)
  BY <1>3, LoadedStep, LoadFailsStep
<1>4. CASE TypeIcon \/ addIconReflect \/ removeIconReflect
  BY <1>4, EntriesSteps
<1>5. QED
  BY <1>1, <1>2, <1>3, <1>4 DEF IconUploadsNext

(* A picture lands on the entry, or in the form, that it was dropped on or chosen for, with    *)
(* any number of entries and of files being read, whatever is removed or dropped meanwhile;   *)
(* only uploads that overlap, or follow one that was given up, can end at another place       *)
(* (IconSettings.vue:189-266).                                                                *)
THEOREM IconsAlwaysLand == ASSUME IconAssumption PROVE IconUploadsSpec => []IconsLand
<1>1. IconInv => IconsLand
  BY DEF IconInv
<1>2. QED
  BY InitIcons, NextIcons, <1>1, PTL DEF IconUploadsSpec

-----------------------------------------------------------------------------
(* The pictures of the topology, for any connections and whatever is in them. *)

PicturesInv ==
  ~updateWaits /\ ~updateMissed =>
    mainChart = sankeyData(activeConns) /\ fullChart \in {NoChart, sankeyData(activeConns)}

LEMMA NextPictures == PicturesInv /\ [TopologyNext]_topologyVars => PicturesInv'
<1> SUFFICES ASSUME PicturesInv, [TopologyNext]_topologyVars PROVE PicturesInv'
  OBVIOUS
<1>1. CASE NewConnections
  BY <1>1 DEF NewConnections, PicturesInv
<1>2. CASE updateChartData
  <2>1. updateWaits' = FALSE /\ activeConns' = activeConns
    BY <1>2 DEF updateChartData
  <2>2. CASE updateMissed' = TRUE
    BY <2>2 DEF PicturesInv
  <2>3. CASE Draw
    BY <2>1, <2>3 DEF Draw, PicturesInv
  <2>4. QED
    BY <1>2, <2>2, <2>3 DEF updateChartData
<1>3. CASE ThemeChanges
  BY <1>3 DEF ThemeChanges, Draw, PicturesInv
<1>4. CASE TogglePaused \/ showTip \/ hideTip
  <2>1. UNCHANGED <<activeConns, mainChart, fullChart, updateWaits, updateMissed>>
    BY <1>4 DEF TogglePaused, showTip, hideTip
  <2>2. QED
    BY <2>1 DEF PicturesInv
<1>5. CASE EnterFullScreen \/ ExitFullScreen
  <2>1. /\ UNCHANGED <<activeConns, mainChart, updateWaits, updateMissed>>
        /\ fullChart' \in {NoChart, sankeyData(activeConns)}
    BY <1>5 DEF EnterFullScreen, ExitFullScreen
  <2>2. QED
    BY <2>1 DEF PicturesInv
<1>6. CASE UNCHANGED topologyVars
  BY <1>6 DEF topologyVars, charts, PicturesInv
<1>7. QED
  BY <1>1, <1>2, <1>3, <1>4, <1>5, <1>6 DEF TopologyNext

\* Reports, redraws, pauses, tooltips and the full screen, in every order, leave no chart with
\* an old picture, unless an update waits or was skipped; for any connections, in whatever way
\* the picture is computed from them (TopologyCharts.vue:313-433).
THEOREM PicturesAlwaysCurrent == TopologySpec => []PicturesCurrent
<1>1. TopologyInit => PicturesInv
  BY DEF TopologyInit, PicturesInv
<1>2. PicturesInv => PicturesCurrent
  BY DEF PicturesInv, PicturesCurrent, Pictures
<1>3. QED
  BY <1>1, <1>2, NextPictures, PTL DEF TopologySpec

-----------------------------------------------------------------------------
(* The cache of labels, for any list, keys and addresses. *)

\* What a look-up would find for an address now.
Findings == {[ip |-> a, label |-> Label(a)] : a \in Addresses}

CacheInv ==
  /\ ipLabelCache \in Seq(Findings) /\ Len(ipLabelCache) <= CacheSize
  /\ \A i, j \in DOMAIN ipLabelCache : ipLabelCache[i].ip = ipLabelCache[j].ip => i = j

LEMMA CachedSteps ==
  ASSUME SourceLabelsAssumption, CacheInv, getIPLabelFromMap
  PROVE  CacheInv'
<1>1. Findings' = Findings
  BY DEF getIPLabelFromMap, Findings, Label
<1>2. PICK a \in Addresses :
        /\ \A i \in DOMAIN ipLabelCache : ipLabelCache[i].ip # a
        /\ cacheResult(a, Label(a))
  BY DEF getIPLabelFromMap
<1>3. PICK e \in Findings : e = [ip |-> a, label |-> Label(a)]
  BY DEF Findings
<1>4. PICK old \in Seq(Findings) : old = ipLabelCache
  BY DEF CacheInv
<1>5. PICK longer : longer = Append(old, e)
  OBVIOUS
<1>6. ipLabelCache' = IF Len(longer) > CacheSize THEN Tail(longer) ELSE longer
  BY <1>2, <1>3, <1>4, <1>5 DEF cacheResult
<1>7. /\ longer \in Seq(Findings) /\ Len(longer) = Len(old) + 1 /\ Len(old) \in Nat
      /\ \A i \in 1 .. Len(old) : longer[i] = old[i]
      /\ longer[Len(old) + 1] = e
  BY <1>5, AppendProperties
<1>8. \A i, j \in 1 .. Len(longer) : longer[i].ip = longer[j].ip => i = j
  <2>1. \A i, j \in 1 .. Len(old) : old[i].ip = old[j].ip => i = j
    BY <1>4 DEF CacheInv
  <2>2. \A i \in 1 .. Len(old) : longer[i].ip # e.ip
    BY <1>2, <1>3, <1>4, <1>7
  <2>3. \A i \in 1 .. Len(longer) : i \in 1 .. Len(old) \/ i = Len(old) + 1
    BY <1>7
  <2>4. QED
    BY <1>7, <2>1, <2>2, <2>3
<1>9. CacheSize \in Nat \ {0} /\ Len(old) <= CacheSize
  BY <1>4 DEF SourceLabelsAssumption, CacheInv
<1>10. CASE Len(longer) > CacheSize
  <2>1. PICK rest : rest = Tail(longer)
    OBVIOUS
  <2>2. longer # <<>>
    BY <1>7
  <2>3. /\ rest \in Seq(Findings) /\ Len(rest) = Len(old)
        /\ \A i \in 1 .. Len(rest) : rest[i] = longer[i + 1]
    BY <1>7, <2>1, <2>2, HeadTailProperties
  <2>4. ASSUME NEW i \in 1 .. Len(rest), NEW j \in 1 .. Len(rest), rest[i].ip = rest[j].ip
        PROVE  i = j
    <3>1. i + 1 \in 1 .. Len(longer) /\ j + 1 \in 1 .. Len(longer)
      BY <1>7, <2>3
    <3>2. i + 1 = j + 1
      BY <1>8, <2>3, <2>4, <3>1
    <3>3. QED
      BY <3>2
  <2>5. ipLabelCache' = rest /\ Len(rest) <= CacheSize
    BY <1>6, <1>9, <1>10, <2>1, <2>3
  <2>6. QED
    BY <1>1, <2>3, <2>4, <2>5 DEF CacheInv
<1>11. CASE Len(longer) <= CacheSize
  BY <1>1, <1>6, <1>7, <1>8, <1>9, <1>11 DEF CacheInv
<1>12. QED
  BY <1>7, <1>9, <1>10, <1>11

LEMMA NextCache ==
  ASSUME SourceLabelsAssumption PROVE CacheInv /\ [SourceLabelsNext]_labelVars => CacheInv'
<1> SUFFICES ASSUME CacheInv, [SourceLabelsNext]_labelVars PROVE CacheInv'
  OBVIOUS
<1>1. CASE ipLabelCache' = <<>>
  <2>1. <<>> \in Seq(Findings') /\ Len(<<>>) = 0
    BY EmptySeq
  <2>2. CacheSize \in Nat
    BY DEF SourceLabelsAssumption
  <2>3. QED
    BY <1>1, <2>1, <2>2 DEF CacheInv
<1>2. CASE handlerLabelAdd \/ handlerLabelRemove \/ SourceIPInput \/ Drag
  <2>1. ipLabelCache' = <<>>
    BY <1>2 DEF handlerLabelAdd, handlerLabelRemove, SourceIPInput, Drag, WriteList,
       preprocessSourceIPList
  <2>2. QED
    BY <1>1, <2>1
<1>3. CASE UNCHANGED labelVars
  BY <1>3 DEF labelVars, CacheInv, Findings, Label
<1>4. QED
  BY <1>2, <1>3, CachedSteps DEF SourceLabelsNext

\* For any keys, addresses and size of the cache, however the list is edited, dragged or
\* shortened between look-ups: an address that is cached has the label that a look-up would
\* find now, has it once, and the cache keeps its size (sourceip.ts:13-96).
THEOREM CacheAlwaysCurrent == ASSUME SourceLabelsAssumption PROVE SourceLabelsSpec => []CacheCurrent
<1>1. SourceLabelsInit => CacheInv
  <2> SUFFICES ASSUME SourceLabelsInit PROVE CacheInv
    OBVIOUS
  <2>1. <<>> \in Seq(Findings) /\ Len(<<>>) = 0
    BY EmptySeq
  <2>2. ipLabelCache = <<>> /\ CacheSize \in Nat
    BY DEF SourceLabelsInit, SourceLabelsAssumption
  <2>3. QED
    BY <2>1, <2>2 DEF CacheInv
<1>2. CacheInv => CacheCurrent
  <2> SUFFICES ASSUME CacheInv PROVE CacheCurrent
    OBVIOUS
  <2>1. ASSUME NEW i \in DOMAIN ipLabelCache
        PROVE  ipLabelCache[i].label = Label(ipLabelCache[i].ip)
    <3>1. ipLabelCache[i] \in Findings
      BY ElementOfSeq DEF CacheInv
    <3>2. PICK a \in Addresses : ipLabelCache[i] = [ip |-> a, label |-> Label(a)]
      BY <3>1 DEF Findings
    <3>3. QED
      BY <3>2
  <2>2. QED
    BY <2>1 DEF CacheInv, CacheCurrent
<1>3. QED
  BY <1>1, <1>2, NextCache, PTL DEF SourceLabelsSpec

-----------------------------------------------------------------------------
(* The kernel's log, for any levels, retentions, lines and actions. *)

Lines == [no : Nat, level : Levels]
Taken == [seq : Nat, line : Lines]

\* The list is the newest part of the whole.
Newest(list, whole) ==
  Len(list) <= Len(whole) /\ \A k \in 1 .. Len(list) : list[k] = whole[k]

KernelLogInv ==
  /\ logLevel \in Levels /\ logRetentionLimit \in Nat
  /\ lines \in Nat /\ arrived \in Nat /\ nextSeq = arrived + 1
  /\ wire \in Seq(Lines) /\ \A k \in 1 .. Len(wire) : wire[k].level >= logLevel
  /\ taken \in Seq(Taken) /\ \A k \in 1 .. Len(taken) : taken[k].line.level >= logLevel
  /\ logsTemp \in Seq(Taken) /\ panelLogs \in Seq(Taken)
  /\ Newest(logsTemp \o panelLogs, taken)

\* What sliceLogs leaves is the newest part of what there was.
LEMMA SlicedLogs ==
  ASSUME NEW temp \in Seq(Taken), panelLogs \in Seq(Taken), logRetentionLimit \in Nat,
         NEW whole \in Seq(Taken), Newest(temp \o panelLogs, whole), sliceLogs(temp)
  PROVE  /\ logsTemp' \in Seq(Taken) /\ panelLogs' \in Seq(Taken)
         /\ Newest(logsTemp' \o panelLogs', whole)
<1>1. PICK all : all = temp \o panelLogs
  OBVIOUS
<1>2. all \in Seq(Taken) /\ Len(all) \in Nat /\ Newest(all, whole)
  BY <1>1, ConcatProperties
<1>3. PICK kept : kept = IF Len(all) < logRetentionLimit THEN Len(all) ELSE logRetentionLimit
  OBVIOUS
<1>4. kept \in 0 .. Len(all)
  BY <1>2, <1>3
<1>5. PICK short : short = SubSeq(all, 1, kept)
  OBVIOUS
<1>6. logsTemp' = <<>> /\ panelLogs' = short
  BY <1>1, <1>3, <1>5 DEF sliceLogs
<1>7. \A k \in 1 .. kept : all[k] \in Taken
  BY <1>2, <1>4, ElementOfSeq
<1>8. short \in Seq(Taken) /\ Len(short) = kept /\ \A k \in 1 .. kept : short[k] = all[k]
  BY <1>4, <1>5, <1>7, SubSeqProperties
<1>9. Newest(short, whole)
  <2>1. Len(all) <= Len(whole) /\ \A k \in 1 .. Len(all) : all[k] = whole[k]
    BY <1>2 DEF Newest
  <2>2. Len(whole) \in Nat
    BY LenProperties
  <2>3. Len(short) <= Len(whole)
    BY <1>2, <1>4, <1>8, <2>1, <2>2
  <2>4. ASSUME NEW k \in 1 .. Len(short) PROVE short[k] = whole[k]
    <3>1. k \in 1 .. kept /\ k \in 1 .. Len(all)
      BY <1>2, <1>4, <1>8
    <3>2. QED
      BY <1>8, <2>1, <3>1
  <2>5. QED
    BY <2>3, <2>4 DEF Newest
<1>10. <<>> \o short = short /\ <<>> \in Seq(Taken)
  BY <1>8, ConcatEmptySeq
<1>11. QED
  BY <1>6, <1>8, <1>9, <1>10

LEMMA Preceded ==
  ASSUME NEW e \in Taken, NEW list \in Seq(Taken)
  PROVE  /\ <<e>> \o list \in Seq(Taken) /\ Len(list) \in Nat
         /\ Len(<<e>> \o list) = 1 + Len(list)
         /\ \A k \in 1 .. 1 + Len(list) :
              (<<e>> \o list)[k] = IF k = 1 THEN e ELSE list[k - 1]
<1>1. PICK one : one = <<e>>
  OBVIOUS
<1>2. one \in Seq(Taken) /\ Len(one) = 1 /\ one[1] = e /\ Len(list) \in Nat
  BY <1>1, LenProperties
<1>3. PICK all : all = one \o list
  OBVIOUS
<1>4. /\ all \in Seq(Taken) /\ Len(all) = Len(one) + Len(list)
      /\ \A k \in 1 .. Len(one) + Len(list) :
           all[k] = IF k <= Len(one) THEN one[k] ELSE list[k - Len(one)]
  BY <1>2, <1>3, ConcatProperties
<1>5. ASSUME NEW k \in 1 .. 1 + Len(list) PROVE all[k] = IF k = 1 THEN e ELSE list[k - 1]
  <2>1. k \in 1 .. Len(one) + Len(list)
    BY <1>2
  <2>2. all[k] = IF k <= Len(one) THEN one[k] ELSE list[k - Len(one)]
    BY <1>4, <2>1
  <2>3. k <= Len(one) <=> k = 1
    BY <1>2
  <2>4. QED
    BY <1>2, <2>2, <2>3
<1>6. QED
  BY <1>1, <1>2, <1>3, <1>4, <1>5

\* An entry put before both a list and the whole it is the newest part of.
LEMMA NewestGrows ==
  ASSUME NEW e \in Taken, NEW list \in Seq(Taken), NEW whole \in Seq(Taken), Newest(list, whole)
  PROVE  Newest(<<e>> \o list, <<e>> \o whole)
<1>1. PICK a, b : a = <<e>> \o list /\ b = <<e>> \o whole
  OBVIOUS
<1>2. /\ Len(list) \in Nat /\ Len(a) = 1 + Len(list)
      /\ \A k \in 1 .. 1 + Len(list) : a[k] = IF k = 1 THEN e ELSE list[k - 1]
  BY <1>1, Preceded
<1>3. /\ Len(whole) \in Nat /\ Len(b) = 1 + Len(whole)
      /\ \A k \in 1 .. 1 + Len(whole) : b[k] = IF k = 1 THEN e ELSE whole[k - 1]
  BY <1>1, Preceded
<1>4. Len(list) <= Len(whole) /\ \A k \in 1 .. Len(list) : list[k] = whole[k]
  BY DEF Newest
<1>5. ASSUME NEW k \in 1 .. Len(a) PROVE a[k] = b[k]
  <2>1. k \in 1 .. 1 + Len(list) /\ k \in 1 .. 1 + Len(whole)
    BY <1>2, <1>3, <1>4
  <2>2. k # 1 => k - 1 \in 1 .. Len(list)
    BY <1>2, <2>1
  <2>3. QED
    BY <1>2, <1>3, <1>4, <2>1, <2>2
<1>6. Len(a) <= Len(b)
  BY <1>2, <1>3, <1>4
<1>7. Newest(a, b)
  BY <1>5, <1>6 DEF Newest
<1>8. QED
  BY <1>1, <1>7

LEMMA LineTaken ==
  ASSUME KernelLogInv, LineArrives
  PROVE  KernelLogInv'
<1>1. /\ wire # <<>> /\ wire' = Tail(wire) /\ nextSeq' = nextSeq + 1 /\ arrived' = arrived + 1
      /\ UNCHANGED <<logLevel, logRetentionLimit, lines>>
  BY DEF LineArrives, ctrlVars
<1>2. PICK line : line = Head(wire)
  OBVIOUS
<1>3. /\ line \in Lines /\ line.level >= logLevel
      /\ wire' \in Seq(Lines) /\ \A k \in 1 .. Len(wire') : wire'[k].level >= logLevel
  <2>1. PICK old \in Seq(Lines) : old = wire
    BY DEF KernelLogInv
  <2>2. PICK rest : rest = Tail(old)
    OBVIOUS
  <2>3. /\ Head(old) \in Lines /\ Head(old) = old[1] /\ rest \in Seq(Lines)
        /\ Len(old) \in Nat \ {0} /\ Len(rest) = Len(old) - 1
        /\ \A k \in 1 .. Len(rest) : rest[k] = old[k + 1]
    BY <1>1, <2>1, <2>2, HeadTailProperties, EmptySeq
  <2>4. \A k \in 1 .. Len(old) : old[k].level >= logLevel
    BY <2>1 DEF KernelLogInv
  <2>5. 1 \in 1 .. Len(old)
    BY <2>3
  <2>6. line = old[1]
    BY <1>2, <2>1, <2>3
  <2>7. \A k \in 1 .. Len(rest) : rest[k].level >= logLevel
    BY <2>3, <2>4
  <2>8. wire' = rest
    BY <1>1, <2>1, <2>2
  <2>9. QED
    BY <1>2, <2>1, <2>3, <2>4, <2>5, <2>6, <2>7, <2>8
<1>4. PICK e : e = [seq |-> nextSeq, line |-> line]
  OBVIOUS
<1>5. e \in Taken /\ e.line.level >= logLevel /\ e = [seq |-> arrived + 1, line |-> line]
  BY <1>3, <1>4 DEF KernelLogInv, Taken
<1>6. arrived' \in Nat /\ nextSeq' = arrived' + 1
  BY <1>1 DEF KernelLogInv
<1>7. CASE panelPaused
  <2>1. taken' = <<>> \o taken /\ UNCHANGED <<logsTemp, panelLogs>>
    BY <1>7 DEF LineArrives
  <2>2. taken' = taken
    BY <2>1, ConcatEmptySeq DEF KernelLogInv
  <2>3. QED
    BY <1>1, <1>3, <1>6, <2>1, <2>2 DEF KernelLogInv
<1>8. CASE ~panelPaused
  <2>1. PICK one, temp : one = <<e>> /\ temp = one \o logsTemp
    OBVIOUS
  <2>2. /\ taken' = one \o taken
        /\ sliceLogs(temp) \/ (logsTemp' = temp /\ panelLogs' = panelLogs)
    BY <1>2, <1>4, <1>5, <1>8, <2>1 DEF LineArrives
  <2>3. one \in Seq(Taken) /\ Len(one) = 1 /\ one[1] = e
    BY <1>5, <2>1
  <2>4. temp \in Seq(Taken) /\ taken' \in Seq(Taken)
    BY <2>1, <2>2, <2>3, ConcatProperties DEF KernelLogInv
  <2>5. \A k \in 1 .. Len(taken') : taken'[k].line.level >= logLevel
    <3>1. PICK old \in Seq(Taken) : old = taken
      BY DEF KernelLogInv
    <3>2. PICK new : new = <<e>> \o old
      OBVIOUS
    <3>3. /\ Len(old) \in Nat /\ Len(new) = 1 + Len(old)
          /\ \A k \in 1 .. 1 + Len(old) : new[k] = IF k = 1 THEN e ELSE old[k - 1]
      BY <1>5, <3>2, Preceded
    <3>4. \A k \in 1 .. Len(old) : old[k].line.level >= logLevel
      BY <3>1 DEF KernelLogInv
    <3>5. ASSUME NEW k \in 1 .. Len(new) PROVE new[k].line.level >= logLevel
      <4>1. k \in 1 .. 1 + Len(old) /\ (k # 1 => k - 1 \in 1 .. Len(old))
        BY <3>3
      <4>2. QED
        BY <1>5, <3>3, <3>4, <4>1
    <3>6. taken' = new
      BY <2>1, <2>2, <3>1, <3>2
    <3>7. QED
      BY <3>5, <3>6
  <2>6. Newest(temp \o panelLogs, taken')
    <3>1. PICK all : all = logsTemp \o panelLogs
      OBVIOUS
    <3>2. all \in Seq(Taken) /\ Newest(all, taken)
      BY <3>1, ConcatProperties DEF KernelLogInv
    <3>3. Newest(one \o all, one \o taken)
      BY <1>5, <2>1, <3>2, NewestGrows DEF KernelLogInv
    <3>4. temp \o panelLogs = one \o all
      BY <2>1, <2>3, <3>1, ConcatAssociative DEF KernelLogInv
    <3>5. QED
      BY <2>2, <3>3, <3>4
  <2>7. CASE sliceLogs(temp)
    <3>1. PICK whole \in Seq(Taken) : whole = taken'
      BY <2>4
    <3>2. Newest(temp \o panelLogs, whole) /\ panelLogs \in Seq(Taken) /\ logRetentionLimit \in Nat
      BY <2>6, <3>1 DEF KernelLogInv
    <3>3. /\ logsTemp' \in Seq(Taken) /\ panelLogs' \in Seq(Taken)
          /\ Newest(logsTemp' \o panelLogs', whole)
      BY <2>4, <2>7, <3>2, SlicedLogs
    <3>4. QED
      BY <1>1, <1>3, <1>6, <2>4, <2>5, <3>1, <3>3 DEF KernelLogInv
  <2>8. CASE logsTemp' = temp /\ panelLogs' = panelLogs
    BY <1>1, <1>3, <1>6, <2>4, <2>5, <2>6, <2>8 DEF KernelLogInv
  <2>9. QED
    BY <2>2, <2>7, <2>8
<1>9. QED
  BY <1>7, <1>8

LEMMA NextKernelLog ==
  ASSUME PanelLogsAssumption, KernelLogInv, [PanelLogsNext]_panelLogsVars
  PROVE  KernelLogInv'
<1>1. CASE Writes
  <2>1. /\ lines' = lines + 1
        /\ UNCHANGED <<logLevel, logRetentionLimit, arrived, nextSeq, taken, logsTemp, panelLogs>>
    BY <1>1 DEF Writes, ctrlVars, logStoreVars
  <2>2. PICK v \in Levels :
          wire' = IF connected /\ v >= logLevel THEN Append(wire, [no |-> lines + 1, level |-> v])
                  ELSE wire
    BY <1>1 DEF Writes
  <2>3. lines + 1 \in Nat
    BY DEF KernelLogInv
  <2>4. wire' \in Seq(Lines) /\ \A k \in 1 .. Len(wire') : wire'[k].level >= logLevel
    <3>1. CASE ~(connected /\ v >= logLevel)
      BY <2>2, <3>1 DEF KernelLogInv
    <3>2. CASE connected /\ v >= logLevel
      <4>1. PICK old \in Seq(Lines) : old = wire
        BY DEF KernelLogInv
      <4>2. PICK line \in Lines : line = [no |-> lines + 1, level |-> v]
        BY <2>3 DEF Lines
      <4>3. PICK new : new = Append(old, line)
        OBVIOUS
      <4>4. /\ new \in Seq(Lines) /\ Len(old) \in Nat /\ Len(new) = Len(old) + 1
            /\ \A k \in 1 .. Len(old) : new[k] = old[k]
            /\ new[Len(old) + 1] = line
        BY <4>3, AppendProperties, LenProperties
      <4>5. \A k \in 1 .. Len(old) : old[k].level >= logLevel
        BY <4>1 DEF KernelLogInv
      <4>6. line.level >= logLevel
        BY <3>2, <4>2
      <4>7. \A k \in 1 .. Len(new) : k \in 1 .. Len(old) \/ k = Len(old) + 1
        BY <4>4
      <4>8. wire' = new
        BY <2>2, <3>2, <4>1, <4>2, <4>3
      <4>9. \A k \in 1 .. Len(new) : new[k].level >= logLevel
        BY <4>4, <4>5, <4>6, <4>7
      <4>10. QED
        BY <4>4, <4>8, <4>9
    <3>3. QED
      BY <3>1, <3>2
  <2>5. QED
    BY <2>1, <2>3, <2>4 DEF KernelLogInv
<1>2. CASE Breaks \/ SetLevel
  <2>1. wire' = <<>> /\ lines' = lines /\ logRetentionLimit' = logRetentionLimit
    BY <1>2 DEF Breaks, SetLevel, initLogs, ctrlVars
  <2>2. <<>> \in Seq(Lines) /\ Len(<<>>) = 0
    BY EmptySeq
  <2>3. wire' \in Seq(Lines) /\ \A k \in 1 .. Len(wire') : wire'[k].level >= logLevel'
    BY <2>1, <2>2
  <2>4. CASE Breaks
    <3>1. UNCHANGED <<logLevel, arrived, nextSeq, taken, logsTemp, panelLogs>>
      BY <2>4 DEF Breaks, ctrlVars, logStoreVars
    <3>2. QED
      BY <2>1, <2>3, <3>1 DEF KernelLogInv
  <2>5. CASE SetLevel
    <3>1. /\ panelLogs' = <<>> /\ logsTemp' = <<>> /\ nextSeq' = 1 /\ arrived' = 0
          /\ taken' = <<>> /\ logLevel' \in Levels
      BY <2>5 DEF SetLevel, initLogs
    <3>2. <<>> \in Seq(Taken) /\ Len(<<>>) = 0 /\ <<>> \o <<>> = <<>>
      BY EmptySeq, ConcatEmptySeq
    <3>3. Newest(logsTemp' \o panelLogs', taken')
      BY <3>1, <3>2 DEF Newest
    <3>4. QED
      BY <2>1, <2>3, <3>1, <3>2, <3>3 DEF KernelLogInv
  <2>6. QED
    BY <1>2, <2>4, <2>5
<1>3. CASE ThrottleEnds
  <2>1. sliceLogs(logsTemp)
        /\ UNCHANGED <<lines, wire, nextSeq, arrived, taken, logLevel, logRetentionLimit>>
    BY <1>3 DEF ThrottleEnds, ctrlVars
  <2>2. /\ logsTemp' \in Seq(Taken) /\ panelLogs' \in Seq(Taken)
        /\ Newest(logsTemp' \o panelLogs', taken)
    BY <2>1, SlicedLogs DEF KernelLogInv
  <2>3. QED
    BY <2>1, <2>2 DEF KernelLogInv
<1>4. CASE SetRetention
  <2>1. /\ logRetentionLimit' \in Nat
        /\ UNCHANGED <<lines, wire, nextSeq, arrived, taken, logLevel, logsTemp, panelLogs>>
    BY <1>4 DEF SetRetention, PanelLogsAssumption, logStoreVars
  <2>2. QED
    BY <2>1 DEF KernelLogInv
<1>5. CASE ClearLogs
  <2>1. /\ panelLogs' = <<>>
        /\ UNCHANGED <<lines, wire, nextSeq, arrived, taken, logLevel, logRetentionLimit, logsTemp>>
    BY <1>5 DEF ClearLogs, ctrlVars
  <2>2. PICK all : all = logsTemp \o panelLogs
    OBVIOUS
  <2>3. /\ Len(logsTemp) \in Nat /\ Len(panelLogs) \in Nat
        /\ Len(all) = Len(logsTemp) + Len(panelLogs)
        /\ \A k \in 1 .. Len(logsTemp) + Len(panelLogs) :
             all[k] = IF k <= Len(logsTemp) THEN logsTemp[k] ELSE panelLogs[k - Len(logsTemp)]
    BY <2>2, ConcatProperties, LenProperties DEF KernelLogInv
  <2>4. Newest(all, taken) /\ Len(taken) \in Nat
    BY <2>2, LenProperties DEF KernelLogInv
  <2>5. Newest(logsTemp, taken)
    BY <2>3, <2>4 DEF Newest
  <2>6. logsTemp' \o panelLogs' = logsTemp /\ <<>> \in Seq(Taken)
    BY <2>1, ConcatEmptySeq DEF KernelLogInv
  <2>7. QED
    BY <2>1, <2>5, <2>6 DEF KernelLogInv
<1>6. CASE SocketOpens \/ TogglePause \/ Filter \/ ToggleHidden \/ UNCHANGED panelLogsVars
  <2>1. UNCHANGED <<lines, wire, nextSeq, arrived, taken, logLevel, logRetentionLimit, logsTemp,
                    panelLogs>>
    BY <1>6 DEF SocketOpens, TogglePause, Filter, ToggleHidden, panelLogsVars, ctrlVars,
       logStoreVars
  <2>2. QED
    BY <2>1 DEF KernelLogInv
<1>7. QED
  BY <1>1, <1>2, <1>3, <1>4, <1>5, <1>6, LineTaken DEF PanelLogsNext

\* For any levels, retentions, lines and actions: what is collected and listed is the newest part
\* of what the page took from the present socket, in order and without a gap, and shows no line
\* below the chosen level, through pauses, lost connections, clears, new limits and the throttled
\* call of an old socket (logs.ts:22-90).
THEOREM KernelLogInOrder == ASSUME PanelLogsAssumption PROVE PanelLogsSpec => []InOrder
<1>1. PanelLogsInit => KernelLogInv
  <2> SUFFICES ASSUME PanelLogsInit PROVE KernelLogInv
    OBVIOUS
  <2>1. /\ lines = 0 /\ wire = <<>> /\ logLevel \in Levels /\ logRetentionLimit \in Nat
        /\ nextSeq = 1 /\ logsTemp = <<>> /\ panelLogs = <<>> /\ arrived = 0 /\ taken = <<>>
    BY DEF PanelLogsInit, PanelLogsAssumption
  <2>2. <<>> \in Seq(Taken) /\ <<>> \in Seq(Lines) /\ Len(<<>>) = 0 /\ <<>> \o <<>> = <<>>
    BY EmptySeq, ConcatEmptySeq
  <2>3. Newest(logsTemp \o panelLogs, taken)
    BY <2>1, <2>2 DEF Newest
  <2>4. QED
    BY <2>1, <2>2, <2>3 DEF KernelLogInv
<1>2. KernelLogInv /\ [PanelLogsNext]_panelLogsVars => KernelLogInv'
  BY NextKernelLog
<1>3. KernelLogInv => InOrder
  <2> SUFFICES ASSUME KernelLogInv PROVE InOrder
    OBVIOUS
  <2>1. PICK all : all = logsTemp \o panelLogs
    OBVIOUS
  <2>2. /\ Len(logsTemp) \in Nat /\ Len(panelLogs) \in Nat /\ Len(taken) \in Nat
        /\ all \in Seq(Taken) /\ Len(all) = Len(logsTemp) + Len(panelLogs)
        /\ \A k \in 1 .. Len(logsTemp) + Len(panelLogs) :
             all[k] = IF k <= Len(logsTemp) THEN logsTemp[k] ELSE panelLogs[k - Len(logsTemp)]
        /\ DOMAIN all = 1 .. Len(all) /\ DOMAIN panelLogs = 1 .. Len(panelLogs)
    BY <2>1, ConcatProperties, LenProperties DEF KernelLogInv
  <2>3. Len(all) <= Len(taken) /\ \A k \in 1 .. Len(all) : all[k] = taken[k]
    BY <2>1 DEF KernelLogInv, Newest
  <2>4. ASSUME NEW k \in renderLogs PROVE panelLogs[k].line.level >= logLevel
    <3>1. k \in 1 .. Len(panelLogs)
      BY <2>2 DEF renderLogs
    <3>2. PICK i : i = Len(logsTemp) + k
      OBVIOUS
    <3>3. i \in 1 .. Len(all) /\ ~(i <= Len(logsTemp)) /\ i - Len(logsTemp) = k
      BY <2>2, <3>1, <3>2
    <3>4. all[i] = panelLogs[k]
      BY <2>2, <3>3
    <3>5. i \in 1 .. Len(taken)
      BY <2>2, <2>3, <3>3
    <3>6. taken[i].line.level >= logLevel
      BY <3>5 DEF KernelLogInv
    <3>7. QED
      BY <2>3, <3>3, <3>4, <3>6
  <2>5. QED
    BY <2>1, <2>2, <2>3, <2>4 DEF InOrder
<1>4. QED
  BY <1>1, <1>2, <1>3, PTL DEF PanelLogsSpec

-----------------------------------------------------------------------------
(* The charts over time, for any histories, charts, rules and messages. *)

FeedOf(h) == IF h = "speedHistory" THEN "traffic" ELSE "memory"

\* A history in order, its last sample one that was sent, and not the one that waits.
SamplesInv(samples, feed) ==
  /\ samples \in [1 .. TimeSaved -> Nat]
  /\ \A i \in 1 .. TimeSaved - 1 : samples[i] < samples[i + 1] \/ samples[i] = 0
  /\ samples[TimeSaved] <= feed.sent
  /\ feed.waiting # 0 => samples[TimeSaved] < feed.waiting

HistoriesInv ==
  /\ wsData \in [Feeds -> [sent : Nat, waiting : Nat]]
  /\ \A f \in Feeds : wsData[f].waiting \in {0, wsData[f].sent}
  /\ history \in [Histories -> [1 .. TimeSaved -> Nat]]
  /\ \A h \in Histories : SamplesInv(history[h], wsData[FeedOf(h)])
  /\ wsData["traffic"].waiting = 0 => history["speedHistory"][TimeSaved] = wsData["traffic"].sent
  /\ history["memoryHistory"] = history["connectionsHistory"]

Drawings == {<<>>} \union [1 .. TimeSaved -> Nat]
                   \union {barData(counts) : counts \in [1 .. BarRules -> Int]}

ChartsInv ==
  /\ hits \in [1 .. BarRules -> Int]
  /\ chart \in [Charts -> [mounted : BOOLEAN, isPaused : BOOLEAN, drawn : Drawings,
                           late : BOOLEAN]]
  /\ \A c \in Charts : chart[c].mounted /\ ~chart[c].late => chart[c].drawn = Now(c)

LEMMA PushedSample ==
  ASSUME ChartsAssumption, NEW h \in Histories, history[h] \in [1 .. TimeSaved -> Nat],
         NEW n \in Nat
  PROVE  /\ Pushed(h, n) \in [1 .. TimeSaved -> Nat]
         /\ \A i \in 1 .. TimeSaved - 1 : Pushed(h, n)[i] = history[h][i + 1]
         /\ Pushed(h, n)[TimeSaved] = n
<1>1. TimeSaved \in Nat \ {0}
  BY DEF ChartsAssumption
<1>2. PICK old : old = history[h]
  OBVIOUS
<1>3. old \in Seq(Nat) /\ Len(old) = TimeSaved
  BY <1>1, <1>2
<1>4. PICK long : long = Append(old, n)
  OBVIOUS
<1>5. /\ long \in Seq(Nat) /\ Len(long) = TimeSaved + 1
      /\ \A i \in 1 .. TimeSaved : long[i] = old[i]
      /\ long[TimeSaved + 1] = n
  BY <1>1, <1>3, <1>4, AppendProperties
<1>6. PICK new : new = SubSeq(long, 2, TimeSaved + 1)
  OBVIOUS
<1>7. new = [i \in 1 .. TimeSaved |-> long[i + 1]]
  BY <1>1, <1>5, <1>6
<1>8. \A i \in 1 .. TimeSaved : long[i + 1] \in Nat
  BY <1>1, <1>5, ElementOfSeq
<1>9. new = Pushed(h, n)
  BY <1>2, <1>4, <1>6 DEF Pushed
<1>10. new \in [1 .. TimeSaved -> Nat]
  BY <1>7, <1>8
<1>11. new[TimeSaved] = n
  BY <1>1, <1>5, <1>7
<1>12. ASSUME NEW i \in 1 .. TimeSaved - 1 PROVE new[i] = old[i + 1]
  BY <1>1, <1>5, <1>7
<1>13. QED
  BY <1>2, <1>9, <1>10, <1>11, <1>12

\* A history of a feed whose sample is shown.
LEMMA ShownSamples ==
  ASSUME ChartsAssumption, NEW h \in Histories, NEW f, NEW feed \in [sent : Nat, waiting : Nat],
         feed.waiting # 0, feed.waiting = feed.sent, SamplesInv(history[h], feed)
  PROVE  SamplesInv(Pushed(h, feed.waiting), [feed EXCEPT !.waiting = 0])
<1>1. TimeSaved \in Nat \ {0}
  BY DEF ChartsAssumption
<1>2. PICK old, n : old = history[h] /\ n = feed.waiting
  OBVIOUS
<1>3. PICK new : new = Pushed(h, n)
  OBVIOUS
<1>4. /\ old \in [1 .. TimeSaved -> Nat] /\ n \in Nat /\ old[TimeSaved] < n
      /\ \A i \in 1 .. TimeSaved - 1 : old[i] < old[i + 1] \/ old[i] = 0
  BY <1>2 DEF SamplesInv
<1>5. /\ new \in [1 .. TimeSaved -> Nat] /\ new[TimeSaved] = n
      /\ \A i \in 1 .. TimeSaved - 1 : new[i] = old[i + 1]
  BY <1>2, <1>3, <1>4, PushedSample
<1>6. ASSUME NEW i \in 1 .. TimeSaved - 1 PROVE new[i] < new[i + 1] \/ new[i] = 0
  <2>1. CASE i = TimeSaved - 1
    BY <1>1, <1>4, <1>5, <2>1
  <2>2. CASE i # TimeSaved - 1
    <3>1. i + 1 \in 1 .. TimeSaved - 1 /\ i \in Nat
      BY <1>1, <2>2
    <3>2. old[i + 1] < old[i + 1 + 1] \/ old[i + 1] = 0
      BY <1>4, <3>1
    <3>3. new[i] = old[i + 1] /\ new[i + 1] = old[i + 1 + 1]
      BY <1>5, <3>1
    <3>4. QED
      BY <3>2, <3>3
  <2>3. QED
    BY <2>1, <2>2
<1>7. PICK after : after = [feed EXCEPT !.waiting = 0]
  OBVIOUS
<1>8. after.waiting = 0 /\ after.sent = n /\ n <= n
  BY <1>2, <1>4, <1>7
<1>9. SamplesInv(new, after)
  BY <1>5, <1>6, <1>8 DEF SamplesInv
<1>10. QED
  BY <1>2, <1>3, <1>7, <1>9

LEMMA ShownHistories ==
  ASSUME ChartsAssumption, HistoriesInv, NEW f \in Feeds, SampleShown(f)
  PROVE  HistoriesInv'
<1> DEFINE of == IF f = "memory" THEN {"memoryHistory", "connectionsHistory"} ELSE {"speedHistory"}
<1>1. PICK feed : feed = wsData[f]
  OBVIOUS
<1>2. /\ feed \in [sent : Nat, waiting : Nat] /\ feed.waiting # 0 /\ feed.waiting = feed.sent
  BY <1>1 DEF HistoriesInv, SampleShown
<1>3. /\ wsData' = [wsData EXCEPT ![f].waiting = 0]
      /\ history' = [h \in Histories |-> IF h \in of THEN Pushed(h, feed.waiting) ELSE history[h]]
  BY <1>1 DEF SampleShown
<1>4. wsData' = [wsData EXCEPT ![f] = [feed EXCEPT !.waiting = 0]]
  BY <1>1, <1>3
<1> HIDE DEF of
<1>5. /\ wsData' \in [Feeds -> [sent : Nat, waiting : Nat]]
      /\ wsData'[f] = [feed EXCEPT !.waiting = 0]
      /\ \A g \in Feeds \ {f} : wsData'[g] = wsData[g]
  BY <1>2, <1>4 DEF HistoriesInv
<1>6. \A g \in Feeds : wsData'[g].waiting \in {0, wsData'[g].sent}
  <2>1. wsData'[f].waiting = 0
    BY <1>2, <1>5
  <2>2. QED
    BY <1>5, <2>1 DEF HistoriesInv
<1>7. \A h \in Histories : h \in of <=> FeedOf(h) = f
  BY DEF of, FeedOf, Histories, Feeds
<1>8. ASSUME NEW h \in Histories
      PROVE  history'[h] \in [1 .. TimeSaved -> Nat] /\ SamplesInv(history'[h], wsData'[FeedOf(h)])
  <2>1. SamplesInv(history[h], wsData[FeedOf(h)]) /\ FeedOf(h) \in Feeds
    BY DEF HistoriesInv, FeedOf, Feeds
  <2>2. CASE h \in of
    <3>1. history'[h] = Pushed(h, feed.waiting) /\ FeedOf(h) = f
      BY <1>3, <1>7, <2>2
    <3>2. SamplesInv(Pushed(h, feed.waiting), [feed EXCEPT !.waiting = 0])
      BY <1>1, <1>2, <2>1, <3>1, ShownSamples
    <3>3. QED
      BY <1>5, <3>1, <3>2 DEF SamplesInv
  <2>3. CASE h \notin of
    BY <1>3, <1>5, <1>7, <2>1, <2>3 DEF SamplesInv
  <2>4. QED
    BY <2>2, <2>3
<1>9. history' \in [Histories -> [1 .. TimeSaved -> Nat]]
  BY <1>3, <1>8
<1>10. wsData'["traffic"].waiting = 0 =>
         history'["speedHistory"][TimeSaved] = wsData'["traffic"].sent
  <2>1. CASE f = "traffic"
    <3>1. history'["speedHistory"] = Pushed("speedHistory", feed.waiting)
      BY <1>3, <2>1 DEF of, Histories
    <3>2. history["speedHistory"] \in [1 .. TimeSaved -> Nat]
      BY DEF HistoriesInv, Histories
    <3>3. history'["speedHistory"][TimeSaved] = feed.waiting
      BY <1>2, <3>1, <3>2, PushedSample DEF Histories
    <3>4. wsData'["traffic"].sent = feed.waiting
      BY <1>2, <1>5, <2>1
    <3>5. QED
      BY <3>3, <3>4
  <2>2. CASE f = "memory"
    <3>1. history'["speedHistory"] = history["speedHistory"]
      BY <1>3, <2>2 DEF of, Histories
    <3>2. wsData'["traffic"] = wsData["traffic"]
      BY <1>5, <2>2 DEF Feeds
    <3>3. QED
      BY <3>1, <3>2 DEF HistoriesInv
  <2>3. QED
    BY <2>1, <2>2 DEF Feeds
<1>11. history'["memoryHistory"] = history'["connectionsHistory"]
  <2>1. history["memoryHistory"] = history["connectionsHistory"]
    BY DEF HistoriesInv
  <2>2. Pushed("memoryHistory", feed.waiting) = Pushed("connectionsHistory", feed.waiting)
    BY <2>1 DEF Pushed
  <2>3. QED
    BY <1>3, <2>1, <2>2 DEF of, Histories
<1>12. QED
  BY <1>5, <1>6, <1>8, <1>9, <1>10, <1>11 DEF HistoriesInv

LEMMA NextHistories ==
  ASSUME ChartsAssumption, HistoriesInv, [OverviewChartsNext]_chartsVars
  PROVE  HistoriesInv'
<1>1. ASSUME NEW f \in Feeds, Message(f) PROVE HistoriesInv'
  <2>1. PICK n \in Nat : n = wsData[f].sent
    BY DEF HistoriesInv
  <2>2. wsData' = [wsData EXCEPT ![f] = [sent |-> n + 1, waiting |-> n + 1]] /\ history' = history
    BY <1>1, <2>1 DEF Message
  <2>3. /\ wsData' \in [Feeds -> [sent : Nat, waiting : Nat]]
        /\ wsData'[f] = [sent |-> n + 1, waiting |-> n + 1]
        /\ \A g \in Feeds \ {f} : wsData'[g] = wsData[g]
    BY <2>1, <2>2 DEF HistoriesInv
  <2>4. \A g \in Feeds : wsData'[g].waiting \in {0, wsData'[g].sent}
    <3>1. wsData'[f].waiting = wsData'[f].sent
      BY <2>3
    <3>2. \A g \in Feeds \ {f} : wsData'[g].waiting \in {0, wsData'[g].sent}
      BY <2>3 DEF HistoriesInv
    <3>3. QED
      BY <3>1, <3>2
  <2>5. ASSUME NEW h \in Histories PROVE SamplesInv(history'[h], wsData'[FeedOf(h)])
    <3>1. SamplesInv(history[h], wsData[FeedOf(h)]) /\ FeedOf(h) \in Feeds
      BY DEF HistoriesInv, FeedOf, Feeds
    <3>2. CASE FeedOf(h) = f
      <4>1. PICK last : last = history[h][TimeSaved]
        OBVIOUS
      <4>2. last \in Nat /\ last <= n
        BY <2>1, <3>1, <3>2, <4>1 DEF SamplesInv, ChartsAssumption
      <4>3. last <= n + 1 /\ last < n + 1
        BY <4>2
      <4>4. QED
        BY <2>2, <2>3, <3>1, <3>2, <4>1, <4>3 DEF SamplesInv
    <3>3. CASE FeedOf(h) # f
      BY <2>2, <2>3, <3>1, <3>3 DEF SamplesInv
    <3>4. QED
      BY <3>2, <3>3
  <2>6. wsData'["traffic"].waiting = 0 =>
          history'["speedHistory"][TimeSaved] = wsData'["traffic"].sent
    <3>1. CASE f = "traffic"
      BY <2>1, <2>3, <3>1
    <3>2. CASE f # "traffic"
      BY <2>2, <2>3, <3>2 DEF HistoriesInv, Feeds
    <3>3. QED
      BY <3>1, <3>2
  <2>7. QED
    BY <2>2, <2>3, <2>4, <2>5, <2>6 DEF HistoriesInv
<1>2. CASE NoMemory
  <2>1. wsData' = [wsData EXCEPT !["memory"].waiting = 0] /\ history' = history
    BY <1>2 DEF NoMemory
  <2>2. /\ wsData' \in [Feeds -> [sent : Nat, waiting : Nat]]
        /\ wsData'["memory"].waiting = 0
        /\ \A g \in Feeds : wsData'[g].sent = wsData[g].sent
        /\ wsData'["traffic"] = wsData["traffic"]
    BY <2>1 DEF HistoriesInv, Feeds
  <2>3. \A g \in Feeds : wsData'[g].waiting \in {0, wsData'[g].sent}
    BY <2>2 DEF HistoriesInv, Feeds
  <2>4. ASSUME NEW h \in Histories PROVE SamplesInv(history'[h], wsData'[FeedOf(h)])
    <3>1. SamplesInv(history[h], wsData[FeedOf(h)])
      BY DEF HistoriesInv
    <3>2. QED
      BY <2>1, <2>2, <3>1 DEF SamplesInv, FeedOf, Feeds
  <2>5. QED
    BY <2>1, <2>2, <2>3, <2>4 DEF HistoriesInv
<1>3. CASE HitsAnswer \/ onMounted \/ onUnmounted \/ Pause \/ UNCHANGED chartsVars
  <2>1. UNCHANGED <<wsData, history>>
    BY <1>3 DEF HitsAnswer, onMounted, onUnmounted, Pause, chartsVars
  <2>2. QED
    BY <2>1 DEF HistoriesInv, SamplesInv
<1>4. QED
  BY <1>1, <1>2, <1>3, ShownHistories DEF OverviewChartsNext

-----------------------------------------------------------------------------
LEMMA SourcesAreDrawings ==
  ASSUME ChartsAssumption, NEW samples \in [Histories -> [1 .. TimeSaved -> Nat]],
         NEW counts \in [1 .. BarRules -> Int], NEW c \in Charts
  PROVE  Source(c, samples, counts) \in Drawings
<1>1. CASE c = "hits"
  BY <1>1 DEF Source, Drawings
<1>2. CASE c # "hits"
  <2>1. ChartFeeds[c] \in Histories
    BY <1>2 DEF Charts, ChartsAssumption
  <2>2. samples[ChartFeeds[c]] \in [1 .. TimeSaved -> Nat]
    BY <2>1
  <2>3. QED
    BY <1>2, <2>2 DEF Source, Drawings
<1>3. QED
  BY <1>1, <1>2

\* The watchers redraw what shows the new state, when every other chart's source is as it was.
LEMMA RedrawnCharts ==
  ASSUME ChartsAssumption, HistoriesInv, HistoriesInv', ChartsInv, hits' \in [1 .. BarRules -> Int],
         NEW cs \in SUBSET Charts, Redrawn(cs),
         \A c \in Charts \ cs : Source(c, history', hits') = Source(c, history, hits)
  PROVE  ChartsInv'
<1> DEFINE ChartRows == [mounted : BOOLEAN, isPaused : BOOLEAN, drawn : Drawings, late : BOOLEAN]
<1>1. ASSUME NEW c \in Charts
      PROVE  /\ chart'[c] \in ChartRows
             /\ chart'[c].mounted /\ ~chart'[c].late => chart'[c].drawn = Source(c, history', hits')
  <2>1. PICK row \in ChartRows : row = chart[c]
    BY DEF ChartsInv
  <2>2. PICK new : new = Source(c, history', hits')
    OBVIOUS
  <2>3. new \in Drawings
    BY <2>2, SourcesAreDrawings DEF HistoriesInv
  <2>4. chart'[c] = CASE new = <<>> -> Unmounted
                      [] new # <<>> /\ c \in cs /\ row.mounted ->
                           IF row.isPaused THEN [row EXCEPT !.late = TRUE]
                           ELSE [row EXCEPT !.drawn = new, !.late = FALSE]
                      [] OTHER -> row
    BY <2>1, <2>2 DEF Redrawn
  <2>5. CASE new = <<>>
    <3>1. chart'[c] = Unmounted
      BY <2>4, <2>5
    <3>2. QED
      BY <3>1 DEF Unmounted, Drawings
  <2>6. CASE new # <<>> /\ c \in cs /\ row.mounted /\ row.isPaused
    <3>1. chart'[c] = [row EXCEPT !.late = TRUE]
      BY <2>4, <2>6
    <3>2. QED
      BY <2>1, <3>1
  <2>7. CASE new # <<>> /\ c \in cs /\ row.mounted /\ ~row.isPaused
    <3>1. chart'[c] = [row EXCEPT !.drawn = new, !.late = FALSE]
      BY <2>4, <2>7
    <3>2. QED
      BY <2>1, <2>2, <2>3, <3>1
  <2>8. CASE new # <<>> /\ ~(c \in cs /\ row.mounted)
    <3>1. chart'[c] = row
      BY <2>4, <2>8
    <3>2. row.mounted => c \notin cs
      BY <2>8
    <3>3. row.mounted /\ ~row.late => row.drawn = Source(c, history, hits)
      BY <2>1 DEF ChartsInv, Now
    <3>4. row.mounted => Source(c, history', hits') = Source(c, history, hits)
      BY <3>2
    <3>5. QED
      BY <2>1, <3>1, <3>3, <3>4
  <2>9. QED
    BY <2>1, <2>5, <2>6, <2>7, <2>8
<1>2. chart' \in [Charts -> ChartRows]
  <2>1. DOMAIN chart' = Charts /\ chart' = [c \in Charts |-> chart'[c]]
    BY DEF Redrawn
  <2>2. QED
    BY <1>1, <2>1
<1>3. QED
  BY <1>1, <1>2 DEF ChartsInv, Now

LEMMA NextCharts ==
  ASSUME ChartsAssumption, HistoriesInv, HistoriesInv', ChartsInv, [OverviewChartsNext]_chartsVars
  PROVE  ChartsInv'
<1> DEFINE ChartRows == [mounted : BOOLEAN, isPaused : BOOLEAN, drawn : Drawings, late : BOOLEAN]
<1>1. ASSUME NEW f \in Feeds, SampleShown(f) PROVE ChartsInv'
  <2>1. PICK of : of = IF f = "memory" THEN {"memoryHistory", "connectionsHistory"}
                       ELSE {"speedHistory"}
    OBVIOUS
  <2>2. /\ history' = [h \in Histories |->
                         IF h \in of THEN Pushed(h, wsData[f].waiting) ELSE history[h]]
        /\ hits' = hits /\ Redrawn({c \in DOMAIN ChartFeeds : ChartFeeds[c] \in of})
    BY <1>1, <2>1 DEF SampleShown
  <2>3. PICK cs : cs = {c \in DOMAIN ChartFeeds : ChartFeeds[c] \in of}
    OBVIOUS
  <2>4. ASSUME NEW c \in Charts \ cs
        PROVE  Source(c, history', hits') = Source(c, history, hits)
    <3>1. CASE c = "hits"
      BY <2>2, <3>1 DEF Source
    <3>2. CASE c # "hits"
      <4>1. ChartFeeds[c] \in Histories \ of
        BY <2>3, <3>2 DEF Charts, ChartsAssumption
      <4>2. history'[ChartFeeds[c]] = history[ChartFeeds[c]]
        BY <2>2, <4>1
      <4>3. QED
        BY <3>2, <4>2 DEF Source
    <3>3. QED
      BY <3>1, <3>2
  <2>5. cs \subseteq Charts /\ Redrawn(cs) /\ hits' \in [1 .. BarRules -> Int]
    BY <2>2, <2>3 DEF Charts, ChartsInv
  <2>6. QED
    BY <2>4, <2>5, RedrawnCharts
<1>2. CASE HitsAnswer
  <2>1. history' = history /\ hits' \in [1 .. BarRules -> -1 .. MaxHits] /\ Redrawn({"hits"})
    BY <1>2 DEF HitsAnswer
  <2>2. -1 .. MaxHits \subseteq Int
    BY DEF ChartsAssumption
  <2>3. hits' \in [1 .. BarRules -> Int]
    BY <2>1, <2>2
  <2>4. \A c \in Charts \ {"hits"} : Source(c, history', hits') = Source(c, history, hits)
    BY <2>1 DEF Source
  <2>5. {"hits"} \subseteq Charts
    BY DEF Charts
  <2>6. QED
    BY <2>1, <2>3, <2>4, <2>5, RedrawnCharts
<1>3. CASE onMounted
  <2>1. PICK c \in Charts :
          chart' = [chart EXCEPT ![c] = [Unmounted EXCEPT !.mounted = TRUE, !.drawn = Now(c)]]
    BY <1>3 DEF onMounted
  <2>2. history' = history /\ hits' = hits
    BY <1>3 DEF onMounted
  <2>3. PICK new \in Drawings : new = Now(c)
    BY SourcesAreDrawings DEF HistoriesInv, ChartsInv, Now
  <2>4. PICK row : row = [Unmounted EXCEPT !.mounted = TRUE, !.drawn = new]
    OBVIOUS
  <2>5. row \in ChartRows /\ row.drawn = new
    BY <2>3, <2>4 DEF Unmounted
  <2>6. chart' = [chart EXCEPT ![c] = row] /\ chart \in [Charts -> ChartRows]
    BY <2>1, <2>3, <2>4 DEF ChartsInv
  <2>7. chart' \in [Charts -> ChartRows]
    BY <2>5, <2>6
  <2>8. ASSUME NEW d \in Charts, chart'[d].mounted, ~chart'[d].late
        PROVE  chart'[d].drawn = Source(d, history, hits)
    BY <2>3, <2>5, <2>6, <2>8 DEF ChartsInv, Now
  <2>9. QED
    BY <2>2, <2>7, <2>8 DEF ChartsInv, Now
<1>4. CASE onUnmounted
  <2>1. PICK c \in Charts : chart' = [chart EXCEPT ![c] = Unmounted]
    BY <1>4 DEF onUnmounted
  <2>2. history' = history /\ hits' = hits
    BY <1>4 DEF onUnmounted
  <2>3. Unmounted \in ChartRows /\ ~Unmounted.mounted
    BY DEF Unmounted, Drawings
  <2>4. chart \in [Charts -> ChartRows]
    BY DEF ChartsInv
  <2>5. chart' \in [Charts -> ChartRows]
    BY <2>1, <2>3, <2>4
  <2>6. ASSUME NEW d \in Charts, chart'[d].mounted, ~chart'[d].late
        PROVE  chart'[d].drawn = Source(d, history, hits)
    BY <2>1, <2>3, <2>4, <2>6 DEF ChartsInv, Now
  <2>7. QED
    BY <2>2, <2>5, <2>6 DEF ChartsInv, Now
<1>5. CASE Pause
  <2>1. PICK c \in Charts : chart' = [chart EXCEPT ![c].isPaused = ~@]
    BY <1>5 DEF Pause
  <2>2. history' = history /\ hits' = hits
    BY <1>5 DEF Pause
  <2>3. chart \in [Charts -> ChartRows]
    BY DEF ChartsInv
  <2>4. PICK row \in ChartRows : row = [chart[c] EXCEPT !.isPaused = ~@]
    BY <2>3
  <2>5. /\ chart' = [chart EXCEPT ![c] = row]
        /\ row.mounted = chart[c].mounted /\ row.late = chart[c].late
        /\ row.drawn = chart[c].drawn
    BY <2>1, <2>3, <2>4
  <2>6. chart' \in [Charts -> ChartRows]
    BY <2>3, <2>4, <2>5
  <2>7. ASSUME NEW d \in Charts, chart'[d].mounted, ~chart'[d].late
        PROVE  chart'[d].drawn = Source(d, history, hits)
    BY <2>3, <2>5, <2>7 DEF ChartsInv, Now
  <2>8. QED
    BY <2>2, <2>6, <2>7 DEF ChartsInv, Now
<1>6. CASE (\E f \in Feeds : Message(f)) \/ NoMemory \/ UNCHANGED chartsVars
  <2>1. UNCHANGED <<history, hits, chart>>
    BY <1>6 DEF Message, NoMemory, chartsVars
  <2>2. QED
    BY <2>1 DEF ChartsInv, Now
<1>7. QED
  BY <1>1, <1>2, <1>3, <1>4, <1>5, <1>6 DEF OverviewChartsNext

\* For any length of the histories, charts, rules and messages, whatever bursts lose, pauses
\* hold back and pages leave: a history is in order and reaches up to the last message that was
\* shown, memory and connections are sampled together, and a chart that is neither paused nor
\* has missed a change shows what is there now (overview.ts:26-80, BasicCharts.vue:182-186,
\* RuleHitCountChart.vue:228-244).
THEOREM HistoriesAlwaysShown ==
  ASSUME ChartsAssumption PROVE OverviewChartsSpec => []HistoriesShown
<1>1. OverviewChartsInit => HistoriesInv /\ ChartsInv
  <2> SUFFICES ASSUME OverviewChartsInit PROVE HistoriesInv /\ ChartsInv
    OBVIOUS
  <2>1. TimeSaved \in Nat \ {0}
    BY DEF ChartsAssumption
  <2>2. PICK none : none = initValue
    OBVIOUS
  <2>3. none \in [1 .. TimeSaved -> Nat] /\ \A i \in 1 .. TimeSaved : none[i] = 0
    BY <2>2 DEF initValue
  <2>4. \A h \in Histories : history[h] = none
    BY <2>2 DEF OverviewChartsInit
  <2>5. PICK feed : feed = [sent |-> 0, waiting |-> 0]
    OBVIOUS
  <2>6. wsData = [f \in Feeds |-> feed] /\ feed.sent = 0 /\ feed.waiting = 0
        /\ feed \in [sent : Nat, waiting : Nat]
    BY <2>5 DEF OverviewChartsInit
  <2>7. SamplesInv(none, feed)
    BY <2>1, <2>3, <2>6 DEF SamplesInv
  <2>8. \A h \in Histories : FeedOf(h) \in Feeds
    BY DEF FeedOf, Feeds
  <2>9. HistoriesInv
    <3>1. \A h \in Histories : SamplesInv(history[h], wsData[FeedOf(h)])
      BY <2>4, <2>6, <2>7, <2>8
    <3>2. history = [h \in Histories |-> none]
      BY <2>2 DEF OverviewChartsInit
    <3>3. history \in [Histories -> [1 .. TimeSaved -> Nat]]
      BY <2>3, <3>2
    <3>4. history["speedHistory"][TimeSaved] = 0
      BY <2>1, <2>3, <2>4 DEF Histories
    <3>5. history["memoryHistory"] = history["connectionsHistory"]
      BY <2>4 DEF Histories
    <3>6. wsData["traffic"].sent = 0
      BY <2>6 DEF Feeds
    <3>7. QED
      BY <2>6, <3>1, <3>3, <3>4, <3>5, <3>6 DEF HistoriesInv
  <2>10. hits \in [1 .. BarRules -> Int]
    BY DEF OverviewChartsInit
  <2>11. /\ Unmounted \in [mounted : BOOLEAN, isPaused : BOOLEAN, drawn : Drawings, late : BOOLEAN]
         /\ ~Unmounted.mounted
    BY DEF Unmounted, Drawings
  <2>12. chart = [c \in Charts |-> Unmounted]
    BY DEF OverviewChartsInit
  <2>13. QED
    BY <2>9, <2>10, <2>11, <2>12 DEF ChartsInv
<1>2. HistoriesInv /\ ChartsInv /\ [OverviewChartsNext]_chartsVars => (HistoriesInv /\ ChartsInv)'
  BY NextHistories, NextCharts
<1>3. HistoriesInv /\ ChartsInv => HistoriesShown
  <2> SUFFICES ASSUME HistoriesInv, ChartsInv PROVE HistoriesShown
    OBVIOUS
  <2>1. \A h \in Histories : \A i \in 1 .. TimeSaved - 1 :
          history[h][i] < history[h][i + 1] \/ history[h][i] = 0
    BY DEF HistoriesInv, SamplesInv
  <2>2. QED
    BY <2>1 DEF HistoriesInv, ChartsInv, HistoriesShown
<1>4. QED
  BY <1>1, <1>2, <1>3, PTL DEF OverviewChartsSpec
=============================================================================
