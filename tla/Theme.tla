-------------------------------- MODULE Theme --------------------------------
(***************************************************************************)
(* Light and dark (web/components/providers/theme-provider.tsx,            *)
(* web/lib/theme/theme.ts, web/components/ui/theme-toggle.tsx).  A choice  *)
(* is kept in the browser's storage, which all tabs share, applied to each *)
(* tab's document, and mirrored in the tab's React state.  A script sets   *)
(* the document before React starts; the first effects read it back and    *)
(* listen for changes of the system's preference with the mode the state   *)
(* had when they were made.                                                *)
(***************************************************************************)
EXTENDS Integers, Sequences

CONSTANTS Tabs, MaxToggles, MaxFlips  \* bounds: clicks on the toggle, changes of the preference

themeModes == <<"light", "dark", "system">>
Modes == {"light", "dark", "system"}
Resolved == {"light", "dark"}

\* What the constants are: assumed where they get their values.
ThemeAssumption == MaxToggles \in Nat /\ MaxFlips \in Nat

VARIABLES
  prefersDark,  \* the system's preference
  storedMode,   \* the item of the storage; "none" without one
  tab,          \* each tab: its start-up, its document, its state, the mode its listener knows
  unheard,      \* tabs to be told of a change of the preference
  crossed,      \* history: tabs told of one between their first effects and the render after
  toggles, flips  \* counters of the bounds

themeVars == <<prefersDark, storedMode, tab, unheard, crossed, toggles, flips>>

resolveTheme(mode) ==
  IF mode = "system" THEN IF prefersDark THEN "dark" ELSE "light" ELSE mode

Closed == [phase |-> "closed", domMode |-> "system", domTheme |-> "dark",
           themeMode |-> "system", resolvedTheme |-> "dark", listener |-> "system"]

ThemeInit ==
  /\ prefersDark \in BOOLEAN /\ storedMode \in Modes \union {"none"}
  /\ tab = [t \in Tabs |-> Closed] /\ unheard = {} /\ crossed = {}
  /\ toggles = 0 /\ flips = 0

\* applyTheme(mode) in a tab, then the assignments of other to its state.
applyTheme(t, mode, other) ==
  /\ storedMode' = mode
  /\ tab' = [tab EXCEPT ![t] =
       [other EXCEPT !.domMode = mode, !.domTheme = resolveTheme(mode),
                     !.resolvedTheme = resolveTheme(mode)]]

\* getThemeInitScript: the document only.
InitScript(t) ==
  /\ tab[t].phase = "closed"
  /\ LET mode == IF storedMode = "none" THEN "system" ELSE storedMode
     IN  tab' = [tab EXCEPT ![t].phase = "script", ![t].domMode = mode,
                            ![t].domTheme = resolveTheme(mode)]
  /\ UNCHANGED <<prefersDark, storedMode, unheard, crossed, toggles, flips>>

\* The first effects: what the script found is applied, and stored, again.
Mount(t) ==
  /\ tab[t].phase = "script"
  /\ applyTheme(t, tab[t].domMode,
                [tab[t] EXCEPT !.phase = "mounted", !.themeMode = tab[t].domMode])
  /\ UNCHANGED <<prefersDark, unheard, crossed, toggles, flips>>

\* The render after them: the listener is replaced by one that knows the mode.
Rerender(t) ==
  /\ tab[t].phase = "mounted"
  /\ tab' = [tab EXCEPT ![t].phase = "ready", ![t].listener = tab[t].themeMode]
  /\ UNCHANGED <<prefersDark, storedMode, unheard, crossed, toggles, flips>>

Close(t) ==
  /\ tab[t].phase = "ready" /\ tab' = [tab EXCEPT ![t] = Closed]
  /\ unheard' = unheard \ {t} /\ crossed' = crossed \ {t}
  /\ UNCHANGED <<prefersDark, storedMode, toggles, flips>>

-----------------------------------------------------------------------------
PreferenceFlips ==
  /\ flips < MaxFlips /\ flips' = flips + 1
  /\ prefersDark' = ~prefersDark
  /\ unheard' = {t \in Tabs : tab[t].phase \in {"mounted", "ready"}}
  /\ UNCHANGED <<storedMode, tab, crossed, toggles>>

\* Mutant: every mode follows the system.
handleChange_Unguarded(t) == applyTheme(t, "system", tab[t])

handleChange(t) ==
  IF tab[t].listener # "system" THEN UNCHANGED <<storedMode, tab>>
  ELSE applyTheme(t, "system", tab[t])

Heard(t) ==
  /\ t \in unheard /\ unheard' = unheard \ {t}
  /\ handleChange(t)
  /\ crossed' = crossed \union {s \in {t} : tab[s].phase = "mounted" /\ tab[s].themeMode # "system"}
  /\ UNCHANGED <<prefersDark, toggles, flips>>

setThemeMode(t, mode) ==
  applyTheme(t, mode, [tab[t] EXCEPT !.themeMode = mode, !.listener = mode])

ThemeToggle(t) ==
  /\ tab[t].phase = "ready" /\ toggles < MaxToggles /\ toggles' = toggles + 1
  /\ \E i \in DOMAIN themeModes :
       /\ themeModes[i] = tab[t].themeMode
       /\ setThemeMode(t, themeModes[(i % Len(themeModes)) + 1])
  /\ UNCHANGED <<prefersDark, unheard, crossed, flips>>

ThemeNext ==
  \/ PreferenceFlips
  \/ \E t \in Tabs :
       InitScript(t) \/ Mount(t) \/ Rerender(t) \/ Close(t) \/ Heard(t) \/ ThemeToggle(t)

ThemeSpec == ThemeInit /\ [][ThemeNext]_themeVars

-----------------------------------------------------------------------------
ThemeTypeOK ==
  /\ prefersDark \in BOOLEAN /\ storedMode \in Modes \union {"none"}
  /\ tab \in [Tabs -> [phase : {"closed", "script", "mounted", "ready"}, domMode : Modes,
                       domTheme : Resolved, themeMode : Modes, resolvedTheme : Resolved,
                       listener : Modes]]
  /\ unheard \subseteq Tabs /\ crossed \subseteq Tabs
  /\ toggles \in 0 .. MaxToggles /\ flips \in 0 .. MaxFlips

\* What a tab's buttons say is what its document shows, and it is what the mode means for
\* the preference of the system, whatever other tabs choose and however toggles and changes
\* of the preference alternate.  A change in the moment between the first effects and the
\* render after them is the exception: the listener takes the mode for the initial "system"
\* (theme-provider.tsx:64-85).
ThemeAgrees ==
  \A t \in Tabs : tab[t].phase = "ready" /\ t \notin crossed =>
    /\ tab[t].themeMode = tab[t].domMode /\ tab[t].resolvedTheme = tab[t].domTheme
    /\ t \notin unheard => tab[t].domTheme = resolveTheme(tab[t].domMode)
=============================================================================
