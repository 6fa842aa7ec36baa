---------------------------- MODULE ConfigBoard ----------------------------
(***************************************************************************)
(* The kernel's settings and rules in the panel (zashboard/src/store/      *)
(* config.ts, store/rules.ts, the cards of the rules page, the settings of *)
(* the backend).  One field of the configuration, the mode, stands for all *)
(* that updateConfigs sends; a rule may be disabled.                       *)
(*                                                                         *)
(* Neither fetchConfigs nor fetchRules looks whether a later call has been *)
(* answered already: of overlapping calls the last answer stays.           *)
(***************************************************************************)
EXTENDS Integers, FiniteSets

CONSTANTS
  KernelModes,  \* the kernel's modes
  Rules,        \* the rules with a switch (numbers from 1)
  MaxSteps      \* bound: what the user does and what fails, together

\* What the constants are: assumed where they get their values.
ConfigBoardAssumption == KernelModes # {} /\ Rules \subseteq Nat \ {0} /\ MaxSteps \in Nat

VARIABLES
  kernelMode, disabled,      \* the kernel
  matched,             \* the kernel: rules a listed connection matches
  shownMode,           \* configs.mode
  shownRules,          \* rules: the disabled ones
  loaded,              \* rules has been set
  configReads,         \* fetchConfigs under way
  ruleReads,           \* fetchRules under way
  readCount,           \* how many of both have started
  ruleFlows,           \* handlers under way
  ruleBusy,            \* isUpdating, isTogglingDisabled, isUpgrading, ...
  rulesTab,            \* rulesTabShow
  crossedReads,        \* history: the last fetchRules started beside another
  rulesLost,           \* history: a failure left the page without the latest rules
  steps                \* counter of the bound

modeVars == <<kernelMode, shownMode, configReads>>
ruleVars == <<disabled, matched, shownRules, loaded, ruleReads, ruleFlows, ruleBusy, rulesTab,
              crossedReads, rulesLost>>
configVars == <<modeVars, ruleVars, readCount, steps>>

NoRule == 0
\* A rule set on its card, its provider on the other tab, all providers; "reload" is whatever
\* ends in reloadAll: a restart, a reload, a new configuration, an upgrade.
Kinds == {"toggle", "set", "ruleset", "provider", "all", "reload"}

\* HomePage has called fetchConfigs and fetchRules.
ConfigBoardInit ==
  /\ kernelMode \in KernelModes /\ disabled = {} /\ matched = {}
  /\ shownMode = "" /\ shownRules = {} /\ loaded = FALSE
  /\ configReads = {[id |-> 1, read |-> ""]}
  /\ ruleReads = {[id |-> 2, of |-> 0, answered |-> FALSE, read |-> {}]}
  /\ readCount = 2
  /\ ruleFlows = {} /\ ruleBusy = {} /\ rulesTab = "rules"
  /\ crossedReads = FALSE /\ rulesLost = FALSE
  /\ steps = 0

Step == steps < MaxSteps /\ steps' = steps + 1

-----------------------------------------------------------------------------
\* fetchConfigs: whatever the answer is, it replaces configs.
NewConfigRead(n) == configReads' = configReads \union {[id |-> n, read |-> ""]}

ConfigAnswers(c) ==
  /\ c.read = ""
  /\ configReads' = (configReads \ {c}) \union {[c EXCEPT !.read = kernelMode]}
  /\ UNCHANGED <<kernelMode, shownMode, ruleVars, readCount, steps>>

ConfigArrives(c) ==
  /\ c.read # ""
  /\ configReads' = configReads \ {c}
  /\ shownMode' = c.read
  /\ UNCHANGED <<kernelMode, ruleVars, readCount, steps>>

ConfigFails(c) ==
  /\ Step
  /\ configReads' = configReads \ {c}
  /\ UNCHANGED <<kernelMode, shownMode, ruleVars, readCount>>

-----------------------------------------------------------------------------
\* fetchRules beside the calls fs, awaited by the flow `of' (0: by nobody): it asks for the
\* rules, then for the providers, and sets both lists.
NewRuleRead(n, fs, of) ==
  /\ ruleReads' = fs \union {[id |-> n, of |-> of, answered |-> FALSE, read |-> {}]}
  /\ crossedReads' = (fs # {})
  /\ rulesLost' = FALSE

fetchRules(fs, of) == readCount' = readCount + 1 /\ NewRuleRead(readCount + 1, fs, of)

NoRuleRead == UNCHANGED <<ruleReads, crossedReads, rulesLost, readCount>>

RulesAnswer(f) ==
  /\ ~f.answered
  /\ ruleReads' = (ruleReads \ {f}) \union {[f EXCEPT !.answered = TRUE, !.read = disabled]}
  /\ UNCHANGED <<modeVars, disabled, matched, shownRules, loaded, ruleFlows, ruleBusy, rulesTab,
                 crossedReads, rulesLost, readCount, steps>>

AwaitedBy(f) == {w \in ruleFlows : w.id = f.of}
Flag(w) == <<w.kind, w.rule>>

\* The providers are there as well: both lists are set and the waiting handler ends.
RulesArrive(f) ==
  /\ f.answered
  /\ ruleReads' = ruleReads \ {f}
  /\ shownRules' = f.read /\ loaded' = TRUE
  /\ ruleFlows' = ruleFlows \ AwaitedBy(f)
  /\ ruleBusy' = ruleBusy \ {Flag(w) : w \in AwaitedBy(f)}
  /\ UNCHANGED <<modeVars, disabled, matched, rulesTab, crossedReads, rulesLost, readCount, steps>>

\* One of the two requests failed.  The switch of a rule clears its flag in any case; the
\* update of a rule set never does; the update of all providers fetches once more.
RulesFail(f) ==
  /\ Step
  /\ LET again == {w \in AwaitedBy(f) : w.kind = "all" /\ w.stage = "fetch"}
     IN  IF again # {}
         THEN /\ fetchRules(ruleReads \ {f}, f.of)
              /\ ruleFlows' = (ruleFlows \ again) \union {[w EXCEPT !.stage = "again"] : w \in again}
              /\ UNCHANGED ruleBusy
         ELSE /\ ruleReads' = ruleReads \ {f}
              /\ rulesLost' = TRUE
              /\ ruleFlows' = ruleFlows \ AwaitedBy(f)
              /\ ruleBusy' = ruleBusy \ {Flag(w) : w \in {v \in AwaitedBy(f) : v.kind = "toggle"}}
              /\ UNCHANGED <<crossedReads, readCount>>
  /\ UNCHANGED <<modeVars, disabled, matched, shownRules, loaded, rulesTab>>

-----------------------------------------------------------------------------
RuleFlow(kind, r, to) ==
  [id |-> steps + 1, kind |-> kind, rule |-> r, to |-> to, stage |-> "request", done |-> FALSE]

\* updateConfigs: the control shows the new value before it is sent.
SetMode(m) ==
  /\ m # shownMode
  /\ Step
  /\ shownMode' = m
  /\ ruleFlows' = ruleFlows \union {RuleFlow("set", NoRule, m)}
  /\ NoRuleRead
  /\ UNCHANGED <<kernelMode, configReads, disabled, matched, shownRules, loaded, ruleBusy, rulesTab>>

\* toggleRuleDisabledHandler and the buttons: nothing while the flag is set.
Start(kind, r, to) ==
  /\ <<kind, r>> \notin ruleBusy
  /\ Step
  /\ ruleBusy' = ruleBusy \union {<<kind, r>>}
  /\ ruleFlows' = ruleFlows \union {RuleFlow(kind, r, to)}
  /\ NoRuleRead
  /\ UNCHANGED <<modeVars, disabled, matched, shownRules, loaded, rulesTab>>

ToggleRule(r) ==
  /\ loaded /\ rulesTab = "rules"
  /\ Start("toggle", r, IF r \in shownRules THEN "on" ELSE "off")

\* The provider of a rule set, from the rule's card or from its own; all providers.
UpdateRuleSet(r) == loaded /\ rulesTab = "rules" /\ Start("ruleset", r, "")
UpdateRuleProvider == loaded /\ rulesTab = "provider" /\ Start("provider", NoRule, "")
UpdateAllProviders == loaded /\ rulesTab = "provider" /\ Start("all", NoRule, "")

ReloadAll == Start("reload", NoRule, "")

\* The rules page is opened.
OpenRules ==
  /\ Step
  /\ fetchRules(ruleReads, 0)
  /\ UNCHANGED <<modeVars, disabled, matched, shownRules, loaded, ruleFlows, ruleBusy, rulesTab>>

ShowRulesTab ==
  /\ rulesTab' \in {"rules", "provider"} \ {rulesTab}
  /\ NoRuleRead
  /\ UNCHANGED <<modeVars, disabled, matched, shownRules, loaded, ruleFlows, ruleBusy, steps>>

-----------------------------------------------------------------------------
\* The kernel does what a handler asked for: a reload may set any mode and enables all rules.
KernelDoes(w) ==
  /\ w.stage = "request" /\ ~w.done
  /\ ruleFlows' = (ruleFlows \ {w}) \union {[w EXCEPT !.done = TRUE]}
  /\ kernelMode' \in (CASE w.kind = "set" -> {w.to} [] w.kind = "reload" -> KernelModes [] OTHER -> {kernelMode})
  /\ disabled' = CASE w.kind = "reload" -> {}
                   [] w.kind = "toggle" -> IF w.to = "off" THEN disabled \union {w.rule}
                                           ELSE disabled \ {w.rule}
                   [] OTHER -> disabled
  /\ NoRuleRead
  /\ UNCHANGED <<shownMode, configReads, matched, shownRules, loaded, ruleBusy, rulesTab, steps>>

\* The rule is switched: the listed connections of a disabled one are closed if the setting
\* disconnectOnRuleDisable says so, and the handler awaits fetchRules.
RuleToggled(w) ==
  /\ w.kind = "toggle" /\ w.stage = "request" /\ w.done
  /\ matched' \in {matched} \union (IF w.to = "off" THEN {matched \ {w.rule}} ELSE {})
  /\ ruleFlows' = (ruleFlows \ {w}) \union {[w EXCEPT !.stage = "fetch"]}
  /\ fetchRules(ruleReads, w.id)
  /\ UNCHANGED <<modeVars, disabled, shownRules, loaded, ruleBusy, rulesTab, steps>>

\* A provider is updated; its own card does not await the rules.
RulesUpdated(w) ==
  /\ w.kind \in {"ruleset", "provider", "all"} /\ w.stage = "request" /\ w.done
  /\ LET waits == w.kind # "provider"
     IN  /\ ruleFlows' = (ruleFlows \ {w}) \union
              (IF waits THEN {[w EXCEPT !.stage = "fetch"]} ELSE {})
         /\ ruleBusy' = IF waits THEN ruleBusy ELSE ruleBusy \ {Flag(w)}
         /\ fetchRules(ruleReads, IF waits THEN w.id ELSE 0)
  /\ UNCHANGED <<modeVars, disabled, matched, shownRules, loaded, rulesTab, steps>>

\* updateConfigs has its answer: fetchConfigs; after a reload reloadAll, awaited by nobody.
ConfigSent(w) ==
  /\ w.kind \in {"set", "reload"} /\ w.done
  /\ ruleFlows' = ruleFlows \ {w}
  /\ ruleBusy' = ruleBusy \ {Flag(w)}
  /\ NewConfigRead(readCount + 1)
  /\ IF w.kind = "set"
     THEN readCount' = readCount + 1 /\ UNCHANGED <<ruleReads, crossedReads, rulesLost>>
     ELSE readCount' = readCount + 2 /\ NewRuleRead(readCount + 2, ruleReads, 0)
  /\ UNCHANGED <<kernelMode, shownMode, disabled, matched, shownRules, loaded, rulesTab, steps>>

\* The request fails, before the kernel did it or after.  The control keeps the value that
\* was not stored; the updates of one provider keep their flag for ever.
RuleRefused(w) ==
  /\ w.stage = "request"
  /\ Step
  /\ IF w.kind = "all"
     THEN /\ ruleFlows' = (ruleFlows \ {w}) \union {[w EXCEPT !.stage = "again"]}
          /\ fetchRules(ruleReads, w.id)
          /\ UNCHANGED ruleBusy
     ELSE /\ ruleFlows' = ruleFlows \ {w}
          /\ ruleBusy' = IF w.kind \in {"ruleset", "provider"} THEN ruleBusy
                         ELSE ruleBusy \ {Flag(w)}
          /\ rulesLost' = (rulesLost \/ (w.done /\ w.kind \in {"toggle", "reload"}))
          /\ UNCHANGED <<ruleReads, crossedReads, readCount>>
  /\ UNCHANGED <<modeVars, disabled, matched, shownRules, loaded, rulesTab>>

\* Traffic of the machine.
RuleMatches ==
  /\ \E r \in Rules \ disabled : matched' = matched \union {r} /\ matched' # matched
  /\ NoRuleRead
  /\ UNCHANGED <<modeVars, disabled, shownRules, loaded, ruleFlows, ruleBusy, rulesTab, steps>>

ConfigBoardNext ==
  \/ \E c \in configReads : ConfigAnswers(c) \/ ConfigArrives(c) \/ ConfigFails(c)
  \/ \E f \in ruleReads : RulesAnswer(f) \/ RulesArrive(f) \/ RulesFail(f)
  \/ \E m \in KernelModes : SetMode(m)
  \/ \E r \in Rules : ToggleRule(r) \/ UpdateRuleSet(r)
  \/ UpdateRuleProvider \/ UpdateAllProviders \/ ReloadAll \/ OpenRules \/ ShowRulesTab \/ RuleMatches
  \/ \E w \in ruleFlows :
       KernelDoes(w) \/ RuleToggled(w) \/ RulesUpdated(w) \/ ConfigSent(w) \/ RuleRefused(w)

ConfigBoardSpec == ConfigBoardInit /\ [][ConfigBoardNext]_configVars

-----------------------------------------------------------------------------
(* The type of the page. *)
ConfigBoardTypeOK ==
  /\ kernelMode \in KernelModes /\ disabled \subseteq Rules /\ matched \subseteq Rules
  /\ shownMode \in KernelModes \union {""} /\ shownRules \subseteq Rules /\ loaded \in BOOLEAN
  /\ readCount \in Nat
  /\ configReads \subseteq [id : 1 .. readCount, read : KernelModes \union {""}]
  /\ \A f \in ruleReads :
       f.id \in 1 .. readCount /\ f.of \in 0 .. MaxSteps /\ f.answered \in BOOLEAN
       /\ f.read \subseteq Rules
  /\ ruleFlows \subseteq
       [id : 1 .. MaxSteps, kind : Kinds, rule : Rules \union {NoRule}, done : BOOLEAN,
        to : KernelModes \union {"", "on", "off"}, stage : {"request", "fetch", "again"}]
  /\ ruleBusy \subseteq Kinds \X (Rules \union {NoRule})
  /\ rulesTab \in {"rules", "provider"}
  /\ crossedReads \in BOOLEAN /\ rulesLost \in BOOLEAN /\ steps \in 0 .. MaxSteps

(* Once nothing is under way the page shows the rules as the kernel has them, whatever was   *)
(* switched, updated or reloaded meanwhile (RuleCard.vue:211-239, rules.ts:46-60): unless a  *)
(* request failed or two calls of fetchRules overlapped.                                     *)
ShownRules ==
  (ruleReads = {} /\ ruleFlows = {} /\ ~crossedReads /\ ~rulesLost) => shownRules = disabled
=============================================================================
