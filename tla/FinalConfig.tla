---------------------------- MODULE FinalConfig ----------------------------
(***************************************************************************)
(* The configuration the kernel is given (internal/pkg/runtimeconfig/      *)
(* mihomo_final.go, mihomo_renderer.go): of every profile that is to run,  *)
(* a group with the profile's nodes and a listener for each of its ports.  *)
(*                                                                         *)
(* A name is what is left of a text once it is sanitized: a sequence of a  *)
(* word and the numbers appended to it, so that "a-2" is <<"a", 2>>        *)
(* whoever wrote the 2.  Each rendering is of other profiles and names.    *)
(***************************************************************************)
EXTENDS Integers, Sequences, SequencesExt

CONSTANTS
  ConfigNodes,  \* nodes
  NodeTexts,    \* texts that nodes may have for names
  Sanitized,    \* text -> what sanitizeRuntimeName makes of it
  Unreadable,   \* nodes whose metadata cannot be decoded
  ProfileChoices \* the profiles there may be, two at a time

\* What the constants are: assumed where they get their values.
FinalConfigAssumption ==
  /\ \A t \in NodeTexts : Sanitized[t] # <<>>
  /\ Unreadable \subseteq ConfigNodes
  /\ \A p \in ProfileChoices :
       /\ {p.include, p.legible} \subseteq BOOLEAN /\ Sanitized[p.name] # <<>>
       /\ p.nodes \in Seq(ConfigNodes) /\ IsInjective(p.nodes)
       /\ p.ports \in [{"mixed", "socks", "http"} -> Nat]

VARIABLES
  profilesIn,  \* the saved profiles, with the nodes that exist
  nodeText,    \* node -> its name
  final        \* <<>>, or what was rendered from them

finalVars == <<profilesIn, nodeText, final>>

-----------------------------------------------------------------------------
\* used: name -> where to go on counting.
reserveUniqueName(base, used) ==
  IF base \notin DOMAIN used THEN [name |-> base, used |-> used @@ (base :> 1)]
  ELSE LET free == {i \in used[base] .. used[base] + Cardinality(DOMAIN used) :
                      Append(base, i + 1) \notin DOMAIN used}
           i == CHOOSE i \in free : \A j \in free : i <= j
           next == Append(base, i + 1)
       IN  [name |-> next, used |-> (base :> i + 1) @@ (next :> 1) @@ used]

NoConfig ==
  [failed |-> FALSE, proxies |-> <<>>, bindings |-> <<>>, usedProxyNames |-> <<>>,
   usedGroupNames |-> <<>>, groups |-> <<>>, listeners |-> <<>>]
Failed == [NoConfig EXCEPT !.failed = TRUE]

\* A node gets a proxy and a name when it is met first.
BindNode(c, n) ==
  IF c.failed \/ n \in DOMAIN c.bindings THEN c
  ELSE IF n \in Unreadable THEN Failed
  ELSE LET r == reserveUniqueName(Sanitized[nodeText[n]], c.usedProxyNames)
       IN  [c EXCEPT !.usedProxyNames = r.used, !.bindings = @ @@ (n :> r.name),
                     !.proxies = Append(@, [node |-> n, name |-> r.name])]

\* buildListeners: mixed, SOCKS and HTTP, those whose port is set.
buildListeners(p) ==
  LET kinds == SelectSeq(<<"mixed", "socks", "http">>, LAMBDA k : p.ports[k] > 0)
  IN  [i \in 1 .. Len(kinds) |-> [kind |-> kinds[i], listen |-> p.host, port |-> p.ports[kinds[i]]]]

\* Addresses are compared as texts.
AddListener(c, l, group) ==
  IF c.failed \/ \E o \in ToSet(c.listeners) : o.listen = l.listen /\ o.port = l.port
  THEN Failed
  ELSE [c EXCEPT !.listeners = Append(@, [kind |-> l.kind, listen |-> l.listen, port |-> l.port,
                                          proxy |-> group])]

\* legible: whether resolveProxySettings can decode the settings.
AddProfile(c, p) ==
  IF c.failed \/ p.nodes = <<>> \/ ~p.legible THEN Failed
  ELSE LET r == reserveUniqueName(Sanitized[p.name], c.usedGroupNames)
           bound == FoldLeft(BindNode, [c EXCEPT !.usedGroupNames = r.used], p.nodes)
           members == [i \in 1 .. Len(p.nodes) |-> bound.bindings[p.nodes[i]]]
           grouped == [bound EXCEPT !.groups = Append(@, [name |-> r.name, members |-> members])]
       IN  IF bound.failed THEN Failed
           ELSE FoldLeft(LAMBDA d, l : AddListener(d, l, r.name), grouped, buildListeners(p))

\* Only the profiles that are to run.
Included(profiles) == SelectSeq(profiles, LAMBDA p : p.include)
RenderFinalMihomoConfig(profiles) ==
  IF Included(profiles) = <<>> THEN Failed ELSE FoldLeft(AddProfile, NoConfig, Included(profiles))

-----------------------------------------------------------------------------
FinalConfigInit ==
  /\ profilesIn \in ProfileChoices \X ProfileChoices
  /\ nodeText \in [ConfigNodes -> NodeTexts]
  /\ final = <<>>

Render ==
  /\ final = <<>>
  /\ final' = <<RenderFinalMihomoConfig(profilesIn)>>
  /\ UNCHANGED <<profilesIn, nodeText>>

FinalConfigNext == Render
FinalConfigSpec == FinalConfigInit /\ [][FinalConfigNext]_finalVars

-----------------------------------------------------------------------------
FinalConfigTypeOK ==
  /\ profilesIn \in ProfileChoices \X ProfileChoices /\ nodeText \in [ConfigNodes -> NodeTexts]
  /\ Len(final) <= 1

Distinct(s, Of(_)) == \A i, j \in DOMAIN s : Of(s[i]) = Of(s[j]) => i = j

\* The ports of all profiles that are to run.
Bound(profiles) ==
  {[profile |-> i, kind |-> k, at |-> <<profiles[i].host, profiles[i].ports[k]>>] :
     i \in DOMAIN profiles, k \in {"mixed", "socks", "http"}}
Opened(profiles) == {b \in Bound(profiles) : b.at[2] > 0}

\* It is refused without a profile, for one without nodes, for settings or a node that cannot
\* be read, for an address that two listeners would have; and for nothing else.
Refusable(profiles) ==
  \/ profiles = <<>>
  \/ \E p \in ToSet(profiles) : p.nodes = <<>> \/ ~p.legible \/ ToSet(p.nodes) \intersect Unreadable # {}
  \/ \E a, b \in Opened(profiles) : a # b /\ a.at = b.at

\* A configuration that is rendered has every node of every profile that is to run once,
\* under a name no other node has, whatever the numbers its names end in; a group for each
\* profile, with its nodes in their order; for each port a listener that leads to the group
\* of its own profile, at an address of its own (mihomo_final.go:41-116, 159-176).
ConfigSound ==
  final # <<>> =>
    LET in == Included(profilesIn)
        c == final[1]
        node(name) == {p.node : p \in {p \in ToSet(c.proxies) : p.name = name}}
    IN  IF Refusable(in) THEN c.failed
        ELSE /\ ~c.failed
             /\ Distinct(c.proxies, LAMBDA p : p.name) /\ Distinct(c.proxies, LAMBDA p : p.node)
             /\ {p.node : p \in ToSet(c.proxies)} = UNION {ToSet(p.nodes) : p \in ToSet(in)}
             /\ Len(c.groups) = Len(in) /\ Distinct(c.groups, LAMBDA g : g.name)
             /\ \A i \in DOMAIN in :
                  /\ Len(c.groups[i].members) = Len(in[i].nodes)
                  /\ \A j \in DOMAIN in[i].nodes : node(c.groups[i].members[j]) = {in[i].nodes[j]}
             /\ {<<l.kind, l.listen, l.port, l.proxy>> : l \in ToSet(c.listeners)}
                  = {<<b.kind, b.at[1], b.at[2], c.groups[b.profile].name>> : b \in Opened(in)}
             /\ Len(c.listeners) = Cardinality(Opened(in))
=============================================================================
