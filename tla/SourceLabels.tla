---------------------------- MODULE SourceLabels ----------------------------
(***************************************************************************)
(* The panel's names for source addresses: the list the operator edits     *)
(* (zashboard/src/components/settings/SourceIPLabels.vue and               *)
(* SourceIPInput.vue), the three indexes and the cache that a watcher      *)
(* rebuilds from it, and the look-up every table makes (helper/sourceip.ts)*)
(*                                                                         *)
(* The watcher runs before anything else can look a label up, so each edit *)
(* includes it.  There is one backend: the scopes of labels have no menu.  *)
(***************************************************************************)
EXTENDS Integers, SequencesExt

CONSTANTS
  LabelKeys, KindOf,  \* the keys one can type, and "name", "regex", "bad" or "net" for each
  Covers,             \* key -> the addresses a regular expression or a network has, and those
                      \* of IPv6 that end with a name
  Addresses, LabelTexts,
  IPv6, IPv6Nets,       \* the addresses and the networks of IPv6; the others are of IPv4
  NoLabel,              \* what a look-up gives that ends with an exception
  CacheSize, MaxLabels  \* CACHE_SIZE; bound: labels in the list

\* What the constants are: assumed where they get their values.
SourceLabelsAssumption ==
  /\ KindOf \in [LabelKeys -> {"name", "regex", "bad", "net"}]
  /\ Covers \in [LabelKeys -> SUBSET Addresses] /\ IPv6 \subseteq Addresses
  /\ \A key \in LabelKeys \intersect IPv6 : key \in Covers[key]
  /\ IPv6Nets \subseteq {key \in LabelKeys : KindOf[key] = "net"}
  /\ \A key \in LabelKeys : \A ip \in Covers[key] :
       KindOf[key] = "net" => (ip \in IPv6) = (key \in IPv6Nets)
  /\ NoLabel \notin LabelTexts \union Addresses
  /\ CacheSize \in Nat \ {0} /\ MaxLabels \in Nat

VARIABLES
  sourceIPLabelList,  \* the list: key and label of each entry
  indexes,            \* sourceIPMap, sourceIPRegexList, sourceIPCIDRList; failed at a bad key
  ipLabelCache        \* addresses with their labels, the oldest first

labelVars == <<sourceIPLabelList, indexes, ipLabelCache>>

LabelEntry == [key : LabelKeys, label : LabelTexts]
NoIndexes == [names |-> <<>>, regexes |-> <<>>, nets |-> <<>>, failed |-> FALSE]

\* Map.set: a key that is there keeps its place.
Set(map, e) ==
  IF \E i \in DOMAIN map : map[i].key = e.key
  THEN [i \in DOMAIN map |-> IF map[i].key = e.key THEN e ELSE map[i]]
  ELSE Append(map, e)

\* A key that is no network after all counts as a name; one that is no regular expression
\* ends the loop with an exception, which nobody handles.
IndexEntry(done, e) ==
  CASE done.failed -> done
    [] KindOf[e.key] = "bad" -> [done EXCEPT !.failed = TRUE]
    [] KindOf[e.key] = "regex" -> [done EXCEPT !.regexes = Append(@, e)]
    [] KindOf[e.key] = "net" -> [done EXCEPT !.nets = Append(@, e)]
    [] OTHER -> [done EXCEPT !.names = Set(@, e)]

preprocessSourceIPList(list) ==
  indexes' = FoldLeft(IndexEntry, NoIndexes, list) /\ ipLabelCache' = <<>>

SourceLabelsInit ==
  /\ sourceIPLabelList \in {<<>>} \union {<<e>> : e \in LabelEntry}
  /\ indexes = FoldLeft(IndexEntry, NoIndexes, sourceIPLabelList) /\ ipLabelCache = <<>>

-----------------------------------------------------------------------------
\* The list of the settings.
WriteList(list) == sourceIPLabelList' = list /\ preprocessSourceIPList(list)

handlerLabelAdd ==
  /\ Len(sourceIPLabelList) < MaxLabels
  /\ \E e \in LabelEntry : WriteList(Append(sourceIPLabelList, e))

handlerLabelRemove ==
  \E i \in DOMAIN sourceIPLabelList : WriteList(RemoveAt(sourceIPLabelList, i))

\* Typing changes the entry itself, whatever it amounts to half-way.
SourceIPInput ==
  \E i \in DOMAIN sourceIPLabelList, e \in LabelEntry :
    /\ (e.key = sourceIPLabelList[i].key) # (e.label = sourceIPLabelList[i].label)
    /\ WriteList([sourceIPLabelList EXCEPT ![i] = e])

Drag ==
  \E i, j \in DOMAIN sourceIPLabelList :
    i # j /\ WriteList(InsertAt(RemoveAt(sourceIPLabelList, i), j, sourceIPLabelList[i]))

-----------------------------------------------------------------------------
\* The look-up.  ipaddr.js throws when it has to match an address with a network of the other
\* family: the networks are tried in their order, up to the first that fits or throws.
OtherFamily(key, ip) == (ip \in IPv6) # (key \in IPv6Nets)

LookUp(known, ip) ==
  LET suffix == IF ip \notin IPv6 THEN 0
                ELSE SelectInSeq(known.names, LAMBDA e : ip \in Covers[e.key])
      exact == SelectInSeq(known.names, LAMBDA e : e.key = ip)
      regex == SelectInSeq(known.regexes, LAMBDA e : ip \in Covers[e.key])
      net == SelectInSeq(known.nets,
                         LAMBDA e : OtherFamily(e.key, ip) \/ ip \in Covers[e.key])
  IN  CASE suffix > 0 -> known.names[suffix].label
        [] suffix = 0 /\ exact > 0 -> known.names[exact].label
        [] suffix + exact = 0 /\ regex > 0 -> known.regexes[regex].label
        [] suffix + exact + regex = 0 /\ net > 0
             -> IF OtherFamily(known.nets[net].key, ip) THEN NoLabel ELSE known.nets[net].label
        [] OTHER -> ip

Label(ip) == LookUp(indexes, ip)

cacheResult(ip, label) ==
  LET longer == Append(ipLabelCache, [ip |-> ip, label |-> label])
  IN  ipLabelCache' = IF Len(longer) > CacheSize THEN Tail(longer) ELSE longer

\* What is cached is given as it is; an exception caches nothing.
getIPLabelFromMap ==
  /\ \E ip \in Addresses :
       /\ ~\E i \in DOMAIN ipLabelCache : ipLabelCache[i].ip = ip
       /\ Label(ip) # NoLabel
       /\ cacheResult(ip, Label(ip))
  /\ UNCHANGED <<sourceIPLabelList, indexes>>

SourceLabelsNext ==
  \/ handlerLabelAdd \/ handlerLabelRemove \/ SourceIPInput \/ Drag \/ getIPLabelFromMap

SourceLabelsSpec == SourceLabelsInit /\ [][SourceLabelsNext]_labelVars

-----------------------------------------------------------------------------
SourceLabelsTypeOK ==
  /\ sourceIPLabelList \in Seq(LabelEntry) /\ Len(sourceIPLabelList) <= MaxLabels
  /\ indexes.names \in Seq(LabelEntry) /\ indexes.regexes \in Seq(LabelEntry)
  /\ indexes.nets \in Seq(LabelEntry) /\ indexes.failed \in BOOLEAN
  /\ ipLabelCache \in Seq([ip : Addresses, label : LabelTexts \union Addresses])

\* The entries before the first bad key, which take effect; the best of them for an address:
\* for IPv6 the name that came first among those the address ends with, for others the name
\* itself, then the first regular expression, then the first network.  Of entries with one
\* name the last counts, at the first one's place.
InEffect ==
  {i \in DOMAIN sourceIPLabelList :
    \A j \in 1 .. i : KindOf[sourceIPLabelList[j].key] # "bad"}
Among(ip, kind) ==
  {i \in InEffect :
    LET key == sourceIPLabelList[i].key
    IN  /\ KindOf[key] = kind
        /\ IF kind = "name" /\ ip \notin IPv6 THEN key = ip ELSE ip \in Covers[key]}
Named(ip) ==
  LET first == Min(Among(ip, "name"))
      same == {i \in InEffect : sourceIPLabelList[i].key = sourceIPLabelList[first].key}
  IN  sourceIPLabelList[Max(same)].label
Best(ip) ==
  CASE Among(ip, "name") # {} -> Named(ip)
    [] Among(ip, "name") = {} /\ Among(ip, "regex") # {}
         -> sourceIPLabelList[Min(Among(ip, "regex"))].label
    [] Among(ip, "name") \union Among(ip, "regex") = {} /\ Among(ip, "net") # {}
         -> sourceIPLabelList[Min(Among(ip, "net"))].label
    [] OTHER -> ip

\* What is cached is what a look-up would find now; the cache has each address once and stays
\* within its size (sourceip.ts:43-60).
CacheCurrent ==
  /\ \A i \in DOMAIN ipLabelCache : ipLabelCache[i].label = Label(ipLabelCache[i].ip)
  /\ \A i, j \in DOMAIN ipLabelCache : ipLabelCache[i].ip = ipLabelCache[j].ip => i = j
  /\ Len(ipLabelCache) <= CacheSize

\* The look-up reaches a network of the other family: no name and no regular expression fits
\* the address, and no network before that one does.
Throws(ip) ==
  /\ Among(ip, "name") \union Among(ip, "regex") = {}
  /\ \E i \in InEffect :
       /\ KindOf[sourceIPLabelList[i].key] = "net" /\ OtherFamily(sourceIPLabelList[i].key, ip)
       /\ \A j \in Among(ip, "net") : i < j

\* An address is shown with the label that the list gives it now, although labels are kept in
\* a cache and in indexes while the list is edited in place, dragged and shortened.  The code
\* has one exception, exactly: an address for which a network of the other family is tried
\* gets no label, not even its own text, as the look-up throws (sourceip.ts:13-96).
LabelsFollowList ==
  /\ CacheCurrent
  /\ \A ip \in Addresses : Label(ip) = IF Throws(ip) THEN NoLabel ELSE Best(ip)
=============================================================================
