---------------------------- MODULE KernelProofs -----------------------------
(***************************************************************************)
(* What holds of installations of the kernel, for any requests, paths and  *)
(* contents, however they overlap, fail and are cut off; and of the pool   *)
(* that tests nodes with kernels of its own, for any number of nodes and   *)
(* workers and any local ports; and of the panel that imports nodes, for   *)
(* any sources, clicks and answers.                                        *)
(***************************************************************************)
EXTENDS KernelInstall, NodeTests, ImportPage, FiniteSetTheorems, TLAPS

TwoLeft == <<"version", "source">>
OneLeft == <<"source">>
ToWrite == {Order, TwoLeft, OneLeft}
Values == InstallPaths \union KernelVersions \union Kinds \union {Nothing}
Places == Critical \union {"idle", "receiving", "received", "inspecting"}
Rows ==
  [at : Places, kind : Kinds, path : InstallPaths \union {Nothing},
   content : KernelVersions \union {Bad, Nothing}, left : ToWrite \union {<<>>}]

-----------------------------------------------------------------------------
\* What the values are; no path ever holds anything but nothing or a version.
InstallTyped ==
  /\ disk \in [InstallPaths -> KernelVersions \union {Nothing}]
  /\ saved \in [Keys -> Values] /\ loaded \in [Keys -> Values]
  /\ request \in [Installers -> Rows]
  /\ alone \subseteq Installers /\ torn \in BOOLEAN

\* Where a request is bounds what it holds; only what has been checked gets to its critical part.
Holds(r) ==
  /\ request[r].at # "idle" => request[r].path \in InstallPaths
  /\ request[r].at \in Critical => request[r].content \in KernelVersions /\ torn
  /\ request[r].at \in {"storing", "loading"} => request[r].left \in ToWrite

\* A request that has met no other is the only one in its critical part, and file, table and
\* memory are as far as it has come.
Alone(r) ==
  /\ request[r].at \in Critical
  /\ \A q \in Installers \ {r} : request[q].at \notin Critical
  /\ request[r].at # "removed" => disk[request[r].path] = request[r].content
  /\ request[r].at \in {"storing", "loading"} =>
       /\ request[r].left # Order => /\ saved["path"] = request[r].path
                                     /\ loaded["path"] = request[r].path
       /\ request[r].left = OneLeft => /\ saved["version"] = request[r].content
                                       /\ loaded["version"] = request[r].content
  /\ request[r].at = "loading" =>
       \A k \in Keys : Head(request[r].left) = k => saved[k] = ValueOf(r, k)

\* Between such parts all agree.
Agreed ==
  ~torn => /\ loaded = saved
           /\ saved["path"] # Nothing => disk[saved["path"]] = saved["version"]

InstallInv ==
  /\ InstallTyped /\ Agreed
  /\ \A r \in Installers : Holds(r)
  /\ \A r \in alone : Alone(r)
-----------------------------------------------------------------------------
\* The three options are written in their order, each once.
LEMMA Orders ==
  /\ Head(Order) = "path" /\ Tail(Order) = TwoLeft
  /\ Head(TwoLeft) = "version" /\ Tail(TwoLeft) = OneLeft
  /\ Head(OneLeft) = "source" /\ Tail(OneLeft) = <<>>
  /\ Order # TwoLeft /\ Order # OneLeft /\ TwoLeft # OneLeft
  /\ Order # <<>> /\ TwoLeft # <<>> /\ OneLeft # <<>>
<1>1. Len(Order) = 3 /\ Len(TwoLeft) = 2 /\ Len(OneLeft) = 1 /\ Len(<<>>) = 0
  BY DEF Order, TwoLeft, OneLeft
<1>2. Order # TwoLeft /\ Order # OneLeft /\ TwoLeft # OneLeft
  BY <1>1
<1>3. Order # <<>> /\ TwoLeft # <<>> /\ OneLeft # <<>>
  BY <1>1
<1>4. Head(Order) = "path" /\ Tail(Order) = TwoLeft
  BY DEF Order, TwoLeft
<1>5. Head(TwoLeft) = "version" /\ Tail(TwoLeft) = OneLeft
  BY DEF TwoLeft, OneLeft
<1>6. Head(OneLeft) = "source" /\ Tail(OneLeft) = <<>>
  BY DEF OneLeft
<1>7. QED
  BY <1>2, <1>3, <1>4, <1>5, <1>6

\* The first state: nothing is under way, nothing is saved.
LEMMA InitInstall == KernelInstallInit => InstallInv
<1> SUFFICES ASSUME KernelInstallInit PROVE InstallInv
  OBVIOUS
<1>1. InstallTyped
  BY DEF KernelInstallInit, InstallTyped, NoRequest, Values, Places, Rows, Kinds
<1>2. Agreed /\ \A r \in Installers : Holds(r)
  BY DEF KernelInstallInit, Agreed, Holds, NoRequest, Critical, Keys
<1>3. QED
  BY <1>1, <1>2 DEF KernelInstallInit, InstallInv

-----------------------------------------------------------------------------
\* A request that is idle fits everywhere.
LEMMA IdleFits == NoRequest \in Rows /\ NoRequest.at = "idle" /\ "idle" \notin Critical
BY DEF NoRequest, Rows, Places, Critical, Kinds

\* A step of one request leaves the others as they are.
LEMMA Row ==
  ASSUME InstallTyped, NEW r \in Installers, NEW row \in Rows,
         request' = [request EXCEPT ![r] = row]
  PROVE  /\ request' \in [Installers -> Rows] /\ request'[r] = row
         /\ \A q \in Installers \ {r} : request'[q] = request[q]
BY DEF InstallTyped

\* A step outside the critical part changes nothing the invariant looks at.
LEMMA Outside ==
  ASSUME InstallInv, NEW r \in Installers, NEW row \in Rows,
         request' = [request EXCEPT ![r] = row],
         request[r].at \notin Critical, row.at \notin Critical,
         row.at # "idle" => row.path \in InstallPaths,
         UNCHANGED <<disk, saved, loaded, alone, torn>>
  PROVE  InstallInv'
<1>1. /\ request' \in [Installers -> Rows] /\ request'[r] = row
      /\ \A q \in Installers \ {r} : request'[q] = request[q]
  BY Row DEF InstallInv
<1>2. InstallTyped' /\ Agreed'
  BY <1>1 DEF InstallInv, InstallTyped, Agreed
<1>3. ASSUME NEW q \in Installers PROVE Holds(q)'
  BY <1>1 DEF InstallInv, Holds, Critical
<1>4. ASSUME NEW q \in alone PROVE Alone(q)'
  <2>1. q \in Installers /\ Alone(q) /\ q # r
    BY DEF InstallInv, InstallTyped, Alone
  <2>2. request'[q] = request[q] /\ \A p \in Installers : request'[p].at \in Critical => p = q
    BY <1>1, <2>1 DEF Alone
  <2>3. QED
    BY <2>1, <2>2 DEF Alone, ValueOf
<1>5. QED
  BY <1>2, <1>3, <1>4 DEF InstallInv

\* Nor does a request that gives up: what it leaves behind is torn already.
LEMMA GivesUp ==
  ASSUME InstallInv, NEW r \in Installers, End(r), alone' = alone \ {r},
         UNCHANGED <<disk, saved, loaded, torn>>
  PROVE  InstallInv'
<1>1. /\ request' \in [Installers -> Rows] /\ request'[r] = NoRequest
      /\ \A q \in Installers \ {r} : request'[q] = request[q]
  BY Row, IdleFits DEF InstallInv, End
<1>2. InstallTyped' /\ Agreed'
  BY <1>1 DEF InstallInv, InstallTyped, Agreed
<1>3. ASSUME NEW q \in Installers PROVE Holds(q)'
  BY <1>1, IdleFits DEF InstallInv, Holds, Critical
<1>4. ASSUME NEW q \in alone' PROVE Alone(q)'
  <2>1. q \in Installers /\ Alone(q) /\ q # r
    BY DEF InstallInv, InstallTyped
  <2>2. request'[q] = request[q] /\ \A p \in Installers \ {q} : request'[p].at \notin Critical
    BY <1>1, <2>1, IdleFits DEF Alone
  <2>3. QED
    BY <2>1, <2>2 DEF Alone, ValueOf
<1>5. QED
  BY <1>2, <1>3, <1>4 DEF InstallInv

\* What is written under a key.
LEMMA WrittenValues ==
  ASSUME NEW r
  PROVE  /\ ValueOf(r, "path") = request[r].path
         /\ ValueOf(r, "version") = request[r].content
         /\ ValueOf(r, "source") = request[r].kind
BY DEF ValueOf

LEMMA WrittenValuesNext ==
  ASSUME NEW r
  PROVE  /\ ValueOf(r, "path")' = request'[r].path
         /\ ValueOf(r, "version")' = request'[r].content
         /\ ValueOf(r, "source")' = request'[r].kind
BY DEF ValueOf

\* What a request in its critical part writes is a value.
LEMMA WritesValues ==
  ASSUME InstallInv, NEW r \in Installers, request[r].at \in Critical,
         request[r].left \in ToWrite
  PROVE  /\ Head(request[r].left) \in Keys
         /\ ValueOf(r, Head(request[r].left)) \in Values
<1>1. request[r].path \in Values /\ request[r].content \in Values /\ request[r].kind \in Values
  BY DEF InstallInv, InstallTyped, Holds, Rows, Values, Critical
<1>2. Head(request[r].left) \in {"path", "version", "source"}
  BY Orders DEF ToWrite
<1>3. QED
  BY <1>1, <1>2, WrittenValues DEF Keys

-----------------------------------------------------------------------------
\* Entering the critical part: whoever meets another there is not alone, nor is the other.
LEMMA Enters ==
  ASSUME InstallInv, NEW r \in Installers, NEW row \in Rows,
         request' = [request EXCEPT ![r] = row], EnterCritical(r),
         request[r].at \notin Critical, row.at \in Critical \ {"loading"},
         row.path \in InstallPaths, row.content \in KernelVersions,
         row.at # "removed" => disk'[row.path] = row.content,
         row.at = "storing" => row.left = Order,
         disk' \in [InstallPaths -> KernelVersions \union {Nothing}],
         UNCHANGED <<saved, loaded>>
  PROVE  InstallInv'
<1>1. /\ request' \in [Installers -> Rows] /\ request'[r] = row
      /\ \A q \in Installers \ {r} : request'[q] = request[q]
  BY Row DEF InstallInv
<1>2. InstallTyped' /\ Agreed'
  BY <1>1 DEF InstallInv, InstallTyped, Agreed, EnterCritical
<1>3. ASSUME NEW q \in Installers PROVE Holds(q)'
  BY <1>1 DEF InstallInv, Holds, Critical, EnterCritical, ToWrite
<1>4. ASSUME NEW q \in alone' PROVE Alone(q)'
  <2>1. q = r /\ \A p \in Installers \ {r} : request[p].at \notin Critical
    BY DEF EnterCritical, Busy
  <2>2. \A p \in Installers \ {r} : request'[p].at \notin Critical
    BY <1>1, <2>1
  <2>3. QED
    BY <1>1, <2>1, <2>2, Orders DEF Alone
<1>5. QED
  BY <1>2, <1>3, <1>4 DEF InstallInv

\* A step within the critical part that leaves table and memory: it disturbs no other request
\* that is alone, since there is none.
LEMMA Within ==
  ASSUME InstallInv, NEW r \in Installers, NEW row \in Rows,
         request' = [request EXCEPT ![r] = row],
         request[r].at \in {"removed", "placed"}, row.at \in {"placed", "storing"},
         row.path = request[r].path, row.content = request[r].content,
         row.at = "storing" => row.left = Order,
         disk' \in [InstallPaths -> KernelVersions \union {Nothing}],
         r \in alone => disk'[row.path] = row.content,
         UNCHANGED <<saved, loaded, alone, torn>>
  PROVE  InstallInv'
<1>1. /\ request' \in [Installers -> Rows] /\ request'[r] = row
      /\ \A q \in Installers \ {r} : request'[q] = request[q]
  BY Row DEF InstallInv
<1>2. torn /\ row.path \in InstallPaths /\ row.content \in KernelVersions
  BY DEF InstallInv, Holds, Critical
<1>3. InstallTyped' /\ Agreed'
  BY <1>1, <1>2 DEF InstallInv, InstallTyped, Agreed
<1>4. ASSUME NEW q \in Installers PROVE Holds(q)'
  BY <1>1, <1>2 DEF InstallInv, Holds, Critical, ToWrite
<1>5. ASSUME NEW q \in alone' PROVE Alone(q)'
  <2>1. q = r /\ \A p \in Installers \ {r} : request[p].at \notin Critical
    BY DEF InstallInv, InstallTyped, Alone, Critical
  <2>2. \A p \in Installers \ {r} : request'[p].at \notin Critical
    BY <1>1, <2>1
  <2>3. QED
    BY <1>1, <2>1, <2>2, Orders DEF Alone, Critical
<1>6. QED
  BY <1>3, <1>4, <1>5 DEF InstallInv

\* StoreOption: the table has the option, or the request is no longer one without a fault.
LEMMA StoresOption ==
  ASSUME InstallInv, NEW r \in Installers, StoreOption(r) PROVE InstallInv'
<1> DEFINE row == [request[r] EXCEPT !.at = "loading"]
           k == Head(request[r].left)
<1>1. /\ request[r].at = "storing" /\ request[r].at \in Critical /\ request[r].left \in ToWrite
      /\ torn /\ row \in Rows /\ row.at = "loading" /\ row.kind = request[r].kind
      /\ row.path = request[r].path /\ row.content = request[r].content
      /\ row.left = request[r].left
  BY DEF InstallInv, InstallTyped, Holds, StoreOption, Critical, Rows, Places
<1>2. k \in Keys /\ ValueOf(r, k) \in Values
  BY <1>1, WritesValues
<1>3. /\ request' \in [Installers -> Rows] /\ request'[r] = row
      /\ \A q \in Installers \ {r} : request'[q] = request[q]
  <2>1. request' = [request EXCEPT ![r] = row]
    BY DEF StoreOption, StepTo
  <2>2. QED
    BY <1>1, <2>1, Row DEF InstallInv
<1>4. /\ alone' \in {alone, alone \ {r}} /\ saved' \in [Keys -> Values]
      /\ r \in alone' => saved' = [saved EXCEPT ![k] = ValueOf(r, k)]
      /\ UNCHANGED <<disk, loaded, torn>>
  BY <1>2 DEF StoreOption, InstallInv, InstallTyped
<1> HIDE DEF row, k
<1>5. InstallTyped' /\ Agreed'
  BY <1>1, <1>3, <1>4 DEF InstallInv, InstallTyped, Agreed
<1>6. ASSUME NEW q \in Installers PROVE Holds(q)'
  BY <1>1, <1>3, <1>4 DEF InstallInv, Holds, Critical
<1>7. ASSUME NEW q \in alone' PROVE Alone(q)'
  <2>1. q \in alone /\ q = r
    BY <1>1, <1>4 DEF InstallInv, InstallTyped, Alone
  <2>2. \A p \in Installers \ {r} : request'[p].at \notin Critical
    BY <1>3, <2>1 DEF InstallInv, Alone
  <2>3. Alone(r) /\ saved' = [saved EXCEPT ![k] = ValueOf(r, k)]
    BY <1>4, <2>1 DEF InstallInv
  <2>4. disk'[row.path] = row.content
    BY <1>1, <1>4, <2>3 DEF Alone
  <2>5. row.left # Order => saved'["path"] = row.path /\ loaded'["path"] = row.path
    BY <1>1, <1>4, <2>3, Orders DEF Alone, ToWrite, k, InstallInv, InstallTyped, Keys
  <2>6. row.left = OneLeft => saved'["version"] = row.content /\ loaded'["version"] = row.content
    BY <1>1, <1>4, <2>3, Orders DEF Alone, ToWrite, k, InstallInv, InstallTyped, Keys
  <2>7. \A x \in Keys : ValueOf(r, x)' = ValueOf(r, x)
    BY <1>1, <1>3, WrittenValues, WrittenValuesNext DEF Keys
  <2>8. ASSUME NEW x \in Keys, Head(row.left) = x PROVE saved'[x] = ValueOf(r, x)'
    BY <1>1, <1>2, <2>3, <2>7, <2>8 DEF InstallInv, InstallTyped, k
  <2>9. QED
    BY <1>1, <1>3, <2>1, <2>2, <2>4, <2>5, <2>6, <2>8 DEF Alone, Critical
<1>8. QED
  BY <1>5, <1>6, <1>7 DEF InstallInv

\* updateOptionMap before the last option: one more option is in memory too.
LEMMA LoadsOption ==
  ASSUME InstallInv, NEW r \in Installers, updateOptionMap(r), Tail(request[r].left) # <<>>
  PROVE  InstallInv'
<1> DEFINE left == Tail(request[r].left)
           row == [request[r] EXCEPT !.at = "storing", !.left = left]
           k == Head(request[r].left)
<1>1. /\ request[r].at = "loading" /\ request[r].at \in Critical /\ torn
      /\ request[r].left \in ToWrite
  BY DEF InstallInv, Holds, updateOptionMap, Critical
<1>2. \/ request[r].left = Order /\ k = "path" /\ left = TwoLeft
      \/ request[r].left = TwoLeft /\ k = "version" /\ left = OneLeft
  BY <1>1, Orders DEF ToWrite
<1>3. /\ row \in Rows /\ row.at = "storing" /\ row.left = left
      /\ row.path = request[r].path /\ row.content = request[r].content
  BY <1>2 DEF InstallInv, InstallTyped, Rows, Places, Critical, ToWrite
<1>4. /\ request' \in [Installers -> Rows] /\ request'[r] = row
      /\ \A q \in Installers \ {r} : request'[q] = request[q]
  <2>1. request' = [request EXCEPT ![r] = row]
    BY DEF updateOptionMap
  <2>2. QED
    BY <1>3, <2>1, Row DEF InstallInv
<1>5. k \in Keys /\ ValueOf(r, k) \in Values
  BY <1>1, WritesValues
<1>6. loaded' = [loaded EXCEPT ![k] = ValueOf(r, k)] /\ UNCHANGED <<disk, saved, torn, alone>>
  BY DEF updateOptionMap
<1> HIDE DEF row, k, left
<1>7. InstallTyped' /\ Agreed'
  BY <1>1, <1>4, <1>5, <1>6 DEF InstallInv, InstallTyped, Agreed
<1>8. ASSUME NEW q \in Installers PROVE Holds(q)'
  BY <1>1, <1>2, <1>3, <1>4, <1>6 DEF InstallInv, Holds, Critical, ToWrite
<1>9. ASSUME NEW q \in alone' PROVE Alone(q)'
  <2>1. q \in alone /\ q = r
    BY <1>1, <1>6 DEF InstallInv, InstallTyped, Alone
  <2>2. \A p \in Installers \ {r} : request'[p].at \notin Critical
    BY <1>4, <2>1 DEF InstallInv, Alone
  <2>3. Alone(r) /\ disk'[row.path] = row.content
    BY <1>1, <1>3, <1>6, <2>1 DEF InstallInv, Alone
  <2>4. saved[k] = ValueOf(r, k) /\ loaded'[k] = ValueOf(r, k)
    BY <1>1, <1>5, <1>6, <2>3 DEF Alone, k, InstallInv, InstallTyped
  <2>5. saved'["path"] = row.path /\ loaded'["path"] = row.path
    BY <1>2, <1>3, <1>5, <1>6, <2>3, <2>4, <1>1, Orders, WrittenValues
       DEF Alone, InstallInv, InstallTyped, Keys
  <2>6. row.left = OneLeft => saved'["version"] = row.content /\ loaded'["version"] = row.content
    BY <1>2, <1>3, <1>5, <1>6, <2>4, Orders, WrittenValues
  <2>7. QED
    BY <1>3, <1>4, <2>1, <2>2, <2>3, <2>5, <2>6 DEF Alone, Critical
<1>10. QED
  BY <1>7, <1>8, <1>9 DEF InstallInv

\* With the last one a request that has met no other leaves all in agreement.
LEMMA Answers ==
  ASSUME InstallInv, NEW r \in Installers, updateOptionMap(r), Tail(request[r].left) = <<>>
  PROVE  InstallInv'
<1>1. /\ request[r].at = "loading" /\ request[r].at \in Critical /\ torn
      /\ request[r].left \in ToWrite
  BY DEF InstallInv, Holds, updateOptionMap, Critical
<1>2. request[r].left = OneLeft /\ Head(request[r].left) = "source"
  BY <1>1, Orders DEF ToWrite
<1>3. /\ End(r) /\ torn' = (torn /\ r \notin alone) /\ alone' = alone \ {r}
      /\ loaded' = [loaded EXCEPT !["source"] = ValueOf(r, "source")] /\ UNCHANGED <<disk, saved>>
  BY <1>2 DEF updateOptionMap
<1>4. /\ request' \in [Installers -> Rows] /\ request'[r] = NoRequest
      /\ \A q \in Installers \ {r} : request'[q] = request[q]
  BY <1>3, Row, IdleFits DEF InstallInv, End
<1>5. ValueOf(r, "source") \in Values
  BY <1>1, <1>2, WritesValues
<1>6. InstallTyped'
  BY <1>3, <1>4, <1>5 DEF InstallInv, InstallTyped
<1>7. Agreed'
  <2> SUFFICES ASSUME r \in alone
      PROVE  loaded' = saved' /\ (saved'["path"] # Nothing => disk'[saved'["path"]] = saved'["version"])
    BY <1>1, <1>3 DEF Agreed
  <2>1. Alone(r) /\ request[r].left # Order
    BY <1>2, Orders DEF InstallInv
  <2>2. /\ disk[request[r].path] = request[r].content
        /\ saved["path"] = request[r].path /\ loaded["path"] = request[r].path
        /\ saved["version"] = request[r].content /\ loaded["version"] = request[r].content
    BY <1>1, <1>2, <2>1 DEF Alone
  <2>3. saved["source"] = ValueOf(r, "source")
    BY <1>1, <1>2, <2>1 DEF Alone, Keys
  <2>4. \A k \in Keys : loaded'[k] = saved'[k]
    BY <1>3, <2>2, <2>3 DEF Keys, InstallInv, InstallTyped
  <2>5. loaded' = saved'
    BY <1>6, <2>4 DEF InstallTyped
  <2>6. QED
    BY <1>3, <2>2, <2>5
<1>8. ASSUME NEW q \in Installers PROVE Holds(q)'
  <2>1. CASE q = r
    BY <1>4, <2>1, IdleFits DEF Holds
  <2>2. CASE q # r
    <3>1. request'[q] = request[q] /\ Holds(q)
      BY <1>4, <2>2 DEF InstallInv
    <3>2. request[q].at \in Critical => torn'
      BY <1>1, <1>3, <2>2 DEF InstallInv, Alone
    <3>3. QED
      BY <3>1, <3>2 DEF Holds
  <2>3. QED
    BY <2>1, <2>2
<1>9. ASSUME NEW q \in alone' PROVE Alone(q)'
  BY <1>1, <1>3 DEF InstallInv, InstallTyped, Alone
<1>10. QED
  BY <1>6, <1>7, <1>8, <1>9 DEF InstallInv

-----------------------------------------------------------------------------
\* PoolX starts again: nothing is under way, and memory is what the table says.
LEMMA Restarts == ASSUME InstallInv, Restart PROVE InstallInv'
<1>1. \A q \in Installers : request'[q] = NoRequest
  BY DEF Restart
<1>2. InstallTyped' /\ Agreed'
  BY IdleFits DEF InstallInv, InstallTyped, Agreed, Restart
<1>3. \A q \in Installers : Holds(q)'
  BY <1>1, IdleFits DEF Holds
<1>4. QED
  BY <1>2, <1>3 DEF InstallInv, Restart

\* No step takes the invariant away.
LEMMA NextInstall ==
  ASSUME KernelInstallAssumption PROVE InstallInv /\ [KernelInstallNext]_installVars => InstallInv'
<1> SUFFICES ASSUME InstallInv, [KernelInstallNext]_installVars PROVE InstallInv'
  OBVIOUS
<1>1. CASE UNCHANGED installVars
  BY <1>1 DEF installVars, InstallInv, InstallTyped, Agreed, Holds, Alone, ValueOf
<1>2. CASE Restart
  BY <1>2, Restarts
<1>3. ASSUME NEW r \in Installers, NEW kind \in Kinds, NEW path \in InstallPaths, Begin(r, kind, path)
      PROVE  InstallInv'
  <2> DEFINE row == [NoRequest EXCEPT
               !.at = IF kind = "existing" THEN "inspecting" ELSE "receiving",
               !.kind = kind, !.path = path]
  <2>1. row \in Rows /\ row.at \notin Critical /\ row.path \in InstallPaths
    BY <1>3 DEF NoRequest, Rows, Places, Critical
  <2>2. request[r].at \notin Critical
    BY <1>3 DEF Begin, Critical
  <2>3. QED
    BY <1>3, <2>1, <2>2, Outside DEF Begin, Options
<1>4. ASSUME NEW r \in Installers, Receive(r) PROVE InstallInv'
  <2>1. PICK c \in KernelVersions \union {Bad} :
          request' = [request EXCEPT ![r].content = c, ![r].at = "received"]
    BY <1>4 DEF Receive
  <2> DEFINE row == [request[r] EXCEPT !.content = c, !.at = "received"]
  <2>2. /\ row \in Rows /\ row.at \notin Critical /\ row.path \in InstallPaths
        /\ request[r].at \notin Critical
    BY <1>4 DEF InstallInv, InstallTyped, Holds, Receive, Rows, Places, Critical
  <2>3. request' = [request EXCEPT ![r] = row]
    BY <2>1 DEF InstallInv, InstallTyped
  <2>4. QED
    BY <1>4, <2>2, <2>3, Outside DEF Receive, Options
<1>5. ASSUME NEW r \in Installers, ReceiveFails(r) \/ CheckRefuses(r) PROVE InstallInv'
  <2>1. End(r) /\ request[r].at \notin Critical /\ UNCHANGED <<disk, saved, loaded, alone, torn>>
    BY <1>5 DEF ReceiveFails, CheckRefuses, Critical, Options
  <2>2. QED
    BY <2>1, IdleFits, Outside DEF End
<1>6. ASSUME NEW r \in Installers, RemoveOld(r) PROVE InstallInv'
  <2> DEFINE row == [request[r] EXCEPT !.at = "removed"]
  <2>1. /\ row \in Rows /\ row.at = "removed" /\ row.path \in InstallPaths
        /\ row.content \in KernelVersions /\ request[r].at \notin Critical
    BY <1>6 DEF InstallInv, InstallTyped, Holds, RemoveOld, Checked, Rows, Places, Critical
  <2>2. /\ request' = [request EXCEPT ![r] = row] /\ EnterCritical(r)
        /\ disk' \in [InstallPaths -> KernelVersions \union {Nothing}] /\ UNCHANGED <<saved, loaded>>
    BY <1>6 DEF InstallInv, InstallTyped, RemoveOld, StepTo, Options
  <2>3. QED
    BY <2>1, <2>2, Enters DEF Critical
<1>7. ASSUME NEW r \in Installers, Inspect(r) PROVE InstallInv'
  <2> DEFINE c == disk[request[r].path]
             row == [request[r] EXCEPT !.at = "storing", !.content = c, !.left = Order]
  <2>1. CASE c \in KernelVersions
    <3>1. /\ row \in Rows /\ row.at = "storing" /\ row.path \in InstallPaths
          /\ row.content \in KernelVersions /\ row.left = Order /\ request[r].at \notin Critical
          /\ disk[row.path] = row.content
      <4>1. request[r].at = "inspecting" /\ request[r] \in Rows /\ request[r].path \in InstallPaths
        BY <1>7 DEF InstallInv, InstallTyped, Holds, Inspect
      <4>2. row.at = "storing" /\ row.path = request[r].path /\ row.content = c /\ row.left = Order
        BY <4>1 DEF Rows
      <4>3. row \in Rows
        BY <2>1, <4>1 DEF Rows, Places, Critical, ToWrite
      <4>4. QED
        BY <2>1, <4>1, <4>2, <4>3 DEF Critical
    <3>2. /\ request' = [request EXCEPT ![r] = row] /\ EnterCritical(r)
          /\ disk' = disk /\ UNCHANGED <<saved, loaded>>
      BY <1>7, <2>1 DEF Inspect, Options
    <3>3. disk' \in [InstallPaths -> KernelVersions \union {Nothing}] /\ disk'[row.path] = row.content
      BY <3>1, <3>2 DEF InstallInv, InstallTyped
    <3>4. QED
      BY <3>1, <3>2, <3>3, Enters DEF Critical
  <2>2. CASE c \notin KernelVersions
    <3>1. /\ End(r) /\ request[r].at \notin Critical
          /\ UNCHANGED <<disk, saved, loaded, alone, torn>>
      BY <1>7, <2>2 DEF Inspect, Critical, Options
    <3>2. QED
      BY <3>1, IdleFits, Outside DEF End
  <2>3. QED
    BY <2>1, <2>2
<1>8. ASSUME NEW r \in Installers, Rename(r) PROVE InstallInv'
  <2> DEFINE row == [request[r] EXCEPT !.at = "placed"]
  <2>1. /\ row \in Rows /\ row.at = "placed" /\ row.path = request[r].path
        /\ row.content = request[r].content /\ request[r].at = "removed"
        /\ row.path \in InstallPaths /\ row.content \in KernelVersions
    BY <1>8 DEF InstallInv, InstallTyped, Holds, Rename, Rows, Places, Critical
  <2>2. /\ request' = [request EXCEPT ![r] = row]
        /\ disk' = [disk EXCEPT ![row.path] = row.content]
        /\ UNCHANGED <<saved, loaded, alone, torn>>
    BY <1>8 DEF Rename, StepTo, Options
  <2>3. disk' \in [InstallPaths -> KernelVersions \union {Nothing}] /\ disk'[row.path] = row.content
    BY <2>1, <2>2 DEF InstallInv, InstallTyped
  <2> HIDE DEF row
  <2>4. QED
    BY <2>1, <2>2, <2>3, Within
<1>9. ASSUME NEW r \in Installers, Chmod(r) PROVE InstallInv'
  <2> DEFINE row == [request[r] EXCEPT !.at = "storing", !.left = Order]
  <2>1. /\ row \in Rows /\ row.at = "storing" /\ row.path = request[r].path /\ row.left = Order
        /\ row.content = request[r].content /\ request[r].at = "placed"
    BY <1>9 DEF InstallInv, InstallTyped, Chmod, Rows, Places, Critical, ToWrite
  <2>2. /\ request' = [request EXCEPT ![r] = row] /\ UNCHANGED <<disk, saved, loaded, alone, torn>>
    BY <1>9 DEF Chmod, Options
  <2>3. r \in alone => disk'[row.path] = row.content
    BY <2>1, <2>2 DEF InstallInv, Alone
  <2>4. disk' \in [InstallPaths -> KernelVersions \union {Nothing}]
    BY <2>2 DEF InstallInv, InstallTyped
  <2> HIDE DEF row
  <2>5. QED
    BY <2>1, <2>2, <2>3, <2>4, Within
<1>10. ASSUME NEW r \in Installers, RenameFails(r) \/ ChmodFails(r) PROVE InstallInv'
  BY <1>10, GivesUp DEF RenameFails, ChmodFails, Options
<1>11. ASSUME NEW r \in Installers, StoreOption(r) PROVE InstallInv'
  BY <1>11, StoresOption
<1>12. ASSUME NEW r \in Installers, updateOptionMap(r) PROVE InstallInv'
  BY <1>12, LoadsOption, Answers
<1>13. QED
  BY <1>1, <1>2, <1>3, <1>4, <1>5, <1>6, <1>7, <1>8, <1>9, <1>10, <1>11, <1>12
     DEF KernelInstallNext

-----------------------------------------------------------------------------
\* No unchecked file comes to a path, and after an installation that met no other and no fault
\* table, memory and file agree, whatever overlapped or failed before (kernel.go:219-241,
\* 336-353, 370-381).
THEOREM InstallAlwaysSound ==
  ASSUME KernelInstallAssumption PROVE KernelInstallSpec => []InstallSound
<1>1. InstallInv => InstallSound
  <2> SUFFICES ASSUME InstallInv PROVE InstallSound
    OBVIOUS
  <2>1. ASSUME NEW p \in InstallPaths PROVE disk[p] # Bad
    BY DEF InstallInv, InstallTyped, KernelInstallAssumption
  <2>2. QED
    BY <2>1 DEF InstallInv, Agreed, InstallSound
<1>2. QED
  BY InitInstall, NextInstall, <1>1, PTL DEF KernelInstallSpec

-----------------------------------------------------------------------------
\* The pool that tests nodes.
WorkerRows ==
  [at : {"idle", "begun", "ported", "waiting", "asking"}, node : Tested \union {0},
   port : LocalPorts \union {0}]
Reports == [node : Tested, via : Tested \union {0}]
Reported(n) == \E k \in DOMAIN resultsCh : resultsCh[k].node = n
Held(n) == \E w \in Workers : worker[w].node = n

-----------------------------------------------------------------------------
\* What the values are.
TestsTyped ==
  /\ caller \in {"feeding", "waiting", "storing", "done", "failed"}
  /\ nextIndex \in 1 .. TestedNodes + 1
  /\ worker \in [Workers -> WorkerRows]
  /\ child \in [Tested -> {"none", "starting", "bound", "deaf", "dead"}]
  /\ resultsCh \in Seq(Reports) /\ kept \in Seq(Nat)

\* A worker has a node while it is at work, a port once it was given one, and no kernel yet
\* before it waits for one.
AtWork(w) ==
  /\ worker[w].at = "idle" <=> worker[w].node = 0
  /\ worker[w].at \in {"idle", "begun"} <=> worker[w].port = 0
  /\ worker[w].at \in {"begun", "ported"} => ~ Alive(worker[w].node)

\* A node that was sent is with one worker until there is its result, then with none; its
\* kernel lives only in between.
Once(n) ==
  /\ Held(n) \/ Reported(n) <=> n < nextIndex
  /\ ~ (Held(n) /\ Reported(n))
  /\ Alive(n) => Held(n)

\* No two workers have one node, and no node has two results.
Apart ==
  /\ \A v, w \in Workers : worker[v].node = worker[w].node /\ worker[w].node # 0 => v = w
  /\ \A j, k \in DOMAIN resultsCh : resultsCh[j].node = resultsCh[k].node => j = k

\* Two workers have one port only where the history says so.
PortsShared ==
  /\ \A v, w \in Workers :
       v # w /\ worker[v].port = worker[w].port /\ worker[w].port # 0 =>
         worker[w].node \in sharing
  /\ \A k \in DOMAIN resultsCh :
       resultsCh[k].via \notin {0, resultsCh[k].node} => resultsCh[k].node \in sharing

\* The caller waits for all before it stores, from the first on.
CallerWaits ==
  /\ caller # "feeding" => nextIndex = TestedNodes + 1
  /\ caller \in {"storing", "done", "failed"} => \A w \in Workers : worker[w].at = "idle"
  /\ caller \in {"feeding", "waiting"} => kept = <<>>
  /\ \A k \in DOMAIN kept : kept[k] = k
  /\ Len(kept) <= TestedNodes /\ (caller = "done" => Len(kept) = TestedNodes)

TestsInv ==
  /\ TestsTyped /\ Apart /\ PortsShared /\ CallerWaits
  /\ \A w \in Workers : AtWork(w)
  /\ \A n \in Tested : Once(n)

-----------------------------------------------------------------------------
LEMMA InitTests == NodeTestsAssumption /\ NodeTestsInit => TestsInv
<1> SUFFICES ASSUME NodeTestsAssumption, NodeTestsInit PROVE TestsInv
  OBVIOUS
<1>1. /\ caller = "feeding" /\ nextIndex = 1 /\ resultsCh = <<>> /\ kept = <<>> /\ sharing = {}
      /\ DOMAIN resultsCh = {} /\ DOMAIN kept = {} /\ Len(kept) = 0 /\ TestedNodes \in Nat \ {0}
      /\ worker = [w \in Workers |-> [at |-> "idle", node |-> 0, port |-> 0]]
      /\ child = [n \in Tested |-> "none"]
  BY DEF NodeTestsInit, NodeTestsAssumption
<1>2. /\ worker \in [Workers -> WorkerRows]
      /\ \A w \in Workers : worker[w].at = "idle" /\ worker[w].node = 0 /\ worker[w].port = 0
  BY <1>1 DEF WorkerRows
<1>3. TestsTyped
  BY <1>1, <1>2 DEF TestsTyped
<1>4. Apart /\ PortsShared /\ CallerWaits
  BY <1>1, <1>2 DEF Apart, PortsShared, CallerWaits
<1>5. \A w \in Workers : AtWork(w)
  BY <1>2 DEF AtWork
<1>6. \A n \in Tested : Once(n)
  BY <1>1, <1>2 DEF Once, Held, Reported, Alive, Tested
<1>7. QED
  BY <1>3, <1>4, <1>5, <1>6 DEF TestsInv

-----------------------------------------------------------------------------
\* A node is sent to a worker that waits for one.
LEMMA FeedKeeps ==
  ASSUME NodeTestsAssumption, TestsInv, NEW w \in Workers, Feed(w)
  PROVE  TestsInv'
<1> DEFINE d == [at |-> "begun", node |-> nextIndex, port |-> 0]
<1>1. /\ TestsTyped /\ Apart /\ PortsShared /\ CallerWaits
      /\ \A v \in Workers : AtWork(v)
      /\ \A n \in Tested : Once(n)
      /\ TestedNodes \in Nat
  BY DEF TestsInv, NodeTestsAssumption
<1>2. /\ caller = "feeding" /\ nextIndex <= TestedNodes /\ worker[w].at = "idle"
      /\ worker' = [worker EXCEPT ![w] = d] /\ nextIndex' = nextIndex + 1
      /\ UNCHANGED <<caller, child, resultsCh, kept, sharing>>
  BY DEF Feed
<1>3. nextIndex \in Tested /\ nextIndex # 0
  BY <1>1, <1>2 DEF TestsTyped, Tested
<1>4. d \in WorkerRows
  BY <1>3 DEF WorkerRows
<1>5. /\ worker' \in [Workers -> WorkerRows]
      /\ worker'[w].at = "begun" /\ worker'[w].node = nextIndex /\ worker'[w].port = 0
      /\ \A v \in Workers \ {w} : worker'[v] = worker[v]
  BY <1>1, <1>2, <1>4 DEF TestsTyped
<1>6. /\ ~ Held(nextIndex) /\ ~ Reported(nextIndex) /\ ~ Alive(nextIndex)
      /\ worker[w].node = 0
  BY <1>1, <1>2, <1>3 DEF Once, TestsTyped, AtWork
<1>7. TestsTyped'
  BY <1>1, <1>2, <1>5 DEF TestsTyped
<1>8. \A n \in Tested : (Reported(n)' <=> Reported(n)) /\ (Held(n)' <=> Held(n) \/ n = nextIndex)
  <2>1. \A n \in Tested : Reported(n)' <=> Reported(n)
    BY <1>2 DEF Reported
  <2>2. \A n \in Tested : n # 0
    BY DEF Tested
  <2>3. \A n \in Tested : Held(n)' <=> Held(n) \/ n = nextIndex
    BY <1>5, <1>6, <2>2 DEF Held
  <2>4. QED
    BY <2>1, <2>3
<1>9. ASSUME NEW n \in Tested PROVE Once(n)'
  <2>1. n \in Nat /\ nextIndex \in Nat
    BY <1>1 DEF TestsTyped, Tested
  <2>2. n < nextIndex' <=> n < nextIndex \/ n = nextIndex
    BY <1>2, <2>1
  <2>3. Alive(n)' <=> Alive(n)
    BY <1>2 DEF Alive
  <2>4. QED
    BY <1>1, <1>6, <1>8, <2>2, <2>3 DEF Once
<1>10. Apart'
  <2>1. \A v \in Workers : worker[v].node # nextIndex
    BY <1>6 DEF Held
  <2>2. QED
    BY <1>1, <1>2, <1>5, <2>1 DEF Apart
<1>11. PortsShared'
  BY <1>1, <1>2, <1>5 DEF PortsShared
<1>12. CallerWaits'
  BY <1>1, <1>2 DEF CallerWaits
<1>13. \A v \in Workers : AtWork(v)'
  <2>1. \A m : Alive(m)' <=> Alive(m)
    BY <1>2 DEF Alive
  <2>2. QED
    BY <1>1, <1>3, <1>5, <1>6, <2>1 DEF AtWork
<1>14. QED
  BY <1>7, <1>9, <1>10, <1>11, <1>12, <1>13 DEF TestsInv

\* A worker or its kernel goes on; it keeps its node, and all it changes of the pool is its port.
LEMMA WorkerMoves ==
  ASSUME TestsInv, NEW w \in Workers, worker[w].at # "idle",
         worker' \in [Workers -> WorkerRows], \A v \in Workers \ {w} : worker'[v] = worker[v],
         worker'[w].node = worker[w].node, worker'[w].at # "idle",
         worker'[w].at = "begun" <=> worker'[w].port = 0,
         UNCHANGED <<caller, nextIndex, resultsCh, kept>>,
         child' \in [Tested -> {"none", "starting", "bound", "deaf", "dead"}],
         \A n \in Tested : n = worker[w].node \/ (Alive(n)' => Alive(n)),
         worker'[w].at \in {"begun", "ported"} =>
           child'[worker[w].node] \notin {"starting", "bound", "deaf"},
         sharing \subseteq sharing',
         \A v \in Workers \ {w} :
           worker[v].port = worker'[w].port /\ worker[v].port # 0 =>
             {worker[v].node, worker[w].node} \subseteq sharing'
  PROVE  TestsInv'
<1>1. /\ TestsTyped /\ Apart /\ PortsShared /\ CallerWaits
      /\ \A v \in Workers : AtWork(v)
      /\ \A n \in Tested : Once(n)
  BY DEF TestsInv
<1>2. \A v \in Workers : worker'[v].node = worker[v].node
  OBVIOUS
<1>3. TestsTyped'
  BY <1>1 DEF TestsTyped
<1>4. ASSUME NEW n \in Tested PROVE Once(n)'
  <2>1. (Held(n)' <=> Held(n)) /\ (Reported(n)' <=> Reported(n))
    BY <1>2 DEF Held, Reported
  <2>2. Alive(n)' => Held(n)
    BY <1>1 DEF Once, Held
  <2>3. QED
    BY <1>1, <2>1, <2>2 DEF Once
<1>5. Apart'
  BY <1>1, <1>2 DEF Apart
<1>6. PortsShared'
  BY <1>1 DEF PortsShared
<1>7. CallerWaits'
  BY <1>1 DEF CallerWaits
<1>8. \A v \in Workers : AtWork(v)'
  <2>1. AtWork(w)'
    BY <1>1 DEF AtWork, Alive
  <2>2. ASSUME NEW v \in Workers \ {w} PROVE AtWork(v)'
    <3>1. worker[v].node # 0 => worker[v].node \in Tested /\ worker[v].node # worker[w].node
      BY <1>1 DEF TestsTyped, Apart, WorkerRows
    <3>2. QED
      BY <1>1, <2>2, <3>1 DEF AtWork
  <2>3. QED
    BY <2>1, <2>2
<1>9. QED
  BY <1>3, <1>4, <1>5, <1>6, <1>7, <1>8 DEF TestsInv

\* A worker sends its result, after its kernel was killed or if there never was one; the kernel
\* it has asked is its own unless the port was given away twice.
LEMMA ResultKeeps ==
  ASSUME NodeTestsAssumption, TestsInv, NEW w \in Workers, worker[w].at # "idle",
         NEW via \in Tested \union {0}, Result(w, via),
         via \notin {0, worker[w].node} => worker[w].node \in sharing,
         UNCHANGED <<caller, nextIndex, kept, sharing>>,
         child' \in [Tested -> {"none", "starting", "bound", "deaf", "dead"}],
         \A n \in Tested : (Alive(n)' => Alive(n)) /\ (n = worker[w].node => ~ Alive(n)')
  PROVE  TestsInv'
<1> DEFINE r == [node |-> worker[w].node, via |-> via]
           d == [at |-> "idle", node |-> 0, port |-> 0]
<1>1. /\ TestsTyped /\ Apart /\ PortsShared /\ CallerWaits
      /\ \A v \in Workers : AtWork(v)
      /\ \A n \in Tested : Once(n)
  BY DEF TestsInv
<1>2. worker[w].node \in Tested /\ worker[w].node # 0
  BY <1>1 DEF TestsTyped, AtWork, WorkerRows
<1>3. r \in Reports /\ r.node = worker[w].node /\ r.via = via
  BY <1>2 DEF Reports
<1>4. resultsCh' = Append(resultsCh, r) /\ worker' = [worker EXCEPT ![w] = d]
  BY DEF Result
<1>5. /\ worker' \in [Workers -> WorkerRows]
      /\ worker'[w].at = "idle" /\ worker'[w].node = 0 /\ worker'[w].port = 0
      /\ \A v \in Workers \ {w} : worker'[v] = worker[v]
  BY <1>1, <1>4 DEF TestsTyped, WorkerRows
<1> HIDE DEF r, d
<1>6. /\ resultsCh' \in Seq(Reports) /\ Len(resultsCh') = Len(resultsCh) + 1
      /\ DOMAIN resultsCh' = DOMAIN resultsCh \union {Len(resultsCh) + 1}
      /\ Len(resultsCh) + 1 \notin DOMAIN resultsCh
      /\ resultsCh'[Len(resultsCh) + 1] = r
      /\ \A k \in DOMAIN resultsCh : resultsCh'[k] = resultsCh[k]
  BY <1>1, <1>3, <1>4 DEF TestsTyped
<1>7. \A n \in Tested : Reported(n)' <=> Reported(n) \/ n = worker[w].node
  BY <1>3, <1>6 DEF Reported
<1>8. \A n \in Tested : Held(n)' <=> Held(n) /\ n # worker[w].node
  <2>1. \A v \in Workers \ {w} : worker[v].node # worker[w].node
    BY <1>1, <1>2 DEF Apart
  <2>2. \A n \in Tested : n # 0
    BY DEF Tested
  <2>3. QED
    BY <1>5, <2>1, <2>2 DEF Held
<1>9. Held(worker[w].node) /\ ~ Reported(worker[w].node)
  BY <1>1, <1>2 DEF Held, Once
<1>10. TestsTyped'
  BY <1>1, <1>5, <1>6 DEF TestsTyped
<1>11. \A n \in Tested : Once(n)'
  BY <1>1, <1>7, <1>8, <1>9 DEF Once
<1>12. Apart'
  <2>1. \A k \in DOMAIN resultsCh : resultsCh[k].node # worker[w].node
    BY <1>9 DEF Reported
  <2>2. \A j, k \in DOMAIN resultsCh' : resultsCh'[j].node = resultsCh'[k].node => j = k
    BY <1>1, <1>3, <1>6, <2>1 DEF Apart
  <2>3. \A u, v \in Workers : worker'[u].node = worker'[v].node /\ worker'[v].node # 0 => u = v
    BY <1>1, <1>5 DEF Apart
  <2>4. QED
    BY <2>2, <2>3 DEF Apart
<1>13. PortsShared'
  BY <1>1, <1>3, <1>5, <1>6 DEF PortsShared
<1>14. CallerWaits'
  BY <1>1, <1>5 DEF CallerWaits
<1>15. \A v \in Workers : AtWork(v)'
  <2>1. \A v \in Workers : worker[v].at \in {"begun", "ported"} => worker[v].node \in Tested
    BY <1>1 DEF TestsTyped, AtWork, WorkerRows
  <2>2. QED
    BY <1>1, <1>5, <2>1 DEF AtWork
<1>16. QED
  BY <1>10, <1>11, <1>12, <1>13, <1>14, <1>15 DEF TestsInv

\* A kernel that does not belong to the pool's change: it binds its port, or exits.
LEMMA ChildChanges ==
  ASSUME TestsInv, UNCHANGED <<caller, nextIndex, worker, resultsCh, kept, sharing>>,
         child' \in [Tested -> {"none", "starting", "bound", "deaf", "dead"}],
         \A n \in Tested : Alive(n)' => Alive(n)
  PROVE  TestsInv'
<1>1. /\ TestsTyped /\ Apart /\ PortsShared /\ CallerWaits
      /\ \A v \in Workers : AtWork(v)
      /\ \A n \in Tested : Once(n)
  BY DEF TestsInv
<1>2. TestsTyped'
  BY <1>1 DEF TestsTyped
<1>3. Apart' /\ PortsShared' /\ CallerWaits'
  BY <1>1 DEF Apart, PortsShared, CallerWaits
<1>4. \A v \in Workers : AtWork(v)'
  <2>1. \A v \in Workers : worker[v].at \in {"begun", "ported"} => worker[v].node \in Tested
    BY <1>1 DEF TestsTyped, AtWork, WorkerRows
  <2>2. QED
    BY <1>1, <2>1 DEF AtWork
<1>5. \A n \in Tested : Once(n)'
  BY <1>1 DEF Once, Held, Reported
<1>6. QED
  BY <1>2, <1>3, <1>4, <1>5 DEF TestsInv

-----------------------------------------------------------------------------
LEMMA CallerKeeps ==
  ASSUME NodeTestsAssumption, TestsInv, CloseJobs \/ Wait \/ StoreResult
  PROVE  TestsInv'
<1>1. /\ TestsTyped /\ Apart /\ PortsShared /\ CallerWaits
      /\ \A v \in Workers : AtWork(v)
      /\ \A n \in Tested : Once(n)
      /\ TestedNodes \in Nat
  BY DEF TestsInv, NodeTestsAssumption
<1>2. UNCHANGED <<nextIndex, worker, child, resultsCh, sharing>>
  BY DEF CloseJobs, Wait, StoreResult
<1>3. Apart' /\ PortsShared' /\ (\A v \in Workers : AtWork(v)') /\ \A n \in Tested : Once(n)'
  BY <1>1, <1>2 DEF Apart, PortsShared, AtWork, Once, Held, Reported, Alive
<1>4. CASE CloseJobs
  <2>1. nextIndex = TestedNodes + 1
    BY <1>1, <1>4 DEF TestsTyped, CloseJobs
  <2>2. TestsTyped' /\ CallerWaits'
    BY <1>1, <1>2, <1>4, <2>1 DEF TestsTyped, CallerWaits, CloseJobs
  <2>3. QED
    BY <1>3, <2>2 DEF TestsInv
<1>5. CASE Wait
  <2>1. TestsTyped' /\ CallerWaits'
    BY <1>1, <1>2, <1>5 DEF TestsTyped, CallerWaits, Wait
  <2>2. QED
    BY <1>3, <2>1 DEF TestsInv
<1>6. CASE StoreResult
  <2> DEFINE left == {k \in DOMAIN resultsCh :
                        resultsCh[k].node \notin {kept[j] : j \in DOMAIN kept}}
             next == Len(kept) + 1
  <2>1. /\ caller = "storing"
        /\ IF left = {} THEN caller' = "done" /\ UNCHANGED kept
           ELSE \/ caller' = "failed" /\ UNCHANGED kept
                \/ \E k \in left : /\ \A j \in left : resultsCh[k].node <= resultsCh[j].node
                                   /\ kept' = Append(kept, resultsCh[k].node) /\ UNCHANGED caller
    BY <1>6 DEF StoreResult
  <2>2. \A n \in Tested : Reported(n)
    <3>1. \A n \in Tested : n < nextIndex
      BY <1>1, <2>1 DEF CallerWaits, Tested
    <3>2. \A n \in Tested : ~ Held(n)
      BY <1>1, <2>1 DEF CallerWaits, AtWork, Held, Tested
    <3>3. QED
      BY <1>1, <3>1, <3>2 DEF Once
  <2>3. /\ Len(kept) \in Nat /\ DOMAIN kept = 1 .. Len(kept) /\ kept \in Seq(Nat)
        /\ \A k \in DOMAIN resultsCh : resultsCh[k].node \in Tested
    <3>1. kept \in Seq(Nat) /\ \A k \in DOMAIN resultsCh : resultsCh[k] \in Reports
      BY <1>1 DEF TestsTyped
    <3>2. QED
      BY <3>1 DEF Reports
  <2>4. \A k \in DOMAIN resultsCh : k \in left <=> resultsCh[k].node >= next
    <3>1. {kept[j] : j \in DOMAIN kept} = 1 .. Len(kept)
      BY <1>1, <2>3 DEF CallerWaits
    <3>2. \A k \in DOMAIN resultsCh : k \in left <=> resultsCh[k].node \notin 1 .. Len(kept)
      BY <3>1
    <3>3. \A m \in Tested : m \notin 1 .. Len(kept) <=> m >= next
      BY <2>3 DEF Tested
    <3>4. QED
      BY <2>3, <3>2, <3>3
  <2>5. left = {} => Len(kept) = TestedNodes
    <3>1. ASSUME left = {}, Len(kept) # TestedNodes PROVE FALSE
      <4>1. next \in Tested
        <5>1. Len(kept) <= TestedNodes /\ Len(kept) \in Nat /\ TestedNodes \in Nat
          BY <1>1, <2>3 DEF CallerWaits
        <5>2. QED
          BY <3>1, <5>1 DEF Tested
      <4>2. PICK k \in DOMAIN resultsCh : resultsCh[k].node = next
        BY <2>2, <4>1 DEF Reported
      <4>3. QED
        BY <2>3, <2>4, <3>1, <4>2
    <3>2. QED
      BY <3>1
  <2>6. ASSUME NEW k \in left, \A j \in left : resultsCh[k].node <= resultsCh[j].node
        PROVE  resultsCh[k].node = next
    <3>1. resultsCh[k].node >= next /\ resultsCh[k].node \in Tested
      BY <2>3, <2>4, <2>6
    <3>2. next \in Tested
      <4>1. \A m \in Tested : m >= next => next \in Tested
        BY <1>1, <2>3 DEF Tested
      <4>2. QED
        BY <3>1, <4>1
    <3>3. PICK j \in DOMAIN resultsCh : resultsCh[j].node = next
      BY <2>2, <3>2 DEF Reported
    <3>4. resultsCh[k].node <= next
      BY <2>3, <2>4, <2>6, <3>3
    <3>5. QED
      BY <2>3, <3>1, <3>4 DEF Tested
  <2> HIDE DEF left
  <2>7. CASE left = {}
    <3>1. TestsTyped' /\ CallerWaits'
      BY <1>1, <1>2, <2>1, <2>5, <2>7 DEF TestsTyped, CallerWaits
    <3>2. QED
      BY <1>3, <3>1 DEF TestsInv
  <2>8. CASE caller' = "failed" /\ UNCHANGED kept
    <3>1. TestsTyped' /\ CallerWaits'
      BY <1>1, <1>2, <2>1, <2>8 DEF TestsTyped, CallerWaits
    <3>2. QED
      BY <1>3, <3>1 DEF TestsInv
  <2>9. ASSUME NEW k \in left, \A j \in left : resultsCh[k].node <= resultsCh[j].node,
               kept' = Append(kept, resultsCh[k].node), UNCHANGED caller
        PROVE  TestsInv'
    <3>1. resultsCh[k].node = next /\ next \in Tested
      BY <2>3, <2>6, <2>9 DEF left
    <3>2. kept' = Append(kept, next)
      BY <2>9, <3>1
    <3>3. /\ kept' \in Seq(Nat) /\ Len(kept') = next /\ DOMAIN kept' = 1 .. next
          /\ \A j \in 1 .. Len(kept) : kept'[j] = kept[j]
          /\ kept'[next] = next
      BY <2>3, <3>2
    <3>4. \A j \in DOMAIN kept' : kept'[j] = j
      <4>1. \A j \in 1 .. Len(kept) : kept[j] = j
        BY <1>1, <2>3 DEF CallerWaits
      <4>2. \A j \in 1 .. next : j \in 1 .. Len(kept) \/ j = next
        BY <2>3
      <4> HIDE DEF next
      <4>3. QED
        BY <3>3, <4>1, <4>2
    <3>5. TestsTyped'
      BY <1>1, <1>2, <2>9, <3>3 DEF TestsTyped
    <3>6. CallerWaits'
      BY <1>1, <1>2, <2>1, <2>9, <3>1, <3>3, <3>4 DEF CallerWaits, Tested
    <3>7. QED
      BY <1>3, <3>5, <3>6 DEF TestsInv
  <2>10. QED
    BY <2>1, <2>7, <2>8, <2>9
<1>7. QED
  BY <1>4, <1>5, <1>6

-----------------------------------------------------------------------------
LEMMA WorkerKeeps ==
  ASSUME NodeTestsAssumption, TestsInv, NEW w \in Workers,
         \/ Unstarted(w) \/ allocateLocalPort(w) \/ StartChild(w)
         \/ PortOpen(w) \/ WaitFails(w) \/ Ask(w) \/ ChildBinds(w)
  PROVE  TestsInv'
<1> DEFINE n == worker[w].node
<1>1. /\ TestsTyped /\ Apart /\ PortsShared /\ AtWork(w)
      /\ \A m \in Tested : Once(m)
      /\ \A v \in Workers : AtWork(v)
      /\ LocalPorts \subseteq Nat \ {0}
  BY DEF TestsInv, NodeTestsAssumption
<1>2. /\ n \in Tested \union {0} /\ worker[w].port \in LocalPorts \union {0}
      /\ child \in [Tested -> {"none", "starting", "bound", "deaf", "dead"}]
      /\ \A v \in Workers : worker[v].node \in Tested \union {0}
  BY <1>1 DEF TestsTyped, WorkerRows
<1>3. worker[w].at # "idle" => n \in Tested /\ n # 0
  BY <1>1, <1>2 DEF AtWork
<1>4. CASE allocateLocalPort(w)
  <2>1. PICK port \in LocalPorts :
          LET others == {v \in Workers \ {w} : worker[v].port = port}
          IN  /\ worker' = [worker EXCEPT ![w].at = "ported", ![w].port = port]
              /\ sharing' = IF others = {} THEN sharing
                            ELSE sharing \union {worker[v].node : v \in others \union {w}}
    BY <1>4 DEF allocateLocalPort
  <2> DEFINE others == {v \in Workers \ {w} : worker[v].port = port}
  <2>2. /\ sharing \subseteq sharing'
        /\ \A v \in Workers \ {w} : worker[v].port = port => {worker[v].node, n} \subseteq sharing'
    <3>1. \A v \in Workers \ {w} : worker[v].port = port => v \in others
      OBVIOUS
    <3>2. QED
      BY <2>1, <3>1
  <2> HIDE DEF others
  <2>3. /\ worker[w].at = "begun" /\ port # 0 /\ port \in LocalPorts \union {0}
        /\ worker' = [worker EXCEPT ![w].at = "ported", ![w].port = port]
        /\ UNCHANGED <<caller, nextIndex, child, resultsCh, kept>>
    BY <1>1, <1>4, <2>1 DEF allocateLocalPort, Pool
  <2>4. /\ \A m \in Tested : Alive(m)' => Alive(m)
        /\ child'[worker[w].node] \notin {"starting", "bound", "deaf"}
    BY <1>1, <2>3 DEF Alive, AtWork
  <2>5. /\ worker' \in [Workers -> WorkerRows]
        /\ \A v \in Workers \ {w} : worker'[v] = worker[v]
        /\ worker'[w].node = n /\ worker'[w].at = "ported" /\ worker'[w].port = port
    BY <1>1, <2>3 DEF TestsTyped, WorkerRows
  <2>6. QED
    BY <1>2, <2>2, <2>3, <2>4, <2>5, WorkerMoves
<1>5. ASSUME NEW at \in {"waiting", "asking"}, worker[w].at \in {"ported", "waiting"},
             worker' = [worker EXCEPT ![w].at = at],
             UNCHANGED <<caller, nextIndex, resultsCh, kept, sharing>>,
             child' \in [Tested -> {"none", "starting", "bound", "deaf", "dead"}],
             \A m \in Tested : m = worker[w].node \/ (Alive(m)' => Alive(m))
      PROVE  TestsInv'
  <2>1. worker[w].port # 0 /\ n # 0
    BY <1>1, <1>3, <1>5 DEF AtWork
  <2>2. /\ worker' \in [Workers -> WorkerRows]
        /\ \A v \in Workers \ {w} : worker'[v] = worker[v]
        /\ worker'[w].node = n /\ worker'[w].at = at /\ worker'[w].port = worker[w].port
    BY <1>1, <1>5 DEF TestsTyped, WorkerRows
  <2>3. \A v \in Workers \ {w} :
          worker[v].port = worker[w].port => {worker[v].node, n} \subseteq sharing'
    BY <1>1, <1>5, <2>1 DEF PortsShared
  <2>4. QED
    BY <1>2, <1>5, <2>1, <2>2, <2>3, WorkerMoves
<1>6. CASE StartChild(w)
  <2>1. /\ worker[w].at = "ported" /\ worker' = [worker EXCEPT ![w].at = "waiting"]
        /\ child' = [child EXCEPT ![n] = "starting"]
        /\ UNCHANGED <<caller, nextIndex, resultsCh, kept, sharing>>
    BY <1>6 DEF StartChild, Move, Pool
  <2>2. /\ child' \in [Tested -> {"none", "starting", "bound", "deaf", "dead"}]
        /\ \A m \in Tested : m = n \/ (Alive(m)' => Alive(m))
    BY <1>2, <2>1 DEF Alive
  <2>3. QED
    BY <1>5, <2>1, <2>2
<1>7. CASE PortOpen(w)
  <2>1. /\ worker[w].at = "waiting" /\ worker' = [worker EXCEPT ![w].at = "asking"]
        /\ UNCHANGED <<caller, nextIndex, child, resultsCh, kept, sharing>>
    BY <1>7 DEF PortOpen, Move, Pool
  <2>2. \A m \in Tested : Alive(m)' => Alive(m)
    BY <2>1 DEF Alive
  <2>3. QED
    BY <1>2, <1>5, <2>1, <2>2
<1>8. CASE Unstarted(w)
  <2>1. /\ worker[w].at \in {"begun", "ported"} /\ Result(w, 0)
        /\ UNCHANGED <<caller, nextIndex, child, kept, sharing>>
    BY <1>8 DEF Unstarted, Pool
  <2>2. QED
    <3>1. ~ Alive(n)
      BY <1>1, <2>1 DEF AtWork
    <3>2. \A m \in Tested : (Alive(m)' => Alive(m)) /\ (m = n => ~ Alive(m)')
      BY <2>1, <3>1 DEF Alive
    <3>3. QED
      BY <1>2, <2>1, <3>2, ResultKeeps
<1>9. ASSUME NEW via \in Tested \union {0}, worker[w].at # "idle", Terminate(w, via),
             via \notin {0, n} => n \in sharing
      PROVE  TestsInv'
  <2>1. /\ child' = [child EXCEPT ![n] = "dead"] /\ Result(w, via)
        /\ UNCHANGED <<caller, nextIndex, kept, sharing>>
    BY <1>9 DEF Terminate, Pool
  <2>2. /\ child' \in [Tested -> {"none", "starting", "bound", "deaf", "dead"}]
        /\ \A m \in Tested : (Alive(m)' => Alive(m)) /\ (m = n => ~ Alive(m)')
    BY <1>2, <1>3, <1>9, <2>1 DEF Alive
  <2>3. QED
    BY <1>9, <2>1, <2>2, ResultKeeps
<1>10. CASE WaitFails(w)
  BY <1>9, <1>10 DEF WaitFails
<1>11. CASE Ask(w)
  <2>1. worker[w].at = "asking" /\ worker[w].port # 0
    BY <1>1, <1>11 DEF Ask, AtWork
  <2>2. CASE Terminate(w, 0)
    BY <1>9, <2>1, <2>2
  <2>3. ASSUME NEW v \in Listening(worker[w].port), Terminate(w, worker[v].node)
        PROVE  TestsInv'
    <3>1. v \in Workers /\ worker[v].port = worker[w].port
      BY DEF Listening
    <3>2. worker[v].node \notin {0, n} => n \in sharing
      BY <1>1, <2>1, <3>1 DEF PortsShared
    <3>3. QED
      BY <1>2, <1>9, <2>1, <2>3, <3>1, <3>2
  <2>4. QED
    BY <1>11, <2>2, <2>3 DEF Ask
<1>12. CASE ChildBinds(w)
  <2>1. /\ n # 0 /\ child[n] = "starting"
        /\ child' = [child EXCEPT ![n] = IF Listening(worker[w].port) = {} THEN "bound" ELSE "deaf"]
        /\ UNCHANGED <<caller, nextIndex, worker, resultsCh, kept, sharing>>
    BY <1>12 DEF ChildBinds
  <2>2. /\ child' \in [Tested -> {"none", "starting", "bound", "deaf", "dead"}]
        /\ \A m \in Tested : Alive(m)' => Alive(m)
    BY <1>2, <2>1 DEF Alive
  <2>3. QED
    BY <2>1, <2>2, ChildChanges
<1>13. QED
  BY <1>4, <1>6, <1>7, <1>8, <1>10, <1>11, <1>12

-----------------------------------------------------------------------------
\* There are no more results than nodes.
LEMMA ResultsFit ==
  ASSUME NodeTestsAssumption, TestsInv
  PROVE  Len(resultsCh) <= TestedNodes
<1> DEFINE f == [k \in 1 .. Len(resultsCh) |-> resultsCh[k].node]
<1>1. TestsTyped /\ Apart /\ TestedNodes \in Nat
  BY DEF TestsInv, NodeTestsAssumption
<1>2. /\ Len(resultsCh) \in Nat /\ DOMAIN resultsCh = 1 .. Len(resultsCh)
      /\ \A k \in DOMAIN resultsCh : resultsCh[k] \in Reports
  BY <1>1 DEF TestsTyped
<1>3. f \in [1 .. Len(resultsCh) -> Tested]
  BY <1>2 DEF Reports
<1>4. \A j, k \in 1 .. Len(resultsCh) : f[j] = f[k] => j = k
  BY <1>1, <1>2 DEF Apart
<1> HIDE DEF f
<1>5. f \in Injection(1 .. Len(resultsCh), Tested)
  BY <1>3, <1>4 DEF Injection, IsInjective
<1>6. ASSUME NEW n \in Nat PROVE IsFiniteSet(1 .. n) /\ Cardinality(1 .. n) = n
  <2>1. IsFiniteSet(1 .. n) /\ Cardinality(1 .. n) = IF 1 > n THEN 0 ELSE n - 1 + 1
    BY FS_Interval
  <2>2. QED
    BY <2>1
<1>7. /\ Cardinality(1 .. Len(resultsCh)) = Len(resultsCh)
      /\ IsFiniteSet(Tested) /\ Cardinality(Tested) = TestedNodes
  BY <1>1, <1>2, <1>6 DEF Tested
<1>8. Cardinality(1 .. Len(resultsCh)) <= Cardinality(Tested)
  BY <1>5, <1>7, FS_Injection
<1>9. QED
  BY <1>7, <1>8

LEMMA TestsInvSound == NodeTestsAssumption /\ TestsInv => PoolSound
<1> SUFFICES ASSUME NodeTestsAssumption, TestsInv PROVE PoolSound
  OBVIOUS
<1>1. /\ TestsTyped /\ PortsShared /\ CallerWaits
      /\ \A n \in Tested : Once(n)
      /\ \A w \in Workers : AtWork(w)
  BY DEF TestsInv
<1>2. Len(resultsCh) <= TestedNodes
  BY ResultsFit
<1>3. ASSUME caller \in {"storing", "done", "failed"}
      PROVE  {resultsCh[k].node : k \in DOMAIN resultsCh} = Tested
  <2>1. \A n \in Tested : n < nextIndex /\ ~ Held(n)
    BY <1>1, <1>3 DEF CallerWaits, AtWork, Held, Tested, NodeTestsAssumption
  <2>2. \A n \in Tested : \E k \in DOMAIN resultsCh : resultsCh[k].node = n
    BY <1>1, <2>1 DEF Once, Reported
  <2>3. \A k \in DOMAIN resultsCh : resultsCh[k] \in Reports
    BY <1>1 DEF TestsTyped
  <2>4. QED
    BY <2>2, <2>3 DEF Reports
<1>4. \A k \in DOMAIN kept : kept[k] = k
  BY <1>1 DEF CallerWaits
<1>5. caller = "done" => Len(kept) = TestedNodes
  BY <1>1 DEF CallerWaits
<1>6. \A n \in Tested : Alive(n) => \E w \in Workers : worker[w].node = n
  BY <1>1 DEF Once, Held
<1>7. \A k \in DOMAIN resultsCh :
        resultsCh[k].via \notin {0, resultsCh[k].node} => resultsCh[k].node \in sharing
  BY <1>1 DEF PortsShared
<1>8. QED
  BY <1>2, <1>3, <1>4, <1>5, <1>6, <1>7 DEF PoolSound

LEMMA TestsSteps ==
  ASSUME NodeTestsAssumption, TestsInv, [NodeTestsNext]_testVars
  PROVE  TestsInv'
<1>1. CASE UNCHANGED testVars
  <2>1. UNCHANGED <<caller, nextIndex, worker, child, resultsCh, kept, sharing>>
    BY <1>1 DEF testVars
  <2>2. /\ child' \in [Tested -> {"none", "starting", "bound", "deaf", "dead"}]
        /\ \A n \in Tested : Alive(n)' => Alive(n)
    BY <2>1 DEF TestsInv, TestsTyped, Alive
  <2>3. QED
    BY <2>1, <2>2, ChildChanges
<1>2. CASE CloseJobs \/ Wait \/ StoreResult
  BY <1>2, CallerKeeps
<1>3. ASSUME NEW w \in Workers,
             \/ Feed(w) \/ Unstarted(w) \/ allocateLocalPort(w) \/ StartChild(w)
             \/ PortOpen(w) \/ WaitFails(w) \/ Ask(w) \/ ChildBinds(w)
      PROVE  TestsInv'
  BY <1>3, FeedKeeps, WorkerKeeps
<1>4. ASSUME NEW n \in Tested, ChildExits(n) PROVE TestsInv'
  <2>1. /\ child' = [child EXCEPT ![n] = "dead"]
        /\ UNCHANGED <<caller, nextIndex, worker, resultsCh, kept, sharing>>
    BY <1>4 DEF ChildExits
  <2>2. /\ child' \in [Tested -> {"none", "starting", "bound", "deaf", "dead"}]
        /\ \A m \in Tested : Alive(m)' => Alive(m)
    BY <2>1 DEF TestsInv, TestsTyped, Alive
  <2>3. QED
    BY <2>1, <2>2, ChildChanges
<1>5. QED
  BY <1>1, <1>2, <1>3, <1>4 DEF NodeTestsNext

\* However tests overlap, fail and are cancelled, for any numbers of nodes, workers and ports:
\* no node is lost or tested twice, no result blocks a worker, results are stored in order, no
\* kernel outlives its test, and a result went through its own kernel unless the system gave the
\* port away twice (proxy_node.go:222-271, mihomo_node_tester.go:76-115).
THEOREM PoolAlwaysSound ==
  ASSUME NodeTestsAssumption
  PROVE  NodeTestsSpec => []PoolSound
<1>1. NodeTestsInit => TestsInv
  BY InitTests
<1>2. TestsInv /\ [NodeTestsNext]_testVars => TestsInv'
  BY TestsSteps
<1>3. TestsInv => PoolSound
  BY TestsInvSound
<1>4. QED
  BY <1>1, <1>2, <1>3, PTL DEF NodeTestsSpec

-----------------------------------------------------------------------------
(* The import panel: a request names a record there is, and what was removed can neither be   *)
(* chosen again nor be in the import that is under way.                                       *)

PreviewRow == [fp : SourcePrints, scope : {"none", "batch", "database"}]
RecordRow == [source : Sources, status : {"parsed", "imported"}]

FlightPhases == {"idle", "sent", "read", "done", "refused"}
FlightRow ==
  [phase : FlightPhases, source : Sources \union {NoSource}, record : Nat,
   picked : SUBSET SourcePrints, barred : SUBSET SourcePrints, nodes : SUBSET SourcePrints,
   answer : SUBSET PreviewRow]

PanelTyped ==
  /\ pool \subseteq SourcePrints /\ records \in Seq(RecordRow)
  /\ mode \in Modes /\ inputs \in [Modes -> Sources \union {NoSource}]
  /\ parsed \in 0 .. Len(records) /\ results \in 0 .. Len(records)
  /\ preview \subseteq PreviewRow /\ chosen \subseteq SourcePrints /\ removed \subseteq SourcePrints
  /\ edits \in 0 .. MaxEdits

FlightTyped ==
  /\ flight \in [Mutations -> FlightRow]
  /\ \A m \in Mutations : flight[m].record <= Len(records)
  /\ \A m \in Mutations \ {"parse"} : flight[m].phase # "idle" => flight[m].record # 0
  /\ flight["parse"].phase = "sent" => flight["parse"].source \in Sources
  /\ flight["parse"].phase = "done" => flight["parse"].record # 0

\* Nothing that was removed can be chosen again before the next parse.
RemovedApart == (chosen \union Importable(preview)) \intersect removed = {}

\* An import under way has something to import, and nothing that had been removed.
ImportPicked ==
  LET f == flight["import"]
  IN  f.phase \in {"sent", "read", "done"} =>
        /\ f.picked # {} /\ f.picked \intersect f.barred = {}
        /\ f.phase # "sent" =>
             f.nodes \subseteq f.picked \intersect ToSet(Content[records[f.record].source])

ImportInv == PanelTyped /\ FlightTyped /\ RemovedApart /\ ImportPicked

LEMMA ImportConstants ==
  ASSUME ImportPageAssumption
  PROVE  /\ NoSource \notin Sources /\ MaxEdits \in Nat
         /\ \A s \in Sources : ToSet(Content[s]) \subseteq SourcePrints
BY DEF ImportPageAssumption, SourcePrints

\* What a preview lists is of its source.
LEMMA PreviewListed ==
  ASSUME ImportPageAssumption, NEW s \in Sources
  PROVE  PreviewOf(Content[s]) \subseteq PreviewRow
<1>1. ASSUME NEW i \in DOMAIN Content[s] PROVE Content[s][i] \in SourcePrints
  <2>1. Content[s][i] \in ToSet(Content[s])
    BY DEF ToSet
  <2> QED
    BY <2>1, ImportConstants
<1> SUFFICES ASSUME NEW i \in DOMAIN Content[s], NEW row,
                    row = [fp |-> Content[s][i], scope |-> row.scope],
                    row.scope \in {"none", "batch", "database"}
             PROVE  row \in PreviewRow
  BY DEF PreviewOf
<1> QED
  BY <1>1 DEF PreviewRow

LEMMA ImportableTyped ==
  ASSUME NEW nodes, nodes \subseteq PreviewRow
  PROVE  Importable(nodes) \subseteq SourcePrints
BY DEF Importable, PreviewRow

LEMMA IdleFlight == NoFlight \in FlightRow /\ NoFlight.phase = "idle" /\ NoFlight.record = 0
BY DEF NoFlight, FlightRow, FlightPhases

LEMMA InitImport == ASSUME ImportPageAssumption PROVE ImportInit => ImportInv
<1> SUFFICES ASSUME ImportInit PROVE ImportInv
  OBVIOUS
<1>1. Len(records) = 0 /\ MaxEdits \in Nat /\ records \in Seq(RecordRow)
  BY ImportConstants DEF ImportInit
<1>2. PanelTyped
  BY <1>1 DEF PanelTyped, ImportInit, Modes
<1>3. \A m \in Mutations : flight[m] = NoFlight
  BY DEF ImportInit
<1>4. FlightTyped
  <2>1. flight \in [Mutations -> FlightRow]
    BY IdleFlight DEF ImportInit
  <2> QED
    BY <1>1, <1>3, <2>1, IdleFlight DEF FlightTyped, Mutations
<1>5. RemovedApart
  BY DEF ImportInit, RemovedApart
<1>6. ImportPicked
  BY <1>3, IdleFlight DEF ImportPicked, Mutations
<1> QED
  BY <1>2, <1>4, <1>5, <1>6 DEF ImportInv

-----------------------------------------------------------------------------
\* What the operator does to the panel concerns no request under way.
LEMMA PanelStep ==
  ASSUME ImportInv, UNCHANGED <<records, flight>>, PanelTyped', RemovedApart'
  PROVE  ImportInv'
<1>1. FlightTyped' /\ ImportPicked'
  BY DEF ImportInv, FlightTyped, ImportPicked
<1> QED
  BY <1>1 DEF ImportInv

\* A request that changes leaves the others as they are.
LEMMA FlightMoves ==
  ASSUME ImportInv, NEW m \in Mutations, NEW row \in FlightRow, records' \in Seq(RecordRow),
         Len(records') \in Nat, Len(records) \in Nat, Len(records) <= Len(records'),
         flight' = [flight EXCEPT ![m] = row], row.record <= Len(records'),
         m # "parse" /\ row.phase # "idle" => row.record # 0,
         m = "parse" /\ row.phase = "sent" => row.source \in Sources,
         m = "parse" /\ row.phase = "done" => row.record # 0
  PROVE  FlightTyped' /\ flight'[m] = row /\ \A k \in Mutations \ {m} : flight'[k] = flight[k]
<1>1. flight \in [Mutations -> FlightRow] /\ \A k \in Mutations : flight[k].record <= Len(records)
  BY DEF ImportInv, FlightTyped
<1>2. /\ flight' \in [Mutations -> FlightRow] /\ flight'[m] = row
      /\ \A k \in Mutations \ {m} : flight'[k] = flight[k]
  BY <1>1
<1>3. ASSUME NEW k \in Mutations PROVE flight'[k].record <= Len(records')
  <2>1. CASE k = m
    BY <1>2, <2>1
  <2>2. CASE k # m
    <3>1. flight[k].record \in Nat
      BY <1>1 DEF FlightRow
    <3> QED
      BY <1>1, <1>2, <2>2, <3>1
  <2> QED
    BY <2>1, <2>2
<1>4. /\ \A k \in Mutations \ {"parse"} : flight'[k].phase # "idle" => flight'[k].record # 0
      /\ flight'["parse"].phase = "sent" => flight'["parse"].source \in Sources
      /\ flight'["parse"].phase = "done" => flight'["parse"].record # 0
  BY <1>2 DEF ImportInv, FlightTyped, Mutations
<1> QED
  BY <1>2, <1>3, <1>4 DEF FlightTyped

\* A request for something else is no import.
LEMMA NoImportMoves ==
  ASSUME ImportInv, flight'["import"] = flight["import"],
         \A n \in 1 .. Len(records) : records'[n].source = records[n].source
  PROVE  ImportPicked'
<1>1. ImportPicked
  BY DEF ImportInv
<1>2. CASE flight["import"].phase \in {"read", "done"}
  <2>1. /\ flight["import"].record # 0 /\ flight["import"].record <= Len(records)
        /\ flight["import"] \in FlightRow
    BY <1>2 DEF ImportInv, FlightTyped, Mutations
  <2>2. flight["import"].record \in 1 .. Len(records)
    <3>1. Len(records) \in Nat /\ flight["import"].record \in Nat
      BY <2>1 DEF ImportInv, PanelTyped, FlightRow
    <3> QED
      BY <2>1, <3>1
  <2> QED
    BY <1>1, <2>2 DEF ImportPicked
<1>3. CASE flight["import"].phase \notin {"read", "done"}
  BY <1>1, <1>3 DEF ImportPicked
<1> QED
  BY <1>2, <1>3

LEMMA RecordsKept ==
  ASSUME ImportInv
  PROVE  /\ records \in Seq(RecordRow) /\ Len(records) \in Nat
         /\ \A m \in Mutations : flight[m] \in FlightRow /\ flight[m].record <= Len(records)
BY DEF ImportInv, PanelTyped, FlightTyped

-----------------------------------------------------------------------------
LEMMA EditSteps ==
  ASSUME ImportPageAssumption, ImportInv, Edit
  PROVE  edits' \in 0 .. MaxEdits /\ UNCHANGED <<pool, records, flight>>
<1>1. edits \in 0 .. MaxEdits /\ MaxEdits \in Nat
  BY ImportConstants DEF ImportInv, PanelTyped
<1> QED
  BY <1>1 DEF Edit

LEMMA InputSteps ==
  ASSUME ImportPageAssumption, ImportInv,
         (\E m \in Modes : SetMode(m)) \/ (\E s \in Sources : SetInput(s)) \/ Clear
  PROVE  ImportInv'
<1>1. Edit
  BY DEF SetMode, SetInput, Clear
<1>2. edits' \in 0 .. MaxEdits /\ UNCHANGED <<pool, records, flight>> /\ Len(records) \in Nat
  BY <1>1, EditSteps, RecordsKept
<1>3. PanelTyped /\ RemovedApart
  BY DEF ImportInv
<1>4. mode' \in Modes /\ inputs' \in [Modes -> Sources \union {NoSource}]
  BY <1>3 DEF PanelTyped, SetMode, SetInput, Clear, Modes
<1>5. CASE Clear
  <2>1. PanelTyped'
    <3>1. parsed' \in 0 .. Len(records)' /\ results' \in 0 .. Len(records)'
      BY <1>2, <1>5 DEF Clear
    <3> QED
      BY <1>2, <1>3, <1>4, <1>5, <3>1 DEF PanelTyped, Clear
  <2>2. RemovedApart'
    BY <1>5 DEF Clear, RemovedApart
  <2> QED
    BY <1>2, <2>1, <2>2, PanelStep
<1>6. CASE (\E m \in Modes : SetMode(m)) \/ (\E s \in Sources : SetInput(s))
  <2>1. UNCHANGED <<parsed, preview, chosen, results, removed>>
    BY <1>6 DEF SetMode, SetInput
  <2>2. PanelTyped' /\ RemovedApart'
    BY <1>2, <1>3, <1>4, <2>1 DEF PanelTyped, RemovedApart
  <2> QED
    BY <1>2, <2>2, PanelStep
<1> QED
  BY <1>5, <1>6

\* Only what is importable is ever chosen.
LEMMA SelectStep ==
  ASSUME ImportPageAssumption, ImportInv, NEW fs, Select(fs),
         fs \subseteq chosen \union Importable(preview)
  PROVE  ImportInv'
<1>1. Edit /\ chosen' = fs /\ UNCHANGED <<mode, inputs, parsed, preview, results, removed>>
  BY DEF Select
<1>2. edits' \in 0 .. MaxEdits /\ UNCHANGED <<pool, records, flight>>
  BY <1>1, EditSteps
<1>3. PanelTyped /\ RemovedApart
  BY DEF ImportInv
<1>4. Importable(preview) \subseteq SourcePrints /\ chosen \subseteq SourcePrints
  BY <1>3, ImportableTyped DEF PanelTyped
<1>5. PanelTyped' /\ RemovedApart'
  BY <1>1, <1>2, <1>3, <1>4 DEF PanelTyped, RemovedApart
<1> QED
  BY <1>2, <1>5, PanelStep

LEMMA SelectSteps ==
  ASSUME ImportPageAssumption, ImportInv,
         SelectAll \/ SelectNone \/ \E f \in SourcePrints : Toggle(f)
  PROVE  ImportInv'
<1>1. CASE SelectAll
  BY <1>1, SelectStep DEF SelectAll
<1>2. CASE SelectNone
  BY <1>2, SelectStep DEF SelectNone
<1>3. CASE \E f \in SourcePrints : Toggle(f)
  <2>1. PICK f \in Importable(preview) :
               Select(IF f \in chosen THEN chosen \ {f} ELSE chosen \union {f})
    BY <1>3 DEF Toggle
  <2> QED
    BY <2>1, SelectStep
<1> QED
  BY <1>1, <1>2, <1>3

LEMMA RemoveStep ==
  ASSUME ImportPageAssumption, ImportInv, RemoveChosen
  PROVE  ImportInv'
<1>1. edits' \in 0 .. MaxEdits /\ UNCHANGED <<pool, records, flight>> /\ Len(records) \in Nat
  BY EditSteps, RecordsKept DEF RemoveChosen
<1>2. PanelTyped /\ RemovedApart
  BY DEF ImportInv
<1>3. PanelTyped'
  <2>1. results' \in 0 .. Len(records)'
    BY <1>1 DEF RemoveChosen
  <2> QED
    BY <1>1, <1>2, <2>1 DEF PanelTyped, RemoveChosen
<1>4. RemovedApart'
  BY <1>2 DEF RemovedApart, RemoveChosen, Importable
<1> QED
  BY <1>1, <1>3, <1>4, PanelStep

LEMMA OtherStep ==
  ASSUME ImportPageAssumption, ImportInv, OtherClient
  PROVE  ImportInv'
<1>1. edits \in 0 .. MaxEdits /\ MaxEdits \in Nat
  BY ImportConstants DEF ImportInv, PanelTyped
<1>2. edits' \in 0 .. MaxEdits
  BY <1>1 DEF OtherClient
<1>3. pool' \subseteq SourcePrints
  BY DEF OtherClient, ImportInv, PanelTyped
<1>4. PanelTyped' /\ RemovedApart'
  BY <1>2, <1>3 DEF OtherClient, ImportInv, PanelTyped, RemovedApart
<1> QED
  BY <1>4, PanelStep DEF OtherClient

-----------------------------------------------------------------------------
\* Forgetting the result leaves nothing that could be chosen.
LEMMA Forgets ==
  ASSUME ImportPageAssumption, ImportInv, Forget, UNCHANGED <<pool, records, mode, inputs, edits>>
  PROVE  PanelTyped' /\ RemovedApart'
<1>1. PanelTyped /\ Len(records) \in Nat
  BY RecordsKept DEF ImportInv
<1>2. parsed' \in 0 .. Len(records)' /\ results' \in 0 .. Len(records)'
  BY <1>1 DEF Forget
<1> QED
  BY <1>1, <1>2 DEF PanelTyped, Forget, RemovedApart, Importable

LEMMA ParseSends ==
  ASSUME ImportPageAssumption, ImportInv, ClickParse
  PROVE  ImportInv'
<1>1. UNCHANGED <<pool, records, mode, inputs, edits>>
  BY DEF ClickParse
<1>2. CASE inputs[mode] = NoSource
  <2>1. Forget /\ UNCHANGED flight
    BY <1>2 DEF ClickParse
  <2> QED
    BY <1>1, <2>1, Forgets, PanelStep
<1>3. CASE inputs[mode] # NoSource
  <2> DEFINE row == [NoFlight EXCEPT !.phase = "sent", !.source = inputs[mode]]
  <2>1. inputs[mode] \in Sources
    BY <1>3 DEF ImportInv, PanelTyped
  <2>2. /\ row \in FlightRow /\ row.phase = "sent" /\ row.record = 0 /\ row.source \in Sources
    BY <2>1, IdleFlight DEF NoFlight, FlightRow, FlightPhases
  <2>3. /\ flight' = [flight EXCEPT !["parse"] = row]
        /\ UNCHANGED <<parsed, preview, chosen, results, removed>>
    BY <1>3 DEF ClickParse
  <2>4. "parse" \in Mutations /\ "import" \in Mutations /\ 0 <= Len(records')
    BY <1>1, RecordsKept DEF Mutations
  <2> HIDE DEF row
  <2>5. FlightTyped' /\ flight'["import"] = flight["import"]
    <3>1. /\ records' \in Seq(RecordRow) /\ Len(records) \in Nat /\ Len(records') = Len(records)
          /\ Len(records) <= Len(records') /\ row.record <= Len(records')
      BY <1>1, <2>2, <2>4, RecordsKept
    <3> QED
      BY <2>2, <2>3, <2>4, <3>1, FlightMoves
  <2>6. ImportPicked'
    BY <1>1, <2>5, NoImportMoves
  <2>7. PanelTyped' /\ RemovedApart'
    BY <1>1, <2>3 DEF ImportInv, PanelTyped, RemovedApart
  <2> QED
    BY <2>5, <2>6, <2>7 DEF ImportInv
<1> QED
  BY <1>2, <1>3

\* A new record is behind the others.
LEMMA RecordAppended ==
  ASSUME ImportInv, NEW row \in RecordRow, records' = Append(records, row)
  PROVE  /\ records' \in Seq(RecordRow) /\ Len(records') = Len(records) + 1
         /\ \A n \in 1 .. Len(records) : records'[n] = records[n]
BY RecordsKept

LEMMA ParseServed ==
  ASSUME ImportPageAssumption, ImportInv, ServerParse
  PROVE  ImportInv'
<1> DEFINE s == flight["parse"].source
<1>1. /\ flight["parse"].phase = "sent" /\ UNCHANGED <<pool, panelState>>
      /\ \/ /\ records' = Append(records, [source |-> s, status |-> "parsed"])
            /\ flight' = [flight EXCEPT !["parse"].phase = "done",
                            !["parse"].record = Len(records) + 1,
                            !["parse"].answer = PreviewOf(Content[s])]
         \/ flight' = [flight EXCEPT !["parse"].phase = "refused"] /\ UNCHANGED records
  BY DEF ServerParse
<1>2. UNCHANGED <<pool, mode, inputs, parsed, preview, chosen, results, removed, edits>>
  BY <1>1 DEF panelState
<1>3. s \in Sources /\ flight \in [Mutations -> FlightRow] /\ flight["parse"] \in FlightRow
  BY <1>1 DEF ImportInv, FlightTyped, Mutations
<1>4. "parse" \in Mutations /\ "import" \in Mutations \ {"parse"}
  BY DEF Mutations
<1>5. RemovedApart'
  BY <1>2 DEF ImportInv, RemovedApart
<1>6. CASE records' = Append(records, [source |-> s, status |-> "parsed"])
           /\ flight' = [flight EXCEPT !["parse"].phase = "done",
                            !["parse"].record = Len(records) + 1,
                            !["parse"].answer = PreviewOf(Content[s])]
  <2> DEFINE new == [source |-> s, status |-> "parsed"]
             row == [flight["parse"] EXCEPT !.phase = "done", !.record = Len(records) + 1,
                                            !.answer = PreviewOf(Content[s])]
  <2>1. new \in RecordRow
    BY <1>3 DEF RecordRow
  <2>2. Len(records) \in Nat /\ Len(records) + 1 \in Nat
    BY RecordsKept
  <2>3. /\ row \in FlightRow /\ row.phase = "done" /\ row.record = Len(records) + 1
    BY <1>3, <2>2, PreviewListed DEF FlightRow, FlightPhases
  <2>4. flight' = [flight EXCEPT !["parse"] = row]
    BY <1>3, <1>6
  <2>5. records' = Append(records, new)
    BY <1>6
  <2> HIDE DEF new, row
  <2>6. /\ records' \in Seq(RecordRow) /\ Len(records') = Len(records) + 1
        /\ \A n \in 1 .. Len(records) : records'[n] = records[n]
    BY <2>1, <2>5, RecordAppended
  <2>7. Len(records') \in Nat /\ Len(records) <= Len(records') /\ row.record <= Len(records')
        /\ row.record # 0
    BY <2>2, <2>3, <2>6
  <2>8. FlightTyped' /\ flight'["import"] = flight["import"]
    BY <1>4, <2>2, <2>3, <2>4, <2>6, <2>7, FlightMoves
  <2>9. ImportPicked'
    BY <2>6, <2>8, NoImportMoves
  <2>10. PanelTyped'
    <3>1. parsed \in 0 .. Len(records) /\ results \in 0 .. Len(records)
      BY DEF ImportInv, PanelTyped
    <3>2. parsed' \in 0 .. Len(records') /\ results' \in 0 .. Len(records')
      BY <1>2, <2>2, <2>6, <3>1
    <3> QED
      BY <1>2, <2>6, <3>2 DEF ImportInv, PanelTyped
  <2> QED
    BY <1>5, <2>8, <2>9, <2>10 DEF ImportInv
<1>7. CASE flight' = [flight EXCEPT !["parse"].phase = "refused"] /\ UNCHANGED records
  <2> DEFINE row == [flight["parse"] EXCEPT !.phase = "refused"]
  <2>1. row \in FlightRow /\ row.phase = "refused" /\ row.record = flight["parse"].record
    BY <1>3 DEF FlightRow, FlightPhases
  <2>2. flight' = [flight EXCEPT !["parse"] = row]
    BY <1>3, <1>7
  <2> HIDE DEF row
  <2>3. row.record <= Len(records') /\ Len(records) <= Len(records')
    BY <1>4, <1>7, <2>1, RecordsKept
  <2>4. FlightTyped' /\ flight'["import"] = flight["import"]
    BY <1>4, <1>7, <2>1, <2>2, <2>3, FlightMoves, RecordsKept
  <2>5. ImportPicked'
    BY <1>7, <2>4, NoImportMoves
  <2>6. PanelTyped'
    BY <1>2, <1>7 DEF ImportInv, PanelTyped
  <2> QED
    BY <1>5, <2>4, <2>5, <2>6 DEF ImportInv
<1> QED
  BY <1>1, <1>6, <1>7

\* A request that is answered is none any more.
LEMMA Answered ==
  ASSUME ImportInv, NEW m \in Mutations, UNCHANGED records,
         flight' = [flight EXCEPT ![m] = NoFlight]
  PROVE  FlightTyped' /\ ImportPicked'
<1>1. /\ records' \in Seq(RecordRow) /\ Len(records') = Len(records) /\ Len(records) \in Nat
      /\ 0 <= Len(records') /\ Len(records) <= Len(records')
  BY RecordsKept
<1>2. /\ FlightTyped' /\ flight'[m] = NoFlight
      /\ \A k \in Mutations \ {m} : flight'[k] = flight[k]
  BY <1>1, FlightMoves, IdleFlight
<1>3. CASE m = "import"
  BY <1>2, <1>3, IdleFlight DEF ImportPicked
<1>4. CASE m # "import"
  BY <1>2, <1>4, NoImportMoves DEF Mutations
<1> QED
  BY <1>2, <1>3, <1>4

LEMMA ParseAnswers ==
  ASSUME ImportPageAssumption, ImportInv, ParseAnswer \/ ParseFails
  PROVE  ImportInv'
<1>1. /\ UNCHANGED <<pool, records, mode, inputs, edits>>
      /\ flight' = [flight EXCEPT !["parse"] = NoFlight]
  BY DEF ParseAnswer, ParseFails
<1>2. "parse" \in Mutations
  BY DEF Mutations
<1>3. FlightTyped' /\ ImportPicked'
  BY <1>1, <1>2, Answered
<1>4. CASE ParseFails
  BY <1>1, <1>3, <1>4, Forgets DEF ParseFails, ImportInv
<1>5. CASE ParseAnswer
  <2> DEFINE f == flight["parse"]
  <2>1. f \in FlightRow /\ f.record <= Len(records) /\ Len(records) \in Nat
    BY <1>2, RecordsKept
  <2>2. f.record \in Nat /\ f.answer \subseteq PreviewRow
    BY <2>1 DEF FlightRow
  <2>3. parsed' = f.record /\ preview' = f.answer /\ chosen' = Importable(f.answer)
        /\ results' = 0 /\ removed' = {}
    BY <1>5 DEF ParseAnswer
  <2> HIDE DEF f
  <2>4. parsed' \in 0 .. Len(records') /\ results' \in 0 .. Len(records')
    BY <1>1, <2>1, <2>2, <2>3
  <2>5. Importable(f.answer) \subseteq SourcePrints
    BY <2>2, ImportableTyped
  <2>6. PanelTyped'
    BY <1>1, <2>2, <2>3, <2>4, <2>5 DEF ImportInv, PanelTyped
  <2>7. RemovedApart'
    BY <2>3 DEF RemovedApart
  <2> QED
    BY <1>3, <2>6, <2>7 DEF ImportInv
<1> QED
  BY <1>4, <1>5

-----------------------------------------------------------------------------
\* What a request does to the panel is left out of what follows.
LEMMA ServerOnly ==
  ASSUME ImportInv, UNCHANGED panelState, pool' \subseteq SourcePrints, records' \in Seq(RecordRow),
         Len(records') = Len(records)
  PROVE  PanelTyped' /\ RemovedApart'
<1>1. UNCHANGED <<mode, inputs, parsed, preview, chosen, results, removed, edits>>
  BY DEF panelState
<1> QED
  BY <1>1 DEF ImportInv, PanelTyped, RemovedApart

LEMMA Sends ==
  ASSUME ImportPageAssumption, ImportInv, NEW m \in {"test", "import"}, Send(m)
  PROVE  ImportInv'
<1> DEFINE row == [NoFlight EXCEPT !.phase = "sent", !.record = parsed, !.picked = chosen,
                                   !.barred = removed]
<1>1. /\ parsed # 0 /\ chosen # {} /\ flight' = [flight EXCEPT ![m] = row]
      /\ UNCHANGED <<pool, records, panelState>>
  BY DEF Send, CanSend
<1>2. /\ parsed \in 0 .. Len(records) /\ chosen \subseteq SourcePrints
      /\ removed \subseteq SourcePrints /\ pool \subseteq SourcePrints
  BY DEF ImportInv, PanelTyped
<1>3. /\ Len(records) \in Nat /\ records' \in Seq(RecordRow) /\ Len(records') = Len(records)
  BY <1>1, RecordsKept
<1>4. parsed \in Nat /\ parsed <= Len(records') /\ Len(records) <= Len(records')
  BY <1>2, <1>3
<1>5. /\ row \in FlightRow /\ row.phase = "sent" /\ row.record = parsed
      /\ row.picked = chosen /\ row.barred = removed
  BY <1>2, <1>4, IdleFlight DEF NoFlight, FlightRow, FlightPhases
<1>6. m \in Mutations /\ m # "parse"
  BY DEF Mutations
<1> HIDE DEF row
<1>7. /\ FlightTyped' /\ flight'[m] = row
      /\ \A k \in Mutations \ {m} : flight'[k] = flight[k]
  BY <1>1, <1>3, <1>4, <1>5, <1>6, FlightMoves
<1>8. ImportPicked'
  <2>1. CASE m = "import"
    BY <1>1, <1>5, <1>7, <2>1 DEF ImportPicked, ImportInv, RemovedApart
  <2>2. CASE m # "import"
    BY <1>1, <1>7, <2>2, NoImportMoves DEF Mutations
  <2> QED
    BY <2>1, <2>2
<1>9. PanelTyped' /\ RemovedApart'
  BY <1>1, <1>2, <1>3, ServerOnly
<1> QED
  BY <1>7, <1>8, <1>9 DEF ImportInv

LEMMA TestSteps ==
  ASSUME ImportPageAssumption, ImportInv, ServerTest \/ TestAnswer
  PROVE  ImportInv'
<1>1. "test" \in Mutations /\ "import" \in Mutations \ {"test"} /\ "test" # "parse"
  BY DEF Mutations
<1>2. /\ flight["test"] \in FlightRow /\ flight["test"].record <= Len(records)
      /\ Len(records) \in Nat /\ records \in Seq(RecordRow) /\ flight \in [Mutations -> FlightRow]
  BY <1>1, RecordsKept DEF ImportInv, FlightTyped
<1>3. CASE ServerTest
  <2>1. PICK outcome \in {"done", "refused"} : flight' = [flight EXCEPT !["test"].phase = outcome]
    BY <1>3 DEF ServerTest
  <2> DEFINE row == [flight["test"] EXCEPT !.phase = outcome]
  <2>2. UNCHANGED <<pool, records, panelState>> /\ flight["test"].record # 0
    BY <1>1, <1>3 DEF ServerTest, ImportInv, FlightTyped
  <2>3. row \in FlightRow /\ row.phase = outcome /\ row.record = flight["test"].record
    BY <1>2 DEF FlightRow, FlightPhases
  <2>4. flight' = [flight EXCEPT !["test"] = row]
    BY <1>2, <2>1
  <2> HIDE DEF row
  <2>5. row.record <= Len(records') /\ Len(records) <= Len(records') /\ row.record # 0
    BY <1>2, <2>2, <2>3
  <2>6. FlightTyped' /\ flight'["import"] = flight["import"]
    BY <1>1, <1>2, <2>2, <2>3, <2>4, <2>5, FlightMoves
  <2>7. ImportPicked'
    BY <2>2, <2>6, NoImportMoves
  <2>8. PanelTyped' /\ RemovedApart'
    BY <1>2, <2>2, ServerOnly DEF ImportInv, PanelTyped
  <2> QED
    BY <2>6, <2>7, <2>8 DEF ImportInv
<1>4. CASE TestAnswer
  <2>1. /\ UNCHANGED <<pool, records, mode, inputs, parsed, preview, chosen, removed, edits>>
        /\ flight' = [flight EXCEPT !["test"] = NoFlight]
        /\ results' = flight["test"].record \/ results' = results
    BY <1>4 DEF TestAnswer
  <2>2. FlightTyped' /\ ImportPicked'
    BY <1>1, <2>1, Answered
  <2>3. results' \in 0 .. Len(records)
    <3>1. flight["test"].record \in Nat /\ results \in 0 .. Len(records)
      BY <1>2 DEF FlightRow, ImportInv, PanelTyped
    <3> QED
      BY <1>2, <2>1, <3>1
  <2>4. PanelTyped' /\ RemovedApart'
    BY <2>1, <2>3 DEF ImportInv, PanelTyped, RemovedApart
  <2> QED
    BY <2>2, <2>4 DEF ImportInv
<1> QED
  BY <1>3, <1>4

-----------------------------------------------------------------------------
\* Where an import is, its record is one there is.
LEMMA ImportRecord ==
  ASSUME ImportInv, flight["import"].phase # "idle"
  PROVE  /\ flight["import"] \in FlightRow /\ flight["import"].record \in 1 .. Len(records)
         /\ records[flight["import"].record] \in RecordRow
<1>1. /\ flight["import"] \in FlightRow /\ flight["import"].record # 0
      /\ flight["import"].record <= Len(records) /\ Len(records) \in Nat
  BY RecordsKept DEF ImportInv, FlightTyped, Mutations
<1>2. flight["import"].record \in 1 .. Len(records)
  <2>1. flight["import"].record \in Nat
    BY <1>1 DEF FlightRow
  <2> QED
    BY <1>1, <2>1
<1>3. records[flight["import"].record] \in RecordRow
  BY <1>2, RecordsKept
<1> QED
  BY <1>1, <1>2, <1>3

\* A selection that is not empty is what may be imported of the record.
LEMMA LooksUp ==
  ASSUME ImportPageAssumption, ImportInv, ImportLookUp
  PROVE  ImportInv'
<1> DEFINE f == flight["import"]
           found == Filtered(Content[records[f.record].source], f.picked) \ pool
           row == [f EXCEPT !.phase = "read", !.nodes = found]
<1>1. /\ f.phase = "sent" /\ UNCHANGED <<pool, records, panelState>>
      /\ flight' = [flight EXCEPT !["import"].phase = "read", !["import"].nodes = found]
  BY DEF ImportLookUp
<1>2. f \in FlightRow /\ f.record \in 1 .. Len(records) /\ records[f.record] \in RecordRow
  BY <1>1, ImportRecord
<1>3. f.picked # {} /\ f.picked \intersect f.barred = {} /\ f.picked \subseteq SourcePrints
  BY <1>1, <1>2 DEF ImportInv, ImportPicked, FlightRow
<1>4. found \subseteq f.picked \intersect ToSet(Content[records[f.record].source])
  BY <1>3 DEF Filtered
<1>5. /\ row \in FlightRow /\ row.phase = "read" /\ row.nodes = found
      /\ row.record = f.record /\ row.picked = f.picked /\ row.barred = f.barred
  BY <1>2, <1>3, <1>4 DEF FlightRow, FlightPhases
<1>6. flight' = [flight EXCEPT !["import"] = row]
  BY <1>1 DEF ImportInv, FlightTyped
<1>7. "import" \in Mutations
  BY DEF Mutations
<1> HIDE DEF found, row
<1>8. /\ Len(records) \in Nat /\ records' \in Seq(RecordRow) /\ Len(records') = Len(records)
  BY <1>1, RecordsKept
<1>9. row.record <= Len(records') /\ Len(records) <= Len(records') /\ row.record # 0
  BY <1>2, <1>5, <1>8
<1>10. FlightTyped' /\ flight'["import"] = row
  BY <1>5, <1>6, <1>7, <1>8, <1>9, FlightMoves
<1>11. ImportPicked'
  BY <1>1, <1>3, <1>4, <1>5, <1>10 DEF ImportPicked
<1>12. PanelTyped' /\ RemovedApart'
  BY <1>1, <1>8, ServerOnly DEF ImportInv, PanelTyped
<1> QED
  BY <1>10, <1>11, <1>12 DEF ImportInv

\* Marking a record as imported leaves it the record of its source.
LEMMA RecordMarked ==
  ASSUME ImportInv, NEW n \in 1 .. Len(records), records' = [records EXCEPT ![n].status = "imported"]
  PROVE  /\ records' \in Seq(RecordRow) /\ Len(records') = Len(records)
         /\ \A k \in 1 .. Len(records) : records'[k].source = records[k].source
<1>1. records \in Seq(RecordRow) /\ records[n] \in RecordRow
  BY RecordsKept
<1> DEFINE new == [records[n] EXCEPT !.status = "imported"]
<1>2. new \in RecordRow /\ new.source = records[n].source
  BY <1>1 DEF RecordRow
<1>3. records' = [records EXCEPT ![n] = new]
  BY <1>1
<1> HIDE DEF new
<1> QED
  BY <1>1, <1>2, <1>3

LEMMA Writes ==
  ASSUME ImportPageAssumption, ImportInv, ImportWrite
  PROVE  ImportInv'
<1> DEFINE f == flight["import"]
<1>1. f.phase = "read" /\ UNCHANGED panelState
  BY DEF ImportWrite
<1>2. f \in FlightRow /\ f.record \in 1 .. Len(records)
  BY <1>1, ImportRecord
<1>3. f.nodes \subseteq SourcePrints /\ pool \subseteq SourcePrints /\ flight \in [Mutations -> FlightRow]
  BY <1>2 DEF ImportInv, PanelTyped, FlightRow, FlightTyped
<1>4. "import" \in Mutations
  BY DEF Mutations
<1>5. CASE /\ pool' = pool \union f.nodes
           /\ records' = [records EXCEPT ![f.record].status = "imported"]
           /\ flight' = [flight EXCEPT !["import"].phase = "done"]
  <2> DEFINE row == [f EXCEPT !.phase = "done"]
  <2>1. /\ row \in FlightRow /\ row.phase = "done" /\ row.nodes = f.nodes
        /\ row.record = f.record /\ row.picked = f.picked /\ row.barred = f.barred
    BY <1>2 DEF FlightRow, FlightPhases
  <2>2. flight' = [flight EXCEPT !["import"] = row]
    BY <1>3, <1>5
  <2> HIDE DEF row
  <2>3. /\ records' \in Seq(RecordRow) /\ Len(records') = Len(records)
        /\ \A k \in 1 .. Len(records) : records'[k].source = records[k].source
    BY <1>2, <1>5, RecordMarked
  <2>4. Len(records) \in Nat
    BY RecordsKept
  <2>5. row.record <= Len(records') /\ Len(records) <= Len(records') /\ row.record # 0
    BY <1>2, <2>1, <2>3, <2>4
  <2>6. FlightTyped' /\ flight'["import"] = row
    BY <1>4, <2>1, <2>2, <2>3, <2>4, <2>5, FlightMoves
  <2>7. ImportPicked'
    BY <1>1, <1>2, <2>1, <2>3, <2>6 DEF ImportInv, ImportPicked
  <2>8. PanelTyped' /\ RemovedApart'
    BY <1>1, <1>3, <1>5, <2>3, ServerOnly
  <2> QED
    BY <2>6, <2>7, <2>8 DEF ImportInv
<1>6. CASE /\ flight' = [flight EXCEPT !["import"].phase = "refused", !["import"].nodes = {}]
           /\ UNCHANGED <<pool, records>>
  <2> DEFINE row == [f EXCEPT !.phase = "refused", !.nodes = {}]
  <2>1. row \in FlightRow /\ row.phase = "refused" /\ row.record = f.record
    BY <1>2 DEF FlightRow, FlightPhases
  <2>2. flight' = [flight EXCEPT !["import"] = row]
    BY <1>3, <1>6
  <2> HIDE DEF row
  <2>3. Len(records) \in Nat /\ records' \in Seq(RecordRow) /\ Len(records') = Len(records)
    BY <1>6, RecordsKept
  <2>4. row.record <= Len(records') /\ Len(records) <= Len(records') /\ row.record # 0
    BY <1>2, <2>1, <2>3
  <2>5. FlightTyped' /\ flight'["import"] = row
    BY <1>4, <2>1, <2>2, <2>3, <2>4, FlightMoves
  <2>6. ImportPicked'
    BY <2>1, <2>5 DEF ImportPicked
  <2>7. PanelTyped' /\ RemovedApart'
    BY <1>1, <1>3, <1>6, <2>3, ServerOnly
  <2> QED
    BY <2>5, <2>6, <2>7 DEF ImportInv
<1> QED
  BY <1>5, <1>6 DEF ImportWrite

LEMMA ImportAnswers ==
  ASSUME ImportPageAssumption, ImportInv, ImportAnswer
  PROVE  ImportInv'
<1>1. UNCHANGED <<pool, records, panelState>> /\ flight' = [flight EXCEPT !["import"] = NoFlight]
  BY DEF ImportAnswer
<1>2. "import" \in Mutations
  BY DEF Mutations
<1>3. FlightTyped' /\ ImportPicked'
  BY <1>1, <1>2, Answered
<1>4. PanelTyped' /\ RemovedApart'
  BY <1>1, RecordsKept, ServerOnly DEF ImportInv, PanelTyped
<1> QED
  BY <1>3, <1>4 DEF ImportInv

-----------------------------------------------------------------------------
LEMMA ImportStutters ==
  ASSUME ImportInv, UNCHANGED importVars
  PROVE  ImportInv'
<1>1. UNCHANGED <<pool, records, mode, inputs, parsed, preview, chosen, results, flight,
                  removed, edits>>
  BY DEF importVars
<1>2. PanelTyped' /\ RemovedApart'
  BY <1>1 DEF ImportInv, PanelTyped, RemovedApart
<1> QED
  BY <1>1, <1>2, PanelStep

LEMMA ImportAlwaysInv == ASSUME ImportPageAssumption PROVE ImportSpec => []ImportInv
<1>1. ImportInit => ImportInv
  BY InitImport
<1>2. ImportInv /\ [ImportNext]_importVars => ImportInv'
  <2> SUFFICES ASSUME ImportInv, [ImportNext]_importVars PROVE ImportInv'
    OBVIOUS
  <2>1. CASE (\E m \in Modes : SetMode(m)) \/ (\E s \in Sources : SetInput(s)) \/ Clear
    BY <2>1, InputSteps
  <2>2. CASE SelectAll \/ SelectNone \/ \E f \in SourcePrints : Toggle(f)
    BY <2>2, SelectSteps
  <2>3. CASE RemoveChosen
    BY <2>3, RemoveStep
  <2>4. CASE ClickParse
    BY <2>4, ParseSends
  <2>5. CASE ServerParse
    BY <2>5, ParseServed
  <2>6. CASE ParseAnswer \/ ParseFails
    BY <2>6, ParseAnswers
  <2>7. CASE ClickTest \/ ClickImport
    BY <2>7, Sends DEF ClickTest, ClickImport
  <2>8. CASE ServerTest \/ TestAnswer
    BY <2>8, TestSteps
  <2>9. CASE ImportLookUp
    BY <2>9, LooksUp
  <2>10. CASE ImportWrite
    BY <2>10, Writes
  <2>11. CASE ImportAnswer
    BY <2>11, ImportAnswers
  <2>12. CASE OtherClient
    BY <2>12, OtherStep
  <2>13. CASE UNCHANGED importVars
    BY <2>13, ImportStutters
  <2> QED
    BY <2>1, <2>2, <2>3, <2>4, <2>5, <2>6, <2>7, <2>8, <2>9, <2>10, <2>11, <2>12, <2>13
    DEF ImportNext
<1> QED
  BY <1>1, <1>2, PTL DEF ImportSpec

\* For any sources and records, what the import panel and its requests hold keeps its types:
\* no request names a record that the server does not have.
THEOREM ImportTypeCorrect ==
  ASSUME ImportPageAssumption PROVE ImportSpec => []ImportTypeOK
<1>1. ImportInv => ImportTypeOK
  <2> SUFFICES ASSUME ImportInv PROVE ImportTypeOK
    OBVIOUS
  <2>1. PanelTyped
    BY DEF ImportInv
  <2>2. ASSUME NEW m \in Mutations
        PROVE  /\ flight[m].phase \in {"idle", "sent", "read", "done", "refused"}
               /\ flight[m].record \in 0 .. Len(records)
               /\ flight[m].picked \union flight[m].barred \union flight[m].nodes \subseteq SourcePrints
    <3>1. flight[m] \in FlightRow /\ flight[m].record <= Len(records) /\ Len(records) \in Nat
      BY RecordsKept
    <3>2. /\ flight[m].phase \in FlightPhases /\ flight[m].record \in Nat
          /\ flight[m].picked \subseteq SourcePrints /\ flight[m].barred \subseteq SourcePrints
          /\ flight[m].nodes \subseteq SourcePrints
      BY <3>1 DEF FlightRow
    <3>3. flight[m].record \in 0 .. Len(records)
      BY <3>1, <3>2
    <3> QED
      BY <3>2, <3>3 DEF FlightPhases
  <2> QED
    BY <2>1, <2>2 DEF ImportTypeOK, PanelTyped, PreviewRow, RecordRow
<1> QED
  BY <1>1, ImportAlwaysInv, PTL

\* For any sources, selections and requests, nothing the operator removed from the preview
\* is in what an import clicked afterwards creates, which is of its own record and was
\* selected: the panel can never send the empty selection that the server takes for all.
THEOREM RemovedAlwaysOut ==
  ASSUME ImportPageAssumption PROVE ImportSpec => []RemovedStaysOut
<1>1. ImportInv => RemovedStaysOut
  BY DEF ImportInv, ImportPicked, RemovedStaysOut
<1> QED
  BY <1>1, ImportAlwaysInv, PTL
=============================================================================
