---------------------------- MODULE UpgradeStream ----------------------------
(***************************************************************************)
(* The live upgrade log (internal/service/update.go:943-999 and              *)
(* StreamServerUpgradeLogs in internal/handler/update.go).  Whoever changes  *)
(* serverUpgradeState then broadcasts a snapshot of it to every subscriber's *)
(* buffered channel; each websocket handler subscribes, queues a first       *)
(* snapshot itself, forwards what it receives and unsubscribes when its      *)
(* browser goes away.                                                        *)
(*                                                                           *)
(* A snapshot is the number of changes the state has seen.  A reader is one  *)
(* websocket connection with its channel; a new connection is a new reader.  *)
(* The heartbeat is left out: the browser ignores it (its log list is null). *)
(***************************************************************************)
EXTENDS Naturals, Sequences, FiniteSets

CONSTANTS
  Writers,     \* goroutines that change the upgrade state: handlers and jobs
  Readers,     \* websocket connections
  Stalled,     \* the readers whose browser takes nothing
  Cap,         \* capacity of a channel: 8 in the code
  MaxChanges   \* bound on the changes to the upgrade state

ASSUME StreamAssumption ==
  /\ Stalled \subseteq Readers
  /\ Cap \in Nat \ {0}
  /\ MaxChanges \in Nat

VARIABLES
  changes,    \* serverUpgradeState: how many changes it has seen
  listeners,  \* serverUpgradeSubscribers.listeners, by reader
  buf,        \* buf[r]: what r's channel holds
  closed,     \* closed[r]: r's channel is closed
  newest,     \* newest[r]: the newest snapshot r's browser has received
  rpc,        \* rpc[r]: where r's handler is
  rsnap,      \* rsnap[r]: the first snapshot, taken but not yet queued
  wpc,        \* wpc[w]: where writer w is
  wsnap,      \* wsnap[w]: the snapshot w broadcasts
  targets,    \* targets[w]: the channels w has still to serve
  current,    \* current[w]: the channel w is serving, as a set of at most one
  overlapped, \* history: the broadcasts that met another one, or a handler's first send
  raced       \* history: the readers whose newest snapshot an overlapped broadcast lost

readerVars == <<rpc, rsnap, newest>>
writerVars == <<wpc, wsnap, targets, current>>
raceVars   == <<overlapped, raced>>
vars       == <<changes, listeners, buf, closed, readerVars, writerVars, raceVars>>

ReaderBlocks == {"away", "joined", "first", "reading", "leaving", "gone"}
WriterBlocks == {"idle", "snapshot", "copy", "serve", "drain", "retry", "panicked"}

Init ==
  /\ changes = 0
  /\ listeners = {}
  /\ buf = [r \in Readers |-> <<>>]
  /\ closed = [r \in Readers |-> FALSE]
  /\ newest = [r \in Readers |-> 0]
  /\ rpc = [r \in Readers |-> "away"]
  /\ rsnap = [r \in Readers |-> 0]
  /\ wpc = [w \in Writers |-> "idle"]
  /\ wsnap = [w \in Writers |-> 0]
  /\ targets = [w \in Writers |-> {}]
  /\ current = [w \in Writers |-> {}]
  /\ overlapped = {}
  /\ raced = {}

ReaderGoto(r, block) == rpc' = [rpc EXCEPT ![r] = block]
WriterGoto(w, block) == wpc' = [wpc EXCEPT ![w] = block]

Full(r) == Len(buf[r]) >= Cap
Enqueue(r, n) == buf' = [buf EXCEPT ![r] = Append(@, n)]

-----------------------------------------------------------------------------
(* broadcastServerUpgradeSnapshot *)

Busy == {w \in Writers : wpc[w] # "idle"}

\* recordServerUpgradeLog and its like change the state under its mutex, and broadcast it
\* whether or not another broadcast is under way.
Change(w) ==
  /\ wpc[w] = "idle"
  /\ changes < MaxChanges
  /\ changes' = changes + 1
  /\ WriterGoto(w, "snapshot")
  /\ overlapped' = IF Busy = {} THEN {} ELSE overlapped \cup Busy \cup {w}
  /\ raced' = {}
  /\ UNCHANGED <<listeners, buf, closed, readerVars, wsnap, targets, current>>

Snapshot(w) ==
  /\ wpc[w] = "snapshot"
  /\ wsnap' = [wsnap EXCEPT ![w] = changes]
  /\ WriterGoto(w, "copy")
  /\ UNCHANGED <<changes, listeners, buf, closed, readerVars, targets, current, raceVars>>

\* The listeners are copied under the mutex and served after it is released.
Copy(w) ==
  /\ wpc[w] = "copy"
  /\ targets' = [targets EXCEPT ![w] = listeners]
  /\ WriterGoto(w, IF listeners = {} THEN "idle" ELSE "serve")
  /\ wsnap' = [wsnap EXCEPT ![w] = IF listeners = {} THEN 0 ELSE @]
  /\ UNCHANGED <<changes, listeners, buf, closed, readerVars, current, raceVars>>

\* One channel is done with; rest are the channels left.
Served(w, rest) ==
  /\ current' = [current EXCEPT ![w] = {}]
  /\ wsnap' = [wsnap EXCEPT ![w] = IF rest = {} THEN 0 ELSE @]
  /\ WriterGoto(w, IF rest = {} THEN "idle" ELSE "serve")

\* A send to a closed channel panics, inside a select, too.
Panic(w) ==
  /\ wpc[w] \in {"serve", "retry"}
  /\ \E r \in IF wpc[w] = "serve" THEN targets[w] ELSE current[w] : closed[r]
  /\ WriterGoto(w, "panicked")
  /\ UNCHANGED <<changes, listeners, buf, closed, readerVars, wsnap, targets, current, raceVars>>

\* Mutant: a subscriber's queue that grows without bound.
Send_Unbounded(w) ==
  /\ wpc[w] = "serve"
  /\ \E r \in targets[w] :
       /\ ~closed[r]
       /\ targets' = [targets EXCEPT ![w] = @ \ {r}]
       /\ Enqueue(r, wsnap[w])
       /\ Served(w, targets[w] \ {r})
  /\ UNCHANGED <<changes, listeners, closed, readerVars, raceVars>>

\* Mutant: a plain send, which waits for room.
Send_Waits(w) ==
  /\ wpc[w] = "serve"
  /\ \E r \in targets[w] :
       /\ ~closed[r] /\ ~Full(r)
       /\ targets' = [targets EXCEPT ![w] = @ \ {r}]
       /\ Enqueue(r, wsnap[w])
       /\ Served(w, targets[w] \ {r})
  /\ UNCHANGED <<changes, listeners, closed, readerVars, raceVars>>

\* Mutant: what finds a channel full is dropped, without making room for it.
Send_DropsNewest(w) ==
  /\ wpc[w] = "serve"
  /\ \E r \in targets[w] :
       /\ ~closed[r]
       /\ targets' = [targets EXCEPT ![w] = @ \ {r}]
       /\ IF Full(r) THEN UNCHANGED buf ELSE Enqueue(r, wsnap[w])
       /\ Served(w, targets[w] \ {r})
  /\ UNCHANGED <<changes, listeners, closed, readerVars, raceVars>>

\* The copied channels come in the map's random order.
Send(w) ==
  /\ wpc[w] = "serve"
  /\ \E r \in targets[w] :
       /\ ~closed[r]
       /\ targets' = [targets EXCEPT ![w] = @ \ {r}]
       /\ \/ /\ ~Full(r)
             /\ Enqueue(r, wsnap[w])
             /\ Served(w, targets[w] \ {r})
          \/ /\ Full(r)
             /\ current' = [current EXCEPT ![w] = {r}]
             /\ WriterGoto(w, "drain")
             /\ UNCHANGED <<buf, wsnap>>
  /\ UNCHANGED <<changes, listeners, closed, readerVars, raceVars>>

\* An overlapped broadcast loses the newest snapshot of these readers.
Races(w, readers) ==
  /\ raced' = IF w \in overlapped THEN raced \cup readers ELSE raced
  /\ UNCHANGED overlapped

\* The oldest snapshot makes room, unless the reader was faster: then it may be the newest
\* that goes, for one that is older.
Drain(w) ==
  /\ wpc[w] = "drain"
  /\ buf' = [r \in Readers |->
               IF r \in current[w] /\ buf[r] # <<>> THEN Tail(buf[r]) ELSE buf[r]]
  /\ WriterGoto(w, "retry")
  /\ Races(w, {r \in current[w] :
                buf[r] # <<>> /\ Head(buf[r]) = changes /\ wsnap[w] # changes})
  /\ UNCHANGED <<changes, listeners, closed, readerVars, wsnap, targets, current>>

\* The second send is given up when the channel is full again.
Retry(w) ==
  /\ wpc[w] = "retry"
  /\ \E r \in current[w] :
       /\ ~closed[r]
       /\ IF Full(r) THEN UNCHANGED buf ELSE Enqueue(r, wsnap[w])
  /\ Served(w, targets[w])
  /\ Races(w, {r \in current[w] : Full(r) /\ wsnap[w] = changes})
  /\ UNCHANGED <<changes, listeners, closed, readerVars, targets>>

-----------------------------------------------------------------------------
(* SubscribeServerUpgradeStream and the websocket handler *)

\* Mutant: the first snapshot is taken before the channel is registered.
Join_SnapshotFirst(r) ==
  /\ \/ /\ rpc[r] = "away"
        /\ rsnap' = [rsnap EXCEPT ![r] = changes]
        /\ ReaderGoto(r, "joined")
        /\ UNCHANGED listeners
     \/ /\ rpc[r] = "joined"
        /\ listeners' = listeners \cup {r}
        /\ ReaderGoto(r, "first")
        /\ UNCHANGED rsnap
  /\ UNCHANGED <<changes, buf, closed, newest, writerVars, raceVars>>

Join(r) ==
  /\ rpc[r] = "away"
  /\ listeners' = listeners \cup {r}
  /\ ReaderGoto(r, "joined")
  /\ UNCHANGED <<changes, buf, closed, rsnap, newest, writerVars, raceVars>>

TakeFirst(r) ==
  /\ rpc[r] = "joined"
  /\ rsnap' = [rsnap EXCEPT ![r] = changes]
  /\ ReaderGoto(r, "first")
  /\ UNCHANGED <<changes, listeners, buf, closed, newest, writerVars, raceVars>>

\* A blocking send by the handler that will read the channel only afterwards.
SendFirst(r) ==
  /\ rpc[r] = "first"
  /\ ~Full(r)
  /\ Enqueue(r, rsnap[r])
  /\ rsnap' = [rsnap EXCEPT ![r] = 0]
  /\ ReaderGoto(r, "reading")
  /\ overlapped' = overlapped \cup {w \in Writers : r \in current[w]}
  /\ UNCHANGED <<changes, listeners, closed, newest, writerVars, raced>>

Read(r) ==
  /\ rpc[r] = "reading"
  /\ r \notin Stalled
  /\ buf[r] # <<>>
  /\ newest' = [newest EXCEPT ![r] = IF Head(buf[r]) > @ THEN Head(buf[r]) ELSE @]
  /\ buf' = [buf EXCEPT ![r] = Tail(@)]
  /\ UNCHANGED <<changes, listeners, closed, rpc, rsnap, writerVars, raceVars>>

\* Mutant: the channel is closed while it is still registered.
Leave_ClosesFirst(r) ==
  /\ rpc[r] = "reading"
  /\ closed' = [closed EXCEPT ![r] = TRUE]
  /\ ReaderGoto(r, "leaving")
  /\ UNCHANGED <<changes, listeners, buf, rsnap, newest, writerVars, raceVars>>

\* The browser goes away, or a send to it fails: unsubscribe takes the channel out
\* of the map under the mutex ...
Leave(r) ==
  /\ rpc[r] = "reading"
  /\ listeners' = listeners \ {r}
  /\ ReaderGoto(r, "leaving")
  /\ UNCHANGED <<changes, buf, closed, rsnap, newest, writerVars, raceVars>>

\* ... and closes it after the mutex is released.  What it still holds is garbage.
Close(r) ==
  /\ rpc[r] = "leaving"
  /\ closed' = [closed EXCEPT ![r] = TRUE]
  /\ buf' = [buf EXCEPT ![r] = <<>>]
  /\ newest' = [newest EXCEPT ![r] = 0]
  /\ ReaderGoto(r, "gone")
  /\ UNCHANGED <<changes, listeners, rsnap, writerVars, raceVars>>

-----------------------------------------------------------------------------
Broadcast(w) == \/ Snapshot(w) \/ Copy(w) \/ Panic(w) \/ Send(w) \/ Drain(w) \/ Retry(w)

Subscribe(r) == Join(r) \/ TakeFirst(r) \/ SendFirst(r)

Next ==
  \/ \E w \in Writers : Change(w) \/ Broadcast(w)
  \/ \E r \in Readers : Subscribe(r) \/ Read(r) \/ Leave(r) \/ Close(r)

Spec == Init /\ [][Next]_vars

\* Broadcasts and handlers that have begun go on; a browser that is not stalled keeps
\* taking what it is sent.  Nobody has to connect or to leave.
Fairness ==
  /\ \A w \in Writers : WF_vars(Broadcast(w))
  /\ \A r \in Readers : WF_vars(TakeFirst(r) \/ SendFirst(r) \/ Close(r))
  /\ \A r \in Readers \ Stalled : WF_vars(Read(r))

FairSpec == Spec /\ Fairness

-----------------------------------------------------------------------------
(* Properties *)

\* Every variable stays in its domain and no channel holds more than its capacity.
TypeOK ==
  /\ changes \in 0 .. MaxChanges
  /\ listeners \subseteq Readers
  /\ buf \in [Readers -> Seq(0 .. MaxChanges)]
  /\ \A r \in Readers : Len(buf[r]) <= Cap
  /\ closed \in [Readers -> BOOLEAN]
  /\ newest \in [Readers -> 0 .. MaxChanges]
  /\ rpc \in [Readers -> ReaderBlocks]
  /\ rsnap \in [Readers -> 0 .. MaxChanges]
  /\ wpc \in [Writers -> WriterBlocks]
  /\ wsnap \in [Writers -> 0 .. MaxChanges]
  /\ targets \in [Writers -> SUBSET Readers]
  /\ current \in [Writers -> SUBSET Readers]
  /\ overlapped \subseteq Writers /\ raced \subseteq Readers

\* A registered channel is open, so that only a broadcast that copied the listeners
\* before their reader left can panic (update.go:958-966 against 974-983).
ListedOpen == \A r \in listeners : ~closed[r]

\* When no broadcast is under way, a connected browser has the newest snapshot or will find
\* it in its channel: nothing was lost between its subscription, its first snapshot and the
\* broadcasts, and a broadcast that ran alone loses nothing, however full the channel is.
\* One that overlapped another, or a handler's first send, may lose the newest on a full
\* channel: drained in favour of an older one, or given up because somebody took the room.
\* The code does that, and until the next change it stays so (update.go:943-999).
NothingLost ==
  \A r \in Readers :
    rpc[r] = "reading" /\ Busy = {}
      => \/ newest[r] = changes
         \/ \E i \in 1 .. Len(buf[r]) : buf[r][i] = changes
         \/ r \in raced

StreamSound == ListedOpen /\ NothingLost

\* The broadcaster never waits: each broadcast ends whatever the readers do, stalled
\* browsers and full channels included (update.go:985-997).
BroadcastEnds == \A w \in Writers : wpc[w] # "idle" ~> wpc[w] \in {"idle", "panicked"}

\* Every browser that is connected and takes what it is sent catches up with the upgrade
\* state again and again, so that each change reaches it, by itself or in a later snapshot,
\* however the subscription and the broadcasts interleave.  Two things excuse it: the panic
\* of a broadcaster, and the loss of the newest snapshot, until the next change, by a
\* broadcast that overlapped another or a first send on its full channel (update.go:943-999).
ChangesShown ==
  \A r \in Readers \ Stalled :
    []<>(\/ newest[r] = changes
        \/ rpc[r] # "reading"
        \/ r \in raced
        \/ \E w \in Writers : wpc[w] = "panicked")
=============================================================================
