-------------------------------- MODULE Binlog --------------------------------
(***************************************************************************)
(* The store in which TDLib keeps the login and its settings: threads      *)
(* write to a map (BinlogKeyValue) and send the events of their writes to  *)
(* one actor (ConcurrentBinlog), which orders them, appends them to a file *)
(* and now and then replaces that file by a shorter one (Binlog).          *)
(*                                                                         *)
(* An event is sent after the lock that numbered it is released, so that   *)
(* events arrive out of order.  A file has a part that is on the disk and  *)
(* a part that is not yet; the process can be killed, and the machine can  *)
(* lose power, between any two steps.                                      *)
(***************************************************************************)
EXTENDS Naturals, Sequences, FiniteSets, SequencesExt

CONSTANTS
  Threads, Keys, Values,
  LogOwners,     \* the threads whose events carry a promise
  NoVal,         \* the value of an erased key
  Torn,          \* what a write that was interrupted left
  FlushAbove,    \* events in the buffer that force a flush (16 KB)
  ReindexAbove,  \* events in the file below which it is kept (50 KB)
  Rate,          \* events in the file per live one that it may hold
  CompactAbove,  \* slots below which erased ones are kept (10)
  MaxWrites, MaxCrashes \* bounds

\* lazy_flush keeps the file from being empty when it is long enough to be
\* replaced.
ASSUME BinlogAssumption ==
  /\ LogOwners \subseteq Threads /\ NoVal \notin Values /\ Rate \in Nat \ {0} /\ CompactAbove \in Nat
  /\ FlushAbove \in Nat /\ ReindexAbove \in Nat /\ FlushAbove < ReindexAbove
  /\ MaxWrites \in Nat /\ MaxCrashes \in Nat

VARIABLES
  map,          \* BinlogKeyValue.map_: value and event of each key
  lastId,       \* ConcurrentBinlog.last_event_id_
  call,         \* what each thread is about to send
  begin,        \* OrderedEventsProcessor: the number it waits for
  waiting,      \* the events that came early
  immediate,    \* force_syncs that wait for an earlier event
  syncPromises, \* promises that the next sync fulfils
  forceFlag, lazyFlag, flushFlag, timer,
  turn,         \* what the actor is in the middle of
  buffer,       \* events added and not written to the file
  needSync,
  slots,        \* BinlogEventsProcessor: the events that make up the map
  main, new,    \* the file and the one that will replace it
  history,      \* history: the writes that have not been lost
  boot,         \* history: the place of the event numbered 0 in it
  wrote,        \* history: the place of each thread's newest write
  promised,     \* history: writes that a caller was told are saved
  crashes

clientVars == <<map, lastId, call, wrote>>
timerVars  == <<syncPromises, forceFlag, lazyFlag, flushFlag, timer>>
actorVars  == <<begin, waiting, immediate>>
fileVars   == <<buffer, needSync, main, new>>
ghostVars  == <<history, boot, promised, crashes>>
vars == <<clientVars, timerVars, actorVars, turn, fileVars, slots, ghostVars>>

NoKey  == [val |-> NoVal, id |-> 0]
NoCall == [type |-> "none"]
NoFile == [exists |-> FALSE, data |-> <<>>, synced |-> 0, base |-> 0, snap |-> 0]
Ids    == 1 .. MaxWrites
Places == 0 .. MaxWrites

Reindexing == {"open", "write", "barrier", "unlink", "rename"}
Turns == {"off", "idle", "drain", "sync", "closing", "unlinkNew", "unlinkMain",
          "fatal"} \cup Reindexing

Events  == [id : Ids, rewrite : BOOLEAN, key : Keys, val : Values \cup {NoVal}]
Calls   == [type : {"event"}, seq : Ids, event : Events, promise : BOOLEAN]
           \cup [type : {"sync"}, upto : Places] \cup {NoCall}
Files   == [exists : BOOLEAN, data : Seq(Events \cup {Torn}), synced : Nat,
            base : Nat, snap : Nat]

\* load_binlog tells an event that is not whole from one that is.
ASSUME TornAssumption == Torn \notin Events

\* The variables have the types of the fields they model.
TypeOK ==
  /\ map \in [Keys -> [val : Values \cup {NoVal}, id : Places]]
  /\ lastId \in Places /\ call \in [Threads -> Calls]
  /\ wrote \in [Threads -> Places]
  /\ begin \in 1 .. MaxWrites + 1 /\ waiting \subseteq Calls
  /\ immediate \subseteq [seq : Ids, upto : Places]
  /\ syncPromises \subseteq Places
  /\ forceFlag \in BOOLEAN /\ lazyFlag \in BOOLEAN /\ flushFlag \in BOOLEAN
  /\ timer \in BOOLEAN /\ turn \in Turns /\ needSync \in BOOLEAN
  /\ buffer \in Seq(Events)
  /\ slots \in Seq([id : Ids, key : Keys, val : Values \cup {NoVal}])
  /\ main \in Files /\ new \in Files
  /\ history \in Seq([key : Keys, val : Values \cup {NoVal}])
  /\ Len(history) <= MaxWrites
  /\ boot \in Nat /\ promised \in Places /\ crashes \in 0 .. MaxCrashes

-----------------------------------------------------------------------------
(* BinlogEventsProcessor: the events in the order of their ids, an erased  *)
(* one as a mark without a value.                                          *)

Gone(s) == s.val = NoVal

Back(ss) == 2 * Last(ss).id + (IF Gone(Last(ss)) THEN 1 ELSE 0)

IsOld(ss, e)   == ss # <<>> /\ Back(ss) >= 2 * e.id
SlotsOf(ss, e) == {i \in DOMAIN ss : ss[i].id = e.id /\ ~Gone(ss[i])}

\* do_event returns an error, on which the process aborts.
Refused(ss, e) ==
  IF e.rewrite /\ IsOld(ss, e) THEN SlotsOf(ss, e) = {}
                               ELSE e.val # NoVal /\ IsOld(ss, e)

Live(ss) ==
  LET live[n \in 0 .. Len(ss)] ==
        IF n = 0 THEN <<>>
        ELSE IF Gone(ss[n]) THEN live[n - 1] ELSE Append(live[n - 1], ss[n])
  IN  live[Len(ss)]

compactify(ss) ==
  IF Len(ss) > CompactAbove /\ (Len(ss) - Len(Live(ss))) * 4 > Len(ss) * 3
  THEN Live(ss) ELSE ss

Added(ss, e) ==
  compactify(
    IF e.rewrite /\ IsOld(ss, e)
    THEN [i \in DOMAIN ss |-> IF i \in SlotsOf(ss, e)
                              THEN [ss[i] EXCEPT !.val = e.val] ELSE ss[i]]
    ELSE IF e.val = NoVal THEN ss
    ELSE Append(ss, [id |-> e.id, key |-> e.key, val |-> e.val]))

Replayed(events) ==
  LET replayed[n \in 0 .. Len(events)] ==
        IF n = 0 THEN <<>> ELSE Added(replayed[n - 1], events[n])
  IN  replayed[Len(events)]

\* The events that a new file holds.
Snapshot ==
  [i \in DOMAIN Live(slots) |->
     [id |-> Live(slots)[i].id, rewrite |-> FALSE, key |-> Live(slots)[i].key,
      val |-> Live(slots)[i].val]]

-----------------------------------------------------------------------------
(* Files.  synced entries of a file are on the disk; its first snap        *)
(* entries stand for base writes, each later one for one write; a part of  *)
(* those snap entries is as good as nothing.                               *)

\* load_binlog reads up to the first event that is not whole.
Readable(data) ==
  LET torn == {i \in DOMAIN data : data[i] = Torn}
  IN  IF torn = {} THEN data
      ELSE SubSeq(data, 1, (CHOOSE i \in torn : \A j \in torn : i <= j) - 1)

\* The file that the next init opens, and the writes its first n events make.
Survivor == IF main.exists THEN main ELSE new
WritesIn(file, n) == IF n < file.snap THEN 0 ELSE file.base + n - file.snap
Saved == WritesIn(Survivor, Survivor.synced)

Store == INSTANCE DurableMap WITH writes <- history, durable <- Saved

Flushed(file) == [file EXCEPT !.data = @ \o buffer]
Synced(file)  == [file EXCEPT !.synced = Len(file.data)]

-----------------------------------------------------------------------------
(* Opening the store, and the end of the process.                          *)

\* Nothing of the process is left; n writes are.
ProcessEnds(n) ==
  /\ map' = [k \in Keys |-> NoKey] /\ lastId' = 0
  /\ call' = [t \in Threads |-> NoCall] /\ wrote' = [t \in Threads |-> 0]
  /\ begin' = 1 /\ waiting' = {} /\ immediate' = {} /\ syncPromises' = {}
  /\ forceFlag' = FALSE /\ lazyFlag' = FALSE /\ flushFlag' = FALSE
  /\ timer' = FALSE /\ turn' = "off" /\ buffer' = <<>> /\ needSync' = FALSE
  /\ slots' = <<>> /\ boot' = 0
  /\ history' = SubSeq(history, 1, n)

Init ==
  /\ map = [k \in Keys |-> NoKey] /\ lastId = 0
  /\ call = [t \in Threads |-> NoCall] /\ wrote = [t \in Threads |-> 0]
  /\ begin = 1 /\ waiting = {} /\ immediate = {} /\ syncPromises = {}
  /\ forceFlag = FALSE /\ lazyFlag = FALSE /\ flushFlag = FALSE
  /\ timer = FALSE /\ turn = "off" /\ buffer = <<>> /\ needSync = FALSE
  /\ slots = <<>> /\ main = NoFile /\ new = NoFile
  /\ history = <<>> /\ boot = 0 /\ promised = 0 /\ crashes = 0

\* The file init opens: the new one when a crash has left only that.
Found == IF main.exists THEN main
         ELSE IF new.exists THEN new ELSE [NoFile EXCEPT !.exists = TRUE]

\* The newest id; a rewrite has found its event.
LastAdded(events) ==
  LET added == {i \in DOMAIN events : ~events[i].rewrite}
  IN  IF added = {} THEN 0
      ELSE events[CHOOSE i \in added : \A j \in added : j <= i].id

\* The map gets the first live event of each key.
MapOf(ss) ==
  [k \in Keys |->
     LET mine == {i \in DOMAIN ss : ss[i].key = k /\ ~Gone(ss[i])}
     IN  IF mine = {} THEN NoKey
         ELSE LET i == CHOOSE i \in mine : \A j \in mine : i <= j
              IN  [val |-> ss[i].val, id |-> ss[i].id]]

\* A file that does not begin with the key, a new one above all, or of which a
\* torn end was cut off, is replaced before anything is added to it.
Unusable(data) ==
  IF data = <<>> THEN BOOLEAN ELSE {Torn \in ToSet(data)}

\* A write while the file is replaced here is as one just after it.
init ==
  LET events == Readable(Found.data)
      ss     == Replayed(events)
  IN
  /\ turn = "off"
  /\ main' = [Found EXCEPT !.data = events]
  /\ new' = IF main.exists THEN new ELSE NoFile
  /\ slots' = ss
  /\ map' = MapOf(ss)
  /\ lastId' = LastAdded(events)
  /\ begin' = lastId' + 1
  /\ boot' = Len(history) - lastId'
  /\ \E unusable \in Unusable(Found.data) :
       turn' = IF \E i \in DOMAIN events :
                     Refused(Replayed(SubSeq(events, 1, i - 1)), events[i])
               THEN "fatal" ELSE IF unusable THEN "open" ELSE "idle"
  /\ UNCHANGED <<call, wrote, waiting, immediate, timerVars, buffer, needSync,
                 history, promised, crashes>>

\* What a write leaves of events when it is cut after n of them.
Cuts(events, n) ==
  {SubSeq(events, 1, n)} \cup
  (IF n < Len(events) THEN {Append(SubSeq(events, 1, n), Torn)} ELSE {})

\* The process dies, in a write if the buffer holds anything; what was written
\* stays with the system.
Kill ==
  /\ turn # "off" /\ crashes < MaxCrashes
  /\ crashes' = crashes + 1
  /\ \E n \in 0 .. Len(buffer) : \E tail \in Cuts(buffer, n) :
       main' = [main EXCEPT !.data = @ \o tail]
  /\ IF turn = "write"
     THEN \E n \in 0 .. Len(Snapshot) : \E tail \in Cuts(Snapshot, n) :
            new' = [new EXCEPT !.data = tail]
     ELSE UNCHANGED new
  /\ LET file == IF main.exists THEN main' ELSE new'
     IN  ProcessEnds(WritesIn(file, Len(Readable(file.data))))
  /\ UNCHANGED promised

LostFrom(file) ==
  {[file EXCEPT !.data = tail, !.synced = Len(Readable(tail))] :
     tail \in UNION {Cuts(file.data, n) : n \in file.synced .. Len(file.data)}}

\* The machine stops: of each file at least what was synced remains.
PowerLoss ==
  /\ crashes < MaxCrashes
  /\ crashes' = crashes + 1
  /\ main' \in LostFrom(main)
  /\ new' \in LostFrom(new)
  /\ LET file == IF main.exists THEN main' ELSE new'
     IN  ProcessEnds(WritesIn(file, Len(Readable(file.data))))
  /\ UNCHANGED promised

-----------------------------------------------------------------------------
(* The threads.  A thread is with one event or sync at a time; it is sent  *)
(* when the actor takes it.                                                *)

IsOpen == turn \in {"idle", "drain", "sync"} \cup Reindexing

\* A variant: every value of a key is an event of its own.
NewId(k) == lastId + 1

EventId(k) == IF map[k].id = 0 THEN lastId + 1 ELSE map[k].id

\* BinlogKeyValue.set, or erase when v is NoVal.  The log events of the managers
\* go the same way, and their owners take a promise instead of a sync.
Write(t, k, v) ==
  /\ IsOpen /\ call[t] = NoCall /\ v # map[k].val
  /\ Len(history) < MaxWrites
  /\ lastId' = lastId + 1
  /\ map' = [map EXCEPT ![k] = IF v = NoVal THEN NoKey
                               ELSE [val |-> v, id |-> EventId(k)]]
  /\ call' = [call EXCEPT ![t] =
       [type |-> "event", seq |-> lastId + 1, promise |-> t \in LogOwners,
        event |-> [id |-> EventId(k), rewrite |-> map[k].id # 0, key |-> k,
                   val |-> v]]]
  /\ history' = Append(history, [key |-> k, val |-> v])
  /\ wrote' = [wrote EXCEPT ![t] = Len(history')]
  /\ UNCHANGED <<timerVars, actorVars, turn, fileVars, slots, boot, promised,
                 crashes>>

\* A thread asks for a sync when it has written something that it does not
\* know to be saved.
ForceSync(t) ==
  /\ IsOpen /\ t \notin LogOwners /\ call[t] = NoCall /\ wrote[t] > promised
  /\ call' = [call EXCEPT ![t] = [type |-> "sync", upto |-> wrote[t]]]
  /\ UNCHANGED <<map, lastId, wrote, timerVars, actorVars, turn, fileVars,
                 slots, ghostVars>>

-----------------------------------------------------------------------------
(* The actor.                                                              *)

Flush ==
  /\ main' = Flushed(main)
  /\ buffer' = <<>>
  /\ needSync' = (needSync \/ buffer # <<>>)

do_immediate_sync(promises) ==
  /\ syncPromises' = syncPromises \cup promises
  /\ forceFlag' = TRUE
  /\ timer' = TRUE

DeliverEvent(t) ==
  /\ turn = "idle" /\ call[t].type = "event"
  /\ waiting' = waiting \cup {call[t]}
  /\ call' = [call EXCEPT ![t] = NoCall]
  /\ turn' = "drain"
  /\ UNCHANGED <<map, lastId, wrote, begin, immediate, timerVars, fileVars,
                 slots, ghostVars>>

\* A variant: one past the newest event.
UnfinishedEnd ==
  IF waiting = {} THEN begin
  ELSE (CHOOSE e \in waiting : \A f \in waiting : f.seq <= e.seq).seq + 1

\* The newest event that has come early; nothing is missing when there is none.
Unfinished ==
  IF waiting = {} THEN begin - 1
  ELSE (CHOOSE e \in waiting : \A f \in waiting : f.seq <= e.seq).seq

DeliverSync(t) ==
  /\ turn = "idle" /\ call[t].type = "sync"
  /\ call' = [call EXCEPT ![t] = NoCall]
  /\ IF Unfinished = begin - 1
     THEN /\ do_immediate_sync({call[t].upto})
          /\ UNCHANGED immediate
     ELSE /\ immediate' = immediate \cup {[seq |-> Unfinished, upto |-> call[t].upto]}
          /\ UNCHANGED <<syncPromises, forceFlag, timer>>
  /\ UNCHANGED <<map, lastId, wrote, begin, waiting, lazyFlag, flushFlag, turn,
                 fileVars, slots, ghostVars>>

do_lazy_sync(e) ==
  IF e.promise
  THEN /\ syncPromises' = syncPromises \cup {e.seq + boot}
       /\ lazyFlag' = (lazyFlag \/ ~forceFlag)
       /\ timer' = (timer \/ ~forceFlag)
  ELSE UNCHANGED <<syncPromises, lazyFlag, timer>>

need_reindex(size, ss) ==
  size > ReindexAbove /\ size \div Rate > Len(Live(ss))

\* A variant: events are taken as they come.
Takes(e) == TRUE

IsNext(e) == e.seq = begin

\* One event of OrderedEventsProcessor.add's loop.
Drain(e) ==
  /\ turn = "drain" /\ e \in waiting /\ IsNext(e)
  /\ waiting' = waiting \ {e}
  /\ begin' = begin + 1
  /\ slots' = Added(slots, e.event)
  /\ IF Len(buffer) + 1 > FlushAbove
     THEN /\ main' = [main EXCEPT !.data = @ \o Append(buffer, e.event)]
          /\ buffer' = <<>> /\ needSync' = TRUE
     ELSE /\ buffer' = Append(buffer, e.event)
          /\ UNCHANGED <<main, needSync>>
  /\ turn' = IF Refused(slots, e.event) THEN "fatal"
             ELSE IF need_reindex(Len(main.data) + Len(buffer) + 1, slots')
             THEN "open" ELSE "drain"
  /\ do_lazy_sync(e)
  /\ UNCHANGED <<clientVars, immediate, forceFlag, flushFlag, new, ghostVars>>

\* flag is whether a flush is due already; the buffer is flushed when it is late.
try_flush(flag) ==
  \/ Flush /\ flushFlag' = flag
  \/ /\ buffer # <<>>
     /\ flushFlag' = (flag \/ ~forceFlag')
     /\ UNCHANGED <<main, buffer, needSync>>

\* A variant: a sync waits for one event more.
ReachedLater == {i \in immediate : i.seq < begin - 1}

Reached == {i \in immediate : i.seq < begin}

\* flush_immediate_sync and try_flush.
DrainEnds ==
  /\ turn = "drain" /\ \A e \in waiting : ~IsNext(e)
  /\ turn' = "idle"
  /\ immediate' = immediate \ Reached
  /\ syncPromises' = syncPromises \cup {i.upto : i \in Reached}
  /\ forceFlag' = (forceFlag \/ Reached # {})
  /\ try_flush(flushFlag)
  /\ timer' = (timer \/ forceFlag' \/ flushFlag')
  /\ UNCHANGED <<clientVars, begin, waiting, lazyFlag, new, slots, ghostVars>>

ForceFlush ==
  /\ turn = "idle"
  /\ Flush
  /\ flushFlag' = FALSE
  /\ UNCHANGED <<clientVars, actorVars, syncPromises, forceFlag, lazyFlag, timer,
                 turn, new, slots, ghostVars>>

\* The timer: everything that is to be synced, or else flushed.
timeout_expired ==
  /\ turn = "idle" /\ timer
  /\ forceFlag' = FALSE /\ lazyFlag' = FALSE
  /\ \/ /\ lazyFlag \/ forceFlag
        /\ turn' = "sync"
        /\ Flush /\ flushFlag' = FALSE
     \/ /\ ~lazyFlag /\ ~forceFlag /\ flushFlag
        /\ try_flush(FALSE) /\ UNCHANGED turn
     \/ /\ ~lazyFlag /\ ~forceFlag /\ ~flushFlag
        /\ UNCHANGED <<turn, main, buffer, needSync, flushFlag>>
  /\ timer' = flushFlag'
  /\ UNCHANGED <<clientVars, actorVars, syncPromises, new, slots, ghostVars>>

SyncedMain == IF needSync THEN Synced(main) ELSE main

Told(places) ==
  CHOOSE n \in places \cup {promised} : \A m \in places \cup {promised} : m <= n

\* The file is on the disk, then the promises are kept.
SyncEnds ==
  /\ turn = "sync"
  /\ turn' = "idle"
  /\ main' = SyncedMain
  /\ needSync' = FALSE
  /\ promised' = Told(syncPromises)
  /\ syncPromises' = {}
  /\ UNCHANGED <<clientVars, actorVars, forceFlag, lazyFlag, flushFlag, timer,
                 buffer, new, slots, history, boot, crashes>>

-----------------------------------------------------------------------------
(* do_reindex: the live events are written to a new file, which takes the  *)
(* place of the old one.                                                   *)

ReindexStep(from, to) ==
  /\ turn = from /\ turn' = to
  /\ UNCHANGED <<clientVars, actorVars, timerVars, slots, ghostVars>>

NewFile == [NoFile EXCEPT !.exists = TRUE, !.base = begin - 1 + boot]

\* The buffer is dropped: what it holds is in the slots.
OpenNew ==
  /\ ReindexStep("open", "write")
  /\ new' = NewFile
  /\ buffer' = <<>>
  /\ UNCHANGED <<main, needSync>>

OpenFails ==
  /\ ReindexStep("open", "drain")
  /\ UNCHANGED fileVars

WriteNew ==
  /\ ReindexStep("write", "barrier")
  /\ new' = [new EXCEPT !.data = @ \o Snapshot, !.snap = Len(Snapshot)]
  /\ UNCHANGED <<main, buffer, needSync>>

\* A variant: the new file is left to the next sync.
NewLeft == new

NewSynced == IF main.data # <<>> THEN Synced(new) ELSE new

\* A file that is replaced owes no sync.
Barrier ==
  /\ ReindexStep("barrier", "unlink")
  /\ new' = NewSynced
  /\ needSync' = FALSE
  /\ UNCHANGED <<main, buffer>>

UnlinkOld ==
  /\ ReindexStep("unlink", "rename")
  /\ main' = NoFile
  /\ UNCHANGED <<new, buffer, needSync>>

RenameNew ==
  /\ ReindexStep("rename", "drain")
  /\ main' = new
  /\ new' = NoFile
  /\ UNCHANGED <<buffer, needSync>>

-----------------------------------------------------------------------------
(* TdDb.close: the threads have ended.                                     *)

Ended == turn = "idle" /\ waiting = {} /\ \A t \in Threads : call[t] = NoCall

Close ==
  /\ Ended
  /\ turn' = "closing"
  /\ Flush
  /\ UNCHANGED <<clientVars, actorVars, timerVars, new, slots, ghostVars>>

\* Those who wrote since the store was opened know their writes to be saved; what
\* was found in the file may still have to be synced.
CloseEnds ==
  /\ turn = "closing"
  /\ main' = SyncedMain
  /\ promised' = Told({wrote[t] : t \in Threads})
  /\ ProcessEnds(Len(history))
  /\ UNCHANGED <<new, crashes>>

close_and_destroy ==
  /\ Ended
  /\ turn' = "unlinkNew"
  /\ Flush
  /\ UNCHANGED <<clientVars, actorVars, timerVars, new, slots, ghostVars>>

\* destroy: first the new file, lest it becomes the main one.
UnlinkNew ==
  /\ turn = "unlinkNew" /\ turn' = "unlinkMain"
  /\ new' = NoFile
  /\ UNCHANGED <<clientVars, actorVars, timerVars, main, buffer, needSync, slots,
                 ghostVars>>

UnlinkMain ==
  /\ turn = "unlinkMain"
  /\ main' = NoFile
  /\ ProcessEnds(0)
  /\ promised' = 0
  /\ UNCHANGED <<new, crashes>>

-----------------------------------------------------------------------------

Reindex == OpenNew \/ OpenFails \/ WriteNew \/ Barrier \/ UnlinkOld \/ RenameNew

Actor ==
  \/ \E e \in waiting : Drain(e)
  \/ DrainEnds \/ SyncEnds \/ Reindex
  \/ CloseEnds \/ UnlinkNew \/ UnlinkMain

Deliver(t) == DeliverEvent(t) \/ DeliverSync(t)

Next ==
  \/ init \/ Kill \/ PowerLoss \/ Close \/ close_and_destroy
  \/ Actor \/ timeout_expired \/ ForceFlush
  \/ \E t \in Threads : \/ ForceSync(t) \/ Deliver(t)
                        \/ \E k \in Keys, v \in Values \cup {NoVal} : Write(t, k, v)

Spec == Init /\ [][Next]_vars

\* The actor finishes what it has begun, takes what is sent, and its timer fires.
FairSpec ==
  /\ Spec
  /\ WF_vars(Actor \/ timeout_expired)
  /\ \A t \in Threads : WF_vars(Deliver(t))

-----------------------------------------------------------------------------
(* Properties.                                                             *)

\* The processor never meets an event it refuses (the process would abort):
\* neither while it runs, where the events of two threads arrive out of order,
\* nor in any file that a crash can leave.
NeverFatal == turn # "fatal"

\* The map is at any time, and after any crash, what the writes that were not
\* lost make of it; above all a file that was replaced, cut or torn is never
\* read as some mixture of them.
MapIsWrites ==
  turn \notin {"off", "fatal"} =>
    \A k \in Keys : map[k].val = Store!ValueAt(history, Len(history), k)

\* The files keep the promises of the map they implement: a promise is kept only
\* when the write and all before it survive a crash, and a crash, also one in
\* the middle of do_reindex or of destroy, loses only the newest writes.
Implements == Store!Spec

\* A sync that a thread has asked for is done, unless the process ends: no early
\* event, no pending flush and no lazy sync leaves its timer unset.
SyncsEnd ==
  (immediate # {} \/ syncPromises # {}) ~> (immediate = {} /\ syncPromises = {})
=============================================================================
