---------------------------- MODULE SegmentPipeline ----------------------------
(***************************************************************************)
(* What becomes of a recorded segment: the recorder loop of startRecord,   *)
(* the upload coroutine sendVideo starts for each segment, and the         *)
(* finalizer that stop() launches for the last one.  They run on different *)
(* threads and share the files on disk, the tile flags and three fields of *)
(* the activity without a lock.                                            *)
(*                                                                         *)
(* A session is one period of isActive.  Activities follow one another: a  *)
(* destroyed one takes its recorder loops with it, while its started       *)
(* uploads and its finalizer, which runs in a static scope, go on and keep *)
(* using its fields.  (Module Session has the activities that overlap and  *)
(* the two loops of one session.)                                          *)
(***************************************************************************)
EXTENDS Naturals, FiniteSets

CONSTANTS
  MaxSessions,   \* bound: sessions started
  MaxFiles,      \* bound: segment files created
  MaxActivities, \* bound: activities created one after another
  Dests,         \* destinations the user's tiles can switch on
  Failures       \* what may fail

(* A failure is of the network; of the account (nobody logged in, no       *)
(* contact selected or to be reached); of the copy to the gallery; of the  *)
(* camera; or a file that stays too short.                                 *)
AllDests    == {"group", "contacts", "gallery"}
AllFailures == {"network", "account", "copy", "camera", "short"}

ASSUME PipelineAssumption ==
  /\ MaxSessions \in Nat /\ MaxFiles \in Nat
  /\ MaxActivities \in Nat \ {0}
  /\ Dests \subseteq AllDests
  /\ Failures \subseteq AllFailures

Sessions   == 1 .. MaxSessions
Files      == 1 .. MaxFiles       \* in the order of their creation
Activities == 1 .. MaxActivities  \* in the order of their creation
NoFile     == 0
ByRecorder == 0                   \* instead of the session of a finalizer

VARIABLES
  (* process *)
  active,     \* isActive
  n,          \* sessions started so far; the running one is session n
  act,        \* the activity that is not destroyed
  starting,   \* a start() waits for its surface or its access check
  (* fields of an activity *)
  flags,      \* the destinations whose tile flag is set
  finalizing, \* isFinalizingLastSegment
  cur,        \* currentSegmentFile
  segRec,     \* isSegmentRecordingActive
  camera,     \* the file its camera records into
  (* coroutines of a session *)
  owner,      \* the activity that started it
  loop,       \* its recorder loop: [at, file, after]
  fin,        \* its finalizer: [at, file]
  (* files *)
  disk,       \* "absent", "open", "done", "short" (<= 1000 bytes), "deleted"
  of,         \* the session that recorded the file
  jobs,       \* runs of sendVideo and sendVideoNow that have started or will
  sent,       \* file -> destination -> times it was handed over
  lastSent,   \* KEY_LAST_SENT_FILE_NAME
  (* history, read by properties only *)
  wanted,     \* destinations on since recording began, but for the stop
  kept,       \* files an upload left on disk for the gallery's sake
  failed,     \* file -> destinations to which its hand-over failed
  took,       \* session -> the file its finalizer sent
  again,      \* finalizers during whose work a tile was switched on again
  hurried,    \* activities that started a session before the last was done
  dropped     \* files whose upload or recording a destruction cut short

fieldVars   == <<flags, finalizing, cur, segRec, camera>>
sessionVars == <<active, n, act, starting, owner>>
haltVars    == <<hurried, dropped>>
againVars   == <<took, again>>
historyVars == <<wanted, kept, failed, againVars, haltVars>>
fileVars    == <<disk, of, historyVars>>
sendVars    == <<jobs, sent, lastSent>>
vars == <<sessionVars, fieldVars, fileVars, sendVars, loop, fin>>

-----------------------------------------------------------------------------
LoopStates == {"none", "prepare", "head", "begin", "record", "settle"}
FinStates  == {"none", "launched", "waiting", "chosen", "sending"}
Stages     == {"launched", "group", "contacts", "delete"}

Job == [by : {ByRecorder} \cup Sessions, act : Activities, file : Files,
        stage : Stages, saved : BOOLEAN]

NoLoop == [at |-> "none", file |-> NoFile, after |-> {}]

TypeOK ==
  /\ active \in BOOLEAN
  /\ n \in 0 .. MaxSessions
  /\ act \in Activities
  /\ starting \in BOOLEAN
  /\ flags \in [Activities -> SUBSET Dests]
  /\ finalizing \in [Activities -> BOOLEAN]
  /\ cur \in [Activities -> Files \cup {NoFile}]
  /\ segRec \in [Activities -> BOOLEAN]
  /\ camera \in [Activities -> Files \cup {NoFile}]
  /\ owner \in [Sessions -> Activities]
  /\ loop \in [Sessions -> [at : LoopStates, file : Files \cup {NoFile},
                          after : SUBSET Sessions]]
  /\ fin \in [Sessions -> [at : FinStates, file : Files \cup {NoFile}]]
  /\ disk \in [Files -> {"absent", "open", "done", "short", "deleted"}]
  /\ of \in [Files -> Sessions \cup {0}]
  /\ jobs \subseteq Job
  /\ sent \in [Files -> [AllDests -> Nat]]
  /\ lastSent \in Files \cup {NoFile}
  /\ wanted \in [Files -> SUBSET Dests]
  /\ kept \subseteq Files
  /\ failed \in [Files -> SUBSET Dests]
  /\ took \in [Sessions -> Files \cup {NoFile}]
  /\ again \subseteq Sessions
  /\ hurried \subseteq Activities
  /\ dropped \subseteq Files

Init ==
  /\ active = FALSE
  /\ n = 0
  /\ act = 1
  /\ starting = FALSE
  /\ flags      = [a \in Activities |-> {}]
  /\ finalizing = [a \in Activities |-> FALSE]
  /\ cur        = [a \in Activities |-> NoFile]
  /\ segRec     = [a \in Activities |-> FALSE]
  /\ camera     = [a \in Activities |-> NoFile]
  /\ owner = [s \in Sessions |-> 1]
  /\ loop  = [s \in Sessions |-> NoLoop]
  /\ fin   = [s \in Sessions |-> [at |-> "none", file |-> NoFile]]
  /\ disk = [f \in Files |-> "absent"]
  /\ of   = [f \in Files |-> 0]
  /\ jobs = {}
  /\ sent = [f \in Files |-> [d \in AllDests |-> 0]]
  /\ lastSent = NoFile
  /\ wanted = [f \in Files |-> {}]
  /\ kept = {}
  /\ failed = [f \in Files |-> {}]
  /\ took = [s \in Sessions |-> NoFile]
  /\ again = {} /\ hurried = {} /\ dropped = {}

-----------------------------------------------------------------------------
(* Helpers.                                                                *)

Exists(f) == f # NoFile /\ disk[f] \in {"open", "done", "short"}
Valid(f)  == f # NoFile /\ disk[f] \in {"open", "done"}

OnDisk == {f \in Files : Exists(f)}
(* tryFindLatestSegmentFile(): the newest segment on disk.                 *)
Newest == IF OnDisk = {} THEN NoFile
          ELSE CHOOSE f \in OnDisk : \A g \in OnDisk : g <= f

(* stopRecord() of activity a's camera: the file is closed, unless someone *)
(* deleted it; a file stopped at once has no key frame and stays short.    *)
stopRecord(a) ==
  LET f == camera[a] IN
  /\ camera' = [camera EXCEPT ![a] = NoFile]
  /\ IF f # NoFile /\ disk[f] = "open"
       THEN \E size \in {"done"} \cup ({"short"} \cap Failures) :
              disk' = [disk EXCEPT ![f] = size]
       ELSE UNCHANGED disk

(* Finalizers that will be done in less than 6 s: those that have not      *)
(* chosen, and those that find every tile off and have nothing to send.    *)
Choosing ==
  {s \in Sessions : \/ fin[s].at \in {"launched", "waiting", "chosen"}
                    \/ fin[s].at = "sending" /\ flags[owner[s]] = {}}

Go(s, at, f) == loop' = [loop EXCEPT ![s] = [at |-> at, file |-> f, after |->
                           IF at = "record" THEN Choosing ELSE {}]]
Fin(s, at, f) == fin' = [fin EXCEPT ![s] = [at |-> at, file |-> f]]

-----------------------------------------------------------------------------
(* Starting and stopping.                                                  *)

(* Variant of stop: the tile flags stay as they are.                       *)
stopKeepingTiles ==
  /\ active' = FALSE
  /\ IF finalizing[act] THEN UNCHANGED fin ELSE Fin(n, "launched", NoFile)
  /\ stopRecord(act)
  /\ UNCHANGED flags

(* stop() of the active session n by activity act: the finalizer is        *)
(* launched, the camera stopped and the tile flags cleared.                *)
stop ==
  /\ active' = FALSE
  /\ IF finalizing[act] THEN UNCHANGED fin ELSE Fin(n, "launched", NoFile)
  /\ stopRecord(act)
  /\ flags' = [flags EXCEPT ![act] = {}]

(* Coroutines that were launched have begun: the user's next tap is slower.*)
Dispatched ==
  /\ \A s \in Sessions : fin[s].at # "launched"
  /\ \A j \in jobs : j.stage # "launched"

(* handleTileToggle: the first tile starts, the last one stops.            *)
Toggled(d) == IF d \in flags[act] THEN flags[act] \ {d} ELSE flags[act] \cup {d}

(* A tile switched on is seen by the activity's finalizers at work.        *)
SeenByFinalizers(d) ==
  again' = IF d \in Toggled(d)
           THEN again \cup {s \in Sessions : owner[s] = act /\ fin[s].at # "none"}
           ELSE again

TileStarts(d) ==
  /\ ~active /\ Toggled(d) # {}
  /\ n < MaxSessions /\ Dispatched
  /\ flags' = [flags EXCEPT ![act] = Toggled(d)]
  /\ starting' = TRUE
  /\ SeenByFinalizers(d)
  /\ hurried' = IF \E s \in Sessions : /\ owner[s] = act
                                       /\ fin[s].at # "none" \/ loop[s].at # "none"
                THEN hurried \cup {act} ELSE hurried
  /\ UNCHANGED <<active, n, act, owner, finalizing, cur, segRec, camera>>
  /\ UNCHANGED <<disk, of, wanted, kept, failed, took, dropped, sendVars, loop, fin>>

TileChanges(d) ==
  /\ (Toggled(d) # {}) = active
  /\ flags' = [flags EXCEPT ![act] = Toggled(d)]
  /\ wanted' = [f \in Files |-> IF of[f] = n THEN wanted[f] \cap Toggled(d)
                                             ELSE wanted[f]]
  /\ SeenByFinalizers(d)
  /\ UNCHANGED <<finalizing, cur, segRec, camera, disk, of, kept, failed, took, haltVars>>
  /\ UNCHANGED <<sessionVars, sendVars, loop, fin>>

TileStops(d) ==
  /\ active /\ Toggled(d) = {}
  /\ stop
  /\ UNCHANGED <<n, act, starting, owner, finalizing, cur, segRec, of, historyVars>>
  /\ UNCHANGED <<sendVars, loop>>

(* stop_and_close of a button or of the one-hour job.                      *)
StopPressed ==
  /\ active
  /\ stop
  /\ UNCHANGED <<n, act, starting, owner, finalizing, cur, segRec, of, historyVars>>
  /\ UNCHANGED <<sendVars, loop>>

(* Variant of startAfterAccessCheck: the flag of a finalizer still at work *)
(* is not reset.                                                           *)
startKeepingFlag ==
  /\ starting /\ n < MaxSessions
  /\ starting' = FALSE
  /\ active' = TRUE
  /\ n' = n + 1
  /\ owner' = [owner EXCEPT ![n + 1] = act]
  /\ Go(n + 1, "prepare", NoFile)
  /\ UNCHANGED <<act, fieldVars, fileVars, sendVars, fin>>

(* startAfterAccessCheck() and the launch of startRecord.                  *)
startAfterAccessCheck ==
  /\ starting /\ n < MaxSessions
  /\ starting' = FALSE
  /\ active' = TRUE
  /\ n' = n + 1
  /\ owner' = [owner EXCEPT ![n + 1] = act]
  /\ finalizing' = [finalizing EXCEPT ![act] = FALSE]
  /\ Go(n + 1, "prepare", NoFile)
  /\ UNCHANGED <<act, flags, cur, segRec, camera>>
  /\ UNCHANGED <<fileVars, sendVars, fin>>

AccessRefused ==
  /\ starting
  /\ starting' = FALSE
  /\ UNCHANGED <<active, n, act, owner>>
  /\ UNCHANGED <<fieldVars, fileVars, sendVars, loop, fin>>

(* The recordings of activity a that no finalizer has or will look for.    *)
Unattended(a) ==
  {loop[s].file : s \in {r \in Sessions :
     /\ owner[r] = a /\ loop[r].at \in {"record", "settle"}
     /\ \A q \in Sessions : /\ fin'[q].at \notin {"launched", "waiting"}
                             /\ fin'[q].file # loop[r].file}}

(* onDestroy stops an active session and cancels the activity's scope: its *)
(* loops run their finally blocks, uploads that have not begun are dropped.*)
onDestroy ==
  /\ act < MaxActivities
  /\ act' = act + 1
  /\ starting' = FALSE
  /\ IF active THEN stop
     ELSE stopRecord(act) /\ UNCHANGED <<active, fin, flags>>
  /\ loop' = [s \in Sessions |-> IF owner[s] = act
                                    THEN NoLoop ELSE loop[s]]
  /\ jobs' = {j \in jobs : ~(j.act = act /\ j.by = ByRecorder
                             /\ j.stage = "launched")}
  /\ dropped' = dropped \cup {j.file : j \in jobs \ jobs'} \cup Unattended(act)
  /\ UNCHANGED <<n, owner, finalizing, cur, segRec, of, wanted, kept, failed>>
  /\ UNCHANGED <<againVars, hurried>>
  /\ UNCHANGED <<sent, lastSent>>

-----------------------------------------------------------------------------
(* The recorder loop of session s.                                         *)

(* Preparing takes a second; a waiting finalizer sees a finished newest    *)
(* file, and settles on it, within 800 ms of the stop.                     *)
RecorderPrepared(s) ==
  /\ loop[s].at = "prepare"
  /\ ~ \E r \in Sessions : fin[r].at = "waiting" /\ Newest # NoFile
                           /\ disk[Newest] = "done"
  /\ Go(s, "head", NoFile)
  /\ UNCHANGED <<sessionVars, fieldVars, fileVars, sendVars, fin>>

(* while (isActive): the next file is named, the encoder prepared again.   *)
SegmentPrepared(s) ==
  /\ loop[s].at = "head" /\ active
  /\ \E f \in Files : /\ of[f] = 0
                      /\ \A g \in Files : g < f => of[g] # 0
                      /\ of' = [of EXCEPT ![f] = s]
                      /\ Go(s, "begin", f)
  /\ UNCHANGED <<disk, historyVars>>
  /\ UNCHANGED <<sessionVars, fieldVars, sendVars, fin>>

RecorderExits(s) ==
  /\ loop[s].at = "head" /\ ~active
  /\ Go(s, "none", NoFile)
  /\ stopRecord(owner[s])
  /\ UNCHANGED <<flags, finalizing, cur, segRec, of, historyVars>>
  /\ UNCHANGED <<sessionVars, sendVars, fin>>

(* isActive is not looked at again before recording begins.                *)
SegmentBegins(s) ==
  LET a == owner[s] f == loop[s].file IN
  /\ loop[s].at = "begin"
  /\ camera[a] = NoFile
  /\ cur' = [cur EXCEPT ![a] = f]
  /\ segRec' = [segRec EXCEPT ![a] = TRUE]
  /\ camera' = [camera EXCEPT ![a] = f]
  /\ disk' = [disk EXCEPT ![f] = "open"]
  /\ wanted' = [wanted EXCEPT ![f] = IF active /\ n = s THEN flags[a] ELSE {}]
  /\ Go(s, "record", f)
  /\ UNCHANGED <<flags, finalizing, of, kept, failed, againVars, haltVars>>
  /\ UNCHANGED <<sessionVars, sendVars, fin>>

(* The camera throws, or another loop still records with it: after 2 s the *)
(* loop tries again, and the two fields keep what was set before the call. *)
SegmentFails(s) ==
  LET a == owner[s] IN
  /\ loop[s].at = "begin"
  /\ "camera" \in Failures \/ camera[a] # NoFile
  /\ cur' = [cur EXCEPT ![a] = loop[s].file]
  /\ segRec' = [segRec EXCEPT ![a] = TRUE]
  /\ Go(s, "head", NoFile)
  /\ UNCHANGED <<flags, finalizing, camera>>
  /\ UNCHANGED <<sessionVars, fileVars, sendVars, fin>>

(* The segment's time, at least 10 s, is over: a finalizer that was there  *)
(* when it began has chosen, one launched since has begun.                 *)
SegmentEnds(s) ==
  LET a == owner[s] IN
  /\ loop[s].at = "record"
  /\ loop[s].after \cap Choosing = {}
  /\ \A r \in Sessions : fin[r].at # "launched"
  /\ stopRecord(a)
  /\ segRec' = [segRec EXCEPT ![a] = FALSE]
  /\ Go(s, "settle", loop[s].file)
  /\ UNCHANGED <<flags, finalizing, cur, of, historyVars>>
  /\ UNCHANGED <<sessionVars, sendVars, fin>>

(* Variant of SendLater: each upload gets a number of its own.             *)
SendLaterNumbered(s) ==
  jobs' = jobs \cup {[by |-> MaxSessions + loop[s].file, act |-> owner[s],
                      file |-> loop[s].file, stage |-> "launched",
                      saved |-> FALSE]}

SendLater(s) ==
  jobs' = jobs \cup {[by |-> ByRecorder, act |-> owner[s],
                      file |-> loop[s].file, stage |-> "launched",
                      saved |-> FALSE]}

(* Variant of SegmentSettles: the loop clears away what it is done with.   *)
SegmentSettlesCleaning(s) ==
  LET a == owner[s] f == loop[s].file IN
  /\ loop[s].at = "settle"
  /\ IF Valid(f) /\ ~finalizing[a] THEN SendLater(s) ELSE UNCHANGED jobs
  /\ disk' = IF Exists(f) THEN [disk EXCEPT ![f] = "deleted"] ELSE disk
  /\ cur' = [cur EXCEPT ![a] = NoFile]
  /\ Go(s, "head", NoFile)
  /\ UNCHANGED <<flags, finalizing, segRec, camera, of, historyVars>>
  /\ UNCHANGED <<sessionVars, sent, lastSent, fin>>

(* Variant of SegmentSettles: a loop whose session was stopped leaves.     *)
SegmentSettlesIfActive(s) ==
  LET a == owner[s] f == loop[s].file IN
  /\ loop[s].at = "settle"
  /\ \/ /\ Valid(f) /\ ~finalizing[a] /\ active
        /\ SendLater(s)
        /\ UNCHANGED disk
     \/ /\ ~(Valid(f) /\ ~finalizing[a] /\ active)
        /\ UNCHANGED <<jobs, disk>>
  /\ cur' = [cur EXCEPT ![a] = NoFile]
  /\ Go(s, "head", NoFile)
  /\ UNCHANGED <<flags, finalizing, segRec, camera, of, historyVars>>
  /\ UNCHANGED <<sessionVars, sent, lastSent, fin>>

(* 1500 ms later: sendVideo is launched for a valid file, unless a         *)
(* finalizer is at work; a short file is deleted.                          *)
SegmentSettles(s) ==
  LET a == owner[s] f == loop[s].file IN
  /\ loop[s].at = "settle"
  /\ \/ /\ Valid(f) /\ ~finalizing[a]
        /\ SendLater(s)
        /\ UNCHANGED disk
     \/ /\ Valid(f) /\ finalizing[a]
        /\ UNCHANGED <<jobs, disk>>
     \/ /\ ~Valid(f)
        /\ disk' = IF Exists(f) THEN [disk EXCEPT ![f] = "deleted"] ELSE disk
        /\ UNCHANGED jobs
  /\ cur' = [cur EXCEPT ![a] = NoFile]
  /\ Go(s, "head", NoFile)
  /\ UNCHANGED <<flags, finalizing, segRec, camera, of, historyVars>>
  /\ UNCHANGED <<sessionVars, sent, lastSent, fin>>

-----------------------------------------------------------------------------
(* finalizeAndSendLastSegment() for session s.                             *)

(* The current file, or the newest one when nothing is recorded.           *)
FinalizerBegins(s) ==
  LET a    == owner[s]
      last == IF cur[a] # NoFile THEN cur[a]
              ELSE IF segRec[a] THEN NoFile ELSE Newest
  IN
  /\ fin[s].at = "launched"
  /\ \/ /\ last = NoFile
        /\ Fin(s, "none", NoFile)
        /\ finalizing' = [finalizing EXCEPT ![a] = FALSE]
        /\ UNCHANGED <<segRec, camera, disk>>
     \/ /\ last # NoFile
        /\ Fin(s, "waiting", last)
        /\ finalizing' = [finalizing EXCEPT ![a] = TRUE]
        /\ segRec' = [segRec EXCEPT ![a] = FALSE]
        /\ IF segRec[a] THEN stopRecord(a) ELSE UNCHANGED <<camera, disk>>
  /\ UNCHANGED <<flags, cur, of, historyVars>>
  /\ UNCHANGED <<sessionVars, sendVars, loop>>

(* Up to 5 s it looks for the newest file, whoever wrote it, and keeps the *)
(* first that no longer grows, or at the deadline the last that was valid. *)
FinalizerChooses(s) ==
  /\ fin[s].at = "waiting"
  /\ Fin(s, "chosen", IF Valid(Newest) THEN Newest ELSE fin[s].file)
  /\ UNCHANGED <<sessionVars, fieldVars, fileVars, sendVars, loop>>

(* Variant of FinalizerLeaves: a finally block that forgets the flag.      *)
FinalizerLeavesFlag(s) ==
  /\ Fin(s, "none", NoFile)
  /\ cur' = [cur EXCEPT ![owner[s]] = NoFile]
  /\ UNCHANGED finalizing

FinalizerLeaves(s) ==
  /\ Fin(s, "none", NoFile)
  /\ cur' = [cur EXCEPT ![owner[s]] = NoFile]
  /\ finalizing' = [finalizing EXCEPT ![owner[s]] = FALSE]

(* Half a second later a valid file that is not the last one it sent goes  *)
(* through the stages of sendVideoNow.                                     *)
FinalizerSends(s) ==
  LET f == fin[s].file IN
  /\ fin[s].at = "chosen"
  /\ \/ /\ Valid(f) /\ f # lastSent
        /\ lastSent' = f
        /\ took' = [took EXCEPT ![s] = f]
        /\ jobs' = jobs \cup {[by |-> s, act |-> owner[s], file |-> f,
                               stage |-> "launched", saved |-> FALSE]}
        /\ Fin(s, "sending", f)
        /\ UNCHANGED <<cur, finalizing>>
     \/ /\ ~(Valid(f) /\ f # lastSent)
        /\ FinalizerLeaves(s)
        /\ UNCHANGED <<jobs, lastSent, took>>
  /\ UNCHANGED <<flags, segRec, camera, sent, disk, of>>
  /\ UNCHANGED <<wanted, kept, failed, again, haltVars>>
  /\ UNCHANGED <<sessionVars, loop>>

-----------------------------------------------------------------------------
(* The stages of sendVideo and sendVideoNow.                               *)

HandOver(f, d) == sent' = [sent EXCEPT ![f][d] = @ + 1]

Advance(j, stage, saved) ==
  jobs' = (jobs \ {j}) \cup {[j EXCEPT !.stage = stage, !.saved = saved]}

(* The hand-over of an upload's file to d, if d is on now: a failure is    *)
(* caught and logged, and nothing tries again.                             *)
Deliver(j, d, reasons) ==
  LET on == d \in flags[j.act] IN
  \/ on /\ Exists(j.file) /\ HandOver(j.file, d) /\ UNCHANGED failed
  \/ /\ on /\ reasons \cap Failures # {}
     /\ failed' = [failed EXCEPT ![j.file] = @ \cup {d}]
     /\ UNCHANGED sent
  \/ ~(on /\ Exists(j.file)) /\ UNCHANGED <<sent, failed>>

(* What no stage changes.                                                  *)
stageVars ==
  <<sessionVars, fieldVars, disk, of, wanted, kept, againVars, haltVars, lastSent,
    loop, fin>>

(* The gallery flag decides the copy and whether the file is kept at the   *)
(* end, even when the copy fails.                                          *)
SaveToGallery(j) ==
  /\ j.stage = "launched"
  /\ Advance(j, "group", "gallery" \in flags[j.act])
  /\ Deliver(j, "gallery", {"copy"})
  /\ UNCHANGED stageVars

SendToGroup(j) ==
  /\ j.stage = "group"
  /\ Advance(j, "contacts", j.saved)
  /\ Deliver(j, "group", {"network"})
  /\ UNCHANGED stageVars

(* Nobody is sent anything unless someone is logged in and has selected    *)
(* contacts, and TDLib may refuse the chat or the message.  TDLib takes    *)
(* the path and will read the file later (not modelled).                   *)
SendToContacts(j) ==
  /\ j.stage = "contacts"
  /\ Advance(j, "delete", j.saved)
  /\ Deliver(j, "contacts", {"network", "account"})
  /\ UNCHANGED stageVars

Finished(j) ==
  IF j.by = ByRecorder THEN UNCHANGED <<fin, cur, finalizing>>
                       ELSE FinalizerLeaves(j.by)

(* A file that was not to be saved is deleted, sent or not.                *)
DeleteFile(j) ==
  /\ j.stage = "delete"
  /\ jobs' = jobs \ {j}
  /\ disk' = IF ~j.saved /\ Exists(j.file)
               THEN [disk EXCEPT ![j.file] = "deleted"] ELSE disk
  /\ Finished(j)
  /\ kept' = IF j.saved THEN kept \cup {j.file} ELSE kept
  /\ UNCHANGED <<flags, segRec, camera, of, wanted, failed, againVars, haltVars>>
  /\ UNCHANGED <<sessionVars, sent, lastSent, loop>>

-----------------------------------------------------------------------------
Tile(d) == TileStarts(d) \/ TileChanges(d) \/ TileStops(d)

Recorder(s) ==
  \/ RecorderPrepared(s) \/ SegmentPrepared(s) \/ SegmentBegins(s)
  \/ SegmentFails(s) \/ SegmentEnds(s) \/ SegmentSettles(s)
  \/ RecorderExits(s)

Finalizer(s) == FinalizerBegins(s) \/ FinalizerChooses(s) \/ FinalizerSends(s)

Upload(j) ==
  SaveToGallery(j) \/ SendToGroup(j) \/ SendToContacts(j) \/ DeleteFile(j)

Next ==
  \/ \E d \in Dests : Tile(d)
  \/ StopPressed \/ startAfterAccessCheck \/ AccessRefused \/ onDestroy
  \/ \E s \in Sessions : Recorder(s) \/ Finalizer(s)
  \/ \E j \in jobs : Upload(j)

Spec == Init /\ [][Next]_vars

(* Delays elapse, the dispatchers run what was launched, uploads time out. *)
Fairness ==
  /\ \A s \in Sessions : WF_vars(Recorder(s)) /\ WF_vars(Finalizer(s))
  /\ WF_vars(\E j \in jobs : Upload(j))

FairSpec == Spec /\ Fairness

-----------------------------------------------------------------------------
(* Properties.                                                             *)

Delivered(f) == {d \in Dests : sent[f][d] > 0}

(* No segment reaches a destination twice, although recorder and finalizer *)
(* may both take it for theirs, in whatever session and activity and       *)
(* whatever fails, with one exception: a finalizer sends a file a second   *)
(* time if a tile is switched on again during its work.  FIX_DUPLICATE_    *)
(* LAST_SEGMENT.md promises it "whatever the timing"; what keeps the       *)
(* promise is not its check of the last file's name but that stop() clears *)
(* the tiles.                                                              *)
NoDuplicates ==
  \A f \in Files : \A d \in Dests :
    sent[f][d] > 1 => \E s \in again : took[s] = f

(* In a session that goes on, no segment is deleted, and no upload of one  *)
(* ends, before each destination that was on all along has it or refused   *)
(* it ("each segment is sent automatically"), unless the finalizer of an   *)
(* earlier session took the file for its own: it looks for the newest file *)
(* for up to 5 s, finds the one that the new session records, asks the     *)
(* tiles of its own activity, and deletes it.                              *)
LetGo(f) == disk'[f] = "deleted" \/ \E j \in jobs \ jobs' : j.file = f /\ j.stage = "delete"

EachSegmentSent ==
  [][\A f \in Files :
       (of[f] = n /\ active /\ Valid(f) /\ LetGo(f))
         => \/ wanted[f] \subseteq Delivered(f) \cup failed[f]
            \/ \E s \in 1 .. n - 1 : took[s] = f]_vars

(* The app closes "with guaranteed sending of the last video segment": also*)
(* the segment cut short by the stop is not deleted undelivered.           *)
LastSegmentSent ==
  [][\A f \in Files :
       (Valid(f) /\ disk'[f] = "deleted")
         => wanted[f] \subseteq Delivered(f)]_vars

(* Once recorder, uploads and finalizers have come to rest, in however many*)
(* activities, each destroyed soon after its stop, no segment is left on   *)
(* disk but those that an upload kept for the gallery, and those lost in   *)
(* one of two ways: a destruction dropped the upload before it began, or   *)
(* the recording when its finalizer had looked already; or the activity's  *)
(* tiles started a session before recorder and finalizer of the last one   *)
(* were done, and a finalizer at work left one session's file for the      *)
(* other's.                                                                *)
AtRest ==
  /\ jobs = {}
  /\ \A s \in Sessions : loop[s].at = "none" /\ fin[s].at = "none"

NothingForgotten ==
  AtRest => \A f \in Files :
    Valid(f) => f \in kept \cup dropped \/ owner[of[f]] \in hurried

(* Every finalizer ends and gives the flag back, so that no later segment  *)
(* is skipped for it.                                                      *)
FinalizerReleases ==
  \A a \in Activities : finalizing[a] ~> ~finalizing[a]

(* A segment finished in a session that goes on is sent to the group, if   *)
(* the group stays switched on.                                            *)
SegmentReachesGroup ==
  \A f \in Files :
    (disk[f] = "done" /\ of[f] = n /\ active /\ "group" \in wanted[f])
      ~> (sent[f]["group"] > 0 \/ ~active \/ "group" \notin wanted[f])
=============================================================================
