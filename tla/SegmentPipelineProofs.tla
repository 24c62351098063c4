------------------------- MODULE SegmentPipelineProofs -------------------------
(***************************************************************************)
(* The types of the segment pipeline, that no segment is sent twice and    *)
(* that each is sent, for any number of sessions, activities, files and    *)
(* destinations, whatever fails.                                           *)
(*                                                                         *)
(* SessionInv says who may be at work when: a finalizer is of a session    *)
(* that was stopped, and its activity's tiles are off unless one was       *)
(* switched on again.  HandInv gives each loop the file in its hands and   *)
(* JobInv each file one upload by its recorder, once it has left them, and *)
(* each finalizer one upload of the file it took.  On these rest SentInv   *)
(* (nothing handed over twice) and DeliverInv (what the upload of a        *)
(* running session's segment has passed it has handed over, or failed to). *)
(*                                                                         *)
(* That no segment is forgotten rests on the order of delays, which the    *)
(* model checker explores; it is not proved.                               *)
(***************************************************************************)
EXTENDS SegmentPipeline, FiniteSetTheorems, WellFoundedInduction, TLAPS

-----------------------------------------------------------------------------
(* Files.                                                                  *)

LEMMA FilesAreNumbers == Files \subseteq Nat \ {0} /\ NoFile \notin Files
BY PipelineAssumption DEF Files, NoFile

(* Of some files one is the newest: of those with the fewest files above   *)
(* them, in the order of inclusion, which is well founded.                 *)
LEMMA NewestExists ==
  ASSUME NEW S \in SUBSET Files, S # {}
  PROVE  \E f \in S : \A g \in S : g <= f
<1> DEFINE Above(f) == {g \in S : g > f}
           T == {Above(f) : f \in S}
<1>1. IsFiniteSet(Files)
  <2>1. 1 \in Int /\ MaxFiles \in Int
    BY PipelineAssumption
  <2>2. IsFiniteSet(1 .. MaxFiles)
    BY <2>1, FS_Interval, Zenon
  <2> QED
    BY <2>2 DEF Files
<1>2. T \subseteq FiniteSubsetsOf(Files) /\ T # {}
  <2>1. FiniteSubsetsOf(Files) = SUBSET Files
    BY <1>1, FS_FiniteSubsetsOfFinite
  <2>2. \A f \in S : Above(f) \subseteq Files
    OBVIOUS
  <2> HIDE DEF Above
  <2> QED
    BY <2>1, <2>2
<1>3. IsWellFoundedOn(StrictSubsetOrdering(Files), FiniteSubsetsOf(Files))
  BY FS_StrictSubsetOrderingWellFounded
<1>4. PICK X \in T : \A Y \in T : ~(<<Y, X>> \in StrictSubsetOrdering(Files))
  <2> HIDE DEF T
  <2> QED BY <1>2, <1>3, WFMin
<1>5. PICK f \in S : X = Above(f)
  OBVIOUS
<1>6. Above(f) = {}
  <2> SUFFICES ASSUME NEW g \in S, g > f
               PROVE  FALSE
    OBVIOUS
  <2>1. f \in Nat /\ g \in Nat
    BY FilesAreNumbers
  <2>2. Above(g) \subseteq Above(f) /\ g \in Above(f) /\ g \notin Above(g)
    <3>1. ~(g > g) /\ \A h \in Files : h > g => h > f
      BY <2>1, FilesAreNumbers
    <3> QED
      BY <3>1
  <2>3. <<Above(g), Above(f)>> \in StrictSubsetOrdering(Files)
    <3>1. Above(g) \in SUBSET Files /\ Above(f) \in SUBSET Files
      OBVIOUS
    <3>2. Above(g) # Above(f)
      BY <2>2
    <3> HIDE DEF Above
    <3> QED
      BY <2>2, <3>1, <3>2 DEF StrictSubsetOrdering
  <2> QED
    BY <1>4, <1>5, <2>3
<1> QED
  BY <1>6, FilesAreNumbers

LEMMA NewestType ==
  /\ Newest \in Files \cup {NoFile}
  /\ \A f \in Files : Exists(f) /\ (\A g \in Files : Exists(g) => g <= f)
                        => Newest = f
<1>1. CASE OnDisk = {}
  BY <1>1 DEF Newest, OnDisk
<1>2. CASE OnDisk # {}
  <2>1. OnDisk \in SUBSET Files
    BY DEF OnDisk
  <2>2. PICK f \in OnDisk : \A g \in OnDisk : g <= f
    BY <1>2, <2>1, NewestExists
  <2>3. Newest \in OnDisk /\ \A g \in OnDisk : g <= Newest
    BY <1>2, <2>2 DEF Newest
  <2> QED
    BY <2>1, <2>3, FilesAreNumbers DEF OnDisk
<1> QED
  BY <1>1, <1>2

-----------------------------------------------------------------------------
(* Types.                                                                  *)

ProcessTypes ==
  /\ active \in BOOLEAN /\ starting \in BOOLEAN
  /\ n \in 0 .. MaxSessions
  /\ act \in Activities
  /\ owner \in [Sessions -> Activities]

FieldTypes ==
  /\ flags \in [Activities -> SUBSET Dests]
  /\ finalizing \in [Activities -> BOOLEAN]
  /\ cur \in [Activities -> Files \cup {NoFile}]
  /\ segRec \in [Activities -> BOOLEAN]
  /\ camera \in [Activities -> Files \cup {NoFile}]

CoroutineTypes ==
  /\ loop \in [Sessions -> [at : LoopStates, file : Files \cup {NoFile},
                          after : SUBSET Sessions]]
  /\ fin \in [Sessions -> [at : FinStates, file : Files \cup {NoFile}]]

FileTypes ==
  /\ disk \in [Files -> {"absent", "open", "done", "short", "deleted"}]
  /\ of \in [Files -> Sessions \cup {0}]
  /\ wanted \in [Files -> SUBSET Dests]

HistoryTypes ==
  /\ kept \subseteq Files
  /\ failed \in [Files -> SUBSET Dests]
  /\ took \in [Sessions -> Files \cup {NoFile}]
  /\ again \subseteq Sessions
  /\ hurried \subseteq Activities
  /\ dropped \subseteq Files

SendTypes ==
  /\ jobs \subseteq Job
  /\ sent \in [Files -> [AllDests -> Nat]]
  /\ lastSent \in Files \cup {NoFile}

LEMMA TypesAreTypeOK ==
  TypeOK <=> /\ ProcessTypes /\ FieldTypes /\ CoroutineTypes
             /\ FileTypes /\ HistoryTypes /\ SendTypes
BY DEF TypeOK, ProcessTypes, FieldTypes, CoroutineTypes, FileTypes, HistoryTypes,
   SendTypes

(* What the two coroutines' steps and the helpers do.                      *)
LEMMA GoType ==
  ASSUME CoroutineTypes, NEW s \in Sessions, NEW at \in LoopStates,
         NEW f \in Files \cup {NoFile}, Go(s, at, f)
  PROVE  loop' \in [Sessions -> [at : LoopStates, file : Files \cup {NoFile},
                                 after : SUBSET Sessions]]
<1>1. Choosing \subseteq Sessions
  BY DEF Choosing
<1> DEFINE new == [at |-> at, file |-> f,
                   after |-> IF at = "record" THEN Choosing ELSE {}]
<1>2. new \in [at : LoopStates, file : Files \cup {NoFile}, after : SUBSET Sessions]
  BY <1>1
<1>3. loop' = [loop EXCEPT ![s] = new]
  BY DEF Go
<1> HIDE DEF new
<1> QED
  BY <1>2, <1>3 DEF CoroutineTypes

LEMMA FinType ==
  ASSUME CoroutineTypes, NEW s, NEW at \in FinStates,
         NEW f \in Files \cup {NoFile}, Fin(s, at, f)
  PROVE  fin' \in [Sessions -> [at : FinStates, file : Files \cup {NoFile}]]
BY DEF CoroutineTypes, Fin

LEMMA StopRecordType ==
  ASSUME FieldTypes, FileTypes, NEW a, stopRecord(a)
  PROVE  /\ camera' \in [Activities -> Files \cup {NoFile}]
         /\ disk' \in [Files -> {"absent", "open", "done", "short", "deleted"}]
BY DEF FieldTypes, FileTypes, stopRecord

LEMMA StopType ==
  ASSUME TypeOK, stop
  PROVE  /\ active' \in BOOLEAN
         /\ fin' \in [Sessions -> [at : FinStates, file : Files \cup {NoFile}]]
         /\ camera' \in [Activities -> Files \cup {NoFile}]
         /\ disk' \in [Files -> {"absent", "open", "done", "short", "deleted"}]
         /\ flags' \in [Activities -> SUBSET Dests]
<1> USE TypesAreTypeOK
<1>1. "launched" \in FinStates /\ NoFile \in Files \cup {NoFile}
  BY DEF FinStates
<1>2. fin' \in [Sessions -> [at : FinStates, file : Files \cup {NoFile}]]
  BY <1>1, FinType DEF stop, CoroutineTypes
<1>3. stopRecord(act) /\ active' = FALSE /\ flags' = [flags EXCEPT ![act] = {}]
  BY DEF stop
<1> QED
  BY <1>2, <1>3, StopRecordType DEF FieldTypes

LEMMA JobTypes ==
  ASSUME TypeOK
  PROVE  /\ \A j \in jobs : \A stage \in Stages : \A b \in BOOLEAN :
              Advance(j, stage, b) => jobs' \subseteq Job
         /\ \A s \in Sessions : loop[s].file # NoFile /\ SendLater(s) =>
              jobs' \subseteq Job
         /\ \A f \in Files : \A d \in AllDests : HandOver(f, d) =>
              sent' \in [Files -> [AllDests -> Nat]]
<1> USE TypesAreTypeOK
<1>1. ASSUME NEW j \in jobs, NEW stage \in Stages, NEW b \in BOOLEAN,
             Advance(j, stage, b)
      PROVE  jobs' \subseteq Job
  BY <1>1 DEF Advance, SendTypes, Job
<1>2. ASSUME NEW s \in Sessions, loop[s].file # NoFile, SendLater(s)
      PROVE  jobs' \subseteq Job
  <2> DEFINE new == [by |-> ByRecorder, act |-> owner[s], file |-> loop[s].file,
                     stage |-> "launched", saved |-> FALSE]
  <2>1. owner[s] \in Activities /\ loop[s].file \in Files
    BY <1>2 DEF CoroutineTypes, ProcessTypes
  <2>2. new \in Job
    BY <2>1 DEF Job, Stages
  <2>3. jobs' = jobs \cup {new}
    BY <1>2 DEF SendLater
  <2> HIDE DEF new
  <2> QED
    BY <2>2, <2>3 DEF SendTypes
<1>3. ASSUME NEW f \in Files, NEW d \in AllDests, HandOver(f, d)
      PROVE  sent' \in [Files -> [AllDests -> Nat]]
  BY <1>3 DEF HandOver, SendTypes
<1> QED
  BY <1>1, <1>2, <1>3

LEMMA ProcessTypesStep == TypeOK /\ [Next]_vars => ProcessTypes'
<1> SUFFICES ASSUME TypeOK, [Next]_vars PROVE ProcessTypes'
  OBVIOUS
<1>1. ProcessTypes
  BY TypesAreTypeOK
<1> USE DEF ProcessTypes
<1>2. CASE UNCHANGED sessionVars
  BY <1>1, <1>2 DEF sessionVars
<1>3. ASSUME NEW d \in Dests, Tile(d)
      PROVE  ProcessTypes'
  BY <1>1, <1>3 DEF Tile, TileStarts, TileChanges, TileStops, stop, sessionVars
<1>4. CASE StopPressed \/ AccessRefused \/ onDestroy
  <2>1. act < MaxActivities => act + 1 \in Activities
    BY <1>1, PipelineAssumption DEF Activities
  <2> QED
    BY <1>1, <1>4, <2>1 DEF StopPressed, AccessRefused, onDestroy, stop
<1>5. CASE startAfterAccessCheck
  <2>1. n + 1 \in 0 .. MaxSessions
    BY <1>1, <1>5, PipelineAssumption DEF startAfterAccessCheck
  <2> QED
    BY <1>1, <1>5, <2>1 DEF startAfterAccessCheck
<1>6. ASSUME NEW s \in Sessions, Recorder(s) \/ Finalizer(s)
      PROVE  UNCHANGED sessionVars
  BY <1>6 DEF Recorder, Finalizer, RecorderPrepared, SegmentPrepared,
     RecorderExits, SegmentBegins, SegmentFails, SegmentEnds, SegmentSettles,
     FinalizerBegins, FinalizerChooses, FinalizerSends
<1>7. ASSUME NEW j \in jobs, Upload(j)
      PROVE  UNCHANGED sessionVars
  BY <1>7 DEF Upload, SaveToGallery, SendToGroup, SendToContacts, DeleteFile,
     stageVars
<1> QED
  BY <1>2, <1>3, <1>4, <1>5, <1>6, <1>7 DEF Next, vars

LEMMA CoroutineTypesStep == TypeOK /\ [Next]_vars => CoroutineTypes'
<1> SUFFICES ASSUME TypeOK, [Next]_vars PROVE CoroutineTypes'
  OBVIOUS
<1>1. CoroutineTypes /\ ProcessTypes
  BY TypesAreTypeOK
<1> DEFINE LoopType == [Sessions -> [at : LoopStates, file : Files \cup {NoFile},
                                     after : SUBSET Sessions]]
           FinType_ == [Sessions -> [at : FinStates, file : Files \cup {NoFile}]]
<1>g. /\ \A s \in Sessions : \A at \in LoopStates : \A f \in Files \cup {NoFile} :
           Go(s, at, f) => loop' \in LoopType
      /\ \A s : \A at \in FinStates : \A f \in Files \cup {NoFile} :
           Fin(s, at, f) => fin' \in FinType_
      /\ loop \in LoopType /\ fin \in FinType_
      /\ stop => fin' \in FinType_
      /\ NoFile \in Files \cup {NoFile}
      /\ \A s \in Sessions : /\ loop[s].file \in Files \cup {NoFile}
                             /\ fin[s].file \in Files \cup {NoFile}
  BY <1>1, GoType, FinType, StopType DEF CoroutineTypes
<1> HIDE DEF LoopType, FinType_
<1>q. CoroutineTypes' <=> loop' \in LoopType /\ fin' \in FinType_
  BY DEF CoroutineTypes, LoopType, FinType_
<1>l. LoopStates = {"none", "prepare", "head", "begin", "record", "settle"}
      /\ FinStates = {"none", "launched", "waiting", "chosen", "sending"}
  BY DEF LoopStates, FinStates
<1>2. CASE UNCHANGED <<loop, fin>>
  BY <1>2, <1>g, <1>q
<1>3. ASSUME NEW d \in Dests, Tile(d)
      PROVE  CoroutineTypes'
  BY <1>3, <1>g, <1>q DEF Tile, TileStarts, TileChanges, TileStops
<1>4. CASE StopPressed \/ AccessRefused
  BY <1>4, <1>g, <1>q DEF StopPressed, AccessRefused
<1>5. CASE onDestroy
  <2>1. loop' \in LoopType
    BY <1>1, <1>5 DEF onDestroy, LoopType, CoroutineTypes, NoLoop, LoopStates
  <2> QED
    BY <1>5, <2>1, <1>g, <1>q DEF onDestroy
<1>6. CASE startAfterAccessCheck
  <2>1. n + 1 \in Sessions
    BY <1>1, <1>6, PipelineAssumption
    DEF startAfterAccessCheck, ProcessTypes, Sessions
  <2> QED
    BY <1>6, <2>1, <1>g, <1>q, <1>l DEF startAfterAccessCheck
<1>7. ASSUME NEW s \in Sessions, Recorder(s)
      PROVE  CoroutineTypes'
  BY <1>7, <1>g, <1>q, <1>l DEF Recorder, RecorderPrepared, SegmentPrepared,
     RecorderExits, SegmentBegins, SegmentFails, SegmentEnds, SegmentSettles
<1>8. ASSUME NEW s \in Sessions, Finalizer(s)
      PROVE  CoroutineTypes'
  <2>1. cur[owner[s]] \in Files \cup {NoFile} /\ Newest \in Files \cup {NoFile}
    BY NewestType, TypesAreTypeOK DEF FieldTypes, ProcessTypes
  <2>2. CASE FinalizerBegins(s)
    <3>1. \E f \in Files \cup {NoFile} : Fin(s, "none", NoFile) \/ Fin(s, "waiting", f)
      BY <2>1, <2>2, <1>g DEF FinalizerBegins
    <3> QED
      BY <2>2, <3>1, <1>g, <1>q, <1>l DEF FinalizerBegins
  <2>3. CASE FinalizerChooses(s) \/ FinalizerSends(s)
    BY <2>1, <2>3, <1>g, <1>q, <1>l DEF FinalizerChooses, FinalizerSends,
       FinalizerLeaves
  <2> QED
    BY <1>8, <2>2, <2>3 DEF Finalizer
<1>9. ASSUME NEW j \in jobs, Upload(j)
      PROVE  CoroutineTypes'
  BY <1>9, <1>g, <1>q, <1>l DEF Upload, SaveToGallery, SendToGroup,
     SendToContacts, DeleteFile, Finished, FinalizerLeaves, stageVars
<1> QED
  BY <1>2, <1>3, <1>4, <1>5, <1>6, <1>7, <1>8, <1>9 DEF Next, vars

LEMMA FieldTypesStep == TypeOK /\ [Next]_vars => FieldTypes'
<1> SUFFICES ASSUME TypeOK, [Next]_vars PROVE FieldTypes'
  OBVIOUS
<1>1. FieldTypes /\ ProcessTypes /\ FileTypes /\ CoroutineTypes
  BY TypesAreTypeOK
<1>n. NoFile \in Files \cup {NoFile}
  OBVIOUS
<1>2. CASE UNCHANGED fieldVars
  BY <1>1, <1>2 DEF fieldVars, FieldTypes
<1>3. CASE \E d \in Dests : TileStarts(d) \/ TileChanges(d)
  BY <1>1, <1>3 DEF TileStarts, TileChanges, Toggled, FieldTypes
<1>4. CASE (\E d \in Dests : TileStops(d)) \/ StopPressed \/ onDestroy
  BY <1>1, <1>4, StopType, StopRecordType DEF TileStops, StopPressed, onDestroy,
     FieldTypes
<1>5. CASE startAfterAccessCheck
  BY <1>1, <1>5 DEF startAfterAccessCheck, FieldTypes
<1>6. ASSUME NEW s \in Sessions, Recorder(s)
      PROVE  FieldTypes'
  <2>1. loop[s].file \in Files \cup {NoFile}
    BY <1>1 DEF CoroutineTypes
  <2>2. CASE RecorderPrepared(s) \/ SegmentPrepared(s)
    BY <1>2, <2>2 DEF RecorderPrepared, SegmentPrepared
  <2>3. CASE SegmentBegins(s) \/ SegmentFails(s) \/ SegmentSettles(s)
    BY <1>1, <1>n, <2>1, <2>3 DEF SegmentBegins, SegmentFails, SegmentSettles,
       FieldTypes
  <2>4. CASE SegmentEnds(s) \/ RecorderExits(s)
    BY <1>1, <2>4, StopRecordType DEF SegmentEnds, RecorderExits, FieldTypes
  <2> QED
    BY <1>6, <2>2, <2>3, <2>4 DEF Recorder
<1>7. ASSUME NEW s \in Sessions, Finalizer(s)
      PROVE  FieldTypes'
  <2>1. CASE FinalizerBegins(s)
    BY <1>1, <2>1, StopRecordType DEF FinalizerBegins, FieldTypes
  <2>2. CASE FinalizerChooses(s) \/ FinalizerSends(s)
    BY <1>1, <1>n, <2>2 DEF FinalizerChooses, FinalizerSends, FinalizerLeaves,
       FieldTypes, fieldVars
  <2> QED
    BY <1>7, <2>1, <2>2 DEF Finalizer
<1>8. ASSUME NEW j \in jobs, Upload(j)
      PROVE  FieldTypes'
  <2>1. CASE DeleteFile(j)
    BY <1>1, <1>n, <2>1 DEF DeleteFile, Finished, FinalizerLeaves, FieldTypes
  <2> QED
    BY <1>2, <1>8, <2>1 DEF Upload, SaveToGallery, SendToGroup, SendToContacts,
       stageVars
<1>9. CASE AccessRefused
  BY <1>2, <1>9 DEF AccessRefused
<1> QED
  BY <1>2, <1>3, <1>4, <1>5, <1>6, <1>7, <1>8, <1>9 DEF Next, vars, Tile

LEMMA FileTypesStep == TypeOK /\ [Next]_vars => FileTypes'
<1> SUFFICES ASSUME TypeOK, [Next]_vars PROVE FileTypes'
  OBVIOUS
<1>1. FieldTypes /\ ProcessTypes /\ FileTypes /\ CoroutineTypes /\ SendTypes
  BY TypesAreTypeOK
<1>2. CASE UNCHANGED <<disk, of, wanted>>
  BY <1>1, <1>2 DEF FileTypes
<1>3. ASSUME NEW d \in Dests, TileStarts(d) \/ TileChanges(d)
      PROVE  FileTypes'
  BY <1>1, <1>3 DEF TileStarts, TileChanges, FileTypes
<1>4. CASE (\E d \in Dests : TileStops(d)) \/ StopPressed \/ onDestroy
  BY <1>1, <1>4, StopType, StopRecordType DEF TileStops, StopPressed, onDestroy,
     FileTypes, historyVars
<1>5. CASE startAfterAccessCheck \/ AccessRefused
  BY <1>2, <1>5 DEF startAfterAccessCheck, AccessRefused, fileVars, historyVars
<1>6. ASSUME NEW s \in Sessions, Recorder(s)
      PROVE  FileTypes'
  <2>1. CASE RecorderPrepared(s) \/ SegmentFails(s)
    BY <1>2, <2>1 DEF RecorderPrepared, SegmentFails, fileVars, historyVars
  <2>2. CASE SegmentPrepared(s)
    BY <1>1, <2>2 DEF SegmentPrepared, FileTypes, historyVars
  <2>3. CASE SegmentBegins(s)
    <3>1. flags[owner[s]] \subseteq Dests
      BY <1>1 DEF FieldTypes, ProcessTypes
    <3> QED
      BY <1>1, <2>3, <3>1 DEF SegmentBegins, FileTypes
  <2>4. CASE SegmentEnds(s) \/ RecorderExits(s)
    BY <1>1, <2>4, StopRecordType DEF SegmentEnds, RecorderExits, FileTypes,
       historyVars
  <2>5. CASE SegmentSettles(s)
    BY <1>1, <2>5 DEF SegmentSettles, FileTypes, historyVars
  <2> QED
    BY <1>6, <2>1, <2>2, <2>3, <2>4, <2>5 DEF Recorder
<1>7. ASSUME NEW s \in Sessions, Finalizer(s)
      PROVE  FileTypes'
  <2>1. CASE FinalizerBegins(s)
    BY <1>1, <2>1, StopRecordType DEF FinalizerBegins, FileTypes, historyVars
  <2>2. CASE FinalizerChooses(s) \/ FinalizerSends(s)
    BY <1>2, <2>2 DEF FinalizerChooses, FinalizerSends, fileVars, historyVars
  <2> QED
    BY <1>7, <2>1, <2>2 DEF Finalizer
<1>8. ASSUME NEW j \in jobs, Upload(j)
      PROVE  FileTypes'
  <2>1. CASE DeleteFile(j)
    BY <1>1, <2>1 DEF DeleteFile, FileTypes, SendTypes, Job
  <2> QED
    BY <1>2, <1>8, <2>1 DEF Upload, SaveToGallery, SendToGroup, SendToContacts,
       stageVars
<1> QED
  BY <1>2, <1>3, <1>4, <1>5, <1>6, <1>7, <1>8
  DEF Next, vars, Tile, fileVars, historyVars

(* A loop has a file in hand from its naming until it has settled.         *)
InHand(s) == loop[s].at \in {"begin", "record", "settle"}

HandFiles == \A s \in Sessions : InHand(s) => loop[s].file \in Files

(* What a step does to a loop: nothing, take it to where it has no file in *)
(* hand, give it a new file, or take it on with the file it has.           *)
LoopStep(s) ==
  \/ loop'[s] = loop[s]
  \/ loop'[s].at \in {"none", "prepare", "head"}
  \/ SegmentPrepared(s)
  \/ InHand(s) /\ InHand(s)' /\ loop'[s].file = loop[s].file

LEMMA GoGoes ==
  ASSUME TypeOK, NEW s \in Sessions, NEW at, NEW f, Go(s, at, f)
  PROVE  /\ loop'[s].at = at /\ loop'[s].file = f
         /\ \A r \in Sessions \ {s} : loop'[r] = loop[r]
BY TypesAreTypeOK DEF Go, CoroutineTypes

LEMMA FinGoes ==
  ASSUME TypeOK, NEW s \in Sessions, NEW at, NEW f, Fin(s, at, f)
  PROVE  /\ fin'[s].at = at /\ fin'[s].file = f
         /\ \A r \in Sessions \ {s} : fin'[r] = fin[r]
BY TypesAreTypeOK DEF Fin, CoroutineTypes

LEMMA LoopSteps ==
  ASSUME TypeOK, [Next]_vars
  PROVE  /\ \A s \in Sessions : LoopStep(s)
         /\ UNCHANGED of \/ \E s \in Sessions : SegmentPrepared(s)
<1> DEFINE Goal == /\ \A s \in Sessions : LoopStep(s)
                   /\ UNCHANGED of \/ \E s \in Sessions : SegmentPrepared(s)
<1>1. ProcessTypes /\ CoroutineTypes
  BY TypesAreTypeOK
<1>2. CASE UNCHANGED <<loop, of>>
  BY <1>2 DEF LoopStep
<1>3. CASE (\E d \in Dests : Tile(d)) \/ StopPressed \/ AccessRefused
  BY <1>3, <1>2 DEF Tile, TileStarts, TileChanges, TileStops, StopPressed,
     AccessRefused, fileVars
<1>4. CASE onDestroy
  BY <1>4 DEF onDestroy, NoLoop, LoopStep
<1>5. CASE startAfterAccessCheck
  <2>1. n + 1 \in Sessions
    BY <1>1, <1>5, PipelineAssumption
    DEF startAfterAccessCheck, ProcessTypes, Sessions
  <2>2. Go(n + 1, "prepare", NoFile) /\ UNCHANGED of
    BY <1>5 DEF startAfterAccessCheck, fileVars
  <2> QED
    BY <2>1, <2>2, GoGoes DEF LoopStep
<1>6. ASSUME NEW s \in Sessions, Recorder(s)
      PROVE  Goal
  <2>1. CASE RecorderPrepared(s) \/ RecorderExits(s) \/ SegmentFails(s)
               \/ SegmentSettles(s)
    <3>1. UNCHANGED of /\ \E at \in {"none", "head"} : Go(s, at, NoFile)
      BY <2>1 DEF RecorderPrepared, RecorderExits, SegmentFails, SegmentSettles,
         fileVars
    <3> QED
      BY <3>1, GoGoes DEF LoopStep
  <2>2. CASE SegmentBegins(s) \/ SegmentEnds(s)
    <3>1. /\ UNCHANGED of /\ InHand(s)
          /\ \E at \in {"record", "settle"} : Go(s, at, loop[s].file)
      BY <2>2 DEF SegmentBegins, SegmentEnds, InHand
    <3> QED
      BY <3>1, GoGoes DEF LoopStep, InHand
  <2>3. CASE SegmentPrepared(s)
    <3>1. \E f \in Files : Go(s, "begin", f)
      BY <2>3 DEF SegmentPrepared
    <3> QED
      BY <2>3, <3>1, GoGoes DEF LoopStep
  <2> QED
    BY <1>6, <2>1, <2>2, <2>3 DEF Recorder
<1>7. ASSUME NEW s \in Sessions, Finalizer(s)
      PROVE  UNCHANGED <<loop, of>>
  BY <1>7 DEF Finalizer, FinalizerBegins, FinalizerChooses, FinalizerSends, fileVars
<1>8. ASSUME NEW j \in jobs, Upload(j)
      PROVE  UNCHANGED <<loop, of>>
  BY <1>8 DEF Upload, SaveToGallery, SendToGroup, SendToContacts, DeleteFile,
     stageVars
<1> QED
  BY <1>2, <1>3, <1>4, <1>5, <1>6, <1>7, <1>8 DEF Next, vars, fileVars

LEMMA HandFilesStep == TypeOK /\ HandFiles /\ [Next]_vars => HandFiles'
<1> SUFFICES ASSUME TypeOK, HandFiles, [Next]_vars,
                    NEW s \in Sessions, InHand(s)'
             PROVE  loop'[s].file \in Files
  BY DEF HandFiles
<1>1. LoopStep(s)
  BY LoopSteps
<1>2. CASE SegmentPrepared(s)
  BY <1>2, GoGoes DEF SegmentPrepared
<1> QED
  BY <1>1, <1>2 DEF LoopStep, HandFiles, InHand

LEMMA HistoryTypesStep == TypeOK /\ HandFiles /\ [Next]_vars => HistoryTypes'
<1> SUFFICES ASSUME TypeOK, HandFiles, [Next]_vars PROVE HistoryTypes'
  OBVIOUS
<1>1. ProcessTypes /\ CoroutineTypes /\ HistoryTypes /\ SendTypes
  BY TypesAreTypeOK
<1>2. CASE UNCHANGED <<kept, failed, took, again, hurried, dropped>>
  BY <1>1, <1>2 DEF HistoryTypes
<1>3. ASSUME NEW d \in Dests, Tile(d)
      PROVE  HistoryTypes'
  <2>1. CASE TileStarts(d)
    BY <1>1, <2>1 DEF TileStarts, SeenByFinalizers, HistoryTypes, ProcessTypes
  <2>2. CASE TileChanges(d)
    BY <1>1, <2>2 DEF TileChanges, SeenByFinalizers, HistoryTypes, haltVars
  <2>3. CASE TileStops(d)
    BY <1>2, <2>3 DEF TileStops, historyVars, againVars, haltVars
  <2> QED
    BY <1>3, <2>1, <2>2, <2>3 DEF Tile
<1>4. CASE StopPressed \/ startAfterAccessCheck \/ AccessRefused
  BY <1>2, <1>4 DEF StopPressed, startAfterAccessCheck, AccessRefused, fileVars,
     historyVars, againVars, haltVars
<1>5. CASE onDestroy
  <2>1. \A j \in jobs : j.file \in Files
    BY <1>1 DEF SendTypes, Job
  <2>2. Unattended(act) \subseteq Files
    BY DEF Unattended, HandFiles, InHand
  <2> QED
    BY <1>1, <1>5, <2>1, <2>2 DEF onDestroy, HistoryTypes, againVars
<1>6. ASSUME NEW s \in Sessions, Recorder(s)
      PROVE  HistoryTypes'
  BY <1>2, <1>6 DEF Recorder, RecorderPrepared, SegmentPrepared, RecorderExits,
     SegmentBegins, SegmentFails, SegmentEnds, SegmentSettles, fileVars,
     historyVars, againVars, haltVars
<1>7. ASSUME NEW s \in Sessions, Finalizer(s)
      PROVE  HistoryTypes'
  <2>1. CASE FinalizerSends(s)
    <3>1. fin[s].file \in Files \cup {NoFile}
      BY <1>1 DEF CoroutineTypes
    <3> QED
      BY <1>1, <2>1, <3>1 DEF FinalizerSends, HistoryTypes, haltVars
  <2> QED
    BY <1>2, <1>7, <2>1 DEF Finalizer, FinalizerBegins, FinalizerChooses,
       fileVars, historyVars, againVars, haltVars
<1>8. ASSUME NEW j \in jobs, Upload(j)
      PROVE  HistoryTypes'
  <2>1. j.file \in Files
    BY <1>1 DEF SendTypes, Job
  <2>2. CASE DeleteFile(j)
    BY <1>1, <2>1, <2>2 DEF DeleteFile, HistoryTypes, againVars, haltVars
  <2>3. ASSUME NEW d, NEW reasons, d \in flags[j.act] => d \in Dests,
               Deliver(j, d, reasons)
        PROVE  failed' \in [Files -> SUBSET Dests]
    BY <1>1, <2>1, <2>3 DEF Deliver, HistoryTypes
  <2>4. \A d : d \in flags[j.act] => d \in Dests
    BY <1>1, TypesAreTypeOK DEF SendTypes, Job, FieldTypes
  <2>5. CASE SaveToGallery(j) \/ SendToGroup(j) \/ SendToContacts(j)
    <3>1. failed' \in [Files -> SUBSET Dests]
      BY <2>3, <2>4, <2>5 DEF SaveToGallery, SendToGroup, SendToContacts
    <3> QED
      BY <1>1, <2>5, <3>1 DEF SaveToGallery, SendToGroup, SendToContacts,
         HistoryTypes, stageVars, againVars, haltVars
  <2> QED
    BY <1>8, <2>2, <2>5 DEF Upload
<1> QED
  BY <1>2, <1>3, <1>4, <1>5, <1>6, <1>7, <1>8
  DEF Next, vars, fileVars, historyVars, againVars, haltVars

LEMMA SendTypesStep == TypeOK /\ [Next]_vars => SendTypes'
<1> SUFFICES ASSUME TypeOK, [Next]_vars PROVE SendTypes'
  OBVIOUS
<1>1. ProcessTypes /\ CoroutineTypes /\ SendTypes
  BY TypesAreTypeOK
<1>2. CASE UNCHANGED sendVars
  BY <1>1, <1>2 DEF sendVars, SendTypes
<1>3. CASE (\E d \in Dests : Tile(d)) \/ StopPressed \/ startAfterAccessCheck
             \/ AccessRefused
  BY <1>2, <1>3 DEF Tile, TileStarts, TileChanges, TileStops, StopPressed,
     startAfterAccessCheck, AccessRefused
<1>4. CASE onDestroy
  BY <1>1, <1>4 DEF onDestroy, SendTypes
<1>5. ASSUME NEW s \in Sessions, Recorder(s)
      PROVE  SendTypes'
  <2>1. CASE SegmentSettles(s)
    BY <1>1, <2>1, JobTypes DEF SegmentSettles, SendTypes, Valid
  <2> QED
    BY <1>2, <1>5, <2>1 DEF Recorder, RecorderPrepared, SegmentPrepared,
       RecorderExits, SegmentBegins, SegmentFails, SegmentEnds
<1>6. ASSUME NEW s \in Sessions, Finalizer(s)
      PROVE  SendTypes'
  <2>1. CASE FinalizerSends(s)
    <3> DEFINE f == fin[s].file
               new == [by |-> s, act |-> owner[s], file |-> f,
                       stage |-> "launched", saved |-> FALSE]
    <3>1. CASE Valid(f) /\ lastSent' = f /\ jobs' = jobs \cup {new}
      <4>1. f \in Files /\ owner[s] \in Activities
        BY <1>1, <3>1 DEF CoroutineTypes, ProcessTypes, Valid
      <4>2. new \in Job
        BY <4>1 DEF Job, Stages
      <4> HIDE DEF new, f
      <4> QED
        BY <1>1, <2>1, <3>1, <4>1, <4>2 DEF FinalizerSends, SendTypes
    <3>2. CASE UNCHANGED <<jobs, lastSent>>
      BY <1>1, <2>1, <3>2 DEF FinalizerSends, SendTypes
    <3> QED
      BY <2>1, <3>1, <3>2 DEF FinalizerSends
  <2> QED
    BY <1>2, <1>6, <2>1 DEF Finalizer, FinalizerBegins, FinalizerChooses
<1>7. ASSUME NEW j \in jobs, Upload(j)
      PROVE  SendTypes'
  <2>1. j \in Job /\ j.file \in Files /\ j.saved \in BOOLEAN
    BY <1>1 DEF SendTypes, Job
  <2>2. /\ "group" \in Stages /\ "contacts" \in Stages /\ "delete" \in Stages
        /\ {"gallery", "group", "contacts"} = AllDests
        /\ \A a : ("gallery" \in flags[a]) \in BOOLEAN
    BY DEF Stages, AllDests
  <2>d. \A d \in AllDests : \A reasons :
          Deliver(j, d, reasons) => sent' \in [Files -> [AllDests -> Nat]]
    BY <1>1, <2>1, JobTypes DEF Deliver, SendTypes
  <2>3. CASE SaveToGallery(j)
    <3>1. jobs' \subseteq Job
      BY <2>2, <2>3, JobTypes DEF SaveToGallery
    <3> QED
      BY <1>1, <2>2, <2>3, <2>d, <3>1 DEF SaveToGallery, SendTypes, stageVars
  <2>4. CASE SendToGroup(j) \/ SendToContacts(j)
    <3>1. jobs' \subseteq Job
      BY <2>1, <2>2, <2>4, JobTypes DEF SendToGroup, SendToContacts
    <3> QED
      BY <1>1, <2>2, <2>4, <2>d, <3>1
      DEF SendToGroup, SendToContacts, SendTypes, stageVars
  <2>5. CASE DeleteFile(j)
    BY <1>1, <2>5 DEF DeleteFile, SendTypes
  <2> QED
    BY <1>7, <2>3, <2>4, <2>5 DEF Upload
<1> QED
  BY <1>2, <1>3, <1>4, <1>5, <1>6, <1>7 DEF Next, vars

LEMMA InitTypes == Init => TypeOK /\ HandFiles
<1> SUFFICES ASSUME Init PROVE TypeOK /\ HandFiles
  OBVIOUS
<1> USE DEF Init
<1>1. 1 \in Activities /\ 0 \in 0 .. MaxSessions
  BY PipelineAssumption DEF Activities
<1>2. ProcessTypes /\ FieldTypes
  BY <1>1 DEF ProcessTypes, FieldTypes
<1>3. CoroutineTypes
  BY DEF CoroutineTypes, NoLoop, LoopStates, FinStates
<1>4. FileTypes /\ HistoryTypes /\ SendTypes
  BY DEF FileTypes, HistoryTypes, SendTypes
<1>5. HandFiles
  BY DEF HandFiles, InHand, NoLoop
<1> QED
  BY <1>2, <1>3, <1>4, <1>5, TypesAreTypeOK

LEMMA TypesStep == TypeOK /\ HandFiles /\ [Next]_vars => TypeOK' /\ HandFiles'
<1>1. TypeOK' <=> /\ ProcessTypes' /\ FieldTypes' /\ CoroutineTypes'
                  /\ FileTypes' /\ HistoryTypes' /\ SendTypes'
  BY DEF TypeOK, ProcessTypes, FieldTypes, CoroutineTypes, FileTypes, HistoryTypes,
     SendTypes
<1> QED
  BY <1>1, ProcessTypesStep, FieldTypesStep, CoroutineTypesStep, FileTypesStep,
     HistoryTypesStep, SendTypesStep, HandFilesStep

(* Every variable of the pipeline stays within its type, for any number of *)
(* sessions, files and activities and whatever may fail: above all, a      *)
(* coroutine of a destroyed activity, or a finalizer that finds no file,   *)
(* never leaves a segment, a job or a field that refers to nothing.        *)
THEOREM PipelineTypes == Spec => []TypeOK
<1>1. Spec => [](TypeOK /\ HandFiles)
  BY InitTypes, TypesStep, PTL DEF Spec
<1> QED
  BY <1>1, PTL

-----------------------------------------------------------------------------
(* Sessions, their finalizers and the tiles.                               *)

(* The running session is the newest, of the activity that is there, and   *)
(* has no finalizer.  A finalizer is of a session that was stopped, and    *)
(* finds every tile of its activity off unless one was switched on again;  *)
(* it takes a file only when it sends one.                                 *)
SessionInv ==
  /\ active => n \in Sessions /\ owner[n] = act /\ took[n] = NoFile
  /\ \A s \in Sessions :
       /\ loop[s].at # "none" => s <= n
       /\ fin[s].at # "none" => s <= n /\ (active => s < n)
       /\ s > n => took[s] = NoFile
       /\ fin[s].at \in {"launched", "waiting", "chosen"} => took[s] = NoFile
       /\ fin[s].at # "none" /\ s \notin again => flags[owner[s]] = {}

(* What a step does to finalizers: launches that of the running session by *)
(* stopping it, takes one through its states, or ends it.                  *)
FinStep(s) ==
  \/ fin'[s] = fin[s] /\ took'[s] = took[s]
  \/ /\ fin'[s].at = "none" /\ took'[s] = took[s]
     /\ fin[s].at = "sending" => \E j \in jobs : j.by = s /\ DeleteFile(j)
  \/ stop /\ active /\ s = n /\ fin'[s].at = "launched" /\ took'[s] = took[s]
  \/ /\ <<fin[s].at, fin'[s].at>> \in {<<"launched", "waiting">>,
                                       <<"waiting", "chosen">>}
     /\ took'[s] = took[s]
  \/ FinalizerSends(s) /\ fin'[s].at = "sending" /\ took'[s] = fin[s].file
     /\ fin'[s].file = fin[s].file /\ fin[s].file \in Files

LEMMA StopFin ==
  ASSUME TypeOK, SessionInv, stop, active, UNCHANGED took
  PROVE  \A s \in Sessions : FinStep(s)
<1>1. n \in Sessions
  BY DEF SessionInv
<1>2. UNCHANGED fin \/ Fin(n, "launched", NoFile)
  BY DEF stop
<1> QED
  BY <1>1, <1>2, FinGoes DEF FinStep

LEMMA FinSteps ==
  ASSUME TypeOK, SessionInv, [Next]_vars
  PROVE  \A s \in Sessions : FinStep(s)
<1> DEFINE Goal == \A s \in Sessions : FinStep(s)
<1>1. ProcessTypes /\ CoroutineTypes /\ SendTypes /\ HistoryTypes
  BY TypesAreTypeOK
<1>2. CASE UNCHANGED <<fin, took>>
  BY <1>2 DEF FinStep
<1>3. ASSUME NEW d \in Dests, Tile(d)
      PROVE  Goal
  BY <1>2, <1>3, StopFin DEF Tile, TileStarts, TileChanges, TileStops, historyVars,
     againVars
<1>4. CASE StopPressed
  BY <1>4, StopFin DEF StopPressed, historyVars, againVars
<1>5. CASE onDestroy
  BY <1>2, <1>5, StopFin DEF onDestroy, againVars
<1>6. CASE startAfterAccessCheck \/ AccessRefused
  BY <1>2, <1>6 DEF startAfterAccessCheck, AccessRefused, fileVars, historyVars,
     againVars
<1>7. ASSUME NEW s \in Sessions, Recorder(s)
      PROVE  UNCHANGED <<fin, took>>
  BY <1>7 DEF Recorder, RecorderPrepared, SegmentPrepared, RecorderExits,
     SegmentBegins, SegmentFails, SegmentEnds, SegmentSettles, fileVars,
     historyVars, againVars
<1>8. ASSUME NEW s \in Sessions, Finalizer(s)
      PROVE  Goal
  <2>1. CASE FinalizerBegins(s)
    <3>1. /\ UNCHANGED took /\ fin[s].at = "launched"
          /\ \E f : Fin(s, "none", NoFile) \/ Fin(s, "waiting", f)
      BY <2>1 DEF FinalizerBegins, historyVars, againVars
    <3> QED
      BY <3>1, FinGoes DEF FinStep
  <2>2. CASE FinalizerChooses(s)
    <3>1. /\ UNCHANGED took /\ fin[s].at = "waiting"
          /\ \E f : Fin(s, "chosen", f)
      BY <2>2 DEF FinalizerChooses, fileVars, historyVars, againVars
    <3> QED
      BY <3>1, FinGoes DEF FinStep
  <2>3. CASE FinalizerSends(s)
    <3>1. CASE Fin(s, "none", NoFile) /\ UNCHANGED took
      BY <2>3, <3>1, FinGoes DEF FinStep, FinalizerSends
    <3>2. CASE /\ Fin(s, "sending", fin[s].file) /\ Valid(fin[s].file)
               /\ took' = [took EXCEPT ![s] = fin[s].file]
      <4>1. fin[s].file \in Files
        BY <1>1, <3>2 DEF CoroutineTypes, Valid
      <4>2. took'[s] = fin[s].file /\ \A r \in Sessions \ {s} : took'[r] = took[r]
        BY <1>1, <3>2 DEF HistoryTypes
      <4> QED
        BY <2>3, <3>2, <4>1, <4>2, FinGoes DEF FinStep
    <3> QED
      BY <2>3, <3>1, <3>2 DEF FinalizerSends, FinalizerLeaves
  <2> QED
    BY <1>8, <2>1, <2>2, <2>3 DEF Finalizer
<1>9. ASSUME NEW j \in jobs, Upload(j)
      PROVE  Goal
  <2>1. CASE UNCHANGED <<fin, took>>
    BY <2>1, <1>2
  <2>2. CASE DeleteFile(j) /\ j.by # ByRecorder
    <3>1. j.by \in Sessions /\ Fin(j.by, "none", NoFile) /\ UNCHANGED took
      BY <1>1, <2>2 DEF SendTypes, Job, DeleteFile, Finished, FinalizerLeaves, againVars
    <3> QED
      BY <2>2, <3>1, FinGoes DEF FinStep
  <2>3. CASE DeleteFile(j) /\ j.by = ByRecorder
    BY <2>1, <2>3 DEF DeleteFile, Finished, againVars
  <2> QED
    BY <1>9, <2>1, <2>2, <2>3 DEF Upload, SaveToGallery, SendToGroup, SendToContacts,
       stageVars, againVars
<1> QED
  BY <1>2, <1>3, <1>4, <1>5, <1>6, <1>7, <1>8, <1>9
  DEF Next, vars, fileVars, historyVars, againVars

(* What a step does to the process: nothing, stops the running session, or *)
(* starts one.                                                             *)
ProcessStep ==
  \/ UNCHANGED <<active, n, act, owner>>
  \/ ~active' /\ UNCHANGED <<n, owner>> /\ (active => stop)
  \/ startAfterAccessCheck

LEMMA ProcessSteps ==
  ASSUME [Next]_vars
  PROVE  ProcessStep
<1> USE DEF ProcessStep
<1>1. CASE UNCHANGED <<active, n, act, owner>>
  BY <1>1
<1>2. CASE (\E d \in Dests : Tile(d)) \/ StopPressed \/ AccessRefused \/ onDestroy
  BY <1>2 DEF Tile, TileStarts, TileChanges, TileStops, StopPressed, AccessRefused,
     onDestroy, stop, sessionVars
<1>3. ASSUME NEW s \in Sessions, Recorder(s) \/ Finalizer(s)
      PROVE  UNCHANGED sessionVars
  BY <1>3 DEF Recorder, Finalizer, RecorderPrepared, SegmentPrepared,
     RecorderExits, SegmentBegins, SegmentFails, SegmentEnds, SegmentSettles,
     FinalizerBegins, FinalizerChooses, FinalizerSends
<1>4. ASSUME NEW j \in jobs, Upload(j)
      PROVE  UNCHANGED sessionVars
  BY <1>4 DEF Upload, SaveToGallery, SendToGroup, SendToContacts, DeleteFile,
     stageVars
<1> QED
  BY <1>1, <1>2, <1>3, <1>4 DEF Next, vars, sessionVars

(* What a step does to the tiles: nothing, clears those of the activity    *)
(* whose session it stops, or the user touches one of them.                *)
TileStep ==
  \/ UNCHANGED <<flags, again>>
  \/ active /\ stop /\ UNCHANGED again
  \/ /\ UNCHANGED <<fin, owner, act, n, active>>
     /\ \E d \in Dests : /\ flags' = [flags EXCEPT ![act] = Toggled(d)]
                         /\ SeenByFinalizers(d)
                         /\ active => \A f \in Files : of[f] = n =>
                                        wanted'[f] \subseteq Toggled(d)

LEMMA TileSteps ==
  ASSUME [Next]_vars
  PROVE  TileStep
<1> USE DEF TileStep
<1>1. CASE UNCHANGED <<flags, again>>
  BY <1>1
<1>2. ASSUME NEW d \in Dests, Tile(d)
      PROVE  TileStep
  BY <1>2 DEF Tile, TileStarts, TileChanges, TileStops, sessionVars, historyVars,
     againVars
<1>3. CASE StopPressed \/ AccessRefused \/ onDestroy \/ startAfterAccessCheck
  BY <1>3 DEF StopPressed, AccessRefused, onDestroy, startAfterAccessCheck, fieldVars,
     fileVars, historyVars, againVars
<1>4. ASSUME NEW s \in Sessions, Recorder(s)
      PROVE  UNCHANGED <<flags, again>>
  BY <1>4 DEF Recorder, RecorderPrepared, SegmentPrepared, RecorderExits,
     SegmentBegins, SegmentFails, SegmentEnds, SegmentSettles, fieldVars, fileVars,
     historyVars, againVars
<1>5. ASSUME NEW s \in Sessions, Finalizer(s)
      PROVE  UNCHANGED <<flags, again>>
  BY <1>5 DEF Finalizer, FinalizerBegins, FinalizerChooses, FinalizerSends,
     fieldVars, fileVars, historyVars, againVars
<1>6. ASSUME NEW j \in jobs, Upload(j)
      PROVE  UNCHANGED <<flags, again>>
  BY <1>6 DEF Upload, SaveToGallery, SendToGroup, SendToContacts, DeleteFile,
     stageVars, fieldVars, againVars
<1> QED
  BY <1>1, <1>2, <1>3, <1>4, <1>5, <1>6
  DEF Next, vars, fieldVars, fileVars, historyVars, againVars

LEMMA SessionStep ==
  ASSUME TypeOK, SessionInv, [Next]_vars
  PROVE  SessionInv'
<1>1. ProcessTypes /\ FieldTypes /\ CoroutineTypes /\ HistoryTypes
  BY TypesAreTypeOK
<1>2. /\ n \in Nat /\ Sessions \subseteq Nat
      /\ \A s \in Sessions : owner[s] \in Activities
  BY <1>1, PipelineAssumption DEF ProcessTypes, Sessions
<1>3. CASE startAfterAccessCheck
  <2>1. n + 1 \in Sessions /\ n' = n + 1 /\ act' = act
    BY <1>1, <1>3, PipelineAssumption
    DEF startAfterAccessCheck, ProcessTypes, Sessions
  <2>2. /\ owner'[n + 1] = act
        /\ \A s \in Sessions \ {n + 1} : owner'[s] = owner[s]
    BY <1>1, <1>3, <2>1 DEF startAfterAccessCheck, ProcessTypes
  <2>3. UNCHANGED <<fin, took, again, flags>>
    BY <1>3 DEF startAfterAccessCheck, fileVars, historyVars, againVars
  <2>4. \A s \in Sessions : loop'[s].at # "none" => s <= n + 1
    <3>1. Go(n + 1, "prepare", NoFile)
      BY <1>3 DEF startAfterAccessCheck
    <3> QED
      BY <1>2, <2>1, <3>1, GoGoes DEF SessionInv
  <2>5. took'[n + 1] = NoFile
    BY <1>2, <2>1, <2>3 DEF SessionInv
  <2>6. ASSUME NEW s \in Sessions
        PROVE  /\ fin'[s].at # "none" => s <= n' /\ s < n'
               /\ s > n' => took'[s] = NoFile
               /\ fin'[s].at \in {"launched", "waiting", "chosen"} =>
                    took'[s] = NoFile
    BY <1>2, <2>1, <2>3 DEF SessionInv
  <2>7. ASSUME NEW s \in Sessions, fin'[s].at # "none", s \notin again'
        PROVE  flags'[owner'[s]] = {}
    <3>1. s # n + 1
      BY <1>2, <2>3, <2>7 DEF SessionInv
    <3> QED
      BY <2>2, <2>3, <2>7, <3>1 DEF SessionInv
  <2> QED
    BY <2>1, <2>2, <2>4, <2>5, <2>6, <2>7 DEF SessionInv
<1>4. CASE ~startAfterAccessCheck
  <2>1. /\ UNCHANGED <<n, owner>>
        /\ active' => active /\ act' = act
        /\ ~active' /\ active => stop
    BY <1>4, ProcessSteps DEF ProcessStep
  <2>2. \A s \in Sessions : FinStep(s)
    BY FinSteps
  <2>3. active' => took'[n] = NoFile
    <3> SUFFICES ASSUME active' PROVE took'[n] = NoFile
      OBVIOUS
    <3>1. n \in Sessions /\ took[n] = NoFile /\ fin[n].at = "none" /\ ~stop
      BY <1>2, <2>1 DEF SessionInv, stop
    <3> QED
      BY <2>2, <3>1 DEF FinStep, FinalizerSends
  <2>4. ASSUME NEW s \in Sessions
        PROVE  loop'[s].at # "none" => s <= n
    <3>1. SegmentPrepared(s) \/ InHand(s) => loop[s].at # "none"
      BY DEF SegmentPrepared, InHand
    <3>2. LoopStep(s)
      BY LoopSteps
    <3>3. CASE loop'[s].at \in {"prepare", "head"} /\ loop[s].at = "none"
      <4>1. loop'[s] # loop[s]
        BY <3>3
      <4>2. CASE \E r \in Sessions : Recorder(r)
        <5>1. PICK r \in Sessions : Recorder(r)
          BY <4>2
        <5>2. loop[r].at # "none" /\ \E at, f : Go(r, at, f)
          BY <5>1 DEF Recorder, RecorderPrepared, SegmentPrepared, RecorderExits,
             SegmentBegins, SegmentFails, SegmentEnds, SegmentSettles
        <5> QED
          BY <3>3, <4>1, <5>2, GoGoes
      <4>3. CASE onDestroy
        BY <3>3, <4>1, <4>3 DEF onDestroy, NoLoop
      <4>4. CASE ~onDestroy /\ ~(\E r \in Sessions : Recorder(r))
        <5>1. UNCHANGED loop
          BY <1>4, <4>4 DEF Next, vars, Tile, TileStarts, TileChanges, TileStops,
             StopPressed, AccessRefused, Finalizer, FinalizerBegins,
             FinalizerChooses, FinalizerSends, Upload, SaveToGallery,
             SendToGroup, SendToContacts, DeleteFile, stageVars
        <5> QED
          BY <4>1, <5>1
      <4> QED
        BY <4>2, <4>3, <4>4
    <3> QED
      BY <1>2, <3>1, <3>2, <3>3 DEF LoopStep, SessionInv
  <2>5. ASSUME NEW s \in Sessions
        PROVE  /\ fin'[s].at # "none" => s <= n /\ (active' => s < n)
               /\ s > n => took'[s] = NoFile
               /\ fin'[s].at \in {"launched", "waiting", "chosen"} =>
                    took'[s] = NoFile
    <3>1. FinalizerSends(s) => fin[s].at = "chosen"
      BY DEF FinalizerSends
    <3>2. stop => ~active'
      BY DEF stop
    <3> QED
      BY <1>2, <2>1, <2>2, <3>1, <3>2 DEF FinStep, SessionInv
  <2>6. ASSUME NEW s \in Sessions, fin'[s].at # "none", s \notin again'
        PROVE  flags'[owner[s]] = {}
    <3>1. CASE UNCHANGED <<flags, again>>
      <4>1. fin[s].at # "none" \/ (active /\ stop)
        BY <2>2, <2>6 DEF FinStep, FinalizerSends
      <4>2. CASE active /\ stop
        <5>1. flags'[act] = {} /\ owner[n] = act
          BY <1>1, <4>2 DEF stop, FieldTypes, ProcessTypes, SessionInv
        <5> QED
          BY <1>2, <2>2, <2>6, <3>1, <4>2, <5>1 DEF FinStep, SessionInv, FinalizerSends
      <4> QED
        BY <2>6, <3>1, <4>1, <4>2 DEF SessionInv
    <3>2. CASE active /\ stop /\ UNCHANGED again
      <4>1. flags'[act] = {} /\ \A a \in Activities \ {act} : flags'[a] = flags[a]
        BY <1>1, <3>2 DEF stop, FieldTypes, ProcessTypes
      <4>2. owner[n] = act
        BY <3>2 DEF SessionInv
      <4>3. fin[s].at # "none" \/ s = n
        BY <2>2, <2>6 DEF FinStep, FinalizerSends
      <4> QED
        BY <1>2, <2>6, <3>2, <4>1, <4>2, <4>3 DEF SessionInv
    <3>3. ASSUME NEW d \in Dests, flags' = [flags EXCEPT ![act] = Toggled(d)],
                 SeenByFinalizers(d), UNCHANGED fin
          PROVE  flags'[owner[s]] = {}
      <4>1. s \notin again /\ flags[owner[s]] = {}
        BY <2>6, <3>3 DEF SeenByFinalizers, SessionInv
      <4>2. owner[s] = act => d \notin Toggled(d)
        BY <2>6, <3>3 DEF SeenByFinalizers
      <4>3. owner[s] = act => Toggled(d) = {}
        BY <4>1, <4>2 DEF Toggled
      <4> QED
        BY <1>1, <1>2, <3>3, <4>1, <4>3 DEF FieldTypes, ProcessTypes
    <3> QED
      BY <3>1, <3>2, <3>3, TileSteps DEF TileStep
  <2> QED
    BY <1>2, <2>1, <2>3, <2>4, <2>5, <2>6 DEF SessionInv
<1> QED
  BY <1>3, <1>4

-----------------------------------------------------------------------------
(* Files in hand.                                                          *)

(* The file a loop has in hand is its own; a file is of a session that was *)
(* started, and nothing is wanted of one that is of none.                  *)
HandInv ==
  /\ \A s \in Sessions :
       InHand(s) => loop[s].file \in Files /\ of[loop[s].file] = s
  /\ \A f \in Files : of[f] <= n /\ (of[f] = 0 => wanted[f] = {})

(* No upload has been made yet of a file that is fresh.                    *)
Fresh(f) ==
  of[f] = 0 \/ \E s \in Sessions : InHand(s) /\ loop[s].file = f

OfStep(f) == of'[f] = of[f] \/ of[f] = 0

LEMMA OfSteps ==
  ASSUME TypeOK, [Next]_vars, NEW f \in Files
  PROVE  OfStep(f)
BY LoopSteps, TypesAreTypeOK DEF SegmentPrepared, OfStep, FileTypes

(* What a step does to what is wanted of a file: it takes destinations     *)
(* away, or the recording begins.                                          *)
LEMMA WantedSteps ==
  ASSUME TypeOK, [Next]_vars, NEW f \in Files
  PROVE  \/ wanted'[f] \subseteq wanted[f]
         \/ \E s \in Sessions : SegmentBegins(s) /\ loop[s].file = f
<1>1. FileTypes
  BY TypesAreTypeOK
<1>2. CASE UNCHANGED wanted
  BY <1>2
<1>3. ASSUME NEW d \in Dests, Tile(d)
      PROVE  wanted'[f] \subseteq wanted[f]
  BY <1>3 DEF Tile, TileStarts, TileChanges, TileStops, historyVars
<1>4. CASE StopPressed \/ AccessRefused \/ onDestroy \/ startAfterAccessCheck
  BY <1>2, <1>4 DEF StopPressed, AccessRefused, onDestroy, startAfterAccessCheck,
     fileVars, historyVars
<1>5. ASSUME NEW s \in Sessions, Recorder(s), ~SegmentBegins(s)
      PROVE  UNCHANGED wanted
  BY <1>5 DEF Recorder, RecorderPrepared, SegmentPrepared, RecorderExits,
     SegmentFails, SegmentEnds, SegmentSettles, fileVars, historyVars
<1>6. ASSUME NEW s \in Sessions, SegmentBegins(s), loop[s].file # f
      PROVE  wanted'[f] = wanted[f]
  BY <1>1, <1>6 DEF SegmentBegins, FileTypes
<1>7. ASSUME NEW s \in Sessions, Finalizer(s)
      PROVE  UNCHANGED wanted
  BY <1>7 DEF Finalizer, FinalizerBegins, FinalizerChooses, FinalizerSends,
     fileVars, historyVars
<1>8. ASSUME NEW j \in jobs, Upload(j)
      PROVE  UNCHANGED wanted
  BY <1>8 DEF Upload, SaveToGallery, SendToGroup, SendToContacts, DeleteFile,
     stageVars
<1> QED
  BY <1>2, <1>3, <1>4, <1>5, <1>6, <1>7, <1>8
  DEF Next, vars, fileVars, historyVars

LEMMA HandStep ==
  ASSUME TypeOK, SessionInv, HandInv, [Next]_vars
  PROVE  HandInv' /\ \A f \in Files : Fresh(f)' => Fresh(f)
<1>1. ProcessTypes /\ CoroutineTypes /\ FileTypes
  BY TypesAreTypeOK
<1>2. n \in Nat /\ Sessions \subseteq Nat \ {0} /\ (n' = n \/ n' = n + 1)
  <2>1. n' = n \/ n' = n + 1
    BY ProcessSteps DEF ProcessStep, startAfterAccessCheck
  <2>2. n \in Nat /\ Sessions \subseteq Nat \ {0}
    BY <1>1, PipelineAssumption DEF ProcessTypes, Sessions
  <2> QED
    BY <2>1, <2>2
<1>3. /\ \A s \in Sessions : LoopStep(s)
      /\ UNCHANGED of \/ \E s \in Sessions : SegmentPrepared(s)
  BY LoopSteps
<1>4. ASSUME NEW s \in Sessions, SegmentPrepared(s)
      PROVE  /\ s <= n /\ UNCHANGED n /\ InHand(s)'
             /\ loop'[s].file \in Files /\ of[loop'[s].file] = 0
             /\ of' = [of EXCEPT ![loop'[s].file] = s]
             /\ \A r \in Sessions \ {s} : loop'[r] = loop[r]
  <2>1. PICK f \in Files : of[f] = 0 /\ of' = [of EXCEPT ![f] = s] /\ Go(s, "begin", f)
    BY <1>4 DEF SegmentPrepared
  <2>2. s <= n /\ UNCHANGED n
    BY <1>4 DEF SegmentPrepared, SessionInv, sessionVars
  <2> QED
    BY <2>1, <2>2, GoGoes DEF InHand
<1>5. ASSUME NEW s \in Sessions, InHand(s)'
      PROVE  loop'[s].file \in Files /\ of'[loop'[s].file] = s
  <2>1. CASE SegmentPrepared(s)
    BY <1>1, <1>4, <2>1 DEF FileTypes
  <2>2. CASE InHand(s) /\ loop'[s].file = loop[s].file
    BY <1>2, <2>2, OfSteps DEF HandInv, OfStep
  <2> QED
    BY <1>3, <1>5, <2>1, <2>2 DEF LoopStep, InHand
<1>6. ASSUME NEW f \in Files
      PROVE  of'[f] <= n' /\ (of'[f] = 0 => wanted'[f] = {})
  <2>1. of'[f] <= n'
    <3>1. of[f] \in Nat /\ of[f] <= n
      <4>1. of[f] \in Sessions \cup {0} /\ of[f] <= n
        BY <1>1 DEF HandInv, FileTypes
      <4>2. \A x \in Sessions \cup {0} : x \in Nat
        BY <1>2
      <4> QED
        BY <4>1, <4>2, Zenon
    <3>2. CASE UNCHANGED of
      BY <1>2, <3>1, <3>2
    <3>3. ASSUME NEW s \in Sessions, SegmentPrepared(s)
          PROVE  of'[f] <= n'
      BY <1>1, <1>4, <3>1, <3>3 DEF FileTypes
    <3> QED
      BY <1>3, <3>2, <3>3
  <2>2. ASSUME of'[f] = 0
        PROVE  wanted'[f] = {}
    <3>1. of[f] = 0
      BY <2>2, OfSteps DEF OfStep
    <3>2. ~ \E s \in Sessions : SegmentBegins(s) /\ loop[s].file = f
      BY <1>2, <3>1 DEF HandInv, SegmentBegins, InHand
    <3> QED
      BY <3>1, <3>2, WantedSteps DEF HandInv
  <2> QED
    BY <2>1, <2>2
<1>7. ASSUME NEW f \in Files, Fresh(f)'
      PROVE  Fresh(f)
  <2>1. of'[f] = 0 => of[f] = 0
    BY OfSteps DEF OfStep
  <2>2. ASSUME NEW s \in Sessions, InHand(s)', loop'[s].file = f
        PROVE  Fresh(f)
    BY <1>3, <1>4, <2>2 DEF LoopStep, Fresh, InHand
  <2> QED
    BY <1>7, <2>1, <2>2 DEF Fresh
<1> QED
  BY <1>5, <1>6, <1>7 DEF HandInv

-----------------------------------------------------------------------------
(* Uploads.                                                                *)

(* The destinations an upload has still to come to.                        *)
Later(stage) == CASE stage = "launched" -> AllDests
                  [] stage = "group"    -> {"group", "contacts"}
                  [] stage = "contacts" -> {"contacts"}
                  [] OTHER              -> {}

(* The recorder makes one upload of a file, once the file has left its     *)
(* hands, and for the activity that recorded it; a finalizer makes one at  *)
(* all, of the file it took, and waits for it.                             *)
JobInv ==
  /\ \A i, j \in jobs :
       i.by = j.by /\ (i.by = ByRecorder => i.file = j.file) => i = j
  /\ \A j \in jobs :
       /\ j.by = ByRecorder => ~Fresh(j.file) /\ j.act = owner[of[j.file]]
       /\ j.by # ByRecorder => /\ fin[j.by].at = "sending"
                               /\ took[j.by] = j.file /\ j.act = owner[j.by]

(* An upload's stage hands its file over to one destination, or fails to.  *)
StageStep(j) ==
  \E d \in Later(j.stage) : \E stage \in Stages : \E saved, reasons :
    /\ Later(stage) = Later(j.stage) \ {d}
    /\ Advance(j, stage, saved) /\ Deliver(j, d, reasons)
    /\ UNCHANGED stageVars

(* What a step does to the uploads: ends or drops some, launches one, or   *)
(* takes one through a stage.                                              *)
JobStep ==
  \/ jobs' \subseteq jobs /\ UNCHANGED <<sent, failed>>
  \/ /\ \E s \in Sessions : SegmentSettles(s) /\ SendLater(s) /\ Valid(loop[s].file)
     /\ UNCHANGED <<sent, failed>>
  \/ /\ \E s \in Sessions :
          /\ FinalizerSends(s) /\ fin'[s].at = "sending"
          /\ took'[s] = fin[s].file
          /\ jobs' = jobs \cup {[by |-> s, act |-> owner[s], file |-> fin[s].file,
                                 stage |-> "launched", saved |-> FALSE]}
     /\ UNCHANGED <<sent, failed>>
  \/ \E j \in jobs : StageStep(j)

LEMMA JobSteps ==
  ASSUME TypeOK, [Next]_vars
  PROVE  JobStep
<1> USE DEF JobStep
<1>1. ProcessTypes /\ CoroutineTypes /\ SendTypes /\ HistoryTypes
  BY TypesAreTypeOK
<1>2. CASE UNCHANGED <<jobs, sent, failed>>
  BY <1>2
<1>3. ASSUME NEW d \in Dests, Tile(d)
      PROVE  UNCHANGED <<jobs, sent, failed>>
  BY <1>3 DEF Tile, TileStarts, TileChanges, TileStops, historyVars, sendVars
<1>4. CASE StopPressed \/ AccessRefused \/ startAfterAccessCheck
  BY <1>2, <1>4 DEF StopPressed, AccessRefused, startAfterAccessCheck, fileVars,
     historyVars, sendVars
<1>5. CASE onDestroy
  BY <1>5 DEF onDestroy
<1>6. ASSUME NEW s \in Sessions, Recorder(s)
      PROVE  JobStep
  <2>1. CASE SegmentSettles(s)
    <3>1. UNCHANGED <<sent, failed>>
      BY <2>1 DEF SegmentSettles, historyVars
    <3>2. CASE UNCHANGED jobs
      BY <3>1, <3>2
    <3>3. CASE SendLater(s) /\ Valid(loop[s].file)
      BY <2>1, <3>1, <3>3
    <3> QED
      BY <2>1, <3>2, <3>3 DEF SegmentSettles
  <2> QED
    BY <1>2, <1>6, <2>1 DEF Recorder, RecorderPrepared, SegmentPrepared,
       RecorderExits, SegmentBegins, SegmentFails, SegmentEnds, fileVars,
       historyVars, sendVars
<1>7. ASSUME NEW s \in Sessions, Finalizer(s)
      PROVE  JobStep
  <2>1. CASE FinalizerSends(s)
    <3>1. UNCHANGED <<sent, failed>>
      BY <2>1 DEF FinalizerSends
    <3>2. CASE UNCHANGED jobs
      BY <3>1, <3>2
    <3>3. CASE /\ Fin(s, "sending", fin[s].file)
               /\ took' = [took EXCEPT ![s] = fin[s].file]
               /\ jobs' = jobs \cup {[by |-> s, act |-> owner[s],
                                      file |-> fin[s].file,
                                      stage |-> "launched", saved |-> FALSE]}
      <4>1. fin'[s].at = "sending" /\ took'[s] = fin[s].file
        BY <1>1, <3>3, FinGoes DEF HistoryTypes
      <4> QED
        BY <2>1, <3>1, <3>3, <4>1
    <3> QED
      BY <2>1, <3>2, <3>3 DEF FinalizerSends
  <2> QED
    BY <1>2, <1>7, <2>1 DEF Finalizer, FinalizerBegins, FinalizerChooses,
       fileVars, historyVars, sendVars
<1>8. ASSUME NEW j \in jobs, Upload(j)
      PROVE  JobStep
  <2> USE DEF Later, Stages, AllDests
  <2>1. CASE SaveToGallery(j)
    <3>1. Later("group") = Later(j.stage) \ {"gallery"} /\ "gallery" \in Later(j.stage)
      BY <2>1 DEF SaveToGallery
    <3> QED
      BY <2>1, <3>1 DEF SaveToGallery, StageStep
  <2>2. CASE SendToGroup(j)
    <3>1. Later("contacts") = Later(j.stage) \ {"group"} /\ "group" \in Later(j.stage)
      BY <2>2 DEF SendToGroup
    <3> QED
      BY <2>2, <3>1 DEF SendToGroup, StageStep
  <2>3. CASE SendToContacts(j)
    <3>1. Later("delete") = Later(j.stage) \ {"contacts"} /\ "contacts" \in Later(j.stage)
      BY <2>3 DEF SendToContacts
    <3> QED
      BY <2>3, <3>1 DEF SendToContacts, StageStep
  <2>4. CASE DeleteFile(j)
    BY <2>4 DEF DeleteFile
  <2> QED
    BY <1>8, <2>1, <2>2, <2>3, <2>4 DEF Upload
<1> QED
  BY <1>2, <1>3, <1>4, <1>5, <1>6, <1>7, <1>8
  DEF Next, vars, fileVars, historyVars, sendVars

(* The session of a finalizer has a file once and for all.                 *)
LEMMA TookSteps ==
  ASSUME TypeOK, SessionInv, [Next]_vars, NEW s \in Sessions, took[s] # NoFile
  PROVE  took'[s] = took[s]
BY FinSteps DEF FinStep, FinalizerSends, SessionInv

LEMMA JobInvStep ==
  ASSUME TypeOK, SessionInv, HandInv, JobInv, [Next]_vars
  PROVE  JobInv'
<1>1. ProcessTypes /\ CoroutineTypes /\ FileTypes /\ SendTypes
  BY TypesAreTypeOK
<1>2. /\ ByRecorder \notin Sessions /\ NoFile \notin Files
      /\ \A s \in Sessions : s # 0
      /\ \A j \in jobs : j.file \in Files /\ j.by \in {ByRecorder} \cup Sessions
  BY <1>1, FilesAreNumbers, PipelineAssumption
  DEF SendTypes, Job, ByRecorder, NoFile, Sessions
<1>h. HandInv' /\ \A f \in Files : Fresh(f)' => Fresh(f)
  BY HandStep
<1>3. ASSUME NEW j \in jobs, j.by = ByRecorder
      PROVE  ~Fresh(j.file)' /\ j.act = owner'[of'[j.file]]
  <2>1. ~Fresh(j.file)' /\ of'[j.file] = of[j.file] /\ of[j.file] # 0
    BY <1>2, <1>3, <1>h, OfSteps DEF JobInv, Fresh, OfStep
  <2>2. owner'[of[j.file]] = owner[of[j.file]]
    <3>1. of[j.file] <= n /\ of[j.file] \in Sessions
      BY <1>1, <1>2, <2>1 DEF HandInv, FileTypes
    <3>2. of[j.file] # n + 1
      BY <1>1, <3>1, PipelineAssumption DEF Sessions, ProcessTypes
    <3> QED
      BY <1>1, <3>1, <3>2, ProcessSteps
      DEF ProcessStep, startAfterAccessCheck, ProcessTypes
  <2> QED
    BY <1>3, <2>1, <2>2 DEF JobInv
<1>4. ASSUME NEW j \in jobs, j.by # ByRecorder, j \in jobs' \/ UNCHANGED fin
      PROVE  /\ fin'[j.by].at = "sending" /\ took'[j.by] = j.file
             /\ j.act = owner'[j.by]
  <2>1. /\ j.by \in Sessions /\ fin[j.by].at = "sending"
        /\ took[j.by] = j.file /\ j.act = owner[j.by]
    BY <1>2, <1>4 DEF JobInv
  <2>2. took'[j.by] = j.file
    BY <1>2, <2>1, TookSteps
  <2>3. owner'[j.by] = owner[j.by]
    <3>1. j.by <= n
      BY <2>1 DEF SessionInv
    <3>2. j.by # n + 1
      BY <1>1, <2>1, <3>1, PipelineAssumption DEF Sessions, ProcessTypes
    <3> QED
      BY <1>1, <2>1, <3>2, ProcessSteps
      DEF ProcessStep, startAfterAccessCheck, ProcessTypes
  <2>4. fin'[j.by].at = "sending"
    <3> SUFFICES ASSUME j \in jobs' PROVE fin'[j.by].at = "sending"
      BY <1>4, <2>1
    <3>1. FinStep(j.by)
      BY <2>1, FinSteps
    <3>2. ~(active /\ j.by = n)
      BY <1>1, <2>1, PipelineAssumption DEF SessionInv, ProcessTypes
    <3>3. ~ \E i \in jobs : i.by = j.by /\ DeleteFile(i)
      BY <1>4 DEF JobInv, DeleteFile
    <3> QED
      BY <2>1, <3>1, <3>2, <3>3 DEF FinStep, FinalizerSends
  <2> QED
    BY <2>1, <2>2, <2>3, <2>4
<1>5. CASE jobs' \subseteq jobs
  BY <1>3, <1>4, <1>5 DEF JobInv
<1>6. ASSUME NEW s \in Sessions, SegmentSettles(s), SendLater(s), Valid(loop[s].file)
      PROVE  JobInv'
  <2>1. PICK f \in Files : f = loop[s].file /\ InHand(s) /\ of[f] = s
    BY <1>6 DEF SegmentSettles, InHand, HandInv
  <2> DEFINE new == [by |-> ByRecorder, act |-> owner[s], file |-> f,
                     stage |-> "launched", saved |-> FALSE]
  <2>2. jobs' = jobs \cup {new} /\ UNCHANGED <<fin, owner, of>>
    BY <1>6, <2>1 DEF SendLater, SegmentSettles, sessionVars
  <2>3. ~Fresh(f)'
    <3> SUFFICES ASSUME NEW r \in Sessions, InHand(r)', loop'[r].file = f
                 PROVE  FALSE
      BY <1>2, <2>1, <2>2 DEF Fresh
    <3>1. loop'[s].at = "head"
      BY <1>6, GoGoes DEF SegmentSettles
    <3>2. r = s
      BY <1>h, <2>1, <2>2 DEF HandInv
    <3> QED
      BY <3>1, <3>2 DEF InHand
  <2>4. \A j \in jobs : j.by = ByRecorder => j.file # f
    BY <2>1 DEF JobInv, Fresh
  <2>5. new.by = ByRecorder /\ new.file = f /\ new.act = owner'[of'[f]]
    BY <2>1, <2>2
  <2> HIDE DEF new
  <2>6. \A j \in jobs' : j \in jobs \/ j = new
    BY <2>2
  <2>7. ASSUME NEW i \in jobs', NEW k \in jobs', i.by = k.by,
               i.by = ByRecorder => i.file = k.file
        PROVE  i = k
    BY <2>4, <2>5, <2>6, <2>7 DEF JobInv
  <2>8. ASSUME NEW i \in jobs'
        PROVE  /\ i.by = ByRecorder => ~Fresh(i.file)' /\ i.act = owner'[of'[i.file]]
               /\ i.by # ByRecorder => /\ fin'[i.by].at = "sending"
                                       /\ took'[i.by] = i.file /\ i.act = owner'[i.by]
    BY <1>3, <1>4, <2>2, <2>3, <2>5, <2>6
  <2> QED
    BY <2>7, <2>8 DEF JobInv
<1>7. ASSUME NEW s \in Sessions, FinalizerSends(s), fin'[s].at = "sending",
             took'[s] = fin[s].file,
             jobs' = jobs \cup {[by |-> s, act |-> owner[s], file |-> fin[s].file,
                                 stage |-> "launched", saved |-> FALSE]}
      PROVE  JobInv'
  <2> DEFINE new == [by |-> s, act |-> owner[s], file |-> fin[s].file,
                     stage |-> "launched", saved |-> FALSE]
  <2>1. \A j \in jobs : j.by # s
    BY <1>2, <1>7 DEF JobInv, FinalizerSends
  <2>2. UNCHANGED owner
    BY <1>7 DEF FinalizerSends, sessionVars
  <2>3. jobs' = jobs \cup {new} /\ new.by = s /\ new.file = took'[s]
        /\ new.act = owner'[s]
    BY <1>7, <2>2
  <2> HIDE DEF new
  <2> QED
    BY <1>2, <1>3, <1>4, <1>7, <2>1, <2>3 DEF JobInv
<1>8. ASSUME NEW j \in jobs, StageStep(j)
      PROVE  JobInv'
  <2>1. PICK stage, saved :
          /\ Advance(j, stage, saved) /\ UNCHANGED stageVars
    BY <1>8 DEF StageStep
  <2> DEFINE new == [j EXCEPT !.stage = stage, !.saved = saved]
  <2>2. jobs' = (jobs \ {j}) \cup {new} /\ UNCHANGED fin
    BY <2>1 DEF Advance, stageVars
  <2>3. new.by = j.by /\ new.file = j.file /\ new.act = j.act
    BY <1>1 DEF SendTypes, Job
  <2> HIDE DEF new
  <2>4. ASSUME NEW i \in jobs'
        PROVE  \E k \in jobs : /\ i.by = k.by /\ i.file = k.file /\ i.act = k.act
                               /\ i = IF k = j THEN new ELSE k
    BY <2>2, <2>3
  <2>5. ASSUME NEW i \in jobs', NEW k \in jobs', i.by = k.by,
               i.by = ByRecorder => i.file = k.file
        PROVE  i = k
    BY <2>4, <2>5 DEF JobInv
  <2>6. ASSUME NEW i \in jobs'
        PROVE  /\ i.by = ByRecorder => ~Fresh(i.file)' /\ i.act = owner'[of'[i.file]]
               /\ i.by # ByRecorder => /\ fin'[i.by].at = "sending"
                                       /\ took'[i.by] = i.file /\ i.act = owner'[i.by]
    BY <1>3, <1>4, <2>2, <2>4
  <2> QED
    BY <2>5, <2>6 DEF JobInv
<1> QED
  BY <1>5, <1>6, <1>7, <1>8, JobSteps DEF JobStep

-----------------------------------------------------------------------------
(* No segment is sent twice.                                               *)

(* A finalizer that took the file had a tile switched on during its work.  *)
Excepted(f) == \E s \in again : took[s] = f

(* Nothing was handed over of a file that is fresh, nor to a destination   *)
(* that the recorder's upload has still to come to.                        *)
SentInv ==
  \A f \in Files :
    \/ Excepted(f)
    \/ /\ \A d \in AllDests : sent[f][d] <= 1 /\ (Fresh(f) => sent[f][d] = 0)
       /\ \A j \in jobs : j.by = ByRecorder /\ j.file = f =>
            \A d \in Later(j.stage) : sent[f][d] = 0

LEMMA LaterType == \A stage : Later(stage) \subseteq AllDests
BY DEF Later, AllDests

LEMMA SentInvStep ==
  ASSUME TypeOK, SessionInv, HandInv, JobInv, SentInv, [Next]_vars
  PROVE  SentInv'
<1> SUFFICES ASSUME NEW f \in Files, ~Excepted(f)'
             PROVE  /\ \A d \in AllDests :
                         sent'[f][d] <= 1 /\ (Fresh(f)' => sent'[f][d] = 0)
                    /\ \A j \in jobs' : j.by = ByRecorder /\ j.file = f =>
                         \A d \in Later(j.stage) : sent'[f][d] = 0
  BY DEF SentInv
<1> DEFINE Goal == /\ \A d \in AllDests :
                        sent'[f][d] <= 1 /\ (Fresh(f)' => sent'[f][d] = 0)
                   /\ \A j \in jobs' : j.by = ByRecorder /\ j.file = f =>
                        \A d \in Later(j.stage) : sent'[f][d] = 0
<1>1. ProcessTypes /\ SendTypes /\ HistoryTypes /\ FieldTypes
  BY TypesAreTypeOK
<1>2. ~Excepted(f)
  <2>1. again \subseteq again'
    BY TileSteps, ProcessSteps DEF TileStep, SeenByFinalizers
  <2>2. \A s \in again : took[s] = f => took'[s] = f
    BY <1>1, TookSteps, FilesAreNumbers DEF HistoryTypes
  <2> QED
    BY <2>1, <2>2 DEF Excepted
<1>3. /\ \A d \in AllDests : sent[f][d] <= 1 /\ (Fresh(f) => sent[f][d] = 0)
      /\ \A j \in jobs : j.by = ByRecorder /\ j.file = f =>
           \A d \in Later(j.stage) : sent[f][d] = 0
  BY <1>2 DEF SentInv
<1>4. Fresh(f)' => Fresh(f)
  BY HandStep
<1>5. CASE jobs' \subseteq jobs /\ UNCHANGED sent
  BY <1>3, <1>4, <1>5
<1>6. ASSUME NEW s \in Sessions, SegmentSettles(s), SendLater(s), UNCHANGED sent
      PROVE  Goal
  <2> DEFINE new == [by |-> ByRecorder, act |-> owner[s], file |-> loop[s].file,
                     stage |-> "launched", saved |-> FALSE]
  <2>1. jobs' = jobs \cup {new} /\ new.file = loop[s].file
    BY <1>6 DEF SendLater
  <2>2. new.file = f => Fresh(f)
    BY <1>6 DEF SegmentSettles, InHand, Fresh
  <2> HIDE DEF new
  <2> QED
    BY <1>3, <1>4, <1>6, <2>1, <2>2, LaterType
<1>7. ASSUME NEW s \in Sessions, UNCHANGED sent,
             jobs' = jobs \cup {[by |-> s, act |-> owner[s], file |-> fin[s].file,
                                 stage |-> "launched", saved |-> FALSE]}
      PROVE  Goal
  <2>1. s # ByRecorder
    BY PipelineAssumption DEF Sessions, ByRecorder
  <2> QED
    BY <1>3, <1>4, <1>7, <2>1
<1>8. ASSUME NEW j \in jobs, StageStep(j)
      PROVE  Goal
  <2>1. PICK d, stage, saved, reasons :
          /\ d \in Later(j.stage) /\ stage \in Stages
          /\ Later(stage) = Later(j.stage) \ {d}
          /\ Advance(j, stage, saved) /\ Deliver(j, d, reasons)
          /\ UNCHANGED stageVars
    BY <1>8 DEF StageStep
  <2> DEFINE new == [j EXCEPT !.stage = stage, !.saved = saved]
  <2>2. jobs' = (jobs \ {j}) \cup {new}
    BY <2>1 DEF Advance
  <2>3. new.by = j.by /\ new.file = j.file /\ new.stage = stage /\ j.file \in Files
    BY <1>1 DEF SendTypes, Job
  <2> HIDE DEF new
  <2>4. d \in AllDests /\ Later(stage) \subseteq Later(j.stage)
    BY <2>1, LaterType
  <2>5. CASE \A e \in AllDests : sent'[f][e] = sent[f][e]
    BY <1>3, <1>4, <2>2, <2>3, <2>4, <2>5, LaterType
  <2>6. CASE j.file = f /\ HandOver(f, d) /\ d \in flags[j.act]
    <3>1. j.by = ByRecorder
      <4> SUFFICES ASSUME j.by # ByRecorder PROVE FALSE
        OBVIOUS
      <4>1. /\ j.by \in Sessions /\ fin[j.by].at # "none"
            /\ took[j.by] = f /\ flags[owner[j.by]] # {}
        BY <1>1, <2>6 DEF JobInv, SendTypes, Job
      <4> QED
        BY <1>2, <4>1 DEF SessionInv, Excepted
    <3>2. /\ sent'[f][d] = sent[f][d] + 1
          /\ \A e \in AllDests \ {d} : sent'[f][e] = sent[f][e]
      BY <1>1, <2>4, <2>6 DEF HandOver, SendTypes
    <3>3. sent[f][d] = 0 /\ ~Fresh(f)
      BY <1>3, <2>1, <2>6, <3>1 DEF JobInv
    <3>4. \A i \in jobs' : i.by = ByRecorder /\ i.file = f => i = new
      BY <2>2, <2>6, <3>1 DEF JobInv
    <3>5. \A e \in Later(stage) : e # d /\ sent'[f][e] = 0
      BY <1>3, <2>1, <2>4, <2>6, <3>1, <3>2, LaterType
    <3> QED
      BY <1>3, <1>4, <2>3, <3>2, <3>3, <3>4, <3>5
  <2> QED
    <3>1. CASE UNCHANGED sent
      BY <2>5, <3>1
    <3>2. CASE d \in flags[j.act] /\ HandOver(j.file, d)
      <4>1. CASE j.file = f
        BY <2>6, <3>2, <4>1
      <4>2. CASE j.file # f
        BY <1>1, <2>3, <2>5, <3>2, <4>2 DEF HandOver, SendTypes
      <4> QED
        BY <4>1, <4>2
    <3> QED
      BY <2>1, <3>1, <3>2 DEF Deliver
<1> QED
  BY <1>5, <1>6, <1>7, <1>8, JobSteps DEF JobStep

PipelineInv == TypeOK /\ HandFiles /\ SessionInv /\ HandInv /\ JobInv /\ SentInv

LEMMA PipelineInvariant == Spec => []PipelineInv
<1>1. Init => PipelineInv
  <2> SUFFICES ASSUME Init PROVE PipelineInv
    OBVIOUS
  <2>1. TypeOK /\ HandFiles
    BY InitTypes
  <2>2. SessionInv
    BY PipelineAssumption DEF Init, SessionInv, NoLoop
  <2>3. HandInv /\ JobInv
    BY PipelineAssumption DEF Init, HandInv, JobInv, InHand, NoLoop
  <2>4. SentInv
    BY DEF Init, SentInv
  <2> QED
    BY <2>1, <2>2, <2>3, <2>4 DEF PipelineInv
<1>2. PipelineInv /\ [Next]_vars => PipelineInv'
  BY TypesStep, SessionStep, HandStep, JobInvStep, SentInvStep DEF PipelineInv
<1> QED
  BY <1>1, <1>2, PTL DEF Spec

(* No segment is handed over to a destination twice, in any number of      *)
(* sessions and activities, although recorder and finalizer may both take  *)
(* it for theirs, except by a finalizer during whose work a tile of its    *)
(* activity was switched on again.                                         *)
THEOREM SentOnce == Spec => []NoDuplicates
<1>1. PipelineInv => NoDuplicates
  BY PipelineAssumption DEF PipelineInv, SentInv, NoDuplicates, Excepted, TypeOK
<1> QED
  BY <1>1, PipelineInvariant, PTL

-----------------------------------------------------------------------------
(* Each segment is sent.                                                   *)

(* An earlier session's finalizer took the file.                           *)
Taken(f) == \E s \in Sessions : s < n /\ took[s] = f

(* What is wanted of a file of the running session is still switched on;   *)
(* while its upload lasts the file is there, and the upload has handed it  *)
(* over, or failed to, wherever it does not come any more.                 *)
Served(f) ==
  /\ wanted[f] \subseteq flags[act]
  /\ \A j \in jobs : j.by = ByRecorder /\ j.file = f =>
       /\ Exists(f)
       /\ \A d \in wanted[f] \ Later(j.stage) : sent[f][d] > 0 \/ d \in failed[f]

DeliverInv == active => \A f \in Files : of[f] = n => Taken(f) \/ Served(f)

(* A file vanishes when an upload deletes it, or the loop that has it.     *)
LEMMA DiskSteps ==
  ASSUME TypeOK, HandInv, [Next]_vars, NEW f \in Files, Exists(f)
  PROVE  \/ Exists(f)'
         \/ Fresh(f) /\ ~Valid(f)
         \/ \E j \in jobs : DeleteFile(j) /\ j.file = f
<1>1. FileTypes /\ SendTypes /\ FieldTypes /\ CoroutineTypes
  BY TypesAreTypeOK
<1>2. f # NoFile /\ disk[f] \in {"open", "done", "short"}
  BY FilesAreNumbers DEF Exists
<1>3. disk'[f] \in {"open", "done", "short"} => Exists(f)'
  BY <1>2 DEF Exists
<1>s. \A a : stopRecord(a) => Exists(f)'
  BY <1>1, <1>2, <1>3 DEF stopRecord, FileTypes
<1>4. UNCHANGED disk => Exists(f)'
  BY <1>2, <1>3
<1>5. ASSUME NEW d \in Dests, Tile(d)
      PROVE  Exists(f)'
  BY <1>s, <1>4, <1>5 DEF Tile, TileStarts, TileChanges, TileStops, stop
<1>6. CASE StopPressed \/ AccessRefused \/ onDestroy \/ startAfterAccessCheck
  BY <1>s, <1>4, <1>6 DEF StopPressed, AccessRefused, onDestroy,
     startAfterAccessCheck, stop, fileVars
<1>7. ASSUME NEW s \in Sessions, Recorder(s)
      PROVE  Exists(f)' \/ (Fresh(f) /\ ~Valid(f))
  <2>1. CASE SegmentSettles(s)
    <3>1. CASE loop[s].file = f /\ ~Valid(f)
      BY <2>1, <3>1 DEF SegmentSettles, Fresh, InHand
    <3>2. CASE ~(loop[s].file = f /\ ~Valid(f))
      <4>1. disk'[f] = disk[f]
        BY <1>1, <2>1, <3>2 DEF SegmentSettles, FileTypes
      <4> QED
        BY <1>2, <1>3, <4>1
    <3> QED
      BY <3>1, <3>2
  <2>2. CASE SegmentBegins(s)
    <3>1. disk'[f] = disk[f] \/ disk'[f] = "open"
      BY <1>1, <2>2 DEF SegmentBegins, FileTypes
    <3> QED
      BY <1>2, <1>3, <3>1
  <2> QED
    BY <1>s, <1>4, <1>7, <2>1, <2>2 DEF Recorder, RecorderPrepared, SegmentPrepared,
       RecorderExits, SegmentFails, SegmentEnds, fileVars
<1>8. ASSUME NEW s \in Sessions, Finalizer(s)
      PROVE  Exists(f)'
  BY <1>s, <1>4, <1>8 DEF Finalizer, FinalizerBegins, FinalizerChooses,
     FinalizerSends, fileVars
<1>9. ASSUME NEW j \in jobs, Upload(j)
      PROVE  Exists(f)' \/ (DeleteFile(j) /\ j.file = f)
  <2>1. CASE DeleteFile(j) /\ j.file # f
    <3>1. disk'[f] = disk[f]
      BY <1>1, <2>1 DEF DeleteFile, FileTypes
    <3> QED
      BY <1>2, <1>3, <3>1
  <2> QED
    BY <1>4, <1>9, <2>1 DEF Upload, SaveToGallery, SendToGroup, SendToContacts,
       stageVars
<1> QED
  BY <1>4, <1>5, <1>6, <1>7, <1>8, <1>9 DEF Next, vars, fileVars

(* What was handed over, or failed to be, stays so.                        *)
LEMMA ServedSteps ==
  ASSUME TypeOK, [Next]_vars, NEW f \in Files, NEW d \in AllDests,
         sent[f][d] > 0 \/ d \in failed[f]
  PROVE  sent'[f][d] > 0 \/ d \in failed'[f]
<1>1. SendTypes /\ HistoryTypes
  BY TypesAreTypeOK
<1>2. CASE UNCHANGED <<sent, failed>>
  BY <1>2
<1>3. ASSUME NEW j \in jobs, StageStep(j)
      PROVE  sent'[f][d] > 0 \/ d \in failed'[f]
  <2>1. PICK e, reasons : e \in AllDests /\ Deliver(j, e, reasons)
    BY <1>3, LaterType DEF StageStep
  <2>2. sent[f][d] \in Nat
    BY <1>1 DEF SendTypes
  <2>3. CASE HandOver(j.file, e) /\ UNCHANGED failed
    <3>1. sent'[f][d] = sent[f][d] \/ sent'[f][d] = sent[f][d] + 1
      BY <1>1, <2>3 DEF HandOver, SendTypes
    <3> QED
      BY <2>2, <2>3, <3>1
  <2>4. CASE failed' = [failed EXCEPT ![j.file] = @ \cup {e}] /\ UNCHANGED sent
    BY <1>1, <2>4 DEF HistoryTypes
  <2> QED
    BY <1>2, <2>1, <2>3, <2>4 DEF Deliver
<1> QED
  BY <1>2, <1>3, JobSteps DEF JobStep

LEMMA DeliverInvStep ==
  ASSUME PipelineInv, DeliverInv, [Next]_vars
  PROVE  DeliverInv'
<1> SUFFICES ASSUME active', NEW f \in Files, of'[f] = n', ~Taken(f)'
             PROVE  Served(f)'
  BY DEF DeliverInv
<1> USE DEF PipelineInv
<1>1. ProcessTypes /\ SendTypes /\ FieldTypes /\ FileTypes /\ HistoryTypes
  BY TypesAreTypeOK
<1>2. n \in Nat /\ n' \in Nat /\ f # NoFile /\ ByRecorder \notin Sessions
  BY <1>1, ProcessTypesStep, FilesAreNumbers, PipelineAssumption
  DEF ProcessTypes, NoFile, ByRecorder, Sessions
<1>3. active /\ UNCHANGED <<n, act, owner>>
  <2>1. ~startAfterAccessCheck
    <3> SUFFICES ASSUME startAfterAccessCheck PROVE FALSE
      OBVIOUS
    <3>1. n' = n + 1 /\ of'[f] = of[f]
      BY DEF startAfterAccessCheck, fileVars
    <3>2. of[f] <= n /\ of[f] = n + 1
      BY <3>1 DEF HandInv
    <3> QED
      BY <1>2, <3>2
  <2> QED
    BY <2>1, ProcessSteps DEF ProcessStep
<1>4. of[f] = n \/ of[f] = 0
  BY <1>3, OfSteps DEF OfStep
<1>5. ~Taken(f)
  BY <1>2, <1>3, TookSteps DEF Taken
<1>6. CASE of[f] = 0
  <2>1. Fresh(f) /\ wanted[f] = {}
    BY <1>6 DEF Fresh, HandInv
  <2>2. ~ \E s \in Sessions : SegmentBegins(s) /\ loop[s].file = f
    BY <1>2, <1>6, PipelineAssumption DEF HandInv, SegmentBegins, InHand, Sessions
  <2>3. wanted'[f] = {}
    BY <2>1, <2>2, WantedSteps
  <2>4. \A j \in jobs : ~(j.by = ByRecorder /\ j.file = f)
    BY <2>1 DEF JobInv
  <2>5. \E s \in Sessions : SegmentPrepared(s)
    <3>1. n # 0 /\ of'[f] # of[f]
      BY <1>2, <1>3, <1>6, PipelineAssumption DEF SessionInv, Sessions
    <3> QED
      BY <3>1, LoopSteps
  <2>6. UNCHANGED jobs
    BY <2>5 DEF SegmentPrepared, sendVars
  <2> QED
    BY <2>3, <2>4, <2>6 DEF Served
<1>7. CASE of[f] = n
  <2>1. Served(f)
    BY <1>3, <1>5, <1>7 DEF DeliverInv
  <2>2. CASE \E s \in Sessions : SegmentBegins(s) /\ loop[s].file = f
    <3>1. PICK s \in Sessions : SegmentBegins(s) /\ loop[s].file = f
      BY <2>2
    <3>2. InHand(s) /\ s = n /\ owner[s] = act
      BY <1>3, <1>7, <3>1 DEF SegmentBegins, InHand, HandInv, SessionInv
    <3>3. wanted'[f] \subseteq flags'[act']
      BY <1>1, <1>3, <3>1, <3>2 DEF SegmentBegins, FileTypes
    <3>4. UNCHANGED jobs /\ Fresh(f)
      BY <3>1, <3>2 DEF SegmentBegins, sendVars, Fresh
    <3> QED
      BY <3>3, <3>4 DEF Served, JobInv
  <2>3. CASE ~ \E s \in Sessions : SegmentBegins(s) /\ loop[s].file = f
    <3>1. wanted'[f] \subseteq wanted[f]
      BY <2>3, WantedSteps
    <3>2. wanted'[f] \subseteq flags'[act']
      <4>1. CASE UNCHANGED flags
        BY <1>3, <2>1, <3>1, <4>1 DEF Served
      <4>2. CASE stop
        BY <4>2 DEF stop
      <4>3. ASSUME NEW d \in Dests, flags' = [flags EXCEPT ![act] = Toggled(d)],
                   active => \A g \in Files : of[g] = n => wanted'[g] \subseteq Toggled(d)
            PROVE  wanted'[f] \subseteq flags'[act']
        BY <1>1, <1>3, <1>7, <4>3 DEF FieldTypes, ProcessTypes
      <4> QED
        BY <4>1, <4>2, <4>3, TileSteps DEF TileStep
    <3>3. ASSUME NEW j \in jobs, j.by = ByRecorder, j.file = f, ~DeleteFile(j)
          PROVE  /\ Exists(f)'
                 /\ \A d \in wanted'[f] \ Later(j.stage) :
                      sent'[f][d] > 0 \/ d \in failed'[f]
      <4>1. ~Fresh(f) /\ Exists(f)
        BY <2>1, <3>3 DEF JobInv, Served
      <4>2. ~ \E i \in jobs : DeleteFile(i) /\ i.file = f
        <5> SUFFICES ASSUME NEW i \in jobs, DeleteFile(i), i.file = f
                     PROVE  FALSE
          OBVIOUS
        <5>1. CASE i.by = ByRecorder
          BY <3>3, <5>1 DEF JobInv
        <5>2. CASE i.by # ByRecorder
          <6>1. i.by \in Sessions /\ took[i.by] = f /\ fin[i.by].at # "none"
            BY <1>1, <5>2 DEF JobInv, SendTypes, Job
          <6> QED
            BY <1>3, <1>5, <6>1 DEF SessionInv, Taken
        <5> QED
          BY <5>1, <5>2
      <4>3. Exists(f)'
        BY <4>1, <4>2, DiskSteps
      <4>4. \A d \in wanted[f] : d \in AllDests
        BY <1>1, PipelineAssumption DEF FileTypes
      <4> QED
        BY <2>1, <3>1, <3>3, <4>3, <4>4, ServedSteps DEF Served
    <3>4. ASSUME NEW j \in jobs', j.by = ByRecorder, j.file = f
          PROVE  /\ Exists(f)'
                 /\ \A d \in wanted'[f] \ Later(j.stage) :
                      sent'[f][d] > 0 \/ d \in failed'[f]
      <4>1. CASE j \in jobs
        BY <3>3, <3>4, <4>1 DEF DeleteFile
      <4>2. ASSUME j \notin jobs,
                   NEW s \in Sessions, SegmentSettles(s), SendLater(s),
                   Valid(loop[s].file)
            PROVE  Exists(f)' /\ wanted'[f] \ Later(j.stage) = {}
        <5>1. j.file = loop[s].file /\ j.stage = "launched"
          BY <4>2 DEF SendLater
        <5>2. UNCHANGED disk /\ Exists(f)
          BY <3>4, <4>2, <5>1 DEF SegmentSettles, Valid, Exists
        <5>3. Later(j.stage) = AllDests /\ wanted[f] \subseteq AllDests
          BY <1>1, <5>1, PipelineAssumption DEF Later, FileTypes
        <5> QED
          BY <3>1, <5>2, <5>3 DEF Exists
      <4>3. ASSUME j \notin jobs, NEW i \in jobs, StageStep(i)
            PROVE  /\ Exists(f)'
                   /\ \A d \in wanted'[f] \ Later(j.stage) :
                        sent'[f][d] > 0 \/ d \in failed'[f]
        <5>1. PICK d, stage, saved, reasons :
                /\ d \in Later(i.stage) /\ stage \in Stages
                /\ Later(stage) = Later(i.stage) \ {d}
                /\ Advance(i, stage, saved) /\ Deliver(i, d, reasons)
                /\ UNCHANGED stageVars
          BY <4>3 DEF StageStep
        <5>2. j = [i EXCEPT !.stage = stage, !.saved = saved]
          BY <4>3, <5>1 DEF Advance
        <5>3. i.by = ByRecorder /\ i.file = f /\ j.stage = stage /\ i.act = act
          <6>1. j.by = i.by /\ j.file = i.file /\ j.stage = stage
            BY <1>1, <5>2 DEF SendTypes, Job
          <6> QED
            BY <1>3, <1>7, <3>4, <6>1 DEF JobInv, SessionInv
        <5>4. /\ Exists(f)'
              /\ \A e \in wanted'[f] \ Later(i.stage) :
                   sent'[f][e] > 0 \/ e \in failed'[f]
          <6>1. Later("delete") = {} /\ ~DeleteFile(i)
            BY <5>1 DEF Later, DeleteFile
          <6> QED
            BY <3>3, <5>3, <6>1
        <5>5. d \in wanted'[f] => sent'[f][d] > 0 \/ d \in failed'[f]
          <6> SUFFICES ASSUME d \in wanted'[f] PROVE sent'[f][d] > 0 \/ d \in failed'[f]
            OBVIOUS
          <6>1. d \in flags[i.act] /\ Exists(f) /\ d \in AllDests
            BY <2>1, <3>1, <5>1, <5>3, LaterType DEF Served
          <6>2. CASE HandOver(f, d)
            BY <1>1, <6>1, <6>2 DEF HandOver, SendTypes
          <6>3. CASE failed' = [failed EXCEPT ![f] = @ \cup {d}]
            BY <1>1, <6>3 DEF HistoryTypes
          <6> QED
            BY <5>1, <5>3, <6>1, <6>2, <6>3 DEF Deliver
        <5> QED
          BY <5>1, <5>3, <5>4, <5>5
      <4>4. ASSUME j \notin jobs, NEW s \in Sessions,
                   jobs' = jobs \cup {[by |-> s, act |-> owner[s],
                                       file |-> fin[s].file,
                                       stage |-> "launched", saved |-> FALSE]}
            PROVE  FALSE
        BY <1>2, <3>4, <4>4
      <4> QED
        BY <4>1, <4>2, <4>3, <4>4, JobSteps DEF JobStep
    <3> QED
      BY <3>2, <3>4 DEF Served
  <2> QED
    BY <2>2, <2>3
<1> QED
  BY <1>4, <1>6, <1>7

(* An upload about to delete its file is not dropped.                      *)
LEMMA DropSteps ==
  ASSUME TypeOK, [Next]_vars, NEW j \in jobs \ jobs', j.stage = "delete"
  PROVE  DeleteFile(j)
<1>1. ASSUME NEW i \in jobs, Upload(i)
      PROVE  DeleteFile(j)
  <2>1. i = j
    BY <1>1 DEF Upload, SaveToGallery, SendToGroup, SendToContacts, DeleteFile, Advance
  <2> QED
    BY <1>1, <2>1 DEF Upload, SaveToGallery, SendToGroup, SendToContacts
<1>2. ASSUME NEW d \in Dests, Tile(d)
      PROVE  UNCHANGED jobs
  BY <1>2 DEF Tile, TileStarts, TileChanges, TileStops, sendVars
<1>3. CASE StopPressed \/ AccessRefused \/ startAfterAccessCheck
  BY <1>3 DEF StopPressed, AccessRefused, startAfterAccessCheck, sendVars
<1>4. CASE onDestroy
  BY <1>4 DEF onDestroy
<1>5. ASSUME NEW s \in Sessions, Recorder(s) \/ Finalizer(s)
      PROVE  jobs \subseteq jobs'
  BY <1>5 DEF Recorder, Finalizer, RecorderPrepared, SegmentPrepared,
     RecorderExits, SegmentBegins, SegmentFails, SegmentEnds, SegmentSettles,
     SendLater, FinalizerBegins, FinalizerChooses, FinalizerSends, sendVars
<1> QED
  BY <1>1, <1>2, <1>3, <1>4, <1>5 DEF Next, vars, sendVars

(* In a session that goes on, in any number of sessions, activities and    *)
(* segments and whatever fails, a segment is deleted and its upload ends   *)
(* only when every destination that was on all along has it or refused it, *)
(* unless the finalizer of an earlier session took the file for its own.   *)
THEOREM SegmentsAreDelivered == Spec => EachSegmentSent
<1> DEFINE Sent == \A f \in Files :
             (of[f] = n /\ active /\ Valid(f) /\ LetGo(f))
               => \/ wanted[f] \subseteq Delivered(f) \cup failed[f]
                  \/ \E s \in 1 .. n - 1 : took[s] = f
<1>0. TypeOK => \A s \in Sessions : s < n => s \in 1 .. n - 1
  <2> SUFFICES ASSUME n \in 0 .. MaxSessions
               PROVE  \A s \in Sessions : s < n => s \in 1 .. n - 1
    BY DEF TypeOK
  <2> QED
    BY PipelineAssumption DEF Sessions
<1>1. PipelineInv /\ DeliverInv /\ [Next]_vars => Sent
  <2> SUFFICES ASSUME PipelineInv, DeliverInv, [Next]_vars, NEW f \in Files,
                      of[f] = n, active, Valid(f), LetGo(f), ~Taken(f)
               PROVE  wanted[f] \subseteq Delivered(f) \cup failed[f]
    BY <1>0 DEF Taken, PipelineInv
  <2> USE DEF PipelineInv
  <2>1. ProcessTypes /\ SendTypes /\ FieldTypes /\ FileTypes
    BY TypesAreTypeOK
  <2>2. PICK j \in jobs : j.file = f /\ DeleteFile(j)
    <3>1. CASE disk'[f] = "deleted"
      <4>1. Exists(f) /\ ~Exists(f)'
        BY <3>1 DEF Valid, Exists
      <4> QED
        BY <4>1, DiskSteps
    <3>2. ASSUME NEW j \in jobs \ jobs', j.file = f, j.stage = "delete"
          PROVE  DeleteFile(j)
      BY <3>2, DropSteps
    <3> QED
      BY <3>1, <3>2 DEF LetGo
  <2>3. j.by = ByRecorder
    <3> SUFFICES ASSUME j.by # ByRecorder PROVE FALSE
      OBVIOUS
    <3>1. j.by \in Sessions /\ took[j.by] = f /\ fin[j.by].at # "none"
      BY <2>1, <2>2 DEF JobInv, SendTypes, Job
    <3> QED
      BY <3>1 DEF SessionInv, Taken
  <2>4. Later(j.stage) = {} /\ wanted[f] \subseteq Dests
    BY <2>1, <2>2 DEF DeleteFile, Later, FileTypes
  <2> QED
    BY <2>2, <2>3, <2>4 DEF DeliverInv, Served, Delivered
<1>2. Init => DeliverInv
  BY DEF Init, DeliverInv
<1>3. PipelineInv /\ DeliverInv /\ [Next]_vars => DeliverInv'
  BY DeliverInvStep
<1> QED
  BY <1>1, <1>2, <1>3, PipelineInvariant, PTL DEF Spec, EachSegmentSent
=============================================================================
