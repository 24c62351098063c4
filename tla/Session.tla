------------------------------- MODULE Session -------------------------------
(***************************************************************************)
(* The recording session of the SOSTaxi process: MainActivity's start,     *)
(* stop, intent and tile handlers, the Quick Settings tiles and Bluetooth  *)
(* buttons that drive it, and the runnables and timers it leaves behind.   *)
(*                                                                         *)
(* isActive is a static field of the process, shared by every instance of  *)
(* the activity, the tile services and the button receivers; all other     *)
(* fields belong to one instance.  A finishing instance lives on until     *)
(* Android calls its onDestroy, possibly after its successor was created,  *)
(* so the model has several instance slots.  Handlers of the main thread   *)
(* are atomic; whatever a handler launches or posts is a later step.       *)
(***************************************************************************)
EXTENDS Naturals, Sequences

CONSTANTS
  Instances,   \* slots for MainActivity objects that may exist together
  Tiles,       \* the tiles the user added to the Quick Settings panel
  ButtonModes, \* work modes the Bluetooth button can be configured for
  MaxMsgs,     \* bound: intents, or broadcasts to one receiver, in transit
  MaxChecks,   \* bound: access checks one activity has in flight
  MaxPosts,    \* bound: delayed runnables of one kind waiting to run
  MaxLoops,    \* bound: recorder loops one activity runs
  Events       \* bound: the events of the surroundings a run considers

Modes    == {"RTMP_STREAMING", "VIDEO_SEGMENTS"}
AllTiles == {"group", "contacts", "gallery"}

(* A permission missing, the launcher, the task swiped away, the surface   *)
(* lost, a camera that cannot be prepared, the activity recreated, the     *)
(* process killed.                                                         *)
AllEvents == {"ask", "open", "finish", "surface", "camera", "recreate", "die"}

ASSUME SessionAssumption ==
  /\ Instances # {}
  /\ Tiles \subseteq AllTiles
  /\ ButtonModes \subseteq Modes
  /\ MaxMsgs \in Nat /\ MaxChecks \in Nat /\ MaxPosts \in Nat
  /\ MaxLoops \in Nat
  /\ Events \subseteq AllEvents

VARIABLES
  (* state of the process and of the system *)
  active,    \* MainActivity.isActive
  prefs,     \* tile -> its stored state, which the tile shows
  intents,   \* activity intents sent and not yet delivered
  resets,    \* 1000 ms tile-reset runnables waiting to run
  (* state of each activity instance *)
  phase,     \* "absent", "live", or "finishing" (finished, not destroyed)
  retained,  \* the instance's intent, handled again if it is recreated
  surface,   \* isSurfaceReady
  flags,     \* isTileSendToGroupActive and its two companions
  mode,      \* currentWorkMode
  pending,   \* pendingAutoStart with pendingWorkMode, or "none"
  posted,    \* 500 ms auto-start runnables waiting to run
  asked,     \* a permission request of start() is on the screen
  checks,    \* getChatMember coroutines in flight
  armed,     \* autoStopJob is waiting
  closing,   \* a 1200 ms finishAndRemoveTask runnable is waiting
  casts,     \* tile broadcasts on their way to this receiver
  preparing, \* recorder coroutines preparing the camera
  atHead,    \* recorder loops about to test isActive
  inSegment, \* recorder loops recording a segment
  streaming  \* the camera streams through the RTMP proxy

processVars  == <<active, prefs, intents, resets>>
launchVars   == <<posted, asked, checks>>
recorderVars == <<preparing, atHead, inSegment, streaming>>
lifeVars     == <<phase, retained, surface>>
choiceVars   == <<flags, mode, pending>>
timerVars    == <<armed, closing, casts>>
vars == <<processVars, lifeVars, choiceVars, launchVars, timerVars,
          recorderVars>>

-----------------------------------------------------------------------------
TileMsg == [kind : {"tile"}, tile : Tiles, value : BOOLEAN]
ModeMsg == [kind : {"mode"}, mode : Modes]
StopMsg == [kind |-> "stop"]
OpenMsg == [kind |-> "open"]   \* the launcher's intent, without extras
Msg     == TileMsg \cup ModeMsg \cup {StopMsg, OpenMsg}

AllOff   == [t \in Tiles |-> FALSE]
Exists(i) == phase[i] # "absent"
Recorders(i) == preparing[i] + atHead[i] + inSegment[i]

TypeOK ==
  /\ active \in BOOLEAN
  /\ prefs \in [Tiles -> BOOLEAN]
  /\ intents \in Seq(Msg)
  /\ resets \in Nat
  /\ phase \in [Instances -> {"absent", "live", "finishing"}]
  /\ retained \in [Instances -> Msg]
  /\ surface \in [Instances -> BOOLEAN]
  /\ flags \in [Instances -> [Tiles -> BOOLEAN]]
  /\ mode \in [Instances -> Modes]
  /\ pending \in [Instances -> Modes \cup {"none"}]
  /\ posted \in [Instances -> Nat]
  /\ asked \in [Instances -> BOOLEAN]
  /\ checks \in [Instances -> Nat]
  /\ armed \in [Instances -> BOOLEAN]
  /\ closing \in [Instances -> BOOLEAN]
  /\ casts \in [Instances -> Seq(TileMsg)]
  /\ preparing \in [Instances -> Nat]
  /\ atHead \in [Instances -> Nat]
  /\ inSegment \in [Instances -> Nat]
  /\ streaming \in [Instances -> BOOLEAN]

Init ==
  /\ active = FALSE
  /\ prefs = AllOff
  /\ intents = <<>>
  /\ resets = 0
  /\ phase     = [i \in Instances |-> "absent"]
  /\ retained  = [i \in Instances |-> OpenMsg]
  /\ surface   = [i \in Instances |-> FALSE]
  /\ flags     = [i \in Instances |-> AllOff]
  /\ mode      = [i \in Instances |-> "RTMP_STREAMING"]
  /\ pending   = [i \in Instances |-> "none"]
  /\ posted    = [i \in Instances |-> 0]
  /\ asked     = [i \in Instances |-> FALSE]
  /\ checks    = [i \in Instances |-> 0]
  /\ armed     = [i \in Instances |-> FALSE]
  /\ closing   = [i \in Instances |-> FALSE]
  /\ casts     = [i \in Instances |-> <<>>]
  /\ preparing = [i \in Instances |-> 0]
  /\ atHead    = [i \in Instances |-> 0]
  /\ inSegment = [i \in Instances |-> 0]
  /\ streaming = [i \in Instances |-> FALSE]

-----------------------------------------------------------------------------
(* start(): nothing when a session is active; otherwise it asks for        *)
(* permissions, gives up (no bot token, nobody logged in), or launches the *)
(* membership check.  An instance already destroyed has no scope to launch *)
(* into.                                                                   *)
LaunchCheck(i) ==
  /\ checks[i] < MaxChecks
  /\ checks' = [checks EXCEPT ![i] = @ + 1]

AskPermissions(i) ==
  /\ "ask" \in Events
  /\ asked' = [asked EXCEPT ![i] = TRUE]
  /\ UNCHANGED checks

start(i) ==
  \/ LaunchCheck(i) /\ UNCHANGED asked
  \/ AskPermissions(i)
  \/ UNCHANGED <<asked, checks>>

(* Variant of stop: the stream is forgotten.                               *)
stopLeavingStream(i) ==
  /\ active' = FALSE
  /\ prefs' = AllOff
  /\ flags' = [flags EXCEPT ![i] = AllOff]
  /\ UNCHANGED streaming

(* stop() of an active session, for instance i: the static flag, every     *)
(* tile preference, the instance's own tile flags and its camera.  The     *)
(* auto-stop job, counters and recorder loops are left alone.              *)
stop(i) ==
  /\ active' = FALSE
  /\ prefs' = AllOff
  /\ flags' = [flags EXCEPT ![i] = AllOff]
  /\ streaming' = [streaming EXCEPT ![i] = FALSE]

(* Variant of startAfterAccessCheck: a waiting auto-stop job is cancelled  *)
(* and not launched again.                                                 *)
startArmingOnce(i) ==
  /\ active' = TRUE
  /\ armed' = [armed EXCEPT ![i] = ~@]
  /\ Recorders(i) < MaxLoops
  /\ preparing' = [preparing EXCEPT ![i] = @ + 1]
  /\ UNCHANGED streaming

(* startAfterAccessCheck(): the session becomes active in the mode set by  *)
(* now; a stream needs a URL and a surface; the auto-stop job is re-armed. *)
startAfterAccessCheck(i) ==
  /\ active' = TRUE
  /\ armed' = [armed EXCEPT ![i] = TRUE]
  /\ \/ /\ mode[i] = "VIDEO_SEGMENTS"
        /\ Recorders(i) < MaxLoops
        /\ preparing' = [preparing EXCEPT ![i] = @ + 1]
        /\ UNCHANGED streaming
     \/ /\ mode[i] = "RTMP_STREAMING"
        /\ streaming' \in {streaming,
                           [streaming EXCEPT ![i] = @ \/ surface[i]]}
        /\ UNCHANGED preparing

-----------------------------------------------------------------------------
(* handleTileToggle(action, value)                                         *)
handleTileToggle(i, t, v) ==
  LET toggled == [flags[i] EXCEPT ![t] = v]
      anyTileActive == \E u \in Tiles : toggled[u]
  IN
  \/ /\ anyTileActive /\ ~active
     /\ flags' = [flags EXCEPT ![i] = toggled]
     /\ mode' = [mode EXCEPT ![i] = "VIDEO_SEGMENTS"]
     /\ \/ /\ surface[i]
           /\ start(i)
           /\ UNCHANGED pending
        \/ /\ ~surface[i]
           /\ pending' = [pending EXCEPT ![i] = "VIDEO_SEGMENTS"]
           /\ UNCHANGED <<asked, checks>>
     /\ UNCHANGED <<active, prefs, streaming, closing, resets>>
  \/ /\ ~anyTileActive /\ active
     /\ stop(i)
     /\ closing' = [closing EXCEPT ![i] = TRUE]
     /\ UNCHANGED <<mode, pending, asked, checks, resets>>
  \/ /\ anyTileActive = active
     /\ flags' = [flags EXCEPT ![i] = toggled]
     /\ UNCHANGED <<active, prefs, streaming, closing, resets, mode, pending,
                    asked, checks>>

(* quick_tile_action = "stop_and_close"                                    *)
stop_and_close(i) ==
  /\ resets < MaxPosts
  /\ resets' = resets + 1
  /\ \/ /\ active
        /\ stop(i)
        /\ closing' = [closing EXCEPT ![i] = TRUE]
     \/ /\ ~active
        /\ UNCHANGED <<active, prefs, flags, streaming, closing>>
  /\ UNCHANGED <<mode, pending, asked, checks>>

(* quick_tile_mode = m with auto_start: a running session is stopped first *)
auto_start(i, m) ==
  /\ \/ active /\ stop(i)
     \/ ~active /\ UNCHANGED <<active, prefs, flags, streaming>>
  /\ \/ /\ surface[i]
        /\ mode' = [mode EXCEPT ![i] = m]
        /\ start(i)
        /\ UNCHANGED pending
     \/ /\ ~surface[i]
        /\ pending' = [pending EXCEPT ![i] = m]
        /\ UNCHANGED <<mode, asked, checks>>
  /\ UNCHANGED <<closing, resets>>

handleQuickTileIntent(i, m) ==
  \/ m.kind = "tile" /\ handleTileToggle(i, m.tile, m.value)
  \/ m.kind = "stop" /\ stop_and_close(i)
  \/ m.kind = "mode" /\ auto_start(i, m.mode)
  \/ /\ m.kind = "open"
     /\ UNCHANGED <<active, prefs, flags, streaming, closing, resets, mode,
                    pending, asked, checks>>

-----------------------------------------------------------------------------
(* What the user does outside the activity.                                *)

Send(m) == Len(intents) < MaxMsgs /\ intents' = Append(intents, m)

(* A broadcast reaches every instance whose receiver is registered.        *)
Broadcast(m) ==
  /\ \A i \in Instances : Exists(i) => Len(casts[i]) < MaxMsgs
  /\ casts' = [i \in Instances |->
                 IF Exists(i) THEN Append(casts[i], m) ELSE casts[i]]

(* TileService.onClick: the tile trusts its own preference for what the    *)
(* tap means, and isActive for how to tell the activity.                   *)
TapTile(t) ==
  LET m == [kind |-> "tile", tile |-> t, value |-> ~prefs[t]] IN
  /\ prefs' = [prefs EXCEPT ![t] = ~@]
  /\ \/ active /\ Broadcast(m) /\ UNCHANGED intents
     \/ ~active /\ Send(m) /\ UNCHANGED casts
  /\ UNCHANGED <<active, resets, armed, closing>>
  /\ UNCHANGED <<lifeVars, choiceVars, launchVars, recorderVars>>

TapSendToGroup    == "group" \in Tiles /\ TapTile("group")
TapSendToContacts == "contacts" \in Tiles /\ TapTile("contacts")
TapSaveToGallery  == "gallery" \in Tiles /\ TapTile("gallery")

(* A Bluetooth, media or volume button press.                              *)
PressButton(m) ==
  /\ Send(IF active THEN StopMsg ELSE [kind |-> "mode", mode |-> m])
  /\ UNCHANGED <<active, prefs, resets>>
  /\ UNCHANGED <<lifeVars, choiceVars, launchVars, timerVars, recorderVars>>

OpenApp ==
  /\ "open" \in Events
  /\ Send(OpenMsg)
  /\ UNCHANGED <<active, prefs, resets>>
  /\ UNCHANGED <<lifeVars, choiceVars, launchVars, timerVars, recorderVars>>

-----------------------------------------------------------------------------
(* Deliveries.                                                             *)

(* launchMode is singleTask: the live instance gets onNewIntent; without   *)
(* one a new instance is created, whose fields are still at their defaults.*)
(* The intent is kept where the run has recreations to read it.            *)
Receiver(i) ==
  IF \E j \in Instances : phase[j] = "live" THEN phase[i] = "live"
                                            ELSE phase[i] = "absent"

DeliverIntent(i) ==
  /\ intents # <<>>
  /\ Receiver(i)
  /\ intents' = Tail(intents)
  /\ phase' = [phase EXCEPT ![i] = "live"]
  /\ retained' = IF "recreate" \in Events
                   THEN [retained EXCEPT ![i] = Head(intents)]
                   ELSE retained
  /\ handleQuickTileIntent(i, Head(intents))
  /\ UNCHANGED <<surface, posted, armed, casts>>
  /\ UNCHANGED <<preparing, atHead, inSegment>>

DeliverBroadcast(i) ==
  /\ casts[i] # <<>>
  /\ casts' = [casts EXCEPT ![i] = Tail(@)]
  /\ handleTileToggle(i, Head(casts[i]).tile, Head(casts[i]).value)
  /\ UNCHANGED <<intents, posted, armed, preparing, atHead, inSegment>>
  /\ UNCHANGED lifeVars

(* surfaceCreated: an auto-start put off for want of a surface is posted.  *)
SurfaceCreated(i) ==
  /\ Exists(i) /\ ~surface[i]
  /\ surface' = [surface EXCEPT ![i] = TRUE]
  /\ \/ /\ pending[i] # "none"
        /\ posted[i] < MaxPosts
        /\ mode' = [mode EXCEPT ![i] = pending[i]]
        /\ pending' = [pending EXCEPT ![i] = "none"]
        /\ posted' = [posted EXCEPT ![i] = @ + 1]
     \/ pending[i] = "none" /\ UNCHANGED <<mode, pending, posted>>
  /\ UNCHANGED <<phase, retained, flags, asked, checks>>
  /\ UNCHANGED <<processVars, timerVars, recorderVars>>

SurfaceDestroyed(i) ==
  /\ "surface" \in Events
  /\ surface[i]
  /\ surface' = [surface EXCEPT ![i] = FALSE]
  /\ UNCHANGED <<phase, retained>>
  /\ UNCHANGED <<processVars, choiceVars, launchVars, timerVars, recorderVars>>

(* Variant of PostedStart: runs although nothing was posted.               *)
PostedStartUnchecked(i) ==
  /\ posted' = [posted EXCEPT ![i] = @ - 1]
  /\ \/ ~active /\ start(i)
     \/ active /\ UNCHANGED <<asked, checks>>
  /\ UNCHANGED <<processVars, lifeVars, choiceVars, timerVars, recorderVars>>

(* The 500 ms runnable of surfaceCreated.                                  *)
PostedStart(i) ==
  /\ posted[i] > 0
  /\ posted' = [posted EXCEPT ![i] = @ - 1]
  /\ \/ ~active /\ start(i)
     \/ active /\ UNCHANGED <<asked, checks>>
  /\ UNCHANGED <<processVars, lifeVars, choiceVars, timerVars, recorderVars>>

(* onRequestPermissionsResult: granted, so start() again; or refused.      *)
PermissionResult(i) ==
  /\ asked[i]
  /\ \/ /\ ~active /\ LaunchCheck(i) /\ asked' = [asked EXCEPT ![i] = FALSE]
     \/ asked' = [asked EXCEPT ![i] = FALSE] /\ UNCHANGED checks
  /\ UNCHANGED posted
  /\ UNCHANGED <<processVars, lifeVars, choiceVars, timerVars, recorderVars>>

-----------------------------------------------------------------------------
(* What start() and startAfterAccessCheck() leave running.                 *)

(* The membership check answers on the main thread, which then starts      *)
(* without looking at isActive or at the tiles again.                      *)
AccessCheckDone(i) ==
  /\ checks[i] > 0
  /\ checks' = [checks EXCEPT ![i] = @ - 1]
  /\ \/ startAfterAccessCheck(i)
     \/ UNCHANGED <<active, armed, preparing, streaming>>
  /\ UNCHANGED <<prefs, intents, resets, posted, asked, closing, casts,
                 atHead, inSegment>>
  /\ UNCHANGED <<lifeVars, choiceVars>>

(* Variant of AutoStopFires: the timer ends without sending the stop.      *)
AutoStopForgets(i) ==
  /\ armed[i]
  /\ armed' = [armed EXCEPT ![i] = FALSE]
  /\ UNCHANGED <<active, prefs, intents, resets, closing, casts>>
  /\ UNCHANGED <<lifeVars, choiceVars, launchVars, recorderVars>>

(* One hour after the last start of this instance.                         *)
AutoStopFires(i) ==
  /\ armed[i]
  /\ armed' = [armed EXCEPT ![i] = FALSE]
  /\ \/ active /\ Send(StopMsg)
     \/ ~active /\ UNCHANGED intents
  /\ UNCHANGED <<active, prefs, resets, closing, casts>>
  /\ UNCHANGED <<lifeVars, choiceVars, launchVars, recorderVars>>

(* The 1000 ms runnable of stop_and_close.                                 *)
ResetTiles ==
  /\ resets > 0
  /\ resets' = resets - 1
  /\ prefs' = AllOff
  /\ UNCHANGED <<active, intents>>
  /\ UNCHANGED <<lifeVars, choiceVars, launchVars, timerVars, recorderVars>>

(* startRecord prepares the camera, gives up if it cannot, and then loops: *)
(* while (isActive) record one segment.                                    *)
RecorderPrepared(i) ==
  /\ preparing[i] > 0
  /\ preparing' = [preparing EXCEPT ![i] = @ - 1]
  /\ atHead' = [atHead EXCEPT ![i] = @ + 1]
  /\ UNCHANGED <<inSegment, streaming>>
  /\ UNCHANGED <<processVars, lifeVars, choiceVars, launchVars, timerVars>>

RecorderFails(i) ==
  /\ "camera" \in Events
  /\ preparing[i] > 0
  /\ preparing' = [preparing EXCEPT ![i] = @ - 1]
  /\ UNCHANGED <<atHead, inSegment, streaming>>
  /\ UNCHANGED <<processVars, lifeVars, choiceVars, launchVars, timerVars>>

SegmentBegins(i) ==
  /\ atHead[i] > 0 /\ active
  /\ atHead' = [atHead EXCEPT ![i] = @ - 1]
  /\ inSegment' = [inSegment EXCEPT ![i] = @ + 1]
  /\ UNCHANGED <<preparing, streaming>>
  /\ UNCHANGED <<processVars, lifeVars, choiceVars, launchVars, timerVars>>

SegmentEnds(i) ==
  /\ inSegment[i] > 0
  /\ inSegment' = [inSegment EXCEPT ![i] = @ - 1]
  /\ atHead' = [atHead EXCEPT ![i] = @ + 1]
  /\ UNCHANGED <<preparing, streaming>>
  /\ UNCHANGED <<processVars, lifeVars, choiceVars, launchVars, timerVars>>

(* Variant of RecorderExits: the loop may leave an active session.         *)
RecorderExitsEarly(i) ==
  /\ atHead[i] > 0
  /\ atHead' = [atHead EXCEPT ![i] = @ - 1]
  /\ UNCHANGED <<preparing, inSegment, streaming>>
  /\ UNCHANGED <<processVars, lifeVars, choiceVars, launchVars, timerVars>>

RecorderExits(i) ==
  /\ atHead[i] > 0 /\ ~active
  /\ atHead' = [atHead EXCEPT ![i] = @ - 1]
  /\ UNCHANGED <<preparing, inSegment, streaming>>
  /\ UNCHANGED <<processVars, lifeVars, choiceVars, launchVars, timerVars>>

-----------------------------------------------------------------------------
(* The life of an instance.                                                *)

(* The 1200 ms runnable of a stop from a tile or a button.                 *)
CloseActivity(i) ==
  /\ closing[i]
  /\ closing' = [closing EXCEPT ![i] = FALSE]
  /\ phase' = [phase EXCEPT ![i] = "finishing"]
  /\ UNCHANGED <<retained, surface, armed, casts>>
  /\ UNCHANGED <<processVars, choiceVars, launchVars, recorderVars>>

(* The user swipes the task away, or the system finishes the activity.     *)
FinishedOutside(i) ==
  /\ "finish" \in Events
  /\ phase[i] = "live"
  /\ phase' = [phase EXCEPT ![i] = "finishing"]
  /\ UNCHANGED <<retained, surface>>
  /\ UNCHANGED <<processVars, choiceVars, launchVars, timerVars, recorderVars>>

(* Variant of ScopeCancelled: the scope is cancelled without stop().       *)
ScopeCancelledOnly(i) ==
  /\ UNCHANGED <<active, prefs>>
  /\ surface'   = [surface EXCEPT ![i] = FALSE]
  /\ posted'    = [posted EXCEPT ![i] = 0]
  /\ checks'    = [checks EXCEPT ![i] = 0]
  /\ armed'     = [armed EXCEPT ![i] = FALSE]
  /\ casts'     = [casts EXCEPT ![i] = <<>>]
  /\ preparing' = [preparing EXCEPT ![i] = 0]
  /\ atHead'    = [atHead EXCEPT ![i] = 0]
  /\ inSegment' = [inSegment EXCEPT ![i] = 0]
  /\ streaming' = [streaming EXCEPT ![i] = FALSE]

(* onDestroy stops whatever session is active and cancels the scope, so    *)
(* the coroutines of the instance end.                                     *)
ScopeCancelled(i) ==
  /\ active' = FALSE
  /\ prefs' = IF active THEN AllOff ELSE prefs
  /\ surface'   = [surface EXCEPT ![i] = FALSE]
  /\ posted'    = [posted EXCEPT ![i] = 0]
  /\ checks'    = [checks EXCEPT ![i] = 0]
  /\ armed'     = [armed EXCEPT ![i] = FALSE]
  /\ casts'     = [casts EXCEPT ![i] = <<>>]
  /\ preparing' = [preparing EXCEPT ![i] = 0]
  /\ atHead'    = [atHead EXCEPT ![i] = 0]
  /\ inSegment' = [inSegment EXCEPT ![i] = 0]
  /\ streaming' = [streaming EXCEPT ![i] = FALSE]

(* The runnables a finished activity left on the main looper do nothing.   *)
onDestroy(i) ==
  /\ phase[i] = "finishing"
  /\ ScopeCancelled(i)
  /\ asked'    = [asked EXCEPT ![i] = FALSE]
  /\ closing'  = [closing EXCEPT ![i] = FALSE]
  /\ phase'    = [phase EXCEPT ![i] = "absent"]
  /\ retained' = [retained EXCEPT ![i] = OpenMsg]
  /\ flags'    = [flags EXCEPT ![i] = AllOff]
  /\ mode'     = [mode EXCEPT ![i] = "RTMP_STREAMING"]
  /\ pending'  = [pending EXCEPT ![i] = "none"]
  /\ UNCHANGED <<intents, resets>>

(* recreate() after a change of language, or a configuration change: the   *)
(* old object is destroyed and onCreate of the new one handles the intent  *)
(* the activity was last given once more, without a surface.  To the       *)
(* system it is the same activity: the answer to a permission request goes *)
(* to the new object, and finishing the old one finishes the new one.      *)
Recreate(i) ==
  LET m  == retained[i]
      on == m.kind = "tile" /\ m.value
  IN
  /\ "recreate" \in Events
  /\ phase[i] = "live"
  /\ ScopeCancelled(i)
  /\ flags' = [flags EXCEPT ![i] = [t \in Tiles |-> on /\ t = m.tile]]
  /\ mode' = [mode EXCEPT ![i] = IF on THEN "VIDEO_SEGMENTS"
                                       ELSE "RTMP_STREAMING"]
  /\ pending' = [pending EXCEPT ![i] = IF on THEN "VIDEO_SEGMENTS"
                                       ELSE IF m.kind = "mode" THEN m.mode
                                       ELSE "none"]
  /\ \/ m = StopMsg /\ resets < MaxPosts /\ resets' = resets + 1
     \/ m # StopMsg /\ UNCHANGED resets
  /\ UNCHANGED <<phase, retained, intents, asked, closing>>

(* The system kills the process: only the preferences survive.             *)
ProcessDies ==
  /\ "die" \in Events
  /\ \E i \in Instances : Exists(i)
  /\ active' = FALSE
  /\ intents' = <<>>
  /\ resets' = 0
  /\ phase'     = [i \in Instances |-> "absent"]
  /\ retained'  = [i \in Instances |-> OpenMsg]
  /\ surface'   = [i \in Instances |-> FALSE]
  /\ flags'     = [i \in Instances |-> AllOff]
  /\ mode'      = [i \in Instances |-> "RTMP_STREAMING"]
  /\ pending'   = [i \in Instances |-> "none"]
  /\ posted'    = [i \in Instances |-> 0]
  /\ asked'     = [i \in Instances |-> FALSE]
  /\ checks'    = [i \in Instances |-> 0]
  /\ armed'     = [i \in Instances |-> FALSE]
  /\ closing'   = [i \in Instances |-> FALSE]
  /\ casts'     = [i \in Instances |-> <<>>]
  /\ preparing' = [i \in Instances |-> 0]
  /\ atHead'    = [i \in Instances |-> 0]
  /\ inSegment' = [i \in Instances |-> 0]
  /\ streaming' = [i \in Instances |-> FALSE]
  /\ UNCHANGED prefs

-----------------------------------------------------------------------------
User ==
  \/ TapSendToGroup \/ TapSendToContacts \/ TapSaveToGallery
  \/ \E m \in ButtonModes : PressButton(m)
  \/ OpenApp

Lifecycle(i) == FinishedOutside(i) \/ onDestroy(i) \/ Recreate(i)

Surface(i) == SurfaceCreated(i) \/ SurfaceDestroyed(i)

MainThread(i) ==
  \/ DeliverIntent(i) \/ DeliverBroadcast(i)
  \/ PostedStart(i) \/ PermissionResult(i) \/ AccessCheckDone(i)
  \/ AutoStopFires(i) \/ CloseActivity(i)

Recorder(i) ==
  \/ RecorderPrepared(i) \/ RecorderFails(i)
  \/ SegmentBegins(i) \/ SegmentEnds(i) \/ RecorderExits(i)

Next ==
  \/ User
  \/ \E i \in Instances :
       Lifecycle(i) \/ Surface(i) \/ MainThread(i) \/ Recorder(i)
  \/ ResetTiles
  \/ ProcessDies

Spec == Init /\ [][Next]_vars

(* The main looper runs what was posted to it, Android delivers intents    *)
(* and destroys what was finished, HTTP calls time out, delays elapse.     *)
(* The user and the surface owe nothing.                                   *)
Fairness ==
  /\ WF_vars(ResetTiles)
  /\ WF_vars(\E i \in Instances : DeliverIntent(i))
  /\ \A i \in Instances :
       /\ WF_vars(DeliverBroadcast(i))
       /\ WF_vars(PostedStart(i))
       /\ WF_vars(AccessCheckDone(i))
       /\ WF_vars(AutoStopFires(i))
       /\ WF_vars(CloseActivity(i))
       /\ WF_vars(onDestroy(i))
       /\ WF_vars(RecorderPrepared(i))
       /\ WF_vars(SegmentBegins(i) \/ RecorderExits(i))
       /\ WF_vars(SegmentEnds(i))

FairSpec == Spec /\ Fairness

-----------------------------------------------------------------------------
(* Properties.                                                             *)

(* An active session has an activity that is not destroyed: a tile that    *)
(* sees isActive and broadcasts always has a receiver to reach.            *)
ActiveHasActivity == active => \E i \in Instances : Exists(i)

StopOnItsWay == \E k \in DOMAIN intents : intents[k] = StopMsg

(* No session runs without an end in sight: while one is active, an armed  *)
(* one-hour job of a live instance or a stop intent in transit will end it,*)
(* whichever way it was started and however often.                         *)
AutoStopPending ==
  active => StopOnItsWay \/ \E i \in Instances : Exists(i) /\ armed[i]

(* A session does end: by the user, the system or the one-hour job.        *)
SessionEnds == active ~> ~active

(* With sessions of segments only (the tiles, and the button as it is set  *)
(* by default) an active session always has a recorder loop to record it:  *)
(* however starts, stops and restarts interleave, no session is started    *)
(* whose loop has already left, and no loop leaves a session, provided the *)
(* camera can be prepared and no recreated activity, back in the default   *)
(* mode, gets the answer to a permission request.                          *)
RecorderRuns ==
  active => \E i \in Instances : Exists(i) /\ Recorders(i) > 0

(* As long as a single activity object exists, its camera streams only in  *)
(* an active session: every way to end the session ends the stream.        *)
StreamNeedsSession == \A i \in Instances : streaming[i] => active

(* "start recording (if it is not started yet)": one recorder loop at a    *)
(* time (comment of handleTileToggle).                                     *)
OneRecorder == \A i \in Instances : Recorders(i) <= 1

(* "if all tiles are off, stop recording": with tiles alone in use, no     *)
(* segment begins while every tile of the activity is off.                 *)
NoSegmentWithTilesOff ==
  [][\A i \in Instances :
       inSegment'[i] > inSegment[i] => \E t \in Tiles : flags[i][t]]_vars
=============================================================================
