---------------------------- MODULE SessionProofs ----------------------------
(***************************************************************************)
(* Theorems about Session, for every set of instances and tiles and every  *)
(* bound.                                                                  *)
(***************************************************************************)
EXTENDS Session, TLAPS

(* Every action leaves the variables in the sets TypeOK names.             *)
LEMMA MsgFacts ==
  /\ StopMsg \in Msg
  /\ OpenMsg \in Msg
  /\ \A t \in Tiles, v \in BOOLEAN :
       [kind |-> "tile", tile |-> t, value |-> v] \in TileMsg
  /\ \A m \in ButtonModes : [kind |-> "mode", mode |-> m] \in Msg
  /\ TileMsg \subseteq Msg
  /\ \A m \in Msg : m.kind = "tile" => m \in TileMsg
  /\ \A m \in Msg : m.kind = "mode" => m.mode \in Modes
  /\ \A m \in TileMsg : m.tile \in Tiles /\ m.value \in BOOLEAN
  /\ \A m \in Msg : m.kind = "stop" <=> m = StopMsg
  BY SessionAssumption DEF Msg, TileMsg, ModeMsg, StopMsg, OpenMsg

(* The tiles all off are a state of the tiles.                             *)
LEMMA AllOffType == AllOff \in [Tiles -> BOOLEAN]
  BY DEF AllOff

(* Types hold when the process starts.                                     *)
LEMMA TypeInit == Init => TypeOK
  <1> SUFFICES ASSUME Init PROVE TypeOK
    OBVIOUS
  <1>1. /\ active \in BOOLEAN /\ prefs \in [Tiles -> BOOLEAN]
        /\ resets \in Nat
    BY AllOffType DEF Init
  <1>7. intents \in Seq(Msg)
    BY DEF Init
  <1>2. /\ phase \in [Instances -> {"absent", "live", "finishing"}]
        /\ retained \in [Instances -> Msg]
        /\ surface \in [Instances -> BOOLEAN]
    BY MsgFacts DEF Init
  <1>3. /\ flags \in [Instances -> [Tiles -> BOOLEAN]]
        /\ mode \in [Instances -> Modes]
        /\ pending \in [Instances -> Modes \cup {"none"}]
    BY AllOffType DEF Init, Modes
  <1>4. /\ posted \in [Instances -> Nat]
        /\ asked \in [Instances -> BOOLEAN]
        /\ checks \in [Instances -> Nat]
        /\ armed \in [Instances -> BOOLEAN]
        /\ closing \in [Instances -> BOOLEAN]
    BY DEF Init
  <1>5. casts \in [Instances -> Seq(TileMsg)]
    <2>1. <<>> \in Seq(TileMsg)
      OBVIOUS
    <2>2. QED BY <2>1 DEF Init
  <1>6. /\ preparing \in [Instances -> Nat]
        /\ atHead \in [Instances -> Nat]
        /\ inSegment \in [Instances -> Nat]
        /\ streaming \in [Instances -> BOOLEAN]
    BY DEF Init
  <1> QED BY <1>1, <1>7, <1>2, <1>3, <1>4, <1>5, <1>6 DEF TypeOK

(* What the handlers do to the variables they set.                         *)
LEMMA StartType ==
  ASSUME TypeOK, NEW i \in Instances, start(i)
  PROVE  /\ asked' \in [Instances -> BOOLEAN]
         /\ checks' \in [Instances -> Nat]
  <1>1. CASE LaunchCheck(i) /\ UNCHANGED asked
    BY <1>1 DEF TypeOK, LaunchCheck
  <1>2. CASE AskPermissions(i)
    BY <1>2 DEF TypeOK, AskPermissions
  <1>3. CASE UNCHANGED <<asked, checks>>
    BY <1>3 DEF TypeOK
  <1> QED BY <1>1, <1>2, <1>3 DEF start

(* stop() keeps the types of the variables it sets.                        *)
LEMMA StopType ==
  ASSUME TypeOK, NEW i \in Instances, stop(i)
  PROVE  /\ active' \in BOOLEAN
         /\ prefs' \in [Tiles -> BOOLEAN]
         /\ flags' \in [Instances -> [Tiles -> BOOLEAN]]
         /\ streaming' \in [Instances -> BOOLEAN]
  BY AllOffType DEF TypeOK, stop

HandlerType ==
  /\ active' \in BOOLEAN
  /\ prefs' \in [Tiles -> BOOLEAN]
  /\ resets' \in Nat
  /\ flags' \in [Instances -> [Tiles -> BOOLEAN]]
  /\ mode' \in [Instances -> Modes]
  /\ pending' \in [Instances -> Modes \cup {"none"}]
  /\ asked' \in [Instances -> BOOLEAN]
  /\ checks' \in [Instances -> Nat]
  /\ closing' \in [Instances -> BOOLEAN]
  /\ streaming' \in [Instances -> BOOLEAN]

(* A tile toggle, from an intent or a broadcast, keeps the types.          *)
LEMMA ToggleType ==
  ASSUME TypeOK, NEW i \in Instances, NEW t \in Tiles, NEW v \in BOOLEAN,
         handleTileToggle(i, t, v)
  PROVE  HandlerType
  <1> DEFINE toggled == [flags[i] EXCEPT ![t] = v]
             anyTileActive == \E u \in Tiles : toggled[u]
  <1>1. toggled \in [Tiles -> BOOLEAN]
    BY DEF TypeOK
  <1>2. CASE /\ anyTileActive /\ ~active
             /\ flags' = [flags EXCEPT ![i] = toggled]
             /\ mode' = [mode EXCEPT ![i] = "VIDEO_SEGMENTS"]
             /\ \/ surface[i] /\ start(i) /\ UNCHANGED pending
                \/ /\ pending' = [pending EXCEPT ![i] = "VIDEO_SEGMENTS"]
                   /\ UNCHANGED <<asked, checks>>
             /\ UNCHANGED <<active, prefs, streaming, closing, resets>>
    <2> HIDE DEF toggled
    <2>1. /\ asked' \in [Instances -> BOOLEAN]
          /\ checks' \in [Instances -> Nat]
      BY <1>2, StartType DEF TypeOK
    <2>2. QED
      BY <1>1, <1>2, <2>1 DEF TypeOK, HandlerType, Modes
  <1>3. CASE /\ stop(i)
             /\ closing' = [closing EXCEPT ![i] = TRUE]
             /\ UNCHANGED <<mode, pending, asked, checks, resets>>
    BY <1>3, StopType DEF TypeOK, HandlerType
  <1>4. CASE /\ flags' = [flags EXCEPT ![i] = toggled]
             /\ UNCHANGED <<active, prefs, streaming, closing, resets, mode,
                            pending, asked, checks>>
    <2> HIDE DEF toggled
    <2> QED BY <1>1, <1>4 DEF TypeOK, HandlerType
  <1>5. QED
    BY <1>2, <1>3, <1>4 DEF handleTileToggle

(* Handling an intent keeps the types.                                     *)
LEMMA IntentType ==
  ASSUME TypeOK, NEW i \in Instances, NEW m \in Msg,
         handleQuickTileIntent(i, m)
  PROVE  HandlerType
  <1>1. CASE m.kind = "tile" /\ handleTileToggle(i, m.tile, m.value)
    BY <1>1, MsgFacts, ToggleType
  <1>2. CASE m.kind = "stop" /\ stop_and_close(i)
    <2>1. /\ active' \in BOOLEAN
          /\ prefs' \in [Tiles -> BOOLEAN]
          /\ flags' \in [Instances -> [Tiles -> BOOLEAN]]
          /\ streaming' \in [Instances -> BOOLEAN]
      BY <1>2, StopType DEF stop_and_close, TypeOK
    <2>2. closing' \in [Instances -> BOOLEAN]
      BY <1>2, closing' = closing \/ closing' = [closing EXCEPT ![i] = TRUE]
         DEF stop_and_close, TypeOK
    <2>5. resets' \in Nat
      BY <1>2 DEF stop_and_close, TypeOK
    <2>3. /\ mode' = mode /\ pending' = pending
          /\ asked' = asked /\ checks' = checks
      BY <1>2 DEF stop_and_close
    <2>4. QED BY <2>1, <2>2, <2>5, <2>3 DEF HandlerType, TypeOK
  <1>3. CASE m.kind = "mode" /\ auto_start(i, m.mode)
    <2>1. m.mode \in Modes
      BY <1>3, MsgFacts
    <2>2. /\ active' \in BOOLEAN
          /\ prefs' \in [Tiles -> BOOLEAN]
          /\ flags' \in [Instances -> [Tiles -> BOOLEAN]]
          /\ streaming' \in [Instances -> BOOLEAN]
      BY <1>3, StopType DEF auto_start, TypeOK
    <2>3. /\ asked' \in [Instances -> BOOLEAN]
          /\ checks' \in [Instances -> Nat]
      BY <1>3, StartType DEF auto_start, TypeOK
    <2>4. QED
      BY <1>3, <2>1, <2>2, <2>3 DEF auto_start, HandlerType, TypeOK
  <1>4. CASE /\ m.kind = "open"
             /\ UNCHANGED <<active, prefs, flags, streaming, closing, resets,
                            mode, pending, asked, checks>>
    BY <1>4 DEF HandlerType, TypeOK
  <1>5. QED
    BY <1>1, <1>2, <1>3, <1>4 DEF handleQuickTileIntent

(* A tap on a tile, sent as an intent or as a broadcast, keeps the types.  *)
LEMMA TapType ==
  ASSUME TypeOK, NEW t \in Tiles, TapTile(t)
  PROVE  TypeOK'
  <1> DEFINE m == [kind |-> "tile", tile |-> t, value |-> ~prefs[t]]
  <1>1. m \in TileMsg /\ m \in Msg
    BY MsgFacts DEF TypeOK
  <1>2. prefs' \in [Tiles -> BOOLEAN]
    BY DEF TapTile, TypeOK
  <1> HIDE DEF m
  <1>3. CASE Broadcast(m) /\ UNCHANGED intents
    <2>1. casts' \in [Instances -> Seq(TileMsg)]
      BY <1>1, <1>3 DEF Broadcast, TypeOK
    <2>2. QED
      BY <1>2, <1>3, <2>1 DEF TapTile, TypeOK, lifeVars, choiceVars,
         launchVars, recorderVars
  <1>4. CASE Send(m) /\ UNCHANGED casts
    <2>1. intents' \in Seq(Msg)
      BY <1>1, <1>4 DEF Send, TypeOK
    <2>2. QED
      BY <1>2, <1>4, <2>1 DEF TapTile, TypeOK, lifeVars, choiceVars,
         launchVars, recorderVars
  <1> QED BY <1>3, <1>4 DEF TapTile, m

(* What the user does outside the activity keeps the types.                *)
LEMMA UserType ==
  ASSUME TypeOK, User
  PROVE  TypeOK'
  <1>1. ASSUME NEW m \in ButtonModes, PressButton(m) PROVE TypeOK'
    <2>1. intents' \in Seq(Msg)
      BY <1>1, MsgFacts DEF PressButton, Send, TypeOK
    <2> QED
      BY <1>1, <2>1 DEF PressButton, TypeOK, lifeVars, choiceVars,
         launchVars, timerVars, recorderVars
  <1>2. CASE OpenApp
    <2>1. intents' \in Seq(Msg)
      BY <1>2, MsgFacts DEF OpenApp, Send, TypeOK
    <2> QED
      BY <1>2, <2>1 DEF OpenApp, TypeOK, lifeVars, choiceVars,
         launchVars, timerVars, recorderVars
  <1>3. CASE TapSendToGroup \/ TapSendToContacts \/ TapSaveToGallery
    BY <1>3, TapType DEF TapSendToGroup, TapSendToContacts, TapSaveToGallery
  <1> QED BY <1>1, <1>2, <1>3 DEF User

(* Finishing, destroying and recreating an activity keep the types.        *)
LEMMA LifecycleType ==
  ASSUME TypeOK, NEW i \in Instances, Lifecycle(i)
  PROVE  TypeOK'
  <1>1. CASE FinishedOutside(i)
    BY <1>1 DEF FinishedOutside, TypeOK, processVars, choiceVars, launchVars,
       timerVars, recorderVars
  <1>2. ASSUME ScopeCancelled(i)
        PROVE  /\ active' \in BOOLEAN
               /\ prefs' \in [Tiles -> BOOLEAN]
               /\ surface' \in [Instances -> BOOLEAN]
               /\ posted' \in [Instances -> Nat]
               /\ checks' \in [Instances -> Nat]
               /\ armed' \in [Instances -> BOOLEAN]
               /\ casts' \in [Instances -> Seq(TileMsg)]
               /\ preparing' \in [Instances -> Nat]
               /\ atHead' \in [Instances -> Nat]
               /\ inSegment' \in [Instances -> Nat]
               /\ streaming' \in [Instances -> BOOLEAN]
    <2>1. active' \in BOOLEAN /\ prefs' \in [Tiles -> BOOLEAN]
      BY <1>2, AllOffType DEF ScopeCancelled, TypeOK
    <2>2. casts' \in [Instances -> Seq(TileMsg)]
      <3>1. <<>> \in Seq(TileMsg)
        OBVIOUS
      <3> QED BY <1>2, <3>1 DEF ScopeCancelled, TypeOK
    <2>3. /\ surface' \in [Instances -> BOOLEAN]
          /\ posted' \in [Instances -> Nat]
          /\ checks' \in [Instances -> Nat]
          /\ armed' \in [Instances -> BOOLEAN]
      BY <1>2 DEF ScopeCancelled, TypeOK
    <2>4. /\ preparing' \in [Instances -> Nat]
          /\ atHead' \in [Instances -> Nat]
          /\ inSegment' \in [Instances -> Nat]
          /\ streaming' \in [Instances -> BOOLEAN]
      BY <1>2 DEF ScopeCancelled, TypeOK
    <2> QED BY <2>1, <2>2, <2>3, <2>4
  <1>3. CASE onDestroy(i)
    <2>1. /\ phase' \in [Instances -> {"absent", "live", "finishing"}]
          /\ retained' \in [Instances -> Msg]
          /\ flags' \in [Instances -> [Tiles -> BOOLEAN]]
          /\ mode' \in [Instances -> Modes]
          /\ pending' \in [Instances -> Modes \cup {"none"}]
          /\ intents' \in Seq(Msg) /\ resets' \in Nat
      BY <1>3, AllOffType, MsgFacts DEF onDestroy, TypeOK, Modes
    <2>2. /\ asked' \in [Instances -> BOOLEAN]
          /\ closing' \in [Instances -> BOOLEAN]
      BY <1>3 DEF onDestroy, TypeOK
    <2> QED BY <1>2, <1>3, <2>1, <2>2 DEF onDestroy, TypeOK
  <1>4. CASE Recreate(i)
    <2> DEFINE m  == retained[i]
               on == m.kind = "tile" /\ m.value
    <2>1. flags' \in [Instances -> [Tiles -> BOOLEAN]]
      <3>1. [t \in Tiles |-> on /\ t = m.tile] \in [Tiles -> BOOLEAN]
        <4>1. m \in Msg
          BY DEF TypeOK
        <4>2. m.kind = "tile" => m.value \in BOOLEAN
          BY <4>1, MsgFacts
        <4> QED BY <4>2
      <3>2. flags' = [flags EXCEPT ![i] = [t \in Tiles |-> on /\ t = m.tile]]
        BY <1>4 DEF Recreate
      <3> HIDE DEF on, m
      <3> QED BY <3>1, <3>2 DEF TypeOK
    <2>2. m.kind = "mode" => m.mode \in Modes
      BY MsgFacts DEF TypeOK
    <2>3. /\ mode' \in [Instances -> Modes]
          /\ pending' \in [Instances -> Modes \cup {"none"}]
      BY <1>4, <2>2 DEF Recreate, TypeOK, Modes
    <2>4. resets' \in Nat
      BY <1>4 DEF Recreate, TypeOK
    <2> QED BY <1>2, <1>4, <2>1, <2>3, <2>4 DEF Recreate, TypeOK
  <1> QED BY <1>1, <1>3, <1>4 DEF Lifecycle

(* The surface coming and going keeps the types.                           *)
LEMMA SurfaceType ==
  ASSUME TypeOK, NEW i \in Instances, Surface(i)
  PROVE  TypeOK'
  <1>1. CASE SurfaceCreated(i)
    <2>1. /\ surface' \in [Instances -> BOOLEAN]
          /\ mode' \in [Instances -> Modes]
          /\ pending' \in [Instances -> Modes \cup {"none"}]
          /\ posted' \in [Instances -> Nat]
      <3>1. CASE pending[i] # "none"
        <4>1. pending[i] \in Modes
          BY <3>1 DEF TypeOK
        <4>2. /\ surface' = [surface EXCEPT ![i] = TRUE]
              /\ mode' = [mode EXCEPT ![i] = pending[i]]
              /\ pending' = [pending EXCEPT ![i] = "none"]
              /\ posted' = [posted EXCEPT ![i] = posted[i] + 1]
          BY <1>1, <3>1 DEF SurfaceCreated
        <4>3. posted' \in [Instances -> Nat]
          BY <4>2 DEF TypeOK
        <4>4. mode' \in [Instances -> Modes]
          BY <4>1, <4>2 DEF TypeOK
        <4> QED BY <4>2, <4>3, <4>4 DEF TypeOK
      <3>2. CASE pending[i] = "none"
        BY <1>1, <3>2 DEF SurfaceCreated, TypeOK
      <3> QED BY <3>1, <3>2
    <2> QED
      BY <1>1, <2>1 DEF SurfaceCreated, TypeOK, processVars, timerVars,
         recorderVars
  <1>2. CASE SurfaceDestroyed(i)
    BY <1>2 DEF SurfaceDestroyed, TypeOK, processVars, choiceVars, launchVars,
       timerVars, recorderVars
  <1> QED BY <1>1, <1>2 DEF Surface

(* Deliveries, permission results, access checks and timers keep the       *)
(* types.                                                                  *)
LEMMA MainThreadType ==
  ASSUME TypeOK, NEW i \in Instances, MainThread(i)
  PROVE  TypeOK'
  <1>1. CASE DeliverIntent(i)
    <2>1. Head(intents) \in Msg /\ Tail(intents) \in Seq(Msg)
      BY <1>1 DEF DeliverIntent, TypeOK
    <2>2. HandlerType
      BY <1>1, <2>1, IntentType DEF DeliverIntent
    <2>3. /\ phase' \in [Instances -> {"absent", "live", "finishing"}]
          /\ retained' \in [Instances -> Msg]
      <3>1. phase' = [phase EXCEPT ![i] = "live"]
        BY <1>1 DEF DeliverIntent
      <3>2. \/ retained' = [retained EXCEPT ![i] = Head(intents)]
            \/ retained' = retained
        BY <1>1 DEF DeliverIntent
      <3>3. CASE retained' = [retained EXCEPT ![i] = Head(intents)]
        BY <2>1, <3>1, <3>3 DEF TypeOK
      <3>4. CASE retained' = retained
        BY <3>1, <3>4 DEF TypeOK
      <3> QED BY <3>2, <3>3, <3>4
    <2> QED BY <1>1, <2>1, <2>2, <2>3 DEF DeliverIntent, HandlerType, TypeOK
  <1>2. CASE DeliverBroadcast(i)
    <2>1. casts[i] \in Seq(TileMsg)
      BY DEF TypeOK
    <2>2. Head(casts[i]) \in TileMsg /\ Tail(casts[i]) \in Seq(TileMsg)
      BY <1>2, <2>1 DEF DeliverBroadcast
    <2>3. HandlerType
      <3>1. Head(casts[i]).tile \in Tiles /\ Head(casts[i]).value \in BOOLEAN
        BY <2>2, MsgFacts
      <3> QED BY <1>2, <3>1, ToggleType DEF DeliverBroadcast
    <2>4. casts' \in [Instances -> Seq(TileMsg)]
      BY <1>2, <2>2 DEF DeliverBroadcast, TypeOK
    <2> QED
      BY <1>2, <2>3, <2>4 DEF DeliverBroadcast, HandlerType, TypeOK, lifeVars
  <1>3. CASE PostedStart(i)
    <2>1. /\ asked' \in [Instances -> BOOLEAN]
          /\ checks' \in [Instances -> Nat]
      BY <1>3, StartType DEF PostedStart, TypeOK
    <2>2. posted' \in [Instances -> Nat]
      BY <1>3 DEF PostedStart, TypeOK
    <2> QED
      BY <1>3, <2>1, <2>2 DEF PostedStart, TypeOK, processVars, lifeVars,
         choiceVars, timerVars, recorderVars
  <1>4. CASE PermissionResult(i)
    <2>1. asked' \in [Instances -> BOOLEAN]
      BY <1>4 DEF PermissionResult, TypeOK
    <2>2. checks' \in [Instances -> Nat]
      <3>1. \/ checks' = [checks EXCEPT ![i] = @ + 1]
            \/ checks' = checks
        BY <1>4 DEF PermissionResult, LaunchCheck
      <3>2. CASE checks' = [checks EXCEPT ![i] = @ + 1]
        BY <3>2 DEF TypeOK
      <3>3. CASE checks' = checks
        BY <3>3 DEF TypeOK
      <3> QED BY <3>1, <3>2, <3>3
    <2> QED
      BY <1>4, <2>1, <2>2 DEF PermissionResult, TypeOK, processVars, lifeVars,
         choiceVars, timerVars, recorderVars
  <1>5. CASE AccessCheckDone(i)
    <2>1. checks' \in [Instances -> Nat]
      BY <1>5 DEF AccessCheckDone, TypeOK
    <2>2. /\ active' \in BOOLEAN
          /\ armed' \in [Instances -> BOOLEAN]
          /\ preparing' \in [Instances -> Nat]
          /\ streaming' \in [Instances -> BOOLEAN]
      <3>1. CASE startAfterAccessCheck(i)
        <4>1. active' \in BOOLEAN /\ armed' \in [Instances -> BOOLEAN]
          BY <3>1 DEF startAfterAccessCheck, TypeOK
        <4>2. \/ preparing' = [preparing EXCEPT ![i] = @ + 1]
              \/ preparing' = preparing
          BY <3>1 DEF startAfterAccessCheck
        <4>3. \/ streaming' = [streaming EXCEPT ![i] = @ \/ surface[i]]
              \/ streaming' = streaming
          BY <3>1 DEF startAfterAccessCheck
        <4>4. streaming' \in [Instances -> BOOLEAN]
          BY <4>3 DEF TypeOK
        <4> QED BY <4>1, <4>2, <4>4 DEF TypeOK
      <3>2. CASE UNCHANGED <<active, armed, preparing, streaming>>
        BY <3>2 DEF TypeOK
      <3> QED BY <1>5, <3>1, <3>2 DEF AccessCheckDone
    <2> QED
      BY <1>5, <2>1, <2>2 DEF AccessCheckDone, TypeOK, lifeVars, choiceVars
  <1>6. CASE AutoStopFires(i)
    <2>1. intents' \in Seq(Msg)
      <3>1. intents' = Append(intents, StopMsg) \/ intents' = intents
        BY <1>6 DEF AutoStopFires, Send
      <3>2. CASE intents' = Append(intents, StopMsg)
        BY <3>2, MsgFacts DEF TypeOK
      <3>3. CASE intents' = intents
        BY <3>3 DEF TypeOK
      <3> QED BY <3>1, <3>2, <3>3
    <2>2. armed' \in [Instances -> BOOLEAN]
      BY <1>6 DEF AutoStopFires, TypeOK
    <2> QED
      BY <1>6, <2>1, <2>2 DEF AutoStopFires, TypeOK, lifeVars, choiceVars,
         launchVars, recorderVars
  <1>7. CASE CloseActivity(i)
    BY <1>7 DEF CloseActivity, TypeOK, processVars, choiceVars, launchVars,
       recorderVars
  <1> QED
    BY <1>1, <1>2, <1>3, <1>4, <1>5, <1>6, <1>7 DEF MainThread

(* A step of a recorder loop keeps the types.                              *)
LEMMA RecorderType ==
  ASSUME TypeOK, NEW i \in Instances, Recorder(i)
  PROVE  TypeOK'
  <1>1. /\ preparing' \in [Instances -> Nat]
        /\ atHead' \in [Instances -> Nat]
        /\ inSegment' \in [Instances -> Nat]
        /\ UNCHANGED streaming
        /\ UNCHANGED <<processVars, lifeVars, choiceVars, launchVars,
                       timerVars>>
    <2>1. CASE RecorderPrepared(i)
      BY <2>1 DEF RecorderPrepared, TypeOK
    <2>2. CASE RecorderFails(i)
      BY <2>2 DEF RecorderFails, TypeOK
    <2>3. CASE SegmentBegins(i)
      BY <2>3 DEF SegmentBegins, TypeOK
    <2>4. CASE SegmentEnds(i)
      BY <2>4 DEF SegmentEnds, TypeOK
    <2>5. CASE RecorderExits(i)
      BY <2>5 DEF RecorderExits, TypeOK
    <2> QED BY <2>1, <2>2, <2>3, <2>4, <2>5 DEF Recorder
  <1> QED
    BY <1>1 DEF TypeOK, processVars, lifeVars, choiceVars, launchVars,
       timerVars

(* The death of the process keeps the types.                               *)
LEMMA ProcessDiesType ==
  ASSUME TypeOK, ProcessDies
  PROVE  TypeOK'
  <1>2. /\ active' \in BOOLEAN /\ prefs' \in [Tiles -> BOOLEAN]
        /\ resets' \in Nat
    BY DEF ProcessDies, TypeOK
  <1>3. intents' \in Seq(Msg)
    BY DEF ProcessDies
  <1>4. casts' \in [Instances -> Seq(TileMsg)]
    <2>1. <<>> \in Seq(TileMsg)
      OBVIOUS
    <2> QED BY <2>1 DEF ProcessDies
  <1>5. /\ phase' \in [Instances -> {"absent", "live", "finishing"}]
        /\ retained' \in [Instances -> Msg]
        /\ surface' \in [Instances -> BOOLEAN]
    BY MsgFacts DEF ProcessDies
  <1>6. /\ flags' \in [Instances -> [Tiles -> BOOLEAN]]
        /\ mode' \in [Instances -> Modes]
        /\ pending' \in [Instances -> Modes \cup {"none"}]
    BY AllOffType DEF ProcessDies, Modes
  <1>7. /\ posted' \in [Instances -> Nat]
        /\ asked' \in [Instances -> BOOLEAN]
        /\ checks' \in [Instances -> Nat]
        /\ armed' \in [Instances -> BOOLEAN]
        /\ closing' \in [Instances -> BOOLEAN]
    BY DEF ProcessDies
  <1>8. /\ preparing' \in [Instances -> Nat]
        /\ atHead' \in [Instances -> Nat]
        /\ inSegment' \in [Instances -> Nat]
        /\ streaming' \in [Instances -> BOOLEAN]
    BY DEF ProcessDies
  <1> QED
    BY <1>2, <1>3, <1>4, <1>5, <1>6, <1>7, <1>8 DEF TypeOK

(* Type correctness: whatever the tiles, the buttons, the surface, the     *)
(* looper and the system do, in whatever order, no counter of pending work *)
(* goes below zero and every queued message is one a handler understands.  *)
THEOREM TypeCorrect == Spec => []TypeOK
  <1>1. TypeOK /\ [Next]_vars => TypeOK'
    <2> SUFFICES ASSUME TypeOK, [Next]_vars PROVE TypeOK'
      OBVIOUS
    <2>1. CASE User
      BY <2>1, UserType
    <2>2. ASSUME NEW i \in Instances,
                 Lifecycle(i) \/ Surface(i) \/ MainThread(i) \/ Recorder(i)
          PROVE  TypeOK'
      BY <2>2, LifecycleType, SurfaceType, MainThreadType, RecorderType
    <2>3. CASE ResetTiles
      <3>1. resets' \in Nat /\ prefs' \in [Tiles -> BOOLEAN]
        BY <2>3, AllOffType DEF ResetTiles, TypeOK
      <3> QED
        BY <2>3, <3>1 DEF ResetTiles, TypeOK, lifeVars, choiceVars,
           launchVars, timerVars, recorderVars
    <2>4. CASE ProcessDies
      BY <2>4, ProcessDiesType
    <2>5. CASE UNCHANGED vars
      BY <2>5 DEF TypeOK, vars, processVars, lifeVars, choiceVars, launchVars,
         timerVars, recorderVars
    <2> QED BY <2>1, <2>2, <2>3, <2>4, <2>5 DEF Next
  <1> QED BY TypeInit, <1>1, PTL DEF Spec

-----------------------------------------------------------------------------
(* Work that can end in a session belongs to an activity that exists.      *)
WorkHasActivity ==
  \A i \in Instances :
    checks[i] > 0 \/ asked[i] \/ posted[i] > 0 \/ casts[i] # <<>> => Exists(i)

SafeInv == WorkHasActivity /\ ActiveHasActivity /\ AutoStopPending

(* A handler never makes a session active, only its own instance asks or   *)
(* launches, and the stop intent leaves no session behind.                 *)
LEMMA StartKeeps ==
  ASSUME TypeOK, NEW i \in Instances, start(i)
  PROVE  /\ \A j \in Instances \ {i} :
              checks'[j] = checks[j] /\ asked'[j] = asked[j]
         /\ \A j \in Instances : asked'[j] => asked[j] \/ "ask" \in Events
  BY DEF start, LaunchCheck, AskPermissions, TypeOK

HandlerKeeps(i) ==
  /\ active' => active
  /\ \A j \in Instances \ {i} :
       checks'[j] = checks[j] /\ asked'[j] = asked[j]
  /\ \A j \in Instances : asked'[j] => asked[j] \/ "ask" \in Events

(* A tile toggle makes no session active and launches only in its own      *)
(* activity.                                                               *)
LEMMA ToggleKeeps ==
  ASSUME TypeOK, NEW i \in Instances, NEW t, NEW v, handleTileToggle(i, t, v)
  PROVE  HandlerKeeps(i)
  <1>1. active' => active
    BY DEF handleTileToggle, stop
  <1>2. start(i) \/ UNCHANGED <<asked, checks>>
    BY DEF handleTileToggle
  <1> QED BY <1>1, <1>2, StartKeeps DEF HandlerKeeps

(* Handling an intent makes no session active, and the stop intent leaves  *)
(* none.                                                                   *)
LEMMA IntentKeeps ==
  ASSUME TypeOK, NEW i \in Instances, NEW m \in Msg,
         handleQuickTileIntent(i, m)
  PROVE  HandlerKeeps(i) /\ (m = StopMsg => ~active')
  <1>1. CASE m.kind = "tile" /\ handleTileToggle(i, m.tile, m.value)
    BY <1>1, ToggleKeeps DEF StopMsg
  <1>2. CASE m.kind = "stop" /\ stop_and_close(i)
    <2>1. ~active'
      BY <1>2 DEF stop_and_close, stop, TypeOK
    <2>2. UNCHANGED <<asked, checks>>
      BY <1>2 DEF stop_and_close
    <2> QED BY <2>1, <2>2 DEF HandlerKeeps
  <1>3. CASE m.kind = "mode" /\ auto_start(i, m.mode)
    <2>1. ~active'
      BY <1>3 DEF auto_start, stop, TypeOK
    <2>2. start(i) \/ UNCHANGED <<asked, checks>>
      BY <1>3 DEF auto_start
    <2> QED BY <2>1, <2>2, StartKeeps DEF HandlerKeeps
  <1>4. CASE /\ m.kind = "open"
             /\ UNCHANGED <<active, prefs, flags, streaming, closing, resets,
                            mode, pending, asked, checks>>
    BY <1>4 DEF HandlerKeeps, StopMsg
  <1> QED BY <1>1, <1>2, <1>3, <1>4 DEF handleQuickTileIntent

(* Sending an intent loses none that is already on its way.                *)
LEMMA SendKeeps ==
  ASSUME TypeOK, NEW m \in Msg, Send(m)
  PROVE  /\ StopOnItsWay => StopOnItsWay'
         /\ m = StopMsg => StopOnItsWay'
  <1>1. intents \in Seq(Msg) /\ intents' = Append(intents, m)
    BY DEF Send, TypeOK
  <1>2. /\ DOMAIN intents' = 1 .. Len(intents) + 1
        /\ \A k \in DOMAIN intents :
             k \in DOMAIN intents' /\ intents'[k] = intents[k]
        /\ intents'[Len(intents) + 1] = m
    BY <1>1
  <1> QED BY <1>1, <1>2 DEF StopOnItsWay

(* Delivering another intent leaves the stop on its way.                   *)
LEMMA TailKeeps ==
  ASSUME TypeOK, intents # <<>>, intents' = Tail(intents), StopOnItsWay,
         Head(intents) # StopMsg
  PROVE  StopOnItsWay'
  <1>1. PICK k \in DOMAIN intents : intents[k] = StopMsg
    BY DEF StopOnItsWay
  <1>2. intents \in Seq(Msg)
    BY DEF TypeOK
  <1>3. k # 1 /\ k \in 1 .. Len(intents)
    BY <1>1, <1>2
  <1>4. k - 1 \in DOMAIN Tail(intents) /\ Tail(intents)[k - 1] = intents[k]
    BY <1>2, <1>3
  <1> QED BY <1>1, <1>4 DEF StopOnItsWay

(* The safety invariant holds when the process starts.                     *)
LEMMA SafeInit == Init => SafeInv
  BY DEF Init, SafeInv, WorkHasActivity, ActiveHasActivity, AutoStopPending

(* Steps that start nothing, end no instance and take no intent away.      *)
LEMMA QuietStep ==
  ASSUME SafeInv, active' => active,
         \A i \in Instances : Exists(i) => Exists(i)',
         \A i \in Instances :
           \/ Exists(i)'
           \/ /\ checks'[i] = checks[i] /\ asked'[i] = asked[i]
              /\ posted'[i] = posted[i] /\ casts'[i] = casts[i],
         \A i \in Instances : armed[i] /\ active' => armed'[i] \/ StopOnItsWay',
         StopOnItsWay /\ active' => StopOnItsWay'
  PROVE  SafeInv'
  <1>1. WorkHasActivity'
    BY DEF SafeInv, WorkHasActivity, Exists
  <1>2. ActiveHasActivity'
    BY DEF SafeInv, ActiveHasActivity
  <1>3. AutoStopPending'
    BY DEF SafeInv, AutoStopPending
  <1> QED BY <1>1, <1>2, <1>3 DEF SafeInv

(* Deliveries, permission results, access checks and timers keep the       *)
(* safety invariant: the one step that makes a session active arms its     *)
(* end.                                                                    *)
LEMMA SafeMainThread ==
  ASSUME TypeOK, SafeInv, NEW i \in Instances, MainThread(i)
  PROVE  SafeInv'
  <1>1. CASE DeliverIntent(i)
    <2>1. /\ intents # <<>> /\ intents' = Tail(intents)
          /\ phase' = [phase EXCEPT ![i] = "live"]
          /\ UNCHANGED <<posted, armed, casts>>
          /\ handleQuickTileIntent(i, Head(intents))
      BY <1>1 DEF DeliverIntent
    <2>2. Head(intents) \in Msg
      BY <2>1 DEF TypeOK
    <2>3. HandlerKeeps(i) /\ (Head(intents) = StopMsg => ~active')
      BY <2>1, <2>2, IntentKeeps
    <2>4. StopOnItsWay /\ active' => StopOnItsWay'
      BY <2>1, <2>3, TailKeeps
    <2>5. Exists(i)' /\ \A j \in Instances : Exists(j) => Exists(j)'
      BY <2>1 DEF TypeOK, Exists
    <2> QED BY <2>1, <2>3, <2>4, <2>5, QuietStep DEF HandlerKeeps
  <1>2. CASE DeliverBroadcast(i)
    <2>1. /\ casts[i] # <<>> /\ casts' = [casts EXCEPT ![i] = Tail(@)]
          /\ UNCHANGED <<phase, intents, posted, armed>>
          /\ HandlerKeeps(i)
      BY <1>2, ToggleKeeps DEF DeliverBroadcast, lifeVars
    <2>2. Exists(i)'
      BY <2>1 DEF SafeInv, WorkHasActivity, Exists
    <2>3. \A j \in Instances \ {i} : casts'[j] = casts[j]
      BY <2>1 DEF TypeOK
    <2> QED
      BY <2>1, <2>2, <2>3, QuietStep DEF HandlerKeeps, Exists, StopOnItsWay
  <1>3. CASE PostedStart(i)
    <2>1. /\ posted[i] > 0 /\ posted' = [posted EXCEPT ![i] = @ - 1]
          /\ start(i) \/ UNCHANGED <<asked, checks>>
          /\ UNCHANGED <<active, phase, intents, armed, casts>>
      BY <1>3 DEF PostedStart, processVars, lifeVars, timerVars
    <2>2. Exists(i)'
      BY <2>1 DEF SafeInv, WorkHasActivity, Exists
    <2>3. \A j \in Instances \ {i} :
            /\ posted'[j] = posted[j]
            /\ checks'[j] = checks[j] /\ asked'[j] = asked[j]
      BY <2>1, StartKeeps DEF TypeOK
    <2> QED BY <2>1, <2>2, <2>3, QuietStep DEF Exists, StopOnItsWay
  <1>4. CASE PermissionResult(i)
    <2>1. /\ asked[i] /\ asked' = [asked EXCEPT ![i] = FALSE]
          /\ checks' = [checks EXCEPT ![i] = @ + 1] \/ checks' = checks
          /\ UNCHANGED <<active, phase, intents, posted, armed, casts>>
      BY <1>4 DEF PermissionResult, LaunchCheck, processVars, lifeVars,
         timerVars
    <2>2. Exists(i)'
      BY <2>1 DEF SafeInv, WorkHasActivity, Exists
    <2>3. \A j \in Instances \ {i} :
            checks'[j] = checks[j] /\ asked'[j] = asked[j]
      BY <2>1 DEF TypeOK
    <2> QED BY <2>1, <2>2, <2>3, QuietStep DEF Exists, StopOnItsWay
  <1>5. CASE AccessCheckDone(i)
    <2>1. /\ checks[i] > 0 /\ checks' = [checks EXCEPT ![i] = @ - 1]
          /\ UNCHANGED <<phase, intents, posted, asked, casts>>
          /\ startAfterAccessCheck(i) \/ UNCHANGED <<active, armed>>
      BY <1>5 DEF AccessCheckDone, lifeVars
    <2>2. Exists(i)'
      BY <2>1 DEF SafeInv, WorkHasActivity, Exists
    <2>3. \A j \in Instances \ {i} : checks'[j] = checks[j]
      BY <2>1 DEF TypeOK
    <2>4. CASE startAfterAccessCheck(i)
      <3>1. armed'[i]
        BY <2>4 DEF startAfterAccessCheck, TypeOK
      <3>2. WorkHasActivity'
        BY <2>1, <2>2, <2>3 DEF SafeInv, WorkHasActivity, Exists
      <3> QED
        BY <2>2, <3>1, <3>2 DEF SafeInv, ActiveHasActivity, AutoStopPending
    <2>5. CASE UNCHANGED <<active, armed>>
      BY <2>1, <2>2, <2>3, <2>5, QuietStep DEF Exists, StopOnItsWay
    <2> QED BY <2>1, <2>4, <2>5
  <1>6. CASE AutoStopFires(i)
    <2>1. /\ armed' = [armed EXCEPT ![i] = FALSE]
          /\ active => Send(StopMsg)
          /\ UNCHANGED <<active, phase, posted, asked, checks, casts>>
      BY <1>6 DEF AutoStopFires, lifeVars, launchVars
    <2>2. active => StopOnItsWay'
      BY <2>1, SendKeeps, MsgFacts
    <2>3. \A j \in Instances : Exists(j) => Exists(j)'
      BY <2>1 DEF Exists
    <2> QED BY <2>1, <2>2, <2>3, QuietStep
  <1>7. CASE CloseActivity(i)
    <2>1. /\ phase' = [phase EXCEPT ![i] = "finishing"]
          /\ UNCHANGED <<active, intents, posted, asked, checks, armed, casts>>
      BY <1>7 DEF CloseActivity, processVars, launchVars
    <2>2. \A j \in Instances : Exists(j) => Exists(j)'
      BY <2>1 DEF TypeOK, Exists
    <2> QED BY <2>1, <2>2, QuietStep DEF StopOnItsWay
  <1> QED
    BY <1>1, <1>2, <1>3, <1>4, <1>5, <1>6, <1>7 DEF MainThread

(* The end of an activity, which is also the end of its one-hour job, ends *)
(* the session as well.                                                    *)
LEMMA SafeLifecycle ==
  ASSUME TypeOK, SafeInv, NEW i \in Instances, Lifecycle(i)
  PROVE  SafeInv'
  <1>1. CASE FinishedOutside(i)
    <2>1. /\ phase' = [phase EXCEPT ![i] = "finishing"]
          /\ UNCHANGED <<active, intents, posted, asked, checks, armed, casts>>
      BY <1>1 DEF FinishedOutside, processVars, launchVars, timerVars
    <2>2. \A j \in Instances : Exists(j) => Exists(j)'
      BY <2>1 DEF TypeOK, Exists
    <2> QED BY <2>1, <2>2, QuietStep DEF StopOnItsWay
  <1>2. ASSUME ScopeCancelled(i),
               \A j \in Instances \ {i} :
                 phase'[j] = phase[j] /\ asked'[j] = asked[j],
               asked'[i] => Exists(i)'
        PROVE  SafeInv'
    <2>1. ~active'
      BY <1>2 DEF ScopeCancelled
    <2>2. /\ posted'[i] = 0 /\ checks'[i] = 0 /\ casts'[i] = <<>>
          /\ \A j \in Instances \ {i} :
               /\ posted'[j] = posted[j]
               /\ checks'[j] = checks[j] /\ casts'[j] = casts[j]
      BY <1>2 DEF ScopeCancelled, TypeOK
    <2>3. WorkHasActivity'
      BY <1>2, <2>2 DEF SafeInv, WorkHasActivity, Exists
    <2> QED BY <2>1, <2>3 DEF SafeInv, ActiveHasActivity, AutoStopPending
  <1>3. CASE onDestroy(i)
    BY <1>2, <1>3 DEF onDestroy, TypeOK
  <1>4. CASE Recreate(i)
    BY <1>2, <1>4 DEF Recreate, Exists
  <1> QED BY <1>1, <1>3, <1>4 DEF Lifecycle

(* Taps and presses only add messages.                                     *)
LEMMA SafeUser ==
  ASSUME TypeOK, SafeInv, User
  PROVE  SafeInv'
  <1>1. \/ /\ casts' = casts
           /\ \E m \in Msg : Send(m)
        \/ /\ intents' = intents
           /\ \E m \in Msg : Broadcast(m)
    <2>1. ASSUME NEW t \in Tiles, TapTile(t)
          PROVE  \/ casts' = casts /\ \E m \in Msg : Send(m)
                 \/ intents' = intents /\ \E m \in Msg : Broadcast(m)
      <3> DEFINE m == [kind |-> "tile", tile |-> t, value |-> ~prefs[t]]
      <3>1. m \in Msg
        BY MsgFacts DEF TypeOK
      <3> QED BY <2>1, <3>1 DEF TapTile
    <2>2. ASSUME NEW m \in ButtonModes, PressButton(m)
          PROVE  casts' = casts /\ \E n \in Msg : Send(n)
      BY <2>2, MsgFacts DEF PressButton, timerVars
    <2>3. CASE OpenApp
      BY <2>3, MsgFacts DEF OpenApp, timerVars
    <2> QED
      BY <2>1, <2>2, <2>3 DEF User, TapSendToGroup, TapSendToContacts,
         TapSaveToGallery
  <1>2. UNCHANGED <<active, phase, posted, asked, checks, armed>>
    BY DEF User, TapSendToGroup, TapSendToContacts, TapSaveToGallery, TapTile,
       PressButton, OpenApp, lifeVars, launchVars, timerVars
  <1>3. StopOnItsWay => StopOnItsWay'
    BY <1>1, SendKeeps DEF StopOnItsWay
  <1>4. \A j \in Instances : Exists(j)' \/ casts'[j] = casts[j]
    BY <1>1, <1>2 DEF Broadcast, Exists, TypeOK
  <1>5. \A j \in Instances : Exists(j) => Exists(j)'
    BY <1>2 DEF Exists
  <1> QED BY <1>2, <1>3, <1>4, <1>5, QuietStep

(* The surface, the recorder loops and the delayed reset of the tiles      *)
(* touch nothing the safety invariant depends on.                          *)
LEMMA SafeElse ==
  ASSUME TypeOK, SafeInv,
         \/ \E i \in Instances : Surface(i) \/ Recorder(i)
         \/ ResetTiles
         \/ UNCHANGED vars
  PROVE  SafeInv'
  <1>1. CASE \E i \in Instances : SurfaceCreated(i)
    <2>1. PICK i \in Instances : SurfaceCreated(i)
      BY <1>1
    <2>2. /\ Exists(i)
          /\ UNCHANGED <<active, phase, intents, asked, checks, armed, casts>>
      BY <2>1 DEF SurfaceCreated, processVars, timerVars
    <2>5. \A j \in Instances \ {i} : posted'[j] = posted[j]
      BY <2>1 DEF SurfaceCreated, TypeOK
    <2>3. \A j \in Instances : Exists(j)' \/ posted'[j] = posted[j]
      BY <2>2, <2>5 DEF Exists
    <2>4. \A j \in Instances : Exists(j) => Exists(j)'
      BY <2>2 DEF Exists
    <2> QED BY <2>2, <2>3, <2>4, QuietStep DEF StopOnItsWay
  <1>2. CASE UNCHANGED <<active, phase, intents, posted, asked, checks, armed,
                         casts>>
    BY <1>2, QuietStep DEF Exists, StopOnItsWay
  <1> QED
    BY <1>1, <1>2 DEF Surface, SurfaceDestroyed, Recorder, RecorderPrepared,
       RecorderFails, SegmentBegins, SegmentEnds, RecorderExits, ResetTiles,
       vars, processVars, lifeVars, launchVars, timerVars

(* The conjunction of WorkHasActivity, ActiveHasActivity and               *)
(* AutoStopPending is inductive relative to TypeOK.                        *)
THEOREM SafeInvariant == Spec => []SafeInv
  <1>1. TypeOK /\ SafeInv /\ [Next]_vars => SafeInv'
    <2> SUFFICES ASSUME TypeOK, SafeInv, [Next]_vars PROVE SafeInv'
      OBVIOUS
    <2>1. CASE ProcessDies
      <3>1. \A i \in Instances : /\ checks'[i] = 0 /\ ~asked'[i]
                                 /\ posted'[i] = 0 /\ casts'[i] = <<>>
        BY <2>1 DEF ProcessDies
      <3>2. ~active'
        BY <2>1 DEF ProcessDies
      <3> QED
        BY <3>1, <3>2 DEF SafeInv, WorkHasActivity, ActiveHasActivity,
           AutoStopPending
    <2> QED
      BY <2>1, SafeUser, SafeLifecycle, SafeMainThread, SafeElse DEF Next
  <1> QED BY SafeInit, TypeCorrect, <1>1, PTL DEF Spec

(* While a session is active the process has an activity that is not       *)
(* destroyed: the broadcast of a tile that read isActive finds a receiver. *)
THEOREM ActiveActivity == Spec => []ActiveHasActivity
  BY SafeInvariant, PTL DEF SafeInv

(* While a session is active its end is scheduled: the one-hour job of a   *)
(* live activity waits or a stop intent is on its way.                     *)
THEOREM StopScheduled == Spec => []AutoStopPending
  BY SafeInvariant, PTL DEF SafeInv

-----------------------------------------------------------------------------
(* With segment sessions only, whatever may become a start will record.    *)
OnlySegments ==
  /\ \A i \in Instances :
       /\ checks[i] > 0 \/ asked[i] \/ posted[i] > 0
            => mode[i] = "VIDEO_SEGMENTS"
       /\ asked[i] => "ask" \in Events
       /\ pending[i] \in {"none", "VIDEO_SEGMENTS"}
       /\ retained[i].kind = "mode" => retained[i].mode = "VIDEO_SEGMENTS"
  /\ \A k \in DOMAIN intents :
       intents[k].kind = "mode" => intents[k].mode = "VIDEO_SEGMENTS"

RecorderInv == OnlySegments /\ RecorderRuns

(* A handler leaves an instance that may start in the mode of segments.    *)
HandlerMode(i) ==
  /\ pending' = pending \/ pending' = [pending EXCEPT ![i] = "VIDEO_SEGMENTS"]
  /\ \/ mode' = [mode EXCEPT ![i] = "VIDEO_SEGMENTS"]
     \/ mode' = mode /\ UNCHANGED <<asked, checks>>

(* A tile toggle that may start an activity has set the mode of segments.  *)
LEMMA ToggleMode ==
  ASSUME TypeOK, NEW i \in Instances, NEW t, NEW v, handleTileToggle(i, t, v)
  PROVE  HandlerMode(i)
  <1>1. CASE UNCHANGED <<mode, pending, asked, checks>>
    BY <1>1 DEF HandlerMode
  <1>2. CASE /\ mode' = [mode EXCEPT ![i] = "VIDEO_SEGMENTS"]
             /\ \/ pending' = pending
                \/ pending' = [pending EXCEPT ![i] = "VIDEO_SEGMENTS"]
    BY <1>2 DEF HandlerMode
  <1> QED BY <1>1, <1>2 DEF handleTileToggle

(* So has an intent, when the buttons ask for no other mode.               *)
LEMMA IntentMode ==
  ASSUME TypeOK, NEW i \in Instances, NEW m \in Msg,
         m.kind = "mode" => m.mode = "VIDEO_SEGMENTS",
         handleQuickTileIntent(i, m)
  PROVE  HandlerMode(i)
  <1>1. CASE m.kind = "tile" /\ handleTileToggle(i, m.tile, m.value)
    BY <1>1, ToggleMode
  <1>2. CASE UNCHANGED <<mode, pending, asked, checks>>
    BY <1>2 DEF HandlerMode
  <1>3. CASE m.kind = "mode" /\ auto_start(i, m.mode)
    BY <1>3 DEF auto_start, HandlerMode
  <1> QED
    BY <1>1, <1>2, <1>3 DEF handleQuickTileIntent, stop_and_close

(* What a handler does to the instances and to the queue of intents.       *)
LEMMA HandlerSegments ==
  ASSUME TypeOK, OnlySegments, NEW i \in Instances,
         HandlerMode(i), HandlerKeeps(i)
  PROVE  \A j \in Instances :
           /\ checks'[j] > 0 \/ asked'[j]
                => \/ mode'[j] = "VIDEO_SEGMENTS"
                   \/ mode' = mode /\ (checks[j] > 0 \/ asked[j])
           /\ mode'[j] = "VIDEO_SEGMENTS" \/ mode'[j] = mode[j]
           /\ pending'[j] \in {"none", "VIDEO_SEGMENTS"}
  <1> SUFFICES ASSUME NEW j \in Instances
               PROVE  /\ checks'[j] > 0 \/ asked'[j]
                           => \/ mode'[j] = "VIDEO_SEGMENTS"
                              \/ mode' = mode /\ (checks[j] > 0 \/ asked[j])
                      /\ mode'[j] = "VIDEO_SEGMENTS" \/ mode'[j] = mode[j]
                      /\ pending'[j] \in {"none", "VIDEO_SEGMENTS"}
    OBVIOUS
  <1>1. pending'[j] \in {"none", "VIDEO_SEGMENTS"}
    BY DEF HandlerMode, OnlySegments, TypeOK
  <1>2. CASE mode' = mode /\ UNCHANGED <<asked, checks>>
    BY <1>1, <1>2
  <1>3. CASE mode' = [mode EXCEPT ![i] = "VIDEO_SEGMENTS"]
    <2>1. CASE j = i
      BY <1>1, <1>3, <2>1 DEF TypeOK
    <2>2. CASE j # i
      <3>1. mode'[j] = mode[j] /\ checks'[j] = checks[j] /\ asked'[j] = asked[j]
        BY <1>3, <2>2 DEF HandlerKeeps, TypeOK
      <3>2. checks[j] > 0 \/ asked[j] => mode[j] = "VIDEO_SEGMENTS"
        BY DEF OnlySegments
      <3> QED BY <1>1, <3>1, <3>2
    <2> QED BY <2>1, <2>2
  <1> QED BY <1>2, <1>3 DEF HandlerMode

(* Steps that change no mode and no intent but by appending.               *)
LEMMA AppendSegments ==
  ASSUME TypeOK, OnlySegments, NEW m \in Msg, Send(m),
         m.kind = "mode" => m.mode = "VIDEO_SEGMENTS"
  PROVE  \A k \in DOMAIN intents' :
           intents'[k].kind = "mode" => intents'[k].mode = "VIDEO_SEGMENTS"
  <1>1. intents \in Seq(Msg) /\ intents' = Append(intents, m)
    BY DEF Send, TypeOK
  <1>2. \A k \in DOMAIN intents' :
          (k \in DOMAIN intents /\ intents'[k] = intents[k]) \/ intents'[k] = m
    BY <1>1
  <1> QED BY <1>2 DEF OnlySegments

(* Steps after which every recorder that ran in an active session runs.    *)
LEMMA RecorderKept ==
  ASSUME RecorderRuns, active' => active,
         \A i \in Instances :
           active' /\ Exists(i) /\ Recorders(i) > 0
             => Exists(i)' /\ Recorders(i)' > 0
  PROVE  RecorderRuns'
  BY DEF RecorderRuns

(* The recorder invariant holds when the process starts.                   *)
LEMMA RecorderInit == Init => RecorderInv
  BY DEF Init, RecorderInv, OnlySegments, RecorderRuns, OpenMsg

(* Deliveries, permission results, access checks and timers keep the       *)
(* recorder invariant: a start that completes launches a recorder loop.    *)
LEMMA RecorderMainThread ==
  ASSUME TypeOK, SafeInv, RecorderInv, NEW i \in Instances, MainThread(i)
  PROVE  RecorderInv'
  <1>1. CASE DeliverIntent(i)
    <2>1. /\ intents # <<>> /\ intents' = Tail(intents)
          /\ phase' = [phase EXCEPT ![i] = "live"]
          /\ \/ retained' = [retained EXCEPT ![i] = Head(intents)]
             \/ retained' = retained
          /\ UNCHANGED <<posted, preparing, atHead, inSegment>>
          /\ handleQuickTileIntent(i, Head(intents))
      BY <1>1 DEF DeliverIntent
    <2>2. Head(intents) \in Msg
      BY <2>1 DEF TypeOK
    <2>3. Head(intents).kind = "mode" => Head(intents).mode = "VIDEO_SEGMENTS"
      <3>1. 1 \in DOMAIN intents /\ Head(intents) = intents[1]
        BY <2>1 DEF TypeOK
      <3> QED BY <3>1 DEF RecorderInv, OnlySegments
    <2>4. HandlerKeeps(i) /\ HandlerMode(i)
      BY <2>1, <2>2, <2>3, IntentKeeps, IntentMode
    <2>5. \A k \in DOMAIN intents' :
            intents'[k].kind = "mode" => intents'[k].mode = "VIDEO_SEGMENTS"
      <3> SUFFICES ASSUME NEW k \in DOMAIN intents'
                   PROVE  intents'[k].kind = "mode"
                            => intents'[k].mode = "VIDEO_SEGMENTS"
        OBVIOUS
      <3>1. k + 1 \in DOMAIN intents /\ intents'[k] = intents[k + 1]
        BY <2>1 DEF TypeOK
      <3> QED BY <3>1 DEF RecorderInv, OnlySegments
    <2>6. \A j \in Instances : retained'[j].kind = "mode"
                                 => retained'[j].mode = "VIDEO_SEGMENTS"
      <3>1. ASSUME NEW j \in Instances
            PROVE  retained'[j] = retained[j] \/ retained'[j] = Head(intents)
        BY <2>1 DEF RecorderInv, TypeOK
      <3>2. \A j \in Instances : retained[j].kind = "mode"
                                  => retained[j].mode = "VIDEO_SEGMENTS"
        BY DEF RecorderInv, OnlySegments
      <3> QED BY <2>3, <3>1, <3>2
    <2>7. OnlySegments'
      BY <2>1, <2>4, <2>5, <2>6, HandlerSegments DEF RecorderInv, OnlySegments,
         HandlerKeeps
    <2>8. \A j \in Instances : Exists(j) => Exists(j)'
      BY <2>1 DEF TypeOK, Exists
    <2>9. RecorderRuns'
      BY <2>1, <2>4, <2>8, RecorderKept DEF RecorderInv, HandlerKeeps,
         Recorders
    <2> QED BY <2>7, <2>9 DEF RecorderInv
  <1>2. CASE DeliverBroadcast(i)
    <2>1. /\ UNCHANGED <<phase, retained, intents, posted, preparing, atHead,
                         inSegment>>
          /\ HandlerKeeps(i) /\ HandlerMode(i)
      BY <1>2, ToggleKeeps, ToggleMode DEF DeliverBroadcast, lifeVars
    <2>2. OnlySegments'
      BY <2>1, HandlerSegments DEF RecorderInv, OnlySegments, HandlerKeeps
    <2>3. RecorderRuns'
      BY <2>1, RecorderKept DEF RecorderInv, HandlerKeeps, Recorders, Exists
    <2> QED BY <2>2, <2>3 DEF RecorderInv
  <1>3. CASE PostedStart(i)
    <2>1. /\ posted[i] > 0 /\ posted' = [posted EXCEPT ![i] = @ - 1]
          /\ start(i) \/ UNCHANGED <<asked, checks>>
          /\ UNCHANGED <<active, phase, retained, intents, mode, pending,
                         preparing, atHead, inSegment>>
      BY <1>3 DEF PostedStart, processVars, lifeVars, choiceVars, recorderVars
    <2>2. \A j \in Instances \ {i} :
            /\ posted'[j] = posted[j]
            /\ checks'[j] = checks[j] /\ asked'[j] = asked[j]
      BY <2>1, StartKeeps DEF TypeOK
    <2>6. \A j \in Instances : asked'[j] => asked[j] \/ "ask" \in Events
      BY <2>1, StartKeeps
    <2>3. mode[i] = "VIDEO_SEGMENTS"
      BY <2>1 DEF RecorderInv, OnlySegments
    <2>4. OnlySegments'
      BY <2>1, <2>2, <2>3, <2>6 DEF RecorderInv, OnlySegments
    <2>5. RecorderRuns'
      BY <2>1, RecorderKept DEF RecorderInv, Recorders, Exists
    <2> QED BY <2>4, <2>5 DEF RecorderInv
  <1>4. CASE PermissionResult(i)
    <2>1. /\ asked[i] /\ asked' = [asked EXCEPT ![i] = FALSE]
          /\ checks' = [checks EXCEPT ![i] = @ + 1] \/ checks' = checks
          /\ UNCHANGED <<active, phase, retained, intents, mode, pending,
                         posted, preparing, atHead, inSegment>>
      BY <1>4 DEF PermissionResult, LaunchCheck, processVars, lifeVars,
         choiceVars, recorderVars
    <2>2. \A j \in Instances \ {i} :
            checks'[j] = checks[j] /\ asked'[j] = asked[j]
      BY <2>1 DEF TypeOK
    <2>3. mode[i] = "VIDEO_SEGMENTS"
      BY <2>1 DEF RecorderInv, OnlySegments
    <2>4. OnlySegments'
      BY <2>1, <2>2, <2>3 DEF RecorderInv, OnlySegments
    <2>5. RecorderRuns'
      BY <2>1, RecorderKept DEF RecorderInv, Recorders, Exists
    <2> QED BY <2>4, <2>5 DEF RecorderInv
  <1>5. CASE AccessCheckDone(i)
    <2>1. /\ checks[i] > 0 /\ checks' = [checks EXCEPT ![i] = @ - 1]
          /\ UNCHANGED <<phase, retained, intents, mode, pending, posted,
                         asked, atHead, inSegment>>
          /\ \/ startAfterAccessCheck(i)
             \/ UNCHANGED <<active, preparing>>
      BY <1>5 DEF AccessCheckDone, lifeVars, choiceVars
    <2>2. mode[i] = "VIDEO_SEGMENTS" /\ Exists(i)
      BY <2>1 DEF RecorderInv, OnlySegments, SafeInv, WorkHasActivity
    <2>3. \A j \in Instances : checks'[j] > 0 => checks[j] > 0
      BY <2>1 DEF TypeOK
    <2>4. OnlySegments'
      BY <2>1, <2>3 DEF RecorderInv, OnlySegments
    <2>5. CASE startAfterAccessCheck(i)
      <3>1. preparing'[i] = preparing[i] + 1
        BY <2>2, <2>5 DEF startAfterAccessCheck, TypeOK
      <3>2. Recorders(i)' > 0 /\ Exists(i)'
        BY <2>1, <2>2, <3>1 DEF Recorders, Exists, TypeOK
      <3> QED BY <2>4, <3>2 DEF RecorderInv, RecorderRuns
    <2>6. CASE UNCHANGED <<active, preparing>>
      <3>1. RecorderRuns'
        BY <2>1, <2>6, RecorderKept DEF RecorderInv, Recorders, Exists
      <3> QED BY <2>4, <3>1 DEF RecorderInv
    <2> QED BY <2>1, <2>5, <2>6
  <1>6. CASE AutoStopFires(i)
    <2>1. /\ Send(StopMsg) \/ UNCHANGED intents
          /\ UNCHANGED <<active, phase, retained, mode, pending, posted,
                         asked, checks, preparing, atHead, inSegment>>
      BY <1>6 DEF AutoStopFires, lifeVars, choiceVars, launchVars, recorderVars
    <2>2. OnlySegments'
      BY <2>1, AppendSegments, MsgFacts DEF RecorderInv, OnlySegments, StopMsg
    <2>3. RecorderRuns'
      BY <2>1, RecorderKept DEF RecorderInv, Recorders, Exists
    <2> QED BY <2>2, <2>3 DEF RecorderInv
  <1>7. CASE CloseActivity(i)
    <2>1. /\ phase' = [phase EXCEPT ![i] = "finishing"]
          /\ UNCHANGED <<active, retained, intents, mode, pending, posted,
                         asked, checks, preparing, atHead, inSegment>>
      BY <1>7 DEF CloseActivity, processVars, choiceVars, launchVars,
         recorderVars
    <2>2. \A j \in Instances : Exists(j) => Exists(j)'
      BY <2>1 DEF TypeOK, Exists
    <2>3. OnlySegments'
      BY <2>1 DEF RecorderInv, OnlySegments
    <2>4. RecorderRuns'
      BY <2>1, <2>2, RecorderKept DEF RecorderInv, Recorders
    <2> QED BY <2>3, <2>4 DEF RecorderInv
  <1> QED
    BY <1>1, <1>2, <1>3, <1>4, <1>5, <1>6, <1>7 DEF MainThread

(* Taps and presses keep the recorder invariant.                           *)
LEMMA RecorderUser ==
  ASSUME TypeOK, RecorderInv, User, ButtonModes \subseteq {"VIDEO_SEGMENTS"}
  PROVE  RecorderInv'
  <1>1. \/ UNCHANGED intents
        \/ \E m \in Msg : /\ Send(m)
                          /\ m.kind = "mode" => m.mode = "VIDEO_SEGMENTS"
    <2>1. ASSUME NEW t \in Tiles, TapTile(t)
          PROVE  \/ UNCHANGED intents
                 \/ \E m \in Msg : /\ Send(m)
                                   /\ m.kind = "mode"
                                        => m.mode = "VIDEO_SEGMENTS"
      <3> DEFINE m == [kind |-> "tile", tile |-> t, value |-> ~prefs[t]]
      <3>1. m \in Msg /\ m.kind # "mode"
        BY MsgFacts DEF TypeOK
      <3> QED BY <2>1, <3>1 DEF TapTile
    <2>2. ASSUME NEW m \in ButtonModes, PressButton(m)
          PROVE  \E n \in Msg : /\ Send(n)
                                /\ n.kind = "mode" => n.mode = "VIDEO_SEGMENTS"
      <3> DEFINE n == [kind |-> "mode", mode |-> m]
      <3>1. n \in Msg /\ n.mode = "VIDEO_SEGMENTS"
        BY MsgFacts
      <3>2. StopMsg \in Msg /\ StopMsg.kind # "mode"
        BY MsgFacts DEF StopMsg
      <3>3. Send(StopMsg) \/ Send(n)
        BY <2>2 DEF PressButton
      <3> QED BY <3>1, <3>2, <3>3
    <2>3. CASE OpenApp
      <3>1. OpenMsg \in Msg /\ OpenMsg.kind # "mode"
        BY MsgFacts DEF OpenMsg
      <3> QED BY <2>3, <3>1 DEF OpenApp
    <2> QED
      BY <2>1, <2>2, <2>3 DEF User, TapSendToGroup, TapSendToContacts,
         TapSaveToGallery
  <1>2. UNCHANGED <<active, phase, retained, mode, pending, posted, asked,
                    checks, preparing, atHead, inSegment>>
    BY DEF User, TapSendToGroup, TapSendToContacts, TapSaveToGallery, TapTile,
       PressButton, OpenApp, lifeVars, choiceVars, launchVars, recorderVars
  <1>3. OnlySegments'
    BY <1>1, <1>2, AppendSegments DEF RecorderInv, OnlySegments
  <1>4. RecorderRuns'
    BY <1>2, RecorderKept DEF RecorderInv, Recorders, Exists
  <1> QED BY <1>3, <1>4 DEF RecorderInv

(* Finishing, destroying and recreating an activity keep the recorder      *)
(* invariant.                                                              *)
LEMMA RecorderLifecycle ==
  ASSUME TypeOK, RecorderInv, NEW i \in Instances, Lifecycle(i),
         ~ {"ask", "recreate"} \subseteq Events
  PROVE  RecorderInv'
  <1>1. CASE FinishedOutside(i)
    <2>1. /\ phase' = [phase EXCEPT ![i] = "finishing"]
          /\ UNCHANGED <<active, retained, intents, mode, pending, posted,
                         asked, checks, preparing, atHead, inSegment>>
      BY <1>1 DEF FinishedOutside, processVars, choiceVars, launchVars,
         recorderVars
    <2>2. \A j \in Instances : Exists(j) => Exists(j)'
      BY <2>1 DEF TypeOK, Exists
    <2>3. OnlySegments'
      BY <2>1 DEF RecorderInv, OnlySegments
    <2>4. RecorderRuns'
      BY <2>1, <2>2, RecorderKept DEF RecorderInv, Recorders
    <2> QED BY <2>3, <2>4 DEF RecorderInv
  <1>2. ASSUME ScopeCancelled(i), UNCHANGED intents,
               \A j \in Instances \ {i} :
                 /\ mode'[j] = mode[j] /\ pending'[j] = pending[j]
                 /\ retained'[j] = retained[j] /\ asked'[j] = asked[j],
               ~asked'[i],
               pending'[i] \in {"none", "VIDEO_SEGMENTS"},
               retained'[i].kind = "mode"
                 => retained'[i].mode = "VIDEO_SEGMENTS"
        PROVE  RecorderInv'
    <2>1. ~active'
      BY <1>2 DEF ScopeCancelled
    <2>2. /\ posted'[i] = 0 /\ checks'[i] = 0
          /\ \A j \in Instances \ {i} :
               posted'[j] = posted[j] /\ checks'[j] = checks[j]
      BY <1>2 DEF ScopeCancelled, TypeOK
    <2>3. OnlySegments'
      BY <1>2, <2>2 DEF RecorderInv, OnlySegments
    <2> QED BY <2>1, <2>3 DEF RecorderInv, RecorderRuns
  <1>3. CASE onDestroy(i)
    <2>1. /\ \A j \in Instances \ {i} :
               /\ mode'[j] = mode[j] /\ pending'[j] = pending[j]
               /\ retained'[j] = retained[j] /\ asked'[j] = asked[j]
          /\ pending'[i] = "none" /\ retained'[i] = OpenMsg /\ ~asked'[i]
      BY <1>3 DEF onDestroy, TypeOK
    <2>2. retained'[i].kind # "mode"
      BY <2>1 DEF OpenMsg
    <2> QED BY <1>2, <1>3, <2>1, <2>2 DEF onDestroy
  <1>4. CASE Recreate(i)
    <2> DEFINE m  == retained[i]
               on == m.kind = "tile" /\ m.value
    <2>1. m.kind = "mode" => m.mode = "VIDEO_SEGMENTS"
      BY DEF RecorderInv, OnlySegments
    <2>2. /\ \A j \in Instances \ {i} :
               mode'[j] = mode[j] /\ pending'[j] = pending[j]
          /\ retained' = retained
      BY <1>4 DEF Recreate, TypeOK
    <2>3. pending'[i] = IF on THEN "VIDEO_SEGMENTS"
                        ELSE IF m.kind = "mode" THEN m.mode ELSE "none"
      BY <1>4 DEF Recreate, TypeOK
    <2>4. pending'[i] \in {"none", "VIDEO_SEGMENTS"}
      BY <2>1, <2>3
    <2>5. ~asked'[i] /\ asked' = asked
      BY <1>4 DEF Recreate, RecorderInv, OnlySegments
    <2> QED BY <1>2, <1>4, <2>1, <2>2, <2>4, <2>5 DEF Recreate
  <1> QED BY <1>1, <1>3, <1>4 DEF Lifecycle

(* A start put off for want of a surface is one of segments.               *)
LEMMA RecorderSurface ==
  ASSUME TypeOK, RecorderInv, NEW i \in Instances, Surface(i)
  PROVE  RecorderInv'
  <1>1. /\ UNCHANGED <<active, phase, retained, intents, asked, checks,
                       preparing, atHead, inSegment>>
    BY DEF Surface, SurfaceCreated, SurfaceDestroyed, processVars, choiceVars,
       launchVars, recorderVars
  <1>2. RecorderRuns'
    BY <1>1, RecorderKept DEF RecorderInv, Recorders, Exists
  <1>3. OnlySegments'
    <2>1. CASE UNCHANGED <<mode, pending, posted>>
      BY <1>1, <2>1 DEF RecorderInv, OnlySegments
    <2>2. CASE /\ pending[i] # "none"
               /\ mode' = [mode EXCEPT ![i] = pending[i]]
               /\ pending' = [pending EXCEPT ![i] = "none"]
               /\ posted' = [posted EXCEPT ![i] = @ + 1]
      <3>1. pending[i] = "VIDEO_SEGMENTS"
        BY <2>2 DEF RecorderInv, OnlySegments
      <3>2. /\ mode'[i] = "VIDEO_SEGMENTS" /\ pending'[i] = "none"
            /\ \A j \in Instances \ {i} :
                 /\ mode'[j] = mode[j] /\ pending'[j] = pending[j]
                 /\ posted'[j] = posted[j]
        BY <2>2, <3>1 DEF TypeOK
      <3> QED BY <1>1, <3>2 DEF RecorderInv, OnlySegments
    <2> QED
      BY <2>1, <2>2 DEF Surface, SurfaceCreated, SurfaceDestroyed, choiceVars,
         launchVars
  <1> QED BY <1>2, <1>3 DEF RecorderInv

(* A recorder loop leaves only when no session is active.                  *)
LEMMA RecorderLoops ==
  ASSUME TypeOK, RecorderInv, NEW i \in Instances, Recorder(i),
         "camera" \notin Events
  PROVE  RecorderInv'
  <1>1. UNCHANGED <<active, phase, retained, intents, mode, pending, posted,
                    asked, checks>>
    BY DEF Recorder, RecorderPrepared, RecorderFails, SegmentBegins,
       SegmentEnds, RecorderExits, processVars, lifeVars, choiceVars,
       launchVars
  <1>2. OnlySegments'
    BY <1>1 DEF RecorderInv, OnlySegments
  <1>3. CASE RecorderExits(i)
    BY <1>1, <1>2, <1>3 DEF RecorderExits, RecorderInv, RecorderRuns
  <1>4. CASE RecorderPrepared(i)
    <2>1. \A j \in Instances : Recorders(j)' = Recorders(j)
      BY <1>4 DEF RecorderPrepared, Recorders, TypeOK
    <2> QED BY <1>1, <1>2, <2>1, RecorderKept DEF RecorderInv, Exists
  <1>5. CASE SegmentBegins(i)
    <2>1. \A j \in Instances : Recorders(j)' = Recorders(j)
      BY <1>5 DEF SegmentBegins, Recorders, TypeOK
    <2> QED BY <1>1, <1>2, <2>1, RecorderKept DEF RecorderInv, Exists
  <1>6. CASE SegmentEnds(i)
    <2>1. \A j \in Instances : Recorders(j)' = Recorders(j)
      BY <1>6 DEF SegmentEnds, Recorders, TypeOK
    <2> QED BY <1>1, <1>2, <2>1, RecorderKept DEF RecorderInv, Exists
  <1> QED
    BY <1>3, <1>4, <1>5, <1>6 DEF Recorder, RecorderFails

(* With segment sessions only (the tiles, and a button left in its default *)
(* mode), a camera that can be prepared, and no permission request on the  *)
(* screen of a recreated activity, an active session always has a recorder *)
(* loop: no loop leaves a session, though it is the static isActive that   *)
(* keeps it, shared by every activity and every session.                   *)
THEOREM SessionIsRecorded ==
  ASSUME ButtonModes \subseteq {"VIDEO_SEGMENTS"}, "camera" \notin Events,
         ~ {"ask", "recreate"} \subseteq Events
  PROVE  Spec => []RecorderRuns
  <1>1. TypeOK /\ SafeInv /\ RecorderInv /\ [Next]_vars => RecorderInv'
    <2> SUFFICES ASSUME TypeOK, SafeInv, RecorderInv, [Next]_vars
                 PROVE  RecorderInv'
      OBVIOUS
    <2>1. CASE User
      BY <2>1, RecorderUser
    <2>2. ASSUME NEW i \in Instances,
                 Lifecycle(i) \/ Surface(i) \/ MainThread(i) \/ Recorder(i)
          PROVE  RecorderInv'
      BY <2>2, RecorderLifecycle, RecorderSurface, RecorderMainThread,
         RecorderLoops
    <2>3. CASE ResetTiles \/ UNCHANGED vars
      <3>1. UNCHANGED <<active, phase, retained, intents, mode, pending,
                        posted, asked, checks, preparing, atHead, inSegment>>
        BY <2>3 DEF ResetTiles, vars, processVars, lifeVars, choiceVars,
           launchVars, recorderVars
      <3>2. OnlySegments'
        BY <3>1 DEF RecorderInv, OnlySegments
      <3>3. RecorderRuns'
        BY <3>1, RecorderKept DEF RecorderInv, Recorders, Exists
      <3> QED BY <3>2, <3>3 DEF RecorderInv
    <2>4. CASE ProcessDies
      BY <2>4 DEF ProcessDies, RecorderInv, OnlySegments, RecorderRuns, OpenMsg
    <2> QED BY <2>1, <2>2, <2>3, <2>4 DEF Next
  <1>2. RecorderInv => RecorderRuns
    BY DEF RecorderInv
  <1> QED BY RecorderInit, TypeCorrect, SafeInvariant, <1>1, <1>2, PTL DEF Spec
-----------------------------------------------------------------------------
(* A stream needs a session.                                               *)

(* handleTileToggle either stops the session, camera included, or leaves   *)
(* session and stream alone.                                               *)
LEMMA ToggleStream ==
  ASSUME NEW i, NEW t, NEW v, handleTileToggle(i, t, v)
  PROVE  stop(i) \/ UNCHANGED <<active, streaming>>
  BY DEF handleTileToggle

(* So does an intent, whatever it asks for.                                *)
LEMMA IntentStream ==
  ASSUME NEW i, NEW m, handleQuickTileIntent(i, m)
  PROVE  stop(i) \/ UNCHANGED <<active, streaming>>
  BY ToggleStream DEF handleQuickTileIntent, stop_and_close, auto_start

(* A stop, and the end of the scope, clear the stream of the one activity. *)
LEMMA StopStream ==
  ASSUME TypeOK, NEW i \in Instances, \A j \in Instances : j = i,
         stop(i) \/ ScopeCancelled(i)
  PROVE  StreamNeedsSession'
  BY DEF TypeOK, stop, ScopeCancelled, StreamNeedsSession

(* With a single activity object every step keeps the stream in a session. *)
LEMMA StreamStep ==
  ASSUME TypeOK, StreamNeedsSession, [Next]_vars,
         \A i, j \in Instances : i = j
  PROVE  StreamNeedsSession'
  <1>1. CASE UNCHANGED <<active, streaming>>
    BY <1>1 DEF StreamNeedsSession
  <1>2. CASE UNCHANGED vars \/ User \/ ResetTiles
    BY <1>1, <1>2 DEF vars, processVars, recorderVars, User, ResetTiles,
       TapSendToGroup, TapSendToContacts, TapSaveToGallery, TapTile,
       PressButton, OpenApp
  <1>3. ASSUME NEW i \in Instances, Lifecycle(i)
        PROVE  StreamNeedsSession'
    <2>1. CASE FinishedOutside(i)
      BY <1>1, <2>1 DEF FinishedOutside, processVars, recorderVars
    <2>2. CASE onDestroy(i) \/ Recreate(i)
      BY <2>2, StopStream DEF onDestroy, Recreate
    <2> QED BY <1>3, <2>1, <2>2 DEF Lifecycle
  <1>4. ASSUME NEW i \in Instances, Surface(i) \/ Recorder(i)
        PROVE  StreamNeedsSession'
    BY <1>1, <1>4 DEF Surface, SurfaceCreated, SurfaceDestroyed, Recorder,
       RecorderPrepared, RecorderFails, SegmentBegins, SegmentEnds,
       RecorderExits, processVars, recorderVars
  <1>5. ASSUME NEW i \in Instances, MainThread(i)
        PROVE  StreamNeedsSession'
    <2>1. CASE DeliverIntent(i)
      BY <1>1, <2>1, IntentStream, StopStream DEF DeliverIntent
    <2>2. CASE DeliverBroadcast(i)
      BY <1>1, <2>2, ToggleStream, StopStream DEF DeliverBroadcast
    <2>3. CASE PostedStart(i) \/ PermissionResult(i) \/ AutoStopFires(i)
                 \/ CloseActivity(i)
      BY <1>1, <2>3 DEF PostedStart, PermissionResult, AutoStopFires,
         CloseActivity, processVars, recorderVars
    <2>4. CASE AccessCheckDone(i)
      <3>1. active' \/ UNCHANGED <<active, streaming>>
        BY <2>4 DEF AccessCheckDone, startAfterAccessCheck
      <3> QED BY <1>1, <3>1 DEF StreamNeedsSession
    <2> QED BY <1>5, <2>1, <2>2, <2>3, <2>4 DEF MainThread
  <1>6. CASE ProcessDies
    BY <1>6 DEF ProcessDies, StreamNeedsSession
  <1> QED BY <1>2, <1>3, <1>4, <1>5, <1>6 DEF Next

(* As long as there is a single activity object, its camera streams only   *)
(* in an active session: every way a session ends (tile, button, timer,    *)
(* destruction, recreation, death of the process) ends the stream, though  *)
(* it begins in a callback that looks at neither.                          *)
THEOREM StreamInSession ==
  ASSUME \A i, j \in Instances : i = j
  PROVE  Spec => []StreamNeedsSession
  <1>1. Init => StreamNeedsSession
    BY DEF Init, StreamNeedsSession
  <1>2. TypeOK /\ StreamNeedsSession /\ [Next]_vars => StreamNeedsSession'
    BY StreamStep
  <1> QED BY <1>1, <1>2, TypeCorrect, PTL DEF Spec
=============================================================================
