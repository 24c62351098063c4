---------------------------- MODULE BleButtonProofs ----------------------------
(***************************************************************************)
(* The types of the Bluetooth button, and that only managers stopped with  *)
(* a reconnection posted, or in the callback that posts one, live on       *)
(* besides the manager of the service.                                     *)
(*                                                                         *)
(* OnlyOrphansListen is not inductive: a manager that neither listens nor  *)
(* has a connection gets one again from a posted reconnection, and posts   *)
(* one in a callback under way or still to come.  OrphansOnly says of all  *)
(* these that they are the service's or an orphan's.                       *)
(***************************************************************************)
EXTENDS BleButton, SequenceTheorems, TLAPS

-----------------------------------------------------------------------------
(* Types.                                                                  *)

LinkEvents == {"up", "down"}

(* A queue from which its first element is taken, or to which one is added.*)
LEMMA Queues ==
  /\ <<>> \in Seq(LinkEvents)
  /\ \A q \in Seq(LinkEvents) : \A e \in LinkEvents : Append(q, e) \in Seq(LinkEvents)
  /\ \A q \in Seq(LinkEvents) : q # <<>> => Tail(q) \in Seq(LinkEvents)
<1>1. \A q \in Seq(LinkEvents) : \A e \in LinkEvents : Append(q, e) \in Seq(LinkEvents)
  BY AppendProperties
<1>2. \A q \in Seq(LinkEvents) : q # <<>> => Tail(q) \in Seq(LinkEvents)
  BY HeadTailProperties
<1> QED
  BY <1>1, <1>2, EmptySeq

RadioTypes ==
  /\ paired \in BOOLEAN /\ range \in BOOLEAN /\ link \in BOOLEAN
  /\ acl \in Seq(LinkEvents) /\ troubles \in 0 .. MaxTroubles

ManagerTypes ==
  /\ flag \in BOOLEAN /\ service \in Managers \cup {NoManager}
  /\ gatt \in [Managers -> {"none", "connecting", "connected"}]
  /\ callbacks \in [Managers -> Seq(LinkEvents)]
  /\ work \in [Managers -> Stages]
  /\ attempts \in [Managers -> 0 .. MaxAttempts + 1]
  /\ posted \in [Managers -> BOOLEAN] /\ listening \in [Managers -> BOOLEAN]
  /\ deaf \subseteq Managers
  /\ orphans \subseteq Managers /\ gaveUp \subseteq Managers
  /\ overtaken \in BOOLEAN

LEMMA TypesAreTypeOK == TypeOK <=> RadioTypes /\ ManagerTypes
BY DEF TypeOK, RadioTypes, ManagerTypes, LinkEvents

LEMMA RadioTypesStep == RadioTypes /\ [Next]_vars => RadioTypes'
<1> SUFFICES ASSUME RadioTypes, [Next]_vars PROVE RadioTypes'
  OBVIOUS
<1> USE Queues DEF RadioTypes
<1>t. \A x \in 0 .. MaxTroubles : x < MaxTroubles => x + 1 \in 0 .. MaxTroubles
  BY ButtonAssumption
<1>u. "up" \in LinkEvents /\ "down" \in LinkEvents
  BY DEF LinkEvents
<1>1. CASE UNCHANGED envVars
  BY <1>1 DEF envVars
<1>2. CASE AppStarts \/ Restart
  BY <1>2, <1>t, <1>u DEF AppStarts, Restart, LinkMayDrop
<1>3. CASE Receive
  BY <1>3, <1>u DEF Receive, LinkMayDrop
<1>4. CASE SystemConnects \/ LosesRange \/ ComesBack
  BY <1>4, <1>t, <1>u DEF SystemConnects, LosesRange, ComesBack, LinkUp
<1>5. ASSUME NEW m \in Managers, Stack(m)
      PROVE  RadioTypes'
  BY <1>5, <1>t, <1>u DEF Stack, ConnectSucceeds, ConnectFails, LinkUp
<1>6. ASSUME NEW m \in Managers, Manager(m)
      PROVE  RadioTypes'
  <2>1. CASE Subscribe(m)
    BY <2>1, <1>t DEF Subscribe
  <2>2. CASE ~Subscribe(m)
    BY <1>1, <1>6, <2>2 DEF Manager, CallbackUp, RaiseFlag, CallbackDown, LowerFlag,
       ScheduleReconnect, Reconnect
  <2> QED
    BY <2>1, <2>2
<1> QED
  BY <1>1, <1>2, <1>3, <1>4, <1>5, <1>6 DEF Next, vars

(* A stop leaves fields of their types, and so does a connection.          *)
LEMMA StoppedTypes ==
  ManagerTypes =>
    /\ StoppedService.gatt \in [Managers -> {"none", "connecting", "connected"}]
    /\ StoppedService.callbacks \in [Managers -> Seq(LinkEvents)]
    /\ StoppedService.listening \in [Managers -> BOOLEAN]
    /\ StoppedService.deaf \subseteq Managers
    /\ StoppedService.orphans \subseteq Managers
    /\ StoppedService.overtaken \in BOOLEAN
<1>1. ASSUME ManagerTypes
      PROVE  (overtaken \/ work[service] # "idle") \in BOOLEAN
  BY <1>1 DEF ManagerTypes
<1> QED
  BY <1>1, Queues DEF ManagerTypes, StoppedService, Closed

LEMMA ConnectTypes ==
  ASSUME ManagerTypes, NEW m \in Managers,
         NEW c \in [Managers -> {"none", "connecting", "connected"}], Connect(m, c)
  PROVE  /\ gatt' \in [Managers -> {"none", "connecting", "connected"}]
         /\ \A n \in Managers \ {m} : gatt'[n] = c[n]
         /\ gaveUp' \subseteq Managers
BY DEF Connect, ManagerTypes

LEMMA ManagerTypesStep == ManagerTypes /\ [Next]_vars => ManagerTypes'
<1> SUFFICES ASSUME ManagerTypes, [Next]_vars PROVE ManagerTypes'
  OBVIOUS
<1> USE DEF ManagerTypes
<1>0. 0 \in 0 .. MaxAttempts + 1
      /\ \A x \in 0 .. MaxAttempts + 1 : x <= MaxAttempts => x + 1 \in 0 .. MaxAttempts + 1
  BY ButtonAssumption
<1>1. CASE UNCHANGED <<flag, service, managerVars>>
  BY <1>1 DEF managerVars, listenVars, historyVars
<1>2. ASSUME StartService, flag' \in BOOLEAN
      PROVE  ManagerTypes'
  <2>1. CASE service # NoManager
    BY <1>2, <2>1 DEF StartService, managerVars, listenVars, historyVars
  <2>2. CASE service = NoManager
    <3>1. PICK m \in Managers :
            /\ service' = m /\ Connect(m, gatt)
            /\ attempts' = [attempts EXCEPT ![m] = 0]
            /\ orphans' = orphans \ {m}
            /\ UNCHANGED <<callbacks, work, posted, listenVars, overtaken>>
      BY <1>2, <2>2 DEF StartService
    <3>2. attempts' \in [Managers -> 0 .. MaxAttempts + 1]
      BY <1>0, <3>1
    <3>3. gatt' \in [Managers -> {"none", "connecting", "connected"}] /\ gaveUp' \subseteq Managers
      BY <3>1, ConnectTypes
    <3> QED
      BY <1>2, <3>1, <3>2, <3>3 DEF listenVars
  <2> QED
    BY <2>1, <2>2
<1>3. ASSUME StopService, flag' \in BOOLEAN
      PROVE  ManagerTypes'
  <2>1. attempts' \in [Managers -> 0 .. MaxAttempts + 1]
    BY <1>0, <1>3 DEF StopService, ResetAttempts
  <2> QED
    BY <1>3, <2>1, StoppedTypes DEF StopService, NotRunning
<1>4. CASE AppStarts
  BY <1>2, <1>4 DEF AppStarts
<1>5. CASE Receive
  BY <1>2, <1>3, <1>5 DEF Receive
<1>6. CASE Restart
  <2>1. PICK m \in Managers :
          /\ service' = m
          /\ Connect(m, StoppedService.gatt)
          /\ \E reset \in {attempts[service], 0} :
               attempts' = [attempts EXCEPT ![service] = reset, ![m] = 0]
          /\ orphans' = StoppedService.orphans \ {m}
    BY <1>6 DEF Restart
  <2>2. /\ flag' \in BOOLEAN /\ UNCHANGED <<posted, work>>
        /\ callbacks' = StoppedService.callbacks
        /\ listening' = StoppedService.listening /\ deaf' = StoppedService.deaf
        /\ overtaken' = StoppedService.overtaken
        /\ service \in Managers
    BY <1>6 DEF Restart
  <2>3. attempts' \in [Managers -> 0 .. MaxAttempts + 1]
    BY <1>0, <2>1, <2>2
  <2>4. gatt' \in [Managers -> {"none", "connecting", "connected"}] /\ gaveUp' \subseteq Managers
    BY <2>1, StoppedTypes, ConnectTypes
  <2> QED
    BY <2>1, <2>2, <2>3, <2>4, StoppedTypes
<1>7. ASSUME NEW m \in Managers, Manager(m)
      PROVE  ManagerTypes'
  <2>1. callbacks[m] # <<>> => Tail(callbacks[m]) \in Seq(LinkEvents)
    BY Queues
  <2>u. /\ "idle" \in Stages /\ "raise" \in Stages
        /\ "lower" \in Stages /\ "schedule" \in Stages
    BY DEF Stages
  <2>2. CASE CallbackUp(m)
    <3>1. callbacks' \in [Managers -> Seq(LinkEvents)]
      BY <2>1, <2>2 DEF CallbackUp
    <3> QED
      BY <1>0, <2>2, <2>u, <3>1 DEF CallbackUp, listenVars, historyVars
  <2>3. CASE CallbackDown(m)
    <3>1. callbacks' \in [Managers -> Seq(LinkEvents)]
      BY <2>1, <2>3 DEF CallbackDown
    <3> QED
      BY <2>3, <2>u, <3>1 DEF CallbackDown, listenVars, historyVars
  <2>4. CASE RaiseFlag(m) \/ LowerFlag(m)
    BY <2>4, <2>u DEF RaiseFlag, LowerFlag, listenVars, historyVars
  <2>5. CASE ScheduleReconnect(m)
    <3>1. attempts' \in [Managers -> 0 .. MaxAttempts + 1]
      <4>1. CASE Tries(m)
        <5>1. attempts[m] + 1 \in 0 .. MaxAttempts + 1
          BY <1>0, <4>1 DEF Tries
        <5>2. attempts' = [attempts EXCEPT ![m] = attempts[m] + 1]
          BY <2>5, <4>1 DEF ScheduleReconnect, Counted
        <5> QED
          BY <5>1, <5>2
      <4>2. CASE ~Tries(m)
        BY <2>5, <4>2 DEF ScheduleReconnect
      <4> QED
        BY <4>1, <4>2
    <3> QED
      BY <2>5, <2>u, <3>1 DEF ScheduleReconnect, listenVars
  <2>6. CASE Subscribe(m)
    BY <2>6 DEF Subscribe, historyVars
  <2>7. CASE Reconnect(m)
    BY <2>7, ConnectTypes DEF Reconnect, listenVars
  <2> QED
    BY <1>7, <2>2, <2>3, <2>4, <2>5, <2>6, <2>7 DEF Manager
<1>8. ASSUME NEW m \in Managers, Stack(m)
      PROVE  ManagerTypes'
  <2>1. \A e \in LinkEvents : Append(callbacks[m], e) \in Seq(LinkEvents)
    BY Queues
  <2>2. "up" \in LinkEvents /\ "down" \in LinkEvents
    BY DEF LinkEvents
  <2>3. callbacks' \in [Managers -> Seq(LinkEvents)]
    <3>1. PICK e \in LinkEvents : callbacks' = [callbacks EXCEPT ![m] = Append(callbacks[m], e)]
      BY <1>8, <2>2 DEF Stack, ConnectSucceeds, ConnectFails
    <3>2. Append(callbacks[m], e) \in Seq(LinkEvents)
      BY <2>1
    <3> QED
      BY <3>1, <3>2
  <2>4. CASE ConnectSucceeds(m)
    BY <2>3, <2>4 DEF ConnectSucceeds, listenVars, historyVars
  <2>5. CASE ConnectFails(m)
    BY <2>3, <2>5 DEF ConnectFails, listenVars, historyVars
  <2> QED
    BY <1>8, <2>4, <2>5 DEF Stack
<1>9. CASE LosesRange
  BY <1>9, Queues DEF LosesRange, LinkEvents, historyVars
<1> QED
  BY <1>1, <1>4, <1>5, <1>6, <1>7, <1>8, <1>9 DEF Next, vars, SystemConnects, ComesBack

(* Every variable keeps its type: a manager never counts more attempts     *)
(* than one past the last.                                                 *)
THEOREM ButtonTypes == Spec => []TypeOK
<1>1. Init => RadioTypes /\ ManagerTypes
  <2>1. 0 \in 0 .. MaxTroubles /\ 0 \in 0 .. MaxAttempts + 1
    BY ButtonAssumption
  <2>2. ASSUME Init
        PROVE  RadioTypes
    BY <2>1, <2>2, Queues DEF Init, RadioTypes
  <2>3. ASSUME Init
        PROVE  ManagerTypes
    BY <2>1, <2>3, Queues DEF Init, ManagerTypes, Stages
  <2> QED
    BY <2>2, <2>3
<1>2. TypeOK' <=> RadioTypes' /\ ManagerTypes'
  BY DEF TypeOK, RadioTypes, ManagerTypes, LinkEvents
<1>3. TypeOK /\ [Next]_vars => TypeOK'
  BY <1>2, TypesAreTypeOK, RadioTypesStep, ManagerTypesStep
<1> QED
  BY <1>1, <1>3, TypesAreTypeOK, PTL DEF Spec

-----------------------------------------------------------------------------
(* Who lives on.                                                           *)

Lives(m) ==
  listening[m] \/ gatt[m] # "none" \/ Reconnects(m) \/ callbacks[m] # <<>>

OrphansOnly == \A m \in Managers : Lives(m) => m = service \/ m \in orphans

LEMMA OrphansOnlyStep == ManagerTypes /\ OrphansOnly /\ [Next]_vars => OrphansOnly'
<1> SUFFICES ASSUME ManagerTypes, OrphansOnly, [Next]_vars, NEW k \in Managers, Lives(k)'
             PROVE  k = service' \/ k \in orphans'
  BY DEF OrphansOnly
<1> USE DEF Lives, Reconnects, GoingDown
<1>1. ASSUME UNCHANGED <<service, orphans>>, Lives(k)
      PROVE  k = service' \/ k \in orphans'
  BY <1>1 DEF OrphansOnly
<1>2. CASE StartService
  <2>1. CASE service # NoManager
    BY <1>1, <1>2, <2>1 DEF StartService, managerVars, listenVars, historyVars
  <2>2. CASE service = NoManager
    <3>1. PICK m \in Managers :
            /\ service' = m /\ Connect(m, gatt)
            /\ orphans' = orphans \ {m}
            /\ UNCHANGED <<callbacks, work, posted, listening>>
      BY <1>2, <2>2 DEF StartService, listenVars
    <3>2. k # m => gatt'[k] = gatt[k]
      BY <3>1, ConnectTypes DEF ManagerTypes
    <3> QED
      BY <2>2, <3>1, <3>2 DEF ManagerTypes, OrphansOnly, NoManager, Managers
  <2> QED
    BY <2>1, <2>2
<1>s. ASSUME NEW m \in Managers, service # NoManager, Reconnects(m) \/ m # service,
             \/ StoppedService.listening[m] \/ StoppedService.gatt[m] # "none"
             \/ Reconnects(m) \/ StoppedService.callbacks[m] # <<>>
      PROVE  m \in StoppedService.orphans
  BY <1>s DEF ManagerTypes, OrphansOnly, StoppedService, Closed
<1>r. \A m \in Managers : m = service /\ ~Reconnects(m) =>
        /\ StoppedService.listening[m] = FALSE /\ StoppedService.gatt[m] = "none"
        /\ StoppedService.callbacks[m] = <<>>
  BY DEF ManagerTypes, StoppedService, Closed, NoManager, Managers
<1>3. CASE StopService
  <2>1. CASE service = NoManager
    BY <1>3, <2>1 DEF StopService, StoppedService, OrphansOnly, NotRunning
  <2>2. CASE service # NoManager
    BY <1>3, <2>2, <1>s, <1>r DEF StopService
  <2> QED
    BY <2>1, <2>2
<1>4. CASE AppStarts \/ Receive
  BY <1>2, <1>3, <1>4 DEF AppStarts, Receive
<1>5. CASE Restart
  <2>1. PICK m \in Managers :
          /\ service' = m
          /\ Connect(m, StoppedService.gatt)
          /\ orphans' = StoppedService.orphans \ {m}
    BY <1>5 DEF Restart
  <2>2. /\ UNCHANGED <<posted, work>> /\ service # NoManager
        /\ callbacks' = StoppedService.callbacks
        /\ listening' = StoppedService.listening
    BY <1>5 DEF Restart
  <2>3. k # m => gatt'[k] = StoppedService.gatt[k]
    BY <2>1, StoppedTypes, ConnectTypes
  <2> QED
    BY <1>s, <1>r, <2>1, <2>2, <2>3
<1>6. ASSUME NEW m \in Managers, Manager(m)
      PROVE  k = service' \/ k \in orphans'
  <2>0. Reconnect(m) => \A n \in Managers \ {m} : gatt'[n] = gatt[n]
    <3>1. gatt \in [Managers -> {"none", "connecting", "connected"}]
      BY DEF ManagerTypes
    <3> QED
      BY <3>1, ConnectTypes DEF Reconnect
  <2> USE DEF ManagerTypes, listenVars, historyVars
  <2>1. UNCHANGED <<service, orphans>>
    BY <1>6 DEF Manager, CallbackUp, RaiseFlag, Subscribe, CallbackDown, LowerFlag,
       ScheduleReconnect, Reconnect
  <2>2. CASE CallbackUp(m) \/ RaiseFlag(m)
    BY <1>1, <2>1, <2>2 DEF CallbackUp, RaiseFlag
  <2>3. CASE Subscribe(m)
    BY <1>1, <2>1, <2>3 DEF Subscribe
  <2>4. CASE CallbackDown(m) \/ LowerFlag(m) \/ ScheduleReconnect(m)
    BY <1>1, <2>1, <2>4 DEF CallbackDown, LowerFlag, ScheduleReconnect
  <2>5. CASE Reconnect(m)
    <3>1. k # m => gatt'[k] = gatt[k]
      BY <2>0, <2>5
    <3> QED
      BY <1>1, <2>1, <2>5, <3>1 DEF Reconnect
  <2> QED
    BY <1>6, <2>2, <2>3, <2>4, <2>5 DEF Manager
<1>7. ASSUME NEW m \in Managers, Stack(m)
      PROVE  k = service' \/ k \in orphans'
  <2>1. Lives(m) /\ UNCHANGED <<service, orphans>>
    BY <1>7 DEF Stack, ConnectSucceeds, ConnectFails, listenVars, historyVars
  <2>2. k # m => Lives(k)
    BY <1>7 DEF Stack, ConnectSucceeds, ConnectFails, ManagerTypes, listenVars
  <2> QED
    BY <1>1, <2>1, <2>2
<1>8. CASE LosesRange
  <2>1. UNCHANGED <<service, orphans>> /\ Lives(k)
    BY <1>8 DEF LosesRange, historyVars
  <2> QED
    BY <1>1, <2>1
<1>9. CASE UNCHANGED <<service, managerVars>>
  BY <1>1, <1>9 DEF managerVars, listenVars, historyVars
<1> QED
  BY <1>4, <1>5, <1>6, <1>7, <1>8, <1>9 DEF Next, vars, SystemConnects, ComesBack

(* Whatever broadcasts, callbacks and posted reconnections come in which   *)
(* order, and at whatever point of a callback on its binder thread stop()  *)
(* comes, a manager that listens or has a connection is the service's, or  *)
(* was stopped with a reconnection posted or about to be: nothing else     *)
(* makes a press of the button count twice.                                *)
THEOREM OthersAreOrphans == Spec => []OnlyOrphansListen
<1>1. Init => OrphansOnly
  BY DEF Init, OrphansOnly, Lives, Reconnects, GoingDown
<1>2. TypeOK /\ OrphansOnly /\ [Next]_vars => OrphansOnly'
  BY TypesAreTypeOK, OrphansOnlyStep
<1>3. OrphansOnly => OnlyOrphansListen
  BY DEF OrphansOnly, OnlyOrphansListen, Lives
<1> QED
  BY <1>1, <1>2, <1>3, ButtonTypes, PTL DEF Spec
=============================================================================
