------------------------------- MODULE BleButton -------------------------------
(***************************************************************************)
(* The Bluetooth button: BluetoothReceiver starts the service when the     *)
(* button's link comes up and stops it when it goes down; each start of    *)
(* the service makes a BleButtonManager, which connects to the button and  *)
(* connects again after a disconnection.                                   *)
(*                                                                         *)
(* Broadcasts, the callbacks of a connection and posted reconnections come *)
(* in no order among each other.  Broadcasts, the service and reconnections*)
(* are of the main thread; connectGatt gets no handler, so that a callback *)
(* runs on a binder thread, one of a connection at a time, and stop() may  *)
(* come between its steps.  stop() neither takes a posted reconnection     *)
(* back nor ends a callback under way, so that a stopped manager may       *)
(* listen again.                                                           *)
(***************************************************************************)
EXTENDS Naturals, Sequences, FiniteSets

CONSTANTS
  NumManagers,  \* bound: managers in use at a time
  MaxAttempts,  \* reconnections before a manager gives up (5)
  MaxTroubles   \* bound: losses of range, failures in range, starts by the user

ASSUME ButtonAssumption ==
  NumManagers \in Nat /\ MaxAttempts \in Nat /\ MaxTroubles \in Nat

Managers  == 1 .. NumManagers
NoManager == 0

VARIABLES
  paired,       \* the system connects the button by itself, as an input device
  range,        \* the button is near and switched on
  link,         \* the radio link is up
  acl,          \* broadcasts not yet received
  flag,         \* the preference ble_device_connected
  service,      \* the manager of the running service
  gatt,         \* each manager's connection
  callbacks,    \* its callbacks not yet delivered
  work,         \* where its callback is that is under way
  attempts,     \* reconnectAttempts
  posted,       \* a reconnection is on the main looper
  listening,    \* notifications are enabled: presses reach this manager
  deaf,         \* managers connected, but without notifications for good
  troubles,
  (* history, read by properties only *)
  orphans,      \* managers stopped with a reconnection posted or on its way
  gaveUp,       \* managers that neither are connected nor try any more
  overtaken     \* some manager was stopped with a callback under way

envVars     == <<paired, range, link, acl, troubles>>
listenVars  == <<listening, deaf>>
historyVars == <<orphans, gaveUp, overtaken>>
managerVars == <<gatt, callbacks, work, attempts, posted, listenVars, historyVars>>
vars        == <<envVars, flag, service, managerVars>>

(* The steps of onConnectionStateChange that are to come: the flag to be   *)
(* raised; the flag to be lowered, a reconnection to be scheduled.         *)
Stages    == {"idle", "raise", "lower", "schedule"}
GoingDown == {"lower", "schedule"}

\* The variables have the types of the fields they model.
TypeOK ==
  /\ paired \in BOOLEAN /\ range \in BOOLEAN /\ link \in BOOLEAN
  /\ acl \in Seq({"up", "down"})
  /\ flag \in BOOLEAN /\ service \in Managers \cup {NoManager}
  /\ gatt \in [Managers -> {"none", "connecting", "connected"}]
  /\ callbacks \in [Managers -> Seq({"up", "down"})]
  /\ work \in [Managers -> Stages]
  /\ attempts \in [Managers -> 0 .. MaxAttempts + 1]
  /\ posted \in [Managers -> BOOLEAN] /\ listening \in [Managers -> BOOLEAN]
  /\ deaf \subseteq Managers /\ troubles \in 0 .. MaxTroubles
  /\ orphans \subseteq Managers /\ gaveUp \subseteq Managers
  /\ overtaken \in BOOLEAN

Init ==
  /\ paired \in BOOLEAN /\ range \in BOOLEAN /\ link = FALSE /\ acl = <<>> /\ flag = FALSE
  /\ service = NoManager
  /\ gatt = [m \in Managers |-> "none"]
  /\ callbacks = [m \in Managers |-> <<>>]
  /\ work = [m \in Managers |-> "idle"]
  /\ attempts = [m \in Managers |-> 0]
  /\ posted = [m \in Managers |-> FALSE]
  /\ listening = [m \in Managers |-> FALSE]
  /\ deaf = {} /\ troubles = 0
  /\ orphans = {} /\ gaveUp = {} /\ overtaken = FALSE

\* A reconnection of the manager is posted, or will be by the callback under way.
Reconnects(m) == posted[m] \/ work[m] \in GoingDown

\* Nothing of the manager will ever run again; its place is taken by the next.
Dead(m) ==
  /\ m # service /\ gatt[m] = "none" /\ callbacks[m] = <<>>
  /\ work[m] = "idle" /\ ~posted[m]

IsNew(m) == Dead(m) /\ \A n \in Managers : Dead(n) => m <= n

\* connect(): connectGatt begins to connect, or throws (no permission, no such
\* device), which is logged and forgotten.
Connect(m, connections) ==
  \/ /\ gatt' = [connections EXCEPT ![m] = "connecting"]
     /\ gaveUp' = gaveUp \ {m}
  \/ /\ gatt' = [connections EXCEPT ![m] = "none"]
     /\ gaveUp' = gaveUp \cup {m}

-----------------------------------------------------------------------------
(* The service.                                                            *)

\* A variant: the connection is left to the system.
NotClosed(m) == gatt

Closed(m) == [gatt EXCEPT ![m] = "none"]

\* onDestroy and the manager's stop(): a closed connection calls back no more,
\* but a callback under way goes on.
StoppedService ==
  IF service = NoManager
  THEN [gatt |-> gatt, callbacks |-> callbacks, listening |-> listening,
        deaf |-> deaf, orphans |-> orphans, overtaken |-> overtaken]
  ELSE [gatt      |-> Closed(service),
        callbacks |-> [callbacks EXCEPT ![service] = <<>>],
        listening |-> [listening EXCEPT ![service] = FALSE],
        deaf      |-> deaf \ {service},
        orphans   |-> IF Reconnects(service) THEN orphans \cup {service} ELSE orphans,
        overtaken |-> overtaken \/ work[service] # "idle"]

\* reconnectAttempts = 0, which the reconnectAttempts++ of a callback under way
\* may overwrite with the number it had.
ResetAttempts ==
  \/ service # NoManager /\ attempts' = [attempts EXCEPT ![service] = 0]
  \/ /\ service # NoManager => work[service] = "schedule"
     /\ UNCHANGED attempts

\* The link goes down with its last connection, unless the system keeps that of a paired button.
LinkMayDrop(broadcasts) ==
  \/ /\ ~paired /\ link /\ service # NoManager /\ gatt[service] = "connected"
     /\ \A m \in Managers \ {service} : gatt[m] # "connected"
     /\ link' = FALSE /\ acl' = Append(broadcasts, "down")
  \/ acl' = broadcasts /\ UNCHANGED link

\* A variant: only the manager is stopped.
StillRunning == service

NotRunning == NoManager

StopService ==
  /\ service' = NotRunning
  /\ gatt' = StoppedService.gatt /\ callbacks' = StoppedService.callbacks
  /\ ResetAttempts
  /\ listening' = StoppedService.listening /\ deaf' = StoppedService.deaf
  /\ orphans' = StoppedService.orphans /\ overtaken' = StoppedService.overtaken
  /\ UNCHANGED <<posted, work, gaveUp>>

\* onCreate with a new manager that connects; a running service takes no notice.
StartService ==
  IF service # NoManager THEN UNCHANGED <<service, managerVars>>
  ELSE \E m \in Managers :
         /\ IsNew(m)
         /\ service' = m
         /\ Connect(m, gatt)
         /\ attempts' = [attempts EXCEPT ![m] = 0]
         /\ orphans' = orphans \ {m}
         /\ UNCHANGED <<callbacks, work, posted, listenVars, overtaken>>

\* The activity is created.
AppStarts ==
  /\ service = NoManager /\ troubles < MaxTroubles
  /\ troubles' = troubles + 1
  /\ StartService
  /\ UNCHANGED <<paired, range, link, acl, flag>>

\* The button is chosen in the settings again, which also clears the flag, or
\* the permissions are granted: the service is stopped, and started with a new
\* manager, which takes the place of the old one if that is done.
Restart ==
  /\ service # NoManager /\ troubles < MaxTroubles
  /\ troubles' = troubles + 1
  /\ flag' \in {flag, FALSE}
  /\ \E m \in Managers :
       /\ IF posted[service] \/ work[service] # "idle" THEN IsNew(m) ELSE m = service
       /\ service' = m
       /\ Connect(m, StoppedService.gatt)
       /\ \E reset \in {attempts[service], 0} :
            /\ reset = 0 \/ work[service] = "schedule"
            /\ attempts' = [attempts EXCEPT ![service] = reset, ![m] = 0]
       /\ orphans' = StoppedService.orphans \ {m}
  /\ callbacks' = StoppedService.callbacks
  /\ listening' = StoppedService.listening /\ deaf' = StoppedService.deaf
  /\ overtaken' = StoppedService.overtaken
  /\ LinkMayDrop(acl)
  /\ UNCHANGED <<paired, range, posted, work>>

\* BluetoothReceiver.onReceive, for the chosen button.
Receive ==
  /\ acl # <<>>
  /\ \/ /\ Head(acl) = "up" /\ flag' = TRUE
        /\ StartService
        /\ acl' = Tail(acl) /\ UNCHANGED link
     \/ /\ Head(acl) = "down" /\ flag' = FALSE
        /\ StopService
        /\ LinkMayDrop(Tail(acl))
  /\ UNCHANGED <<paired, range, troubles>>

-----------------------------------------------------------------------------
(* The manager.                                                            *)

\* onConnectionStateChange, connected: the attempts are counted anew.
CallbackUp(m) ==
  /\ work[m] = "idle" /\ callbacks[m] # <<>> /\ Head(callbacks[m]) = "up"
  /\ work' = [work EXCEPT ![m] = "raise"]
  /\ callbacks' = [callbacks EXCEPT ![m] = Tail(@)]
  /\ attempts' = [attempts EXCEPT ![m] = 0]
  /\ UNCHANGED <<envVars, flag, service, gatt, posted, listenVars, historyVars>>

\* The flag is raised and the discovery of services posted.
RaiseFlag(m) ==
  /\ work[m] = "raise"
  /\ work' = [work EXCEPT ![m] = "idle"]
  /\ flag' = TRUE
  /\ UNCHANGED <<envVars, service, gatt, callbacks, attempts, posted, listenVars,
                 historyVars>>

\* Services are discovered and notifications enabled, or not: the discovery may
\* fail, the descriptor be missing or the call throw, and nothing tries again.
Subscribe(m) ==
  /\ gatt[m] = "connected" /\ callbacks[m] = <<>> /\ work[m] = "idle"
  /\ ~listening[m] /\ m \notin deaf
  /\ \/ /\ listening' = [listening EXCEPT ![m] = TRUE]
        /\ UNCHANGED <<deaf, troubles>>
     \/ /\ troubles < MaxTroubles
        /\ deaf' = deaf \cup {m} /\ troubles' = troubles + 1
        /\ UNCHANGED listening
  /\ UNCHANGED <<paired, range, link, acl, flag, service, gatt, callbacks, work,
                 attempts, posted, historyVars>>

\* A variant: one attempt more is counted than there are.
TriesFor(m) == attempts[m] <= MaxAttempts + 1

Tries(m) == attempts[m] <= MaxAttempts

\* A variant: a posted reconnection is not counted.
NotCounted(m) == attempts

Counted(m) == [attempts EXCEPT ![m] = @ + 1]

\* onConnectionStateChange, disconnected: the connection is forgotten,
CallbackDown(m) ==
  /\ work[m] = "idle" /\ callbacks[m] # <<>> /\ Head(callbacks[m]) = "down"
  /\ work' = [work EXCEPT ![m] = "lower"]
  /\ callbacks' = [callbacks EXCEPT ![m] = Tail(@)]
  /\ UNCHANGED <<envVars, flag, service, gatt, attempts, posted, listenVars,
                 historyVars>>

\* the flag lowered
LowerFlag(m) ==
  /\ work[m] = "lower"
  /\ work' = [work EXCEPT ![m] = "schedule"]
  /\ flag' = FALSE
  /\ UNCHANGED <<envVars, service, gatt, callbacks, attempts, posted, listenVars,
                 historyVars>>

\* and a reconnection posted: scheduleReconnect.
ScheduleReconnect(m) ==
  /\ work[m] = "schedule"
  /\ work' = [work EXCEPT ![m] = "idle"]
  /\ IF Tries(m)
     THEN /\ attempts' = Counted(m)
          /\ posted' = [posted EXCEPT ![m] = TRUE]
          /\ UNCHANGED gaveUp
     ELSE /\ gaveUp' = gaveUp \cup {m}
          /\ UNCHANGED <<attempts, posted>>
  /\ UNCHANGED <<envVars, flag, service, gatt, callbacks, listenVars, orphans,
                 overtaken>>

Reconnect(m) ==
  /\ posted[m]
  /\ posted' = [posted EXCEPT ![m] = FALSE]
  /\ Connect(m, gatt)
  /\ UNCHANGED <<envVars, flag, service, callbacks, work, attempts, listenVars,
                 orphans, overtaken>>

-----------------------------------------------------------------------------
(* The radio and Android's Bluetooth stack.                                *)

LinkUp == link' = TRUE /\ acl' = IF link THEN acl ELSE Append(acl, "up")

ConnectSucceeds(m) ==
  /\ gatt[m] = "connecting" /\ range
  /\ gatt' = [gatt EXCEPT ![m] = "connected"]
  /\ callbacks' = [callbacks EXCEPT ![m] = Append(@, "up")]
  /\ LinkUp
  /\ UNCHANGED <<paired, range, troubles, flag, service, work, attempts, posted,
                 listenVars, historyVars>>

ConnectFails(m) ==
  /\ gatt[m] = "connecting"
  /\ \/ ~range /\ UNCHANGED troubles
     \/ range /\ troubles < MaxTroubles /\ troubles' = troubles + 1
  /\ gatt' = [gatt EXCEPT ![m] = "none"]
  /\ callbacks' = [callbacks EXCEPT ![m] = Append(@, "down")]
  /\ UNCHANGED <<paired, range, link, acl, flag, service, work, attempts, posted,
                 listenVars, historyVars>>

SystemConnects ==
  /\ paired /\ range /\ ~link
  /\ LinkUp
  /\ UNCHANGED <<paired, range, troubles, flag, service, managerVars>>

LosesRange ==
  /\ range /\ troubles < MaxTroubles
  /\ troubles' = troubles + 1
  /\ range' = FALSE
  /\ link' = FALSE /\ acl' = IF link THEN Append(acl, "down") ELSE acl
  /\ gatt' = [m \in Managers |-> IF gatt[m] = "connected" THEN "none" ELSE gatt[m]]
  /\ callbacks' = [m \in Managers |-> IF gatt[m] = "connected"
                                      THEN Append(callbacks[m], "down")
                                      ELSE callbacks[m]]
  /\ listening' = [m \in Managers |-> listening[m] /\ gatt[m] # "connected"]
  /\ deaf' = {m \in deaf : gatt[m] # "connected"}
  /\ UNCHANGED <<paired, flag, service, work, attempts, posted, historyVars>>

ComesBack ==
  /\ ~range
  /\ range' = TRUE
  /\ UNCHANGED <<paired, link, acl, troubles, flag, service, managerVars>>

-----------------------------------------------------------------------------

Manager(m) ==
  \/ CallbackUp(m) \/ RaiseFlag(m) \/ Subscribe(m)
  \/ CallbackDown(m) \/ LowerFlag(m) \/ ScheduleReconnect(m) \/ Reconnect(m)

Stack(m) == ConnectSucceeds(m) \/ ConnectFails(m)

Next ==
  \/ AppStarts \/ Restart \/ Receive
  \/ SystemConnects \/ LosesRange \/ ComesBack
  \/ \E m \in Managers : Manager(m) \/ Stack(m)

Spec == Init /\ [][Next]_vars

\* Broadcasts and callbacks are delivered, posted runnables run, a connection
\* attempt ends, and the system connects a paired button in range.
FairSpec ==
  /\ Spec
  /\ WF_vars(Receive) /\ WF_vars(SystemConnects)
  /\ \A m \in Managers : WF_vars(Manager(m)) /\ WF_vars(Stack(m))

-----------------------------------------------------------------------------
(* Properties.                                                             *)

\* Presses reach the manager of the running service, and besides it only managers
\* that were stopped while a reconnection was posted (scheduleReconnect) or the
\* callback of a disconnection was under way, which posts one: there is no third
\* way to a second listener, for which one press counts twice.
OnlyOrphansListen ==
  \A m \in Managers :
    listening[m] \/ gatt[m] # "none" => m = service \/ m \in orphans

\* When the button stays away every manager gives up.  The flag by which the
\* volume keys are taken for the button's is down then, unless a manager was
\* stopped in the middle of a callback, which raised it afterwards.
RestsWhenAway ==
  <>[]~range =>
    <>[](/\ \A m \in Managers : gatt[m] = "none" /\ ~posted[m]
         /\ flag => overtaken)

\* When a paired button stays near, some manager listens to it in the end, unless
\* that of the service has given up (its attempts are used up, or connectGatt
\* threw) or is connected and could not subscribe: for these the code has no
\* second try, and for no other reason does a button near stay unheard.  And the
\* flag is then up, whatever callbacks of earlier connections came late, unless a
\* manager gave up after it was raised or was stopped in the middle of a callback.
ListensWhenNear ==
  paired /\ <>[]range =>
    /\ <>[](\E m \in Managers : listening[m]) \/ []<>(service \in gaveUp \cup deaf)
    /\ <>[]flag \/ []<>(gaveUp # {} \/ overtaken)
=============================================================================
