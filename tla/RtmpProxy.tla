------------------------------- MODULE RtmpProxy -------------------------------
(***************************************************************************)
(* RTMPProxyServer: the camera streams to a socket on localhost, and the   *)
(* proxy relays each connection to Telegram over TLS.  The proxy is an     *)
(* object of the process: a stream starts it, the end of every session     *)
(* stops it, one that recorded segments included, and all its coroutines   *)
(* run in a scope that is made once and cancelled by the first stop.       *)
(*                                                                         *)
(* startProxy and stopProxy run on the main thread and are one step each:  *)
(* stopProxy only sets isRunning, closes the socket and cancels, and what  *)
(* a coroutine does between these it could have done before.               *)
(***************************************************************************)
EXTENDS Naturals, FiniteSets

CONSTANTS
  MaxStarts, \* bound: streams started in the life of the process
  NumPorts   \* the ports tried, in this order (seven in the code)

ASSUME ProxyAssumption == MaxStarts \in Nat /\ NumPorts \in Nat \ {0}

Starts == 1 .. MaxStarts
Ports  == 1 .. NumPorts
None   == 0
Pumps  == {"up", "down"}    \* camera to Telegram, Telegram to camera

VARIABLES
  active,       \* MainActivity.isActive
  started,      \* streams started so far; the k-th has socket, loop, client k
  busy,         \* ports that other processes hold
  isRunning, serverSocket, cancelled,  \* the object's fields; proxyScope is off
  sock,         \* "none", "open", "closed"
  port,         \* the port in the URL given to the camera
  loop,         \* where the accept loop is
  holds,        \* the socket it waits on, or the client it has accepted
  client,       \* where the proxy is with the camera's connection
  via,          \* the socket the camera connected to
  near, far,    \* the camera's end and Telegram's end are open
  pump,         \* the two relays of a client
  replaced      \* history: open sockets a later start has replaced

mainVars   == <<active, started, busy, isRunning, serverSocket, cancelled>>
sockVars   == <<sock, port, replaced>>
loopVars   == <<loop, holds>>
clientVars == <<client, via, near, far, pump>>
vars       == <<mainVars, sockVars, loopVars, clientVars>>

LoopStates   == {"none", "launched", "look", "call", "accept", "hand", "done"}
ClientStates == {"none", "dialing", "backlog", "accepted", "launched",
                 "connecting", "relaying", "closed"}
PumpStates   == {"none", "running", "done"}

\* The variables have the types of the fields they model.
TypeOK ==
  /\ active \in BOOLEAN /\ started \in 0 .. MaxStarts /\ busy \subseteq Ports
  /\ isRunning \in BOOLEAN /\ cancelled \in BOOLEAN
  /\ serverSocket \in Starts \cup {None}
  /\ sock \in [Starts -> {"none", "open", "closed"}]
  /\ port \in [Starts -> Ports \cup {None}] /\ replaced \subseteq Starts
  /\ loop \in [Starts -> LoopStates] /\ holds \in [Starts -> Starts \cup {None}]
  /\ client \in [Starts -> ClientStates] /\ via \in [Starts -> Starts \cup {None}]
  /\ near \in [Starts -> BOOLEAN] /\ far \in [Starts -> BOOLEAN]
  /\ pump \in [Starts -> [Pumps -> PumpStates]]

Init ==
  /\ active = FALSE /\ started = 0 /\ busy \in SUBSET Ports
  /\ isRunning = FALSE /\ serverSocket = None /\ cancelled = FALSE
  /\ sock = [k \in Starts |-> "none"] /\ port = [k \in Starts |-> None]
  /\ replaced = {}
  /\ loop = [k \in Starts |-> "none"] /\ holds = [k \in Starts |-> None]
  /\ client = [k \in Starts |-> "none"] /\ via = [k \in Starts |-> None]
  /\ near = [k \in Starts |-> FALSE] /\ far = [k \in Starts |-> FALSE]
  /\ pump = [k \in Starts |-> [p \in Pumps |-> "none"]]

-----------------------------------------------------------------------------
(* The main thread.                                                        *)

IsOpen(k) == k # None /\ sock[k] = "open"

\* A variant: one port more than there is in the list.
FreePortsAndNext ==
  {p \in 1 .. NumPorts + 1 : p \notin busy
                             /\ \A k \in Starts : sock[k] = "open" => port[k] # p}

FreePorts ==
  {p \in Ports \ busy : \A k \in Starts : sock[k] = "open" => port[k] # p}

\* A variant: a start that finds the proxy running relies on the loop it has.
LaunchedOnce == IF cancelled \/ isRunning THEN "done" ELSE "launched"

\* The loop is launched in the scope; one that was cancelled runs nothing.
Launched == IF cancelled THEN "done" ELSE "launched"

\* Listens on the first free port; when there is none the fields stay as they
\* are and the caller gets the default URL.
startProxy(k) ==
  IF FreePorts = {}
  THEN /\ port' = [port EXCEPT ![k] = 1]
       /\ UNCHANGED <<isRunning, serverSocket, sock, replaced, loop>>
  ELSE /\ port' = [port EXCEPT ![k] =
                     CHOOSE p \in FreePorts : \A q \in FreePorts : p <= q]
       /\ sock' = [sock EXCEPT ![k] = "open"]
       /\ serverSocket' = k
       /\ isRunning' = TRUE
       /\ loop' = [loop EXCEPT ![k] = Launched]
       /\ replaced' = IF IsOpen(serverSocket) THEN replaced \cup {serverSocket}
                                              ELSE replaced

StartStream ==
  /\ started < MaxStarts
  /\ started' = started + 1
  /\ active' = TRUE
  /\ startProxy(started + 1)
  /\ client' = [client EXCEPT ![started + 1] = "dialing"]
  /\ near' = [near EXCEPT ![started + 1] = TRUE]
  /\ UNCHANGED <<busy, cancelled, holds, via, far, pump>>

\* A session that records segments, or whose surface is not ready.
StartOther ==
  /\ ~active /\ active' = TRUE
  /\ UNCHANGED <<started, busy, isRunning, serverSocket, cancelled, sockVars,
                 loopVars, clientVars>>

Closed == [k \in Starts |-> IF k = serverSocket THEN "closed" ELSE sock[k]]

\* stop(), whatever the session did: connections nobody accepted are reset.
stopProxy ==
  /\ active /\ active' = FALSE
  /\ isRunning' = FALSE /\ cancelled' = TRUE
  /\ sock' = Closed
  /\ LET reset == {k \in Starts : client[k] = "backlog" /\ sock'[via[k]] = "closed"}
     IN  /\ client' = [k \in Starts |-> IF k \in reset THEN "closed" ELSE client[k]]
         /\ near' = [k \in Starts |-> near[k] /\ k \notin reset]
  /\ UNCHANGED <<started, busy, serverSocket, port, replaced, loopVars, via, far, pump>>

-----------------------------------------------------------------------------
(* acceptConnections, a loop per start; it reads the field serverSocket.   *)

Goto(k, pc, h) ==
  /\ loop' = [loop EXCEPT ![k] = pc] /\ holds' = [holds EXCEPT ![k] = h]

LoopBegins(k) ==
  /\ loop[k] = "launched"
  /\ Goto(k, IF cancelled THEN "done" ELSE "look", None)
  /\ UNCHANGED <<mainVars, sockVars, clientVars>>

LoopLooks(k) ==
  /\ loop[k] = "look"
  /\ Goto(k, IF isRunning /\ IsOpen(serverSocket) THEN "call" ELSE "done", None)
  /\ UNCHANGED <<mainVars, sockVars, clientVars>>

\* accept() on a socket that is closed throws.
LoopCalls(k) ==
  /\ loop[k] = "call"
  /\ IF IsOpen(serverSocket) THEN Goto(k, "accept", serverSocket)
                             ELSE Goto(k, "done", None)
  /\ UNCHANGED <<mainVars, sockVars, clientVars>>

LoopAccepts(k) ==
  /\ loop[k] = "accept"
  /\ \E c \in Starts :
       /\ client[c] = "backlog" /\ via[c] = holds[k]
       /\ Goto(k, "hand", c)
       /\ client' = [client EXCEPT ![c] = "accepted"]
  /\ UNCHANGED <<mainVars, sockVars, via, near, far, pump>>

LoopBreaks(k) ==
  /\ loop[k] = "accept" /\ sock[holds[k]] = "closed"
  /\ Goto(k, "done", None)
  /\ UNCHANGED <<mainVars, sockVars, clientVars>>

\* The handler is launched in the scope: when that is cancelled it never runs,
\* and nothing closes the connection.
LoopHands(k) ==
  /\ loop[k] = "hand"
  /\ client' = [client EXCEPT ![holds[k]] = "launched"]
  /\ Goto(k, "look", None)
  /\ UNCHANGED <<mainVars, sockVars, via, near, far, pump>>

-----------------------------------------------------------------------------
(* handleClientConnection and its two relays.                              *)

\* The finally block: both sockets are closed.
CloseBoth(c) ==
  /\ client' = [client EXCEPT ![c] = "closed"]
  /\ near' = [near EXCEPT ![c] = FALSE] /\ far' = [far EXCEPT ![c] = FALSE]

HandlerBegins(c) ==
  /\ client[c] = "launched" /\ ~cancelled
  /\ client' = [client EXCEPT ![c] = "connecting"]
  /\ UNCHANGED <<mainVars, sockVars, loopVars, via, near, far, pump>>

\* createSocket blocks and cannot be cancelled; the relays are launched in the
\* scope, and when that is cancelled meanwhile they never run.  (One that is
\* launched and cancelled before it begins is as one that ends at once.)
HandlerConnects(c) ==
  /\ client[c] = "connecting"
  /\ client' = [client EXCEPT ![c] = "relaying"]
  /\ far' = [far EXCEPT ![c] = TRUE]
  /\ pump' = [pump EXCEPT ![c] = [p \in Pumps |-> IF cancelled THEN "done" ELSE "running"]]
  /\ UNCHANGED <<mainVars, sockVars, loopVars, via, near>>

HandlerFails(c) ==
  /\ client[c] = "connecting"
  /\ CloseBoth(c)
  /\ UNCHANGED <<mainVars, sockVars, loopVars, via, pump>>

\* A variant: the two joins end with the relays only.
JoinEndsWithRelays(c) == \A p \in Pumps : pump[c][p] = "done"

\* The two joins end when both relays have, or throw when the scope is
\* cancelled.
JoinEnds(c) == cancelled \/ \A p \in Pumps : pump[c][p] = "done"

HandlerEnds(c) ==
  /\ client[c] = "relaying" /\ JoinEnds(c)
  /\ CloseBoth(c)
  /\ UNCHANGED <<mainVars, sockVars, loopVars, via, pump>>

\* A relay reads until the end it reads from is closed, by either side.
Source(c, p) == IF p = "up" THEN near[c] ELSE far[c]
Target(c, p) == IF p = "up" THEN far[c] ELSE near[c]

PumpEnds(c, p) ==
  /\ pump[c][p] = "running" /\ ~Source(c, p)
  /\ pump' = [pump EXCEPT ![c][p] = "done"]
  /\ UNCHANGED <<mainVars, sockVars, loopVars, client, via, near, far>>

\* ... or until there was something to write and the other end is closed.
PumpWriteFails(c, p) ==
  /\ pump[c][p] = "running" /\ ~Target(c, p)
  /\ pump' = [pump EXCEPT ![c][p] = "done"]
  /\ UNCHANGED <<mainVars, sockVars, loopVars, client, via, near, far>>

-----------------------------------------------------------------------------
(* The camera's library, Telegram and the garbage collector.               *)

\* The connection waits in the backlog of the socket that listens there; the
\* port may be another process's, or nobody's.
Dial(c) ==
  /\ client[c] = "dialing"
  /\ LET at == {k \in Starts : sock[k] = "open" /\ port[k] = port[c]}
     IN  IF port[c] \in busy \/ at = {}
         THEN CloseBoth(c) /\ UNCHANGED via
         ELSE /\ client' = [client EXCEPT ![c] = "backlog"]
              /\ via' = [via EXCEPT ![c] = CHOOSE k \in at : TRUE]
              /\ UNCHANGED <<near, far>>
  /\ UNCHANGED <<mainVars, sockVars, loopVars, pump>>

CameraLeaves(c) ==
  /\ near[c] /\ near' = [near EXCEPT ![c] = FALSE]
  /\ client' = [client EXCEPT ![c] = IF @ = "dialing" THEN "closed" ELSE @]
  /\ UNCHANGED <<mainVars, sockVars, loopVars, via, far, pump>>

TelegramLeaves(c) ==
  /\ far[c] /\ far' = [far EXCEPT ![c] = FALSE]
  /\ UNCHANGED <<mainVars, sockVars, loopVars, client, via, near, pump>>

\* A socket that was replaced is closed when no loop waits on it.
Collect(k) ==
  /\ k \in replaced /\ sock[k] = "open"
  /\ \A j \in Starts : ~(loop[j] = "accept" /\ holds[j] = k)
  /\ sock' = [sock EXCEPT ![k] = "closed"]
  /\ LET reset == {c \in Starts : client[c] = "backlog" /\ via[c] = k}
     IN  /\ client' = [c \in Starts |-> IF c \in reset THEN "closed" ELSE client[c]]
         /\ near' = [c \in Starts |-> near[c] /\ c \notin reset]
  /\ UNCHANGED <<mainVars, port, replaced, loopVars, via, far, pump>>

-----------------------------------------------------------------------------
Loop(k) == \/ LoopBegins(k) \/ LoopLooks(k) \/ LoopCalls(k)
           \/ LoopAccepts(k) \/ LoopBreaks(k) \/ LoopHands(k)

Handler(c) == \/ HandlerBegins(c) \/ HandlerConnects(c) \/ HandlerFails(c)
              \/ HandlerEnds(c)

Next ==
  \/ StartStream \/ StartOther \/ stopProxy
  \/ \E k \in Starts : Loop(k) \/ Handler(k) \/ Collect(k)
  \/ \E c \in Starts : Dial(c) \/ CameraLeaves(c) \/ TelegramLeaves(c)
  \/ \E c \in Starts, p \in Pumps : PumpEnds(c, p) \/ PumpWriteFails(c, p)

Spec == Init /\ [][Next]_vars

(* Dispatchers.IO runs every coroutine, and a connection attempt ends.     *)
(* Neither user, camera nor Telegram has to do anything.                   *)
Fairness ==
  \A k \in Starts :
    WF_vars(Loop(k)) /\ WF_vars(Handler(k)) /\ \A p \in Pumps : WF_vars(PumpEnds(k, p))

FairSpec == Spec /\ Fairness

-----------------------------------------------------------------------------
(* Properties.                                                             *)

\* Until the first stop a camera that has connected to the proxy's current
\* socket is accepted, and a connection to Telegram tried for it, even when
\* starts overlap and the loop of the former start waits on the former socket.
FirstStartsServe ==
  \A c \in Starts :
    client[c] = "backlog" /\ via[c] = serverSocket
      ~> client[c] \in {"connecting", "relaying", "closed"} \/ cancelled
                                                       \/ via[c] \in replaced

\* A stop ends every relay, although Telegram may never close its end: the
\* joins of the handlers are cancelled and close both sockets.
StopEndsRelays ==
  \A c \in Starts :
    cancelled ~> /\ client[c] \notin {"connecting", "relaying"}
                 /\ \A p \in Pumps : pump[c][p] \in {"none", "done"}

\* What the object is for: a proxy that runs accepts the camera's connection.
\* It does not hold after the first stop, whose cancelled scope is used again.
RunningServes ==
  \A c \in Starts :
    client[c] = "backlog" /\ via[c] = serverSocket /\ isRunning
      ~> client[c] # "backlog" \/ ~isRunning \/ via[c] # serverSocket
=============================================================================
