----------------------------- MODULE LiveLocation ------------------------------
(***************************************************************************)
(* The live location a session shares with the Telegram group and with a   *)
(* contact: a loop per session launches a sender every minute, the first   *)
(* sender creates the live message, later ones edit it, and stop()         *)
(* launches a coroutine that ends it.  A message nobody ends stays live    *)
(* for a day.                                                              *)
(*                                                                         *)
(* The ids of the live messages are fields of one activity, and all these  *)
(* coroutines run in its scope, which onDestroy cancels: a coroutine that  *)
(* has not begun, or that waits for a location or between two rounds, is   *)
(* dropped; a blocking network call and TDLib's answers are waited out.    *)
(* The module models one activity.  A coroutine that is launched begins    *)
(* before the user's next tap, but perhaps not before onDestroy cancels it.*)
(***************************************************************************)
EXTENDS Naturals, FiniteSets

CONSTANTS
  Tiles,       \* the tiles the user switches on and off
  MaxSessions, \* bound: sessions started in this activity
  Senders,     \* bound: coroutines of sendLiveLocation in progress
  MaxMsgs,     \* bound: live messages that exist or are remembered together
  MaxFailures, \* bound: network calls or locations that fail
  Destroyed    \* whether Android may destroy the activity

ASSUME LocationAssumption ==
  /\ Tiles \subseteq {"group", "contact", "gallery"}
  /\ MaxSessions \in Nat /\ MaxMsgs \in Nat /\ MaxFailures \in Nat
  /\ Destroyed \in BOOLEAN

Sessions == 1 .. MaxSessions
Msgs     == 1 .. MaxMsgs
None     == 0
Chats    == {"group", "contact"}

VARIABLES
  active,  \* isActive
  n,       \* sessions started so far
  phase,   \* "alive", "destroying" (in onDestroy), "cancelled" (its scope)
  flags,   \* the tiles switched on
  starter, \* the sessions whose information messages are being sent
  loop,    \* the sessions whose loop of startLiveLocation runs
  sender,  \* sendLiveLocation's coroutines: [at, to, msg, stale]
  stopper, \* session -> the coroutine of its stopLiveLocation
  id,      \* liveLocationMessageId, contactLiveLocationState
  live,    \* chat -> its messages that are live
  account, \* isAuthenticated of TelegramAuthHelper
  fails,   \* failures so far
  (* history, read by properties only *)
  astray   \* the messages that the code may leave live, see Properties

taskVars == <<starter, loop, stopper>>
chatVars == <<id, live, astray>>
outsideVars == <<account, fails>>
vars == <<active, n, phase, flags, taskVars, sender, chatVars, outsideVars>>

-----------------------------------------------------------------------------
SenderStages == {"free", "locating", "groupPosted", "contact", "contactPosted"}

Free == [at |-> "free", to |-> {}, msg |-> None, stale |-> FALSE]

TypeOK ==
  /\ active \in BOOLEAN
  /\ n \in 0 .. MaxSessions
  /\ phase \in {"alive", "destroying", "cancelled"}
  /\ flags \subseteq Tiles
  /\ starter \subseteq Sessions
  /\ loop \subseteq Sessions
  /\ sender \in [Senders -> [at : SenderStages, to : SUBSET Chats,
                             msg : Msgs \cup {None}, stale : BOOLEAN]]
  /\ stopper \in [Sessions -> {"none", "launched", "locating", "clearing"}]
  /\ id \in [Chats -> Msgs \cup {None}]
  /\ live \in [Chats -> SUBSET Msgs]
  /\ account \in BOOLEAN
  /\ fails \in 0 .. MaxFailures
  /\ astray \subseteq Msgs

Init ==
  /\ active = FALSE
  /\ n = 0
  /\ phase = "alive"
  /\ flags = {}
  /\ starter = {}
  /\ loop = {}
  /\ sender  = [k \in Senders |-> Free]
  /\ stopper = [s \in Sessions |-> "none"]
  /\ id   = [c \in Chats |-> None]
  /\ live = [c \in Chats |-> {}]
  /\ account = TRUE
  /\ fails = 0
  /\ astray = {}

Known == {None, id["group"], id["contact"]}

(* The bound on failures: each is one of the network or of Telegram.       *)
MayFail == fails < MaxFailures /\ fails' = fails + 1 /\ UNCHANGED account

-----------------------------------------------------------------------------
(* The main thread.                                                        *)

(* startAfterAccessCheck: a session with a chat's tile on sends its         *)
(* information messages and then starts the loop; any other does neither   *)
(* (a Bluetooth button starts one with no tile on).  The access check      *)
(* before it needs the account, which may be gone since.                   *)
Start ==
  /\ phase = "alive" /\ ~active /\ n < MaxSessions
  /\ active' = TRUE
  /\ n' = n + 1
  /\ starter' = IF flags \cap Chats = {} THEN starter ELSE starter \cup {n + 1}
  /\ UNCHANGED <<phase, flags, loop, stopper, sender, outsideVars>>
  /\ UNCHANGED chatVars

TileOn(t) ==
  /\ phase = "alive" /\ t \notin flags
  /\ flags' = flags \cup {t}
  /\ UNCHANGED <<active, n, phase, sender, outsideVars>>
  /\ UNCHANGED <<taskVars, chatVars>>

(* stop(): the tile flags are cleared at once, the live messages are ended *)
(* by a coroutine.  Senders in progress go on.                             *)
stop ==
  /\ active' = FALSE
  /\ flags' = {}
  /\ stopper' = [stopper EXCEPT ![n] = "launched"]
  /\ sender' = [k \in Senders |->
                  IF sender[k].at = "free" THEN Free
                                           ELSE [sender[k] EXCEPT !.stale = TRUE]]
  /\ astray' = astray \cup ({sender[k].msg : k \in Senders} \ Known)
  /\ UNCHANGED <<n, starter, loop, id, live, outsideVars>>

Stop == phase = "alive" /\ active /\ stop /\ UNCHANGED phase

(* Variant of TileOff: the chat's message is forgotten with its tile.      *)
TileOffForgets(t) ==
  /\ phase = "alive" /\ t \in flags
  /\ ~(active /\ flags = {t})
  /\ flags' = flags \ {t}
  /\ id' = [c \in Chats |-> IF c = t THEN None ELSE id[c]]
  /\ UNCHANGED <<active, n, phase, sender, live, astray, outsideVars>>
  /\ UNCHANGED taskVars

(* Logged out in the settings, or the session ended from another device:   *)
(* TDLib is closed then, and no login succeeds before the process ends.    *)
LogOut ==
  /\ account
  /\ account' = FALSE
  /\ UNCHANGED <<active, n, phase, flags, taskVars, sender, chatVars, fails>>

(* Switching the last tile off stops the session.                          *)
TileOff(t) ==
  /\ phase = "alive" /\ t \in flags
  /\ ~(active /\ flags = {t})
  /\ flags' = flags \ {t}
  /\ UNCHANGED <<active, n, phase, sender, outsideVars>>
  /\ UNCHANGED <<taskVars, chatVars>>

(* onDestroy calls stop() and then cancels the scope.                      *)
DestroyStops ==
  /\ Destroyed /\ phase = "alive"
  /\ phase' = "destroying"
  /\ \/ active /\ stop
     \/ ~active /\ UNCHANGED <<active, n, flags, taskVars, sender, chatVars, outsideVars>>

DestroyCancels ==
  /\ phase = "destroying"
  /\ phase' = "cancelled"
  /\ starter' = {}
  /\ loop' = {}
  /\ sender' = [k \in Senders |->
                  IF sender[k].at = "locating" THEN Free ELSE sender[k]]
  /\ stopper' = [s \in Sessions |->
                  IF stopper[s] \in {"launched", "locating"} THEN "none"
                                                             ELSE stopper[s]]
  /\ id' = IF \E s \in Sessions : stopper[s] = "locating"
             THEN [c \in Chats |-> None]
             ELSE id
  /\ UNCHANGED <<active, n, flags, live, astray, outsideVars>>

-----------------------------------------------------------------------------
(* The information messages are sent: the loop begins.                     *)
StartLiveLocation(s) ==
  /\ s \in starter
  /\ starter' = starter \ {s}
  /\ loop' = loop \cup {s}
  /\ UNCHANGED <<active, n, phase, flags, stopper, sender, outsideVars>>
  /\ UNCHANGED chatVars

(* A round of the loop: the sender it launches reads the flags; with no    *)
(* chat on it is over at once.                                             *)
LoopRound(s) ==
  /\ s \in loop /\ active /\ flags \cap Chats # {}
  /\ \E k \in Senders :
       /\ sender[k] = Free
       /\ sender' = [sender EXCEPT ![k].at = "locating", ![k].to = flags \cap Chats]
  /\ UNCHANGED <<active, n, phase, flags, stopper, starter, loop, outsideVars>>
  /\ UNCHANGED chatVars

LoopEnds(s) ==
  /\ s \in loop /\ ~active
  /\ loop' = loop \ {s}
  /\ UNCHANGED <<active, n, phase, flags, starter, stopper, sender, outsideVars>>
  /\ UNCHANGED chatVars

-----------------------------------------------------------------------------
(* A sender: sendLiveLocation.                                             *)

(* Variant of AfterGroup: the sender returns to the group.                 *)
AfterGroupAgain(k) ==
  IF "contact" \in sender[k].to
    THEN [sender[k] EXCEPT !.at = "group", !.msg = None]
    ELSE Free

(* After the group comes the contact, if its tile was on.                  *)
AfterGroup(k) ==
  IF "contact" \in sender[k].to
    THEN [sender[k] EXCEPT !.at = "contact", !.msg = None]
    ELSE Free

Posted(c) == IF c = "group" THEN "groupPosted" ELSE "contactPosted"

(* Messages created in chat c whose id the sender has not recorded yet.    *)
InHand(c) == {sender[k].msg : k \in {j \in Senders : sender[j].at = Posted(c)}}

(* Names for a new message: those of no message live or remembered.        *)
Unused ==
  Msgs \ UNION {live["group"], live["contact"], Known, {sender[k].msg : k \in Senders}}

(* Create a live message in chat c, unless the call fails outright.  It is *)
(* astray when a stop overtook the sender or another sender creates one    *)
(* too; so is one whose answer is lost, and one whose id is dropped by a   *)
(* stop that failed or that a restart has overtaken.                       *)
Create(k, c) ==
  \/ /\ Unused # {}
     /\ LET m == CHOOSE m \in Unused : \A o \in Unused : m <= o
        IN /\ live' = [live EXCEPT ![c] = @ \cup {m}]
           /\ astray' = (astray \ {m}) \cup InHand(c)
                 \cup IF sender[k].stale \/ InHand(c) # {} THEN {m} ELSE {}
           /\ sender' = [sender EXCEPT ![k].at = Posted(c), ![k].msg = m]
     /\ UNCHANGED outsideVars
  \/ /\ sender' = [sender EXCEPT ![k] = Free] /\ MayFail
     /\ UNCHANGED <<live, astray>>

(* The location arrives and the group's id is tested; from here to its     *)
(* answer the sender is in blocking calls.  An exception, or no location,  *)
(* ends it.                                                                *)
PostToGroup(k) ==
  /\ sender[k].at = "locating" /\ "group" \in sender[k].to
  /\ id["group"] = None
  /\ Create(k, "group")
  /\ UNCHANGED <<active, n, phase, flags, id>>
  /\ UNCHANGED taskVars

EditInGroup(k) ==
  /\ sender[k].at = "locating" /\ "group" \in sender[k].to
  /\ id["group"] # None
  /\ \/ sender' = [sender EXCEPT ![k] = AfterGroup(k)] /\ UNCHANGED outsideVars
     \/ sender' = [sender EXCEPT ![k] = Free] /\ MayFail
  /\ UNCHANGED <<active, n, phase, flags>>
  /\ UNCHANGED <<taskVars, chatVars>>

SkipGroup(k) ==
  /\ sender[k].at = "locating" /\ "group" \notin sender[k].to
  /\ \/ sender' = [sender EXCEPT ![k] = AfterGroup(k)] /\ UNCHANGED outsideVars
     \/ sender' = [sender EXCEPT ![k] = Free] /\ MayFail
  /\ UNCHANGED <<active, n, phase, flags>>
  /\ UNCHANGED <<taskVars, chatVars>>

(* The answer to sendLocation, or an exception while reading it.           *)
GroupAnswers(k) ==
  /\ sender[k].at = "groupPosted"
  /\ \/ /\ id' = [id EXCEPT !["group"] = sender[k].msg]
        /\ sender' = [sender EXCEPT ![k] = AfterGroup(k)]
        /\ UNCHANGED <<astray, outsideVars>>
     \/ /\ sender' = [sender EXCEPT ![k] = Free] /\ MayFail
        /\ astray' = astray \cup {sender[k].msg}
        /\ UNCHANGED id
  /\ UNCHANGED <<active, n, phase, flags, live>>
  /\ UNCHANGED taskVars

(* A contact, with TDLib, if there is an account: the message known is     *)
(* edited, or one created; the callback posts its id, and the sender       *)
(* records it in either case.                                              *)
SkipContact(k) ==
  /\ sender[k].at = "contact" /\ ~account
  /\ sender' = [sender EXCEPT ![k] = Free]
  /\ UNCHANGED <<active, n, phase, flags, outsideVars>>
  /\ UNCHANGED <<taskVars, chatVars>>

PostToContact(k) ==
  /\ sender[k].at = "contact" /\ account /\ id["contact"] = None
  /\ Create(k, "contact")
  /\ UNCHANGED <<active, n, phase, flags, id>>
  /\ UNCHANGED taskVars

EditAtContact(k) ==
  /\ sender[k].at = "contact" /\ account /\ id["contact"] # None
  /\ \/ /\ id["contact"] \in live["contact"]
        /\ sender' = [sender EXCEPT ![k].at = "contactPosted",
                                    ![k].msg = id["contact"]]
        /\ UNCHANGED outsideVars
     \/ /\ id["contact"] \notin live["contact"]
        /\ sender' = [sender EXCEPT ![k] = Free]
        /\ UNCHANGED outsideVars
     \/ sender' = [sender EXCEPT ![k] = Free] /\ MayFail
  /\ UNCHANGED <<active, n, phase, flags>>
  /\ UNCHANGED <<taskVars, chatVars>>

(* A logout answers what is still asked with an error, whatever Telegram   *)
(* has done of it.                                                         *)
ContactAnswers(k) ==
  /\ sender[k].at = "contactPosted"
  /\ \/ id' = [id EXCEPT !["contact"] = sender[k].msg] /\ UNCHANGED astray
     \/ ~account /\ astray' = astray \cup {sender[k].msg} /\ UNCHANGED id
  /\ sender' = [sender EXCEPT ![k] = Free]
  /\ UNCHANGED <<active, n, phase, flags, live, outsideVars>>
  /\ UNCHANGED taskVars

Sender(k) ==
  \/ PostToGroup(k) \/ EditInGroup(k) \/ SkipGroup(k) \/ GroupAnswers(k)
  \/ SkipContact(k) \/ PostToContact(k) \/ EditAtContact(k) \/ ContactAnswers(k)

-----------------------------------------------------------------------------
(* stopLiveLocation.  Without a group message it goes on to the contacts.  *)

(* Variant of StopperBegins: without a group message nothing is ended.     *)
StopperNeedsGroup(s) ==
  /\ stopper[s] = "launched"
  /\ stopper' = [stopper EXCEPT ![s] =
                   IF id["group"] = None THEN "none" ELSE "locating"]
  /\ UNCHANGED <<active, n, phase, flags, starter, loop, sender, outsideVars>>
  /\ UNCHANGED chatVars

StopperBegins(s) ==
  /\ stopper[s] = "launched"
  /\ stopper' = [stopper EXCEPT ![s] =
                   IF id["group"] = None THEN "clearing" ELSE "locating"]
  /\ UNCHANGED <<active, n, phase, flags, starter, loop, sender, outsideVars>>
  /\ UNCHANGED chatVars

(* The last location arrives, or none, which does not matter, and          *)
(* stopMessageLiveLocation goes out for the id the field holds by now.     *)
(* Telegram's answer is not read: a refusal passes for an end.             *)
StopInGroup(s) ==
  /\ stopper[s] = "locating"
  /\ \/ /\ live' = [live EXCEPT !["group"] = @ \ {id["group"]}]
        /\ UNCHANGED <<astray, outsideVars>>
     \/ /\ MayFail
        /\ astray' = astray \cup ({id["group"]} \ {None})
        /\ UNCHANGED live
  /\ stopper' = [stopper EXCEPT ![s] = "clearing"]
  /\ UNCHANGED <<active, n, phase, flags, starter, loop, sender, id>>

(* The ids that a session after s has on record, and the stop of s drops.  *)
OfLater(s) == IF s = n THEN {} ELSE Known \ {None}

(* Both ids are forgotten.  The contact's message is ended if there is an  *)
(* account, and TDLib's answer is not read either.                         *)
StopAtContact(s) ==
  /\ stopper[s] = "clearing"
  /\ \/ /\ account
        /\ live' = [live EXCEPT !["contact"] = @ \ {id["contact"]}]
        /\ astray' = astray \cup OfLater(s)
        /\ UNCHANGED outsideVars
     \/ /\ (~account /\ UNCHANGED outsideVars) \/ (account /\ MayFail)
        /\ astray' = astray \cup OfLater(s) \cup ({id["contact"]} \ {None})
        /\ UNCHANGED live
  /\ id' = [c \in Chats |-> None]
  /\ stopper' = [stopper EXCEPT ![s] = "none"]
  /\ UNCHANGED <<active, n, phase, flags, starter, loop, sender>>

(* The location or the call fails: every id is dropped, nothing is ended.  *)
StopperFails(s) ==
  /\ stopper[s] = "locating" /\ MayFail
  /\ id' = [c \in Chats |-> None]
  /\ stopper' = [stopper EXCEPT ![s] = "none"]
  /\ astray' = astray \cup (Known \ {None})
  /\ UNCHANGED <<active, n, phase, flags, starter, loop, sender, live>>

Stopper(s) ==
  \/ StopperBegins(s) \/ StopInGroup(s) \/ StopAtContact(s) \/ StopperFails(s)

-----------------------------------------------------------------------------
Loop(s) == StartLiveLocation(s) \/ LoopRound(s) \/ LoopEnds(s)

Next ==
  \/ Start \/ Stop \/ DestroyStops \/ DestroyCancels \/ LogOut
  \/ \E t \in Tiles : TileOn(t) \/ TileOff(t)
  \/ \E s \in Sessions : Loop(s) \/ Stopper(s)
  \/ \E k \in Senders : Sender(k)

Spec == Init /\ [][Next]_vars

(* Coroutines are dispatched and their delays and calls end; what the user *)
(* and Android do is not fair.                                             *)
Fairness ==
  /\ \A s \in Sessions : WF_vars(Loop(s)) /\ WF_vars(Stopper(s))
  /\ \A k \in Senders : WF_vars(Sender(k))

FairSpec == Spec /\ Fairness
-----------------------------------------------------------------------------
(* Properties.                                                             *)

(* What the code may leave live for its day, astray, are messages          *)
(*   - of a sender that a stop overtook before their id was recorded, and  *)
(*     of two senders that created one each in the same chat;              *)
(*   - whose answer was lost, in the network or by a logout;               *)
(*   - whose stop failed, which drops the ids of both chats, or was        *)
(*     refused, or came when there was no account to end the contact's;    *)
(*   - of a session whose ids the stop of an earlier one has dropped.      *)

(* Every other message that is live is known by its id, or a sender is     *)
(* about to record it, and a chat has one of them at a time: neither the   *)
(* rounds of the loop, nor a second session, nor a toggled tile, nor a     *)
(* logout by itself loses a message or adds one (liveLocationMessageId and *)
(* contactLiveLocationState).                                              *)
NothingLost ==
  \A c \in Chats :
    /\ phase # "cancelled" => live[c] \ astray \subseteq {id[c]} \cup InHand(c)
    /\ Cardinality(live[c] \ astray) <= 1

(* «The location already runs in the loop of startLiveLocation, it checks  *)
(* the flags itself» (handleTileToggle): a group switched on during a      *)
(* session gets a live location.                                           *)
Sharing == active /\ "group" \in flags
TileShares == Sharing ~> (live["group"] # {} \/ ~Sharing)

Quiet ==
  /\ \A k \in Senders : sender[k] = Free
  /\ \A s \in Sessions : stopper[s] = "none"

(* When a stop has done its work and no sender is under way, none is live  *)
(* but those astray: stopLiveLocation ends every message whose id was on   *)
(* record, of either chat, unless its call fails, is refused or lacks the  *)
(* account.                                                                *)
StopEndsLocation ==
  ~active /\ phase = "alive" /\ Quiet => \A c \in Chats : live[c] \subseteq astray

(* «First stop the processes properly, then cancel the scope» (onDestroy): *)
(* no live message survives the activity, but those astray.                *)
NothingOutlivesActivity ==
  phase = "cancelled" /\ Quiet => \A c \in Chats : live[c] \subseteq astray
=============================================================================
