--------------------------- MODULE LiveLocationProofs ---------------------------
(***************************************************************************)
(* The types and the safety properties of the live location, for any       *)
(* number of sessions, senders, messages and failures.                     *)
(*                                                                         *)
(* NothingLost and StopEndsLocation are not inductive.  What they rest on: *)
(* only a sender overtaken by a stop is under way between two sessions     *)
(* (SessionInv); a name stands for one message (NameInv); where two        *)
(* senders, or a sender and the id, hold different messages of a chat they *)
(* are astray (AstrayInv, OvertakenInv); a stopper past the group leaves   *)
(* none there but astray (ClearInv).  Then what is live and not astray is  *)
(* known or held (KnownInv), is one message (OneLive) and is gone after    *)
(* the last stop (EndedInv).  ChatStep says what each step does to the     *)
(* messages, so that every part is proved from that alone.                 *)
(***************************************************************************)
EXTENDS LiveLocation, FiniteSetTheorems, WellFoundedInduction, TLAPS

-----------------------------------------------------------------------------
(* Names of messages.                                                      *)

LEMMA MsgsAreNumbers == Msgs \subseteq Nat /\ None \notin Msgs
BY LocationAssumption DEF Msgs, None

(* Of some names one is the least.                                         *)
LEMMA LeastExists ==
  ASSUME NEW S \in SUBSET Msgs, S # {}
  PROVE  \E m \in S : \A o \in S : m <= o
<1>1. PICK m \in S : \A o \in S : ~(<<o, m>> \in OpToRel(<, Nat))
  BY MsgsAreNumbers, NatLessThanWellFounded, WFMin, Zenon
<1>2. \A o \in S : ~(o < m)
  BY <1>1, MsgsAreNumbers DEF OpToRel
<1> QED
  BY <1>2, MsgsAreNumbers

(* A new message has a name that nobody uses.                              *)
LEMMA NewName ==
  ASSUME Unused # {}
  PROVE  (CHOOSE m \in Unused : \A o \in Unused : m <= o) \in Unused
<1>1. \E m \in Unused : \A o \in Unused : m <= o
  BY LeastExists DEF Unused
<1> QED
  BY <1>1

-----------------------------------------------------------------------------
(* Types.                                                                  *)

SessionTypes ==
  /\ active \in BOOLEAN
  /\ n \in 0 .. MaxSessions
  /\ phase \in {"alive", "destroying", "cancelled"}
  /\ flags \subseteq Tiles
  /\ starter \subseteq Sessions
  /\ loop \subseteq Sessions
  /\ stopper \in [Sessions -> {"none", "launched", "locating", "clearing"}]
  /\ account \in BOOLEAN
  /\ fails \in 0 .. MaxFailures

SenderRecord == [at : SenderStages, to : SUBSET Chats,
                 msg : Msgs \cup {None}, stale : BOOLEAN]
SenderTypes == sender \in [Senders -> SenderRecord]

ChatTypes ==
  /\ id \in [Chats -> Msgs \cup {None}]
  /\ live \in [Chats -> SUBSET Msgs]
  /\ astray \subseteq Msgs

LEMMA TypesAreTypeOK == TypeOK <=> SessionTypes /\ SenderTypes /\ ChatTypes
BY DEF TypeOK, SessionTypes, SenderTypes, SenderRecord, ChatTypes

LEMMA SessionTypesStep == SessionTypes /\ [Next]_vars => SessionTypes'
<1> SUFFICES ASSUME SessionTypes, [Next]_vars PROVE SessionTypes'
  OBVIOUS
<1> USE DEF SessionTypes
<1>1. CASE UNCHANGED vars
  BY <1>1 DEF vars, taskVars, outsideVars
<1>2. \A s \in Sessions : s \in Nat /\ n + 1 \in Nat
  BY LocationAssumption DEF Sessions
<1>f. MayFail \/ UNCHANGED outsideVars =>
        fails' \in 0 .. MaxFailures /\ account' \in BOOLEAN
  BY LocationAssumption DEF MayFail, outsideVars
<1>3. CASE Start
  <2>1. n + 1 \in Sessions /\ n + 1 \in 0 .. MaxSessions
    BY <1>3, LocationAssumption DEF Start, Sessions
  <2> QED
    BY <1>3, <1>f, <2>1 DEF Start
<1>4. CASE Stop \/ DestroyStops
  BY <1>4, <1>f DEF Stop, DestroyStops, stop, taskVars
<1>5. CASE DestroyCancels \/ LogOut
  BY <1>5, <1>f DEF DestroyCancels, LogOut, taskVars
<1>6. ASSUME NEW t \in Tiles, TileOn(t) \/ TileOff(t)
      PROVE  SessionTypes'
  BY <1>6, <1>f DEF TileOn, TileOff, taskVars
<1>7. ASSUME NEW s \in Sessions, Loop(s)
      PROVE  SessionTypes'
  BY <1>7, <1>f DEF Loop, StartLiveLocation, LoopRound, LoopEnds
<1>8. ASSUME NEW s \in Sessions, Stopper(s)
      PROVE  SessionTypes'
  BY <1>8, <1>f DEF Stopper, StopperBegins, StopInGroup, StopAtContact, StopperFails
<1>9. ASSUME NEW k \in Senders, Sender(k)
      PROVE  SessionTypes'
  <2>1. MayFail \/ UNCHANGED outsideVars
    BY <1>9 DEF Sender, PostToGroup, EditInGroup, SkipGroup, GroupAnswers,
       SkipContact, PostToContact, EditAtContact, ContactAnswers, Create
  <2> QED
    BY <1>9, <1>f, <2>1 DEF Sender, PostToGroup, EditInGroup, SkipGroup,
       GroupAnswers, SkipContact, PostToContact, EditAtContact, ContactAnswers, taskVars
<1> QED
  BY <1>1, <1>3, <1>4, <1>5, <1>6, <1>7, <1>8, <1>9 DEF Next

(* What a sender's step makes of its record.                               *)
LEMMA SenderRecords ==
  ASSUME SenderTypes, NEW k \in Senders
  PROVE  /\ Free \in SenderRecord
         /\ AfterGroup(k) \in SenderRecord
         /\ [sender[k] EXCEPT !.stale = TRUE] \in SenderRecord
         /\ \A to \in SUBSET Chats :
              [sender[k] EXCEPT !.at = "locating", !.to = to] \in SenderRecord
         /\ \A c \in Chats : \A m \in Msgs :
              [sender[k] EXCEPT !.at = Posted(c), !.msg = m] \in SenderRecord
<1>1. sender[k] \in SenderRecord
  BY DEF SenderTypes
<1> USE <1>1 DEF SenderRecord, SenderStages
<1>2. Free \in SenderRecord
  BY DEF Free
<1>3. AfterGroup(k) \in SenderRecord
  BY <1>2 DEF AfterGroup
<1>4. \A to \in SUBSET Chats :
        [sender[k] EXCEPT !.at = "locating", !.to = to] \in SenderRecord
  OBVIOUS
<1>5. \A c \in Chats : \A m \in Msgs :
        [sender[k] EXCEPT !.at = Posted(c), !.msg = m] \in SenderRecord
  BY DEF Posted
<1> QED
  BY <1>2, <1>3, <1>4, <1>5

(* A live message m is created in chat c for sender k.                     *)
Created(k, c, m) ==
  /\ live' = [live EXCEPT ![c] = @ \cup {m}]
  /\ astray' = (astray \ {m}) \cup InHand(c)
                 \cup IF sender[k].stale \/ InHand(c) # {} THEN {m} ELSE {}
  /\ sender' = [sender EXCEPT ![k].at = Posted(c), ![k].msg = m]

LEMMA CreateSteps ==
  ASSUME NEW k, NEW c, Create(k, c)
  PROVE  \/ \E m \in Unused : Created(k, c, m)
         \/ sender' = [sender EXCEPT ![k] = Free] /\ UNCHANGED <<live, astray>>
<1>1. CASE Unused # {}
  <2> DEFINE m == CHOOSE m \in Unused : \A o \in Unused : m <= o
  <2>1. m \in Unused
    BY <1>1, NewName
  <2>2. Created(k, c, m) \/ (sender' = [sender EXCEPT ![k] = Free]
                              /\ UNCHANGED <<live, astray>>)
    BY DEF Create, Created
  <2> HIDE DEF m
  <2> QED
    BY <2>1, <2>2
<1>2. CASE Unused = {}
  BY <1>2 DEF Create
<1> QED
  BY <1>1, <1>2

LEMMA SenderTypesStep == SenderTypes /\ ChatTypes /\ [Next]_vars => SenderTypes'
<1> SUFFICES ASSUME SenderTypes, ChatTypes, [Next]_vars PROVE SenderTypes'
  OBVIOUS
<1>1. ASSUME NEW k \in Senders, NEW r \in SenderRecord,
             sender' = [sender EXCEPT ![k] = r]
      PROVE  SenderTypes'
  BY <1>1 DEF SenderTypes
<1>2. CASE UNCHANGED sender
  BY <1>2 DEF SenderTypes
<1>3. CASE stop
  <2>1. \A k \in Senders : (IF sender[k].at = "free" THEN Free
                            ELSE [sender[k] EXCEPT !.stale = TRUE]) \in SenderRecord
    BY SenderRecords
  <2> QED
    BY <1>3, <2>1 DEF stop, SenderTypes
<1>4. CASE DestroyCancels
  <2>1. \A k \in Senders : (IF sender[k].at = "locating" THEN Free
                            ELSE sender[k]) \in SenderRecord
    BY SenderRecords DEF SenderTypes
  <2> QED
    BY <1>4, <2>1 DEF DestroyCancels, SenderTypes
<1>5. ASSUME NEW s \in Sessions, LoopRound(s)
      PROVE  SenderTypes'
  <2>1. PICK k \in Senders :
          sender' = [sender EXCEPT ![k].at = "locating", ![k].to = flags \cap Chats]
    BY <1>5 DEF LoopRound
  <2>2. sender' = [sender EXCEPT ![k] =
                     [sender[k] EXCEPT !.at = "locating", !.to = flags \cap Chats]]
    BY <2>1 DEF SenderTypes, SenderRecord
  <2> QED
    BY <1>1, <2>2, SenderRecords
<1>p. ASSUME NEW k \in Senders, NEW c \in Chats, NEW m \in Msgs,
             sender' = [sender EXCEPT ![k].at = Posted(c), ![k].msg = m]
      PROVE  SenderTypes'
  <2>1. sender' = [sender EXCEPT ![k] =
                     [sender[k] EXCEPT !.at = Posted(c), !.msg = m]]
    BY <1>p DEF SenderTypes, SenderRecord
  <2> QED
    BY <1>1, <2>1, SenderRecords
<1>6. ASSUME NEW k \in Senders, Sender(k)
      PROVE  SenderTypes'
  <2>1. CASE \/ sender' = [sender EXCEPT ![k] = Free]
             \/ sender' = [sender EXCEPT ![k] = AfterGroup(k)]
    BY <1>1, <2>1, SenderRecords
  <2>2. ASSUME NEW c \in Chats, Create(k, c)
        PROVE  SenderTypes'
    BY <1>p, <2>1, <2>2, CreateSteps DEF Created, Unused
  <2>3. ASSUME sender' = [sender EXCEPT ![k].at = "contactPosted",
                                        ![k].msg = id["contact"]],
               id["contact"] # None
        PROVE  SenderTypes'
    <3>1. id["contact"] \in Msgs /\ "contact" \in Chats /\ Posted("contact") = "contactPosted"
      BY <2>3 DEF ChatTypes, Chats, Posted
    <3> QED
      BY <1>p, <2>3, <3>1
  <2> QED
    BY <1>6, <2>1, <2>2, <2>3 DEF Sender, PostToGroup, EditInGroup, SkipGroup,
       GroupAnswers, SkipContact, PostToContact, EditAtContact, ContactAnswers, Chats
<1> QED
  BY <1>2, <1>3, <1>4, <1>5, <1>6 DEF Next, vars, Start, Stop, DestroyStops,
     TileOn, TileOff, LogOut, Loop, StartLiveLocation, LoopEnds, Stopper, StopperBegins,
     StopInGroup, StopAtContact, StopperFails

(* A sender that has posted holds a message.                               *)
HoldTypes == \A k \in Senders :
  sender[k].at \in {"groupPosted", "contactPosted"} => sender[k].msg # None

LEMMA HoldTypesStep == SenderTypes /\ HoldTypes /\ [Next]_vars => HoldTypes'
<1> SUFFICES ASSUME SenderTypes, HoldTypes, [Next]_vars PROVE HoldTypes'
  OBVIOUS
<1>1. ASSUME NEW k \in Senders, NEW r, sender' = [sender EXCEPT ![k] = r],
             r.at \in {"groupPosted", "contactPosted"} => r.msg # None
      PROVE  HoldTypes'
  BY <1>1 DEF HoldTypes, SenderTypes
<1>2. CASE UNCHANGED sender
  BY <1>2 DEF HoldTypes
<1>3. CASE stop
  BY <1>3 DEF stop, SenderTypes, SenderRecord, Free, HoldTypes
<1>4. CASE DestroyCancels
  BY <1>4 DEF DestroyCancels, SenderTypes, Free, HoldTypes
<1>5. ASSUME NEW s \in Sessions, LoopRound(s)
      PROVE  HoldTypes'
  BY <1>5 DEF LoopRound, SenderTypes, SenderRecord, HoldTypes
<1>p. ASSUME NEW k \in Senders, NEW at, NEW m \in Msgs,
             sender' = [sender EXCEPT ![k].at = at, ![k].msg = m]
      PROVE  HoldTypes'
  BY <1>p, MsgsAreNumbers DEF SenderTypes, SenderRecord, HoldTypes
<1>6. ASSUME NEW k \in Senders, Sender(k)
      PROVE  HoldTypes'
  <2>1. CASE \/ sender' = [sender EXCEPT ![k] = Free]
             \/ sender' = [sender EXCEPT ![k] = AfterGroup(k)]
    <3>1. /\ Free.at = "free"
          /\ AfterGroup(k).at \in {"contact", "free"}
      BY DEF Free, AfterGroup, SenderTypes, SenderRecord
    <3> QED
      BY <1>1, <2>1, <3>1
  <2>2. ASSUME NEW c \in Chats, Create(k, c)
        PROVE  HoldTypes'
    BY <1>p, <2>1, <2>2, CreateSteps DEF Created, Unused
  <2>3. ASSUME sender' = [sender EXCEPT ![k].at = "contactPosted",
                                        ![k].msg = id["contact"]],
               id["contact"] # None
        PROVE  HoldTypes'
    BY <2>3 DEF SenderTypes, SenderRecord, HoldTypes
  <2> QED
    BY <1>6, <2>1, <2>2, <2>3 DEF Sender, PostToGroup, EditInGroup, SkipGroup,
       GroupAnswers, SkipContact, PostToContact, EditAtContact, ContactAnswers, Chats
<1> QED
  BY <1>2, <1>3, <1>4, <1>5, <1>6 DEF Next, vars, Start, Stop, DestroyStops,
     TileOn, TileOff, LogOut, Loop, StartLiveLocation, LoopEnds, Stopper, StopperBegins,
     StopInGroup, StopAtContact, StopperFails

LEMMA ChatTypesStep == SenderTypes /\ HoldTypes /\ ChatTypes /\ [Next]_vars => ChatTypes'
<1> SUFFICES ASSUME SenderTypes, HoldTypes, ChatTypes, [Next]_vars PROVE ChatTypes'
  OBVIOUS
<1>0. /\ \A k \in Senders : sender[k].msg \in Msgs \cup {None}
      /\ \A k \in Senders : sender[k].at \in {"groupPosted", "contactPosted"} =>
           sender[k].msg \in Msgs
  BY DEF SenderTypes, SenderRecord, HoldTypes
<1>k. Known \ {None} \subseteq Msgs
  BY DEF Known, ChatTypes, Chats
<1> USE DEF ChatTypes
<1>2. CASE UNCHANGED chatVars
  BY <1>2 DEF chatVars
<1>3. CASE stop
  BY <1>0, <1>3 DEF stop, Known
<1>4. CASE DestroyCancels
  BY <1>4 DEF DestroyCancels
<1>5. ASSUME NEW s \in Sessions, Stopper(s)
      PROVE  ChatTypes'
  <2>1. /\ {id["group"]} \ {None} \subseteq Msgs
        /\ {id["contact"]} \ {None} \subseteq Msgs
        /\ OfLater(s) \subseteq Msgs
    BY <1>k DEF Known, OfLater
  <2> QED
    BY <1>2, <1>5, <1>k, <2>1 DEF Stopper, StopperBegins, StopInGroup,
       StopAtContact, StopperFails
<1>6. ASSUME NEW k \in Senders, Sender(k)
      PROVE  ChatTypes'
  <2>1. ASSUME NEW c \in Chats, Create(k, c), UNCHANGED id
        PROVE  ChatTypes'
    <3>1. CASE UNCHANGED <<live, astray>>
      BY <2>1, <3>1
    <3>2. ASSUME NEW m \in Unused, Created(k, c, m)
          PROVE  ChatTypes'
      <4>1. InHand(c) \subseteq Msgs
        BY <1>0 DEF InHand, Posted
      <4>2. m \in Msgs
        BY DEF Unused
      <4>3. live' \in [Chats -> SUBSET Msgs]
        BY <3>2, <4>2 DEF Created
      <4> QED
        BY <2>1, <3>2, <4>1, <4>2, <4>3 DEF Created
    <3> QED
      BY <2>1, <3>1, <3>2, CreateSteps
  <2>2. CASE GroupAnswers(k) \/ ContactAnswers(k)
    BY <1>0, <2>2 DEF GroupAnswers, ContactAnswers
  <2> QED
    BY <1>2, <1>6, <2>1, <2>2 DEF Sender, PostToGroup, EditInGroup, SkipGroup,
       SkipContact, PostToContact, EditAtContact, Chats
<1> QED
  BY <1>2, <1>3, <1>4, <1>5, <1>6 DEF Next, vars, Start, Stop, DestroyStops,
     TileOn, TileOff, LogOut, Loop, StartLiveLocation, LoopRound, LoopEnds

TypeInv == TypeOK /\ HoldTypes

LEMMA TypeInvariant == Spec => []TypeInv
<1>1. Init => TypeInv
  <2> SUFFICES ASSUME Init PROVE TypeInv
    OBVIOUS
  <2>1. 0 \in 0 .. MaxSessions /\ 0 \in 0 .. MaxFailures
    BY LocationAssumption
  <2>4. SessionTypes
    BY <2>1 DEF Init, SessionTypes
  <2>2. SenderTypes /\ HoldTypes
    BY DEF Init, SenderTypes, SenderRecord, SenderStages, HoldTypes, Free
  <2>3. ChatTypes
    BY DEF Init, ChatTypes
  <2> QED
    BY <2>2, <2>3, <2>4, TypesAreTypeOK DEF TypeInv
<1>2. TypeInv /\ [Next]_vars => TypeInv'
  <2>1. TypeOK' <=> SessionTypes' /\ SenderTypes' /\ ChatTypes'
    BY DEF TypeOK, SessionTypes, SenderTypes, SenderRecord, ChatTypes
  <2> QED
    BY <2>1, TypesAreTypeOK, SessionTypesStep, SenderTypesStep, HoldTypesStep,
       ChatTypesStep DEF TypeInv
<1> QED
  BY <1>1, <1>2, PTL DEF Spec

(* Every variable keeps its type.  No message is counted astray that is    *)
(* none: a sender that waits for an answer has a message.                  *)
THEOREM LocationTypes == Spec => []TypeOK
BY TypeInvariant, PTL DEF TypeInv

(* A sender that is done, and one that goes on from the group, hold none.  *)
LEMMA NextRecords ==
  ASSUME SenderTypes, NEW k \in Senders
  PROVE  /\ Free.at = "free"
         /\ AfterGroup(k).at \in {"contact", "free"}
         /\ AfterGroup(k).at = "contact" => AfterGroup(k).stale = sender[k].stale
BY DEF Free, AfterGroup, SenderTypes, SenderRecord

-----------------------------------------------------------------------------
(* The inductive invariant.                                                *)

Holds(k, c) == sender[k].at = Posted(c)
Gone(m, c)  == m \in astray \/ m \notin live[c]

(* A session that goes on has no stopper; without one every sender that is *)
(* under way has been overtaken by a stop.                                 *)
SessionInv ==
  /\ active => n # 0 /\ stopper[n] = "none" /\ phase = "alive"
  /\ \A s \in Sessions : s > n => stopper[s] = "none"
  /\ ~active => \A k \in Senders : sender[k].at # "free" => sender[k].stale

(* A message has one name, in one chat; the group's is held by one sender  *)
(* until it is known.                                                      *)
NameInv ==
  /\ \A k \in Senders : Holds(k, "group") => sender[k].msg \notin Known
  /\ \A k \in Senders : Holds(k, "contact") => sender[k].msg # id["group"]
  /\ \A j, k \in Senders :
       j # k /\ Holds(k, "group") /\ (Holds(j, "group") \/ Holds(j, "contact")) =>
         sender[j].msg # sender[k].msg
  /\ id["group"] = id["contact"] => id["group"] = None

(* Two messages that senders hold in one chat are astray; so is one held   *)
(* while another is known, and the one known is astray then or ended; so   *)
(* is one that a sender holds for the group when a stop overtook it.       *)
AstrayInv ==
  /\ \A c \in Chats : \A j, k \in Senders :
       Holds(j, c) /\ Holds(k, c) =>
         sender[j].msg = sender[k].msg \/ sender[j].msg \in astray
  /\ \A c \in Chats : \A k \in Senders :
       Holds(k, c) /\ id[c] \notin {None, sender[k].msg} =>
         sender[k].msg \in astray /\ Gone(id[c], c)
  /\ \A k \in Senders :
       sender[k].stale /\ Holds(k, "group") => sender[k].msg \in astray

(* With the contact such a sender may hold the message that is known, of   *)
(* which it waits for an edit, and which the stopper ends.                 *)
OvertakenInv ==
  phase # "cancelled" => \A k \in Senders :
    sender[k].stale /\ Holds(k, "contact") =>
      Gone(sender[k].msg, "contact") \/ sender[k].msg = id["contact"]

(* A stopper that has been to the group leaves none there.                 *)
ClearInv == n # 0 /\ stopper[n] = "clearing" => Gone(id["group"], "group")

(* What is live and not astray is known or held, it is one message, and    *)
(* there is none when the last stop has done its work.                     *)
Kept(m, c) ==
  \/ m \in astray \/ m = id[c]
  \/ \E k \in Senders : Holds(k, c) /\ sender[k].msg = m
KnownInv == phase # "cancelled" => \A c \in Chats : \A m \in live[c] : Kept(m, c)

OneLive == \A c \in Chats : \A m, o \in live[c] \ astray : m = o

EndedInv ==
  ~active /\ phase = "alive" /\ (n # 0 => stopper[n] = "none") =>
    \A c \in Chats : live[c] \subseteq astray

LocInv ==
  /\ TypeInv /\ SessionInv /\ NameInv
  /\ AstrayInv /\ OvertakenInv /\ ClearInv
  /\ KnownInv /\ OneLive /\ EndedInv

LEMMA SessionInvStep == TypeInv /\ SessionInv /\ [Next]_vars => SessionInv'
<1> SUFFICES ASSUME TypeInv, SessionInv, [Next]_vars PROVE SessionInv'
  OBVIOUS
<1>t. /\ SessionTypes /\ SenderTypes /\ n \in Nat
      /\ \A s \in Sessions : s \in Nat /\ s # 0
      /\ \A s \in Nat : s # 0 /\ s <= MaxSessions => s \in Sessions
  BY TypesAreTypeOK, LocationAssumption DEF TypeInv, SessionTypes, Sessions
<1> USE DEF SessionInv
<1>1. CASE UNCHANGED <<active, n, phase, sender, stopper>>
  BY <1>1
<1>2. CASE Start
  <2>1. n + 1 \in Sessions /\ n + 1 > n
    BY <1>t, <1>2, LocationAssumption DEF Start
  <2> QED
    BY <1>t, <1>2, <2>1 DEF Start
<1>3. ASSUME stop, active
      PROVE  SessionInv'
  <2>1. \A s \in Sessions : s > n => stopper'[s] = "none"
    BY <1>t, <1>3 DEF stop, SessionTypes
  <2>2. \A k \in Senders : sender'[k].at # "free" => sender'[k].stale
    BY <1>t, <1>3 DEF stop, SenderTypes, SenderRecord, Free
  <2> QED
    BY <1>3, <2>1, <2>2 DEF stop
<1>4. CASE Stop \/ DestroyStops
  BY <1>3, <1>4 DEF Stop, DestroyStops, taskVars
<1>5. CASE DestroyCancels
  BY <1>t, <1>5 DEF DestroyCancels, SessionTypes, Free
<1>6. ASSUME NEW s \in Sessions, Stopper(s)
      PROVE  SessionInv'
  <2>1. stopper[s] # "none" /\ UNCHANGED <<active, n, phase, sender>>
        /\ \A r \in Sessions : r # s => stopper'[r] = stopper[r]
    BY <1>t, <1>6 DEF Stopper, StopperBegins, StopInGroup, StopAtContact,
       StopperFails, SessionTypes
  <2>2. active => n \in Sessions /\ n # s
    BY <1>t, <2>1 DEF SessionTypes, Sessions
  <2> QED
    BY <2>1, <2>2
<1>7. ASSUME NEW k \in Senders, sender[k].at # "free" \/ active,
             UNCHANGED <<active, n, phase, stopper>>,
             \A j \in Senders : j # k => sender'[j] = sender[j],
             sender'[k].at # "free" => sender'[k].stale = sender[k].stale
      PROVE  SessionInv'
  BY <1>7
<1>8. ASSUME NEW s \in Sessions, LoopRound(s)
      PROVE  SessionInv'
  BY <1>t, <1>8 DEF LoopRound, SenderTypes
<1>9. ASSUME NEW k \in Senders, Sender(k)
      PROVE  SessionInv'
  <2>1. sender[k].at # "free" /\ UNCHANGED <<active, n, phase, stopper>>
    BY <1>9 DEF Sender, PostToGroup, EditInGroup, SkipGroup, GroupAnswers,
       SkipContact, PostToContact, EditAtContact, ContactAnswers, taskVars
  <2>2. ASSUME NEW r, sender' = [sender EXCEPT ![k] = r],
               r.at # "free" => r.stale = sender[k].stale
        PROVE  SessionInv'
    BY <1>7, <1>t, <2>1, <2>2 DEF SenderTypes
  <2> HIDE DEF SessionInv
  <2>3. CASE \/ sender' = [sender EXCEPT ![k] = Free]
             \/ sender' = [sender EXCEPT ![k] = AfterGroup(k)]
    BY <1>t, <2>2, <2>3, NextRecords
  <2>4. ASSUME NEW at, NEW m, sender' = [sender EXCEPT ![k].at = at, ![k].msg = m]
        PROVE  SessionInv'
    BY <1>7, <1>t, <2>1, <2>4 DEF SenderTypes, SenderRecord
  <2>5. ASSUME NEW c, Create(k, c)
        PROVE  SessionInv'
    BY <2>3, <2>4, <2>5, CreateSteps DEF Created
  <2> QED
    BY <1>9, <2>3, <2>4, <2>5 DEF Sender, PostToGroup, EditInGroup, SkipGroup,
       GroupAnswers, SkipContact, PostToContact, EditAtContact, ContactAnswers
<1> QED
  BY <1>1, <1>2, <1>4, <1>5, <1>6, <1>8, <1>9 DEF Next, vars, taskVars, TileOn,
     TileOff, LogOut, Loop, StartLiveLocation, LoopEnds

-----------------------------------------------------------------------------
(* What every step does to the messages.                                   *)

Holding(k)  == sender[k].at \in {"groupPosted", "contactPosted"}
controlVars == <<active, n, phase, stopper>>

(* No sender gets or records a message.                                    *)
QuietStep ==
  /\ \A k \in Senders : Holding(k) \/ Holding(k)' => sender'[k] = sender[k]
  /\ UNCHANGED chatVars
  /\ phase' = phase \/ (phase = "alive" /\ phase' = "destroying")
  /\ \/ UNCHANGED <<active, n, stopper>>
     \/ active' /\ n' = n + 1 /\ UNCHANGED stopper
     \/ (\E s \in Sessions : StopperBegins(s)) /\ UNCHANGED <<active, n>>

(* Sender k comes to hold message m of chat c, or holds none any more.     *)
Gets(k, c, m) ==
  /\ ~Holding(k) /\ sender'[k].at = Posted(c) /\ sender'[k].msg = m
  /\ sender'[k].stale = sender[k].stale /\ sender[k].at # "free"
  /\ \A j \in Senders : j # k => sender'[j] = sender[j]
Leaves(k) ==
  /\ ~Holding(k)'
  /\ \A j \in Senders : j # k => sender'[j] = sender[j]

NewMessage(k, c, m) ==
  Gets(k, c, m) /\ Created(k, c, m) /\ id[c] = None /\ UNCHANGED id

ChatStep ==
  \/ QuietStep
  \/ stop /\ active
  \/ DestroyCancels
  \/ UNCHANGED controlVars /\ \E k \in Senders : \E c \in Chats : \E m \in Unused :
       NewMessage(k, c, m)
  \/ UNCHANGED controlVars /\ \E k \in Senders : GroupAnswers(k) /\ Leaves(k)
  \/ UNCHANGED controlVars /\ \E k \in Senders : ContactAnswers(k) /\ Leaves(k)
  \/ /\ UNCHANGED <<controlVars, chatVars>>
     /\ id["contact"] # None /\ id["contact"] \in live["contact"]
     /\ \E k \in Senders : Gets(k, "contact", id["contact"])
  \/ \E s \in Sessions : StopInGroup(s) \/ StopAtContact(s) \/ StopperFails(s)

LEMMA ChatSteps == TypeInv /\ [Next]_vars => ChatStep
<1> SUFFICES ASSUME TypeInv, [Next]_vars PROVE ChatStep
  OBVIOUS
<1>t. SenderTypes /\ ChatTypes
  BY TypesAreTypeOK DEF TypeInv
<1>1. CASE QuietStep
  BY <1>1 DEF ChatStep
<1>2. CASE UNCHANGED <<chatVars, sender, active, n, stopper>>
             /\ (phase' = phase \/ (phase = "alive" /\ phase' = "destroying"))
  BY <1>1, <1>2 DEF QuietStep, Holding
<1>3. CASE Start
  BY <1>1, <1>3 DEF Start, QuietStep, Holding
<1>4. CASE Stop \/ DestroyStops
  BY <1>2, <1>4 DEF Stop, DestroyStops, ChatStep, taskVars
<1>5. CASE DestroyCancels
  BY <1>5 DEF ChatStep
<1>6. ASSUME NEW s \in Sessions, LoopRound(s)
      PROVE  ChatStep
  <2>1. PICK k \in Senders :
          /\ sender[k] = Free
          /\ sender' = [sender EXCEPT ![k].at = "locating", ![k].to = flags \cap Chats]
    BY <1>6 DEF LoopRound
  <2>2. \A j \in Senders : Holding(j) \/ Holding(j)' => sender'[j] = sender[j]
    BY <1>t, <2>1 DEF Holding, SenderTypes, SenderRecord, Free
  <2> QED
    BY <1>1, <1>6, <2>2 DEF LoopRound, QuietStep
<1>7. ASSUME NEW s \in Sessions, Stopper(s)
      PROVE  ChatStep
  <2>1. CASE StopperBegins(s)
    BY <1>1, <2>1 DEF StopperBegins, QuietStep, Holding
  <2> QED
    BY <1>7, <2>1 DEF Stopper, ChatStep
<1>8. ASSUME NEW k \in Senders, Sender(k)
      PROVE  ChatStep
  <2>1. UNCHANGED controlVars /\ sender[k].at # "free"
    BY <1>8 DEF Sender, PostToGroup, EditInGroup, SkipGroup, GroupAnswers,
       SkipContact, PostToContact, EditAtContact, ContactAnswers, controlVars, taskVars
  <2>2. ASSUME \/ sender' = [sender EXCEPT ![k] = Free]
               \/ sender' = [sender EXCEPT ![k] = AfterGroup(k)]
        PROVE  Leaves(k)
    <3>1. sender'[k].at \in {"free", "contact"} /\ \A j \in Senders \ {k} : sender'[j] = sender[j]
      BY <1>t, <2>2, NextRecords DEF SenderTypes
    <3> QED
      BY <3>1 DEF Leaves, Holding
  <2>3. ASSUME ~Holding(k), Leaves(k), UNCHANGED chatVars
        PROVE  ChatStep
    BY <1>1, <2>1, <2>3 DEF Leaves, QuietStep, controlVars
  <2>4. ASSUME NEW c \in Chats, NEW m,
               ~Holding(k), sender' = [sender EXCEPT ![k].at = Posted(c), ![k].msg = m]
        PROVE  Gets(k, c, m)
    BY <1>t, <2>1, <2>4 DEF Gets, SenderTypes, SenderRecord
  <2>5. ASSUME NEW c \in Chats, Create(k, c), ~Holding(k), id[c] = None, UNCHANGED id
        PROVE  ChatStep
    <3>1. CASE sender' = [sender EXCEPT ![k] = Free] /\ UNCHANGED <<live, astray>>
      BY <2>2, <2>3, <2>5, <3>1 DEF chatVars
    <3>2. ASSUME NEW m \in Unused, Created(k, c, m)
          PROVE  NewMessage(k, c, m)
      BY <2>4, <2>5, <3>2 DEF NewMessage, Created
    <3> QED
      BY <2>1, <2>5, <3>1, <3>2, CreateSteps DEF ChatStep
  <2>6. CASE PostToGroup(k) \/ PostToContact(k)
    BY <2>5, <2>6 DEF PostToGroup, PostToContact, Holding, Chats
  <2>7. CASE GroupAnswers(k) \/ ContactAnswers(k)
    BY <2>1, <2>2, <2>7 DEF GroupAnswers, ContactAnswers, ChatStep
  <2>8. CASE EditInGroup(k) \/ SkipGroup(k) \/ SkipContact(k)
    BY <2>2, <2>3, <2>8 DEF EditInGroup, SkipGroup, SkipContact, Holding
  <2>9. CASE EditAtContact(k)
    <3>1. CASE sender' = [sender EXCEPT ![k] = Free]
      BY <2>2, <2>3, <2>9, <3>1 DEF EditAtContact, Holding
    <3>2. CASE id["contact"] \in live["contact"] /\
               sender' = [sender EXCEPT ![k].at = "contactPosted",
                                        ![k].msg = id["contact"]]
      <4>1. Gets(k, "contact", id["contact"])
        BY <2>4, <2>9, <3>2 DEF EditAtContact, Holding, Posted, Chats
      <4> QED
        BY <2>1, <2>9, <3>2, <4>1 DEF EditAtContact, ChatStep
    <3> QED
      BY <2>9, <3>1, <3>2 DEF EditAtContact
  <2> QED
    BY <1>8, <2>6, <2>7, <2>8, <2>9 DEF Sender
<1> QED
  BY <1>2, <1>3, <1>4, <1>5, <1>6, <1>7, <1>8 DEF Next, vars, taskVars, TileOn,
     TileOff, LogOut, Loop, StartLiveLocation, LoopEnds

LEMMA TwoChats ==
  /\ Chats = {"group", "contact"}
  /\ Posted("group") = "groupPosted" /\ Posted("contact") = "contactPosted"
BY DEF Chats, Posted

(* A stop and its cancellation leave the messages with their senders.      *)
LEMMA HoldersStay ==
  ASSUME SenderTypes, stop \/ DestroyCancels, NEW k \in Senders,
         Holding(k) \/ Holding(k)'
  PROVE  sender'[k].at = sender[k].at /\ sender'[k].msg = sender[k].msg
         /\ (DestroyCancels => sender'[k].stale = sender[k].stale)
         /\ (stop => sender'[k].stale)
BY DEF stop, DestroyCancels, Holding, SenderTypes, SenderRecord, Free

LEMMA NameInvStep == TypeInv /\ NameInv /\ ChatStep => NameInv'
<1> SUFFICES ASSUME TypeInv, NameInv, ChatStep PROVE NameInv'
  OBVIOUS
<1>t. SenderTypes /\ ChatTypes /\ HoldTypes
  BY TypesAreTypeOK DEF TypeInv
<1> USE TwoChats DEF NameInv, Holds, Known
<1>1. ASSUME \A k \in Senders : Holding(k) \/ Holding(k)' =>
               sender'[k].at = sender[k].at /\ sender'[k].msg = sender[k].msg,
             UNCHANGED id \/ id' = [c \in Chats |-> None]
      PROVE  NameInv'
  BY <1>1, <1>t DEF Holding, HoldTypes
<1>2. CASE QuietStep
  BY <1>1, <1>2 DEF QuietStep, chatVars
<1>3. CASE stop \/ DestroyCancels
  BY <1>1, <1>3, <1>t, HoldersStay DEF stop, DestroyCancels
<1>4. ASSUME NEW k \in Senders, NEW c \in Chats, NEW m \in Unused, NewMessage(k, c, m)
      PROVE  NameInv'
  <2>1. /\ m \notin Known /\ \A j \in Senders : sender[j].msg # m
    BY DEF Unused
  <2> QED
    BY <1>4, <2>1 DEF NewMessage, Gets, Holding
<1>5. ASSUME NEW k \in Senders, GroupAnswers(k), Leaves(k)
      PROVE  NameInv'
  BY <1>5, <1>t DEF GroupAnswers, Leaves, Holding, ChatTypes
<1>6. ASSUME NEW k \in Senders, ContactAnswers(k), Leaves(k)
      PROVE  NameInv'
  BY <1>6, <1>t DEF ContactAnswers, Leaves, Holding, ChatTypes
<1>7. ASSUME NEW k \in Senders, Gets(k, "contact", id["contact"]),
             UNCHANGED chatVars, id["contact"] # None
      PROVE  NameInv'
  BY <1>7 DEF Gets, Holding, chatVars
<1>8. ASSUME NEW s \in Sessions, StopInGroup(s) \/ StopAtContact(s) \/ StopperFails(s)
      PROVE  NameInv'
  BY <1>1, <1>8 DEF StopInGroup, StopAtContact, StopperFails, Holding
<1> QED
  BY <1>2, <1>3, <1>4, <1>5, <1>6, <1>7, <1>8 DEF ChatStep

LEMMA NewMessages ==
  ASSUME TypeInv, NEW k \in Senders, NEW c \in Chats, NEW m \in Unused,
         NewMessage(k, c, m)
  PROVE  /\ m \in Msgs /\ m \notin Known
         /\ \A j \in Senders : sender[j].msg # m
         /\ \A d \in Chats : m \notin live[d]
         /\ \A d \in Chats : live'[d] = IF d = c THEN live[d] \cup {m} ELSE live[d]
         /\ \A o \in astray : o = m \/ o \in astray'
         /\ \A j \in Senders : Holds(j, c) => sender[j].msg \in astray' /\ m \in astray'
         /\ sender[k].stale => m \in astray'
<1>1. /\ m \in Msgs /\ m \notin Known /\ \A j \in Senders : sender[j].msg # m
      /\ \A d \in Chats : m \notin live[d]
  BY TwoChats DEF Unused
<1>2. \A d \in Chats : live'[d] = IF d = c THEN live[d] \cup {m} ELSE live[d]
  BY TypesAreTypeOK DEF TypeInv, ChatTypes, NewMessage, Created
<1>3. astray' = (astray \ {m}) \cup InHand(c)
                 \cup IF sender[k].stale \/ InHand(c) # {} THEN {m} ELSE {}
  BY DEF NewMessage, Created
<1>4. \A j \in Senders : Holds(j, c) => sender[j].msg \in InHand(c)
  BY DEF Holds, InHand
<1> QED
  BY <1>1, <1>2, <1>3, <1>4

LEMMA AstrayInvStep ==
  TypeInv /\ NameInv /\ AstrayInv /\ ChatStep => AstrayInv'
<1> SUFFICES ASSUME TypeInv, NameInv, AstrayInv, ChatStep PROVE AstrayInv'
  OBVIOUS
<1>t. SenderTypes /\ ChatTypes /\ HoldTypes
  BY TypesAreTypeOK DEF TypeInv
<1> USE TwoChats DEF Holds
<1>1. ASSUME \A k \in Senders : Holding(k)' => sender'[k] = sender[k],
             UNCHANGED id \/ id' = [c \in Chats |-> None],
             astray \subseteq astray', \A c \in Chats : live'[c] \subseteq live[c]
      PROVE  AstrayInv'
  BY <1>1, <1>t DEF Holding, AstrayInv, Gone
<1>2. CASE QuietStep
  BY <1>1, <1>2 DEF QuietStep, chatVars
<1>3. CASE stop
  <2>1. \A k \in Senders : Holding(k)' =>
          sender'[k].at = sender[k].at /\ sender'[k].msg = sender[k].msg
    BY <1>3, <1>t, HoldersStay
  <2>2. \A k \in Senders : Holds(k, "group") => sender[k].msg \in astray'
    BY <1>3 DEF stop, NameInv
  <2>3. UNCHANGED <<id, live>> /\ astray \subseteq astray'
    BY <1>3 DEF stop
  <2> QED
    BY <2>1, <2>2, <2>3 DEF AstrayInv, Gone, Holding
<1>4. CASE DestroyCancels
  <2>1. \A k \in Senders : Holding(k)' => sender'[k] = sender[k]
    BY <1>4, <1>t DEF DestroyCancels, Holding, SenderTypes, Free
  <2> QED
    BY <1>1, <1>4, <2>1 DEF DestroyCancels
<1>5. ASSUME NEW k \in Senders, NEW c \in Chats, NEW m \in Unused, NewMessage(k, c, m)
      PROVE  AstrayInv'
  <2> HIDE TwoChats DEF Holds
  <2>1. /\ m \notin Known /\ \A j \in Senders : sender[j].msg # m
        /\ \A d \in Chats : live'[d] = IF d = c THEN live[d] \cup {m} ELSE live[d]
        /\ \A o \in astray : o = m \/ o \in astray'
        /\ \A j \in Senders : Holds(j, c) => sender[j].msg \in astray' /\ m \in astray'
        /\ sender[k].stale => m \in astray'
    BY <1>5, NewMessages
  <2>2. /\ sender'[k].at = Posted(c) /\ sender'[k].msg = m
        /\ sender'[k].stale = sender[k].stale
        /\ \A j \in Senders : j # k => sender'[j] = sender[j]
        /\ id[c] = None /\ UNCHANGED id
    BY <1>5 DEF NewMessage, Gets
  <2> QED
    BY <2>1, <2>2, TwoChats DEF AstrayInv, Gone, Known, Holds
<1>6. ASSUME NEW k \in Senders, GroupAnswers(k) \/ ContactAnswers(k), Leaves(k)
      PROVE  AstrayInv'
  <2>1. /\ ~Holding(k)' /\ \A j \in Senders : j # k => sender'[j] = sender[j]
        /\ UNCHANGED live /\ astray \subseteq astray'
    BY <1>6 DEF GroupAnswers, ContactAnswers, Leaves
  <2>2. CASE UNCHANGED id
    BY <1>1, <2>1, <2>2
  <2>3. ASSUME NEW c \in Chats, Holds(k, c), id' = [id EXCEPT ![c] = sender[k].msg]
        PROVE  AstrayInv'
    <3>1. /\ id'[c] = sender[k].msg
          /\ \A d \in Chats : d # c => id'[d] = id[d]
      BY <1>t, <2>3 DEF ChatTypes
    <3> QED
      BY <2>1, <2>3, <3>1 DEF AstrayInv, Gone, Holding
  <2> QED
    BY <1>6, <2>2, <2>3 DEF GroupAnswers, ContactAnswers
<1>7. ASSUME NEW k \in Senders, Gets(k, "contact", id["contact"]),
             UNCHANGED chatVars, id["contact"] # None, id["contact"] \in live["contact"]
      PROVE  AstrayInv'
  BY <1>7 DEF Gets, Holding, chatVars, AstrayInv, Gone
<1>8. ASSUME NEW s \in Sessions, StopInGroup(s) \/ StopAtContact(s) \/ StopperFails(s)
      PROVE  AstrayInv'
  <2>1. UNCHANGED sender /\ astray \subseteq astray'
        /\ \A c \in Chats : live'[c] \subseteq live[c]
    BY <1>8, <1>t DEF StopInGroup, StopAtContact, StopperFails, ChatTypes
  <2> QED
    BY <1>1, <1>8, <2>1 DEF StopInGroup, StopAtContact, StopperFails
<1> QED
  BY <1>2, <1>3, <1>4, <1>5, <1>6, <1>7, <1>8 DEF ChatStep

LEMMA OvertakenInvStep ==
  TypeInv /\ NameInv /\ AstrayInv /\ OvertakenInv /\ ChatStep => OvertakenInv'
<1> SUFFICES ASSUME TypeInv, NameInv, AstrayInv, OvertakenInv, ChatStep,
                    phase' # "cancelled", NEW k \in Senders,
                    sender'[k].stale, Holds(k, "contact")'
             PROVE  Gone(sender[k].msg, "contact")' \/ sender'[k].msg = id'["contact"]
  BY DEF OvertakenInv
<1>t. SenderTypes /\ ChatTypes /\ HoldTypes
  BY TypesAreTypeOK DEF TypeInv
<1>h. Holding(k)'
  BY TwoChats DEF Holds, Holding
<1>1. ASSUME sender'[k] = sender[k], phase # "cancelled"
      PROVE  Gone(sender[k].msg, "contact") \/ sender[k].msg = id["contact"]
  BY <1>1 DEF OvertakenInv, Holds
<1>2. CASE QuietStep
  <2>1. sender'[k] = sender[k] /\ UNCHANGED chatVars /\ phase # "cancelled"
    BY <1>2, <1>h DEF QuietStep
  <2> QED
    BY <1>1, <2>1 DEF chatVars, Gone
<1>3. CASE stop
  <2>1. sender'[k].at = sender[k].at /\ sender'[k].msg = sender[k].msg
    BY <1>3, <1>t, <1>h, HoldersStay
  <2>2. sender[k].msg # id["group"] /\ sender[k].msg # None
    BY <1>t, <2>1, TwoChats DEF NameInv, Holds, HoldTypes
  <2> QED
    BY <1>3, <2>1, <2>2 DEF stop, Known, Gone
<1>4. CASE DestroyCancels
  BY <1>4 DEF DestroyCancels
<1>5. ASSUME NEW j \in Senders, NEW c \in Chats, NEW m \in Unused,
             NewMessage(j, c, m), UNCHANGED controlVars
      PROVE  Gone(sender[k].msg, "contact")' \/ sender'[k].msg = id'["contact"]
  <2>1. /\ \A i \in Senders : sender[i].msg # m
        /\ \A d \in Chats : live'[d] = IF d = c THEN live[d] \cup {m} ELSE live[d]
        /\ \A o \in astray : o = m \/ o \in astray'
        /\ sender[j].stale => m \in astray'
    BY <1>5, NewMessages
  <2>2. /\ sender'[j].msg = m /\ sender'[j].stale = sender[j].stale
        /\ \A i \in Senders : i # j => sender'[i] = sender[i]
        /\ UNCHANGED id
    BY <1>5 DEF NewMessage, Gets
  <2> QED
    BY <1>1, <1>5, <2>1, <2>2, TwoChats DEF Gone, controlVars
<1>6. ASSUME NEW j \in Senders, GroupAnswers(j) \/ ContactAnswers(j), Leaves(j),
             UNCHANGED controlVars
      PROVE  Gone(sender[k].msg, "contact")' \/ sender'[k].msg = id'["contact"]
  <2>1. k # j /\ sender'[k] = sender[k] /\ UNCHANGED live /\ astray \subseteq astray'
    BY <1>6, <1>h DEF GroupAnswers, ContactAnswers, Leaves
  <2>2. Gone(sender[k].msg, "contact") \/ sender[k].msg = id["contact"]
    BY <1>1, <1>6, <2>1 DEF controlVars
  <2>3. CASE id'["contact"] = id["contact"]
    BY <2>1, <2>2, <2>3 DEF Gone
  <2>4. CASE Holds(j, "contact") /\ id'["contact"] = sender[j].msg
    <3>1. id["contact"] \in {None, sender[j].msg} \/ Gone(id["contact"], "contact")
      BY <2>4, TwoChats DEF AstrayInv
    <3>2. sender[k].msg # None
      BY <1>h, <1>t, <2>1 DEF Holding, HoldTypes
    <3> QED
      BY <2>1, <2>2, <2>4, <3>1, <3>2 DEF Gone
  <2> QED
    BY <1>6, <1>t, <2>3, <2>4, TwoChats DEF GroupAnswers, ContactAnswers, Holds, ChatTypes
<1>7. ASSUME NEW j \in Senders, Gets(j, "contact", id["contact"]),
             UNCHANGED chatVars, UNCHANGED controlVars
      PROVE  Gone(sender[k].msg, "contact")' \/ sender'[k].msg = id'["contact"]
  BY <1>1, <1>7 DEF Gets, chatVars, controlVars, Gone
<1>8. ASSUME NEW s \in Sessions, StopInGroup(s) \/ StopAtContact(s) \/ StopperFails(s)
      PROVE  Gone(sender[k].msg, "contact")' \/ sender'[k].msg = id'["contact"]
  <2>1. sender' = sender /\ phase # "cancelled"
    BY <1>8 DEF StopInGroup, StopAtContact, StopperFails
  <2>2. sender[k].msg # None
    BY <1>h, <1>t, <2>1 DEF Holding, HoldTypes
  <2> QED
    BY <1>1, <1>8, <1>t, <2>1, <2>2, TwoChats DEF StopInGroup, StopAtContact,
       StopperFails, Gone, ChatTypes, Known
<1> QED
  BY <1>2, <1>3, <1>4, <1>5, <1>6, <1>7, <1>8 DEF ChatStep

LEMMA ClearInvStep ==
  ASSUME TypeInv, TypeInv', SessionInv, AstrayInv, ClearInv, ChatStep
  PROVE  ClearInv'
<1> SUFFICES ASSUME n' # 0, stopper'[n'] = "clearing"
             PROVE  Gone(id["group"], "group")'
  BY DEF ClearInv
<1>t. /\ SessionTypes /\ ChatTypes /\ SenderTypes
      /\ n \in Nat /\ (n # 0 => n \in Sessions) /\ n' \in Nat /\ n' \in Sessions
  <2>1. SessionTypes /\ SessionTypes' /\ ChatTypes /\ SenderTypes
    BY TypesAreTypeOK DEF TypeInv, TypeOK, SessionTypes
  <2> QED
    BY <2>1, LocationAssumption DEF SessionTypes, Sessions
<1>n. None \notin live["group"] /\ \A c \in Chats : live[c] \subseteq Msgs
  BY <1>t, MsgsAreNumbers, TwoChats DEF ChatTypes
<1>1. ASSUME UNCHANGED <<n, stopper>>, id'["group"] = id["group"] \/ id'["group"] = None,
             live'["group"] \subseteq live["group"], astray \subseteq astray'
      PROVE  Gone(id["group"], "group")'
  BY <1>1, <1>n DEF ClearInv, Gone
<1>2. CASE QuietStep
  <2>1. CASE UNCHANGED <<active, n, stopper>>
    BY <1>1, <1>2, <2>1 DEF QuietStep, chatVars
  <2>2. CASE active' /\ n' = n + 1 /\ UNCHANGED stopper
    BY <1>t, <2>2 DEF SessionInv
  <2>3. ASSUME NEW s \in Sessions, StopperBegins(s), UNCHANGED n
        PROVE  Gone(id["group"], "group")'
    <3>1. CASE s = n
      BY <1>2, <1>n, <1>t, <2>3, <3>1 DEF StopperBegins, SessionTypes, QuietStep, chatVars,
         Gone
    <3>2. CASE s # n
      BY <1>2, <1>n, <1>t, <2>3, <3>2 DEF StopperBegins, SessionTypes, QuietStep, chatVars,
         Gone, ClearInv
    <3> QED
      BY <3>1, <3>2
  <2> QED
    BY <1>2, <2>1, <2>2, <2>3 DEF QuietStep
<1>3. CASE stop /\ active
  BY <1>3, <1>t DEF stop, SessionTypes
<1>4. CASE DestroyCancels
  <2>1. stopper[n] = "clearing"
    BY <1>4, <1>t DEF DestroyCancels, SessionTypes
  <2> QED
    BY <1>4, <1>n, <2>1, TwoChats DEF DestroyCancels, ClearInv, Gone
<1>5. ASSUME NEW j \in Senders, NEW c \in Chats, NEW m \in Unused,
             NewMessage(j, c, m), UNCHANGED controlVars
      PROVE  Gone(id["group"], "group")'
  <2>1. /\ m \notin Known /\ \A i \in Senders : sender[i].msg # m
        /\ \A d \in Chats : live'[d] = IF d = c THEN live[d] \cup {m} ELSE live[d]
        /\ \A o \in astray : o = m \/ o \in astray'
    BY <1>5, NewMessages
  <2>2. UNCHANGED id
    BY <1>5 DEF NewMessage
  <2> QED
    BY <1>5, <2>1, <2>2, TwoChats DEF Gone, controlVars, Known, ClearInv
<1>6. ASSUME NEW j \in Senders, GroupAnswers(j), UNCHANGED controlVars
      PROVE  Gone(id["group"], "group")'
  <2>1. ~active /\ sender[j].stale
    BY <1>6 DEF SessionInv, controlVars, GroupAnswers
  <2>2. sender[j].msg \in astray
    BY <1>6, <2>1, TwoChats DEF AstrayInv, GroupAnswers, Holds
  <2> QED
    BY <1>1, <1>6, <1>t, <2>2, TwoChats DEF GroupAnswers, controlVars, Gone, ChatTypes
<1>7. ASSUME NEW j \in Senders, ContactAnswers(j), UNCHANGED controlVars
      PROVE  Gone(id["group"], "group")'
  <2>1. id'["group"] = id["group"]
    BY <1>7, <1>t, TwoChats DEF ContactAnswers, ChatTypes
  <2> QED
    BY <1>1, <1>7, <2>1 DEF ContactAnswers, controlVars
<1>8. CASE UNCHANGED <<controlVars, chatVars>>
  BY <1>1, <1>8 DEF chatVars, controlVars
<1>9. ASSUME NEW s \in Sessions, StopInGroup(s)
      PROVE  Gone(id["group"], "group")'
  <2>1. /\ UNCHANGED <<n, id>> /\ astray \subseteq astray'
        /\ live'["group"] \subseteq live["group"]
        /\ id["group"] \in astray' \/ id["group"] \notin live'["group"]
    BY <1>9, <1>n, <1>t, TwoChats DEF StopInGroup, ChatTypes
  <2> QED
    BY <2>1 DEF Gone
<1>10. ASSUME NEW s \in Sessions, StopAtContact(s) \/ StopperFails(s)
       PROVE  Gone(id["group"], "group")'
  BY <1>10, <1>t, <1>n, TwoChats DEF StopAtContact, StopperFails, ChatTypes, Gone
<1> QED
  BY <1>2, <1>3, <1>4, <1>5, <1>6, <1>7, <1>8, <1>9, <1>10 DEF ChatStep
LEMMA KnownInvStep ==
  ASSUME TypeInv, SessionInv, AstrayInv, ClearInv, KnownInv, ChatStep
  PROVE  KnownInv'
<1> SUFFICES ASSUME phase' # "cancelled", NEW c \in Chats, NEW m \in live'[c]
             PROVE  Kept(m, c)'
  BY DEF KnownInv
<1>t. SenderTypes /\ SessionTypes /\ ChatTypes
  BY TypesAreTypeOK DEF TypeInv
<1>m. m \in live[c] => m # None
  BY <1>t, MsgsAreNumbers DEF ChatTypes
<1>k. phase # "cancelled" /\ m \in live[c] => Kept(m, c)
  BY DEF KnownInv
<1>1. ASSUME \A k \in Senders : Holds(k, c) =>
               sender'[k].at = sender[k].at /\ sender'[k].msg = sender[k].msg,
             UNCHANGED <<id, live>>, astray \subseteq astray', phase # "cancelled"
      PROVE  Kept(m, c)'
  BY <1>1, <1>k DEF Kept, Holds
<1>h. \A k \in Senders : Holds(k, c) => Holding(k)
  BY TwoChats DEF Holds, Holding
<1>2. CASE QuietStep
  BY <1>1, <1>2, <1>h DEF QuietStep, chatVars
<1>3. CASE stop /\ active
  <2>1. \A k \in Senders : Holds(k, c) =>
          sender'[k].at = sender[k].at /\ sender'[k].msg = sender[k].msg
    BY <1>3, <1>h, <1>t, HoldersStay
  <2> QED
    BY <1>3, <1>k, <2>1 DEF stop, SessionInv, Kept, Holds
<1>4. CASE DestroyCancels
  BY <1>4 DEF DestroyCancels
<1>5. ASSUME NEW j \in Senders, NEW d \in Chats, NEW o \in Unused,
             NewMessage(j, d, o), UNCHANGED controlVars
      PROVE  Kept(m, c)'
  <2>1. /\ o \notin Known /\ \A i \in Senders : sender[i].msg # o
        /\ \A e \in Chats : o \notin live[e]
        /\ \A e \in Chats : live'[e] = IF e = d THEN live[e] \cup {o} ELSE live[e]
        /\ \A x \in astray : x = o \/ x \in astray'
    BY <1>5, NewMessages
  <2>2. /\ ~Holding(j) /\ sender'[j].at = Posted(d) /\ sender'[j].msg = o
        /\ \A i \in Senders : i # j => sender'[i] = sender[i]
        /\ UNCHANGED id
    BY <1>5 DEF NewMessage, Gets
  <2>3. CASE m = o
    <3>1. c = d
      BY <2>1, <2>3
    <3> QED
      BY <2>2, <2>3, <3>1 DEF Kept, Holds
  <2>4. CASE m # o
    <3>1. Kept(m, c)
      BY <1>k, <1>5, <2>1, <2>4 DEF controlVars
    <3> QED
      BY <1>h, <2>1, <2>2, <2>4, <3>1 DEF Kept, Holds
  <2> QED
    BY <2>3, <2>4
<1>6. ASSUME NEW j \in Senders, GroupAnswers(j) \/ ContactAnswers(j), Leaves(j),
             UNCHANGED controlVars
      PROVE  Kept(m, c)'
  <2>1. /\ UNCHANGED live /\ astray \subseteq astray'
        /\ \A i \in Senders : i # j => sender'[i] = sender[i]
    BY <1>6 DEF GroupAnswers, ContactAnswers, Leaves
  <2>2. Kept(m, c) /\ m \in live[c]
    BY <1>6, <1>k, <2>1 DEF controlVars
  <2>3. \/ UNCHANGED id /\ \A d \in Chats : Holds(j, d) => sender[j].msg \in astray'
        \/ \E d \in Chats : Holds(j, d) /\ id' = [id EXCEPT ![d] = sender[j].msg]
    BY <1>6, TwoChats DEF GroupAnswers, ContactAnswers, Holds
  <2>4. CASE UNCHANGED id /\ \A d \in Chats : Holds(j, d) => sender[j].msg \in astray'
    BY <2>1, <2>2, <2>4 DEF Kept, Holds
  <2>5. ASSUME NEW d \in Chats, Holds(j, d), id' = [id EXCEPT ![d] = sender[j].msg]
        PROVE  Kept(m, c)'
    <3>1. CASE c = d
      <4>1. id'[c] = sender[j].msg
        BY <1>t, <2>5, <3>1 DEF ChatTypes
      <4>2. id[c] \in {None, sender[j].msg} \/ Gone(id[c], c)
        BY <2>5, <3>1 DEF AstrayInv
      <4> QED
        BY <1>m, <2>1, <2>2, <4>1, <4>2 DEF Kept, Holds, Gone
    <3>2. CASE c # d
      <4>1. id'[c] = id[c] /\ ~Holds(j, c)
        BY <1>t, <2>5, <3>2, TwoChats DEF ChatTypes, Holds
      <4> QED
        BY <2>1, <2>2, <4>1 DEF Kept, Holds
    <3> QED
      BY <3>1, <3>2
  <2> QED
    BY <2>3, <2>4, <2>5
<1>7. ASSUME NEW j \in Senders, Gets(j, "contact", id["contact"]),
             UNCHANGED <<controlVars, chatVars>>
      PROVE  Kept(m, c)'
  BY <1>1, <1>7, <1>h DEF Gets, chatVars, controlVars
<1>8. ASSUME NEW s \in Sessions, StopInGroup(s)
      PROVE  Kept(m, c)'
  <2>1. /\ m \in live[c] /\ UNCHANGED <<id, sender, phase>>
        /\ astray \subseteq astray'
    BY <1>8, <1>t, TwoChats DEF StopInGroup, ChatTypes
  <2> QED
    BY <1>k, <2>1 DEF Kept, Holds
<1>9. ASSUME NEW s \in Sessions, StopAtContact(s) \/ StopperFails(s)
      PROVE  Kept(m, c)'
  <2>1. m \in live[c] /\ UNCHANGED <<sender, phase>> /\ astray \subseteq astray'
    BY <1>9, <1>t, TwoChats DEF StopAtContact, StopperFails, ChatTypes
  <2>2. Kept(m, c)
    BY <1>k, <2>1
  <2>3. ASSUME m = id[c]
        PROVE  m \in astray'
    <3>1. CASE StopperFails(s) \/ (StopAtContact(s) /\ s # n)
      <4>1. m \in Known \ {None}
        BY <1>m, <2>1, <2>3, TwoChats DEF Known
      <4> QED
        BY <3>1, <4>1 DEF StopperFails, StopAtContact, OfLater
    <3>2. CASE StopAtContact(s) /\ s = n
      <4>1. Gone(id["group"], "group")
        BY <3>2, LocationAssumption DEF ClearInv, StopAtContact, Sessions
      <4>2. c = "group" \/ m \in astray'
        BY <1>m, <1>t, <2>1, <2>3, <3>2, TwoChats DEF StopAtContact, ChatTypes
      <4> QED
        BY <2>1, <2>3, <4>1, <4>2 DEF Gone
    <3> QED
      BY <1>9, <3>1, <3>2
  <2> QED
    BY <2>1, <2>2, <2>3 DEF Kept, Holds
<1> QED
  BY <1>2, <1>3, <1>4, <1>5, <1>6, <1>7, <1>8, <1>9 DEF ChatStep

LEMMA OneLiveStep ==
  ASSUME TypeInv, SessionInv, KnownInv, OneLive, ChatStep
  PROVE  OneLive'
<1>t. SenderTypes /\ ChatTypes
  BY TypesAreTypeOK DEF TypeInv
<1>1. ASSUME astray \subseteq astray', \A c \in Chats : live'[c] \subseteq live[c]
      PROVE  OneLive'
  BY <1>1 DEF OneLive
<1>2. ASSUME NEW k \in Senders, NEW d \in Chats, NEW x \in Unused,
             NewMessage(k, d, x)
      PROVE  OneLive'
  <2>1. /\ x \notin Known
        /\ \A i \in Senders : sender[i].msg # x
        /\ \A c \in Chats : x \notin live[c]
        /\ \A c \in Chats : live'[c] = IF c = d THEN live[c] \cup {x} ELSE live[c]
        /\ \A o \in astray : o = x \/ o \in astray'
        /\ \A j \in Senders : Holds(j, d) => sender[j].msg \in astray' /\ x \in astray'
        /\ sender[k].stale => x \in astray'
    BY <1>2, NewMessages
  <2>2. id[d] = None /\ sender[k].at # "free"
    BY <1>2 DEF NewMessage, Gets
  <2>3. ASSUME NEW o \in live[d] \ astray'
        PROVE  x \in astray'
    <3>1. o \in Msgs /\ o # x /\ o \notin astray
      BY <1>t, <2>1, <2>3 DEF ChatTypes
    <3>2. CASE phase = "cancelled"
      BY <2>1, <2>2, <3>2 DEF SessionInv
    <3>3. CASE phase # "cancelled"
      BY <2>1, <2>2, <2>3, <3>1, <3>3, MsgsAreNumbers DEF KnownInv, Kept
    <3> QED
      BY <3>2, <3>3
  <2>4. ASSUME NEW c \in Chats, NEW m \in live'[c] \ astray', NEW o \in live'[c] \ astray'
        PROVE  m = o
    <3>1. \A y \in live[c] \ astray' : y \in live[c] \ astray
      BY <2>1
    <3>2. live'[c] = live[c] \/ (c = d /\ live'[c] = live[c] \cup {x})
      BY <2>1
    <3>3. CASE m \in live[c] /\ o \in live[c]
      BY <3>1, <3>3 DEF OneLive
    <3> QED
      BY <2>3, <3>2, <3>3
  <2> QED
    BY <2>4 DEF OneLive
<1> QED
  BY <1>1, <1>2, <1>t DEF ChatStep, QuietStep, chatVars, stop, DestroyCancels,
     GroupAnswers, ContactAnswers, StopInGroup, StopAtContact, StopperFails, ChatTypes

LEMMA EndedInvStep ==
  ASSUME TypeInv, SessionInv, AstrayInv, OvertakenInv, ClearInv, KnownInv, EndedInv,
         ChatStep
  PROVE  EndedInv'
<1> SUFFICES ASSUME ~active', phase' = "alive", n' # 0 => stopper'[n'] = "none",
                    NEW c \in Chats, NEW m \in live'[c]
             PROVE  m \in astray'
  BY DEF EndedInv
<1>t. /\ SenderTypes /\ SessionTypes /\ ChatTypes
      /\ n \in Nat /\ (n # 0 => n \in Sessions) /\ \A s \in Sessions : s # 0
  BY TypesAreTypeOK, LocationAssumption DEF TypeInv, SessionTypes, Sessions
<1>1. ASSUME m \in live[c], ~active, phase = "alive", n # 0 => stopper[n] = "none",
             astray \subseteq astray'
      PROVE  m \in astray'
  BY <1>1 DEF EndedInv
<1>2. CASE QuietStep
  <2>1. UNCHANGED chatVars /\ phase = "alive"
    BY <1>2 DEF QuietStep
  <2>2. ASSUME NEW s \in Sessions, StopperBegins(s), n # 0
        PROVE  stopper'[n] \in {"locating", "clearing", stopper[n]}
    BY <2>2, <1>t DEF StopperBegins, SessionTypes
  <2>3. ASSUME NEW s \in Sessions, StopperBegins(s), UNCHANGED <<active, n>>
        PROVE  n # 0 => stopper[n] = "none"
    BY <2>2, <2>3
  <2> QED
    BY <1>1, <1>2, <2>1, <2>3 DEF QuietStep, chatVars
<1>3. CASE stop /\ active
  BY <1>3, <1>t DEF stop, SessionInv, SessionTypes
<1>4. CASE DestroyCancels
  BY <1>4 DEF DestroyCancels
<1>5. ASSUME NEW k \in Senders, NEW d \in Chats, NEW x \in Unused,
             NewMessage(k, d, x), UNCHANGED controlVars
      PROVE  m \in astray'
  <2>1. /\ \A i \in Senders : sender[i].msg # x
        /\ \A e \in Chats : live'[e] = IF e = d THEN live[e] \cup {x} ELSE live[e]
        /\ \A o \in astray : o = x \/ o \in astray'
        /\ sender[k].stale => x \in astray'
    BY <1>5, NewMessages
  <2>2. sender[k].stale
    BY <1>5 DEF NewMessage, Gets, SessionInv, controlVars
  <2> QED
    BY <1>5, <2>1, <2>2 DEF controlVars, EndedInv
<1>6. ASSUME NEW k \in Senders, GroupAnswers(k) \/ ContactAnswers(k),
             UNCHANGED controlVars
      PROVE  m \in astray'
  BY <1>1, <1>6 DEF GroupAnswers, ContactAnswers, controlVars
<1>7. CASE UNCHANGED <<controlVars, chatVars>>
  BY <1>1, <1>7 DEF controlVars, chatVars
<1>8. ASSUME NEW s \in Sessions, StopInGroup(s) \/ StopAtContact(s) \/ StopperFails(s)
      PROVE  m \in astray'
  <2>1. m \in live[c] /\ UNCHANGED <<sender, phase, active, n>> /\ astray \subseteq astray'
    BY <1>8, <1>t, TwoChats DEF StopInGroup, StopAtContact, StopperFails, ChatTypes
  <2>2. CASE s # n
    <3>1. n # 0 => stopper'[n] = stopper[n]
      BY <1>8, <1>t, <2>2 DEF StopInGroup, StopAtContact, StopperFails, SessionTypes
    <3> QED
      BY <1>1, <2>1, <3>1
  <2>3. CASE s = n
    <3>1. ~StopInGroup(s)
      BY <1>t, <2>1, <2>3 DEF StopInGroup, SessionTypes
    <3>2. ASSUME m = id[c]
          PROVE  m \in astray'
      <4>1. CASE StopperFails(s)
        BY <1>t, <2>1, <3>2, <4>1, MsgsAreNumbers, TwoChats
           DEF StopperFails, Known, ChatTypes
      <4>2. CASE StopAtContact(s)
        <5>1. Gone(id["group"], "group")
          BY <1>t, <2>3, <4>2 DEF ClearInv, StopAtContact
        <5>2. c = "group" \/ m \in astray'
          BY <1>t, <2>1, <3>2, <4>2, MsgsAreNumbers, TwoChats
             DEF StopAtContact, ChatTypes
        <5> QED
          BY <2>1, <3>2, <5>1, <5>2 DEF Gone
      <4> QED
        BY <1>8, <3>1, <4>1, <4>2
    <3>3. ASSUME NEW k \in Senders, Holds(k, c), sender[k].msg = m, m \notin astray
          PROVE  m = id[c]
      <4>1. sender[k].stale
        BY <2>1, <3>3, TwoChats DEF SessionInv, Holds
      <4> QED
        BY <2>1, <3>3, <4>1, TwoChats DEF AstrayInv, OvertakenInv, Gone
    <3>4. Kept(m, c)
      BY <2>1 DEF KnownInv
    <3> QED
      BY <2>1, <3>2, <3>3, <3>4 DEF Kept
  <2> QED
    BY <2>2, <2>3
<1> QED
  BY <1>2, <1>3, <1>4, <1>5, <1>6, <1>7, <1>8 DEF ChatStep

-----------------------------------------------------------------------------
(* The theorems.                                                           *)

LEMMA LocInvariant == Spec => []LocInv
<1>1. Init => SessionInv /\ NameInv /\ AstrayInv /\ OvertakenInv /\ ClearInv
              /\ KnownInv /\ OneLive /\ EndedInv
  BY TwoChats DEF Init, Free, SessionInv, NameInv, AstrayInv, OvertakenInv, ClearInv,
     KnownInv, OneLive, EndedInv, Holds
<1>2. LocInv /\ TypeInv' /\ [Next]_vars => LocInv'
  BY ChatSteps, SessionInvStep, NameInvStep, AstrayInvStep, OvertakenInvStep,
     ClearInvStep, KnownInvStep, OneLiveStep, EndedInvStep DEF LocInv
<1>3. TypeInv /\ Init => LocInv
  BY <1>1 DEF LocInv
<1> QED
  BY <1>2, <1>3, TypeInvariant, PTL DEF Spec

(* A live message of a chat is known by its id or held by the sender that  *)
(* is about to record it, and a chat has one at a time, save those astray  *)
(* (LiveLocation lists the five ways there): whatever the rounds of the    *)
(* loop, further sessions, tiles and a logout do, sendLiveLocation loses   *)
(* none and adds none.                                                     *)
THEOREM LocationsAreKnown == Spec => []NothingLost
<1>1. LocInv => NothingLost
  <2> SUFFICES ASSUME LocInv, NEW c \in Chats
               PROVE  /\ phase # "cancelled" =>
                           live[c] \ astray \subseteq {id[c]} \cup InHand(c)
                      /\ Cardinality(live[c] \ astray) <= 1
    BY DEF NothingLost
  <2>1. phase # "cancelled" => live[c] \ astray \subseteq {id[c]} \cup InHand(c)
    BY DEF LocInv, KnownInv, Kept, Holds, InHand
  <2>2. live[c] \ astray = {} \/ \E m : live[c] \ astray = {m}
    BY DEF LocInv, OneLive
  <2>3. Cardinality(live[c] \ astray) <= 1
    <3>1. CASE live[c] \ astray = {}
      <4>1. Cardinality(live[c] \ astray) = 0
        BY <3>1, FS_EmptySet, Zenon
      <4> QED
        BY <4>1
    <3>2. ASSUME NEW m, live[c] \ astray = {m}
          PROVE  Cardinality(live[c] \ astray) <= 1
      <4>1. Cardinality(live[c] \ astray) = 1
        BY <3>2, FS_Singleton, Zenon
      <4> QED
        BY <4>1
    <3> QED
      BY <2>2, <3>1, <3>2
  <2> QED
    BY <2>1, <2>3
<1> QED
  BY <1>1, LocInvariant, PTL

(* When the stopper of stopLiveLocation and every sender have done their   *)
(* work, no message stays live in a chat, save those astray: overtaken by  *)
(* the stop, or of a call that failed, was refused or lacked the account.  *)
THEOREM StopEndsMessages == Spec => []StopEndsLocation
<1>1. LocInv => StopEndsLocation
  <2> SUFFICES ASSUME LocInv, ~active, phase = "alive", Quiet, NEW c \in Chats
               PROVE  live[c] \subseteq astray
    BY DEF StopEndsLocation
  <2>1. n # 0 => n \in Sessions
    BY TypesAreTypeOK, LocationAssumption DEF LocInv, TypeInv, SessionTypes, Sessions
  <2> QED
    BY <2>1 DEF LocInv, EndedInv, Quiet
<1> QED
  BY <1>1, LocInvariant, PTL
=============================================================================
