----------------------------- MODULE ChatRetention -----------------------------
(***************************************************************************)
(* Which segments of a session stay in a Telegram chat.  The uploads of    *)
(* sendVideo and sendVideoNow number the segments they send, and from the  *)
(* third on delete the one before, so that the first and the newest stay.  *)
(*                                                                         *)
(* Uploads run in parallel on the IO dispatcher and share the counter and  *)
(* the map from numbers to message ids without a lock; switching the tile  *)
(* on resets both, whatever is in flight.  The module models one chat, the *)
(* group or one contact.  The group's calls block; those to a contact are  *)
(* queued with TDLib in the same order, and its callbacks do not overlap,  *)
(* so a contact's behaviours are among the ones below.                     *)
(***************************************************************************)
EXTENDS Naturals, FiniteSets

CONSTANTS
  MaxUploads, \* bound: segments handed to an upload
  MaxSeries,  \* bound: times the tile is switched on
  MaxParallel \* bound: uploads in progress

ASSUME RetentionAssumption ==
  MaxUploads \in Nat /\ MaxSeries \in Nat /\ MaxParallel \in Nat

Uploads == 1 .. MaxUploads
Numbers == 0 .. MaxUploads
Series  == 0 .. MaxSeries
None    == 0

VARIABLES
  on,     \* the tile flag of the chat
  count,  \* sentSegmentCountGroup, sentSegmentCountContacts
  ids,    \* botGroupMessageIds, contactMessageIds: number -> upload or None
  at,     \* where each upload stands
  number, \* its segment number, at first the value it writes to the counter
  victim, \* the message it is about to delete, or None
  chat,   \* the uploads whose message is in the chat
  (* history, read by properties only *)
  series, \* times the tile was switched on
  of,     \* the series an upload was numbered in
  clean,  \* in this series no upload has failed or met another
  first,  \* the upload that each series numbered first, or None
  crossed \* series whose first number was taken during another's counting

uploadVars  == <<at, number, victim>>
firstVars   == <<first, crossed>>
historyVars == <<series, of, clean, firstVars>>
vars == <<on, count, ids, chat, uploadVars, historyVars>>

-----------------------------------------------------------------------------
Stages == {"idle", "read", "counted", "numbered", "deleting", "deleted", "sent",
           "done"}

TypeOK ==
  /\ on \in BOOLEAN
  /\ count \in Numbers
  /\ ids \in [Numbers -> Uploads \cup {None}]
  /\ at \in [Uploads -> Stages]
  /\ number \in [Uploads -> Numbers]
  /\ victim \in [Uploads -> Uploads \cup {None}]
  /\ chat \subseteq Uploads
  /\ series \in Series
  /\ of \in [Uploads -> Series]
  /\ clean \in BOOLEAN
  /\ first \in [Series -> Uploads \cup {None}]
  /\ crossed \subseteq Series

Init ==
  /\ on = FALSE
  /\ count = 0
  /\ ids = [k \in Numbers |-> None]
  /\ at = [u \in Uploads |-> "idle"]
  /\ number = [u \in Uploads |-> 0]
  /\ victim = [u \in Uploads |-> None]
  /\ chat = {}
  /\ series = 0
  /\ of = [u \in Uploads |-> 0]
  /\ clean = TRUE
  /\ first = [k \in Series |-> None]
  /\ crossed = {}

InProgress == {u \in Uploads : at[u] \notin {"idle", "done"}}
Counting   == {u \in Uploads : at[u] \in {"read", "counted"}}

Goes(u, from, to) == at[u] = from /\ at' = [at EXCEPT ![u] = to]

-----------------------------------------------------------------------------
(* Variant of SwitchOn: the counter goes on from the last series.          *)
SwitchOnKeepingCount ==
  /\ ~on /\ series < MaxSeries
  /\ on' = TRUE
  /\ ids' = [k \in Numbers |-> None]
  /\ series' = series + 1
  /\ clean' = (InProgress = {})
  /\ crossed' = IF Counting = {} THEN crossed ELSE crossed \cup {series'}
  /\ UNCHANGED <<count, chat, of, first>>
  /\ UNCHANGED uploadVars

(* handleTileToggle: switching on resets counter and map.                  *)
SwitchOn ==
  /\ ~on /\ series < MaxSeries
  /\ on' = TRUE
  /\ count' = 0
  /\ ids' = [k \in Numbers |-> None]
  /\ series' = series + 1
  /\ clean' = (InProgress = {})
  /\ crossed' = IF Counting = {} THEN crossed ELSE crossed \cup {series'}
  /\ UNCHANGED <<chat, of, first>>
  /\ UNCHANGED uploadVars

(* handleTileToggle, or stop().                                            *)
SwitchOff ==
  /\ on
  /\ on' = FALSE
  /\ UNCHANGED <<count, ids, chat>>
  /\ UNCHANGED <<uploadVars, historyVars>>

-----------------------------------------------------------------------------
(* The stage of an upload that sends to this chat; with the tile off it    *)
(* sends nothing.  The counter is an ordinary field: count++ reads it and  *)
(* writes it back, and the number is a second read.                        *)

ReadCount(u) ==
  /\ on /\ Cardinality(InProgress) < MaxParallel /\ count < MaxUploads
  /\ Goes(u, "idle", "read")
  /\ number' = [number EXCEPT ![u] = count + 1]
  /\ clean' = (clean /\ InProgress = {})
  /\ crossed' = IF Counting = {} \/ first[series] # None THEN crossed
                ELSE crossed \cup {series}
  /\ UNCHANGED <<on, count, ids, chat, victim, series, of, first>>

WriteCount(u) ==
  /\ Goes(u, "read", "counted")
  /\ count' = number[u]
  /\ UNCHANGED <<on, ids, chat, number, victim>>
  /\ UNCHANGED historyVars

IsFirst(u) == first' = IF first[series] = None THEN [first EXCEPT ![series] = u]
                       ELSE first

(* Variant of TakeNumber: the number is the next one.                      *)
TakeNextNumber(u) ==
  /\ Goes(u, "counted", "numbered")
  /\ number' = [number EXCEPT ![u] = count + 1]
  /\ of' = [of EXCEPT ![u] = series]
  /\ IsFirst(u)
  /\ UNCHANGED <<on, count, ids, chat, victim, series, clean, crossed>>

TakeNumber(u) ==
  /\ Goes(u, "counted", "numbered")
  /\ number' = [number EXCEPT ![u] = count]
  /\ of' = [of EXCEPT ![u] = series]
  /\ IsFirst(u)
  /\ UNCHANGED <<on, count, ids, chat, victim, series, clean, crossed>>

(* Variant of Previous: the first segment is taken for an intermediate one.*)
PreviousFromSecond(u) ==
  IF number[u] >= 2 THEN ids[number[u] - 1] ELSE None

Previous(u) == IF number[u] >= 3 THEN ids[number[u] - 1] ELSE None

(* Look the previous message up, delete it with a call whose failure is    *)
(* only logged, and remove its entry.                                      *)
FindPrevious(u) ==
  /\ at[u] = "numbered"
  /\ at' = [at EXCEPT ![u] = IF Previous(u) = None THEN "deleted" ELSE "deleting"]
  /\ victim' = [victim EXCEPT ![u] = Previous(u)]
  /\ UNCHANGED <<on, count, ids, chat, number>>
  /\ UNCHANGED historyVars

DeletePrevious(u) ==
  /\ Goes(u, "deleting", "deleted")
  /\ ids' = [ids EXCEPT ![number[u] - 1] = None]
  /\ \/ chat' = chat \ {victim[u]} /\ UNCHANGED clean
     \/ UNCHANGED chat /\ clean' = FALSE
  /\ victim' = [victim EXCEPT ![u] = None]
  /\ UNCHANGED <<on, count, number, series, of, firstVars>>

UploadVideo(u) ==
  /\ Goes(u, "deleted", "sent")
  /\ chat' = chat \cup {u}
  /\ UNCHANGED <<on, count, ids, number, victim>>
  /\ UNCHANGED historyVars

(* Variant of Record: the id goes under the newest number.                 *)
RecordNewest(u) ==
  /\ Goes(u, "sent", "done")
  /\ ids' = [ids EXCEPT ![count] = u]
  /\ UNCHANGED <<on, count, chat, number, victim>>
  /\ UNCHANGED historyVars

(* The message id of the answer is recorded under the segment's number.    *)
Record(u) ==
  /\ Goes(u, "sent", "done")
  /\ ids' = [ids EXCEPT ![number[u]] = u]
  /\ UNCHANGED <<on, count, chat, number, victim>>
  /\ UNCHANGED historyVars

(* No chat, no connection, or an answer without an id: the upload gives    *)
(* up.  After the upload itself the message is in the chat all the same.   *)
Fail(u) ==
  /\ \E stage \in {"numbered", "deleted", "sent"} : Goes(u, stage, "done")
  /\ clean' = FALSE
  /\ UNCHANGED <<on, count, ids, chat, number, victim, series, of, firstVars>>

-----------------------------------------------------------------------------
Upload(u) ==
  \/ ReadCount(u) \/ WriteCount(u) \/ TakeNumber(u) \/ FindPrevious(u)
  \/ DeletePrevious(u) \/ UploadVideo(u) \/ Record(u) \/ Fail(u)

Next == SwitchOn \/ SwitchOff \/ \E u \in Uploads : Upload(u)

Spec == Init /\ [][Next]_vars

-----------------------------------------------------------------------------
(* Properties.                                                             *)

(* The segment a series numbers first, the one that shows how a trip       *)
(* began, is never deleted from the chat, whatever uploads overlap, fail   *)
(* or outlive their series, with one exception: until it had its number,   *)
(* another upload was counting too, or one of the series before was when   *)
(* the tile reset the counter.  Then it may get another number than 1, and *)
(* the next upload takes it for an intermediate one.                       *)
FirstStays ==
  [][\A k \in Series : first[k] \in chat \ chat' => k \in crossed]_vars

Sent == {u \in Uploads : of[u] = series /\ at[u] = "done"}

(* While the uploads of a series never met and never failed, the chat      *)
(* holds, between uploads, the first segment sent in it, the newest one,   *)
(* and no other.                                                           *)
FirstAndNewest ==
  clean /\ InProgress = {} /\ series > 0 =>
    {u \in chat : of[u] = series}
      = {u \in Sent : number[u] \in {1, Cardinality(Sent)}}

(* A message on record under a number is the one sent with that number,    *)
(* so an upload deletes no other than a segment numbered before its own.   *)
IdsMatchNumbers ==
  \A k \in Numbers : ids[k] # None => number[ids[k]] = k

(* What makes FirstStays inductive: the messages on record and the ones    *)
(* about to be deleted belong to uploads that are over and keep their      *)
(* number, and the number of the latter is 2 or more; the first of a       *)
(* series whose counting was not crossed has number 1.                     *)
OnRecord ==
  \A k \in Numbers : ids[k] # None => at[ids[k]] = "done"

VictimsAreLater ==
  \A u \in Uploads : victim[u] # None =>
    at[victim[u]] = "done" /\ number[victim[u]] >= 2

FirstIsOne ==
  /\ \A k \in Series \ crossed : first[k] # None =>
       number[first[k]] = 1 /\ at[first[k]] \notin {"idle", "read", "counted"}
  /\ \A k \in Series : k > series => first[k] = None
  /\ on \/ Counting # {} => series > 0
  /\ series > 0 /\ first[series] = None /\ series \notin crossed =>
       /\ \A u, v \in Counting : u = v
       /\ Counting = {} => count = 0
       /\ \A u \in Counting : number[u] = 1 /\ (at[u] = "counted" => count = 1)

RetentionInv == TypeOK /\ IdsMatchNumbers /\ OnRecord /\ VictimsAreLater
=============================================================================
