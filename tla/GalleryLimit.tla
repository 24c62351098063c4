----------------------------- MODULE GalleryLimit ------------------------------
(***************************************************************************)
(* The album "Taxi Helper": copyVideoToGallery first makes room by         *)
(* deleting the oldest segments (enforceStorageLimit), then writes the     *)
(* copy.  Every upload copies its segment in a coroutine of its own, so    *)
(* that two copies may run at once, and the process may die in between.    *)
(*                                                                         *)
(* Android 10 and later have MediaStore: a file that is being written is   *)
(* "pending" and not listed, and a pending file its writer has abandoned   *)
(* stays so.  Before, the album is a directory, which lists a file from    *)
(* its first byte, with the length it has by then.                         *)
(***************************************************************************)
EXTENDS Integers, Sequences, FiniteSetsExt, SequencesExt

CONSTANTS
  Copiers,     \* uploads that copy at the same time
  MaxFiles,    \* bound: files written to the album
  Sizes,       \* sizes a segment may have
  Limits,      \* limits the user may set, at least 1 GB
  MaxFailures  \* bound: deletions, queries and writes that fail, crashes

ASSUME GalleryAssumption ==
  /\ MaxFiles \in Nat /\ MaxFailures \in Nat
  /\ IsFiniteSet(Copiers) /\ IsFiniteSet(Sizes) /\ IsFiniteSet(Limits)
  /\ Sizes \subseteq Nat \ {0} /\ Sizes # {} /\ Limits \subseteq Nat /\ Limits # {}
  /\ \A s \in Sizes, l \in Limits : s <= l

Files == 1 .. MaxFiles
None  == 0

VARIABLES
  legacy,     \* Android before 10
  made,       \* files written so far; the newest has this number
  size,       \* their sizes
  album,      \* the files there are, oldest first
  writing,    \* those not written to the end
  stage,      \* where copyVideoToGallery is: "idle", "query", "delete", "write"
  limit,      \* the limit it has read
  new,        \* the size of the segment it copies; later the file it writes
  videos,     \* the files listed and not yet deleted, oldest first
  totalSize,  \* what it takes for the size of the album
  failures,
  kept,       \* history: the files this copy has failed to delete or to list
  met,        \* history: this copy has overlapped with another
  late        \* history: files in writing when a list was taken, or when
              \* another was completed and so came before them in a directory

albumVars == <<made, size, album, writing>>
copyVars  == <<stage, limit, new, videos, totalSize>>
histVars  == <<kept, met, late>>
vars == <<legacy, albumVars, copyVars, failures, histVars>>

Present  == ToSet(album)
Total(S) == MapThenSumSet(LAMBDA f : size[f], S)

\* The files of a list that are not in S, in their order.
Without(fs, S) ==
  LET left[n \in 0 .. Len(fs)] ==
        IF n = 0 THEN <<>>
        ELSE IF fs[n] \in S THEN left[n - 1] ELSE Append(left[n - 1], fs[n])
  IN  left[Len(fs)]

\* The variables have the types of the fields they model; totals stay positive
\* unless a file grew between its listing and its deletion.
TypeOK ==
  /\ legacy \in BOOLEAN /\ made \in 0 .. MaxFiles /\ failures \in 0 .. MaxFailures
  /\ size \in [Files -> Sizes \cup {0}] /\ Present \subseteq 1 .. made
  /\ writing \subseteq Files /\ late \subseteq Files
  /\ stage \in [Copiers -> {"idle", "query", "delete", "write"}]
  /\ limit \in [Copiers -> Limits \cup {None}]
  /\ new \in [Copiers -> Nat] /\ totalSize \in [Copiers -> Int]
  /\ \A c \in Copiers : /\ ToSet(videos[c]) \subseteq 1 .. made
                        /\ ~legacy => totalSize[c] >= 0
  /\ met \in [Copiers -> BOOLEAN] /\ kept \in [Copiers -> SUBSET Files]

Init ==
  /\ legacy \in BOOLEAN /\ made = 0 /\ failures = 0 /\ late = {}
  /\ size = [f \in Files |-> 0] /\ album = <<>> /\ writing = {}
  /\ stage = [c \in Copiers |-> "idle"] /\ limit = [c \in Copiers |-> None]
  /\ new = [c \in Copiers |-> 0] /\ videos = [c \in Copiers |-> <<>>]
  /\ totalSize = [c \in Copiers |-> 0] /\ met = [c \in Copiers |-> FALSE]
  /\ kept = [c \in Copiers |-> {}]

Busy == {c \in Copiers : stage[c] # "idle"}
Fail == failures < MaxFailures /\ failures' = failures + 1

-----------------------------------------------------------------------------
\* copyVideoToGallery: the limit is read, the segment's length is known.
CopyBegins(c) ==
  /\ stage[c] = "idle" /\ made + Cardinality(Busy) < MaxFiles
  /\ stage' = [stage EXCEPT ![c] = "query"]
  /\ \E l \in Limits, s \in Sizes :
       /\ limit' = [limit EXCEPT ![c] = l] /\ new' = [new EXCEPT ![c] = s]
  /\ met' = [d \in Copiers |-> IF d = c THEN Busy # {} ELSE met[d] \/ d \in Busy]
  /\ UNCHANGED <<legacy, albumVars, videos, totalSize, failures, kept, late>>

\* Which files enforceStorageLimit gets to see.
Listed == IF legacy THEN album ELSE Without(album, writing)

\* The list is taken and the sizes are added up; a file that is being written
\* has any part of its length.
Query(c) ==
  /\ stage[c] = "query"
  /\ stage' = [stage EXCEPT ![c] = "delete"]
  /\ videos' = [videos EXCEPT ![c] = Listed]
  /\ \E empty \in SUBSET (ToSet(Listed) \cap writing) :
       totalSize' = [totalSize EXCEPT ![c] = Total(ToSet(Listed) \ empty)]
  /\ late' = late \cup writing
  /\ UNCHANGED <<legacy, albumVars, limit, new, failures, kept, met>>

\* An exception while listing ends enforceStorageLimit, not the copy.
QueryFails(c) ==
  /\ stage[c] = "query" /\ Fail
  /\ stage' = [stage EXCEPT ![c] = "delete"]
  /\ kept' = [kept EXCEPT ![c] = ToSet(Listed)]
  /\ UNCHANGED <<legacy, albumVars, limit, new, videos, totalSize, met, late>>

\* A variant: the new file is left out of the sum.
NeedsRoomForOld(c) == totalSize[c] > limit[c] /\ videos[c] # <<>>

\* The condition of the loop.
NeedsRoom(c) == totalSize[c] + new[c] > limit[c] /\ videos[c] # <<>>

Oldest(c) == videos[c][1]

\* A variant: what is deleted is not taken off the total.
NothingFreed(c, f) == {0}

\* A variant: what is deleted is taken off twice.
FreedTwice(c, f) == {2 * size[f]}

\* What a deletion takes off the total: MediaStore's list said how long the file
\* is, and the call succeeds if another copy has deleted it already; a directory
\* is asked now, and deleting what is not there fails.
Freed(c, f) ==
  IF legacy /\ f \notin Present THEN {0}
  ELSE IF legacy /\ f \in writing THEN {0, size[f]}
  ELSE {size[f]}

DeleteOldest(c) ==
  /\ stage[c] = "delete" /\ NeedsRoom(c)
  /\ videos' = [videos EXCEPT ![c] = Tail(@)]
  /\ album' = Without(album, {Oldest(c)})
  /\ \E freed \in Freed(c, Oldest(c)) :
       totalSize' = [totalSize EXCEPT ![c] = @ - freed]
  /\ UNCHANGED <<legacy, made, size, writing, stage, limit, new, failures, histVars>>

\* A variant: a failed deletion is taken for a deletion.
CountedAnyway(f) == size[f]

\* The exception comes before the subtraction; delete() gives false.
CountedOnFailure(f) == 0

\* The file stays, and so does the total: the next one is tried.
DeleteFails(c) ==
  /\ stage[c] = "delete" /\ NeedsRoom(c) /\ Fail
  /\ videos' = [videos EXCEPT ![c] = Tail(@)]
  /\ totalSize' = [totalSize EXCEPT ![c] = @ - CountedOnFailure(Oldest(c))]
  /\ kept' = [kept EXCEPT ![c] = @ \cup {Oldest(c)}]
  /\ UNCHANGED <<legacy, albumVars, stage, limit, new, met, late>>

\* The loop has ended: insert, or the first byte of copyTo.
Insert(c) ==
  /\ stage[c] = "delete" /\ ~NeedsRoom(c)
  /\ stage' = [stage EXCEPT ![c] = "write"]
  /\ made' = made + 1
  /\ size' = [size EXCEPT ![made + 1] = new[c]]
  /\ album' = Append(album, made + 1) /\ writing' = writing \cup {made + 1}
  /\ new' = [new EXCEPT ![c] = made + 1]
  /\ videos' = [videos EXCEPT ![c] = <<>>]
  /\ totalSize' = [totalSize EXCEPT ![c] = 0]
  /\ UNCHANGED <<legacy, limit, failures, histVars>>

Idle(c) ==
  /\ stage' = [stage EXCEPT ![c] = "idle"] /\ limit' = [limit EXCEPT ![c] = None]
  /\ new' = [new EXCEPT ![c] = 0] /\ met' = [met EXCEPT ![c] = FALSE]
  /\ videos' = [videos EXCEPT ![c] = <<>>]
  /\ totalSize' = [totalSize EXCEPT ![c] = 0] /\ kept' = [kept EXCEPT ![c] = {}]

\* The copy is complete; a directory's order is that of the last write.  A file
\* that was deleted while it was written is gone.
WriteEnds(c) ==
  /\ stage[c] = "write"
  /\ writing' = writing \ {new[c]}
  /\ album' = IF legacy /\ new[c] \in Present
              THEN Append(Without(album, {new[c]}), new[c])
              ELSE album
  /\ late' = IF legacy THEN late \cup writing' ELSE late
  /\ Idle(c)
  /\ UNCHANGED <<legacy, made, size, failures>>

\* What becomes of files nobody writes any more: in MediaStore they stay pending,
\* in a directory they are files of the length they have.
Abandon(S) ==
  IF legacy
  THEN /\ writing' = writing \ S
       /\ \E empty \in SUBSET S :
            size' = [f \in Files |-> IF f \in empty THEN 0 ELSE size[f]]
  ELSE UNCHANGED <<writing, size>>

WriteFails(c) ==
  /\ stage[c] = "write" /\ Fail
  /\ Abandon({new[c]})
  /\ Idle(c)
  /\ UNCHANGED <<legacy, made, album, late>>

\* insert gives no uri, or throws.
InsertFails(c) ==
  /\ stage[c] = "delete" /\ ~NeedsRoom(c) /\ Fail
  /\ Idle(c)
  /\ UNCHANGED <<legacy, albumVars, late>>

\* The process dies; every copy ends where it is.
Kill ==
  /\ Busy # {} /\ Fail
  /\ Abandon({new[c] : c \in {d \in Copiers : stage[d] = "write"}})
  /\ stage' = [c \in Copiers |-> "idle"] /\ limit' = [c \in Copiers |-> None]
  /\ new' = [c \in Copiers |-> 0] /\ videos' = [c \in Copiers |-> <<>>]
  /\ totalSize' = [c \in Copiers |-> 0] /\ met' = [c \in Copiers |-> FALSE]
  /\ kept' = [c \in Copiers |-> {}]
  /\ UNCHANGED <<legacy, made, album, late>>

Next ==
  \/ \E c \in Copiers :
       \/ CopyBegins(c) \/ Query(c) \/ QueryFails(c) \/ DeleteOldest(c)
       \/ DeleteFails(c) \/ Insert(c) \/ InsertFails(c) \/ WriteEnds(c) \/ WriteFails(c)
  \/ Kill

Spec == Init /\ [][Next]_vars

-----------------------------------------------------------------------------
(* Properties.                                                             *)

Largest == Max(Sizes)

\* Without failures the album never exceeds the greatest limit by more than the
\* copies that may overlap with one, although each tests the sum before it
\* writes ("the limit is always on", copyVideoToGallery); and what it holds are
\* the newest segments: none is there that is older than one deleted, unless one
\* of the two was still being written when a list was taken or another file
\* completed.
NewestWithinLimit ==
  failures = 0 =>
    /\ Total(Present) <= Max(Limits) + (Cardinality(Copiers) - 1) * Largest
    /\ \A f \in 1 .. made, g \in Present :
         f \notin Present /\ g < f => f \in late \/ g \in late

\* A copy that ran alone leaves the files that are listed within the limit it has
\* read, or else nothing but what it failed to delete: a file that cannot be
\* deleted costs the others, not the limit, whatever a crash has left behind.
AloneWithinLimit ==
  [][\A c \in Copiers :
       stage[c] = "write" /\ stage'[c] = "idle" /\ ~met[c]
         => LET seen == Present \ (writing \ {new[c]})
            IN  Total(seen) <= limit[c] \/ seen \subseteq kept[c] \cup {new[c]}]_vars

\* No copy deletes a file while the others and the new one fit in its limit,
\* even when another copy makes room at the same time.  More is lost only when
\* two overlap and a deletion has failed, when a list has missed a file in
\* writing, or in a directory, where what the other has deleted frees nothing.
NothingDeletedInVain ==
  [][\A c \in Copiers :
       (/\ stage[c] = "delete" /\ stage'[c] = "delete"
        /\ videos'[c] # videos[c] /\ album' # album
        /\ ~met[c] \/ (failures = 0 /\ late = {} /\ ~legacy))
         => Total(ToSet(Listed)) + new[c] > limit[c]]_vars
=============================================================================
