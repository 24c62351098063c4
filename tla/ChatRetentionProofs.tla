------------------------- MODULE ChatRetentionProofs --------------------------
(***************************************************************************)
(* What is on record, that the first segment of a series is not deleted,   *)
(* and what is in the chat between uploads that neither meet nor fail, for *)
(* any number of segments, series and uploads in parallel.                 *)
(***************************************************************************)
EXTENDS ChatRetention, FiniteSetTheorems, TLAPS

LEMMA InitRetention == Init => RetentionInv
<1> SUFFICES ASSUME Init PROVE RetentionInv
  OBVIOUS
<1> USE RetentionAssumption DEF Init, Uploads, Numbers, None
<1>1. TypeOK
  <2>1. on \in BOOLEAN /\ clean \in BOOLEAN /\ chat \subseteq Uploads
    OBVIOUS
  <2>2. count \in Numbers
    OBVIOUS
  <2>3. /\ ids \in [Numbers -> Uploads \cup {None}]
        /\ at \in [Uploads -> Stages]
    BY DEF Stages
  <2>4. number \in [Uploads -> Numbers]
    OBVIOUS
  <2>5. victim \in [Uploads -> Uploads \cup {None}]
    OBVIOUS
  <2>6. of \in [Uploads -> Series] /\ series \in Series
    BY DEF Series
  <2>7. first \in [Series -> Uploads \cup {None}] /\ crossed \subseteq Series
    OBVIOUS
  <2> QED
    BY <2>1, <2>2, <2>3, <2>4, <2>5, <2>6, <2>7 DEF TypeOK
<1>2. IdsMatchNumbers /\ OnRecord /\ VictimsAreLater
  BY DEF IdsMatchNumbers, OnRecord, VictimsAreLater
<1> QED
  BY <1>1, <1>2 DEF RetentionInv

(* An upload that begins is on no record and is nobody's victim.           *)
LEMMA Begins ==
  ASSUME RetentionInv, NEW u \in Uploads, at[u] = "idle", NEW n \in Numbers,
         at' = [at EXCEPT ![u] = "read"], number' = [number EXCEPT ![u] = n],
         UNCHANGED <<on, count, ids, chat, victim, series, of, first>>,
         clean' \in BOOLEAN, crossed' \subseteq Series
  PROVE  RetentionInv'
<1> USE DEF RetentionInv, TypeOK
<1>1. at' \in [Uploads -> Stages] /\ number' \in [Uploads -> Numbers]
  BY DEF Stages
<1>2. TypeOK'
  BY <1>1
<1>3. \A w \in Uploads : w # u => at'[w] = at[w] /\ number'[w] = number[w]
  OBVIOUS
<1>4. IdsMatchNumbers' /\ OnRecord'
  BY <1>3 DEF IdsMatchNumbers, OnRecord
<1>5. VictimsAreLater'
  BY <1>3 DEF VictimsAreLater
<1> QED
  BY <1>2, <1>4, <1>5

(* Every step keeps the strengthened invariant.                            *)
LEMMA StepRetention == RetentionInv /\ [Next]_vars => RetentionInv'
<1> SUFFICES ASSUME RetentionInv, [Next]_vars
             PROVE  RetentionInv'
  OBVIOUS
<1> USE RetentionAssumption DEF RetentionInv, TypeOK, Uploads, Numbers, None, Stages,
        Series, firstVars
<1>1. CASE UNCHANGED vars
  BY <1>1 DEF vars, uploadVars, historyVars, IdsMatchNumbers, OnRecord, VictimsAreLater
<1>2. CASE SwitchOn
  BY <1>2 DEF SwitchOn, uploadVars, IdsMatchNumbers, OnRecord, VictimsAreLater
<1>3. CASE SwitchOff
  BY <1>3 DEF SwitchOff, uploadVars, historyVars, IdsMatchNumbers, OnRecord,
              VictimsAreLater
<1>4. ASSUME NEW u \in Uploads, Upload(u)
      PROVE  RetentionInv'
  <2>1. CASE ReadCount(u)
    <3>1. /\ at[u] = "idle" /\ at' = [at EXCEPT ![u] = "read"]
          /\ number' = [number EXCEPT ![u] = count + 1] /\ count + 1 \in Numbers
          /\ UNCHANGED <<on, count, ids, chat, victim, series, of, first>>
          /\ clean' \in BOOLEAN /\ crossed' \subseteq Series
      BY <2>1 DEF ReadCount, Goes
    <3> QED
      BY <3>1, Begins
  <2>2. CASE WriteCount(u)
    BY <2>2 DEF WriteCount, Goes, historyVars, IdsMatchNumbers, OnRecord, VictimsAreLater
  <2>3. CASE TakeNumber(u)
    BY <2>3 DEF TakeNumber, IsFirst, Goes, IdsMatchNumbers, OnRecord, VictimsAreLater
  <2>4. CASE FindPrevious(u)
    <3>0. number[u] \in Numbers /\ (number[u] >= 3 => number[u] - 1 \in Numbers)
      OBVIOUS
    <3>1. Previous(u) \in Uploads \cup {None}
      BY <3>0 DEF Previous
    <3>2. Previous(u) # None =>
            at[Previous(u)] = "done" /\ number[Previous(u)] >= 2
      <4>1. ASSUME NEW k \in Numbers, k >= 2, ids[k] # None
            PROVE  at[ids[k]] = "done" /\ number[ids[k]] >= 2
        BY <4>1 DEF IdsMatchNumbers, OnRecord
      <4> QED
        BY <3>0, <4>1 DEF Previous
    <3>3. TypeOK'
      BY <2>4, <3>1 DEF FindPrevious, historyVars
    <3>4. at' = [at EXCEPT ![u] = "deleted"] \/ at' = [at EXCEPT ![u] = "deleting"]
      BY <2>4 DEF FindPrevious
    <3>5. /\ at[u] = "numbered"
          /\ victim' = [victim EXCEPT ![u] = Previous(u)]
          /\ ids' = ids /\ number' = number
      BY <2>4 DEF FindPrevious
    <3>6. IdsMatchNumbers' /\ OnRecord'
      BY <3>4, <3>5 DEF IdsMatchNumbers, OnRecord
    <3>7. VictimsAreLater'
      <4> SUFFICES ASSUME NEW w \in Uploads, victim'[w] # None
                   PROVE  at'[victim'[w]] = "done" /\ number'[victim'[w]] >= 2
        BY DEF VictimsAreLater
      <4>1. at[victim'[w]] = "done" /\ number[victim'[w]] >= 2
        BY <3>1, <3>2, <3>5 DEF VictimsAreLater
      <4>2. victim'[w] \in Uploads
        BY <3>3
      <4> QED
        BY <3>4, <3>5, <4>1, <4>2
    <3> QED
      BY <3>3, <3>6, <3>7
  <2>5. CASE DeletePrevious(u)
    BY <2>5 DEF DeletePrevious, Goes, IdsMatchNumbers, OnRecord, VictimsAreLater
  <2>6. CASE UploadVideo(u)
    BY <2>6 DEF UploadVideo, Goes, historyVars, IdsMatchNumbers, OnRecord, VictimsAreLater
  <2>7. CASE Record(u)
    BY <2>7 DEF Record, Goes, historyVars, IdsMatchNumbers, OnRecord, VictimsAreLater
  <2>8. CASE Fail(u)
    BY <2>8 DEF Fail, Goes, IdsMatchNumbers, OnRecord, VictimsAreLater
  <2> QED
    BY <1>4, <2>1, <2>2, <2>3, <2>4, <2>5, <2>6, <2>7, <2>8 DEF Upload
<1> QED
  BY <1>1, <1>2, <1>3, <1>4 DEF Next

(* Counter, map, stages, victims and chat stay what they are declared to   *)
(* be; a number is never beyond the uploads there were.                    *)
THEOREM RetentionTypes == Spec => []TypeOK
<1>1. RetentionInv => TypeOK
  BY DEF RetentionInv
<1> QED
  BY InitRetention, StepRetention, <1>1, PTL DEF Spec

(* A message on record is the one sent with that number, whatever uploads  *)
(* overlap (botGroupMessageIds, contactMessageIds).                        *)
THEOREM RecordsMatch == Spec => []IdsMatchNumbers
<1>1. RetentionInv => IdsMatchNumbers
  BY DEF RetentionInv
<1> QED
  BY InitRetention, StepRetention, <1>1, PTL DEF Spec

-----------------------------------------------------------------------------
(* The first of a series.                                                  *)

LEMMA InitFirst == Init => FirstIsOne
BY DEF Init, FirstIsOne, Counting

(* A step that neither begins a series nor has to do with counting keeps   *)
(* what is known of the first.                                             *)
LEMMA KeepsFirst ==
  ASSUME RetentionInv, FirstIsOne, UNCHANGED <<count, series, first, crossed>>,
         on' => on,
         \A u \in Uploads :
           /\ number'[u] = number[u]
           /\ at'[u] \in {"idle", "read", "counted"} => at'[u] = at[u]
           /\ at[u] \in {"read", "counted"} => at'[u] = at[u]
  PROVE  FirstIsOne'
<1> USE DEF RetentionInv, TypeOK
<1>1. Counting' = Counting
  BY DEF Counting
<1>2. \A k \in Series : first[k] # None => first[k] \in Uploads
  OBVIOUS
<1>3. \A u \in Counting : u \in Uploads /\ number'[u] = number[u] /\ at'[u] = at[u]
  BY DEF Counting
<1> QED
  BY <1>1, <1>2, <1>3 DEF FirstIsOne

LEMMA StepFirst ==
  ASSUME RetentionInv, FirstIsOne, [Next]_vars
  PROVE  FirstIsOne'
<1> USE DEF RetentionInv, TypeOK
<1>1. series \in Nat /\ Series \subseteq Nat /\ None \notin Uploads
  BY RetentionAssumption DEF Series, None, Uploads
<1>2. CASE UNCHANGED vars
  BY <1>2, KeepsFirst DEF vars, uploadVars, historyVars, firstVars
<1>3. CASE SwitchOff
  BY <1>3, KeepsFirst DEF SwitchOff, uploadVars, historyVars, firstVars
<1>4. CASE SwitchOn
  <2>1. /\ series' = series + 1 /\ count' = 0 /\ UNCHANGED <<at, number, first>>
        /\ crossed' = IF Counting = {} THEN crossed ELSE crossed \cup {series + 1}
        /\ series + 1 \in Series
    BY <1>1, <1>4, RetentionAssumption DEF SwitchOn, uploadVars, Series
  <2>2. Counting' = Counting
    BY <2>1 DEF Counting
  <2>3. crossed \subseteq crossed' /\ (Counting # {} => series' \in crossed')
    BY <2>1
  <2>4. \A k \in Series : k > series' => first'[k] = None
    BY <1>1, <2>1 DEF FirstIsOne
  <2>5. \A k \in Series \ crossed' : first'[k] # None =>
          number'[first'[k]] = 1 /\ at'[first'[k]] \notin {"idle", "read", "counted"}
    BY <2>1, <2>3 DEF FirstIsOne
  <2> QED
    BY <1>1, <2>1, <2>2, <2>3, <2>4, <2>5 DEF FirstIsOne
<1>5. ASSUME NEW u \in Uploads, Upload(u)
      PROVE  FirstIsOne'
  <2>1. CASE ReadCount(u)
    <3>1. /\ on /\ on' /\ at[u] = "idle" /\ at' = [at EXCEPT ![u] = "read"]
          /\ number' = [number EXCEPT ![u] = count + 1]
          /\ crossed' = IF Counting = {} \/ first[series] # None THEN crossed
                        ELSE crossed \cup {series}
          /\ UNCHANGED <<count, series, first>>
      BY <2>1 DEF ReadCount, Goes
    <3>2. Counting' = Counting \cup {u} /\ u \notin Counting
      BY <3>1 DEF Counting
    <3>3. crossed \subseteq crossed'
      BY <3>1
    <3>4. ASSUME NEW k \in Series, k \notin crossed', first[k] # None
          PROVE  number'[first[k]] = 1 /\ at'[first[k]] \notin {"idle", "read", "counted"}
      <4>1. first[k] # u
        BY <3>1, <3>3, <3>4 DEF FirstIsOne
      <4> QED
        BY <3>1, <3>3, <3>4, <4>1 DEF FirstIsOne
    <3>5. first[series] = None /\ series \notin crossed' =>
            Counting = {} /\ count = 0 /\ series > 0
      BY <3>1, <3>3 DEF FirstIsOne
    <3>6. number'[u] = count + 1 /\ at'[u] = "read"
      BY <3>1
    <3> QED
      BY <1>1, <3>1, <3>2, <3>3, <3>4, <3>5, <3>6 DEF FirstIsOne
  <2>2. CASE WriteCount(u)
    <3>1. /\ at[u] = "read" /\ at' = [at EXCEPT ![u] = "counted"]
          /\ count' = number[u] /\ UNCHANGED <<on, number, series, first, crossed>>
      BY <2>2 DEF WriteCount, Goes, historyVars, firstVars
    <3>2. Counting' = Counting /\ u \in Counting
      BY <3>1 DEF Counting
    <3>3. ASSUME NEW k \in Series, k \notin crossed, first[k] # None
          PROVE  number[first[k]] = 1 /\ at'[first[k]] \notin {"idle", "read", "counted"}
      <4>1. first[k] # u
        BY <3>1, <3>3 DEF FirstIsOne
      <4> QED
        BY <3>1, <3>3, <4>1 DEF FirstIsOne
    <3> QED
      BY <3>1, <3>2, <3>3 DEF FirstIsOne
  <2>3. CASE TakeNumber(u)
    <3>1. /\ at[u] = "counted" /\ at' = [at EXCEPT ![u] = "numbered"]
          /\ number' = [number EXCEPT ![u] = count]
          /\ first' = IF first[series] = None THEN [first EXCEPT ![series] = u]
                      ELSE first
          /\ UNCHANGED <<on, count, series, crossed>>
      BY <2>3 DEF TakeNumber, IsFirst, Goes, firstVars
    <3>2. Counting' = Counting \ {u} /\ u \in Counting
      BY <3>1 DEF Counting
    <3>3. series \in Series /\ first'[series] # None
      BY <1>1, <3>1
    <3>4. ASSUME NEW k \in Series, k \notin crossed, first'[k] # None
          PROVE  number'[first'[k]] = 1 /\ at'[first'[k]] \notin {"idle", "read", "counted"}
      <4>1. CASE first[k] # None
        <5>1. first'[k] = first[k] /\ first[k] # u
          BY <3>1, <3>4, <4>1 DEF FirstIsOne
        <5> QED
          BY <3>1, <3>4, <4>1, <5>1 DEF FirstIsOne
      <4>2. CASE first[k] = None
        <5>1. k = series /\ first'[k] = u
          BY <3>1, <3>4, <4>2
        <5>2. series > 0
          BY <3>2 DEF FirstIsOne
        <5>3. count = 1
          BY <3>1, <3>2, <3>4, <4>2, <5>1, <5>2 DEF FirstIsOne
        <5> QED
          BY <3>1, <5>1, <5>3
      <4> QED
        BY <4>1, <4>2
    <3>5. \A k \in Series : k > series => first'[k] = None
      BY <1>1, <3>1 DEF FirstIsOne
    <3>6. series > 0
      BY <3>2 DEF FirstIsOne
    <3> QED
      BY <3>1, <3>3, <3>4, <3>5, <3>6 DEF FirstIsOne
  <2>4. CASE FindPrevious(u) \/ DeletePrevious(u) \/ UploadVideo(u) \/ Record(u) \/ Fail(u)
    BY <2>4, KeepsFirst DEF FindPrevious, DeletePrevious, UploadVideo, Record, Fail,
       Goes, historyVars, firstVars
  <2> QED
    BY <1>5, <2>1, <2>2, <2>3, <2>4 DEF Upload
<1> QED
  BY <1>2, <1>3, <1>4, <1>5 DEF Next

(* Deleting the previous segment never hits the one that a series numbered *)
(* first, for any number of segments, series and uploads in parallel,      *)
(* unless its counting was crossed by another's or by the tile's reset.    *)
THEOREM FirstSegmentStays == Spec => FirstStays
<1> DEFINE Stays == \A k \in Series : first[k] \in chat \ chat' => k \in crossed
<1>1. RetentionInv /\ FirstIsOne /\ [Next]_vars => [Stays]_vars
  <2> SUFFICES ASSUME RetentionInv, FirstIsOne, [Next]_vars, NEW k \in Series,
                      first[k] \in chat \ chat', k \notin crossed
               PROVE  FALSE
    OBVIOUS
  <2> USE DEF RetentionInv, TypeOK
  <2>1. first[k] \in Uploads /\ first[k] # None /\ number[first[k]] = 1
    BY RetentionAssumption DEF FirstIsOne, None, Uploads
  <2>2. ASSUME NEW u \in Uploads, DeletePrevious(u)
        PROVE  first[k] \in chat'
    <3>1. victim[u] # first[k]
      BY <2>1 DEF VictimsAreLater
    <3> QED
      BY <2>2, <3>1 DEF DeletePrevious
  <2>3. ASSUME NEW u \in Uploads, Upload(u), ~DeletePrevious(u)
        PROVE  chat \subseteq chat'
    BY <2>3 DEF Upload, ReadCount, WriteCount, TakeNumber, FindPrevious,
                UploadVideo, Record, Fail
  <2>4. SwitchOn \/ SwitchOff \/ UNCHANGED vars => chat \subseteq chat'
    BY DEF SwitchOn, SwitchOff, vars
  <2> QED
    BY <2>2, <2>3, <2>4 DEF Next
<1> QED
  BY InitRetention, StepRetention, InitFirst, StepFirst, <1>1, PTL
  DEF Spec, FirstStays

-----------------------------------------------------------------------------
(* A series whose uploads never met and never failed.                      *)

(* The messages of the series that are in the chat are those numbered so.  *)
Kept(numbers) == \A u \in Sent : u \in chat <=> number[u] \in numbers

(* What is in the chat was sent, and no upload is of a later series.       *)
ChatWasSent ==
  /\ \A u \in chat : at[u] \in {"sent", "done"}
  /\ \A u \in Uploads : at[u] = "sent" => u \in chat
  /\ \A u \in Uploads : of[u] <= series

(* Where a series stands whose uploads never met and never failed: those   *)
(* that are over have numbers up to their count, and the one in progress   *)
(* has the next, finds the newest on record, and deletes no other.         *)
CleanSeries ==
  LET c == Cardinality(Sent) IN
  /\ \A u, v \in InProgress : u = v
  /\ \A u \in Sent : number[u] \in 1 .. c
  /\ InProgress = {} => count = c
  /\ (\A u \in InProgress : at[u] \in {"read", "counted", "numbered"})
       => \A u \in Sent : number[u] = c => ids[c] = u
  /\ (\A u \in InProgress : at[u] \notin {"deleted", "sent"}) => Kept({1, c})
  /\ \A u \in InProgress :
       /\ at[u] = "read" => count = c /\ number[u] = c + 1
       /\ at[u] = "counted" => count = c + 1
       /\ at[u] \in {"numbered", "deleting", "deleted", "sent"}
            => count = c + 1 /\ number[u] = c + 1 /\ of[u] = series
       /\ at[u] = "deleting"
            => \A v \in Sent : number[v] = c /\ c >= 2 => victim[u] = v
       /\ at[u] \in {"deleted", "sent"} => Kept({1})

CleanInv == ChatWasSent /\ (clean /\ series > 0 => CleanSeries)

(* The uploads of a series that are over can be counted.                   *)
LEMMA SentFinite ==
  IsFiniteSet(Sent) /\ Cardinality(Sent) \in Nat
<1>1. IsFiniteSet(Uploads)
  BY RetentionAssumption, FS_Interval DEF Uploads
<1>2. Sent \subseteq Uploads
  BY DEF Sent
<1> QED
  BY <1>1, <1>2, FS_Subset, FS_CardinalityType

(* Every step keeps what is in the chat among the uploads that were sent.  *)
LEMMA StepChat ==
  ASSUME RetentionInv, ChatWasSent, [Next]_vars
  PROVE  ChatWasSent'
<1> USE RetentionAssumption DEF RetentionInv, TypeOK, Uploads, Stages, ChatWasSent,
        Series, firstVars
<1>1. CASE UNCHANGED vars
  BY <1>1 DEF vars, uploadVars, historyVars
<1>2. CASE SwitchOn
  BY <1>2 DEF SwitchOn, uploadVars
<1>3. CASE SwitchOff
  BY <1>3 DEF SwitchOff, uploadVars, historyVars
<1>4. ASSUME NEW u \in Uploads, Upload(u)
      PROVE  ChatWasSent'
  <2>1. CASE ReadCount(u)
    BY <2>1 DEF ReadCount, Goes
  <2>2. CASE WriteCount(u)
    BY <2>2 DEF WriteCount, Goes, historyVars
  <2>3. CASE TakeNumber(u)
    BY <2>3 DEF TakeNumber, Goes
  <2>4. CASE FindPrevious(u)
    BY <2>4 DEF FindPrevious, historyVars
  <2>5. CASE DeletePrevious(u)
    <3>1. /\ \A w \in Uploads \ {u} : at'[w] = at[w]
          /\ at[u] = "deleting" /\ at'[u] = "deleted"
          /\ chat' = chat \/ chat' = chat \ {victim[u]}
          /\ of' = of /\ series' = series
      BY <2>5 DEF DeletePrevious, Goes
    <3>2. victim[u] # None => at[victim[u]] = "done"
      BY DEF VictimsAreLater
    <3>3. \A w \in chat' : w \in chat /\ w # u
      BY <3>1
    <3>4. \A w \in chat' : at'[w] \in {"sent", "done"}
      BY <3>1, <3>3
    <3>5. \A w \in Uploads : at'[w] = "sent" => w \in chat'
      BY <3>1, <3>2 DEF None
    <3> QED
      BY <3>1, <3>4, <3>5
  <2>6. CASE UploadVideo(u)
    BY <2>6 DEF UploadVideo, Goes, historyVars
  <2>7. CASE Record(u)
    BY <2>7 DEF Record, Goes, historyVars
  <2>8. CASE Fail(u)
    BY <2>8 DEF Fail, Goes
  <2> QED
    BY <1>4, <2>1, <2>2, <2>3, <2>4, <2>5, <2>6, <2>7, <2>8 DEF Upload
<1> QED
  BY <1>1, <1>2, <1>3, <1>4 DEF Next

(* A series begins clean only if no upload is in progress, and with none   *)
(* that is over.                                                           *)
LEMMA CleanBegins ==
  ASSUME RetentionInv, ChatWasSent, SwitchOn, clean'
  PROVE  CleanSeries'
<1>1. InProgress' = {} /\ count' = 0
  BY DEF SwitchOn, uploadVars, InProgress
<1>2. Sent' = {}
  <2>1. series \in Nat /\ \A u \in Uploads : of[u] \in Nat /\ of[u] <= series
    BY RetentionAssumption DEF ChatWasSent, RetentionInv, TypeOK, Series
  <2>2. series' = series + 1 /\ of' = of
    BY DEF SwitchOn
  <2> QED
    BY <2>1, <2>2 DEF Sent
<1>3. Cardinality(Sent)' = 0
  BY <1>2, FS_EmptySet
<1> QED
  BY <1>1, <1>2, <1>3 DEF CleanSeries, Kept

(* The steps of the one upload in progress keep the series clean.          *)
LEMMA CleanUpload ==
  ASSUME RetentionInv, ChatWasSent, CleanSeries,
         NEW u \in Uploads, Upload(u), clean'
  PROVE  CleanSeries'
<1> DEFINE c == Cardinality(Sent)
<1>c. c \in Nat
  BY SentFinite
<1> USE RetentionAssumption DEF RetentionInv, TypeOK, Uploads, Stages
<1>1. /\ \A v, w \in InProgress : v = w
      /\ \A v \in Sent : number[v] \in 1 .. c
      /\ InProgress = {} => count = c
      /\ (\A v \in InProgress : at[v] \in {"read", "counted", "numbered"})
           => \A v \in Sent : number[v] = c => ids[c] = v
      /\ (\A v \in InProgress : at[v] \notin {"deleted", "sent"})
           => Kept({1, c})
      /\ \A v \in InProgress :
           /\ at[v] = "read" => count = c /\ number[v] = c + 1
           /\ at[v] = "counted" => count = c + 1
           /\ at[v] \in {"numbered", "deleting", "deleted", "sent"}
                => count = c + 1 /\ number[v] = c + 1 /\ of[v] = series
           /\ at[v] = "deleting"
                => \A w \in Sent : number[w] = c /\ c >= 2 => victim[v] = w
           /\ at[v] \in {"deleted", "sent"} => Kept({1})
  BY DEF CleanSeries
<1>2. ASSUME at[u] \notin {"idle", "done"}, InProgress = {u}
      PROVE  \A w \in Uploads \ {u} : at[w] \in {"idle", "done"}
  BY <1>2 DEF InProgress
<1>3. at[u] \notin {"idle", "done"} => InProgress = {u}
  BY <1>1 DEF InProgress
<1> HIDE DEF c
<1>4. ASSUME Sent' = Sent
      PROVE  c' = c
  BY <1>4 DEF c
<1>5. CASE ReadCount(u)
  <2>1. /\ at[u] = "idle" /\ at' = [at EXCEPT ![u] = "read"]
        /\ number' = [number EXCEPT ![u] = count + 1]
        /\ InProgress = {} /\ UNCHANGED <<count, ids, chat, victim, series, of>>
    BY <1>5 DEF ReadCount, Goes
  <2>2. Sent' = Sent /\ \A w \in Sent : number'[w] = number[w]
    BY <2>1 DEF Sent
  <2>3. InProgress' = {u}
    BY <2>1 DEF InProgress
  <2>4. number'[u] = c + 1 /\ at'[u] = "read" /\ count' = c
    BY <1>1, <2>1
  <2>5. c' = c
    BY <1>4, <2>2
  <2>6. Kept({1, c})'
    BY <1>1, <2>1, <2>2, <2>5 DEF Kept
  <2> QED
    BY <1>1, <2>1, <2>2, <2>3, <2>4, <2>5, <2>6 DEF CleanSeries, c
<1>6. CASE WriteCount(u)
  <2>1. /\ at[u] = "read" /\ at' = [at EXCEPT ![u] = "counted"]
        /\ count' = number[u]
        /\ UNCHANGED <<ids, chat, number, victim, series, of>>
    BY <1>6 DEF WriteCount, Goes, historyVars
  <2>2. Sent' = Sent
    BY <2>1 DEF Sent
  <2>3. InProgress = {u} /\ InProgress' = {u}
    BY <1>3, <2>1 DEF InProgress
  <2>4. count' = c + 1 /\ at'[u] = "counted"
    BY <1>1, <2>1, <2>3
  <2>5. c' = c
    BY <1>4, <2>2
  <2>6. Kept({1, c})'
    BY <1>1, <2>1, <2>2, <2>3, <2>5 DEF Kept
  <2> QED
    BY <1>1, <2>1, <2>2, <2>3, <2>4, <2>5, <2>6 DEF CleanSeries, c
<1>7. CASE TakeNumber(u)
  <2>1. /\ at[u] = "counted" /\ at' = [at EXCEPT ![u] = "numbered"]
        /\ number' = [number EXCEPT ![u] = count]
        /\ of' = [of EXCEPT ![u] = series]
        /\ UNCHANGED <<count, ids, chat, victim, series>>
    BY <1>7 DEF TakeNumber, Goes
  <2>2. Sent' = Sent /\ \A w \in Sent : number'[w] = number[w]
    BY <2>1 DEF Sent
  <2>3. InProgress = {u} /\ InProgress' = {u}
    BY <1>3, <2>1 DEF InProgress
  <2>4. /\ count' = c + 1 /\ number'[u] = c + 1 /\ of'[u] = series'
        /\ at'[u] = "numbered"
    BY <1>1, <2>1, <2>3
  <2>5. c' = c
    BY <1>4, <2>2
  <2>6. Kept({1, c})'
    BY <1>1, <2>1, <2>2, <2>3, <2>5 DEF Kept
  <2> QED
    BY <1>1, <2>1, <2>2, <2>3, <2>4, <2>5, <2>6 DEF CleanSeries, c
<1>8. CASE FindPrevious(u)
  <2>1. /\ at[u] = "numbered"
        /\ at' = [at EXCEPT ![u] = IF Previous(u) = None THEN "deleted"
                                                         ELSE "deleting"]
        /\ victim' = [victim EXCEPT ![u] = Previous(u)]
        /\ UNCHANGED <<count, ids, chat, number, series, of>>
    BY <1>8 DEF FindPrevious, historyVars
  <2>2. Sent' = Sent
    BY <2>1 DEF Sent
  <2>3. InProgress = {u} /\ InProgress' = {u}
    BY <1>3, <2>1 DEF InProgress
  <2>4. /\ count' = c + 1 /\ number'[u] = c + 1 /\ of'[u] = series'
        /\ number[u] = c + 1
        /\ \A v \in Sent : number[v] = c => ids[c] = v
        /\ Kept({1, c})
    BY <1>1, <2>1, <2>3
  <2>5. c' = c
    BY <1>4, <2>2
  <2>6. Previous(u) = IF c >= 2 THEN ids[c] ELSE None
    BY <1>c, <2>4 DEF Previous
  <2>7. CASE Previous(u) = None
    <3>1. at'[u] = "deleted"
      BY <2>1, <2>7
    <3>2. c >= 2 => \A v \in Sent : number[v] # c
      BY <2>4, <2>6, <2>7 DEF Sent, None
    <3>3. Kept({1})'
      BY <1>1, <1>c, <2>1, <2>2, <2>4, <3>2 DEF Kept
    <3> QED
      BY <1>1, <2>1, <2>2, <2>3, <2>4, <2>5, <3>1, <3>3 DEF CleanSeries, c
  <2>8. CASE Previous(u) # None
    <3>1. at'[u] = "deleting" /\ victim'[u] = Previous(u)
      BY <2>1, <2>8
    <3>2. \A v \in Sent : number[v] = c /\ c >= 2 => victim'[u] = v
      BY <2>4, <2>6, <3>1
    <3>3. Kept({1, c})'
      BY <2>1, <2>2, <2>4, <2>5 DEF Kept
    <3> QED
      BY <1>1, <2>1, <2>2, <2>3, <2>4, <2>5, <3>1, <3>2, <3>3
         DEF CleanSeries, c
  <2> QED
    BY <2>7, <2>8
<1>9. CASE DeletePrevious(u)
  <2>1. /\ at[u] = "deleting" /\ at' = [at EXCEPT ![u] = "deleted"]
        /\ UNCHANGED <<count, number, series, of>>
        /\ chat' = chat \ {victim[u]}
    BY <1>9 DEF DeletePrevious, Goes
  <2>2. Sent' = Sent
    BY <2>1 DEF Sent
  <2>3. InProgress = {u} /\ InProgress' = {u}
    BY <1>3, <2>1 DEF InProgress
  <2>4. /\ count' = c + 1 /\ number'[u] = c + 1 /\ of'[u] = series'
        /\ at'[u] = "deleted"
        /\ \A v \in Sent : number[v] = c /\ c >= 2 => victim[u] = v
        /\ Kept({1, c})
    BY <1>1, <2>1, <2>3
  <2>5. c' = c
    BY <1>4, <2>2
  <2>6. victim[u] # None => number[victim[u]] >= 2
    BY DEF VictimsAreLater
  <2>7. Kept({1})'
    BY <1>1, <1>c, <2>1, <2>2, <2>4, <2>6 DEF Kept, Sent, None
  <2> QED
    BY <1>1, <2>1, <2>2, <2>3, <2>4, <2>5, <2>7 DEF CleanSeries, c
<1>10. CASE UploadVideo(u)
  <2>1. /\ at[u] = "deleted" /\ at' = [at EXCEPT ![u] = "sent"]
        /\ chat' = chat \cup {u}
        /\ UNCHANGED <<count, number, series, of>>
    BY <1>10 DEF UploadVideo, Goes, historyVars
  <2>2. Sent' = Sent /\ u \notin Sent
    BY <2>1 DEF Sent
  <2>3. InProgress = {u} /\ InProgress' = {u}
    BY <1>3, <2>1 DEF InProgress
  <2>4. /\ count' = c + 1 /\ number'[u] = c + 1 /\ of'[u] = series'
        /\ at'[u] = "sent" /\ Kept({1})
    BY <1>1, <2>1, <2>3
  <2>5. c' = c
    BY <1>4, <2>2
  <2>6. Kept({1})'
    BY <2>1, <2>2, <2>4 DEF Kept
  <2> QED
    BY <1>1, <2>1, <2>2, <2>3, <2>4, <2>5, <2>6 DEF CleanSeries, c
<1>11. CASE Record(u)
  <2>1. /\ at[u] = "sent" /\ at' = [at EXCEPT ![u] = "done"]
        /\ ids' = [ids EXCEPT ![number[u]] = u]
        /\ UNCHANGED <<count, chat, number, series, of>>
    BY <1>11 DEF Record, Goes, historyVars
  <2>2. InProgress = {u} /\ InProgress' = {}
    BY <1>3, <2>1 DEF InProgress
  <2>3. /\ count = c + 1 /\ number[u] = c + 1 /\ of[u] = series
        /\ Kept({1}) /\ u \in chat
    BY <1>1, <2>1, <2>2 DEF ChatWasSent
  <2>4. Sent' = Sent \cup {u} /\ u \notin Sent
    BY <2>1, <2>3 DEF Sent
  <2>5. c' = c + 1
    BY <2>4, SentFinite, FS_AddElement DEF c
  <2>6. \A v \in Sent' : number'[v] \in 1 .. c'
    BY <1>1, <1>c, <2>1, <2>3, <2>4, <2>5
  <2>7. \A v \in Sent' : number'[v] = c' => ids'[c'] = v
    BY <1>1, <1>c, <2>1, <2>3, <2>4, <2>5 DEF Numbers
  <2>8. Kept({1, c})'
    BY <1>1, <1>c, <2>1, <2>3, <2>4, <2>5 DEF Kept
  <2> QED
    BY <2>1, <2>2, <2>3, <2>5, <2>6, <2>7, <2>8 DEF CleanSeries, c
<1>12. CASE Fail(u)
  BY <1>12 DEF Fail
<1> QED
  BY <1>5, <1>6, <1>7, <1>8, <1>9, <1>10, <1>11, <1>12 DEF Upload

(* The whole of it is an invariant.                                        *)
LEMMA CleanStep ==
  ASSUME RetentionInv, CleanInv, [Next]_vars
  PROVE  CleanInv'
<1>1. ChatWasSent'
  BY StepChat DEF CleanInv
<1> SUFFICES ASSUME clean', series' > 0
             PROVE  CleanSeries'
  BY <1>1 DEF CleanInv
<1>2. CASE SwitchOn
  BY <1>2, CleanBegins DEF CleanInv
<1>3. CASE SwitchOff \/ UNCHANGED vars
  <2>1. UNCHANGED <<count, ids, chat, at, number, victim, series, of, clean>>
    BY <1>3 DEF SwitchOff, vars, uploadVars, historyVars
  <2>2. Sent' = Sent /\ InProgress' = InProgress
    BY <2>1 DEF Sent, InProgress
  <2>3. CleanSeries
    BY <2>1 DEF CleanInv
  <2> QED
    BY <2>1, <2>2, <2>3 DEF CleanSeries, Kept
<1>4. ASSUME NEW u \in Uploads, Upload(u)
      PROVE  CleanSeries'
  <2>1. clean /\ series' = series
    BY <1>4 DEF Upload, ReadCount, WriteCount, TakeNumber, FindPrevious,
                DeletePrevious, UploadVideo, Record, Fail, historyVars
  <2> QED
    BY <1>4, <2>1, CleanUpload DEF CleanInv
<1> QED
  BY <1>2, <1>3, <1>4 DEF Next

(* As long as the uploads of a series neither meet nor fail, the chat      *)
(* holds exactly the first and the newest of it between two of them: each  *)
(* new segment replaces the intermediate one before it.                    *)
THEOREM FirstAndNewestStay == Spec => []FirstAndNewest
<1>1. Init => CleanInv
  BY RetentionAssumption DEF Init, CleanInv, ChatWasSent, Uploads
<1>2. RetentionInv /\ CleanInv => FirstAndNewest
  <2> SUFFICES ASSUME RetentionInv, ChatWasSent, CleanSeries, InProgress = {}
               PROVE  {u \in chat : of[u] = series}
                        = {u \in Sent : number[u] \in {1, Cardinality(Sent)}}
    BY DEF CleanInv, FirstAndNewest
  <2>1. Kept({1, Cardinality(Sent)})
    BY DEF CleanSeries
  <2>2. \A u \in chat : u \in Uploads /\ at[u] = "done"
    BY DEF RetentionInv, TypeOK, ChatWasSent, InProgress
  <2>3. \A u \in chat : of[u] = series <=> u \in Sent
    BY <2>2 DEF Sent
  <2> QED
    BY <2>1, <2>3 DEF Kept
<1> QED
  BY InitRetention, StepRetention, CleanStep, <1>1, <1>2, PTL DEF Spec
=============================================================================
