------------------------------ MODULE BinlogProofs ------------------------------
(***************************************************************************)
(* TDLib's key-value store keeps its types and implements DurableMap, for  *)
(* any threads, keys, thresholds and crashes: what operators on sequences  *)
(* yield, the inductive invariant IInv, and for each of its parts what the *)
(* actions do to it.                                                       *)
(*                                                                         *)
(* Beyond how many writes the files hold, which is what IInv tracks, the   *)
(* second half proves which: ContentInv relates the slots, the map and the *)
(* files to the history of the writes.                                     *)
(***************************************************************************)
EXTENDS Binlog, SequenceTheorems, WellFoundedInduction, TLAPS

-----------------------------------------------------------------------------
(* Numbers.                                                                *)
LEMMA LeastNatural ==
  ASSUME NEW T \in SUBSET Nat, T # {}
  PROVE  \E m \in T : \A o \in T : m <= o
<1>1. PICK m \in T : \A o \in T : ~(<<o, m>> \in OpToRel(<, Nat))
  BY NatLessThanWellFounded, WFMin, Zenon
<1>2. \A o \in T : ~(o < m)
  BY <1>1 DEF OpToRel
<1> QED
  BY <1>2

LEMMA GreatestNatural ==
  ASSUME NEW N \in Nat, NEW T \in SUBSET (0 .. N), T # {}
  PROVE  \E m \in T : \A o \in T : o <= m
<1> DEFINE U == {N - m : m \in T}
<1>0. \A m \in T : N - m \in Nat
  OBVIOUS
<1>1. U \in SUBSET Nat /\ U # {}
  BY <1>0
<1> HIDE DEF U
<1>2. PICK u \in U : \A o \in U : u <= o
  BY <1>1, LeastNatural
<1>3. PICK m \in T : u = N - m
  BY DEF U
<1>4. \A o \in T : N - m <= N - o
  BY <1>2, <1>3 DEF U
<1> QED
  BY <1>4

(* What holds at first, and goes over from each number to the next, holds. *)
LEMMA NumbersInduction ==
  ASSUME NEW N \in Nat, NEW Good \in SUBSET (0 .. N), 0 \in Good,
         \A n \in 1 .. N : n - 1 \in Good => n \in Good
  PROVE  \A n \in 0 .. N : n \in Good
<1> DEFINE Bad == (0 .. N) \ Good
<1> SUFFICES ASSUME Bad # {} PROVE FALSE
  OBVIOUS
<1>0. Bad \in SUBSET Nat
  OBVIOUS
<1> HIDE DEF Bad
<1>1. PICK m \in Bad : \A o \in Bad : m <= o
  BY <1>0, LeastNatural
<1>2. m \in 1 .. N /\ m - 1 \in 0 .. N
  BY DEF Bad
<1> QED
  BY <1>1, <1>2 DEF Bad

-----------------------------------------------------------------------------
(* Recursion.  A recursive function is the run of its steps; there is one, *)
(* and it has the values that its equations give.                          *)

Run(f, S, v, step, n) ==
  /\ f \in [0 .. n -> S] /\ f[0] = v
  /\ \A i \in 1 .. n : f[i] = step[i][f[i - 1]]

LEMMA RunGoesOn ==
  ASSUME NEW N \in Nat, NEW S, NEW v \in S, NEW step \in [1 .. N -> [S -> S]],
         NEW n \in 1 .. N, NEW f, Run(f, S, v, step, n - 1)
  PROVE  \E g : Run(g, S, v, step, n)
<1> DEFINE g == [i \in 0 .. n |-> IF i = n THEN step[n][f[n - 1]] ELSE f[i]]
<1>1. f \in [0 .. n - 1 -> S] /\ n - 1 \in 0 .. n - 1
  BY DEF Run
<1>2. step[n][f[n - 1]] \in S
  BY <1>1
<1>3. /\ g \in [0 .. n -> S] /\ g[n] = step[n][f[n - 1]]
      /\ \A i \in 0 .. n - 1 : g[i] = f[i]
  BY <1>1, <1>2
<1> HIDE DEF g
<1>4. g[0] = v /\ \A i \in 1 .. n - 1 : g[i] = step[i][g[i - 1]]
  BY <1>3 DEF Run
<1>5. g[n] = step[n][g[n - 1]]
  BY <1>3
<1> QED
  BY <1>3, <1>4, <1>5 DEF Run

LEMMA RunExists ==
  ASSUME NEW N \in Nat, NEW S, NEW v \in S, NEW step \in [1 .. N -> [S -> S]]
  PROVE  \E f : Run(f, S, v, step, N)
<1> DEFINE Good == {n \in 0 .. N : \E f : Run(f, S, v, step, n)}
<1>1. 0 \in Good
  <2>1. Run([i \in 0 .. 0 |-> v], S, v, step, 0)
    BY DEF Run
  <2> QED
    BY <2>1
<1>2. \A n \in 1 .. N : n - 1 \in Good => n \in Good
  BY RunGoesOn
<1>3. Good \in SUBSET (0 .. N)
  OBVIOUS
<1> HIDE DEF Good
<1>4. \A n \in 0 .. N : n \in Good
  BY <1>1, <1>2, <1>3, NumbersInduction
<1> QED
  BY <1>4 DEF Good

-----------------------------------------------------------------------------
(* The sequences of the store.                                             *)

(* The slots that are not erased, one after the other.                     *)
LEMMA LiveSteps ==
  ASSUME NEW E, NEW ss \in Seq(E)
  PROVE  \E f \in [0 .. Len(ss) -> Seq(E)] :
           /\ f[0] = <<>>
           /\ \A n \in 1 .. Len(ss) :
                f[n] = IF Gone(ss[n]) THEN f[n - 1] ELSE Append(f[n - 1], ss[n])
           /\ Live(ss) = f[Len(ss)]
<1> DEFINE Is(f) == f = [n \in 0 .. Len(ss) |->
              IF n = 0 THEN <<>>
              ELSE IF Gone(ss[n]) THEN f[n - 1] ELSE Append(f[n - 1], ss[n])]
           step == [n \in 1 .. Len(ss) |-> [q \in Seq(E) |->
                      IF Gone(ss[n]) THEN q ELSE Append(q, ss[n])]]
<1>0. Len(ss) \in Nat /\ <<>> \in Seq(E) /\ \A n \in 1 .. Len(ss) : ss[n] \in E
  BY LenProperties, EmptySeq, ElementOfSeq
<1>1. \A n \in 1 .. Len(ss) : \A q \in Seq(E) : Append(q, ss[n]) \in Seq(E)
  BY <1>0, AppendProperties
<1>2. step \in [1 .. Len(ss) -> [Seq(E) -> Seq(E)]]
  BY <1>1
<1>3. PICK g : Run(g, Seq(E), <<>>, step, Len(ss))
  <2> HIDE DEF step
  <2> QED
    BY <1>0, <1>2, RunExists
<1>4. Is(g)
  <2>1. g = [n \in 0 .. Len(ss) |-> g[n]]
    BY <1>3 DEF Run
  <2>2. ASSUME NEW n \in 0 .. Len(ss), n # 0
        PROVE  g[n] = IF Gone(ss[n]) THEN g[n - 1] ELSE Append(g[n - 1], ss[n])
    <3>1. n \in 1 .. Len(ss) /\ n - 1 \in 0 .. Len(ss)
      BY <1>0, <2>2
    <3>2. g[n] = step[n][g[n - 1]] /\ g[n - 1] \in Seq(E)
      BY <1>3, <3>1 DEF Run
    <3> QED
      BY <3>1, <3>2
  <2> QED
    BY <1>3, <2>1, <2>2 DEF Run
<1> DEFINE f == CHOOSE h : Is(h)
<1>5. Is(f) /\ Live(ss) = f[Len(ss)]
  BY <1>4 DEF Live
<1> HIDE DEF f
<1>8. /\ f[0] = <<>>
      /\ \A n \in 1 .. Len(ss) :
           f[n] = IF Gone(ss[n]) THEN f[n - 1] ELSE Append(f[n - 1], ss[n])
  <2>1. f[0] = <<>>
    BY <1>0, <1>5
  <2>2. ASSUME NEW n \in 1 .. Len(ss)
        PROVE  f[n] = IF Gone(ss[n]) THEN f[n - 1] ELSE Append(f[n - 1], ss[n])
    <3>1. n \in 0 .. Len(ss) /\ n # 0
      BY <1>0
    <3> QED
      BY <1>5, <3>1
  <2> QED
    BY <2>1, <2>2
<1>6. \A n \in 0 .. Len(ss) : f[n] \in Seq(E)
  <2> DEFINE Good == {n \in 0 .. Len(ss) : f[n] \in Seq(E)}
  <2>1. 0 \in Good
    <3>1. f[0] \in Seq(E)
      BY <1>0, <1>8, Zenon
    <3> QED
      BY <1>0, <3>1
  <2>2. ASSUME NEW n \in 1 .. Len(ss), n - 1 \in Good
        PROVE  n \in Good
    <3>1. f[n] \in Seq(E)
      BY <1>1, <1>8, <2>2
    <3> QED
      BY <1>0, <3>1
  <2>3. Good \in SUBSET (0 .. Len(ss))
    OBVIOUS
  <2> HIDE DEF Good
  <2>4. \A n \in 0 .. Len(ss) : n \in Good
    BY <1>0, <2>1, <2>2, <2>3, NumbersInduction
  <2> QED
    BY <2>4 DEF Good
<1>7. f \in [0 .. Len(ss) -> Seq(E)]
  BY <1>5, <1>6
<1> QED
  BY <1>5, <1>7, <1>8

LEMMA LiveIs ==
  ASSUME NEW E, NEW ss \in Seq(E)
  PROVE  Live(ss) \in Seq(E)
<1>1. Len(ss) \in 0 .. Len(ss)
  BY LenProperties
<1> QED
  BY <1>1, LiveSteps

LEMMA LiveOfNone == Live(<<>>) = <<>>
<1>1. <<>> \in Seq({}) /\ Len(<<>>) = 0
  BY EmptySeq
<1>2. PICK f \in [0 .. Len(<<>>) -> Seq({})] :
        /\ f[0] = <<>>
        /\ \A n \in 1 .. Len(<<>>) :
             f[n] = IF Gone(<<>>[n]) THEN f[n - 1] ELSE Append(f[n - 1], <<>>[n])
        /\ Live(<<>>) = f[Len(<<>>)]
  BY <1>1, LiveSteps, Zenon
<1> QED
  BY <1>1, <1>2

(* The slots and the events whose ids are at most N.                       *)
SlotsTo(N)  == [id : 1 .. N, key : Keys, val : Values \cup {NoVal}]
EventsTo(N) == [id : 1 .. N, rewrite : BOOLEAN, key : Keys, val : Values \cup {NoVal}]

LEMMA AddedIs ==
  ASSUME NEW N \in Nat, NEW ss \in Seq(SlotsTo(N)), NEW e \in EventsTo(N)
  PROVE  Added(ss, e) \in Seq(SlotsTo(N))
<1>1. ASSUME NEW q \in Seq(SlotsTo(N))
      PROVE  compactify(q) \in Seq(SlotsTo(N))
  BY LiveIs DEF compactify
<1>2. Append(ss, [id |-> e.id, key |-> e.key, val |-> e.val]) \in Seq(SlotsTo(N))
  <2>1. [id |-> e.id, key |-> e.key, val |-> e.val] \in SlotsTo(N)
    BY DEF SlotsTo, EventsTo
  <2> QED
    BY <2>1, AppendProperties
<1>3. [i \in DOMAIN ss |-> IF i \in SlotsOf(ss, e) THEN [ss[i] EXCEPT !.val = e.val]
                                                   ELSE ss[i]] \in Seq(SlotsTo(N))
  <2>1. DOMAIN ss = 1 .. Len(ss) /\ Len(ss) \in Nat
    BY LenProperties
  <2>2. \A i \in 1 .. Len(ss) : ss[i] \in SlotsTo(N)
    BY ElementOfSeq
  <2>3. \A i \in 1 .. Len(ss) : [ss[i] EXCEPT !.val = e.val] \in SlotsTo(N)
    BY <2>2 DEF SlotsTo, EventsTo
  <2>4. [i \in 1 .. Len(ss) |-> IF i \in SlotsOf(ss, e) THEN [ss[i] EXCEPT !.val = e.val]
                                ELSE ss[i]] \in [1 .. Len(ss) -> SlotsTo(N)]
    BY <2>2, <2>3
  <2> QED
    BY <2>1, <2>4, SeqDef
<1> QED
  BY <1>1, <1>2, <1>3 DEF Added

LEMMA ReplayedSteps ==
  ASSUME NEW N \in Nat, NEW events \in Seq(EventsTo(N))
  PROVE  \E f \in [0 .. Len(events) -> Seq(SlotsTo(N))] :
           /\ f[0] = <<>>
           /\ \A n \in 1 .. Len(events) : f[n] = Added(f[n - 1], events[n])
           /\ Replayed(events) = f[Len(events)]
<1> DEFINE S == Seq(SlotsTo(N))
           Is(f) == f = [n \in 0 .. Len(events) |->
              IF n = 0 THEN <<>> ELSE Added(f[n - 1], events[n])]
           step == [n \in 1 .. Len(events) |-> [q \in S |-> Added(q, events[n])]]
<1>0. /\ Len(events) \in Nat /\ <<>> \in S
      /\ \A n \in 1 .. Len(events) : events[n] \in EventsTo(N)
  BY LenProperties, EmptySeq, ElementOfSeq
<1>1. \A n \in 1 .. Len(events) : \A q \in S : Added(q, events[n]) \in S
  BY <1>0, AddedIs
<1> HIDE DEF S
<1>2. step \in [1 .. Len(events) -> [S -> S]]
  BY <1>1
<1>3. PICK g : Run(g, S, <<>>, step, Len(events))
  <2> HIDE DEF step
  <2> QED
    BY <1>0, <1>2, RunExists
<1>4. Is(g)
  <2>1. g = [n \in 0 .. Len(events) |-> g[n]]
    BY <1>3 DEF Run
  <2>2. ASSUME NEW n \in 0 .. Len(events), n # 0
        PROVE  g[n] = Added(g[n - 1], events[n])
    <3>1. n \in 1 .. Len(events) /\ n - 1 \in 0 .. Len(events)
      BY <1>0, <2>2
    <3>2. g[n] = step[n][g[n - 1]] /\ g[n - 1] \in S
      BY <1>3, <3>1 DEF Run
    <3> QED
      BY <3>1, <3>2
  <2> QED
    BY <1>3, <2>1, <2>2 DEF Run
<1> DEFINE f == CHOOSE h : Is(h)
<1>5. Is(f) /\ Replayed(events) = f[Len(events)]
  BY <1>4 DEF Replayed
<1> HIDE DEF f
<1>8. f[0] = <<>> /\ \A n \in 1 .. Len(events) : f[n] = Added(f[n - 1], events[n])
  <2>1. f[0] = <<>>
    BY <1>0, <1>5
  <2>2. ASSUME NEW n \in 1 .. Len(events)
        PROVE  f[n] = Added(f[n - 1], events[n])
    <3>1. n \in 0 .. Len(events) /\ n # 0
      BY <1>0
    <3> QED
      BY <1>5, <3>1
  <2> QED
    BY <2>1, <2>2
<1>6. \A n \in 0 .. Len(events) : f[n] \in S
  <2> DEFINE Good == {n \in 0 .. Len(events) : f[n] \in S}
  <2>1. 0 \in Good
    <3>1. f[0] \in S
      BY <1>0, <1>8, Zenon
    <3> QED
      BY <1>0, <3>1
  <2>2. ASSUME NEW n \in 1 .. Len(events), n - 1 \in Good
        PROVE  n \in Good
    <3>1. f[n] \in S
      BY <1>1, <1>8, <2>2
    <3> QED
      BY <1>0, <3>1
  <2>3. Good \in SUBSET (0 .. Len(events))
    OBVIOUS
  <2> HIDE DEF Good
  <2>4. \A n \in 0 .. Len(events) : n \in Good
    BY <1>0, <2>1, <2>2, <2>3, NumbersInduction
  <2> QED
    BY <2>4 DEF Good
<1>7. f \in [0 .. Len(events) -> S]
  BY <1>5, <1>6
<1> QED
  BY <1>5, <1>7, <1>8 DEF S

LEMMA ReplayedIs ==
  ASSUME NEW N \in Nat, NEW events \in Seq(EventsTo(N))
  PROVE  Replayed(events) \in Seq(SlotsTo(N))
<1>1. Len(events) \in 0 .. Len(events)
  BY LenProperties
<1> QED
  BY <1>1, ReplayedSteps

LEMMA ReplayedOfNone == Replayed(<<>>) = <<>>
<1>1. <<>> \in Seq(EventsTo(0)) /\ Len(<<>>) = 0 /\ 0 \in Nat
  BY EmptySeq
<1>2. PICK f \in [0 .. Len(<<>>) -> Seq(SlotsTo(0))] :
          /\ f[0] = <<>>
          /\ \A n \in 1 .. Len(<<>>) : f[n] = Added(f[n - 1], <<>>[n])
          /\ Replayed(<<>>) = f[Len(<<>>)]
  BY <1>1, ReplayedSteps, Zenon
<1> QED
  BY <1>1, <1>2, Zenon

(* More slots may be named when more ids are.                              *)
LEMMA SlotsGrow ==
  ASSUME NEW M \in Nat, NEW N \in Nat, M <= N, NEW ss \in Seq(SlotsTo(M))
  PROVE  ss \in Seq(SlotsTo(N))
<1>1. ss \in [1 .. Len(ss) -> SlotsTo(N)] /\ Len(ss) \in Nat
  <2>1. \A i \in 1 .. Len(ss) : ss[i] \in SlotsTo(M)
    BY ElementOfSeq
  <2>2. \A i \in 1 .. Len(ss) : ss[i] \in SlotsTo(N)
    BY <2>1 DEF SlotsTo
  <2> QED
    BY <2>2, LenProperties
<1> QED
  BY <1>1, SeqDef

LEMMA MapOfIs ==
  ASSUME NEW N \in Nat, NEW ss \in Seq(SlotsTo(N))
  PROVE  MapOf(ss) \in [Keys -> [val : Values \cup {NoVal}, id : 0 .. N]]
<1>1. DOMAIN ss = 1 .. Len(ss) /\ Len(ss) \in Nat
      /\ \A i \in 1 .. Len(ss) : ss[i] \in SlotsTo(N)
  BY LenProperties, ElementOfSeq
<1> DEFINE mine(k) == {i \in DOMAIN ss : ss[i].key = k /\ ~Gone(ss[i])}
           first(k) == CHOOSE i \in mine(k) : \A j \in mine(k) : i <= j
<1>2. ASSUME NEW k \in Keys, mine(k) # {}
      PROVE  [val |-> ss[first(k)].val, id |-> ss[first(k)].id]
               \in [val : Values \cup {NoVal}, id : 0 .. N]
  <2>1. mine(k) \in SUBSET Nat
    BY <1>1
  <2>2. first(k) \in mine(k)
    <3> HIDE DEF mine
    <3> QED
      BY <1>2, <2>1, LeastNatural
  <2>3. first(k) \in 1 .. Len(ss)
    BY <1>1, <2>2
  <2> HIDE DEF first
  <2> QED
    BY <1>1, <2>3 DEF SlotsTo
<1>3. NoKey \in [val : Values \cup {NoVal}, id : 0 .. N]
  BY DEF NoKey
<1>4. \A k \in Keys : (IF mine(k) = {} THEN NoKey
                       ELSE [val |-> ss[first(k)].val, id |-> ss[first(k)].id])
                        \in [val : Values \cup {NoVal}, id : 0 .. N]
  BY <1>2, <1>3
<1>5. MapOf(ss) = [k \in Keys |-> IF mine(k) = {} THEN NoKey
                       ELSE [val |-> ss[first(k)].val, id |-> ss[first(k)].id]]
  BY DEF MapOf
<1> HIDE DEF mine, first
<1> QED
  BY <1>4, <1>5

LEMMA LastAddedIs ==
  ASSUME NEW N \in Nat, NEW events \in Seq(EventsTo(N))
  PROVE  LastAdded(events) \in 0 .. N
<1>1. DOMAIN events = 1 .. Len(events) /\ Len(events) \in Nat
      /\ \A i \in 1 .. Len(events) : events[i] \in EventsTo(N)
  BY LenProperties, ElementOfSeq
<1> DEFINE added == {i \in DOMAIN events : ~events[i].rewrite}
           last  == CHOOSE i \in added : \A j \in added : j <= i
<1>2. CASE added = {}
  BY <1>2 DEF LastAdded
<1>3. CASE added # {}
  <2>1. added \in SUBSET (0 .. Len(events))
    BY <1>1
  <2>2. last \in added
    <3> HIDE DEF added
    <3> QED
      BY <1>1, <1>3, <2>1, GreatestNatural
  <2>3. last \in 1 .. Len(events)
    BY <1>1, <2>2
  <2>4. LastAdded(events) = events[last].id
    BY <1>3 DEF LastAdded
  <2> HIDE DEF last
  <2> QED
    BY <1>1, <2>3, <2>4 DEF EventsTo
<1> QED
  BY <1>2, <1>3

LEMMA SnapshotIs ==
  ASSUME NEW N \in Nat, slots \in Seq(SlotsTo(N))
  PROVE  /\ Snapshot \in Seq(EventsTo(N))
         /\ slots = <<>> => Snapshot = <<>>
<1>1. Live(slots) \in Seq(SlotsTo(N))
  BY LiveIs
<1>2. DOMAIN Live(slots) = 1 .. Len(Live(slots)) /\ Len(Live(slots)) \in Nat
      /\ \A i \in 1 .. Len(Live(slots)) : Live(slots)[i] \in SlotsTo(N)
  BY <1>1, LenProperties, ElementOfSeq
<1>3. Snapshot \in [1 .. Len(Live(slots)) -> EventsTo(N)]
  BY <1>2 DEF Snapshot, SlotsTo, EventsTo
<1>4. Snapshot \in Seq(EventsTo(N))
  BY <1>2, <1>3, SeqDef
<1>5. ASSUME slots = <<>> PROVE Snapshot = <<>>
  <2>1. DOMAIN Snapshot = {}
    BY <1>2, <1>3, <1>5, LiveOfNone
  <2>2. Len(Snapshot) = 0
    BY <1>4, <2>1, LenProperties
  <2> QED
    BY <1>4, <2>2, EmptySeq
<1> QED
  BY <1>4, <1>5

-----------------------------------------------------------------------------
(* What is read of a file, and what a cut write leaves.                    *)
LEMMA ReadableIs ==
  ASSUME NEW S, NEW data \in Seq(S)
  PROVE  /\ Readable(data) \in Seq(S)
         /\ Len(Readable(data)) \in 0 .. Len(data)
         /\ \A i \in 1 .. Len(Readable(data)) :
              Readable(data)[i] = data[i] /\ data[i] # Torn
         /\ \A n \in 0 .. Len(data) :
              (\A i \in 1 .. n : data[i] # Torn) => n <= Len(Readable(data))
         /\ (\A i \in 1 .. Len(data) : data[i] # Torn) => Readable(data) = data
<1>1. DOMAIN data = 1 .. Len(data) /\ Len(data) \in Nat
      /\ \A i \in 1 .. Len(data) : data[i] \in S
  BY LenProperties, ElementOfSeq
<1> DEFINE torn  == {i \in DOMAIN data : data[i] = Torn}
           first == CHOOSE i \in torn : \A j \in torn : i <= j
<1>2. CASE torn = {}
  <2>1. Readable(data) = data
    BY <1>2 DEF Readable
  <2>2. \A i \in 1 .. Len(data) : data[i] # Torn
    BY <1>1, <1>2
  <2> QED
    BY <1>1, <2>1, <2>2
<1>3. CASE torn # {}
  <2>1. torn \in SUBSET Nat
    BY <1>1
  <2>2. first \in torn /\ \A j \in torn : first <= j
    <3> HIDE DEF torn
    <3> QED
      BY <1>3, <2>1, LeastNatural
  <2>3. first \in 1 .. Len(data) /\ data[first] = Torn
        /\ \A j \in 1 .. Len(data) : data[j] = Torn => first <= j
    BY <1>1, <2>2
  <2>4. Readable(data) = SubSeq(data, 1, first - 1)
    BY <1>3 DEF Readable
  <2> HIDE DEF first, torn
  <2>5. /\ SubSeq(data, 1, first - 1) \in Seq(S)
        /\ Len(SubSeq(data, 1, first - 1)) = first - 1
        /\ \A i \in 1 .. first - 1 : SubSeq(data, 1, first - 1)[i] = data[i]
    BY <1>1, <2>3, SubSeqProperties
  <2> QED
    BY <1>1, <2>3, <2>4, <2>5
<1> QED
  BY <1>2, <1>3

LEMMA CutIs ==
  ASSUME NEW S, NEW ev \in Seq(S), NEW n \in 0 .. Len(ev), NEW tail \in Cuts(ev, n)
  PROVE  /\ tail \in Seq(S \cup {Torn}) /\ Len(tail) \in {n, n + 1}
         /\ Len(tail) <= Len(ev)
         /\ \A i \in 1 .. n : tail[i] = ev[i]
         /\ Len(tail) = n + 1 => tail[n + 1] = Torn
<1>1. /\ SubSeq(ev, 1, n) \in Seq(S) /\ Len(SubSeq(ev, 1, n)) = n
      /\ \A i \in 1 .. n : SubSeq(ev, 1, n)[i] = ev[i]
  BY SubSeqProperties, LenProperties
<1>2. SubSeq(ev, 1, n) \in Seq(S \cup {Torn}) /\ Len(ev) \in Nat
  <2>1. DOMAIN SubSeq(ev, 1, n) = 1 .. n /\ \A i \in 1 .. n : SubSeq(ev, 1, n)[i] \in S
    BY <1>1, LenProperties, ElementOfSeq
  <2>2. SubSeq(ev, 1, n) \in [1 .. n -> S \cup {Torn}]
    BY <1>1, <2>1, LenProperties
  <2> QED
    BY <2>2, SeqDef, LenProperties
<1>3. CASE tail = SubSeq(ev, 1, n)
  BY <1>1, <1>2, <1>3
<1>4. CASE n < Len(ev) /\ tail = Append(SubSeq(ev, 1, n), Torn)
  <2>1. /\ tail \in Seq(S \cup {Torn}) /\ Len(tail) = n + 1 /\ tail[n + 1] = Torn
        /\ \A i \in 1 .. n : tail[i] = SubSeq(ev, 1, n)[i]
    BY <1>1, <1>2, <1>4, AppendProperties
  <2> QED
    BY <1>1, <1>2, <1>4, <2>1
<1> QED
  BY <1>3, <1>4 DEF Cuts

-----------------------------------------------------------------------------
(* The inductive invariant.                                                *)

(* The number of the newest event that the slots hold, as a place in the   *)
(* history.                                                                *)
Taken == begin - 1 + boot

(* Nothing of a process is there when none runs, but the history and the   *)
(* files; the writes that remain are those that the next process will read. *)
OffInv == turn = "off" =>
  /\ call = [t \in Threads |-> NoCall] /\ wrote = [t \in Threads |-> 0]
  /\ waiting = {} /\ immediate = {} /\ syncPromises = {} /\ buffer = <<>>
  /\ ~needSync
  /\ Len(history) = WritesIn(Survivor, Len(Readable(Survivor.data)))

(* The numbers of a process follow on the writes that it found.  Each event *)
(* that was not taken is with its thread or came early, and is there once. *)
Sending(t) == call[t].type = "event"

EventInv(e) == e.type = "event" /\ begin <= e.seq /\ e.seq <= lastId
               /\ e.event.id <= e.seq + boot

NumberInv == turn # "off" =>
  /\ lastId + boot = Len(history) /\ begin - 1 <= lastId
  /\ slots \in Seq(SlotsTo(Taken))
  /\ \A k \in Keys : map[k].id <= lastId + boot

WaitingInv == turn # "off" =>
  /\ \A e \in waiting : EventInv(e)
  /\ \A t \in Threads : Sending(t) => EventInv(call[t])
  /\ \A q \in begin .. lastId :
       \/ \E e \in waiting : e.seq = q
       \/ \E t \in Threads : Sending(t) /\ call[t].seq = q
  /\ \A e, f \in waiting : e.seq = f.seq => e = f
  /\ \A t \in Threads, e \in waiting : Sending(t) => call[t].seq # e.seq
  /\ \A t, u \in Threads : Sending(t) /\ Sending(u) /\ t # u => call[t].seq # call[u].seq
  /\ turn \in {"closing", "unlinkNew", "unlinkMain"} =>
       waiting = {} /\ \A t \in Threads : call[t] = NoCall

(* A write whose event has been taken, or is only kept waiting.            *)
Sent(p) == p <= Taken \/ \E e \in waiting : e.seq + boot = p

ThreadInv(t) ==
  /\ wrote[t] <= Len(history)
  /\ IF Sending(t) THEN wrote[t] = call[t].seq + boot ELSE Sent(wrote[t])
  /\ call[t].type = "sync" => call[t].upto = wrote[t]

SyncInv == turn # "off" =>
  /\ \A t \in Threads : ThreadInv(t)
  /\ \A i \in immediate : i.upto <= i.seq + boot
  /\ \A p \in syncPromises : p <= Taken

(* The first snap events of a file are part of base writes, and each later *)
(* one is a write.                                                         *)
PlaceOf(file, i) == IF i <= file.snap THEN file.base ELSE file.base + i - file.snap

GoodFile(file) ==
  /\ file.snap <= file.synced /\ file.synced <= Len(file.data)
  /\ \A i \in 1 .. Len(file.data) :
       /\ i <= file.synced => file.data[i] # Torn
       /\ file.data[i] # Torn => file.data[i].id <= PlaceOf(file, i)

(* The new file has all that the slots hold.                               *)
Replaces(file) ==
  /\ file.exists /\ file.base = Taken /\ file.snap = Len(file.data)
  /\ \A i \in 1 .. Len(file.data) :
       file.data[i] # Torn /\ file.data[i].id <= file.base

MainInv ==
  /\ GoodFile(main) /\ (~main.exists => main = NoFile) /\ (~new.exists => new = NoFile)
  /\ ~main.exists => turn \in {"off", "rename"} /\ GoodFile(new)
                     /\ new.synced = Len(new.data)

FileInv == turn # "off" =>
  /\ \A i \in 1 .. Len(main.data) : main.data[i] # Torn
  /\ \A i \in 1 .. Len(buffer) : buffer[i].id + Len(buffer) <= Taken + i
  /\ main.exists => WritesIn(main, Len(main.data)) + Len(buffer) <= Taken
  /\ turn \notin {"write", "barrier", "unlink", "rename"} =>
       WritesIn(main, Len(main.data)) + Len(buffer) = Taken
  /\ turn \in {"sync", "closing", "write", "barrier", "unlink", "rename",
               "unlinkNew", "unlinkMain"} => buffer = <<>>

NewInv ==
  /\ turn \in {"open", "write", "barrier"} /\ main.data = <<>> => slots = <<>>
  /\ turn = "write" => new = NewFile
  /\ turn = "barrier" => /\ Replaces(new) /\ new.synced = 0
                         /\ main.data = <<>> => new.data = <<>>
  /\ turn \in {"unlink", "rename"} => Replaces(new) /\ new.synced = Len(new.data)
  /\ turn = "rename" => ~main.exists
  /\ turn = "unlinkMain" => new = NoFile

(* What is not synced, and not to be either, no one waits for.             *)
Unowed(p) == p = 0 \/ p > WritesIn(main, Len(main.data))

OweInv ==
  turn \notin {"off", "unlink", "rename"} /\ ~needSync /\ main.synced < Len(main.data) =>
    /\ \A t \in Threads : Unowed(wrote[t])
    /\ \A i \in immediate : Unowed(i.upto)
    /\ \A p \in syncPromises : Unowed(p)

PromiseInv == promised <= Saved

IInv ==
  /\ TypeOK /\ OffInv /\ NumberInv /\ WaitingInv /\ SyncInv /\ MainInv /\ FileInv
  /\ NewInv /\ OweInv /\ PromiseInv

-----------------------------------------------------------------------------
(* The numbers and the waiting events.                                     *)
LEMMA InitNumbers == Init => NumberInv /\ WaitingInv /\ SyncInv
BY DEF Init, NumberInv, WaitingInv, SyncInv

LEMMA NumbersAre ==
  ASSUME TypeOK
  PROVE  /\ lastId \in Nat /\ boot \in Nat /\ begin \in Nat /\ Len(history) \in Nat
         /\ call \in [Threads -> Calls] /\ wrote \in [Threads -> Nat]
         /\ \A k \in Keys : map[k].id \in Nat
         /\ Taken \in Nat
<1>1. \A k \in Keys : map[k].id \in Nat
  BY DEF TypeOK, Places
<1>2. /\ lastId \in Nat /\ boot \in Nat /\ begin \in 1 .. MaxWrites + 1
      /\ call \in [Threads -> Calls] /\ wrote \in [Threads -> Nat]
      /\ history \in Seq([key : Keys, val : Values \cup {NoVal}])
  BY DEF TypeOK, Places
<1>3. Len(history) \in Nat
  BY <1>2, LenProperties
<1>4. begin \in Nat /\ begin - 1 \in Nat
  BY <1>2, BinlogAssumption
<1> QED
  BY <1>1, <1>2, <1>3, <1>4 DEF Taken

LEMMA EventsAre ==
  ASSUME TypeOK, WaitingInv, turn # "off"
  PROVE  /\ \A e \in waiting : /\ EventInv(e) /\ e.seq \in Nat /\ e.seq \in Ids
                                /\ e.event \in Events /\ e.event.id \in Nat
         /\ \A t \in Threads : Sending(t) => /\ EventInv(call[t]) /\ call[t].seq \in Nat
                                            /\ call[t].event \in Events
<1>1. ASSUME NEW e \in Calls, e.type = "event"
      PROVE  e.seq \in Nat /\ e.seq \in Ids /\ e.event \in Events /\ e.event.id \in Nat
  <2>1. e \in [type : {"event"}, seq : Ids, event : Events, promise : BOOLEAN]
    BY <1>1 DEF Calls, NoCall
  <2> QED
    BY <2>1 DEF Ids, Events
<1>2. \A e \in waiting : EventInv(e) /\ e \in Calls
  BY DEF WaitingInv, TypeOK
<1>3. \A t \in Threads : call[t] \in Calls /\ (Sending(t) => EventInv(call[t]))
  BY DEF WaitingInv, TypeOK
<1> QED
  BY <1>1, <1>2, <1>3 DEF EventInv, Sending

LEMMA WriteKeepsNumbers ==
  ASSUME TypeOK, NumberInv, WaitingInv, SyncInv,
         NEW t \in Threads, NEW k \in Keys, NEW v \in Values \cup {NoVal}, Write(t, k, v)
  PROVE  NumberInv' /\ WaitingInv' /\ SyncInv'
<1>1. /\ turn # "off" /\ turn' = turn /\ begin' = begin /\ boot' = boot /\ slots' = slots
      /\ waiting' = waiting /\ immediate' = immediate /\ syncPromises' = syncPromises
      /\ turn \notin {"closing", "unlinkNew", "unlinkMain"}
  BY DEF Write, IsOpen, Reindexing, actorVars, timerVars
<1>2. /\ lastId \in Nat /\ boot \in Nat /\ begin \in Nat /\ Len(history) \in Nat
      /\ \A q \in Keys : map[q].id \in Nat
      /\ call \in [Threads -> Calls] /\ wrote \in [Threads -> Nat]
      /\ \A e \in waiting : e.seq + boot <= lastId + boot
  BY <1>1, NumbersAre, EventsAre DEF EventInv
<1>3. /\ lastId' = lastId + 1 /\ Len(history') = Len(history) + 1
      /\ wrote' = [wrote EXCEPT ![t] = Len(history) + 1]
  <2>1. /\ lastId' = lastId + 1 /\ history' = Append(history, [key |-> k, val |-> v])
        /\ wrote' = [wrote EXCEPT ![t] = Len(history')]
    BY DEF Write
  <2>2. history \in Seq([key : Keys, val : Values \cup {NoVal}])
        /\ [key |-> k, val |-> v] \in [key : Keys, val : Values \cup {NoVal}]
    BY DEF TypeOK
  <2>3. Len(history') = Len(history) + 1
    BY <2>1, <2>2, AppendProperties
  <2> QED
    BY <2>1, <2>3
<1>4. EventId(k) \in Nat /\ EventId(k) <= lastId + 1 + boot
  BY <1>1, <1>2 DEF EventId, NumberInv
<1>5. /\ call' = [call EXCEPT ![t] = call'[t]] /\ call'[t].type = "event"
      /\ call'[t].seq = lastId + 1 /\ call'[t].event.id = EventId(k)
      /\ call[t] = NoCall
  BY <1>2 DEF Write
<1>6. NumberInv'
  <2>1. ASSUME NEW q \in Keys PROVE map'[q].id <= lastId' + boot
    <3>1. /\ DOMAIN map = Keys
          /\ map' = [map EXCEPT ![k] = IF v = NoVal THEN NoKey
                                              ELSE [val |-> v, id |-> EventId(k)]]
      BY DEF Write, TypeOK
    <3>2. map'[q] = IF q # k THEN map[q]
                    ELSE IF v = NoVal THEN NoKey ELSE [val |-> v, id |-> EventId(k)]
      BY <3>1
    <3>3. map'[q].id \in {map[q].id, 0, EventId(k)}
      BY <3>2 DEF NoKey
    <3>4. map[q].id <= lastId + boot /\ map[q].id \in Nat
      BY <1>1, <1>2 DEF NumberInv
    <3>5. lastId' = lastId + 1
      BY <1>1, <1>3
    <3> DEFINE n == map'[q].id
    <3>6. n \in {map[q].id, 0, EventId(k)}
      BY <3>3
    <3> HIDE DEF n
    <3>7. n <= lastId + 1 + boot
      BY <1>2, <1>4, <3>4, <3>6
    <3>8. n <= lastId' + boot
      BY <3>5, <3>7
    <3> QED
      BY <3>8 DEF n
  <2>2. /\ lastId + boot = Len(history) /\ begin - 1 <= lastId
        /\ slots \in Seq(SlotsTo(Taken))
    BY <1>1 DEF NumberInv
  <2>3. lastId' + boot' = Len(history') /\ begin' - 1 <= lastId'
    BY <1>1, <1>2, <1>3, <2>2
  <2>4. Taken' = Taken
    BY <1>1 DEF Taken
  <2>5. slots' \in Seq(SlotsTo(Taken)')
    BY <1>1, <2>2, <2>4 DEF SlotsTo
  <2> QED
    BY <1>1, <2>1, <2>3, <2>5 DEF NumberInv
<1>7. \A u \in Threads : call'[u] = IF u = t THEN call'[t] ELSE call[u]
  BY <1>2, <1>5
<1>8. ~Sending(t)
  BY <1>5 DEF Sending, NoCall
<1>9. Sending(t)' /\ EventInv(call[t])'
  BY <1>1, <1>2, <1>3, <1>4, <1>5 DEF Sending, EventInv, NumberInv
<1>10. /\ \A u \in Threads : u # t => (Sending(u)' <=> Sending(u)) /\ call'[u] = call[u]
       /\ \A u \in Threads : Sending(u) => u # t /\ call[u].seq \in Nat
  <2>1. \A u \in Threads : Sending(u) => call[u].seq \in Nat
    BY <1>2 DEF Sending, Calls, NoCall, Ids
  <2> QED
    BY <1>7, <1>8, <2>1 DEF Sending
<1>11. \A u \in Threads : Sending(u) => EventInv(call[u]) /\ EventInv(call[u])'
  <2>1. \A u \in Threads : Sending(u) => EventInv(call[u]) /\ call[u].seq \in Nat
    BY <1>1, <1>10 DEF WaitingInv
  <2> QED
    BY <1>1, <1>2, <1>3, <1>10, <2>1 DEF EventInv
<1>12. \A e \in waiting : EventInv(e) /\ EventInv(e)' /\ e.seq \in Nat
  <2>1. \A e \in waiting : EventInv(e)
    BY <1>1 DEF WaitingInv
  <2>2. \A e \in waiting : e.seq \in Nat
    BY <2>1 DEF EventInv, Calls, NoCall, Ids, TypeOK
  <2> QED
    BY <1>1, <1>2, <1>3, <2>1, <2>2 DEF EventInv
<1>13. WaitingInv'
  <2>1. \A u \in Threads : Sending(u)' => EventInv(call[u])'
    BY <1>9, <1>10, <1>11
  <2>2. ASSUME NEW q \in begin .. lastId'
        PROVE  \/ \E e \in waiting' : e.seq = q
               \/ \E u \in Threads : Sending(u)' /\ call'[u].seq = q
    <3>1. CASE q = lastId + 1
      BY <1>5, <1>9, <3>1
    <3>2. CASE q \in begin .. lastId
      BY <1>1, <1>10, <3>2 DEF WaitingInv
    <3> QED
      BY <1>2, <1>3, <3>1, <3>2
  <2>3. \A e, f \in waiting' : e.seq = f.seq => e = f
    BY <1>1 DEF WaitingInv
  <2>4. \A u \in Threads, e \in waiting' : Sending(u)' => call'[u].seq # e.seq
    BY <1>1, <1>2, <1>5, <1>10, <1>12 DEF WaitingInv, EventInv
  <2>5. \A u, w \in Threads : Sending(u)' /\ Sending(w)' /\ u # w => call'[u].seq # call'[w].seq
    BY <1>1, <1>2, <1>5, <1>10, <1>11 DEF WaitingInv, EventInv
  <2>6. \A e \in waiting' : EventInv(e)'
    BY <1>1, <1>12
  <2> QED
    BY <1>1, <2>1, <2>2, <2>3, <2>4, <2>5, <2>6 DEF WaitingInv
<1>14. SyncInv'
  <2>1. wrote'[t] = Len(history) + 1 /\ \A u \in Threads : u # t => wrote'[u] = wrote[u]
    BY <1>2, <1>3
  <2>2. ASSUME NEW u \in Threads PROVE ThreadInv(u)'
    <3>1. CASE u = t
      <4>1. call'[t].type = "event" /\ call'[t].seq + boot' = Len(history) + 1
        BY <1>1, <1>2, <1>5 DEF NumberInv
      <4> QED
        BY <1>2, <1>3, <2>1, <3>1, <4>1 DEF ThreadInv, Sending
    <3>2. CASE u # t
      <4>1. Sent(wrote[u])' <=> Sent(wrote[u])
        BY <1>1, <2>1, <3>2 DEF Sent, Taken
      <4>2. wrote[u] \in Nat /\ ThreadInv(u)
        BY <1>1, <1>2 DEF SyncInv
      <4> QED
        BY <1>1, <1>2, <1>3, <1>10, <2>1, <3>2, <4>1, <4>2 DEF ThreadInv
    <3> QED
      BY <3>1, <3>2
  <2> QED
    BY <1>1, <2>2 DEF SyncInv, Taken
<1> QED
  BY <1>6, <1>13, <1>14

LEMMA ForceSyncKeepsNumbers ==
  ASSUME TypeOK, NumberInv, WaitingInv, SyncInv, NEW t \in Threads, ForceSync(t)
  PROVE  NumberInv' /\ WaitingInv' /\ SyncInv'
<1>1. /\ turn # "off" /\ turn' = turn /\ begin' = begin /\ boot' = boot /\ slots' = slots
      /\ waiting' = waiting /\ immediate' = immediate /\ syncPromises' = syncPromises
      /\ lastId' = lastId /\ history' = history /\ map' = map /\ wrote' = wrote
      /\ turn \notin {"closing", "unlinkNew", "unlinkMain"}
  BY DEF ForceSync, IsOpen, Reindexing, actorVars, timerVars, ghostVars
<1>2. /\ call[t] = NoCall /\ call'[t].type = "sync" /\ call'[t].upto = wrote[t]
      /\ \A u \in Threads : u # t => call'[u] = call[u]
  BY NumbersAre DEF ForceSync
<1>3. ~Sending(t) /\ \A u \in Threads : Sending(u)' <=> Sending(u)
  BY <1>2 DEF Sending, NoCall
<1>4. NumberInv'
  BY <1>1 DEF NumberInv, Taken
<1>5. WaitingInv'
  <2>1. \A u \in Threads : Sending(u)' => EventInv(call[u])'
    BY <1>1, <1>2, <1>3 DEF WaitingInv, EventInv
  <2>2. \A e \in waiting : EventInv(e)'
    BY <1>1 DEF WaitingInv, EventInv
  <2>3. ASSUME NEW q \in begin .. lastId
        PROVE  \/ \E e \in waiting : e.seq = q
               \/ \E u \in Threads : Sending(u)' /\ call'[u].seq = q
    BY <1>1, <1>2, <1>3 DEF WaitingInv
  <2>4. /\ \A e, f \in waiting : e.seq = f.seq => e = f
        /\ \A u \in Threads, e \in waiting : Sending(u)' => call'[u].seq # e.seq
        /\ \A u, w \in Threads : Sending(u)' /\ Sending(w)' /\ u # w => call'[u].seq # call'[w].seq
    BY <1>1, <1>2, <1>3 DEF WaitingInv
  <2> QED
    BY <1>1, <2>1, <2>2, <2>3, <2>4 DEF WaitingInv
<1>6. SyncInv'
  <2>1. ASSUME NEW u \in Threads PROVE ThreadInv(u)'
    <3>1. ThreadInv(u) /\ ThreadInv(t)
      BY <1>1 DEF SyncInv
    <3>2. Sent(wrote[u])' <=> Sent(wrote[u])
      BY <1>1 DEF Sent, Taken
    <3>3. CASE u = t
      BY <1>1, <1>2, <1>3, <3>1, <3>2, <3>3 DEF ThreadInv
    <3>4. CASE u # t
      BY <1>1, <1>2, <1>3, <3>1, <3>2, <3>4 DEF ThreadInv
    <3> QED
      BY <3>3, <3>4
  <2> QED
    BY <1>1, <2>1 DEF SyncInv, Taken
<1> QED
  BY <1>4, <1>5, <1>6

LEMMA DeliverEventKeepsNumbers ==
  ASSUME TypeOK, NumberInv, WaitingInv, SyncInv, NEW t \in Threads, DeliverEvent(t)
  PROVE  NumberInv' /\ WaitingInv' /\ SyncInv'
<1>1. /\ turn # "off" /\ turn' = "drain" /\ begin' = begin /\ boot' = boot /\ slots' = slots
      /\ immediate' = immediate /\ syncPromises' = syncPromises
      /\ lastId' = lastId /\ history' = history /\ map' = map /\ wrote' = wrote
      /\ waiting' = waiting \cup {call[t]} /\ Sending(t)
  BY DEF DeliverEvent, timerVars, ghostVars, Sending
<1>2. /\ call'[t] = NoCall
      /\ \A u \in Threads : u # t => call'[u] = call[u]
  BY NumbersAre DEF DeliverEvent
<1>3. ~Sending(t)' /\ \A u \in Threads : u # t => (Sending(u)' <=> Sending(u))
  BY <1>2 DEF Sending, NoCall
<1>4. NumberInv'
  BY <1>1 DEF NumberInv, Taken
<1>5. WaitingInv'
  <2>1. \A u \in Threads : Sending(u)' => EventInv(call[u])'
    BY <1>1, <1>2, <1>3 DEF WaitingInv, EventInv
  <2>2. \A e \in waiting' : EventInv(e)'
    BY <1>1 DEF WaitingInv, EventInv
  <2>3. ASSUME NEW q \in begin .. lastId
        PROVE  \/ \E e \in waiting' : e.seq = q
               \/ \E u \in Threads : Sending(u)' /\ call'[u].seq = q
    <3>1. CASE \E e \in waiting : e.seq = q
      BY <1>1, <3>1
    <3>2. ASSUME NEW u \in Threads, Sending(u), call[u].seq = q
          PROVE  \/ \E e \in waiting' : e.seq = q
                 \/ \E w \in Threads : Sending(w)' /\ call'[w].seq = q
      BY <1>1, <1>2, <1>3, <3>2
    <3> QED
      BY <1>1, <3>1, <3>2 DEF WaitingInv
  <2>4. \A e, f \in waiting' : e.seq = f.seq => e = f
    BY <1>1 DEF WaitingInv
  <2>5. ASSUME NEW u \in Threads, NEW e \in waiting', Sending(u)'
        PROVE  call'[u].seq # e.seq
    BY <1>1, <1>2, <1>3, <2>5 DEF WaitingInv
  <2>6. \A u, w \in Threads : Sending(u)' /\ Sending(w)' /\ u # w => call'[u].seq # call'[w].seq
    BY <1>1, <1>2, <1>3 DEF WaitingInv
  <2> QED
    BY <1>1, <2>1, <2>2, <2>3, <2>4, <2>5, <2>6 DEF WaitingInv
<1>6. SyncInv'
  <2>1. ASSUME NEW u \in Threads PROVE ThreadInv(u)'
    <3>1. ThreadInv(u) /\ ThreadInv(t)
      BY <1>1 DEF SyncInv
    <3>2. Sent(wrote[u]) => Sent(wrote[u])'
      BY <1>1 DEF Sent, Taken
    <3>3. CASE u = t
      <4>1. Sent(wrote[t])'
        BY <1>1, <3>1 DEF Sent, ThreadInv
      <4> QED
        BY <1>1, <1>2, <1>3, <3>1, <3>3, <4>1 DEF ThreadInv, NoCall
    <3>4. CASE u # t
      BY <1>1, <1>2, <1>3, <3>1, <3>2, <3>4 DEF ThreadInv
    <3> QED
      BY <3>3, <3>4
  <2> QED
    BY <1>1, <2>1 DEF SyncInv, Taken
<1> QED
  BY <1>4, <1>5, <1>6

(* The newest event that has come early has the greatest number.           *)
LEMMA UnfinishedIs ==
  ASSUME TypeOK, WaitingInv, turn # "off"
  PROVE  /\ Unfinished \in Nat
         /\ waiting = {} => Unfinished = begin - 1
         /\ waiting # {} => Unfinished \in Ids /\ Unfinished >= begin
         /\ \A e \in waiting : e.seq <= Unfinished
<1>1. begin - 1 \in Nat
  BY BinlogAssumption DEF TypeOK
<1>2. CASE waiting = {}
  BY <1>1, <1>2 DEF Unfinished
<1>3. CASE waiting # {}
  <2> DEFINE Seqs == {e.seq : e \in waiting}
             last == CHOOSE e \in waiting : \A f \in waiting : f.seq <= e.seq
  <2>1. \A e \in waiting : e.seq \in Ids /\ e.seq \in Nat /\ begin <= e.seq
    BY EventsAre DEF EventInv
  <2>2. Seqs \in SUBSET (0 .. MaxWrites) /\ Seqs # {} /\ MaxWrites \in Nat
    BY <1>3, <2>1, BinlogAssumption DEF Ids
  <2>3. PICK m \in Seqs : \A o \in Seqs : o <= m
    <3> HIDE DEF Seqs
    <3> QED
      BY <2>2, GreatestNatural
  <2>4. PICK e \in waiting : \A f \in waiting : f.seq <= e.seq
    BY <2>3
  <2>5. last \in waiting /\ \A f \in waiting : f.seq <= last.seq
    BY <2>4
  <2>6. Unfinished = last.seq
    BY <1>3 DEF Unfinished
  <2> HIDE DEF last
  <2> QED
    BY <1>3, <2>1, <2>5, <2>6
<1> QED
  BY <1>2, <1>3

LEMMA DeliverSyncKeepsNumbers ==
  ASSUME TypeOK, NumberInv, WaitingInv, SyncInv, NEW t \in Threads, DeliverSync(t)
  PROVE  NumberInv' /\ WaitingInv' /\ SyncInv'
<1>1. /\ turn # "off" /\ turn' = turn /\ begin' = begin /\ boot' = boot /\ slots' = slots
      /\ lastId' = lastId /\ history' = history /\ map' = map /\ wrote' = wrote
      /\ waiting' = waiting /\ call[t].type = "sync"
      /\ turn \notin {"closing", "unlinkNew", "unlinkMain"}
  BY DEF DeliverSync, fileVars, ghostVars, Sending
<1>2. /\ call'[t] = NoCall
      /\ \A u \in Threads : u # t => call'[u] = call[u]
  BY NumbersAre DEF DeliverSync
<1>3. ~Sending(t) /\ ~Sending(t)' /\ \A u \in Threads : Sending(u)' <=> Sending(u)
  BY <1>1, <1>2 DEF Sending, NoCall
<1>4. NumberInv'
  BY <1>1 DEF NumberInv, Taken
<1>5. WaitingInv'
  <2>1. \A u \in Threads : Sending(u)' => EventInv(call[u])'
    BY <1>1, <1>2, <1>3 DEF WaitingInv, EventInv
  <2>2. \A e \in waiting : EventInv(e)'
    BY <1>1 DEF WaitingInv, EventInv
  <2>3. ASSUME NEW q \in begin .. lastId
        PROVE  \/ \E e \in waiting : e.seq = q
               \/ \E u \in Threads : Sending(u)' /\ call'[u].seq = q
    BY <1>1, <1>2, <1>3 DEF WaitingInv
  <2>4. /\ \A e, f \in waiting : e.seq = f.seq => e = f
        /\ \A u \in Threads, e \in waiting : Sending(u)' => call'[u].seq # e.seq
        /\ \A u, w \in Threads : Sending(u)' /\ Sending(w)' /\ u # w => call'[u].seq # call'[w].seq
    BY <1>1, <1>2, <1>3 DEF WaitingInv
  <2> QED
    BY <1>1, <2>1, <2>2, <2>3, <2>4 DEF WaitingInv
<1>6. wrote[t] = call[t].upto /\ Sent(wrote[t]) /\ wrote[t] \in Nat
  BY <1>1, <1>3, NumbersAre DEF SyncInv, ThreadInv
<1>7. \A u \in Threads : ThreadInv(u)'
  <2>1. ASSUME NEW u \in Threads PROVE ThreadInv(u)'
    <3>1. ThreadInv(u) /\ ThreadInv(t)
      BY <1>1 DEF SyncInv
    <3>2. Sent(wrote[u])' <=> Sent(wrote[u])
      BY <1>1 DEF Sent, Taken
    <3>3. CASE u = t
      BY <1>1, <1>2, <1>3, <3>1, <3>2, <3>3 DEF ThreadInv, NoCall
    <3>4. CASE u # t
      BY <1>1, <1>2, <1>3, <3>1, <3>2, <3>4 DEF ThreadInv
    <3> QED
      BY <3>3, <3>4
  <2> QED
    BY <2>1
<1>8. CASE Unfinished = begin - 1
  <2>1. waiting = {}
    <3>1. begin \in Nat
      BY NumbersAre
    <3> QED
      BY <1>1, <1>8, <3>1, UnfinishedIs
  <2>2. call[t].upto <= Taken
    BY <1>6, <2>1 DEF Sent
  <2>3. immediate' = immediate /\ syncPromises' = syncPromises \cup {call[t].upto}
    BY <1>8 DEF DeliverSync, do_immediate_sync
  <2> QED
    BY <1>1, <1>4, <1>5, <1>7, <2>2, <2>3 DEF SyncInv, Taken
<1>9. CASE Unfinished # begin - 1
  <2>1. call[t].upto <= Unfinished + boot
    <3>1. waiting # {} /\ Unfinished >= begin /\ Unfinished \in Nat
      BY <1>1, <1>9, UnfinishedIs
    <3>2. CASE wrote[t] <= Taken
      BY <1>6, <3>1, <3>2, NumbersAre DEF Taken
    <3>3. ASSUME NEW e \in waiting, e.seq + boot = wrote[t]
          PROVE  call[t].upto <= Unfinished + boot
      <4>1. e.seq \in Nat /\ e.seq <= Unfinished
        BY <1>1, EventsAre, UnfinishedIs
      <4> QED
        BY <1>6, <3>1, <3>3, <4>1, NumbersAre
    <3> QED
      BY <1>6, <3>2, <3>3 DEF Sent
  <2>2. /\ immediate' = immediate \cup {[seq |-> Unfinished, upto |-> call[t].upto]}
        /\ syncPromises' = syncPromises
    BY <1>9 DEF DeliverSync
  <2>3. \A i \in immediate' : i.upto <= i.seq + boot
    BY <1>1, <2>1, <2>2 DEF SyncInv
  <2> QED
    BY <1>1, <1>4, <1>5, <1>7, <2>2, <2>3 DEF SyncInv, Taken
<1> QED
  BY <1>8, <1>9

LEMMA DrainKeepsNumbers ==
  ASSUME TypeOK, NumberInv, WaitingInv, SyncInv, NEW e \in waiting, Drain(e)
  PROVE  NumberInv' /\ WaitingInv' /\ SyncInv'
<1>1. /\ turn # "off" /\ turn' \in {"drain", "fatal", "open"}
      /\ begin' = begin + 1 /\ boot' = boot /\ waiting' = waiting \ {e}
      /\ lastId' = lastId /\ history' = history /\ map' = map /\ wrote' = wrote
      /\ call' = call /\ immediate' = immediate /\ e.seq = begin
      /\ slots' = Added(slots, e.event)
  BY DEF Drain, clientVars, ghostVars, IsNext
<1>2. \A u \in Threads : Sending(u)' <=> Sending(u)
  BY <1>1 DEF Sending
<1>3. Taken' = Taken + 1 /\ Taken' = e.seq + boot
  BY <1>1, NumbersAre DEF Taken
<1>4. \A f \in waiting : f.seq \in Nat /\ (f # e => begin + 1 <= f.seq)
  <2>1. \A f \in waiting : f.seq \in Nat /\ begin <= f.seq
    BY <1>1, EventsAre DEF EventInv
  <2>2. \A f \in waiting : f # e => f.seq # begin
    BY <1>1 DEF WaitingInv
  <2> QED
    BY <2>1, <2>2, NumbersAre
<1>5. \A u \in Threads : Sending(u) => call[u].seq \in Nat /\ begin + 1 <= call[u].seq
  <2>1. \A u \in Threads : Sending(u) => call[u].seq \in Nat /\ begin <= call[u].seq
    BY <1>1, EventsAre DEF EventInv
  <2>2. \A u \in Threads : Sending(u) => call[u].seq # begin
    BY <1>1 DEF WaitingInv
  <2> QED
    BY <2>1, <2>2, NumbersAre
<1>6. NumberInv'
  <2>1. slots \in Seq(SlotsTo(Taken + 1))
    BY <1>1, NumbersAre, SlotsGrow DEF NumberInv
  <2>2. e.event \in EventsTo(Taken + 1)
    <3>1. /\ e.event \in Events /\ e.event.id <= Taken + 1 /\ e.event.id \in 1 .. MaxWrites
          /\ Taken \in Nat
      BY <1>1, <1>3, EventsAre, NumbersAre DEF EventInv, Events, Ids
    <3>2. e.event.id \in 1 .. Taken + 1
      BY <3>1, BinlogAssumption
    <3> QED
      BY <3>1, <3>2 DEF Events, EventsTo
  <2>3. slots' \in Seq(SlotsTo(Taken'))
    <3>1. Taken + 1 \in Nat
      BY NumbersAre
    <3> QED
      BY <1>1, <1>3, <2>1, <2>2, <3>1, AddedIs
  <2>4. e.seq \in Nat /\ e.seq <= lastId
    BY <1>1, EventsAre DEF EventInv
  <2> QED
    BY <1>1, <2>3, <2>4, NumbersAre DEF NumberInv, Taken
<1>7. WaitingInv'
  <2>1. \A u \in Threads : Sending(u)' => EventInv(call[u])'
    BY <1>1, <1>2, <1>5 DEF WaitingInv, EventInv
  <2>2. \A f \in waiting' : EventInv(f)'
    BY <1>1, <1>4 DEF WaitingInv, EventInv
  <2>3. ASSUME NEW q \in begin + 1 .. lastId
        PROVE  \/ \E f \in waiting' : f.seq = q
               \/ \E u \in Threads : Sending(u)' /\ call'[u].seq = q
    <3>1. q \in begin .. lastId /\ q # begin
      BY NumbersAre
    <3> QED
      BY <1>1, <1>2, <3>1 DEF WaitingInv
  <2>4. /\ \A f, g \in waiting' : f.seq = g.seq => f = g
        /\ \A u \in Threads, f \in waiting' : Sending(u)' => call'[u].seq # f.seq
        /\ \A u, w \in Threads : Sending(u)' /\ Sending(w)' /\ u # w => call'[u].seq # call'[w].seq
    BY <1>1, <1>2 DEF WaitingInv
  <2> QED
    BY <1>1, <2>1, <2>2, <2>3, <2>4 DEF WaitingInv
<1>8. SyncInv'
  <2>1. ASSUME NEW u \in Threads PROVE ThreadInv(u)'
    <3>1. ThreadInv(u) /\ wrote[u] \in Nat
      BY <1>1, NumbersAre DEF SyncInv
    <3>2. Sent(wrote[u]) => Sent(wrote[u])'
      BY <1>1, <1>3, <3>1, NumbersAre DEF Sent
    <3> QED
      BY <1>1, <1>2, <3>1, <3>2 DEF ThreadInv
  <2>2. \A p \in syncPromises' : p <= Taken'
    <3>1. \A p \in syncPromises : p \in Nat /\ p <= Taken
      BY <1>1 DEF SyncInv, TypeOK, Places
    <3>2. syncPromises' \subseteq syncPromises \cup {e.seq + boot}
      BY DEF Drain, do_lazy_sync
    <3> QED
      BY <1>3, <3>1, <3>2, NumbersAre
  <2> QED
    BY <1>1, <2>1, <2>2 DEF SyncInv
<1> QED
  BY <1>6, <1>7, <1>8

(* The steps that touch no number.                                         *)
LEMMA QuietKeepsNumbers ==
  ASSUME NumberInv, WaitingInv, SyncInv, turn # "off", turn' # "off",
         UNCHANGED <<clientVars, begin, waiting, slots, history, boot>>,
         immediate' \subseteq immediate, \A p \in syncPromises' : p <= Taken,
         turn' \in {"closing", "unlinkNew", "unlinkMain"} =>
           waiting = {} /\ \A t \in Threads : call[t] = NoCall
  PROVE  NumberInv' /\ WaitingInv' /\ SyncInv'
<1>1. /\ begin' = begin /\ boot' = boot /\ waiting' = waiting /\ slots' = slots
      /\ lastId' = lastId /\ history' = history /\ map' = map /\ wrote' = wrote
      /\ call' = call /\ Taken' = Taken
  BY DEF clientVars, Taken
<1>2. NumberInv'
  BY <1>1 DEF NumberInv
<1>3. WaitingInv'
  BY <1>1 DEF WaitingInv, EventInv, Sending
<1>4. SyncInv'
  BY <1>1 DEF SyncInv, ThreadInv, Sending, Sent
<1> QED
  BY <1>2, <1>3, <1>4

(* What the next process finds: the events of the file that it opens.      *)
LEMMA FoundIs ==
  ASSUME TypeOK, OffInv, MainInv, turn = "off"
  PROVE  /\ Found \in Files /\ Found.exists /\ GoodFile(Found)
         /\ Found = IF Survivor.exists THEN Survivor ELSE [NoFile EXCEPT !.exists = TRUE]
         /\ Found.data = Survivor.data /\ Found.synced = Survivor.synced
         /\ Found.base = Survivor.base /\ Found.snap = Survivor.snap
<1>1. NoFile \in Files
  <2>1. <<>> \in Seq(Events \cup {Torn})
    BY EmptySeq
  <2> QED
    BY <2>1 DEF NoFile, Files
<1>2. main \in Files /\ new \in Files
  BY DEF TypeOK
<1>3. CASE main.exists
  BY <1>2, <1>3 DEF Found, Survivor, MainInv
<1>4. CASE ~main.exists /\ new.exists
  BY <1>2, <1>4 DEF Found, Survivor, MainInv
<1>5. CASE ~main.exists /\ ~new.exists
  <2>1. main = NoFile /\ new = NoFile /\ GoodFile(NoFile)
    BY <1>5 DEF MainInv
  <2>2. Found = [NoFile EXCEPT !.exists = TRUE] /\ Survivor = NoFile
    BY <1>5, <2>1 DEF Found, Survivor
  <2>3. GoodFile(Found)
    BY <2>1, <2>2 DEF GoodFile, NoFile, PlaceOf
  <2>4. Found \in Files
    BY <1>1, <2>2 DEF Files, NoFile
  <2> QED
    BY <2>2, <2>3, <2>4 DEF NoFile
<1> QED
  BY <1>3, <1>4, <1>5

LEMMA FoundEvents ==
  ASSUME TypeOK, OffInv, MainInv, turn = "off"
  PROVE  /\ Readable(Found.data) \in Seq(EventsTo(Len(history)))
         /\ Found.data \in Seq(Events \cup {Torn}) /\ Len(history) \in Nat
         /\ Len(Readable(Found.data)) \in Nat
         /\ Found.synced <= Len(Readable(Found.data))
         /\ Len(history) = WritesIn(Found, Len(Readable(Found.data)))
         /\ \A i \in 1 .. Len(Readable(Found.data)) :
              /\ Readable(Found.data)[i] = Found.data[i]
              /\ Readable(Found.data)[i] # Torn
<1> DEFINE events == Readable(Found.data)
<1>1. /\ Found \in Files /\ Found.data \in Seq(Events \cup {Torn})
      /\ Found.synced \in Nat /\ Found.base \in Nat /\ Found.snap \in Nat
      /\ Len(Found.data) \in Nat /\ Len(history) \in Nat
  <2>1. Found \in Files
    BY FoundIs
  <2>2. Found.data \in Seq(Events \cup {Torn}) /\ Found.synced \in Nat
        /\ Found.base \in Nat /\ Found.snap \in Nat
    BY <2>1 DEF Files
  <2> QED
    BY <2>1, <2>2, LenProperties, NumbersAre
<1>2. GoodFile(Found)
  BY FoundIs
<1>3. /\ events \in Seq(Events \cup {Torn}) /\ Len(events) \in 0 .. Len(Found.data)
      /\ \A i \in 1 .. Len(events) : events[i] = Found.data[i] /\ Found.data[i] # Torn
  BY <1>1, ReadableIs
<1>4. Found.synced <= Len(events)
  <2>1. /\ Found.synced \in 0 .. Len(Found.data)
        /\ \A i \in 1 .. Found.synced : Found.data[i] # Torn
    BY <1>1, <1>2 DEF GoodFile
  <2> HIDE DEF events
  <2> QED
    BY <1>1, <2>1, ReadableIs DEF events
<1>5. Len(history) = WritesIn(Found, Len(events))
  BY FoundIs DEF OffInv, WritesIn
<1> HIDE DEF events
<1>6. Len(history) = Found.base + Len(events) - Found.snap /\ Found.snap <= Len(events)
  BY <1>1, <1>2, <1>3, <1>4, <1>5 DEF WritesIn, GoodFile
<1>7. ASSUME NEW i \in 1 .. Len(events)
      PROVE  events[i] \in EventsTo(Len(history))
  <2>1. i \in 1 .. Len(Found.data) /\ events[i] = Found.data[i] /\ events[i] # Torn
    BY <1>1, <1>3
  <2>2. events[i] \in Events
    BY <1>3, <2>1, ElementOfSeq
  <2>3. events[i].id <= PlaceOf(Found, i) /\ events[i].id \in 1 .. MaxWrites
    BY <1>2, <2>1, <2>2 DEF GoodFile, Events, Ids
  <2>4. events[i].id \in 1 .. Len(history)
    <3>1. PlaceOf(Found, i) <= Len(history) /\ PlaceOf(Found, i) \in Nat
      BY <1>1, <1>3, <1>6 DEF PlaceOf
    <3>2. events[i].id \in Nat /\ events[i].id >= 1
      BY <2>3, BinlogAssumption
    <3> QED
      BY <1>1, <2>3, <3>1, <3>2
  <2> QED
    BY <2>2, <2>4 DEF Events, EventsTo
<1>8. events \in Seq(EventsTo(Len(history)))
  <2>1. events \in [1 .. Len(events) -> EventsTo(Len(history))] /\ Len(events) \in Nat
    BY <1>3, <1>7, LenProperties
  <2> QED
    BY <2>1, SeqDef
<1> QED
  BY <1>1, <1>3, <1>4, <1>5, <1>8 DEF events

(* The state of a process that has just read its file.                     *)
LEMMA InitReads ==
  ASSUME TypeOK, OffInv, MainInv, init
  PROVE  /\ turn' \in {"fatal", "open", "idle"}
         /\ lastId' \in 0 .. Len(history) /\ boot' \in Nat
         /\ begin' = lastId' + 1 /\ lastId' + boot' = Len(history)
         /\ Taken' = Len(history) /\ slots' \in Seq(SlotsTo(Len(history)))
         /\ map' \in [Keys -> [val : Values \cup {NoVal}, id : 0 .. Len(history)]]
         /\ call' = [t \in Threads |-> NoCall] /\ wrote' = [t \in Threads |-> 0]
         /\ waiting' = {} /\ immediate' = {} /\ syncPromises' = {} /\ buffer' = <<>>
         /\ ~needSync' /\ history' = history
<1>1. turn = "off"
  BY DEF init
<1>2. Readable(Found.data) \in Seq(EventsTo(Len(history))) /\ Len(history) \in Nat
  BY <1>1, FoundEvents
<1>3. /\ lastId' = LastAdded(Readable(Found.data)) /\ begin' = lastId' + 1
      /\ boot' = Len(history) - lastId'
      /\ slots' = Replayed(Readable(Found.data)) /\ map' = MapOf(slots')
      /\ turn' \in {"fatal", "open", "idle"} /\ history' = history
      /\ UNCHANGED <<call, wrote, waiting, immediate, syncPromises, buffer, needSync>>
  BY DEF init, timerVars
<1>4. lastId' \in 0 .. Len(history)
  BY <1>2, <1>3, LastAddedIs
<1>5. boot' \in Nat /\ lastId' + boot' = Len(history) /\ Taken' = Len(history)
  BY <1>2, <1>3, <1>4 DEF Taken
<1>6. slots' \in Seq(SlotsTo(Len(history)))
  BY <1>2, <1>3, ReplayedIs
<1>7. map' \in [Keys -> [val : Values \cup {NoVal}, id : 0 .. Len(history)]]
  BY <1>2, <1>3, <1>6, MapOfIs
<1> QED
  BY <1>1, <1>3, <1>4, <1>5, <1>6, <1>7 DEF OffInv

LEMMA InitKeepsNumbers ==
  ASSUME TypeOK, OffInv, MainInv, init
  PROVE  NumberInv' /\ WaitingInv' /\ SyncInv'
<1> DEFINE W == Len(history)
<1>1. /\ turn' \in {"fatal", "open", "idle"} /\ W \in Nat
      /\ lastId' \in 0 .. W /\ boot' \in Nat
      /\ begin' = lastId' + 1 /\ lastId' + boot' = W
      /\ Taken' = W /\ slots' \in Seq(SlotsTo(W))
      /\ map' \in [Keys -> [val : Values \cup {NoVal}, id : 0 .. W]]
      /\ call' = [t \in Threads |-> NoCall] /\ wrote' = [t \in Threads |-> 0]
      /\ waiting' = {} /\ immediate' = {} /\ syncPromises' = {}
      /\ history' = history
  BY InitReads, NumbersAre
<1>2. Len(history)' = W
  BY <1>1
<1> HIDE DEF W
<1>3. \A t \in Threads : ~Sending(t)' /\ call'[t].type = "none" /\ wrote'[t] = 0
  BY <1>1 DEF Sending, NoCall
<1>4. \A k \in Keys : map'[k].id <= W
  BY <1>1
<1>8. begin' - 1 <= lastId' /\ \A q \in begin' .. lastId' : FALSE
  <2>1. \A l \in Nat : \A b : b = l + 1 => b - 1 <= l /\ \A q \in b .. l : FALSE
    OBVIOUS
  <2>2. lastId' \in Nat /\ begin' = lastId' + 1
    BY <1>1
  <2> QED
    BY <2>1, <2>2, Zenon
<1>5. NumberInv'
  <2>1. slots' \in Seq(SlotsTo(Taken))'
    BY <1>1 DEF SlotsTo
  <2>2. lastId' + boot' = Len(history)' /\ begin' - 1 <= lastId'
    BY <1>1, <1>2, <1>8
  <2>3. \A k \in Keys : map'[k].id <= lastId' + boot'
    BY <1>1, <1>4
  <2> QED
    BY <2>1, <2>2, <2>3 DEF NumberInv
<1>6. WaitingInv'
  <2>1. \A q \in begin' .. lastId' : FALSE
    BY <1>8
  <2> QED
    BY <1>1, <1>3, <2>1 DEF WaitingInv
<1>7. SyncInv'
  <2>1. \A t \in Threads : ThreadInv(t)'
    BY <1>1, <1>2, <1>3 DEF ThreadInv, Sent
  <2> QED
    BY <1>1, <2>1 DEF SyncInv
<1> QED
  BY <1>5, <1>6, <1>7

-----------------------------------------------------------------------------
(* The files.                                                              *)
LEMMA FilesAre ==
  ASSUME NEW f \in Files
  PROVE  /\ f.exists \in BOOLEAN /\ f.data \in Seq(Events \cup {Torn})
         /\ f.synced \in Nat /\ f.base \in Nat /\ f.snap \in Nat /\ Len(f.data) \in Nat
<1>1. f.exists \in BOOLEAN /\ f.data \in Seq(Events \cup {Torn})
      /\ f.synced \in Nat /\ f.base \in Nat /\ f.snap \in Nat
  BY DEF Files
<1> QED
  BY <1>1, LenProperties

LEMMA WritesAre ==
  ASSUME NEW f \in Files, GoodFile(f)
  PROVE  /\ \A n \in f.synced .. Len(f.data) :
              WritesIn(f, n) = f.base + n - f.snap /\ WritesIn(f, n) \in Nat
         /\ f.synced \in f.synced .. Len(f.data)
         /\ Len(f.data) \in f.synced .. Len(f.data)
         /\ WritesIn(f, f.synced) <= WritesIn(f, Len(f.data))
<1>1. /\ f.synced \in Nat /\ f.base \in Nat /\ f.snap \in Nat /\ Len(f.data) \in Nat
      /\ f.snap <= f.synced /\ f.synced <= Len(f.data)
  BY FilesAre DEF GoodFile
<1>2. \A n \in f.synced .. Len(f.data) :
        WritesIn(f, n) = f.base + n - f.snap /\ WritesIn(f, n) \in Nat
  BY <1>1 DEF WritesIn
<1>3. f.synced \in f.synced .. Len(f.data) /\ Len(f.data) \in f.synced .. Len(f.data)
  BY <1>1
<1>4. WritesIn(f, f.synced) <= WritesIn(f, Len(f.data))
  <2>1. /\ WritesIn(f, f.synced) = f.base + f.synced - f.snap
        /\ WritesIn(f, Len(f.data)) = f.base + Len(f.data) - f.snap
    BY <1>2, <1>3, Zenon
  <2> QED
    BY <1>1, <2>1
<1> QED
  BY <1>2, <1>3, <1>4

(* A file with something put to its end.                                   *)
Extended(f, b) == [f EXCEPT !.data = @ \o b]

LEMMA GoodAppend ==
  ASSUME NEW f \in Files, GoodFile(f), NEW b \in Seq(Events \cup {Torn}),
         \A i \in 1 .. Len(b) :
           b[i] # Torn => b[i].id <= f.base + Len(f.data) + i - f.snap
  PROVE  /\ Extended(f, b) \in Files /\ GoodFile(Extended(f, b))
         /\ Extended(f, b).exists = f.exists /\ Extended(f, b).synced = f.synced
         /\ Extended(f, b).base = f.base /\ Extended(f, b).snap = f.snap
         /\ Len(Extended(f, b).data) = Len(f.data) + Len(b) /\ Len(b) \in Nat
         /\ \A i \in 1 .. Len(f.data) : Extended(f, b).data[i] = f.data[i]
         /\ \A i \in 1 .. Len(b) : Extended(f, b).data[Len(f.data) + i] = b[i]
<1> DEFINE g == Extended(f, b)
<1>0. g = [f EXCEPT !.data = @ \o b]
  BY DEF Extended
<1> HIDE DEF g
<1>1. /\ f.exists \in BOOLEAN /\ f.data \in Seq(Events \cup {Torn})
      /\ f.synced \in Nat /\ f.base \in Nat /\ f.snap \in Nat /\ Len(f.data) \in Nat
      /\ Len(b) \in Nat
  BY FilesAre, LenProperties
<1>2. /\ f.data \o b \in Seq(Events \cup {Torn})
      /\ Len(f.data \o b) = Len(f.data) + Len(b)
      /\ \A i \in 1 .. Len(f.data) + Len(b) :
           (f.data \o b)[i] = IF i <= Len(f.data) THEN f.data[i] ELSE b[i - Len(f.data)]
  BY <1>1, ConcatProperties
<1>3. /\ g.exists = f.exists /\ g.synced = f.synced /\ g.base = f.base /\ g.snap = f.snap
      /\ g.data = f.data \o b /\ g \in Files
  BY <1>0, <1>1, <1>2 DEF Files
<1>4. \A i \in 1 .. Len(f.data) : g.data[i] = f.data[i]
  BY <1>1, <1>2, <1>3
<1>5. \A i \in 1 .. Len(b) : g.data[Len(f.data) + i] = b[i]
  BY <1>1, <1>2, <1>3
<1>6. f.snap <= f.synced /\ f.synced <= Len(f.data)
  BY DEF GoodFile
<1>7. ASSUME NEW i \in 1 .. Len(g.data)
      PROVE  /\ i <= g.synced => g.data[i] # Torn
             /\ g.data[i] # Torn => g.data[i].id <= PlaceOf(g, i)
  <2>1. CASE i <= Len(f.data)
    <3>1. i \in 1 .. Len(f.data)
      BY <1>1, <2>1
    <3> QED
      BY <1>3, <1>4, <3>1 DEF GoodFile, PlaceOf
  <2>2. CASE ~(i <= Len(f.data))
    <3>1. PICK j \in 1 .. Len(b) : i = Len(f.data) + j
      <4>1. i - Len(f.data) \in 1 .. Len(b) /\ i = Len(f.data) + (i - Len(f.data))
        BY <1>1, <1>2, <1>3, <2>2
      <4> QED
        BY <4>1
    <3>2. g.data[i] = b[j] /\ ~(i <= g.synced) /\ ~(i <= g.snap)
      BY <1>1, <1>3, <1>5, <1>6, <3>1
    <3>3. PlaceOf(g, i) = f.base + Len(f.data) + j - f.snap
      <4>1. PlaceOf(g, i) = g.base + i - g.snap
        BY <3>2 DEF PlaceOf
      <4>2. g.base = f.base /\ g.snap = f.snap
        BY <1>1, <1>3
      <4> QED
        BY <1>1, <3>1, <4>1, <4>2
    <3>4. g.data[i] # Torn => g.data[i].id <= PlaceOf(g, i)
      BY <3>2, <3>3, Zenon
    <3> QED
      BY <3>2, <3>4
  <2> QED
    BY <2>1, <2>2
<1>8. GoodFile(g)
  <2>1. g.snap <= g.synced /\ g.synced <= Len(g.data)
    BY <1>1, <1>2, <1>3, <1>6
  <2> QED
    BY <1>7, <2>1 DEF GoodFile
<1>9. Len(g.data) = Len(f.data) + Len(b)
  BY <1>2, <1>3
<1> QED
  BY <1>1, <1>3, <1>4, <1>5, <1>8, <1>9, Zenon DEF g

LEMMA InitFiles == Init => MainInv /\ FileInv /\ NewInv
<1> SUFFICES ASSUME Init PROVE MainInv /\ FileInv /\ NewInv
  OBVIOUS
<1>1. main = NoFile /\ new = NoFile /\ turn = "off" /\ slots = <<>>
  BY DEF Init
<1>2. GoodFile(NoFile) /\ NoFile.synced = Len(NoFile.data)
  BY DEF GoodFile, NoFile
<1> QED
  BY <1>1, <1>2 DEF MainInv, FileInv, NewInv

(* The main file is there but for the moment between destroying it and     *)
(* renaming the new one.                                                   *)
LEMMA MainThere ==
  ASSUME TypeOK, MainInv, FileInv, NewInv, turn \notin {"off", "rename"}
  PROVE  /\ main \in Files /\ main.exists /\ GoodFile(main)
         /\ WritesIn(main, Len(main.data)) = main.base + Len(main.data) - main.snap
         /\ WritesIn(main, Len(main.data)) \in Nat
         /\ main.snap <= Len(main.data)
         /\ buffer \in Seq(Events) /\ Len(buffer) \in Nat
<1>1. main \in Files /\ main.exists /\ GoodFile(main) /\ buffer \in Seq(Events)
  BY DEF TypeOK, MainInv
<1>2. main.snap <= Len(main.data)
  BY <1>1, FilesAre DEF GoodFile
<1> QED
  BY <1>1, <1>2, WritesAre, LenProperties

(* The buffer goes to the end of the file, before what else there is.      *)
LEMMA BufferFits ==
  ASSUME TypeOK, MainInv, FileInv, NewInv,
         turn \notin {"off", "write", "barrier", "unlink", "rename"}
  PROVE  /\ \A i \in 1 .. Len(buffer) : buffer[i] # Torn /\ buffer[i] \in Events
         /\ \A i \in 1 .. Len(buffer) :
              buffer[i].id <= main.base + Len(main.data) + i - main.snap
         /\ Taken = main.base + Len(main.data) + Len(buffer) - main.snap
         /\ buffer \in Seq(Events \cup {Torn})
<1>1. /\ main \in Files /\ main.exists /\ GoodFile(main)
      /\ WritesIn(main, Len(main.data)) = main.base + Len(main.data) - main.snap
      /\ buffer \in Seq(Events) /\ Len(buffer) \in Nat
  BY MainThere
<1>2. \A i \in 1 .. Len(buffer) : buffer[i] \in Events /\ buffer[i] # Torn
  BY <1>1, ElementOfSeq, TornAssumption
<1>3. Taken = main.base + Len(main.data) + Len(buffer) - main.snap
  BY <1>1, FilesAre DEF FileInv
<1>4. \A i \in 1 .. Len(buffer) : buffer[i].id + Len(buffer) <= Taken + i /\ buffer[i].id \in Nat
  BY <1>2 DEF FileInv, Events, Ids
<1>5. \A i \in 1 .. Len(buffer) : buffer[i].id <= main.base + Len(main.data) + i - main.snap
  <2>1. main.base \in Nat /\ main.snap \in Nat /\ Len(main.data) \in Nat
    BY <1>1, FilesAre
  <2>2. ASSUME NEW i \in 1 .. Len(buffer)
        PROVE  buffer[i].id <= main.base + Len(main.data) + i - main.snap
    <3>1. \A id, l, b, d, s \in Nat :
            id + l <= (b + d + l - s) + i => id <= b + d + i - s
      OBVIOUS
    <3>2. buffer[i].id + Len(buffer) <= Taken + i /\ buffer[i].id \in Nat
      BY <1>4
    <3> QED
      BY <1>1, <1>3, <2>1, <3>1, <3>2
  <2> QED
    BY <2>2
<1>6. buffer \in [1 .. Len(buffer) -> Events \cup {Torn}]
  BY <1>1, <1>2, LenProperties
<1> QED
  BY <1>1, <1>2, <1>3, <1>5, <1>6, SeqDef

(* The main file with events put to its end, in their places.              *)
LEMMA ExtendIs ==
  ASSUME TypeOK, MainInv, FileInv, NewInv, turn \notin {"off", "rename"},
         NEW b \in Seq(Events),
         \A i \in 1 .. Len(b) : b[i].id <= main.base + Len(main.data) + i - main.snap
  PROVE  /\ Extended(main, b) \in Files /\ GoodFile(Extended(main, b))
         /\ Extended(main, b).exists
         /\ Extended(main, b).synced = main.synced
         /\ Extended(main, b).base = main.base /\ Extended(main, b).snap = main.snap
         /\ Len(Extended(main, b).data) = Len(main.data) + Len(b)
         /\ \A i \in 1 .. Len(Extended(main, b).data) : Extended(main, b).data[i] # Torn
         /\ WritesIn(Extended(main, b), Len(Extended(main, b).data))
              = WritesIn(main, Len(main.data)) + Len(b)
<1> DEFINE g == Extended(main, b)
<1>1. /\ main \in Files /\ main.exists /\ GoodFile(main) /\ Len(b) \in Nat
      /\ WritesIn(main, Len(main.data)) = main.base + Len(main.data) - main.snap
  BY MainThere, LenProperties
<1>2. \A i \in 1 .. Len(b) : b[i] \in Events /\ b[i] # Torn
  BY ElementOfSeq, TornAssumption
<1>3. b \in Seq(Events \cup {Torn})
  <2>1. b \in [1 .. Len(b) -> Events \cup {Torn}]
    BY <1>2, LenProperties
  <2> QED
    BY <1>1, <2>1, SeqDef
<1>4. /\ g \in Files /\ GoodFile(g)
      /\ g.exists = main.exists /\ g.synced = main.synced
      /\ g.base = main.base /\ g.snap = main.snap
      /\ Len(g.data) = Len(main.data) + Len(b)
      /\ \A i \in 1 .. Len(main.data) : g.data[i] = main.data[i]
      /\ \A i \in 1 .. Len(b) : g.data[Len(main.data) + i] = b[i]
  <2>1. \A i \in 1 .. Len(b) :
          b[i] # Torn => b[i].id <= main.base + Len(main.data) + i - main.snap
    OBVIOUS
  <2> QED
    BY <1>1, <1>3, <2>1, GoodAppend
<1> HIDE DEF g
<1>5. Len(main.data) \in Nat /\ main.base \in Nat /\ main.snap \in Nat
  BY <1>1, FilesAre
<1>6. ASSUME NEW i \in 1 .. Len(g.data)
      PROVE  g.data[i] # Torn
  <2>1. CASE i <= Len(main.data)
    <3>1. i \in 1 .. Len(main.data)
      BY <1>1, <1>4, <1>5, <2>1
    <3>2. main.data[i] # Torn
      BY <3>1 DEF FileInv
    <3> QED
      BY <1>4, <3>1, <3>2
  <2>2. CASE ~(i <= Len(main.data))
    <3>1. PICK j \in 1 .. Len(b) : i = Len(main.data) + j
      <4>1. i - Len(main.data) \in 1 .. Len(b) /\ i = Len(main.data) + (i - Len(main.data))
        BY <1>1, <1>4, <1>5, <2>2
      <4> QED
        BY <4>1
    <3> QED
      BY <1>2, <1>4, <3>1
  <2> QED
    BY <2>1, <2>2
<1>7. WritesIn(g, Len(g.data)) = WritesIn(main, Len(main.data)) + Len(b)
  <2>1. WritesIn(g, Len(g.data)) = g.base + Len(g.data) - g.snap
    BY <1>4, WritesAre
  <2> QED
    BY <1>1, <1>4, <1>5, <2>1
<1> QED
  BY <1>1, <1>4, <1>6, <1>7, Zenon DEF g

LEMMA FlushIs ==
  ASSUME TypeOK, MainInv, FileInv, NewInv, Flush,
         turn \notin {"off", "write", "barrier", "unlink", "rename"}
  PROVE  /\ main' \in Files /\ GoodFile(main)' /\ main'.exists /\ main'.synced = main.synced
         /\ main'.base = main.base /\ main'.snap = main.snap
         /\ \A i \in 1 .. Len(main'.data) : main'.data[i] # Torn
         /\ WritesIn(main, Len(main.data))' = Taken
         /\ buffer' = <<>> /\ Len(buffer') = 0
         /\ buffer = <<>> => main' = main
<1>1. main \in Files /\ buffer \in Seq(Events)
  BY MainThere
<1>2. \A i \in 1 .. Len(buffer) :
        buffer[i].id <= main.base + Len(main.data) + i - main.snap
  BY BufferFits
<1>3. main' = Extended(main, buffer) /\ buffer' = <<>>
  BY DEF Flush, Flushed, Extended
<1>4. /\ main' \in Files /\ GoodFile(main') /\ main'.exists
      /\ main'.synced = main.synced /\ main'.base = main.base /\ main'.snap = main.snap
      /\ \A i \in 1 .. Len(main'.data) : main'.data[i] # Torn
      /\ WritesIn(main', Len(main'.data)) = WritesIn(main, Len(main.data)) + Len(buffer)
  <2> HIDE DEF Extended
  <2>1. /\ Extended(main, buffer) \in Files /\ GoodFile(Extended(main, buffer))
        /\ Extended(main, buffer).exists
        /\ Extended(main, buffer).synced = main.synced
        /\ Extended(main, buffer).base = main.base /\ Extended(main, buffer).snap = main.snap
        /\ \A i \in 1 .. Len(Extended(main, buffer).data) :
             Extended(main, buffer).data[i] # Torn
        /\ WritesIn(Extended(main, buffer), Len(Extended(main, buffer).data))
              = WritesIn(main, Len(main.data)) + Len(buffer)
    BY <1>1, <1>2, ExtendIs
  <2> QED
    BY <1>3, <2>1, Zenon
<1>5. GoodFile(main)' /\ WritesIn(main, Len(main.data))' = Taken
  BY <1>4 DEF GoodFile, PlaceOf, FileInv, WritesIn
<1>6. ASSUME buffer = <<>> PROVE main' = main
  <2>1. main.data \o <<>> = main.data
    <3>1. main.data \in Seq(Events \cup {Torn})
      BY <1>1, FilesAre
    <3> QED
      BY <3>1, ConcatEmptySeq
  <2> QED
    BY <1>1, <1>3, <1>6, <2>1 DEF Files, Extended
<1>7. Len(buffer') = 0
  BY <1>3, EmptySeq
<1> QED
  BY <1>3, <1>4, <1>5, <1>6, <1>7

(* The steps of the actor that flush the buffer or leave it.               *)
FlushStep ==
  /\ turn \in {"idle", "drain"}
  /\ Flush \/ UNCHANGED <<main, buffer, needSync>>
  /\ turn' \in {"idle", "drain", "sync", "closing", "unlinkNew"}
  /\ turn' \in {"sync", "closing", "unlinkNew"} => buffer' = <<>>
  /\ UNCHANGED <<new, begin, boot, slots>>

LEMMA FlushKeepsFiles ==
  ASSUME TypeOK, MainInv, FileInv, NewInv, FlushStep
  PROVE  MainInv' /\ FileInv' /\ NewInv'
<1>1. /\ turn \notin {"off", "write", "barrier", "unlink", "rename"}
      /\ new' = new /\ begin' = begin /\ boot' = boot /\ slots' = slots
      /\ turn' \notin {"off", "write", "barrier", "unlink", "rename", "open", "unlinkMain"}
      /\ turn' \in {"sync", "closing", "unlinkNew"} => buffer' = <<>>
      /\ Flush \/ UNCHANGED <<main, buffer, needSync>>
      /\ Taken' = Taken
  BY DEF FlushStep, Taken
<1>2. NewInv'
  BY <1>1 DEF NewInv
<1>3. CASE Flush
  <2>1. /\ GoodFile(main)' /\ main'.exists
        /\ \A i \in 1 .. Len(main'.data) : main'.data[i] # Torn
        /\ WritesIn(main, Len(main.data))' = Taken
        /\ buffer' = <<>> /\ Len(buffer') = 0 /\ Taken \in Nat
    BY <1>1, <1>3, FlushIs, NumbersAre
  <2>2. MainInv'
    BY <1>1, <2>1 DEF MainInv
  <2>3. FileInv'
    BY <1>1, <2>1 DEF FileInv
  <2> QED
    BY <1>2, <2>2, <2>3
<1>4. CASE main' = main /\ buffer' = buffer
  <2>1. MainInv'
    <3>1. main.exists /\ GoodFile(main)
      BY <1>1 DEF MainInv
    <3>2. GoodFile(main)'
      BY <1>4, <3>1 DEF GoodFile, PlaceOf
    <3> QED
      BY <1>1, <1>4, <3>1, <3>2 DEF MainInv
  <2>2. FileInv'
    BY <1>1, <1>4 DEF FileInv, WritesIn
  <2> QED
    BY <1>2, <2>1, <2>2
<1> QED
  BY <1>1, <1>3, <1>4

(* The steps that leave the files, and what the slots hold, alone.         *)
LEMMA SameKeepsFiles ==
  ASSUME MainInv, FileInv, NewInv,
         UNCHANGED <<main, new, buffer, begin, boot, slots, turn>>
  PROVE  MainInv' /\ FileInv' /\ NewInv'
<1>1. MainInv'
  BY DEF MainInv, GoodFile, PlaceOf
<1>2. FileInv'
  BY DEF FileInv, WritesIn, Taken
<1>3. NewInv'
  BY DEF NewInv, Replaces, NewFile, Taken
<1> QED
  BY <1>1, <1>2, <1>3

(* The buffer with the event that is taken.                                *)
LEMMA TakenFits ==
  ASSUME TypeOK, NumberInv, WaitingInv, MainInv, FileInv, NewInv,
         NEW e \in waiting, Drain(e)
  PROVE  /\ Append(buffer, e.event) \in Seq(Events)
         /\ Len(Append(buffer, e.event)) = Len(buffer) + 1
         /\ \A i \in 1 .. Len(Append(buffer, e.event)) :
              /\ Append(buffer, e.event)[i].id + (Len(buffer) + 1) <= (Taken + 1) + i
              /\ Append(buffer, e.event)[i].id
                   <= main.base + Len(main.data) + i - main.snap
         /\ Taken' = Taken + 1
         /\ Taken = main.base + Len(main.data) + Len(buffer) - main.snap
<1> DEFINE b == Append(buffer, e.event)
<1>1. /\ turn = "drain" /\ begin' = begin + 1 /\ boot' = boot /\ e.seq = begin
  BY DEF Drain, clientVars, ghostVars, IsNext
<1>2. /\ Taken' = Taken + 1 /\ Taken + 1 = e.seq + boot /\ Taken \in Nat
  BY <1>1, NumbersAre DEF Taken
<1>3. e.event \in Events /\ e.event.id <= Taken + 1 /\ e.event.id \in Nat
  BY <1>1, <1>2, EventsAre DEF EventInv
<1>4. /\ main \in Files /\ buffer \in Seq(Events) /\ Len(buffer) \in Nat
  BY <1>1, MainThere
<1>5. /\ \A i \in 1 .. Len(buffer) : buffer[i] \in Events
      /\ \A i \in 1 .. Len(buffer) :
              buffer[i].id <= main.base + Len(main.data) + i - main.snap
      /\ Taken = main.base + Len(main.data) + Len(buffer) - main.snap
  BY <1>1, BufferFits
<1>6. /\ b \in Seq(Events) /\ Len(b) = Len(buffer) + 1 /\ b[Len(buffer) + 1] = e.event
      /\ \A i \in 1 .. Len(buffer) : b[i] = buffer[i]
  BY <1>3, <1>4, AppendProperties
<1> HIDE DEF b
<1>7. main.base \in Nat /\ main.snap \in Nat /\ Len(main.data) \in Nat
  BY <1>4, FilesAre
<1>8. ASSUME NEW i \in 1 .. Len(b)
      PROVE  /\ b[i].id + (Len(buffer) + 1) <= (Taken + 1) + i
             /\ b[i].id <= main.base + Len(main.data) + i - main.snap
  <2>1. CASE i = Len(buffer) + 1
    <3>1. b[i].id <= Taken + 1 /\ b[i].id \in Nat
      BY <1>3, <1>6, <2>1
    <3>2. b[i].id + (Len(buffer) + 1) <= (Taken + 1) + i
      BY <1>2, <1>4, <2>1, <3>1
    <3>3. PICK f \in Nat : f = main.base + Len(main.data)
      BY <1>7
    <3>4. Taken = f + Len(buffer) - main.snap
      BY <1>5, <3>3
    <3>5. Taken + 1 = f + i - main.snap
      BY <1>2, <1>4, <1>7, <2>1, <3>4
    <3> QED
      BY <3>1, <3>2, <3>3, <3>5
  <2>2. CASE i # Len(buffer) + 1
    <3>1. i \in 1 .. Len(buffer) /\ b[i] = buffer[i]
      BY <1>4, <1>6, <2>2
    <3>2. buffer[i].id + Len(buffer) <= Taken + i /\ buffer[i].id \in Nat
      BY <1>1, <1>5, <3>1 DEF FileInv, Events, Ids
    <3>3. b[i].id + (Len(buffer) + 1) <= (Taken + 1) + i
      BY <1>2, <1>4, <3>1, <3>2
    <3> QED
      BY <1>5, <3>1, <3>3, Zenon
  <2> QED
    BY <2>1, <2>2
<1> QED
  BY <1>2, <1>5, <1>6, <1>8, Zenon DEF b

LEMMA DrainKeepsFiles ==
  ASSUME TypeOK, NumberInv, WaitingInv, MainInv, FileInv, NewInv,
         NEW e \in waiting, Drain(e)
  PROVE  MainInv' /\ FileInv' /\ NewInv'
<1> DEFINE b == Append(buffer, e.event)
<1>1. /\ turn = "drain" /\ turn' \in {"drain", "fatal", "open"} /\ new' = new
      /\ turn' = "open" => Len(main.data) + Len(buffer) + 1 > ReindexAbove
  BY DEF Drain, need_reindex
<1>2. /\ b \in Seq(Events) /\ Len(b) = Len(buffer) + 1
      /\ \A i \in 1 .. Len(b) :
              /\ b[i].id + (Len(buffer) + 1) <= (Taken + 1) + i
              /\ b[i].id <= main.base + Len(main.data) + i - main.snap
      /\ Taken' = Taken + 1
      /\ Taken = main.base + Len(main.data) + Len(buffer) - main.snap
  BY TakenFits, Zenon
<1>3. \/ Len(buffer) + 1 > FlushAbove /\ main' = Extended(main, b) /\ buffer' = <<>>
      \/ ~(Len(buffer) + 1 > FlushAbove) /\ main' = main /\ buffer' = b
  BY DEF Drain, Extended
<1> HIDE DEF b
<1>4. /\ main \in Files /\ main.exists /\ GoodFile(main)
      /\ WritesIn(main, Len(main.data)) = main.base + Len(main.data) - main.snap
      /\ Len(buffer) \in Nat /\ Len(main.data) \in Nat
      /\ main.base \in Nat /\ main.snap \in Nat /\ Taken \in Nat
  BY <1>1, MainThere, FilesAre, NumbersAre
<1>7. WritesIn(main, Len(main.data)) + Len(b) = Taken + 1 /\ Len(main.data) + Len(b) # 0
  <2>1. PICK d \in Nat, l \in Nat, f \in Nat, s \in Nat :
          d = Len(main.data) /\ l = Len(buffer) /\ f = main.base /\ s = main.snap
    BY <1>4
  <2>2. Len(b) = l + 1
    BY <1>2, <2>1, Zenon
  <2>3. Taken = f + d + l - s
    BY <1>2, <2>1, Zenon
  <2>4. WritesIn(main, Len(main.data)) = f + d - s
    BY <1>4, <2>1, Zenon
  <2>5. (f + d - s) + (l + 1) = (f + d + l - s) + 1 /\ d + (l + 1) # 0
    OBVIOUS
  <2> QED
    BY <2>1, <2>2, <2>3, <2>4, <2>5, Zenon
<1>5. CASE Len(buffer) + 1 > FlushAbove /\ main' = Extended(main, b) /\ buffer' = <<>>
  <2>1. /\ Extended(main, b) \in Files /\ GoodFile(Extended(main, b))
        /\ Extended(main, b).exists
        /\ Len(Extended(main, b).data) = Len(main.data) + Len(b)
        /\ \A i \in 1 .. Len(Extended(main, b).data) : Extended(main, b).data[i] # Torn
        /\ WritesIn(Extended(main, b), Len(Extended(main, b).data))
             = WritesIn(main, Len(main.data)) + Len(b)
    BY <1>1, <1>2, ExtendIs
  <2>2. /\ main' \in Files /\ GoodFile(main') /\ main'.exists
        /\ Len(main'.data) = Len(main.data) + Len(b)
        /\ \A i \in 1 .. Len(main'.data) : main'.data[i] # Torn
        /\ WritesIn(main', Len(main'.data)) = WritesIn(main, Len(main.data)) + Len(b)
    BY <1>5, <2>1, Zenon
  <2>3. GoodFile(main)'
    BY <2>2 DEF GoodFile, PlaceOf
  <2>4. WritesIn(main, Len(main.data))' = Taken'
    <3>1. WritesIn(main, Len(main.data))' = WritesIn(main', Len(main'.data))
      BY DEF WritesIn
    <3> QED
      BY <1>2, <1>7, <2>2, <3>1, Zenon
  <2>5. Len(buffer') = 0 /\ buffer' = <<>> /\ Taken' \in Nat
    BY <1>2, <1>4, <1>5, EmptySeq
  <2>6. main'.data # <<>>
    <3>1. Len(main'.data) # 0
      BY <1>7, <2>2, Zenon
    <3> QED
      BY <3>1, EmptySeq
  <2>7. MainInv'
    BY <1>1, <2>2, <2>3 DEF MainInv
  <2>8. FileInv'
    BY <1>1, <2>2, <2>4, <2>5 DEF FileInv
  <2>9. NewInv'
    BY <1>1, <2>6 DEF NewInv
  <2> QED
    BY <2>7, <2>8, <2>9
<1>6. CASE ~(Len(buffer) + 1 > FlushAbove) /\ main' = main /\ buffer' = b
  <2>1. turn' = "open" => main'.data # <<>>
    <3>1. ASSUME turn' = "open", main.data = <<>> PROVE FALSE
      <4>1. Len(main.data) = 0
        BY <3>1, EmptySeq
      <4> QED
        BY <1>1, <1>4, <1>6, <3>1, <4>1, BinlogAssumption
    <3> QED
      BY <1>6, <3>1
  <2>2. MainInv'
    <3>1. GoodFile(main)'
      BY <1>4, <1>6 DEF GoodFile, PlaceOf
    <3> QED
      BY <1>1, <1>4, <1>6, <3>1 DEF MainInv
  <2>3. \A i \in 1 .. Len(buffer') : buffer'[i].id + Len(buffer') <= Taken' + i
    BY <1>2, <1>6
  <2>4. WritesIn(main, Len(main.data))' + Len(buffer') = Taken'
    <3>1. WritesIn(main, Len(main.data))' = WritesIn(main, Len(main.data))
      BY <1>6 DEF WritesIn
    <3> QED
      BY <1>2, <1>6, <1>7, <3>1, Zenon
  <2>5. WritesIn(main, Len(main.data))' + Len(buffer') <= Taken'
    BY <1>2, <1>4, <2>4
  <2>6. FileInv'
    <3>1. \A i \in 1 .. Len(main.data)' : main'.data[i] # Torn
      BY <1>1, <1>6 DEF FileInv
    <3> QED
      BY <1>1, <2>3, <2>4, <2>5, <3>1 DEF FileInv
  <2>7. NewInv'
    BY <1>1, <2>1 DEF NewInv
  <2> QED
    BY <2>2, <2>6, <2>7
<1> QED
  BY <1>3, <1>5, <1>6

LEMMA EmptyBuffer ==
  ASSUME TypeOK
  PROVE  (buffer = <<>>) <=> (Len(buffer) = 0)
<1>1. buffer \in Seq(Events)
  BY DEF TypeOK
<1> QED
  BY <1>1, EmptySeq

LEMMA NewFileRecord ==
  NewFile = [exists |-> TRUE, data |-> <<>>, synced |-> 0, base |-> Taken, snap |-> 0]
<1>1. NewFile = [NoFile EXCEPT !.exists = TRUE, !.base = Taken]
  BY DEF NewFile, Taken
<1> QED
  BY <1>1 DEF NoFile

LEMMA NewFileIs ==
  ASSUME TypeOK
  PROVE  /\ NewFile \in Files /\ NewFile.exists /\ NewFile.data = <<>>
         /\ Len(NewFile.data) = 0
         /\ NewFile.synced = 0 /\ NewFile.snap = 0 /\ NewFile.base = Taken
<1>1. NewFile = [exists |-> TRUE, data |-> <<>>, synced |-> 0, base |-> Taken, snap |-> 0]
  BY NewFileRecord
<1>2. <<>> \in Seq(Events \cup {Torn}) /\ Len(<<>>) = 0
  BY EmptySeq
<1> QED
  BY <1>1, <1>2, NumbersAre DEF Files

LEMMA OpenNewKeepsFiles ==
  ASSUME TypeOK, MainInv, FileInv, NewInv, OpenNew
  PROVE  MainInv' /\ FileInv' /\ NewInv'
<1>1. /\ turn = "open" /\ turn' = "write" /\ begin' = begin /\ boot' = boot /\ slots' = slots
      /\ new' = NewFile /\ buffer' = <<>> /\ main' = main
  BY DEF OpenNew, ReindexStep, actorVars, ghostVars
<1>2. Taken' = Taken /\ Taken \in Nat /\ NewFile' = NewFile
  BY <1>1, NumbersAre DEF Taken, NewFile
<1>3. main.exists /\ GoodFile(main) /\ GoodFile(main)'
  BY <1>1 DEF MainInv, GoodFile, PlaceOf
<1>4. NewFile.exists
  BY NewFileIs
<1>5. MainInv'
  BY <1>1, <1>3, <1>4 DEF MainInv
<1>6. FileInv'
  <2>1. WritesIn(main, Len(main.data)) <= Taken /\ WritesIn(main, Len(main.data)) \in Nat
    BY <1>1, <1>2, MainThere DEF FileInv
  <2>2. WritesIn(main, Len(main.data))' = WritesIn(main, Len(main.data)) /\ Len(buffer') = 0
    BY <1>1, EmptySeq DEF WritesIn
  <2>3. WritesIn(main, Len(main.data))' + Len(buffer') <= Taken'
    <3>1. \A w \in Nat : w + 0 = w
      OBVIOUS
    <3> QED
      BY <1>2, <2>1, <2>2, <3>1, Zenon
  <2>4. \A i \in 1 .. Len(main.data) : main.data[i] # Torn
    BY <1>1 DEF FileInv
  <2> QED
    BY <1>1, <2>2, <2>3, <2>4 DEF FileInv
<1>7. NewInv'
  BY <1>1, <1>2 DEF NewInv
<1> QED
  BY <1>5, <1>6, <1>7

LEMMA OpenFailsKeepsFiles ==
  ASSUME TypeOK, MainInv, FileInv, NewInv, OpenFails
  PROVE  MainInv' /\ FileInv' /\ NewInv'
<1>1. /\ turn = "open" /\ turn' = "drain" /\ begin' = begin /\ boot' = boot /\ slots' = slots
      /\ new' = new /\ buffer' = buffer /\ main' = main
  BY DEF OpenFails, ReindexStep, actorVars, ghostVars, fileVars
<1>2. MainInv'
  BY <1>1 DEF MainInv, GoodFile, PlaceOf
<1>3. FileInv'
  BY <1>1 DEF FileInv, WritesIn, Taken
<1>4. NewInv'
  BY <1>1 DEF NewInv
<1> QED
  BY <1>2, <1>3, <1>4

(* The slots hold events of the store.                                     *)
LEMMA TakenIsSmall ==
  ASSUME TypeOK, NumberInv, turn # "off"
  PROVE  Taken \in 0 .. MaxWrites /\ Taken <= Len(history) /\ EventsTo(Taken) \subseteq Events
<1>1. /\ begin - 1 <= lastId /\ lastId + boot = Len(history)
      /\ Len(history) <= MaxWrites
  BY DEF NumberInv, TypeOK
<1>2. Taken \in Nat /\ Taken <= Len(history)
  BY <1>1, NumbersAre DEF Taken
<1>3. Taken \in 0 .. MaxWrites
  BY <1>1, <1>2, NumbersAre, BinlogAssumption
<1> QED
  BY <1>2, <1>3, BinlogAssumption DEF EventsTo, Events, Ids

LEMMA WriteNewKeepsFiles ==
  ASSUME TypeOK, NumberInv, MainInv, FileInv, NewInv, WriteNew
  PROVE  /\ MainInv' /\ FileInv' /\ NewInv'
         /\ new'.data \in Seq(Events) /\ new' \in Files
<1>1. /\ turn = "write" /\ turn' = "barrier" /\ begin' = begin /\ boot' = boot /\ slots' = slots
      /\ buffer' = buffer /\ main' = main
      /\ new' = [new EXCEPT !.data = @ \o Snapshot, !.snap = Len(Snapshot)]
  BY DEF WriteNew, ReindexStep, actorVars, ghostVars
<1>2. new = NewFile
  BY <1>1 DEF NewInv
<1>3. /\ Taken \in Nat /\ EventsTo(Taken) \subseteq Events
      /\ Taken' = Taken /\ slots \in Seq(SlotsTo(Taken))
  BY <1>1, TakenIsSmall DEF NumberInv, Taken
<1>4. /\ Snapshot \in Seq(EventsTo(Taken)) /\ Len(Snapshot) \in Nat
      /\ slots = <<>> => Snapshot = <<>>
  BY <1>3, SnapshotIs, LenProperties
<1>5. \A i \in 1 .. Len(Snapshot) :
        Snapshot[i] \in Events /\ Snapshot[i] # Torn /\ Snapshot[i].id <= Taken
  <2>1. \A i \in 1 .. Len(Snapshot) : Snapshot[i] \in EventsTo(Taken)
    BY <1>4, ElementOfSeq
  <2> QED
    BY <1>3, <2>1, TornAssumption DEF EventsTo
<1>6. Snapshot \in Seq(Events) /\ Snapshot \in Seq(Events \cup {Torn})
  <2>1. Snapshot \in [1 .. Len(Snapshot) -> Events]
        /\ Snapshot \in [1 .. Len(Snapshot) -> Events \cup {Torn}]
    BY <1>4, <1>5, LenProperties
  <2> QED
    BY <1>4, <2>1, SeqDef
<1>7. /\ new'.exists /\ new'.data = Snapshot /\ new'.synced = 0 /\ new'.base = Taken
      /\ new'.snap = Len(Snapshot) /\ new' \in Files
  <2>1. NewFile = [exists |-> TRUE, data |-> <<>>, synced |-> 0, base |-> Taken, snap |-> 0]
    BY NewFileRecord
  <2>2. <<>> \o Snapshot = Snapshot
    BY <1>6, ConcatEmptySeq
  <2>3. new' = [exists |-> TRUE, data |-> Snapshot, synced |-> 0, base |-> Taken,
                snap |-> Len(Snapshot)]
    BY <1>1, <1>2, <2>1, <2>2
  <2> QED
    BY <1>3, <1>4, <1>6, <2>3 DEF Files
<1> HIDE DEF Snapshot
<1>8. Replaces(new)'
  <2>1. Len(new'.data) = Len(Snapshot)
    BY <1>7
  <2>2. \A i \in 1 .. Len(new'.data) : new'.data[i] # Torn /\ new'.data[i].id <= new'.base
    BY <1>5, <1>7
  <2> QED
    BY <1>3, <1>7, <2>1, <2>2 DEF Replaces
<1>9. MainInv'
  BY <1>1, <1>7 DEF MainInv, GoodFile, PlaceOf
<1>10. FileInv'
  BY <1>1, <1>3 DEF FileInv, WritesIn
<1>11. NewInv'
  BY <1>1, <1>4, <1>7, <1>8 DEF NewInv
<1> QED
  BY <1>6, <1>7, <1>9, <1>10, <1>11

LEMMA SyncedIs ==
  ASSUME NEW f \in Files, f.snap <= Len(f.data),
         \A i \in 1 .. Len(f.data) : f.data[i] # Torn /\ f.data[i].id <= PlaceOf(f, i)
  PROVE  /\ Synced(f) \in Files /\ GoodFile(Synced(f))
         /\ Synced(f).exists = f.exists /\ Synced(f).data = f.data
         /\ Synced(f).base = f.base /\ Synced(f).snap = f.snap
         /\ Synced(f).synced = Len(f.data)
<1>1. Len(f.data) \in Nat
  BY FilesAre
<1>2. /\ Synced(f) \in Files
      /\ Synced(f).exists = f.exists /\ Synced(f).data = f.data
      /\ Synced(f).base = f.base /\ Synced(f).snap = f.snap
      /\ Synced(f).synced = Len(f.data)
  BY <1>1 DEF Synced, Files
<1> HIDE DEF Synced
<1>3. GoodFile(Synced(f))
  BY <1>1, <1>2 DEF GoodFile, PlaceOf
<1> QED
  BY <1>2, <1>3

LEMMA ReplacesIs ==
  ASSUME NEW f \in Files, Replaces(f)
  PROVE  /\ f.snap <= Len(f.data)
         /\ \A i \in 1 .. Len(f.data) : f.data[i] # Torn /\ f.data[i].id <= PlaceOf(f, i)
         /\ WritesIn(f, Len(f.data)) = Taken
         /\ f.synced = Len(f.data) => GoodFile(f)
<1>1. Len(f.data) \in Nat /\ f.snap = Len(f.data) /\ f.base = Taken /\ f.base \in Nat
  BY FilesAre DEF Replaces
<1>2. \A i \in 1 .. Len(f.data) : f.data[i] # Torn /\ f.data[i].id <= PlaceOf(f, i)
  BY <1>1 DEF Replaces, PlaceOf
<1>3. WritesIn(f, Len(f.data)) = Taken
  <2>1. PICK d \in Nat, b \in Nat : d = Len(f.data) /\ b = f.base
    BY <1>1
  <2>2. WritesIn(f, Len(f.data)) = IF d < d THEN 0 ELSE b + d - d
    BY <1>1, <2>1, Zenon DEF WritesIn
  <2>3. WritesIn(f, Len(f.data)) = b
    <3>1. (IF d < d THEN 0 ELSE b + d - d) = b
      OBVIOUS
    <3> QED
      BY <2>2, <3>1
  <2> QED
    BY <1>1, <2>1, <2>3
<1>4. f.snap <= Len(f.data)
  BY <1>1
<1>5. ASSUME f.synced = Len(f.data) PROVE GoodFile(f)
  BY <1>1, <1>2, <1>4, <1>5 DEF GoodFile
<1> QED
  BY <1>2, <1>3, <1>4, <1>5

(* A file that has its events whole may be synced.                         *)
LEMMA MainWhole ==
  ASSUME TypeOK, MainInv, FileInv, NewInv, turn \notin {"off", "rename"}
  PROVE  /\ main.snap <= Len(main.data)
         /\ \A i \in 1 .. Len(main.data) :
              main.data[i] # Torn /\ main.data[i].id <= PlaceOf(main, i)
<1>1. GoodFile(main) /\ main.snap <= Len(main.data)
  BY MainThere
<1>2. \A i \in 1 .. Len(main.data) : main.data[i] # Torn
  BY DEF FileInv
<1> QED
  BY <1>1, <1>2 DEF GoodFile

LEMMA BarrierKeepsFiles ==
  ASSUME TypeOK, MainInv, FileInv, NewInv, Barrier
  PROVE  MainInv' /\ FileInv' /\ NewInv' /\ new' \in Files
<1>1. /\ turn = "barrier" /\ turn' = "unlink" /\ begin' = begin /\ boot' = boot
      /\ slots' = slots /\ buffer' = buffer /\ main' = main /\ new' = NewSynced
  BY DEF Barrier, ReindexStep, actorVars, ghostVars
<1>2. /\ new \in Files /\ Replaces(new) /\ new.synced = 0 /\ Taken' = Taken
      /\ main.data = <<>> => new.data = <<>>
  BY <1>1 DEF NewInv, TypeOK, Taken
<1>3. /\ new' \in Files /\ new'.exists = new.exists /\ new'.data = new.data
      /\ new'.base = new.base /\ new'.snap = new.snap /\ new'.synced = Len(new.data)
  <2>1. CASE main.data = <<>>
    <3>1. Len(new.data) = 0
      BY <1>2, <2>1, EmptySeq
    <3> QED
      BY <1>1, <1>2, <2>1, <3>1 DEF NewSynced
  <2>2. CASE main.data # <<>>
    <3>1. /\ Synced(new) \in Files
          /\ Synced(new).exists = new.exists /\ Synced(new).data = new.data
          /\ Synced(new).base = new.base /\ Synced(new).snap = new.snap
          /\ Synced(new).synced = Len(new.data)
      BY <1>2, ReplacesIs, SyncedIs
    <3>2. new' = Synced(new)
      BY <1>1, <2>2 DEF NewSynced
    <3> QED
      BY <3>1, <3>2, Zenon
  <2> QED
    BY <2>1, <2>2
<1>4. Replaces(new)' /\ new'.synced = Len(new'.data)
  BY <1>2, <1>3 DEF Replaces
<1>5. MainInv'
  BY <1>1, <1>3, <1>4 DEF MainInv, GoodFile, PlaceOf, Replaces
<1>6. FileInv'
  BY <1>1, <1>2 DEF FileInv, WritesIn
<1>7. NewInv'
  BY <1>1, <1>4 DEF NewInv
<1> QED
  BY <1>3, <1>5, <1>6, <1>7

LEMMA NoFileIs ==
  /\ NoFile \in Files /\ GoodFile(NoFile) /\ NoFile.data = <<>> /\ Len(NoFile.data) = 0
  /\ ~NoFile.exists /\ NoFile.synced = 0 /\ NoFile.snap = 0 /\ NoFile.base = 0
<1>1. <<>> \in Seq(Events \cup {Torn}) /\ Len(<<>>) = 0
  BY EmptySeq
<1> QED
  BY <1>1 DEF NoFile, Files, GoodFile, PlaceOf

LEMMA UnlinkOldKeepsFiles ==
  ASSUME TypeOK, MainInv, FileInv, NewInv, UnlinkOld
  PROVE  MainInv' /\ FileInv' /\ NewInv'
<1>1. /\ turn = "unlink" /\ turn' = "rename" /\ begin' = begin /\ boot' = boot
      /\ slots' = slots /\ buffer' = buffer /\ main' = NoFile /\ new' = new
  BY DEF UnlinkOld, ReindexStep, actorVars, ghostVars
<1>2. /\ new \in Files /\ Replaces(new) /\ new.synced = Len(new.data) /\ Taken' = Taken
      /\ buffer = <<>> /\ Len(buffer) = 0 /\ new.exists
  BY <1>1, EmptyBuffer DEF NewInv, TypeOK, Taken, FileInv, Replaces
<1>3. GoodFile(new)
  BY <1>2, ReplacesIs
<1>4. MainInv'
  BY <1>1, <1>2, <1>3, NoFileIs DEF MainInv, GoodFile, PlaceOf
<1>5. FileInv'
  <2>1. \A i \in 1 .. Len(main.data)' : FALSE
    BY <1>1, NoFileIs
  <2>2. \A i \in 1 .. Len(buffer)' : FALSE
    BY <1>1, <1>2
  <2>3. ~main'.exists
    BY <1>1, NoFileIs
  <2> QED
    BY <1>1, <1>2, <2>1, <2>2, <2>3 DEF FileInv
<1>6. NewInv'
  <2>1. Replaces(new)' /\ new'.synced = Len(new'.data)
    BY <1>1, <1>2 DEF Replaces
  <2> QED
    BY <1>1, <2>1, NoFileIs DEF NewInv
<1> QED
  BY <1>4, <1>5, <1>6

LEMMA RenameNewKeepsFiles ==
  ASSUME TypeOK, MainInv, FileInv, NewInv, RenameNew
  PROVE  MainInv' /\ FileInv' /\ NewInv'
<1>1. /\ turn = "rename" /\ turn' = "drain" /\ begin' = begin /\ boot' = boot
      /\ slots' = slots /\ buffer' = buffer /\ main' = new /\ new' = NoFile
  BY DEF RenameNew, ReindexStep, actorVars, ghostVars
<1>2. /\ new \in Files /\ Replaces(new) /\ new.synced = Len(new.data) /\ Taken' = Taken
      /\ buffer = <<>> /\ Len(buffer) = 0 /\ new.exists
  BY <1>1, EmptyBuffer DEF NewInv, TypeOK, Taken, FileInv, Replaces
<1>3. /\ GoodFile(new) /\ WritesIn(new, Len(new.data)) = Taken
      /\ \A i \in 1 .. Len(new.data) : new.data[i] # Torn
  BY <1>2, ReplacesIs
<1>4. GoodFile(main)'
  BY <1>1, <1>3 DEF GoodFile, PlaceOf
<1>5. MainInv'
  BY <1>1, <1>2, <1>4, NoFileIs DEF MainInv
<1>6. FileInv'
  <2>1. WritesIn(main, Len(main.data))' = Taken
    BY <1>1, <1>3 DEF WritesIn
  <2>2. \A i \in 1 .. Len(buffer)' : FALSE
    BY <1>1, <1>2
  <2>3. WritesIn(main, Len(main.data))' + Len(buffer)' = Taken'
    <3>1. \A w \in Nat : w + 0 = w
      OBVIOUS
    <3> QED
      BY <1>1, <1>2, <2>1, <3>1, NumbersAre, Zenon
  <2>4. WritesIn(main, Len(main.data))' + Len(buffer)' <= Taken'
    BY <1>2, <2>3, NumbersAre
  <2> QED
    BY <1>1, <1>3, <2>2, <2>3, <2>4 DEF FileInv
<1>7. NewInv'
  BY <1>1 DEF NewInv
<1> QED
  BY <1>5, <1>6, <1>7

LEMMA UnlinkNewKeepsFiles ==
  ASSUME TypeOK, MainInv, FileInv, NewInv, UnlinkNew
  PROVE  MainInv' /\ FileInv' /\ NewInv'
<1>1. /\ turn = "unlinkNew" /\ turn' = "unlinkMain" /\ begin' = begin /\ boot' = boot
      /\ slots' = slots /\ buffer' = buffer /\ main' = main /\ new' = NoFile
  BY DEF UnlinkNew, actorVars, ghostVars
<1>2. MainInv'
  BY <1>1, NoFileIs DEF MainInv, GoodFile, PlaceOf
<1>3. FileInv'
  BY <1>1 DEF FileInv, WritesIn, Taken
<1>4. NewInv'
  BY <1>1 DEF NewInv
<1> QED
  BY <1>2, <1>3, <1>4

(* What is to be synced is, when a sync or the closing ends.               *)
LEMMA SyncedMainIs ==
  ASSUME TypeOK, MainInv, FileInv, NewInv, turn \in {"sync", "closing"}
  PROVE  /\ SyncedMain \in Files /\ GoodFile(SyncedMain) /\ SyncedMain.exists
         /\ SyncedMain.data = main.data /\ SyncedMain.base = main.base
         /\ SyncedMain.snap = main.snap
         /\ \A i \in 1 .. Len(SyncedMain.data) : SyncedMain.data[i] # Torn
         /\ needSync \/ main.synced = Len(main.data) => SyncedMain.synced = Len(main.data)
         /\ ~needSync => SyncedMain = main
         /\ WritesIn(SyncedMain, Len(SyncedMain.data)) = Taken
         /\ WritesIn(main, Len(main.data)) = Taken
         /\ main.synced <= SyncedMain.synced
<1>1. /\ main \in Files /\ main.exists /\ GoodFile(main)
      /\ \A i \in 1 .. Len(main.data) : main.data[i] # Torn
      /\ main.synced \in Nat /\ Len(main.data) \in Nat /\ main.synced <= Len(main.data)
  BY MainThere, FilesAre DEF FileInv, GoodFile
<1>2. WritesIn(main, Len(main.data)) = Taken
  <2>1. WritesIn(main, Len(main.data)) \in Nat /\ buffer = <<>> /\ Len(buffer) = 0
        /\ WritesIn(main, Len(main.data)) + Len(buffer) = Taken
    BY MainThere, EmptyBuffer DEF FileInv
  <2>2. \A w \in Nat : w + 0 = w
    OBVIOUS
  <2> QED
    BY <2>1, <2>2, Zenon
<1>3. CASE needSync
  <2>1. /\ Synced(main) \in Files /\ GoodFile(Synced(main))
        /\ Synced(main).exists = main.exists /\ Synced(main).data = main.data
        /\ Synced(main).base = main.base /\ Synced(main).snap = main.snap
        /\ Synced(main).synced = Len(main.data)
    BY <1>1, MainWhole, SyncedIs
  <2>2. SyncedMain = Synced(main)
    BY <1>3 DEF SyncedMain
  <2>3. /\ SyncedMain \in Files /\ GoodFile(SyncedMain)
        /\ SyncedMain.exists = main.exists /\ SyncedMain.data = main.data
        /\ SyncedMain.base = main.base /\ SyncedMain.snap = main.snap
        /\ SyncedMain.synced = Len(main.data)
    BY <2>1, <2>2, Zenon
  <2>4. WritesIn(SyncedMain, Len(SyncedMain.data)) = WritesIn(main, Len(main.data))
    BY <2>3 DEF WritesIn
  <2> QED
    BY <1>1, <1>2, <1>3, <2>3, <2>4
<1>4. CASE ~needSync
  <2>1. SyncedMain = main
    BY <1>4 DEF SyncedMain
  <2> QED
    BY <1>1, <1>2, <1>4, <2>1
<1> QED
  BY <1>3, <1>4

LEMMA SyncEndsKeepsFiles ==
  ASSUME TypeOK, MainInv, FileInv, NewInv, SyncEnds
  PROVE  MainInv' /\ FileInv' /\ NewInv'
<1>1. /\ turn = "sync" /\ turn' = "idle" /\ begin' = begin /\ boot' = boot
      /\ slots' = slots /\ buffer' = buffer /\ main' = SyncedMain /\ new' = new
  BY DEF SyncEnds, actorVars
<1>2. /\ GoodFile(SyncedMain) /\ SyncedMain.exists
      /\ \A i \in 1 .. Len(SyncedMain.data) : SyncedMain.data[i] # Torn
      /\ WritesIn(SyncedMain, Len(SyncedMain.data)) = Taken
      /\ WritesIn(main, Len(main.data)) = Taken
  BY <1>1, SyncedMainIs
<1>3. MainInv'
  BY <1>1, <1>2 DEF MainInv, GoodFile, PlaceOf
<1>4. FileInv'
  <2>1. WritesIn(main, Len(main.data))' = WritesIn(main, Len(main.data)) /\ Taken' = Taken
    BY <1>1, <1>2 DEF WritesIn, Taken
  <2>2. \A i \in 1 .. Len(main.data)' : main'.data[i] # Torn
    BY <1>1, <1>2
  <2>3. /\ WritesIn(main, Len(main.data)) + Len(buffer) = Taken
        /\ WritesIn(main, Len(main.data)) + Len(buffer) <= Taken
        /\ \A i \in 1 .. Len(buffer) : buffer[i].id + Len(buffer) <= Taken + i
    BY <1>1, MainThere DEF FileInv
  <2>4. /\ WritesIn(main, Len(main.data))' + Len(buffer') = Taken'
        /\ WritesIn(main, Len(main.data))' + Len(buffer') <= Taken'
        /\ \A i \in 1 .. Len(buffer') : buffer'[i].id + Len(buffer') <= Taken' + i
    BY <1>1, <2>1, <2>3, Zenon
  <2> QED
    BY <1>1, <2>2, <2>4 DEF FileInv
<1>5. NewInv'
  BY <1>1 DEF NewInv
<1> QED
  BY <1>3, <1>4, <1>5

-----------------------------------------------------------------------------
(* The end of a process, and what the next one finds.                      *)

(* At least what is synced of a file is read of it.                        *)
LEMMA RemainsIs ==
  ASSUME NEW f \in Files, GoodFile(f)
  PROVE  /\ Len(Readable(f.data)) \in f.synced .. Len(f.data)
         /\ WritesIn(f, Len(Readable(f.data))) \in Nat
         /\ WritesIn(f, f.synced) \in Nat
         /\ WritesIn(f, f.synced) <= WritesIn(f, Len(Readable(f.data)))
         /\ WritesIn(f, Len(Readable(f.data))) <= WritesIn(f, Len(f.data))
<1>1. /\ f.data \in Seq(Events \cup {Torn}) /\ f.synced \in Nat /\ f.base \in Nat
      /\ f.snap \in Nat /\ Len(f.data) \in Nat
      /\ f.snap <= f.synced /\ f.synced <= Len(f.data)
      /\ \A i \in 1 .. f.synced : f.data[i] # Torn
  BY FilesAre DEF GoodFile
<1>2. Len(Readable(f.data)) \in 0 .. Len(f.data) /\ f.synced <= Len(Readable(f.data))
  BY <1>1, ReadableIs
<1>3. Len(Readable(f.data)) \in f.synced .. Len(f.data)
  BY <1>1, <1>2
<1>4. PICK r \in Nat, d \in Nat, c \in Nat, b \in Nat, s \in Nat :
        /\ r = Len(Readable(f.data)) /\ d = Len(f.data) /\ c = f.synced
        /\ b = f.base /\ s = f.snap
  BY <1>1, <1>2
<1>5. s <= c /\ c <= r /\ r <= d
  BY <1>1, <1>2, <1>4
<1>6. /\ WritesIn(f, Len(Readable(f.data))) = b + r - s
      /\ WritesIn(f, f.synced) = b + c - s
      /\ WritesIn(f, Len(f.data)) = b + d - s
  <2>1. /\ WritesIn(f, Len(Readable(f.data))) = IF r < s THEN 0 ELSE b + r - s
        /\ WritesIn(f, f.synced) = IF c < s THEN 0 ELSE b + c - s
        /\ WritesIn(f, Len(f.data)) = IF d < s THEN 0 ELSE b + d - s
    BY <1>4, Zenon DEF WritesIn
  <2>2. ~(r < s) /\ ~(c < s) /\ ~(d < s)
    BY <1>5
  <2> QED
    BY <2>1, <2>2, Zenon
<1>7. /\ b + r - s \in Nat /\ b + c - s \in Nat
      /\ b + c - s <= b + r - s /\ b + r - s <= b + d - s
  BY <1>5
<1> QED
  BY <1>3, <1>6, <1>7, Zenon

(* The file that the next process opens holds no more than the history.    *)
LEMMA SurvivorIs ==
  ASSUME TypeOK, OffInv, NumberInv, MainInv, FileInv, NewInv
  PROVE  /\ Survivor \in Files /\ GoodFile(Survivor) /\ Len(history) \in Nat
         /\ WritesIn(Survivor, Len(Readable(Survivor.data))) <= Len(history)
         /\ Saved \in Nat /\ Saved <= Len(history)
<1>1. Survivor \in Files /\ GoodFile(Survivor)
  BY DEF Survivor, MainInv, TypeOK
<1>2. Len(history) \in Nat
  BY NumbersAre
<1>3. WritesIn(Survivor, Len(Readable(Survivor.data))) <= Len(history)
  <2>1. CASE turn = "off"
    BY <1>2, <2>1 DEF OffInv
  <2>2. CASE turn # "off"
    <3>1. WritesIn(Survivor, Len(Survivor.data)) <= Taken
      <4>1. CASE main.exists
        <5>1. Survivor = main /\ turn # "rename"
          BY <4>1 DEF Survivor, NewInv
        <5>2. WritesIn(main, Len(main.data)) + Len(buffer) <= Taken
              /\ WritesIn(main, Len(main.data)) \in Nat /\ Len(buffer) \in Nat
          BY <2>2, <4>1, <5>1, MainThere DEF FileInv
        <5>3. \A w, l, q \in Nat : w + l <= q => w <= q
          OBVIOUS
        <5>4. WritesIn(main, Len(main.data)) <= Taken
          BY <5>2, <5>3, NumbersAre, Zenon
        <5> QED
          BY <5>1, <5>4, Zenon
      <4>2. CASE ~main.exists
        <5>1. Survivor = new /\ turn = "rename" /\ new \in Files
          BY <2>2, <4>2 DEF Survivor, MainInv, TypeOK
        <5>2. WritesIn(new, Len(new.data)) = Taken
          BY <5>1, ReplacesIs DEF NewInv
        <5> QED
          BY <5>1, <5>2, NumbersAre
      <4> QED
        BY <4>1, <4>2
    <3>2. Taken <= Len(history) /\ Taken \in Nat
      BY <2>2, TakenIsSmall
    <3>3. /\ WritesIn(Survivor, Len(Readable(Survivor.data)))
               <= WritesIn(Survivor, Len(Survivor.data))
          /\ WritesIn(Survivor, Len(Readable(Survivor.data))) \in Nat
          /\ WritesIn(Survivor, Len(Survivor.data)) \in Nat
      BY <1>1, RemainsIs, WritesAre
    <3>4. \A w, l, q, h \in Nat : w <= l /\ l <= q /\ q <= h => w <= h
      OBVIOUS
    <3> QED
      BY <1>2, <3>1, <3>2, <3>3, <3>4, Zenon
  <2> QED
    BY <2>1, <2>2
<1>4. Saved \in Nat /\ Saved <= Len(history)
  <2>1. /\ WritesIn(Survivor, Survivor.synced) \in Nat
        /\ WritesIn(Survivor, Survivor.synced) <= WritesIn(Survivor, Len(Readable(Survivor.data)))
        /\ WritesIn(Survivor, Len(Readable(Survivor.data))) \in Nat
    BY <1>1, RemainsIs
  <2>2. \A w, l, q \in Nat : w <= l /\ l <= q => w <= q
    OBVIOUS
  <2> QED
    BY <1>2, <1>3, <2>1, <2>2, Zenon DEF Saved
<1> QED
  BY <1>1, <1>2, <1>3, <1>4

(* What is left of a file after the machine stopped.                       *)
LEMMA LostIs ==
  ASSUME NEW f \in Files, NEW g \in LostFrom(f)
  PROVE  /\ g \in Files /\ g.exists = f.exists
         /\ f.data = <<>> /\ f.synced = 0 => g = f
         /\ GoodFile(f) =>
              /\ GoodFile(g) /\ g.synced = Len(Readable(g.data))
              /\ g.base = f.base /\ g.snap = f.snap
              /\ f.synced <= g.synced /\ g.synced <= Len(Readable(f.data))
              /\ f.synced = Len(f.data) => g.synced = Len(g.data)
<1>1. /\ f.exists \in BOOLEAN /\ f.data \in Seq(Events \cup {Torn})
      /\ f.synced \in Nat /\ f.base \in Nat /\ f.snap \in Nat /\ Len(f.data) \in Nat
  BY FilesAre
<1>0. PICK n \in f.synced .. Len(f.data) : \E tail \in Cuts(f.data, n) :
        g = [f EXCEPT !.data = tail, !.synced = Len(Readable(tail))]
  BY DEF LostFrom
<1>2. PICK tail \in Cuts(f.data, n) :
        g = [f EXCEPT !.data = tail, !.synced = Len(Readable(tail))]
  BY <1>0
<1>3. n \in 0 .. Len(f.data) /\ n \in Nat /\ f.synced <= n
  BY <1>1
<1>4. /\ tail \in Seq(Events \cup {Torn}) /\ Len(tail) \in {n, n + 1} /\ Len(tail) \in Nat
      /\ Len(tail) <= Len(f.data)
      /\ \A i \in 1 .. n : tail[i] = f.data[i]
      /\ Len(tail) = n + 1 => tail[n + 1] = Torn
  <2>1. /\ tail \in Seq((Events \cup {Torn}) \cup {Torn}) /\ Len(tail) \in {n, n + 1}
        /\ Len(tail) <= Len(f.data)
        /\ \A i \in 1 .. n : tail[i] = f.data[i]
        /\ Len(tail) = n + 1 => tail[n + 1] = Torn
    BY <1>1, <1>2, <1>3, CutIs
  <2>2. (Events \cup {Torn}) \cup {Torn} = Events \cup {Torn}
    OBVIOUS
  <2>3. tail \in Seq(Events \cup {Torn})
    BY <2>1, <2>2, Zenon
  <2>4. Len(tail) \in Nat
    BY <2>3, LenProperties
  <2> QED
    BY <2>1, <2>3, <2>4, Zenon
<1>5. PICK r \in Nat : r = Len(Readable(tail))
  BY <1>4, ReadableIs
<1>6. /\ r <= Len(tail) /\ \A i \in 1 .. r : tail[i] # Torn
      /\ \A m \in 0 .. Len(tail) : (\A i \in 1 .. m : tail[i] # Torn) => m <= r
  BY <1>4, <1>5, ReadableIs
<1>7. /\ g \in Files /\ g.exists = f.exists /\ g.data = tail /\ g.synced = r
      /\ g.base = f.base /\ g.snap = f.snap
  BY <1>1, <1>2, <1>4, <1>5 DEF Files
<1>8. ASSUME f.data = <<>>, f.synced = 0 PROVE g = f
  <2>1. Len(f.data) = 0
    BY <1>8, EmptySeq
  <2>2. tail = <<>> /\ r = 0
    BY <1>4, <1>5, <1>6, <2>1, EmptySeq
  <2> QED
    BY <1>1, <1>2, <1>5, <1>8, <2>2 DEF Files
<1>9. ASSUME GoodFile(f)
      PROVE  /\ GoodFile(g) /\ g.synced = Len(Readable(g.data))
             /\ f.synced <= g.synced /\ g.synced <= Len(Readable(f.data))
             /\ f.synced = Len(f.data) => g.synced = Len(g.data)
  <2>1. r <= n
    BY <1>3, <1>4, <1>6
  <2>2. f.synced <= r
    <3>1. \A i \in 1 .. f.synced : tail[i] # Torn
      BY <1>1, <1>3, <1>4, <1>9 DEF GoodFile
    <3>2. f.synced \in 0 .. Len(tail)
      BY <1>1, <1>3, <1>4
    <3> QED
      BY <1>6, <3>1, <3>2
  <2>3. r <= Len(Readable(f.data))
    <3>1. r \in 0 .. Len(f.data) /\ \A i \in 1 .. r : f.data[i] # Torn
      BY <1>1, <1>3, <1>4, <1>6, <2>1
    <3> QED
      BY <1>1, <3>1, ReadableIs
  <2>4. GoodFile(g)
    <3>1. f.snap <= r
      BY <1>1, <1>9, <2>2 DEF GoodFile
    <3>2. ASSUME NEW i \in 1 .. Len(tail)
          PROVE  /\ i <= r => tail[i] # Torn
                 /\ tail[i] # Torn => tail[i].id <= PlaceOf(f, i)
      <4>1. i <= r => tail[i] # Torn
        BY <1>4, <1>6
      <4>2. ASSUME tail[i] # Torn PROVE tail[i].id <= PlaceOf(f, i)
        <5>1. i \in 1 .. n /\ i \in 1 .. Len(f.data)
          BY <1>1, <1>3, <1>4, <4>2
        <5> QED
          BY <1>4, <1>9, <4>2, <5>1 DEF GoodFile
      <4> QED
        BY <4>1, <4>2
    <3> QED
      BY <1>6, <1>7, <3>1, <3>2 DEF GoodFile, PlaceOf
  <2>5. f.synced = Len(f.data) => g.synced = Len(g.data)
    BY <1>1, <1>3, <1>4, <1>6, <1>7, <2>1, <2>2
  <2> QED
    BY <1>5, <1>7, <2>2, <2>3, <2>4, <2>5
<1> QED
  BY <1>7, <1>8, <1>9

(* A process that ends leaves the files, and as many writes as they hold.  *)
Ends(n) ==
  /\ ProcessEnds(n) /\ n \in 0 .. Len(history)
  /\ n = WritesIn(Survivor, Len(Readable(Survivor.data)))'
  /\ MainInv' /\ main' \in Files /\ new' \in Files

LEMMA EndsIs ==
  ASSUME TypeOK, NEW n, Ends(n)
  PROVE  /\ OffInv' /\ NumberInv' /\ WaitingInv' /\ SyncInv' /\ MainInv' /\ FileInv'
         /\ NewInv' /\ OweInv'
         /\ Len(history') = n /\ history' = SubSeq(history, 1, n)
<1>1. /\ call' = [t \in Threads |-> NoCall] /\ wrote' = [t \in Threads |-> 0]
      /\ waiting' = {} /\ immediate' = {} /\ syncPromises' = {} /\ buffer' = <<>>
      /\ needSync' = FALSE /\ turn' = "off" /\ history' = SubSeq(history, 1, n)
      /\ n \in 0 .. Len(history) /\ MainInv'
      /\ n = WritesIn(Survivor, Len(Readable(Survivor.data)))'
  BY DEF Ends, ProcessEnds
<1>2. Len(history') = n
  <2>1. history \in Seq([key : Keys, val : Values \cup {NoVal}]) /\ Len(history) \in Nat
    BY LenProperties DEF TypeOK
  <2>2. 1 \in 1 .. Len(history) + 1 /\ n \in 1 - 1 .. Len(history)
    BY <1>1, <2>1
  <2>3. Len(SubSeq(history, 1, n)) = n
    BY <2>1, <2>2, <1>1, SubSeqProperties
  <2> QED
    BY <1>1, <2>3
<1>3. OffInv'
  BY <1>1, <1>2 DEF OffInv
<1>4. NumberInv' /\ WaitingInv' /\ SyncInv' /\ FileInv' /\ NewInv' /\ OweInv'
  BY <1>1 DEF NumberInv, WaitingInv, SyncInv, FileInv, NewInv, OweInv
<1> QED
  BY <1>1, <1>2, <1>3, <1>4

(* The buffer fits wherever it is that the process dies.                   *)
LEMMA TailFits ==
  ASSUME TypeOK, NumberInv, MainInv, FileInv, NewInv, turn # "off", main.exists,
         NEW m \in 0 .. Len(buffer), NEW tail \in Cuts(buffer, m)
  PROVE  /\ Extended(main, tail) \in Files /\ GoodFile(Extended(main, tail))
         /\ Extended(main, tail).exists /\ Extended(main, tail).synced = main.synced
         /\ Extended(main, tail).base = main.base /\ Extended(main, tail).snap = main.snap
         /\ WritesIn(Extended(main, tail), Len(Extended(main, tail).data)) <= Len(history)
<1>1. turn # "rename"
  BY DEF NewInv
<1>2. /\ main \in Files /\ GoodFile(main) /\ buffer \in Seq(Events) /\ Len(buffer) \in Nat
      /\ WritesIn(main, Len(main.data)) = main.base + Len(main.data) - main.snap
      /\ WritesIn(main, Len(main.data)) \in Nat
  BY <1>1, MainThere
<1>3. /\ tail \in Seq(Events \cup {Torn}) /\ Len(tail) \in {m, m + 1}
      /\ Len(tail) <= Len(buffer)
      /\ \A i \in 1 .. m : tail[i] = buffer[i]
      /\ Len(tail) = m + 1 => tail[m + 1] = Torn
  BY <1>2, CutIs
<1>4. ASSUME NEW i \in 1 .. Len(tail), tail[i] # Torn
      PROVE  tail[i].id <= main.base + Len(main.data) + i - main.snap
  <2>1. i \in 1 .. m /\ i \in 1 .. Len(buffer)
    BY <1>2, <1>3, <1>4
  <2>2. buffer # <<>>
    BY <2>1, EmptyBuffer
  <2>3. turn \notin {"off", "write", "barrier", "unlink", "rename"}
    BY <2>2 DEF FileInv
  <2>4. buffer[i].id <= main.base + Len(main.data) + i - main.snap
    BY <2>1, <2>3, BufferFits
  <2> QED
    BY <1>3, <2>1, <2>4
<1>5. /\ Extended(main, tail) \in Files /\ GoodFile(Extended(main, tail))
      /\ Extended(main, tail).exists = main.exists
      /\ Extended(main, tail).synced = main.synced
      /\ Extended(main, tail).base = main.base /\ Extended(main, tail).snap = main.snap
      /\ Len(Extended(main, tail).data) = Len(main.data) + Len(tail) /\ Len(tail) \in Nat
  BY <1>2, <1>3, <1>4, GoodAppend
<1>6. WritesIn(Extended(main, tail), Len(Extended(main, tail).data))
        = WritesIn(main, Len(main.data)) + Len(tail)
  <2>1. WritesIn(Extended(main, tail), Len(Extended(main, tail).data))
          = Extended(main, tail).base + Len(Extended(main, tail).data)
              - Extended(main, tail).snap
    BY <1>5, WritesAre
  <2>2. PICK d \in Nat, l \in Nat, b \in Nat, s \in Nat :
          d = Len(main.data) /\ l = Len(tail) /\ b = main.base /\ s = main.snap
    BY <1>2, <1>5, FilesAre
  <2>3. b + (d + l) - s = (b + d - s) + l
    OBVIOUS
  <2> QED
    BY <1>2, <1>5, <2>1, <2>2, <2>3, Zenon
<1>7. WritesIn(main, Len(main.data)) + Len(buffer) <= Taken
  BY DEF FileInv
<1>8. Taken <= Len(history) /\ Taken \in Nat /\ Len(history) \in Nat
  BY TakenIsSmall, NumbersAre
<1>9. WritesIn(main, Len(main.data)) + Len(tail) <= Len(history)
  <2>1. \A w, l, k, q, h \in Nat : w + l <= q /\ q <= h /\ k <= l => w + k <= h
    OBVIOUS
  <2> QED
    BY <1>2, <1>3, <1>5, <1>7, <1>8, <2>1, Zenon
<1> QED
  BY <1>5, <1>6, <1>9, Zenon

LEMMA KillEnds ==
  ASSUME TypeOK, NumberInv, MainInv, FileInv, NewInv, Kill
  PROVE  \E n \in Nat : Ends(n) /\ Saved' = Saved /\ Saved <= n /\ UNCHANGED promised
<1>0. turn # "off" /\ UNCHANGED promised
  BY DEF Kill
<1>1. PICK m \in 0 .. Len(buffer) : \E tail \in Cuts(buffer, m) :
        main' = Extended(main, tail)
  BY DEF Kill, Extended
<1>2. PICK tail \in Cuts(buffer, m) : main' = Extended(main, tail)
  BY <1>1
<1>3. \/ new' = new
      \/ turn = "write" /\ \E n \in 0 .. Len(Snapshot) : \E t \in Cuts(Snapshot, n) :
            new' = [new EXCEPT !.data = t]
  BY DEF Kill
<1>4. new' \in Files /\ (~new'.exists => new' = NoFile) /\ (turn # "write" => new' = new)
  <2>1. CASE new' = new
    BY <2>1 DEF TypeOK, MainInv
  <2>2. CASE turn = "write" /\ new' # new
    <3>0. PICK n \in 0 .. Len(Snapshot) : \E t \in Cuts(Snapshot, n) :
            new' = [new EXCEPT !.data = t]
      BY <1>3, <2>2
    <3>1. PICK t \in Cuts(Snapshot, n) : new' = [new EXCEPT !.data = t]
      BY <3>0
    <3>2. Snapshot \in Seq(EventsTo(Taken)) /\ EventsTo(Taken) \subseteq Events
      BY <1>0, NumbersAre, TakenIsSmall, SnapshotIs DEF NumberInv
    <3>3. t \in Seq(EventsTo(Taken) \cup {Torn})
      BY <3>2, CutIs
    <3>4. t \in Seq(Events \cup {Torn})
      <4>1. Len(t) \in Nat /\ t \in [1 .. Len(t) -> EventsTo(Taken) \cup {Torn}]
        BY <3>3, LenProperties
      <4>2. t \in [1 .. Len(t) -> Events \cup {Torn}]
        BY <3>2, <4>1
      <4> QED
        BY <4>1, <4>2, SeqDef
    <3>5. new = NewFile /\ new \in Files /\ new.exists
      BY <2>2, NewFileIs DEF NewInv
    <3> QED
      BY <2>2, <3>1, <3>4, <3>5 DEF Files
  <2> QED
    BY <1>3, <2>1, <2>2
<1> DEFINE file == IF main'.exists THEN main' ELSE new'
           n    == WritesIn(file, Len(Readable(file.data)))
<1>5. ProcessEnds(n) /\ n = WritesIn(Survivor, Len(Readable(Survivor.data)))'
      /\ Saved' = WritesIn(file, file.synced)
  BY DEF Kill, Survivor, WritesIn, Saved
<1>6. CASE main.exists
  <2>1. /\ Extended(main, tail) \in Files /\ GoodFile(Extended(main, tail))
        /\ Extended(main, tail).exists /\ Extended(main, tail).synced = main.synced
        /\ Extended(main, tail).base = main.base /\ Extended(main, tail).snap = main.snap
        /\ WritesIn(Extended(main, tail), Len(Extended(main, tail).data)) <= Len(history)
    BY <1>0, <1>6, TailFits
  <2>2. /\ main' \in Files /\ GoodFile(main') /\ main'.exists
        /\ main'.synced = main.synced /\ main'.base = main.base /\ main'.snap = main.snap
        /\ WritesIn(main', Len(main'.data)) <= Len(history)
    BY <1>2, <2>1, Zenon
  <2>3. file = main'
    BY <2>2
  <2> HIDE DEF file
  <2>4. WritesIn(file, file.synced) = Saved
    BY <1>6, <2>2, <2>3 DEF Saved, Survivor, WritesIn
  <2>5. /\ n \in Nat /\ WritesIn(file, file.synced) <= n
        /\ n <= WritesIn(file, Len(file.data))
    BY <2>2, <2>3, RemainsIs
  <2>6. n \in 0 .. Len(history)
    <3>1. WritesIn(file, Len(file.data)) <= Len(history) /\ Len(history) \in Nat
          /\ WritesIn(file, Len(file.data)) \in Nat
      BY <2>2, <2>3, WritesAre, NumbersAre
    <3>2. \A a, b, c \in Nat : a <= b /\ b <= c => a \in 0 .. c
      OBVIOUS
    <3> HIDE DEF n
    <3> QED
      BY <2>5, <3>1, <3>2, Zenon
  <2>7. MainInv'
    BY <1>4, <2>2 DEF MainInv, GoodFile, PlaceOf
  <2> HIDE DEF n
  <2>8. Ends(n)
    BY <1>4, <1>5, <2>2, <2>6, <2>7 DEF Ends
  <2> QED
    BY <1>0, <1>5, <2>4, <2>5, <2>8
<1>7. CASE ~main.exists
  <2>1. /\ main = NoFile /\ GoodFile(new) /\ turn = "rename" /\ new.synced = Len(new.data)
        /\ Replaces(new) /\ new \in Files /\ new' = new
    BY <1>0, <1>4, <1>7 DEF MainInv, NewInv, TypeOK
  <2>2. main' = NoFile
    <3>1. buffer = <<>> /\ Len(buffer) = 0 /\ buffer \in Seq(Events)
      BY <1>0, <2>1, EmptyBuffer DEF FileInv, TypeOK
    <3>2. tail \in Seq(Events \cup {Torn}) /\ Len(tail) <= 0
      BY <1>2, <3>1, CutIs
    <3>3. tail = <<>>
      <4>1. Len(tail) = 0
        BY <3>2, LenProperties
      <4> QED
        BY <3>2, <4>1, EmptySeq
    <3>4. main.data \o <<>> = main.data
      BY <2>1, NoFileIs, ConcatEmptySeq, EmptySeq
    <3> QED
      BY <1>2, <2>1, <3>3, <3>4 DEF Extended, NoFile
  <2>3. file = new
    BY <2>1, <2>2, NoFileIs
  <2> HIDE DEF file
  <2>4. WritesIn(file, file.synced) = Saved
    BY <1>7, <2>3 DEF Saved, Survivor
  <2>5. /\ n \in Nat /\ WritesIn(file, file.synced) <= n
        /\ n <= WritesIn(file, Len(file.data))
    BY <2>1, <2>3, RemainsIs
  <2>6. n \in 0 .. Len(history)
    <3>1. WritesIn(file, Len(file.data)) = Taken /\ Taken <= Len(history)
          /\ Taken \in Nat /\ Len(history) \in Nat
      BY <1>0, <2>1, <2>3, ReplacesIs, TakenIsSmall, NumbersAre
    <3>2. \A a, b, c \in Nat : a <= b /\ b <= c => a \in 0 .. c
      OBVIOUS
    <3> HIDE DEF n
    <3> QED
      BY <2>5, <3>1, <3>2, Zenon
  <2>7. MainInv'
    <3>1. GoodFile(main)' /\ GoodFile(new)'
      BY <2>1, <2>2, NoFileIs DEF GoodFile, PlaceOf
    <3>2. turn' = "off" /\ new'.synced = Len(new'.data)
      BY <2>1 DEF Kill, ProcessEnds
    <3> QED
      BY <1>4, <2>2, <3>1, <3>2 DEF MainInv
  <2> HIDE DEF n
  <2>8. Ends(n)
    BY <1>4, <1>5, <2>2, <2>6, <2>7, NoFileIs DEF Ends
  <2> QED
    BY <1>0, <1>5, <2>4, <2>5, <2>8
<1> QED
  BY <1>6, <1>7

LEMMA PowerLossEnds ==
  ASSUME TypeOK, OffInv, NumberInv, MainInv, FileInv, NewInv, PowerLoss
  PROVE  \E n \in Nat : Ends(n) /\ Saved' = n /\ Saved <= n /\ UNCHANGED promised
<1>1. /\ main \in Files /\ new \in Files /\ GoodFile(main)
      /\ (~main.exists => main = NoFile) /\ (~new.exists => new = NoFile)
      /\ ~main.exists => GoodFile(new) /\ new.synced = Len(new.data)
  BY DEF TypeOK, MainInv
<1>2. main' \in LostFrom(main) /\ new' \in LostFrom(new) /\ UNCHANGED promised
  BY DEF PowerLoss
<1>3. PICK m, w : m = main' /\ w = new'
  OBVIOUS
<1>4. /\ m \in Files /\ m.exists = main.exists /\ GoodFile(m)
      /\ m.synced = Len(Readable(m.data)) /\ m.base = main.base /\ m.snap = main.snap
      /\ main.synced <= m.synced /\ m.synced <= Len(Readable(main.data))
      /\ main.data = <<>> /\ main.synced = 0 => m = main
  BY <1>1, <1>2, <1>3, LostIs
<1>5. /\ w \in Files /\ w.exists = new.exists
      /\ new.data = <<>> /\ new.synced = 0 => w = new
      /\ GoodFile(new) =>
           /\ GoodFile(w) /\ w.synced = Len(Readable(w.data))
           /\ w.base = new.base /\ w.snap = new.snap
           /\ new.synced <= w.synced /\ w.synced <= Len(Readable(new.data))
           /\ new.synced = Len(new.data) => w.synced = Len(w.data)
  BY <1>1, <1>2, <1>3, LostIs
<1>6. (~m.exists => m = NoFile) /\ (~w.exists => w = NoFile)
  BY <1>1, <1>4, <1>5, NoFileIs
<1> DEFINE f == IF m.exists THEN m ELSE w
           n == WritesIn(f, Len(Readable(f.data)))
<1>7. /\ f \in Files /\ GoodFile(f) /\ f.synced = Len(Readable(f.data))
      /\ f.base = Survivor.base /\ f.snap = Survivor.snap
      /\ Survivor.synced <= f.synced /\ f.synced <= Len(Readable(Survivor.data))
  BY <1>1, <1>4, <1>5 DEF Survivor
<1>8. ProcessEnds(n) /\ Survivor' = f /\ turn' = "off"
      /\ n = WritesIn(Survivor, Len(Readable(Survivor.data)))'
      /\ Saved' = WritesIn(f, f.synced)
  <2>1. main.exists = m.exists
    BY <1>4
  <2>2. ProcessEnds(n)
    BY <1>3, <2>1, Zenon DEF PowerLoss
  <2>3. Survivor' = f
    BY <1>3 DEF Survivor
  <2>4. turn' = "off"
    BY <2>2 DEF ProcessEnds
  <2>5. n = WritesIn(Survivor, Len(Readable(Survivor.data)))'
        /\ Saved' = WritesIn(f, f.synced)
    <3> HIDE DEF f
    <3> QED
      BY <2>3 DEF WritesIn, Saved
  <2> QED
    BY <2>2, <2>3, <2>4, <2>5
<1>9. MainInv'
  <2>1. GoodFile(main)' /\ (~m.exists => GoodFile(new)' /\ w.synced = Len(w.data))
    BY <1>1, <1>3, <1>4, <1>5 DEF GoodFile, PlaceOf
  <2> QED
    BY <1>3, <1>6, <1>8, <2>1 DEF MainInv
<1> HIDE DEF f
<1>10. /\ Survivor \in Files /\ GoodFile(Survivor) /\ Len(history) \in Nat
       /\ WritesIn(Survivor, Len(Readable(Survivor.data))) <= Len(history)
       /\ Saved \in Nat
  BY SurvivorIs
<1>11. n \in 0 .. Len(history) /\ Saved <= n /\ n \in Nat
  <2>1. /\ Len(Readable(f.data)) \in f.synced .. Len(f.data) /\ n \in Nat
        /\ Len(Readable(Survivor.data)) \in Survivor.synced .. Len(Survivor.data)
    BY <1>7, <1>10, RemainsIs
  <2>2. /\ f.base \in Nat /\ f.snap \in Nat /\ f.synced \in Nat /\ Survivor.synced \in Nat
        /\ Len(Readable(Survivor.data)) \in Nat /\ Survivor.snap <= Survivor.synced
    BY <1>7, <1>10, <2>1, FilesAre DEF GoodFile
  <2>3. PICK b \in Nat, s \in Nat, c \in Nat, d \in Nat, r \in Nat :
          /\ b = f.base /\ s = f.snap /\ c = Survivor.synced /\ d = f.synced
          /\ r = Len(Readable(Survivor.data))
    BY <2>2
  <2>4. s <= c /\ c <= d /\ d <= r
    BY <1>7, <2>2, <2>3
  <2>5. /\ n = IF d < s THEN 0 ELSE b + d - s
        /\ Saved = IF c < s THEN 0 ELSE b + c - s
        /\ WritesIn(Survivor, Len(Readable(Survivor.data)))
             = IF r < s THEN 0 ELSE b + r - s
    BY <1>7, <2>3, Zenon DEF WritesIn, Saved
  <2>6. ~(d < s) /\ ~(c < s) /\ ~(r < s)
    BY <2>4
  <2> HIDE DEF n
  <2>7. /\ n = b + d - s /\ Saved = b + c - s
        /\ WritesIn(Survivor, Len(Readable(Survivor.data))) = b + r - s
    BY <2>5, <2>6, Zenon
  <2>8. \A h \in Nat : b + r - s <= h => b + d - s \in 0 .. h /\ b + c - s <= b + d - s
    BY <2>4
  <2> QED
    BY <1>10, <2>1, <2>7, <2>8, Zenon
<1>12. Saved' = n
  BY <1>7, <1>8, Zenon
<1> HIDE DEF n
<1>13. Ends(n)
  BY <1>3, <1>4, <1>5, <1>8, <1>9, <1>11 DEF Ends
<1> QED
  BY <1>2, <1>11, <1>12, <1>13

(* The newest of some places and what was promised before.                 *)
LEMMA ToldIs ==
  ASSUME TypeOK, NEW places, places \subseteq Nat, NEW N \in Nat,
         \A p \in places : p <= N
  PROVE  /\ Told(places) \in Nat /\ promised \in Nat /\ promised <= Told(places)
         /\ Told(places) = promised \/ Told(places) \in places
<1>1. promised \in Nat
  BY DEF TypeOK, Places
<1>2. PICK M \in Nat : N <= M /\ promised <= M
  <2>1. \A a, b \in Nat : \E m \in Nat : a <= m /\ b <= m
    OBVIOUS
  <2> QED
    BY <1>1, <2>1
<1> DEFINE S == places \cup {promised}
<1>3. S \in SUBSET (0 .. M) /\ S # {} /\ S \subseteq Nat
  BY <1>1, <1>2
<1>4. Told(places) = CHOOSE n \in S : \A m \in S : m <= n
  BY DEF Told
<1>5. promised \in S /\ \A p \in S : p \in places \/ p = promised
  OBVIOUS
<1> HIDE DEF S
<1>6. Told(places) \in S /\ \A m \in S : m <= Told(places)
  BY <1>3, <1>4, GreatestNatural
<1> QED
  BY <1>1, <1>3, <1>5, <1>6

(* A sync saves no less than it told, and than was saved before.           *)
LEMMA SyncSaves ==
  ASSUME TypeOK, MainInv, FileInv, NewInv, PromiseInv, turn \in {"sync", "closing"},
         NEW places, places \subseteq Nat, \A p \in places : p <= Taken,
         ~needSync /\ main.synced < Len(main.data) => \A p \in places : Unowed(p)
  PROVE  /\ WritesIn(SyncedMain, SyncedMain.synced) \in Nat
         /\ Saved <= WritesIn(SyncedMain, SyncedMain.synced) /\ Saved \in Nat
         /\ WritesIn(SyncedMain, SyncedMain.synced) <= Taken
         /\ Told(places) <= WritesIn(SyncedMain, SyncedMain.synced)
         /\ promised <= Told(places) /\ Told(places) \in Nat
<1>1. /\ SyncedMain \in Files /\ GoodFile(SyncedMain) /\ SyncedMain.exists
      /\ SyncedMain.data = main.data /\ SyncedMain.base = main.base
      /\ SyncedMain.snap = main.snap
      /\ needSync \/ main.synced = Len(main.data) => SyncedMain.synced = Len(main.data)
      /\ ~needSync => SyncedMain = main
      /\ WritesIn(SyncedMain, Len(SyncedMain.data)) = Taken
      /\ WritesIn(main, Len(main.data)) = Taken
      /\ main.synced <= SyncedMain.synced
  BY SyncedMainIs
<1>2. /\ main \in Files /\ main.exists /\ GoodFile(main) /\ Taken \in Nat
      /\ main.synced \in Nat /\ Len(main.data) \in Nat /\ main.synced <= Len(main.data)
  BY MainThere, FilesAre, NumbersAre DEF GoodFile
<1>3. /\ Told(places) \in Nat /\ promised \in Nat /\ promised <= Told(places)
      /\ Told(places) = promised \/ Told(places) \in places
  BY <1>2, ToldIs
<1>4. PICK S \in Nat : S = WritesIn(SyncedMain, SyncedMain.synced)
  BY <1>1, WritesAre
<1>5. S <= Taken
  BY <1>1, <1>4, WritesAre
<1>6. Saved <= S /\ Saved \in Nat
  <2>1. Saved = WritesIn(main, main.synced)
    BY <1>2 DEF Saved, Survivor
  <2>2. Saved \in Nat
    BY <1>2, <2>1, WritesAre
  <2>3. CASE SyncedMain.synced = Len(main.data)
    <3>1. S = Taken
      BY <1>1, <1>4, <2>3
    <3>2. Saved <= Taken
      BY <1>1, <1>2, <2>1, WritesAre
    <3> QED
      BY <2>2, <3>1, <3>2
  <2>4. CASE SyncedMain.synced # Len(main.data)
    <3>1. SyncedMain = main
      BY <1>1, <2>4
    <3>2. S = Saved
      BY <1>4, <2>1, <3>1
    <3> QED
      BY <2>2, <3>2
  <2> QED
    BY <2>3, <2>4
<1>7. ASSUME NEW p \in places PROVE p <= S
  <2>1. p <= Taken /\ p \in Nat
    OBVIOUS
  <2>2. CASE SyncedMain.synced = Len(main.data)
    <3>1. S = Taken
      BY <1>1, <1>4, <2>2
    <3> QED
      BY <2>1, <3>1
  <2>3. CASE SyncedMain.synced # Len(main.data)
    <3>1. ~needSync /\ main.synced < Len(main.data)
      BY <1>1, <1>2, <2>3
    <3>2. p = 0 \/ p > Taken
      BY <1>1, <3>1, Zenon DEF Unowed
    <3> QED
      BY <1>2, <2>1, <3>2
  <2> QED
    BY <2>2, <2>3
<1>8. Told(places) <= S
  <2>1. CASE Told(places) = promised
    BY <1>3, <1>6, <2>1 DEF PromiseInv
  <2>2. CASE Told(places) \in places
    BY <1>7, <2>2
  <2> QED
    BY <1>3, <2>1, <2>2
<1> QED
  BY <1>3, <1>4, <1>5, <1>6, <1>8

LEMMA CloseEndsEnds ==
  ASSUME IInv, CloseEnds
  PROVE  /\ Ends(Len(history)) /\ Saved \in Nat /\ promised \in Nat
         /\ Saved <= Saved' /\ Saved' <= Len(history) /\ Saved' \in Nat
         /\ promised <= promised' /\ promised' <= Saved' /\ promised' \in Nat
<1>0. TypeOK /\ NumberInv /\ WaitingInv /\ SyncInv /\ MainInv /\ FileInv /\ NewInv /\ OweInv
      /\ PromiseInv
  BY DEF IInv
<1>1. /\ turn = "closing" /\ main' = SyncedMain /\ new' = new
      /\ promised' = Told({wrote[t] : t \in Threads}) /\ ProcessEnds(Len(history))
  BY DEF CloseEnds
<1>2. Taken = Len(history) /\ Taken \in Nat /\ Len(history) \in Nat
  <2>1. waiting = {} /\ \A t \in Threads : call[t] = NoCall
    BY <1>0, <1>1 DEF WaitingInv
  <2>2. \A t \in Threads : ~Sending(t)
    BY <2>1 DEF Sending, NoCall
  <2>3. \A q \in begin .. lastId : FALSE
    BY <1>0, <1>1, <2>1, <2>2 DEF WaitingInv
  <2>4. lastId + boot = Len(history) /\ begin - 1 <= lastId
    BY <1>0, <1>1 DEF NumberInv
  <2>5. lastId \in Nat /\ boot \in Nat /\ begin \in Nat /\ Len(history) \in Nat
    BY <1>0, NumbersAre
  <2>6. begin - 1 = lastId
    <3>1. ~(begin <= lastId)
      BY <2>3, <2>5
    <3> QED
      BY <2>4, <2>5, <3>1
  <2> QED
    BY <2>4, <2>5, <2>6 DEF Taken
<1> DEFINE places == {wrote[t] : t \in Threads}
<1>3. places \subseteq Nat /\ \A p \in places : p <= Taken
  <2>1. \A t \in Threads : wrote[t] \in Nat
    BY <1>0, NumbersAre
  <2>2. \A t \in Threads : wrote[t] <= Len(history)
    BY <1>0, <1>1 DEF SyncInv, ThreadInv
  <2> QED
    BY <1>2, <2>1, <2>2
<1>4. ~needSync /\ main.synced < Len(main.data) => \A p \in places : Unowed(p)
  BY <1>0, <1>1 DEF OweInv
<1>5. promised' = Told(places)
  BY <1>1
<1> HIDE DEF places
<1>6. /\ WritesIn(SyncedMain, SyncedMain.synced) \in Nat
      /\ Saved <= WritesIn(SyncedMain, SyncedMain.synced) /\ Saved \in Nat
      /\ WritesIn(SyncedMain, SyncedMain.synced) <= Taken
      /\ Told(places) <= WritesIn(SyncedMain, SyncedMain.synced)
      /\ promised <= Told(places) /\ Told(places) \in Nat
  BY <1>0, <1>1, <1>3, <1>4, SyncSaves
<1>7. /\ SyncedMain \in Files /\ GoodFile(SyncedMain) /\ SyncedMain.exists
      /\ \A i \in 1 .. Len(SyncedMain.data) : SyncedMain.data[i] # Torn
      /\ WritesIn(SyncedMain, Len(SyncedMain.data)) = Taken
  BY <1>0, <1>1, SyncedMainIs
<1>8. Survivor' = SyncedMain
  BY <1>1, <1>7 DEF Survivor
<1>9. Readable(SyncedMain.data) = SyncedMain.data
  <2>1. SyncedMain.data \in Seq(Events \cup {Torn})
    BY <1>7, FilesAre
  <2> QED
    BY <1>7, <2>1, ReadableIs
<1>10. WritesIn(Survivor, Len(Readable(Survivor.data)))' = Len(history)
  BY <1>2, <1>7, <1>8, <1>9 DEF WritesIn
<1>11. Saved' = WritesIn(SyncedMain, SyncedMain.synced)
  BY <1>8 DEF Saved, WritesIn
<1>12. MainInv'
  <2>1. GoodFile(main)'
    BY <1>1, <1>7 DEF GoodFile, PlaceOf
  <2>2. main'.exists /\ (~new'.exists => new' = NoFile)
    BY <1>0, <1>1, <1>7 DEF MainInv
  <2> QED
    BY <2>1, <2>2 DEF MainInv
<1>13. Ends(Len(history))
  <2>1. main' \in Files /\ new' \in Files
    BY <1>0, <1>1, <1>7 DEF TypeOK
  <2>2. Len(history) \in 0 .. Len(history)
    BY <1>2
  <2> QED
    BY <1>1, <1>10, <1>12, <2>1, <2>2 DEF Ends
<1>14. promised \in Nat
  BY <1>0 DEF TypeOK, Places
<1> QED
  BY <1>2, <1>5, <1>6, <1>11, <1>13, <1>14

LEMMA UnlinkMainEnds ==
  ASSUME IInv, UnlinkMain
  PROVE  Ends(0) /\ Saved' = 0 /\ promised' = 0
<1>0. TypeOK /\ MainInv /\ FileInv /\ NewInv
  BY DEF IInv
<1>1. turn = "unlinkMain" /\ main' = NoFile /\ new' = new /\ new = NoFile
      /\ ProcessEnds(0) /\ promised' = 0
  BY <1>0 DEF UnlinkMain, NewInv
<1>2. Survivor' = NoFile
  BY <1>1 DEF Survivor
<1>3. Readable(NoFile.data) = NoFile.data
  <2>1. NoFile.data \in Seq(Events \cup {Torn}) /\ \A i \in 1 .. Len(NoFile.data) : FALSE
    BY NoFileIs, FilesAre
  <2> QED
    BY <2>1, ReadableIs
<1>4. WritesIn(NoFile, 0) = 0
  BY NoFileIs DEF WritesIn
<1>5. WritesIn(Survivor, Len(Readable(Survivor.data)))' = 0
  BY <1>2, <1>3, <1>4, NoFileIs DEF WritesIn
<1>6. Saved' = 0
  BY <1>2, <1>4, NoFileIs DEF Saved, WritesIn
<1>7. MainInv'
  <2>1. GoodFile(main)' /\ GoodFile(new)'
    BY <1>1, NoFileIs DEF GoodFile, PlaceOf
  <2>2. turn' = "off"
    BY <1>1 DEF ProcessEnds
  <2> QED
    BY <1>1, <2>1, <2>2, NoFileIs DEF MainInv
<1>8. 0 \in 0 .. Len(history)
  BY <1>0, NumbersAre
<1> QED
  BY <1>1, <1>5, <1>6, <1>7, <1>8, NoFileIs DEF Ends

(* The files of a process that has just read them.                         *)
LEMMA InitOpens ==
  ASSUME TypeOK, OffInv, MainInv, init
  PROVE  /\ main' \in Files /\ new' \in Files /\ Saved' = Saved
         /\ MainInv' /\ FileInv' /\ NewInv' /\ OweInv'
<1> DEFINE events == Readable(Found.data)
<1>0. turn = "off"
  BY DEF init
<1>1. /\ turn' \in {"fatal", "open", "idle"} /\ Taken' = Len(history)
      /\ wrote' = [t \in Threads |-> 0] /\ immediate' = {} /\ syncPromises' = {}
      /\ buffer' = <<>>
  BY InitReads
<1>2. /\ main' = [Found EXCEPT !.data = events] /\ slots' = Replayed(events)
      /\ new' = IF main.exists THEN new ELSE NoFile
  BY DEF init
<1>3. /\ Found \in Files /\ Found.exists /\ GoodFile(Found) /\ Found.synced = Survivor.synced
      /\ Found.base = Survivor.base /\ Found.snap = Survivor.snap
  BY <1>0, FoundIs
<1>4. /\ events \in Seq(EventsTo(Len(history))) /\ Found.data \in Seq(Events \cup {Torn})
      /\ Len(history) \in Nat /\ Len(events) \in Nat /\ Found.synced <= Len(events)
      /\ Len(history) = WritesIn(Found, Len(events))
      /\ \A i \in 1 .. Len(events) : events[i] = Found.data[i] /\ events[i] # Torn
  BY <1>0, FoundEvents
<1>5. events \in Seq(Events \cup {Torn}) /\ Len(events) <= Len(Found.data)
  BY <1>4, ReadableIs
<1> HIDE DEF events
<1>6. PICK m : m = main'
  OBVIOUS
<1>7. /\ m \in Files /\ m.data = events /\ m.exists /\ m.synced = Found.synced
      /\ m.base = Found.base /\ m.snap = Found.snap
  BY <1>2, <1>3, <1>5, <1>6 DEF Files
<1>8. GoodFile(m)
  <2>1. m.snap <= m.synced /\ m.synced <= Len(m.data)
    BY <1>3, <1>4, <1>7 DEF GoodFile
  <2>2. ASSUME NEW i \in 1 .. Len(m.data)
        PROVE  m.data[i] # Torn /\ m.data[i].id <= PlaceOf(m, i)
    <3>1. i \in 1 .. Len(Found.data) /\ m.data[i] = Found.data[i] /\ m.data[i] # Torn
      <4>1. Len(Found.data) \in Nat
        BY <1>4, LenProperties
      <4> QED
        BY <1>4, <1>5, <1>7, <4>1
    <3>2. PlaceOf(m, i) = PlaceOf(Found, i)
      BY <1>7 DEF PlaceOf
    <3> QED
      BY <1>3, <3>1, <3>2 DEF GoodFile
  <2> QED
    BY <2>1, <2>2 DEF GoodFile
<1>9. MainInv' /\ new' \in Files
  <2>1. new' \in Files /\ (~new'.exists => new' = NoFile)
    BY <1>2, NoFileIs DEF MainInv, TypeOK
  <2>2. GoodFile(main)' /\ main'.exists
    BY <1>6, <1>7, <1>8 DEF GoodFile, PlaceOf
  <2> QED
    BY <2>1, <2>2 DEF MainInv
<1>10. FileInv'
  <2>1. Len(buffer') = 0 /\ Len(buffer') \in Nat
    BY <1>1, EmptySeq
  <2>2. WritesIn(main, Len(main.data))' = Len(history)
    BY <1>4, <1>6, <1>7 DEF WritesIn
  <2>3. PICK w \in Nat : w = Len(history)
    BY <1>4
  <2>4. w + 0 = w /\ w + 0 <= w
    OBVIOUS
  <2>5. /\ WritesIn(main, Len(main.data))' + Len(buffer') = Taken'
        /\ WritesIn(main, Len(main.data))' + Len(buffer') <= Taken'
    BY <1>1, <2>1, <2>2, <2>3, <2>4, Zenon
  <2>6. \A i \in 1 .. Len(buffer') : FALSE
    BY <2>1
  <2>7. \A i \in 1 .. Len(main'.data) : main'.data[i] # Torn
    BY <1>4, <1>6, <1>7
  <2> QED
    BY <1>1, <2>5, <2>6, <2>7 DEF FileInv
<1>11. NewInv'
  <2>1. main'.data = <<>> => slots' = <<>>
    BY <1>2, <1>6, <1>7, ReplayedOfNone
  <2> QED
    BY <1>1, <2>1 DEF NewInv
<1>12. OweInv'
  BY <1>1 DEF OweInv, Unowed
<1>13. Saved' = Saved
  <2>1. Survivor' = m
    BY <1>6, <1>7 DEF Survivor
  <2>2. Saved' = WritesIn(m, m.synced)
    BY <2>1 DEF Saved, WritesIn
  <2> QED
    BY <1>3, <1>7, <2>2 DEF Saved, WritesIn
<1> QED
  BY <1>6, <1>7, <1>9, <1>10, <1>11, <1>12, <1>13

-----------------------------------------------------------------------------
(* What is owed, and what was promised.                                    *)

(* What the files hold for good, as the map that they implement sees it.   *)
StoreSame == UNCHANGED <<history, Saved, promised>>

(* Nothing new is owed but what is not in the file.                        *)
LEMMA OweKept ==
  ASSUME OweInv, turn \notin {"off", "unlink", "rename"},
         needSync' \/ (~needSync /\ main' = main),
         \A t \in Threads : wrote'[t] = wrote[t] \/ wrote'[t] > WritesIn(main, Len(main.data)),
         \A i \in immediate' : i \in immediate \/ \E t \in Threads : i.upto = wrote[t],
         \A p \in syncPromises' :
           \/ p \in syncPromises \/ p > WritesIn(main, Len(main.data))
           \/ \E i \in immediate : i.upto = p
           \/ \E t \in Threads : p = wrote[t]
  PROVE  OweInv'
<1>1. CASE needSync'
  BY <1>1 DEF OweInv
<1>2. CASE ~(main.synced < Len(main.data)) /\ main' = main
  BY <1>2 DEF OweInv
<1>3. CASE ~needSync /\ main' = main /\ main.synced < Len(main.data)
  <2>1. /\ \A t \in Threads : Unowed(wrote[t])
        /\ \A i \in immediate : Unowed(i.upto)
        /\ \A p \in syncPromises : Unowed(p)
    BY <1>3 DEF OweInv
  <2>2. \A p : p > WritesIn(main, Len(main.data)) => Unowed(p)
    BY DEF Unowed
  <2>3. /\ \A t \in Threads : Unowed(wrote'[t])
        /\ \A i \in immediate' : Unowed(i.upto)
        /\ \A p \in syncPromises' : Unowed(p)
    BY <2>1, <2>2, Zenon
  <2>4. WritesIn(main, Len(main.data))' = WritesIn(main, Len(main.data))
    BY <1>3 DEF WritesIn
  <2> HIDE DEF WritesIn
  <2> QED
    BY <2>3, <2>4 DEF OweInv, Unowed
<1> QED
  BY <1>1, <1>2, <1>3

LEMMA MainKeepsStore ==
  ASSUME main.exists, main'.exists, main'.synced = main.synced,
         main'.base = main.base, main'.snap = main.snap,
         UNCHANGED <<history, promised>>
  PROVE  StoreSame
<1>1. Survivor = main /\ Survivor' = main'
  BY DEF Survivor
<1>2. Saved' = WritesIn(main', main'.synced)
  BY <1>1 DEF Saved, WritesIn
<1>3. Saved = WritesIn(main, main.synced)
  BY <1>1 DEF Saved
<1> QED
  BY <1>2, <1>3 DEF StoreSame, WritesIn

LEMMA FilesKeepStore ==
  ASSUME UNCHANGED <<main, new, history, promised>> PROVE StoreSame
BY DEF StoreSame, Saved, Survivor, WritesIn

(* A write is not in the file before its event was taken.                  *)
LEMMA WriteNotThere ==
  ASSUME TypeOK, NumberInv, MainInv, FileInv, NewInv, turn \notin {"off", "rename"}
  PROVE  /\ Taken + 1 > WritesIn(main, Len(main.data))
         /\ Len(history) + 1 > WritesIn(main, Len(main.data))
<1>1. /\ WritesIn(main, Len(main.data)) \in Nat /\ Len(buffer) \in Nat
      /\ WritesIn(main, Len(main.data)) + Len(buffer) <= Taken
  BY MainThere DEF FileInv
<1>2. Taken \in Nat /\ Len(history) \in Nat /\ Taken <= Len(history)
  BY NumbersAre, TakenIsSmall
<1>3. \A w, l, q, h \in Nat : w + l <= q /\ q <= h => q + 1 > w /\ h + 1 > w
  OBVIOUS
<1> QED
  BY <1>1, <1>2, <1>3, Zenon

LEMMA WriteOwes ==
  ASSUME TypeOK, NumberInv, MainInv, FileInv, NewInv, OweInv,
         NEW t \in Threads, NEW k \in Keys, NEW v \in Values \cup {NoVal}, Write(t, k, v)
  PROVE  OweInv' /\ Store!Write
<1>1. /\ UNCHANGED <<turn, main, new, needSync, immediate, syncPromises, promised>>
      /\ history' = Append(history, [key |-> k, val |-> v])
      /\ wrote' = [wrote EXCEPT ![t] = Len(history')] /\ turn # "off"
  BY DEF Write, IsOpen, fileVars, timerVars, actorVars, Reindexing
<1>2. Len(history') = Len(history) + 1
  BY <1>1, AppendProperties DEF TypeOK
<1>3. OweInv'
  <2>1. CASE turn \in {"unlink", "rename"}
    BY <1>1, <2>1 DEF OweInv
  <2>2. CASE turn \notin {"unlink", "rename"}
    <3>1. Len(history) + 1 > WritesIn(main, Len(main.data))
      BY <1>1, <2>2, WriteNotThere
    <3>2. \A u \in Threads : wrote'[u] = wrote[u] \/ wrote'[u] = Len(history) + 1
      BY <1>1, <1>2, NumbersAre
    <3>3. \A u \in Threads : wrote'[u] = wrote[u] \/ wrote'[u] > WritesIn(main, Len(main.data))
      BY <3>1, <3>2, Zenon
    <3>4. CASE needSync
      BY <1>1, <3>4 DEF OweInv
    <3>5. CASE ~needSync
      BY <1>1, <2>2, <3>3, <3>5, OweKept
    <3> QED
      BY <3>4, <3>5
  <2> QED
    BY <2>1, <2>2
<1>4. Saved' = Saved
  BY <1>1, FilesKeepStore DEF Saved, Survivor, WritesIn
<1>5. [key |-> k, val |-> v] \in Store!Writes
  BY DEF Store!Writes
<1> QED
  BY <1>1, <1>3, <1>4, <1>5 DEF Store!Write

LEMMA DeliverSyncOwes ==
  ASSUME TypeOK, SyncInv, OweInv, NEW t \in Threads, DeliverSync(t)
  PROVE  OweInv' /\ StoreSame
<1>1. /\ turn = "idle" /\ UNCHANGED <<wrote, main, new, needSync, history, promised>>
      /\ call[t].type = "sync"
      /\ immediate' = immediate \/ \E s : immediate' = immediate \cup {[seq |-> s, upto |-> call[t].upto]}
      /\ syncPromises' = syncPromises \/ syncPromises' = syncPromises \cup {call[t].upto}
  BY DEF DeliverSync, fileVars, ghostVars, do_immediate_sync
<1>2. call[t].upto = wrote[t]
  BY <1>1 DEF SyncInv, ThreadInv
<1>3. \A i \in immediate' : i \in immediate \/ i.upto = wrote[t]
  BY <1>1, <1>2
<1>4. \A p \in syncPromises' : p \in syncPromises \/ p = wrote[t]
  BY <1>1, <1>2
<1>5. CASE needSync
  BY <1>1, <1>5, FilesKeepStore DEF OweInv
<1>6. CASE ~needSync
  BY <1>1, <1>3, <1>4, <1>6, OweKept, FilesKeepStore
<1> QED
  BY <1>5, <1>6

LEMMA DrainOwes ==
  ASSUME TypeOK, NumberInv, WaitingInv, MainInv, FileInv, NewInv, OweInv,
         NEW e \in waiting, Drain(e)
  PROVE  OweInv' /\ StoreSame
<1>1. /\ turn = "drain" /\ UNCHANGED <<wrote, immediate, new, history, promised>>
      /\ e.seq = begin
      /\ syncPromises' = syncPromises \/ syncPromises' = syncPromises \cup {e.seq + boot}
      /\ \/ needSync' = TRUE /\ main' = Extended(main, Append(buffer, e.event))
         \/ UNCHANGED <<main, needSync>>
  BY DEF Drain, clientVars, ghostVars, IsNext, do_lazy_sync, Extended
<1>2. e.seq + boot = Taken + 1
  BY <1>1, NumbersAre DEF Taken
<1>3. Taken + 1 > WritesIn(main, Len(main.data))
  BY <1>1, WriteNotThere
<1>4. \A p \in syncPromises' : p \in syncPromises \/ p > WritesIn(main, Len(main.data))
  BY <1>1, <1>2, <1>3, Zenon
<1>5. OweInv'
  <2>1. CASE needSync'
    BY <2>1 DEF OweInv
  <2>2. CASE ~needSync'
    BY <1>1, <1>4, <2>2, OweKept
  <2> QED
    BY <2>1, <2>2
<1>6. StoreSame
  <2>1. main.exists
    BY <1>1, MainThere
  <2>2. CASE UNCHANGED main
    BY <1>1, <2>2, FilesKeepStore
  <2>3. CASE main' = Extended(main, Append(buffer, e.event))
    <3>1. main'.exists = main.exists /\ main'.synced = main.synced
          /\ main'.base = main.base /\ main'.snap = main.snap
      BY <2>3 DEF Extended, TypeOK, Files
    <3> QED
      BY <1>1, <2>1, <3>1, MainKeepsStore
  <2> QED
    BY <1>1, <2>2, <2>3
<1> QED
  BY <1>5, <1>6

(* What goes from the buffer into the file has to be synced.               *)
LEMMA FlushOwes ==
  ASSUME TypeOK, MainInv, FileInv, NewInv, OweInv, FlushStep,
         UNCHANGED <<wrote, history, promised>>, immediate' \subseteq immediate,
         \A p \in syncPromises' : p \in syncPromises \/ \E i \in immediate : i.upto = p
  PROVE  OweInv' /\ StoreSame
<1>1. /\ turn \notin {"off", "write", "barrier", "unlink", "rename"} /\ new' = new
      /\ Flush \/ UNCHANGED <<main, buffer, needSync>>
  BY DEF FlushStep
<1>2. main.exists
  BY <1>1, MainThere
<1>3. CASE UNCHANGED <<main, needSync>>
  <2>1. OweInv'
    <3>1. CASE needSync'
      BY <3>1 DEF OweInv
    <3>2. CASE ~needSync'
      BY <1>1, <1>3, <3>2, OweKept
    <3> QED
      BY <3>1, <3>2
  <2> QED
    BY <1>1, <1>3, <2>1, FilesKeepStore
<1>4. CASE Flush
  <2>1. /\ main'.exists /\ main'.synced = main.synced
        /\ main'.base = main.base /\ main'.snap = main.snap
        /\ buffer = <<>> => main' = main
    BY <1>1, <1>4, FlushIs
  <2>2. StoreSame
    BY <1>2, <2>1, MainKeepsStore
  <2>3. needSync' \/ (~needSync /\ main' = main)
    BY <1>4, <2>1 DEF Flush
  <2>4. OweInv'
    BY <1>1, <2>3, OweKept
  <2> QED
    BY <2>2, <2>4
<1> QED
  BY <1>1, <1>3, <1>4

(* The steps of do_reindex and of destroy that leave the main file alone.  *)
LEMMA ReindexOwes ==
  ASSUME TypeOK, MainInv, FileInv, NewInv, OweInv,
         OpenNew \/ OpenFails \/ WriteNew \/ Barrier \/ UnlinkNew
  PROVE  OweInv' /\ StoreSame
<1>1. /\ turn \in {"open", "write", "barrier", "unlinkNew"}
      /\ UNCHANGED <<main, wrote, immediate, syncPromises, history, promised>>
      /\ needSync' = needSync \/ turn' = "unlink"
  BY DEF OpenNew, OpenFails, WriteNew, Barrier, UnlinkNew, ReindexStep, clientVars,
         actorVars, timerVars, ghostVars, fileVars
<1>2. main.exists
  BY <1>1, MainThere
<1>3. StoreSame
  BY <1>1, <1>2, MainKeepsStore
<1>4. OweInv'
  <2>1. CASE needSync' \/ turn' = "unlink"
    BY <2>1 DEF OweInv
  <2>2. CASE ~needSync' /\ turn' # "unlink"
    BY <1>1, <2>2, OweKept
  <2> QED
    BY <2>1, <2>2
<1> QED
  BY <1>3, <1>4

(* The new file takes over: it is on the disk with all that was taken.     *)
LEMMA UnlinkOldSaves ==
  ASSUME TypeOK, NumberInv, MainInv, FileInv, NewInv, OweInv, PromiseInv, UnlinkOld
  PROVE  OweInv' /\ Store!Save
<1>1. /\ turn = "unlink" /\ turn' = "rename" /\ main' = NoFile /\ new' = new
      /\ UNCHANGED <<history, promised>>
  BY DEF UnlinkOld, ReindexStep, ghostVars
<1>2. OweInv'
  BY <1>1 DEF OweInv
<1>3. /\ new \in Files /\ Replaces(new) /\ new.synced = Len(new.data)
  BY <1>1 DEF NewInv, TypeOK
<1>4. WritesIn(new, Len(new.data)) = Taken
  BY <1>3, ReplacesIs
<1>5. Saved' = Taken
  <2>1. Survivor' = new
    BY <1>1, NoFileIs DEF Survivor
  <2>2. Saved' = WritesIn(new, new.synced)
    BY <2>1 DEF Saved, WritesIn
  <2> QED
    BY <1>3, <1>4, <2>2, Zenon
<1>6. Saved \in Nat /\ Saved <= Taken
  <2>1. main \in Files /\ GoodFile(main) /\ main.exists /\ Len(buffer) \in Nat
        /\ WritesIn(main, Len(main.data)) + Len(buffer) <= Taken
    BY <1>1, MainThere DEF FileInv
  <2>2. Saved = WritesIn(main, main.synced)
    BY <2>1 DEF Saved, Survivor
  <2>3. /\ WritesIn(main, main.synced) \in Nat /\ WritesIn(main, Len(main.data)) \in Nat
        /\ WritesIn(main, main.synced) <= WritesIn(main, Len(main.data))
    BY <2>1, WritesAre
  <2>4. \A s, w, l, q \in Nat : s <= w /\ w + l <= q => s <= q
    OBVIOUS
  <2> QED
    BY <2>1, <2>2, <2>3, <2>4, NumbersAre, Zenon
<1>7. Taken \in Nat /\ Taken <= Len(history) /\ Len(history) \in Nat
  BY <1>1, TakenIsSmall, NumbersAre
<1>8. promised \in Nat /\ promised <= Saved
  BY DEF TypeOK, Places, PromiseInv
<1>9. Store!Save
  <2>1. \A p, s, q, h \in Nat : p <= s /\ s <= q /\ q <= h => q \in s .. h /\ p \in p .. q
    OBVIOUS
  <2>2. Taken \in Saved .. Len(history) /\ promised \in promised .. Taken
    BY <1>6, <1>7, <1>8, <2>1, Zenon
  <2> QED
    BY <1>1, <1>5, <2>2, Zenon DEF Store!Save
<1> QED
  BY <1>2, <1>9

LEMMA RenameNewOwes ==
  ASSUME TypeOK, MainInv, NewInv, RenameNew
  PROVE  OweInv' /\ StoreSame
<1>1. /\ turn = "rename" /\ main' = new /\ UNCHANGED <<history, promised>>
  BY DEF RenameNew, ReindexStep, ghostVars
<1>2. /\ new \in Files /\ new.exists /\ new.synced = Len(new.data) /\ ~main.exists
  BY <1>1 DEF NewInv, TypeOK, Replaces
<1>3. Survivor = new /\ Survivor' = new
  BY <1>1, <1>2 DEF Survivor
<1>4. Saved' = Saved
  BY <1>3 DEF Saved, WritesIn
<1>5. ~(main'.synced < Len(main'.data))
  BY <1>1, <1>2, FilesAre
<1>6. OweInv'
  BY <1>5 DEF OweInv
<1> QED
  BY <1>1, <1>4, <1>6 DEF StoreSame

(* The promises that a sync fulfils are of writes that it has saved.       *)
LEMMA SyncEndsSaves ==
  ASSUME IInv, SyncEnds
  PROVE  /\ OweInv' /\ Store!Save /\ promised' \in Nat /\ promised' <= Len(history)
<1>0. TypeOK /\ NumberInv /\ SyncInv /\ MainInv /\ FileInv /\ NewInv /\ OweInv /\ PromiseInv
  BY DEF IInv
<1>1. /\ turn = "sync" /\ main' = SyncedMain /\ new' = new /\ needSync' = FALSE
      /\ promised' = Told(syncPromises) /\ syncPromises' = {} /\ history' = history
      /\ UNCHANGED <<wrote, immediate>>
  BY DEF SyncEnds, clientVars, actorVars
<1>2. syncPromises \subseteq Nat /\ \A p \in syncPromises : p <= Taken
  BY <1>0, <1>1 DEF TypeOK, SyncInv, Places
<1>3. ~needSync /\ main.synced < Len(main.data) => \A p \in syncPromises : Unowed(p)
  BY <1>0, <1>1 DEF OweInv
<1>4. /\ WritesIn(SyncedMain, SyncedMain.synced) \in Nat
      /\ Saved <= WritesIn(SyncedMain, SyncedMain.synced) /\ Saved \in Nat
      /\ WritesIn(SyncedMain, SyncedMain.synced) <= Taken
      /\ Told(syncPromises) <= WritesIn(SyncedMain, SyncedMain.synced)
      /\ promised <= Told(syncPromises) /\ Told(syncPromises) \in Nat
  BY <1>0, <1>1, <1>2, <1>3, SyncSaves
<1>5. /\ SyncedMain.exists /\ SyncedMain.data = main.data
      /\ needSync \/ main.synced = Len(main.data) => SyncedMain.synced = Len(main.data)
      /\ ~needSync => SyncedMain = main
  BY <1>0, <1>1, SyncedMainIs
<1>6. Saved' = WritesIn(SyncedMain, SyncedMain.synced)
  <2>1. Survivor' = SyncedMain
    BY <1>1, <1>5 DEF Survivor
  <2> QED
    BY <2>1 DEF Saved, WritesIn
<1>7. Taken \in Nat /\ Taken <= Len(history) /\ Len(history) \in Nat
  BY <1>0, <1>1, TakenIsSmall, NumbersAre
<1>8. promised \in Nat
  BY <1>0 DEF TypeOK, Places
<1>9. OweInv'
  <2>1. CASE needSync
    <3>1. ~(main'.synced < Len(main'.data))
      <4>1. main'.synced = Len(main'.data) /\ Len(main.data) \in Nat
        BY <1>0, <1>1, <1>5, <2>1, FilesAre DEF TypeOK
      <4> QED
        BY <1>1, <1>5, <4>1
    <3> QED
      BY <3>1 DEF OweInv
  <2>2. CASE ~needSync
    BY <1>0, <1>1, <1>5, <2>2, OweKept
  <2> QED
    BY <2>1, <2>2
<1>10. PICK S \in Nat, T \in Nat : S = WritesIn(SyncedMain, SyncedMain.synced)
                                   /\ T = Told(syncPromises)
  BY <1>4
<1>11. S \in Saved .. Len(history) /\ T \in promised .. S /\ T <= Len(history)
  <2>1. Saved <= S /\ S <= Taken /\ T <= S /\ promised <= T
    BY <1>4, <1>10
  <2> QED
    BY <1>4, <1>7, <1>8, <2>1
<1>12. Store!Save
  BY <1>1, <1>6, <1>10, <1>11, Zenon DEF Store!Save
<1> QED
  BY <1>1, <1>9, <1>10, <1>11, <1>12-----------------------------------------------------------------------------

(* The types.                                                              *)
LEMMA WriteKeepsTypes ==
  ASSUME TypeOK, NumberInv,
         NEW t \in Threads, NEW k \in Keys, NEW v \in Values \cup {NoVal}, Write(t, k, v)
  PROVE  TypeOK'
<1>1. /\ turn # "off" /\ Len(history) < MaxWrites /\ lastId' = lastId + 1
      /\ map' = [map EXCEPT ![k] = IF v = NoVal THEN NoKey
                               ELSE [val |-> v, id |-> EventId(k)]]
      /\ call' = [call EXCEPT ![t] =
           [type |-> "event", seq |-> lastId + 1, promise |-> t \in LogOwners,
            event |-> [id |-> EventId(k), rewrite |-> map[k].id # 0, key |-> k,
                       val |-> v]]]
      /\ history' = Append(history, [key |-> k, val |-> v])
      /\ wrote' = [wrote EXCEPT ![t] = Len(history')]
      /\ UNCHANGED <<timerVars, actorVars, turn, fileVars, slots, boot, promised,
                     crashes>>
  BY DEF Write, IsOpen, Reindexing
<1>2. /\ lastId \in Nat /\ boot \in Nat /\ Len(history) \in Nat /\ MaxWrites \in Nat
      /\ lastId + boot = Len(history)
  BY <1>1, NumbersAre, BinlogAssumption DEF NumberInv
<1>3. lastId + 1 \in Ids /\ lastId + 1 \in Places
  BY <1>1, <1>2 DEF Ids, Places
<1>4. map[k].id \in Places
  BY DEF TypeOK
<1>5. EventId(k) \in Ids /\ EventId(k) \in Places
  BY <1>2, <1>3, <1>4 DEF EventId, Ids, Places
<1>6. map' \in [Keys -> [val : Values \cup {NoVal}, id : Places]]
  <2>1. NoKey \in [val : Values \cup {NoVal}, id : Places]
    BY <1>2 DEF NoKey, Places
  <2>2. [val |-> v, id |-> EventId(k)] \in [val : Values \cup {NoVal}, id : Places]
    BY <1>5
  <2> QED
    BY <1>1, <2>1, <2>2 DEF TypeOK
<1>7. call' \in [Threads -> Calls]
  <2>1. [id |-> EventId(k), rewrite |-> map[k].id # 0, key |-> k, val |-> v] \in Events
    <3>1. (map[k].id # 0) \in BOOLEAN
      OBVIOUS
    <3>2. PICK r \in BOOLEAN : r = (map[k].id # 0)
      BY <3>1
    <3>3. [id |-> EventId(k), rewrite |-> r, key |-> k, val |-> v] \in Events
      BY <1>5 DEF Events
    <3> QED
      BY <3>2, <3>3, Zenon
  <2>2. PICK ev \in Events :
          ev = [id |-> EventId(k), rewrite |-> map[k].id # 0, key |-> k, val |-> v]
    BY <2>1
  <2>3. PICK b \in BOOLEAN : b = (t \in LogOwners)
    <3>1. (t \in LogOwners) \in BOOLEAN
      OBVIOUS
    <3> QED
      BY <3>1
  <2>4. [type |-> "event", seq |-> lastId + 1, promise |-> b, event |-> ev] \in Calls
    BY <1>3 DEF Calls
  <2>5. call' = [call EXCEPT ![t] =
                   [type |-> "event", seq |-> lastId + 1, promise |-> b, event |-> ev]]
    BY <1>1, <2>2, <2>3, Zenon
  <2> QED
    BY <2>4, <2>5 DEF TypeOK
<1>8. /\ history' \in Seq([key : Keys, val : Values \cup {NoVal}])
      /\ Len(history') = Len(history) + 1
  BY <1>1, AppendProperties DEF TypeOK
<1>9. Len(history') <= MaxWrites /\ Len(history') \in Places
  BY <1>1, <1>2, <1>8 DEF Places
<1>10. wrote' \in [Threads -> Places]
  BY <1>1, <1>9 DEF TypeOK
<1> QED
  BY <1>1, <1>3, <1>6, <1>7, <1>8, <1>9, <1>10
  DEF TypeOK, timerVars, actorVars, fileVars

LEMMA ForceSyncKeepsTypes ==
  ASSUME TypeOK, NEW t \in Threads, ForceSync(t) PROVE TypeOK'
<1>1. [type |-> "sync", upto |-> wrote[t]] \in Calls
  BY DEF TypeOK, Calls
<1>2. call' \in [Threads -> Calls]
  BY <1>1 DEF TypeOK, ForceSync
<1> QED
  BY <1>2 DEF TypeOK, ForceSync, timerVars, actorVars, fileVars, ghostVars

LEMMA DeliverEventKeepsTypes ==
  ASSUME TypeOK, NEW t \in Threads, DeliverEvent(t) PROVE TypeOK'
<1>1. NoCall \in Calls
  BY DEF Calls
<1>2. call' \in [Threads -> Calls] /\ waiting' \subseteq Calls /\ turn' \in Turns
  BY <1>1 DEF TypeOK, DeliverEvent, Turns
<1> QED
  BY <1>2 DEF TypeOK, DeliverEvent, timerVars, fileVars, ghostVars

LEMMA DeliverSyncKeepsTypes ==
  ASSUME TypeOK, WaitingInv, NEW t \in Threads, DeliverSync(t) PROVE TypeOK'
<1>1. NoCall \in Calls
  BY DEF Calls
<1>2. call' \in [Threads -> Calls]
  BY <1>1 DEF TypeOK, DeliverSync
<1>3. call[t].upto \in Places
  <2>1. call[t] \in Calls /\ call[t].type = "sync"
    BY DEF TypeOK, DeliverSync
  <2>2. call[t] \in [type : {"sync"}, upto : Places]
    BY <2>1 DEF Calls, NoCall
  <2> QED
    BY <2>2
<1>4. Unfinished = begin - 1 \/ Unfinished \in Ids
  BY UnfinishedIs DEF DeliverSync
<1>5. /\ immediate' \subseteq [seq : Ids, upto : Places]
      /\ syncPromises' \subseteq Places /\ forceFlag' \in BOOLEAN /\ timer' \in BOOLEAN
  <2>1. \/ /\ syncPromises' = syncPromises \cup {call[t].upto}
           /\ forceFlag' = TRUE /\ timer' = TRUE /\ UNCHANGED immediate
        \/ /\ immediate' = immediate \cup {[seq |-> Unfinished, upto |-> call[t].upto]}
           /\ Unfinished \in Ids /\ UNCHANGED <<syncPromises, forceFlag, timer>>
    BY <1>4 DEF DeliverSync, do_immediate_sync
  <2>2. \A q \in Ids : [seq |-> q, upto |-> call[t].upto] \in [seq : Ids, upto : Places]
    BY <1>3
  <2>3. /\ immediate \subseteq [seq : Ids, upto : Places] /\ syncPromises \subseteq Places
        /\ forceFlag \in BOOLEAN /\ timer \in BOOLEAN
    BY DEF TypeOK
  <2> QED
    BY <1>3, <2>1, <2>2, <2>3
<1> QED
  BY <1>2, <1>5 DEF TypeOK, DeliverSync, fileVars, ghostVars

LEMMA DrainKeepsTypes ==
  ASSUME TypeOK, NumberInv, WaitingInv, MainInv, FileInv, NewInv,
         NEW e \in waiting, Drain(e)
  PROVE  TypeOK'
<1>1. /\ turn = "drain" /\ e.seq = begin /\ begin' = begin + 1 /\ waiting' \subseteq waiting
      /\ slots' = Added(slots, e.event) /\ turn' \in {"fatal", "open", "drain"}
      /\ \/ buffer' = <<>> /\ needSync' = TRUE
            /\ main' = Extended(main, Append(buffer, e.event))
         \/ buffer' = Append(buffer, e.event) /\ UNCHANGED <<main, needSync>>
      /\ syncPromises' = syncPromises \/ syncPromises' = syncPromises \cup {e.seq + boot}
      /\ lazyFlag' = lazyFlag \/ lazyFlag' = (lazyFlag \/ ~forceFlag)
      /\ timer' = timer \/ timer' = (timer \/ ~forceFlag)
      /\ UNCHANGED <<clientVars, immediate, forceFlag, flushFlag, new, ghostVars>>
  BY DEF Drain, do_lazy_sync, IsNext, Extended
<1>2. e.seq \in Ids /\ e.seq \in Nat /\ e.seq <= lastId /\ e.event \in Events
  BY <1>1, EventsAre DEF EventInv
<1>3. begin' \in 1 .. MaxWrites + 1
  BY <1>1, <1>2, BinlogAssumption DEF Ids
<1>4. slots' \in Seq([id : Ids, key : Keys, val : Values \cup {NoVal}])
  <2>1. slots \in Seq(SlotsTo(MaxWrites)) /\ e.event \in EventsTo(MaxWrites)
        /\ MaxWrites \in Nat
    BY <1>2, BinlogAssumption DEF TypeOK, SlotsTo, EventsTo, Ids, Events
  <2>2. slots' \in Seq(SlotsTo(MaxWrites))
    BY <1>1, <2>1, AddedIs
  <2> QED
    BY <2>2 DEF SlotsTo, Ids
<1>5. e.seq + boot \in Places
  <2>1. /\ lastId \in Nat /\ boot \in Nat /\ Len(history) \in Nat /\ Len(history) <= MaxWrites
        /\ lastId + boot = Len(history) /\ MaxWrites \in Nat
    BY <1>1, NumbersAre, BinlogAssumption DEF NumberInv, TypeOK
  <2> QED
    BY <1>2, <2>1 DEF Places
<1>6. Append(buffer, e.event) \in Seq(Events) /\ Extended(main, Append(buffer, e.event)) \in Files
  <2>1. /\ Append(buffer, e.event) \in Seq(Events)
        /\ \A i \in 1 .. Len(Append(buffer, e.event)) :
             Append(buffer, e.event)[i].id <= main.base + Len(main.data) + i - main.snap
    BY TakenFits
  <2> QED
    BY <1>1, <2>1, ExtendIs
<1>7. main' \in Files /\ buffer' \in Seq(Events) /\ needSync' \in BOOLEAN
  BY <1>1, <1>6, EmptySeq DEF TypeOK
<1>8. syncPromises' \subseteq Places /\ lazyFlag' \in BOOLEAN /\ timer' \in BOOLEAN
      /\ turn' \in Turns /\ waiting' \subseteq Calls
  BY <1>1, <1>5 DEF TypeOK, Turns, Reindexing
<1> QED
  BY <1>1, <1>3, <1>4, <1>7, <1>8 DEF TypeOK, clientVars, ghostVars

(* The steps that may flush, and change neither the order of the events    *)
(* nor what the slots hold.                                                *)
QuietStep ==
  DrainEnds \/ ForceFlush \/ timeout_expired \/ Close \/ close_and_destroy

LEMMA QuietIs ==
  ASSUME TypeOK, SyncInv, QuietStep
  PROVE  /\ FlushStep /\ turn # "off" /\ turn' # "off"
         /\ UNCHANGED <<clientVars, begin, waiting, slots, ghostVars>>
         /\ immediate' \subseteq immediate
         /\ \A p \in syncPromises' : p \in syncPromises \/ \E i \in immediate : i.upto = p
         /\ \A p \in syncPromises' : p <= Taken
         /\ forceFlag' \in BOOLEAN /\ lazyFlag' \in BOOLEAN /\ flushFlag' \in BOOLEAN
         /\ timer' \in BOOLEAN /\ needSync' \in BOOLEAN /\ turn' \in Turns
         /\ turn' \in {"closing", "unlinkNew", "unlinkMain"} =>
              waiting = {} /\ \A t \in Threads : call[t] = NoCall
<1>0. /\ forceFlag \in BOOLEAN /\ lazyFlag \in BOOLEAN /\ flushFlag \in BOOLEAN
      /\ timer \in BOOLEAN /\ needSync \in BOOLEAN /\ turn \in Turns
  BY DEF TypeOK
<1>1. Flush => needSync' \in BOOLEAN /\ buffer' = <<>>
  BY <1>0 DEF Flush
<1>2. turn \in {"idle", "drain"} => \A p \in syncPromises : p <= Taken
  BY DEF SyncInv
<1>3. CASE DrainEnds
  <2>1. /\ turn = "drain" /\ turn' = "idle" /\ immediate' = immediate \ Reached
        /\ syncPromises' = syncPromises \cup {i.upto : i \in Reached}
        /\ forceFlag' = (forceFlag \/ Reached # {}) /\ lazyFlag' = lazyFlag
        /\ timer' = (timer \/ forceFlag' \/ flushFlag')
        /\ UNCHANGED <<clientVars, begin, waiting, new, slots, ghostVars>>
    BY <1>3 DEF DrainEnds
  <2>2. /\ Flush \/ UNCHANGED <<main, buffer, needSync>>
        /\ flushFlag' = flushFlag \/ flushFlag' = (flushFlag \/ ~forceFlag')
    BY <1>3 DEF DrainEnds, try_flush
  <2>3. ASSUME NEW i \in Reached PROVE i \in immediate /\ i.upto <= Taken
    <3>1. i \in immediate /\ i.seq < begin
      BY DEF Reached
    <3>2. i.upto <= i.seq + boot
      BY <2>1, <3>1 DEF SyncInv
    <3>3. i.seq \in Nat /\ i.upto \in Nat /\ begin \in Nat /\ boot \in Nat
      BY <3>1, NumbersAre DEF TypeOK, Ids, Places
    <3> QED
      BY <3>1, <3>2, <3>3 DEF Taken
  <2>4. /\ \A p \in syncPromises' : p \in syncPromises \/ \E i \in immediate : i.upto = p
        /\ \A p \in syncPromises' : p <= Taken
    BY <1>2, <2>1, <2>3
  <2>5. /\ forceFlag' \in BOOLEAN /\ lazyFlag' \in BOOLEAN /\ flushFlag' \in BOOLEAN
        /\ timer' \in BOOLEAN /\ needSync' \in BOOLEAN
    <3>1. forceFlag' \in BOOLEAN /\ needSync' \in BOOLEAN /\ lazyFlag' \in BOOLEAN
      BY <1>0, <1>1, <2>1, <2>2
    <3>2. flushFlag' \in BOOLEAN
      BY <1>0, <2>2, <3>1
    <3>3. timer' \in BOOLEAN
      BY <1>0, <2>1, <3>1, <3>2
    <3> QED
      BY <3>1, <3>2, <3>3
  <2>6. FlushStep
    BY <2>1, <2>2 DEF FlushStep, ghostVars
  <2> QED
    BY <2>1, <2>4, <2>5, <2>6 DEF Turns
<1>4. CASE ForceFlush
  <2>1. /\ turn = "idle" /\ turn' = turn /\ Flush /\ flushFlag' = FALSE
        /\ UNCHANGED <<clientVars, begin, waiting, immediate, syncPromises, forceFlag,
                       lazyFlag, timer, new, slots, ghostVars>>
    BY <1>4 DEF ForceFlush, actorVars
  <2>2. FlushStep
    BY <2>1 DEF FlushStep, ghostVars
  <2> QED
    BY <1>0, <1>1, <1>2, <2>1, <2>2
<1>5. CASE timeout_expired
  <2>1. /\ turn = "idle" /\ turn' \in {"idle", "sync"} /\ forceFlag' = FALSE
        /\ lazyFlag' = FALSE /\ timer' = flushFlag'
        /\ flushFlag' \in {FALSE, flushFlag, ~forceFlag'}
        /\ Flush \/ (turn' = "idle" /\ UNCHANGED <<main, buffer, needSync>>)
        /\ UNCHANGED <<clientVars, begin, waiting, immediate, syncPromises, new, slots,
                       ghostVars>>
    BY <1>5 DEF timeout_expired, try_flush, actorVars
  <2>2. FlushStep
    BY <1>1, <2>1 DEF FlushStep, ghostVars
  <2>3. flushFlag' \in BOOLEAN /\ needSync' \in BOOLEAN
    BY <1>0, <1>1, <2>1
  <2> QED
    BY <1>0, <1>2, <2>1, <2>2, <2>3 DEF Turns
<1>6. CASE Close \/ close_and_destroy
  <2>1. /\ turn = "idle" /\ turn' \in {"closing", "unlinkNew"} /\ Flush
        /\ waiting = {} /\ \A t \in Threads : call[t] = NoCall
        /\ UNCHANGED <<clientVars, begin, waiting, immediate, syncPromises, forceFlag,
                       lazyFlag, flushFlag, timer, new, slots, ghostVars>>
    BY <1>6 DEF Close, close_and_destroy, Ended, actorVars, timerVars
  <2>2. FlushStep
    BY <1>1, <2>1 DEF FlushStep, ghostVars
  <2> QED
    BY <1>0, <1>1, <1>2, <2>1, <2>2 DEF Turns
<1> QED
  BY <1>3, <1>4, <1>5, <1>6 DEF QuietStep

LEMMA QuietKeepsTypes ==
  ASSUME TypeOK, SyncInv, MainInv, FileInv, NewInv, QuietStep PROVE TypeOK'
<1>1. /\ FlushStep
      /\ UNCHANGED <<clientVars, begin, waiting, slots, ghostVars>>
      /\ immediate' \subseteq immediate
      /\ \A p \in syncPromises' : p \in syncPromises \/ \E i \in immediate : i.upto = p
      /\ forceFlag' \in BOOLEAN /\ lazyFlag' \in BOOLEAN /\ flushFlag' \in BOOLEAN
      /\ timer' \in BOOLEAN /\ needSync' \in BOOLEAN /\ turn' \in Turns
  BY QuietIs
<1>2. syncPromises' \subseteq Places
  BY <1>1 DEF TypeOK
<1>3. main' \in Files /\ buffer' \in Seq(Events)
  <2>1. CASE Flush
    BY <1>1, <2>1, FlushIs, EmptySeq DEF FlushStep
  <2>2. CASE UNCHANGED <<main, buffer>>
    BY <2>2 DEF TypeOK
  <2> QED
    BY <1>1, <2>1, <2>2 DEF FlushStep
<1> QED
  BY <1>1, <1>2, <1>3 DEF TypeOK, FlushStep, clientVars, ghostVars

LEMMA ReindexKeepsTypes ==
  ASSUME TypeOK, NumberInv, MainInv, FileInv, NewInv, Reindex \/ UnlinkNew
  PROVE  TypeOK'
<1>1. /\ UNCHANGED <<clientVars, actorVars, timerVars, slots, ghostVars>>
      /\ turn' \in Turns
  BY DEF Reindex, OpenNew, OpenFails, WriteNew, Barrier, UnlinkOld, RenameNew, UnlinkNew,
         ReindexStep, Turns, Reindexing
<1>2. Synced(new) \in Files
  <2>1. new \in Files /\ Len(new.data) \in Nat
    BY FilesAre DEF TypeOK
  <2> QED
    BY <2>1 DEF Synced, Files
<1>3. NewFile \in Files /\ NoFile \in Files /\ <<>> \in Seq(Events)
  BY NewFileIs, NoFileIs, EmptySeq
<1>4. WriteNew => new' \in Files
  BY WriteNewKeepsFiles
<1>5. /\ main' \in {main, new, NoFile} /\ buffer' \in {buffer, <<>>}
      /\ needSync' \in {needSync, FALSE}
      /\ WriteNew \/ new' \in {new, NoFile, NewFile, Synced(new)}
  BY DEF Reindex, OpenNew, OpenFails, WriteNew, Barrier, UnlinkOld, RenameNew, UnlinkNew,
         fileVars, NewSynced
<1>6. /\ main' \in Files /\ new' \in Files /\ buffer' \in Seq(Events)
      /\ needSync' \in BOOLEAN
  BY <1>2, <1>3, <1>4, <1>5 DEF TypeOK
<1> QED
  BY <1>1, <1>6 DEF TypeOK, clientVars, actorVars, timerVars, ghostVars

LEMMA SyncEndsKeepsTypes ==
  ASSUME IInv, SyncEnds PROVE TypeOK'
<1>0. TypeOK /\ MainInv /\ FileInv /\ NewInv
  BY DEF IInv
<1>1. /\ turn' = "idle" /\ main' = SyncedMain /\ needSync' = FALSE /\ syncPromises' = {}
      /\ UNCHANGED <<clientVars, actorVars, forceFlag, lazyFlag, flushFlag, timer,
                     buffer, new, slots, history, boot, crashes>>
  BY DEF SyncEnds
<1>2. SyncedMain \in Files
  BY <1>0, SyncedMainIs DEF SyncEnds
<1>3. promised' \in Places
  <2>1. promised' \in Nat /\ promised' <= Len(history)
    BY SyncEndsSaves
  <2>2. Len(history) \in Nat /\ Len(history) <= MaxWrites /\ MaxWrites \in Nat
    BY <1>0, NumbersAre, BinlogAssumption DEF TypeOK
  <2> QED
    BY <2>1, <2>2 DEF Places
<1> QED
  BY <1>0, <1>1, <1>2, <1>3 DEF TypeOK, Turns, clientVars, actorVars

LEMMA FrontIs ==
  ASSUME NEW S, NEW s \in Seq(S), NEW n \in 0 .. Len(s)
  PROVE  SubSeq(s, 1, n) \in Seq(S) /\ Len(SubSeq(s, 1, n)) = n
BY SubSeqProperties, LenProperties

LEMMA WholeIs ==
  ASSUME NEW S, NEW s \in Seq(S) PROVE SubSeq(s, 1, Len(s)) = s
<1>1. Len(s) \in 0 .. Len(s) /\ Len(s) \in Nat
  BY LenProperties
<1>2. /\ SubSeq(s, 1, Len(s)) \in Seq(S) /\ Len(SubSeq(s, 1, Len(s))) = Len(s)
      /\ \A i \in 1 .. Len(s) : SubSeq(s, 1, Len(s))[i] = s[i]
  BY <1>1, SubSeqProperties
<1> QED
  BY <1>2, SeqEqual

LEMMA EndsKeepsTypes ==
  ASSUME TypeOK, NEW n, Ends(n), promised' \in Places, crashes' \in 0 .. MaxCrashes
  PROVE  TypeOK'
<1>1. /\ map' = [k \in Keys |-> NoKey] /\ lastId' = 0
      /\ call' = [t \in Threads |-> NoCall] /\ wrote' = [t \in Threads |-> 0]
      /\ begin' = 1 /\ waiting' = {} /\ immediate' = {} /\ syncPromises' = {}
      /\ forceFlag' = FALSE /\ lazyFlag' = FALSE /\ flushFlag' = FALSE
      /\ timer' = FALSE /\ turn' = "off" /\ buffer' = <<>> /\ needSync' = FALSE
      /\ slots' = <<>> /\ boot' = 0 /\ main' \in Files /\ new' \in Files
      /\ history' = SubSeq(history, 1, n) /\ n \in 0 .. Len(history)
  BY DEF Ends, ProcessEnds
<1>2. 0 \in Places /\ 1 \in 1 .. MaxWrites + 1 /\ NoCall \in Calls /\ MaxWrites \in Nat
      /\ NoKey \in [val : Values \cup {NoVal}, id : Places]
  BY BinlogAssumption DEF Places, Calls, NoKey
<1>3. /\ history' \in Seq([key : Keys, val : Values \cup {NoVal}])
      /\ Len(history') <= MaxWrites
  <2>1. history \in Seq([key : Keys, val : Values \cup {NoVal}])
        /\ Len(history) \in Nat /\ Len(history) <= MaxWrites
    BY LenProperties DEF TypeOK
  <2>2. SubSeq(history, 1, n) \in Seq([key : Keys, val : Values \cup {NoVal}])
        /\ Len(SubSeq(history, 1, n)) = n
    BY <1>1, <2>1, FrontIs
  <2> QED
    BY <1>1, <1>2, <2>1, <2>2
<1>4. /\ map' \in [Keys -> [val : Values \cup {NoVal}, id : Places]]
      /\ call' \in [Threads -> Calls] /\ wrote' \in [Threads -> Places]
  BY <1>1, <1>2
<1>5. <<>> \in Seq(Events) /\ <<>> \in Seq([id : Ids, key : Keys, val : Values \cup {NoVal}])
  BY EmptySeq
<1> QED
  BY <1>1, <1>2, <1>3, <1>4, <1>5 DEF TypeOK, Turns

LEMMA InitKeepsTypes ==
  ASSUME TypeOK, OffInv, MainInv, init PROVE TypeOK'
<1>1. /\ turn' \in {"fatal", "open", "idle"} /\ lastId' \in 0 .. Len(history)
      /\ boot' \in Nat /\ begin' = lastId' + 1
      /\ slots' \in Seq(SlotsTo(Len(history)))
      /\ map' \in [Keys -> [val : Values \cup {NoVal}, id : 0 .. Len(history)]]
      /\ call' = [t \in Threads |-> NoCall] /\ wrote' = [t \in Threads |-> 0]
      /\ waiting' = {} /\ immediate' = {} /\ syncPromises' = {} /\ buffer' = <<>>
      /\ ~needSync' /\ history' = history
  BY InitReads
<1>2. UNCHANGED <<call, wrote, waiting, immediate, timerVars, buffer, needSync,
                  history, promised, crashes>>
  BY DEF init
<1>3. main' \in Files /\ new' \in Files
  BY InitOpens
<1>4. Len(history) \in Nat /\ Len(history) <= MaxWrites /\ MaxWrites \in Nat
  BY NumbersAre, BinlogAssumption DEF TypeOK
<1>5. lastId' \in Places /\ begin' \in 1 .. MaxWrites + 1
  <2>1. PICK l \in 0 .. Len(history) : l = lastId'
    BY <1>1
  <2>2. l \in 0 .. MaxWrites /\ l + 1 \in 1 .. MaxWrites + 1
    BY <1>4
  <2> QED
    BY <1>1, <2>1, <2>2, Zenon DEF Places
<1>6. map' \in [Keys -> [val : Values \cup {NoVal}, id : Places]]
  BY <1>1, <1>4 DEF Places
<1>7. slots' \in Seq([id : Ids, key : Keys, val : Values \cup {NoVal}])
  <2>1. slots' \in Seq(SlotsTo(MaxWrites))
    BY <1>1, <1>4, SlotsGrow
  <2> QED
    BY <2>1 DEF SlotsTo, Ids
<1> QED
  BY <1>1, <1>2, <1>3, <1>5, <1>6, <1>7 DEF TypeOK, Turns, Reindexing, timerVars

-----------------------------------------------------------------------------
(* The invariant is inductive, and every step is one of the map that the   *)
(* files implement.                                                        *)

StoreStep == Store!Next \/ StoreSame

LEMMA StoreKeepsPromise ==
  ASSUME PromiseInv, promised \in Nat, Saved \in Nat, StoreStep
  PROVE  PromiseInv'
<1>1. CASE Store!Write \/ StoreSame
  BY <1>1 DEF PromiseInv, Store!Write, StoreSame
<1>2. CASE Store!Save
  <2>1. promised' \in promised .. Saved'
    BY <1>2 DEF Store!Save
  <2>2. \A p, a, b : p \in a .. b => p <= b
    OBVIOUS
  <2> QED
    BY <2>1, <2>2, Zenon DEF PromiseInv
<1>3. CASE Store!Crash
  <2>1. PICK S \in Saved .. Len(history') : S = Saved'
    BY <1>3 DEF Store!Crash
  <2>2. promised' = promised
    BY <1>3 DEF Store!Crash
  <2>3. promised <= S
    BY <2>1 DEF PromiseInv
  <2> QED
    BY <2>1, <2>2, <2>3, Zenon DEF PromiseInv
<1>4. CASE Store!Destroy
  BY <1>4 DEF Store!Destroy, PromiseInv
<1> QED
  BY <1>1, <1>2, <1>3, <1>4 DEF StoreStep, Store!Next

(* What a step keeps, the promise following from the rest.                 *)
LEMMA StepKeeps ==
  ASSUME IInv, StoreStep, TypeOK', OffInv', NumberInv', WaitingInv', SyncInv', MainInv',
         FileInv', NewInv', OweInv'
  PROVE  IInv' /\ StoreStep
<1>1. promised \in Nat /\ Saved \in Nat
  <2>1. promised \in Places
    BY DEF IInv, TypeOK
  <2>2. Saved \in Nat
    BY SurvivorIs DEF IInv
  <2> QED
    BY <2>1, <2>2 DEF Places
<1>2. PromiseInv'
  BY <1>1, StoreKeepsPromise DEF IInv
<1> QED
  BY <1>2 DEF IInv

LEMMA InitInvariant == Init => IInv /\ Store!Init
<1> SUFFICES ASSUME Init PROVE IInv /\ Store!Init
  OBVIOUS
<1>0. /\ map = [k \in Keys |-> NoKey] /\ lastId = 0
      /\ call = [t \in Threads |-> NoCall] /\ wrote = [t \in Threads |-> 0]
      /\ begin = 1 /\ waiting = {} /\ immediate = {} /\ syncPromises = {}
      /\ forceFlag = FALSE /\ lazyFlag = FALSE /\ flushFlag = FALSE
      /\ timer = FALSE /\ turn = "off" /\ buffer = <<>> /\ needSync = FALSE
      /\ slots = <<>> /\ main = NoFile /\ new = NoFile
      /\ history = <<>> /\ boot = 0 /\ promised = 0 /\ crashes = 0
  BY DEF Init
<1>1. TypeOK
  <2>1. /\ 0 \in Places /\ 1 \in 1 .. MaxWrites + 1 /\ 0 \in 0 .. MaxCrashes
        /\ NoCall \in Calls /\ NoKey \in [val : Values \cup {NoVal}, id : Places]
    BY BinlogAssumption DEF Places, Calls, NoKey
  <2>2. /\ map \in [Keys -> [val : Values \cup {NoVal}, id : Places]]
        /\ call \in [Threads -> Calls] /\ wrote \in [Threads -> Places]
    BY <1>0, <2>1
  <2>3. /\ <<>> \in Seq(Events)
        /\ <<>> \in Seq([id : Ids, key : Keys, val : Values \cup {NoVal}])
        /\ <<>> \in Seq([key : Keys, val : Values \cup {NoVal}]) /\ Len(<<>>) = 0
    BY EmptySeq
  <2>4. NoFile \in Files
    BY NoFileIs
  <2>5. 0 <= MaxWrites
    BY BinlogAssumption
  <2> QED
    BY <1>0, <2>1, <2>2, <2>3, <2>4, <2>5 DEF TypeOK, Turns
<1>2. NumberInv /\ WaitingInv /\ SyncInv /\ MainInv /\ FileInv /\ NewInv
  BY InitNumbers, InitFiles
<1>3. Survivor = NoFile
  BY <1>0 DEF Survivor
<1>4. Saved = 0
  BY <1>3, NoFileIs DEF Saved, WritesIn
<1>5. OffInv
  <2>1. Readable(NoFile.data) = NoFile.data
    <3>1. NoFile.data \in Seq(Events \cup {Torn}) /\ \A i \in 1 .. Len(NoFile.data) : FALSE
      BY NoFileIs, FilesAre
    <3> QED
      BY <3>1, ReadableIs
  <2>2. WritesIn(Survivor, Len(Readable(Survivor.data))) = 0
    BY <1>3, <2>1, NoFileIs DEF WritesIn
  <2>3. Len(history) = 0
    BY <1>0, EmptySeq
  <2> QED
    BY <1>0, <2>2, <2>3 DEF OffInv
<1>6. OweInv /\ PromiseInv
  BY <1>0, <1>4 DEF OweInv, PromiseInv
<1> QED
  BY <1>0, <1>1, <1>2, <1>4, <1>5, <1>6 DEF IInv, Store!Init

(* A process that ends, but for destroy, is a crash of the map.            *)
LEMMA CrashKeeps ==
  ASSUME IInv, NEW n \in Nat, Ends(n), UNCHANGED promised, crashes' \in 0 .. MaxCrashes,
         Saved <= n, Saved' \in {Saved, n}
  PROVE  IInv' /\ StoreStep
<1>0. TypeOK /\ Saved \in Nat
  BY SurvivorIs DEF IInv
<1>1. /\ OffInv' /\ NumberInv' /\ WaitingInv' /\ SyncInv' /\ MainInv' /\ FileInv'
      /\ NewInv' /\ OweInv'
      /\ Len(history') = n /\ history' = SubSeq(history, 1, n)
  BY <1>0, EndsIs
<1>2. TypeOK'
  <2>1. promised' \in Places
    BY <1>0 DEF TypeOK
  <2> QED
    BY <1>0, <2>1, EndsKeepsTypes
<1>3. n \in 0 .. Len(history) /\ Len(history) \in Nat
  BY <1>0, NumbersAre DEF Ends
<1>4. n \in Saved .. Len(history) /\ Saved \in Saved .. n /\ n \in Saved .. n
  BY <1>0, <1>3
<1>5. Store!Crash
  BY <1>1, <1>4, Zenon DEF Store!Crash
<1>6. StoreStep
  BY <1>5 DEF StoreStep, Store!Next
<1> QED
  BY <1>1, <1>2, <1>6, StepKeeps

LEMMA CloseKeeps ==
  ASSUME IInv, CloseEnds PROVE IInv' /\ StoreStep
<1>0. TypeOK
  BY DEF IInv
<1>1. /\ Ends(Len(history)) /\ Saved \in Nat /\ promised \in Nat
      /\ Saved <= Saved' /\ Saved' <= Len(history) /\ Saved' \in Nat
      /\ promised <= promised' /\ promised' <= Saved' /\ promised' \in Nat
  BY CloseEndsEnds
<1>2. /\ OffInv' /\ NumberInv' /\ WaitingInv' /\ SyncInv' /\ MainInv' /\ FileInv'
      /\ NewInv' /\ OweInv'
      /\ history' = SubSeq(history, 1, Len(history))
  BY <1>0, <1>1, EndsIs
<1>3. Len(history) \in Nat /\ Len(history) <= MaxWrites /\ MaxWrites \in Nat
  BY <1>0, NumbersAre, BinlogAssumption DEF TypeOK
<1>4. history' = history
  <2>1. history \in Seq([key : Keys, val : Values \cup {NoVal}])
    BY <1>0 DEF TypeOK
  <2>2. SubSeq(history, 1, Len(history)) = history
    BY <2>1, WholeIs
  <2> QED
    BY <1>2, <2>2
<1>5. PICK S \in Nat, P \in Nat : S = Saved' /\ P = promised'
  BY <1>1
<1>6. /\ S \in Saved .. Len(history) /\ P \in promised .. S /\ P \in Places
  <2>1. Saved <= S /\ S <= Len(history) /\ promised <= P /\ P <= S
    BY <1>1, <1>5, Zenon
  <2> QED
    BY <1>1, <1>3, <2>1 DEF Places
<1>7. Store!Save
  BY <1>4, <1>5, <1>6, Zenon DEF Store!Save
<1>8. TypeOK'
  <2>1. crashes' \in 0 .. MaxCrashes
    BY <1>0 DEF CloseEnds, TypeOK
  <2> QED
    BY <1>0, <1>1, <1>5, <1>6, <2>1, EndsKeepsTypes
<1>9. StoreStep
  BY <1>7 DEF StoreStep, Store!Next
<1> QED
  BY <1>2, <1>8, <1>9, StepKeeps

LEMMA UnlinkMainKeeps ==
  ASSUME IInv, UnlinkMain PROVE IInv' /\ StoreStep
<1>0. TypeOK
  BY DEF IInv
<1>1. Ends(0) /\ Saved' = 0 /\ promised' = 0
  BY UnlinkMainEnds
<1>2. /\ OffInv' /\ NumberInv' /\ WaitingInv' /\ SyncInv' /\ MainInv' /\ FileInv'
      /\ NewInv' /\ OweInv' /\ Len(history') = 0 /\ history' = SubSeq(history, 1, 0)
  BY <1>0, <1>1, EndsIs
<1>3. TypeOK'
  <2>1. crashes' \in 0 .. MaxCrashes /\ promised' \in Places
    BY <1>0, <1>1, BinlogAssumption DEF UnlinkMain, TypeOK, Places
  <2> QED
    BY <1>0, <1>1, <2>1, EndsKeepsTypes
<1>4. history' = <<>>
  BY <1>2, <1>3, EmptySeq DEF TypeOK
<1>5. StoreStep
  BY <1>1, <1>4 DEF StoreStep, Store!Next, Store!Destroy
<1> QED
  BY <1>2, <1>3, <1>5, StepKeeps

LEMMA InitKeeps ==
  ASSUME IInv, init PROVE IInv' /\ StoreStep
<1>1. TypeOK /\ OffInv /\ MainInv
  BY DEF IInv
<1>2. Saved' = Saved /\ MainInv' /\ FileInv' /\ NewInv' /\ OweInv'
  BY <1>1, InitOpens
<1>3. NumberInv' /\ WaitingInv' /\ SyncInv'
  BY <1>1, InitKeepsNumbers
<1>4. TypeOK'
  BY <1>1, InitKeepsTypes
<1>5. OffInv'
  <2>1. turn' # "off"
    BY <1>1, InitReads
  <2> QED
    BY <2>1 DEF OffInv
<1>6. StoreStep
  BY <1>2 DEF StoreStep, StoreSame, init
<1> QED
  BY <1>2, <1>3, <1>4, <1>5, <1>6, StepKeeps

LEMMA ThreadKeeps ==
  ASSUME IInv, NEW t \in Threads,
         \/ ForceSync(t) \/ Deliver(t)
         \/ \E k \in Keys, v \in Values \cup {NoVal} : Write(t, k, v)
  PROVE  IInv' /\ StoreStep
<1>0. /\ TypeOK /\ NumberInv /\ WaitingInv /\ SyncInv /\ MainInv /\ FileInv /\ NewInv
      /\ OweInv /\ PromiseInv
  BY DEF IInv
<1>1. ASSUME NEW k \in Keys, NEW v \in Values \cup {NoVal}, Write(t, k, v)
      PROVE  IInv' /\ StoreStep
  <2>1. /\ UNCHANGED <<main, new, buffer, begin, boot, slots, turn>> /\ turn # "off"
    BY <1>1 DEF Write, IsOpen, Reindexing, fileVars, actorVars
  <2>2. MainInv' /\ FileInv' /\ NewInv'
    BY <1>0, <2>1, SameKeepsFiles
  <2>3. NumberInv' /\ WaitingInv' /\ SyncInv'
    BY <1>0, <1>1, WriteKeepsNumbers
  <2>4. OweInv' /\ Store!Write
    BY <1>0, <1>1, WriteOwes
  <2>5. TypeOK'
    BY <1>0, <1>1, WriteKeepsTypes
  <2>6. OffInv'
    BY <2>1 DEF OffInv
  <2>7. StoreStep
    BY <2>4 DEF StoreStep, Store!Next
  <2> QED
    BY <2>2, <2>3, <2>4, <2>5, <2>6, <2>7, StepKeeps
<1>2. CASE ForceSync(t)
  <2>1. /\ UNCHANGED <<main, new, buffer, begin, boot, slots, turn>> /\ turn # "off"
        /\ UNCHANGED <<needSync, wrote, immediate, syncPromises, history, promised>>
    BY <1>2 DEF ForceSync, IsOpen, Reindexing, fileVars, actorVars, timerVars, ghostVars
  <2>2. MainInv' /\ FileInv' /\ NewInv'
    BY <1>0, <2>1, SameKeepsFiles
  <2>3. NumberInv' /\ WaitingInv' /\ SyncInv'
    BY <1>0, <1>2, ForceSyncKeepsNumbers
  <2>4. OweInv'
    BY <1>0, <2>1 DEF OweInv, Unowed, WritesIn
  <2>5. TypeOK'
    BY <1>0, <1>2, ForceSyncKeepsTypes
  <2>6. OffInv'
    BY <2>1 DEF OffInv
  <2>7. StoreStep
    BY <2>1, FilesKeepStore DEF StoreStep
  <2> QED
    BY <2>2, <2>3, <2>4, <2>5, <2>6, <2>7, StepKeeps
<1>3. CASE DeliverEvent(t)
  <2>1. /\ UNCHANGED <<main, new, buffer, begin, boot, slots>> /\ turn = "idle"
        /\ turn' = "drain"
        /\ UNCHANGED <<needSync, wrote, immediate, syncPromises, history, promised>>
    BY <1>3 DEF DeliverEvent, fileVars, timerVars, ghostVars
  <2>2. MainInv' /\ FileInv' /\ NewInv'
    <3>1. FlushStep
      BY <2>1 DEF FlushStep, DeliverEvent, fileVars
    <3> QED
      BY <1>0, <2>1, <3>1, FlushKeepsFiles
  <2>3. NumberInv' /\ WaitingInv' /\ SyncInv'
    BY <1>0, <1>3, DeliverEventKeepsNumbers
  <2>4. OweInv'
    BY <1>0, <2>1 DEF OweInv, Unowed, WritesIn
  <2>5. TypeOK'
    BY <1>0, <1>3, DeliverEventKeepsTypes
  <2>6. OffInv'
    BY <2>1 DEF OffInv
  <2>7. StoreStep
    BY <2>1, FilesKeepStore DEF StoreStep
  <2> QED
    BY <2>2, <2>3, <2>4, <2>5, <2>6, <2>7, StepKeeps
<1>4. CASE DeliverSync(t)
  <2>1. /\ UNCHANGED <<main, new, buffer, begin, boot, slots, turn>> /\ turn = "idle"
    BY <1>4 DEF DeliverSync, fileVars, ghostVars
  <2>2. MainInv' /\ FileInv' /\ NewInv'
    BY <1>0, <2>1, SameKeepsFiles
  <2>3. NumberInv' /\ WaitingInv' /\ SyncInv'
    BY <1>0, <1>4, DeliverSyncKeepsNumbers
  <2>4. OweInv' /\ StoreSame
    BY <1>0, <1>4, DeliverSyncOwes
  <2>5. TypeOK'
    <3>1. turn # "off"
      BY <2>1
    <3> QED
      BY <1>0, <1>4, <3>1, DeliverSyncKeepsTypes
  <2>6. OffInv'
    BY <2>1 DEF OffInv
  <2>7. StoreStep
    BY <2>4 DEF StoreStep
  <2> QED
    BY <2>2, <2>3, <2>4, <2>5, <2>6, <2>7, StepKeeps
<1> QED
  BY <1>1, <1>2, <1>3, <1>4 DEF Deliver

LEMMA DrainKeeps ==
  ASSUME IInv, NEW e \in waiting, Drain(e) PROVE IInv' /\ StoreStep
<1>0. /\ TypeOK /\ NumberInv /\ WaitingInv /\ SyncInv /\ MainInv /\ FileInv /\ NewInv
      /\ OweInv
  BY DEF IInv
<1>1. NumberInv' /\ WaitingInv' /\ SyncInv'
  BY <1>0, DrainKeepsNumbers
<1>2. MainInv' /\ FileInv' /\ NewInv'
  BY <1>0, DrainKeepsFiles
<1>3. OweInv' /\ StoreSame
  BY <1>0, DrainOwes
<1>4. TypeOK'
  BY <1>0, DrainKeepsTypes
<1>5. OffInv'
  BY DEF Drain, OffInv
<1>6. StoreStep
  BY <1>3 DEF StoreStep
<1> QED
  BY <1>1, <1>2, <1>3, <1>4, <1>5, <1>6, StepKeeps

LEMMA QuietKeeps ==
  ASSUME IInv, QuietStep PROVE IInv' /\ StoreStep
<1>0. /\ TypeOK /\ NumberInv /\ WaitingInv /\ SyncInv /\ MainInv /\ FileInv /\ NewInv
      /\ OweInv
  BY DEF IInv
<1>1. /\ FlushStep /\ turn # "off" /\ turn' # "off"
      /\ UNCHANGED <<clientVars, begin, waiting, slots, ghostVars>>
      /\ immediate' \subseteq immediate
      /\ \A p \in syncPromises' : p \in syncPromises \/ \E i \in immediate : i.upto = p
      /\ \A p \in syncPromises' : p <= Taken
      /\ turn' \in {"closing", "unlinkNew", "unlinkMain"} =>
           waiting = {} /\ \A t \in Threads : call[t] = NoCall
  BY <1>0, QuietIs
<1>2. UNCHANGED <<wrote, history, boot, promised>>
  BY <1>1 DEF clientVars, ghostVars
<1>3. NumberInv' /\ WaitingInv' /\ SyncInv'
  BY <1>0, <1>1, <1>2, QuietKeepsNumbers
<1>4. MainInv' /\ FileInv' /\ NewInv'
  BY <1>0, <1>1, FlushKeepsFiles
<1>5. OweInv' /\ StoreSame
  BY <1>0, <1>1, <1>2, FlushOwes
<1>6. TypeOK'
  BY <1>0, QuietKeepsTypes
<1>7. OffInv'
  BY <1>1 DEF OffInv
<1>8. StoreStep
  BY <1>5 DEF StoreStep
<1> QED
  BY <1>3, <1>4, <1>5, <1>6, <1>7, <1>8, StepKeeps

LEMMA ReindexKeeps ==
  ASSUME IInv, Reindex \/ UnlinkNew PROVE IInv' /\ StoreStep
<1>0. /\ TypeOK /\ NumberInv /\ WaitingInv /\ SyncInv /\ MainInv /\ FileInv /\ NewInv
      /\ OweInv /\ PromiseInv
  BY DEF IInv
<1>1. /\ turn # "off" /\ turn' # "off"
      /\ turn' \in {"closing", "unlinkNew", "unlinkMain"} => turn = "unlinkNew"
      /\ UNCHANGED <<clientVars, begin, waiting, slots, history, boot>>
      /\ UNCHANGED <<immediate, syncPromises>>
  BY DEF Reindex, OpenNew, OpenFails, WriteNew, Barrier, UnlinkOld, RenameNew, UnlinkNew,
         ReindexStep, actorVars, timerVars, ghostVars
<1>2. NumberInv' /\ WaitingInv' /\ SyncInv'
  <2>1. \A p \in syncPromises' : p <= Taken
    BY <1>0, <1>1 DEF SyncInv
  <2>2. turn' \in {"closing", "unlinkNew", "unlinkMain"} =>
           waiting = {} /\ \A t \in Threads : call[t] = NoCall
    BY <1>0, <1>1 DEF WaitingInv
  <2> QED
    BY <1>0, <1>1, <2>1, <2>2, QuietKeepsNumbers
<1>3. MainInv' /\ FileInv' /\ NewInv'
  BY <1>0, OpenNewKeepsFiles, OpenFailsKeepsFiles, WriteNewKeepsFiles, BarrierKeepsFiles,
     UnlinkOldKeepsFiles, RenameNewKeepsFiles, UnlinkNewKeepsFiles DEF Reindex
<1>4. OweInv' /\ StoreStep
  <2>1. CASE OpenNew \/ OpenFails \/ WriteNew \/ Barrier \/ UnlinkNew
    BY <1>0, <2>1, ReindexOwes DEF StoreStep
  <2>2. CASE UnlinkOld
    BY <1>0, <2>2, UnlinkOldSaves DEF StoreStep, Store!Next
  <2>3. CASE RenameNew
    BY <1>0, <2>3, RenameNewOwes DEF StoreStep
  <2> QED
    BY <2>1, <2>2, <2>3 DEF Reindex
<1>5. TypeOK'
  BY <1>0, ReindexKeepsTypes
<1>6. OffInv'
  BY <1>1 DEF OffInv
<1> QED
  BY <1>2, <1>3, <1>4, <1>5, <1>6, StepKeeps

LEMMA SyncKeeps ==
  ASSUME IInv, SyncEnds PROVE IInv' /\ StoreStep
<1>0. /\ TypeOK /\ NumberInv /\ WaitingInv /\ SyncInv /\ MainInv /\ FileInv /\ NewInv
  BY DEF IInv
<1>1. /\ turn = "sync" /\ turn' = "idle"
      /\ UNCHANGED <<clientVars, begin, waiting, slots, history, boot>>
      /\ immediate' = immediate /\ syncPromises' = {}
  BY DEF SyncEnds, actorVars
<1>2. NumberInv' /\ WaitingInv' /\ SyncInv'
  BY <1>0, <1>1, QuietKeepsNumbers
<1>3. MainInv' /\ FileInv' /\ NewInv'
  BY <1>0, SyncEndsKeepsFiles
<1>4. OweInv' /\ Store!Save
  BY SyncEndsSaves
<1>5. TypeOK'
  BY SyncEndsKeepsTypes
<1>6. OffInv'
  BY <1>1 DEF OffInv
<1>7. StoreStep
  BY <1>4 DEF StoreStep, Store!Next
<1> QED
  BY <1>2, <1>3, <1>4, <1>5, <1>6, <1>7, StepKeeps

LEMMA KillKeeps ==
  ASSUME IInv, Kill \/ PowerLoss PROVE IInv' /\ StoreStep
<1>0. /\ TypeOK /\ OffInv /\ NumberInv /\ MainInv /\ FileInv /\ NewInv
  BY DEF IInv
<1>1. PICK n \in Nat : /\ Ends(n) /\ Saved' \in {Saved, n} /\ Saved <= n
                       /\ UNCHANGED promised
  BY <1>0, KillEnds, PowerLossEnds
<1>2. crashes' \in 0 .. MaxCrashes
  <2>1. crashes \in 0 .. MaxCrashes
    BY <1>0 DEF TypeOK
  <2>2. crashes < MaxCrashes /\ crashes' = crashes + 1
    BY DEF Kill, PowerLoss
  <2> QED
    BY <2>1, <2>2, BinlogAssumption
<1> QED
  BY <1>1, <1>2, CrashKeeps

LEMMA NextInvariant == IInv /\ [Next]_vars => IInv' /\ StoreStep
<1> SUFFICES ASSUME IInv, [Next]_vars PROVE IInv' /\ StoreStep
  OBVIOUS
<1>1. CASE init
  BY <1>1, InitKeeps
<1>2. CASE Kill \/ PowerLoss
  BY <1>2, KillKeeps
<1>3. CASE \E e \in waiting : Drain(e)
  BY <1>3, DrainKeeps
<1>4. CASE QuietStep
  BY <1>4, QuietKeeps
<1>5. CASE Reindex \/ UnlinkNew
  BY <1>5, ReindexKeeps
<1>6. CASE SyncEnds
  BY <1>6, SyncKeeps
<1>7. CASE CloseEnds
  BY <1>7, CloseKeeps
<1>8. CASE UnlinkMain
  BY <1>8, UnlinkMainKeeps
<1>9. CASE \E t \in Threads : \/ ForceSync(t) \/ Deliver(t)
                             \/ \E k \in Keys, v \in Values \cup {NoVal} : Write(t, k, v)
  BY <1>9, ThreadKeeps
<1>10. CASE UNCHANGED vars
  <2>1. /\ UNCHANGED <<map, lastId, call, wrote, begin, waiting, immediate, syncPromises,
                       forceFlag, lazyFlag, flushFlag, timer, turn, buffer, needSync>>
        /\ UNCHANGED <<main, new, slots, history, boot, promised, crashes>>
    BY <1>10 DEF vars, clientVars, timerVars, actorVars, fileVars, ghostVars
  <2>2. StoreStep
    BY <2>1, FilesKeepStore DEF StoreStep
  <2>3. TypeOK' /\ OffInv'
    BY <2>1 DEF IInv, TypeOK, OffInv, Survivor, WritesIn
  <2>4. NumberInv' /\ WaitingInv' /\ SyncInv'
    BY <2>1 DEF IInv, NumberInv, WaitingInv, SyncInv, ThreadInv, EventInv, Sending, Sent,
                Taken
  <2>5. MainInv' /\ FileInv' /\ NewInv'
    <3>1. MainInv /\ FileInv /\ NewInv
      BY DEF IInv
    <3> QED
      BY <2>1, <3>1, SameKeepsFiles
  <2>6. OweInv'
    BY <2>1 DEF IInv, OweInv, Unowed, WritesIn
  <2> QED
    BY <2>2, <2>3, <2>4, <2>5, <2>6, StepKeeps
<1> QED
  BY <1>1, <1>2, <1>3, <1>4, <1>5, <1>6, <1>7, <1>8, <1>9, <1>10
  DEF Next, Actor, QuietStep

-----------------------------------------------------------------------------
(* The theorems.                                                           *)

(* The store's numbers, queues and files have their types: no number runs  *)
(* past the writes that were made, in whatever order the events arrive and *)
(* wherever the process dies.                                              *)
THEOREM BinlogTypes == Spec => []TypeOK
<1>1. Init => IInv
  BY InitInvariant
<1>2. IInv /\ [Next]_vars => IInv'
  BY NextInvariant
<1>3. IInv => TypeOK
  BY DEF IInv
<1> QED
  BY <1>1, <1>2, <1>3, PTL DEF Spec

(* Whenever the machine stops, the writes of which a caller was told that  *)
(* they are saved are among those that the files still hold, and those are *)
(* the oldest of the history.                                              *)
THEOREM PromisesSurvive == Spec => []Store!PromisesHold
<1>1. Init => IInv
  BY InitInvariant
<1>2. IInv /\ [Next]_vars => IInv'
  BY NextInvariant
<1>3. IInv => Store!PromisesHold
  <2> SUFFICES ASSUME IInv PROVE Store!PromisesHold
    OBVIOUS
  <2>1. Saved <= Len(history)
    BY SurvivorIs DEF IInv
  <2> QED
    BY <2>1 DEF IInv, PromiseInv, Store!PromisesHold
<1> QED
  BY <1>1, <1>2, <1>3, PTL DEF Spec

(* The files, and do_reindex's replacing of them, implement the map of     *)
(* DurableMap: each step of the store is a write, a save, a crash or a     *)
(* destruction of that map, or none of it.  Above all a promise is kept    *)
(* only of what is on the disk, and a crash loses only the newest writes,  *)
(* none of them promised.                                                  *)
THEOREM FilesAreTheMap == Spec => Implements
<1>1. Init => IInv /\ Store!Init
  BY InitInvariant
<1>2. IInv /\ [Next]_vars => IInv'
  BY NextInvariant
<1>3. IInv /\ [Next]_vars => [Store!Next]_(Store!vars)
  BY NextInvariant DEF StoreStep, StoreSame, Store!vars
<1> QED
  BY <1>1, <1>2, <1>3, PTL DEF Spec, Implements, Store!Spec

-----------------------------------------------------------------------------
(* What a user of the store may rely on.  It follows from the promises of  *)
(* DurableMap alone, whatever plays the part of its writes and of what is  *)
(* durable: Saved is taken for any number, history for any list.           *)

StoreInv == Store!TypeOK /\ Store!PromisesHold

(* What a crash leaves: the first n writes, as they were.                  *)
LEMMA CrashKeepsFirst ==
  ASSUME NEW ws \in Seq(Store!Writes), NEW n \in 0 .. Len(ws)
  PROVE  /\ SubSeq(ws, 1, n) \in Seq(Store!Writes)
         /\ Len(SubSeq(ws, 1, n)) = n
         /\ \A i \in 1 .. n : SubSeq(ws, 1, n)[i] = ws[i]
<1>1. Len(ws) \in Nat /\ n \in Nat
  BY LenProperties
<1>2. \A i \in 1 .. n : ws[i] \in Store!Writes
  BY <1>1, ElementOfSeq
<1>3. /\ SubSeq(ws, 1, n) \in Seq(Store!Writes)
      /\ Len(SubSeq(ws, 1, n)) = IF 1 <= n THEN n - 1 + 1 ELSE 0
      /\ \A i \in 1 .. n - 1 + 1 : SubSeq(ws, 1, n)[i] = ws[1 + i - 1]
  BY <1>1, <1>2, SubSeqProperties
<1> QED
  BY <1>1, <1>3

(* A write that is appended changes none before it.                        *)
LEMMA WriteKeepsAll ==
  ASSUME NEW ws \in Seq(Store!Writes), NEW w \in Store!Writes
  PROVE  /\ Append(ws, w) \in Seq(Store!Writes)
         /\ Len(Append(ws, w)) = Len(ws) + 1
         /\ \A i \in 1 .. Len(ws) : Append(ws, w)[i] = ws[i]
BY AppendProperties

LEMMA StoreStepKeeps ==
  ASSUME StoreInv, [Store!Next]_(Store!vars)
  PROVE  StoreInv'
<1> USE DEF StoreInv, Store!TypeOK, Store!PromisesHold
<1>0. Len(history) \in Nat
  BY LenProperties
<1>1. CASE Store!Write
  <2>1. PICK w \in Store!Writes : history' = Append(history, w)
    BY <1>1 DEF Store!Write
  <2>2. Saved' = Saved /\ promised' = promised
    BY <1>1 DEF Store!Write
  <2> QED
    BY <1>0, <2>1, <2>2, WriteKeepsAll
<1>2. CASE Store!Save
  BY <1>0, <1>2 DEF Store!Save
<1>3. CASE Store!Crash
  <2>1. PICK n \in Saved .. Len(history) : history' = SubSeq(history, 1, n)
    BY <1>3 DEF Store!Crash
  <2>2. Saved' \in Saved .. Len(history') /\ promised' = promised
    BY <1>3 DEF Store!Crash
  <2>3. history' \in Seq(Store!Writes) /\ Len(history') = n
    BY <1>0, <2>1, CrashKeepsFirst
  <2> QED
    BY <1>0, <2>1, <2>2, <2>3
<1>4. CASE Store!Destroy
  BY <1>4, EmptySeq DEF Store!Destroy
<1>5. CASE UNCHANGED Store!vars
  BY <1>5 DEF Store!vars
<1> QED
  BY <1>1, <1>2, <1>3, <1>4, <1>5 DEF Store!Next

(* A caller that was told its write is saved finds it in the map, and it   *)
(* survives a crash; the counters are what they are said to be.            *)
THEOREM PromisesAreKept == Store!Spec => [](Store!TypeOK /\ Store!PromisesHold)
<1>1. Store!Init => StoreInv
  BY EmptySeq DEF Store!Init, StoreInv, Store!TypeOK, Store!PromisesHold
<1>2. StoreInv /\ [Store!Next]_(Store!vars) => StoreInv'
  BY StoreStepKeeps
<1> QED
  BY <1>1, <1>2, PTL DEF Store!Spec, StoreInv

(* No write that was promised is changed or lost by a step of DurableMap,  *)
(* however often the process crashes, until the map is destroyed.          *)
THEOREM PromisedWritesStay == Store!Spec => Store!PromisedStay
<1> DEFINE Stays == \/ history' = <<>> /\ promised' = 0
                    \/ /\ promised <= Len(history')
                       /\ \A i \in 1 .. promised : history'[i] = history[i]
<1>1. StoreInv /\ [Store!Next]_(Store!vars) => [Stays]_(Store!vars)
  <2> SUFFICES ASSUME StoreInv, Store!Next PROVE Stays
    OBVIOUS
  <2> USE DEF StoreInv, Store!TypeOK, Store!PromisesHold
  <2>0. Len(history) \in Nat
    BY LenProperties
  <2>1. CASE Store!Write
    <3>1. PICK w \in Store!Writes : history' = Append(history, w)
      BY <2>1 DEF Store!Write
    <3> QED
      BY <2>0, <3>1, WriteKeepsAll
  <2>2. CASE Store!Save
    BY <2>0, <2>2 DEF Store!Save
  <2>3. CASE Store!Crash
    <3>1. PICK n \in Saved .. Len(history) : history' = SubSeq(history, 1, n)
      BY <2>3 DEF Store!Crash
    <3> QED
      BY <2>0, <3>1, CrashKeepsFirst
  <2>4. CASE Store!Destroy
    BY <2>4 DEF Store!Destroy
  <2> QED
    BY <2>1, <2>2, <2>3, <2>4 DEF Store!Next
<1>2. Store!Spec => []StoreInv
  BY PromisesAreKept, PTL DEF StoreInv
<1> QED
  BY <1>1, <1>2, PTL DEF Store!Spec, Store!PromisedStay

(* The same of TDLib's store itself: what a caller was told is saved stays *)
(* the same whatever flushes, do_reindexes, crashes and recoveries follow. *)
THEOREM SavedWritesStay == Spec => Store!PromisedStay
<1>1. Spec => Store!Spec
  BY FilesAreTheMap DEF Implements
<1> QED
  BY <1>1, PromisedWritesStay

-----------------------------------------------------------------------------
(* What the store holds.                                                   *)

(* Maps as BinlogKeyValue keeps them: a key without a value has no event.  *)
Maps == {m \in [Keys -> [val : Values \cup {NoVal}, id : Nat]] :
           \A k \in Keys : m[k].val = NoVal <=> m[k].id = 0}

Nothing == [k \in Keys |-> NoKey]

Apply(m, e) ==
  [m EXCEPT ![e.key] = IF e.val = NoVal THEN NoKey ELSE [val |-> e.val, id |-> e.id]]

(* An event that changes m is the event of its key, or a new one beyond    *)
(* the number top.                                                         *)
Fits(m, e, top) ==
  IF e.rewrite THEN m[e.key].id = e.id
               ELSE m[e.key].id = 0 /\ e.val # NoVal /\ top < e.id

(* The slots ss, with numbers up to top, are those of the map m.           *)
Ordered(ss) == \A i, j \in 1 .. Len(ss) : i < j => ss[i].id < ss[j].id

SlotOf(m, k) == [id |-> m[k].id, key |-> k, val |-> m[k].val]

Shows(ss, m, top) ==
  /\ ss \in Seq(SlotsTo(top)) /\ Ordered(ss)
  /\ \A k \in Keys : m[k].id # 0 => \E i \in 1 .. Len(ss) : ss[i] = SlotOf(m, k)
  /\ \A i \in 1 .. Len(ss) : ~Gone(ss[i]) => ss[i] = SlotOf(m, ss[i].key)

-----------------------------------------------------------------------------
LEMMA SlotsAre ==
  ASSUME NEW N \in Nat, NEW ss \in Seq(SlotsTo(N))
  PROVE  /\ Len(ss) \in Nat /\ DOMAIN ss = 1 .. Len(ss)
         /\ \A i \in 1 .. Len(ss) : /\ ss[i] \in SlotsTo(N) /\ ss[i].id \in 1 .. N
                                    /\ ss[i].key \in Keys
                                    /\ ss[i].val \in Values \cup {NoVal}
<1>1. Len(ss) \in Nat /\ DOMAIN ss = 1 .. Len(ss)
      /\ \A i \in 1 .. Len(ss) : ss[i] \in SlotsTo(N)
  BY LenProperties, ElementOfSeq
<1> QED
  BY <1>1 DEF SlotsTo

LEMMA MapsAre ==
  ASSUME NEW m \in Maps, NEW k \in Keys
  PROVE  /\ m[k] \in [val : Values \cup {NoVal}, id : Nat]
         /\ m[k].id \in Nat /\ m[k].val \in Values \cup {NoVal}
         /\ m[k].val = NoVal <=> m[k].id = 0
         /\ m[k].id = 0 => m[k] = NoKey
         /\ m[k] = [val |-> m[k].val, id |-> m[k].id]
<1>1. m[k] \in [val : Values \cup {NoVal}, id : Nat] /\ (m[k].val = NoVal <=> m[k].id = 0)
  BY DEF Maps
<1> QED
  BY <1>1 DEF NoKey

LEMMA ApplyIs ==
  ASSUME NEW m \in Maps, NEW e \in Events
  PROVE  /\ Apply(m, e) \in Maps /\ e.key \in Keys /\ e.id \in Nat \ {0}
         /\ Apply(m, e)[e.key] = IF e.val = NoVal THEN NoKey
                                 ELSE [val |-> e.val, id |-> e.id]
         /\ \A k \in Keys : k # e.key => Apply(m, e)[k] = m[k]
<1>1. /\ e.key \in Keys /\ e.id \in Nat \ {0} /\ e.val \in Values \cup {NoVal}
      /\ m \in [Keys -> [val : Values \cup {NoVal}, id : Nat]]
  BY DEF Events, Ids, Maps
<1> DEFINE cell == IF e.val = NoVal THEN NoKey ELSE [val |-> e.val, id |-> e.id]
<1>2. cell \in [val : Values \cup {NoVal}, id : Nat] /\ (cell.val = NoVal <=> cell.id = 0)
  BY <1>1 DEF NoKey
<1>3. Apply(m, e) = [m EXCEPT ![e.key] = cell]
  BY DEF Apply
<1> HIDE DEF cell
<1>4. /\ Apply(m, e) \in [Keys -> [val : Values \cup {NoVal}, id : Nat]]
      /\ Apply(m, e)[e.key] = cell
      /\ \A k \in Keys : k # e.key => Apply(m, e)[k] = m[k]
  BY <1>1, <1>2, <1>3
<1>5. \A k \in Keys : Apply(m, e)[k].val = NoVal <=> Apply(m, e)[k].id = 0
  BY <1>2, <1>4, MapsAre
<1>6. Apply(m, e) \in Maps
  BY <1>4, <1>5 DEF Maps
<1> QED
  BY <1>1, <1>4, <1>6 DEF cell

(* The slots that are left out are those of no key.                        *)
LEMMA LiveHas ==
  ASSUME NEW N \in Nat, NEW ss \in Seq(SlotsTo(N)), Ordered(ss)
  PROVE  /\ Live(ss) \in Seq(SlotsTo(N)) /\ Ordered(Live(ss))
         /\ \A i \in 1 .. Len(Live(ss)) :
              \E j \in 1 .. Len(ss) : Live(ss)[i] = ss[j] /\ ~Gone(ss[j])
         /\ \A j \in 1 .. Len(ss) :
              ~Gone(ss[j]) => \E i \in 1 .. Len(Live(ss)) : Live(ss)[i] = ss[j]
<1> DEFINE S == Seq(SlotsTo(N))
<1>1. PICK f \in [0 .. Len(ss) -> S] :
        /\ f[0] = <<>>
        /\ \A n \in 1 .. Len(ss) :
             f[n] = IF Gone(ss[n]) THEN f[n - 1] ELSE Append(f[n - 1], ss[n])
        /\ Live(ss) = f[Len(ss)]
  BY LiveSteps
<1>2. /\ Len(ss) \in Nat /\ \A i \in 1 .. Len(ss) : ss[i] \in SlotsTo(N) /\ ss[i].id \in Nat
  BY SlotsAre
<1> DEFINE Holds(q, n) ==
      /\ Ordered(q)
      /\ \A i \in 1 .. Len(q) : \E j \in 1 .. n : q[i] = ss[j] /\ ~Gone(ss[j])
      /\ \A j \in 1 .. n : ~Gone(ss[j]) => \E i \in 1 .. Len(q) : q[i] = ss[j]
<1> HIDE DEF S
<1>3. ASSUME NEW n \in 1 .. Len(ss), NEW q \in S, Holds(q, n - 1), ~Gone(ss[n])
      PROVE  Holds(Append(q, ss[n]), n)
  <2> DEFINE p == Append(q, ss[n])
  <2>1. /\ Len(q) \in Nat /\ Len(p) = Len(q) + 1 /\ p[Len(q) + 1] = ss[n]
        /\ \A i \in 1 .. Len(q) : p[i] = q[i]
    BY <1>2, LenProperties, AppendProperties DEF S
  <2> HIDE DEF p
  <2>2. \A i \in 1 .. Len(q) : \E j \in 1 .. n - 1 : p[i] = ss[j] /\ ~Gone(ss[j])
    BY <1>3, <2>1
  <2>3. ASSUME NEW i \in 1 .. Len(p), NEW j \in 1 .. Len(p), i < j
        PROVE  p[i].id < p[j].id
    <3>1. CASE j = Len(q) + 1
      <4>1. i \in 1 .. Len(q)
        BY <2>1, <2>3, <3>1
      <4>2. PICK l \in 1 .. n - 1 : p[i] = ss[l]
        BY <2>2, <4>1
      <4>3. l \in 1 .. Len(ss) /\ l < n
        BY <1>2
      <4>4. ss[l].id < ss[n].id
        BY <4>3 DEF Ordered
      <4> QED
        BY <2>1, <3>1, <4>2, <4>4
    <3>2. CASE j # Len(q) + 1
      <4>1. Ordered(q)
        BY <1>3
      <4> HIDE DEF Holds
      <4>2. i \in 1 .. Len(q) /\ j \in 1 .. Len(q)
        <5>1. PICK l \in Nat : l = Len(q)
          BY <2>1
        <5>2. i \in 1 .. l + 1 /\ j \in 1 .. l + 1 /\ i < j /\ j # l + 1
          BY <2>1, <2>3, <3>2, <5>1
        <5>3. i \in 1 .. l /\ j \in 1 .. l
          BY <5>2
        <5> QED
          BY <5>1, <5>3
      <4>3. q[i].id < q[j].id
        BY <2>3, <4>1, <4>2 DEF Ordered
      <4> QED
        BY <2>1, <4>2, <4>3
    <3> QED
      BY <3>1, <3>2
  <2>4. Ordered(p)
    BY <2>3 DEF Ordered
  <2>5. \A i \in 1 .. Len(p) : \E j \in 1 .. n : p[i] = ss[j] /\ ~Gone(ss[j])
    <3> SUFFICES ASSUME NEW i \in 1 .. Len(p)
                 PROVE  \E j \in 1 .. n : p[i] = ss[j] /\ ~Gone(ss[j])
      OBVIOUS
    <3>1. CASE i = Len(q) + 1
      BY <1>3, <2>1, <3>1
    <3>2. CASE i # Len(q) + 1
      <4>1. i \in 1 .. Len(q)
        BY <2>1, <3>2
      <4>2. PICK j \in 1 .. n - 1 : p[i] = ss[j] /\ ~Gone(ss[j])
        BY <2>2, <4>1
      <4>3. j \in 1 .. n
        BY <1>2
      <4> QED
        BY <4>2, <4>3
    <3> QED
      BY <3>1, <3>2
  <2>6. \A j \in 1 .. n : ~Gone(ss[j]) => \E i \in 1 .. Len(p) : p[i] = ss[j]
    <3> SUFFICES ASSUME NEW j \in 1 .. n, ~Gone(ss[j])
                 PROVE  \E i \in 1 .. Len(p) : p[i] = ss[j]
      OBVIOUS
    <3>1. CASE j = n
      BY <2>1, <3>1
    <3>2. CASE j # n
      <4>1. j \in 1 .. n - 1
        BY <1>2, <3>2
      <4>2. PICK i \in 1 .. Len(q) : q[i] = ss[j]
        BY <1>3, <4>1
      <4>3. i \in 1 .. Len(p) /\ p[i] = ss[j]
        BY <2>1, <4>2
      <4> QED
        BY <4>3
    <3> QED
      BY <3>1, <3>2
  <2> QED
    BY <2>4, <2>5, <2>6 DEF p
<1>4. ASSUME NEW n \in 1 .. Len(ss), NEW q \in S, Holds(q, n - 1), Gone(ss[n])
      PROVE  Holds(q, n)
  <2>1. \A j \in 1 .. n - 1 : j \in 1 .. n
    BY <1>2
  <2>2. \A j \in 1 .. n : ~Gone(ss[j]) => j \in 1 .. n - 1
    BY <1>2, <1>4
  <2> QED
    BY <1>4, <2>1, <2>2
<1> DEFINE Good == {n \in 0 .. Len(ss) : Holds(f[n], n)}
<1>5. 0 \in Good
  <2>1. f[0] = <<>> /\ Len(<<>>) = 0
    BY <1>1
  <2>2. Holds(f[0], 0)
    BY <2>1 DEF Ordered
  <2> QED
    BY <1>2, <2>2
<1>6. ASSUME NEW n \in 1 .. Len(ss), n - 1 \in Good PROVE n \in Good
  <2>1. n \in 0 .. Len(ss) /\ n - 1 \in 0 .. Len(ss) /\ f[n - 1] \in S
    BY <1>1, <1>2
  <2>2. Holds(f[n - 1], n - 1)
    BY <1>6
  <2>3. f[n] = IF Gone(ss[n]) THEN f[n - 1] ELSE Append(f[n - 1], ss[n])
    BY <1>1
  <2> HIDE DEF Holds
  <2>4. Holds(f[n], n)
    BY <1>3, <1>4, <2>1, <2>2, <2>3
  <2> QED
    BY <2>1, <2>4
<1>7. Good \in SUBSET (0 .. Len(ss)) /\ Len(ss) \in 0 .. Len(ss)
  BY <1>2
<1>8. Len(ss) \in Good
  <2> HIDE DEF Good
  <2> QED
    BY <1>2, <1>5, <1>6, <1>7, NumbersInduction
<1>9. Live(ss) \in S /\ Holds(Live(ss), Len(ss))
  BY <1>1, <1>7, <1>8
<1> QED
  BY <1>9 DEF S

LEMMA LiveShows ==
  ASSUME NEW top \in Nat, NEW m \in Maps, NEW ss, Shows(ss, m, top)
  PROVE  /\ Shows(Live(ss), m, top)
         /\ \A i \in 1 .. Len(Live(ss)) : ~Gone(Live(ss)[i])
<1>1. ss \in Seq(SlotsTo(top)) /\ Ordered(ss)
  BY DEF Shows
<1>2. /\ Live(ss) \in Seq(SlotsTo(top)) /\ Ordered(Live(ss))
      /\ \A i \in 1 .. Len(Live(ss)) :
           \E j \in 1 .. Len(ss) : Live(ss)[i] = ss[j] /\ ~Gone(ss[j])
      /\ \A j \in 1 .. Len(ss) :
           ~Gone(ss[j]) => \E i \in 1 .. Len(Live(ss)) : Live(ss)[i] = ss[j]
  BY <1>1, LiveHas
<1>3. \A i \in 1 .. Len(Live(ss)) : /\ ~Gone(Live(ss)[i])
                                    /\ Live(ss)[i] = SlotOf(m, Live(ss)[i].key)
  BY <1>2 DEF Shows
<1>4. ASSUME NEW k \in Keys, m[k].id # 0
      PROVE  \E i \in 1 .. Len(Live(ss)) : Live(ss)[i] = SlotOf(m, k)
  <2>1. PICK j \in 1 .. Len(ss) : ss[j] = SlotOf(m, k)
    BY <1>4 DEF Shows
  <2>2. m[k].val # NoVal
    BY <1>4, MapsAre
  <2>3. ~Gone(ss[j])
    BY <2>1, <2>2 DEF Gone, SlotOf
  <2> QED
    BY <1>2, <2>1, <2>3
<1> QED
  BY <1>2, <1>3, <1>4 DEF Shows

LEMMA CompactShows ==
  ASSUME NEW top \in Nat, NEW m \in Maps, NEW ss, Shows(ss, m, top)
  PROVE  Shows(compactify(ss), m, top)
BY LiveShows DEF compactify

(* An event beyond all slots goes to their end.                            *)
LEMMA AppendShows ==
  ASSUME NEW top \in Nat, NEW up \in Nat, top <= up, NEW m \in Maps, NEW ss,
         Shows(ss, m, top), NEW e \in Events, e.id <= up, ~e.rewrite, Fits(m, e, top)
  PROVE  /\ ~IsOld(ss, e)
         /\ Shows(Append(ss, [id |-> e.id, key |-> e.key, val |-> e.val]), Apply(m, e), up)
<1> DEFINE s == [id |-> e.id, key |-> e.key, val |-> e.val]
           p == Append(ss, s)
           a == Apply(m, e)
<1>1. /\ ss \in Seq(SlotsTo(top)) /\ Ordered(ss) /\ Len(ss) \in Nat
      /\ \A i \in 1 .. Len(ss) : /\ ss[i].id \in 1 .. top /\ ss[i].key \in Keys
                                 /\ ss[i] \in SlotsTo(top)
  BY SlotsAre DEF Shows
<1>2. /\ m[e.key].id = 0 /\ e.val # NoVal /\ top < e.id
      /\ e.key \in Keys /\ e.id \in Nat \ {0} /\ e.val \in Values
  BY DEF Fits, Events, Ids
<1>3. ~IsOld(ss, e)
  <2> SUFFICES ASSUME ss # <<>> PROVE Back(ss) < 2 * e.id /\ Back(ss) \in Nat
    BY <1>2 DEF IsOld
  <2>1. Len(ss) \in 1 .. Len(ss)
    BY <1>1, EmptySeq
  <2>2. Last(ss) = ss[Len(ss)] /\ Last(ss).id \in 1 .. top
    BY <1>1, <2>1 DEF Last
  <2> QED
    BY <1>2, <2>2 DEF Back
<1>4. s \in SlotsTo(up) /\ s.id = e.id /\ s.key = e.key /\ s.val = e.val
  BY <1>2 DEF SlotsTo
<1>5. ss \in Seq(SlotsTo(up))
  BY <1>1, SlotsGrow
<1> HIDE DEF s
<1>6. /\ p \in Seq(SlotsTo(up)) /\ Len(p) = Len(ss) + 1 /\ p[Len(ss) + 1] = s
      /\ \A i \in 1 .. Len(ss) : p[i] = ss[i]
  BY <1>4, <1>5, AppendProperties
<1> HIDE DEF p
<1>7. \A i \in 1 .. Len(p) : i \in 1 .. Len(ss) \/ i = Len(ss) + 1
  BY <1>1, <1>6
<1>8. Ordered(p)
  <2> SUFFICES ASSUME NEW i \in 1 .. Len(p), NEW j \in 1 .. Len(p), i < j
               PROVE  p[i].id < p[j].id
    BY DEF Ordered
  <2>1. i \in 1 .. Len(ss)
    BY <1>1, <1>6
  <2>2. CASE j \in 1 .. Len(ss)
    BY <1>1, <1>6, <2>1, <2>2 DEF Ordered
  <2>3. CASE j = Len(ss) + 1
    BY <1>1, <1>2, <1>4, <1>6, <2>1, <2>3
  <2> QED
    BY <1>7, <2>2, <2>3
<1>9. a \in Maps /\ a[e.key] = [val |-> e.val, id |-> e.id]
      /\ \A k \in Keys : k # e.key => a[k] = m[k]
  BY <1>2, ApplyIs
<1> HIDE DEF a
<1>10. s = SlotOf(a, e.key)
  BY <1>9 DEF s, SlotOf
<1>11. ASSUME NEW k \in Keys, a[k].id # 0
       PROVE  \E i \in 1 .. Len(p) : p[i] = SlotOf(a, k)
  <2>1. CASE k = e.key
    <3>1. Len(ss) + 1 \in 1 .. Len(p)
      BY <1>1, <1>6
    <3> QED
      BY <1>6, <1>10, <2>1, <3>1
  <2>2. CASE k # e.key
    <3>1. a[k] = m[k] /\ SlotOf(a, k) = SlotOf(m, k)
      BY <1>9, <2>2 DEF SlotOf
    <3>2. PICK i \in 1 .. Len(ss) : ss[i] = SlotOf(m, k)
      BY <1>11, <3>1 DEF Shows
    <3>3. i \in 1 .. Len(p)
      BY <1>1, <1>6
    <3> QED
      BY <1>6, <3>1, <3>2, <3>3
  <2> QED
    BY <2>1, <2>2
<1>12. ASSUME NEW i \in 1 .. Len(p), ~Gone(p[i])
       PROVE  p[i] = SlotOf(a, p[i].key)
  <2>1. CASE i = Len(ss) + 1
    BY <1>4, <1>6, <1>10, <2>1
  <2>2. CASE i \in 1 .. Len(ss)
    <3>1. p[i] = ss[i] /\ ss[i] = SlotOf(m, ss[i].key) /\ ss[i].key \in Keys
          /\ ss[i].id \in 1 .. top
      BY <1>1, <1>6, <1>12, <2>2 DEF Shows
    <3>2. ss[i].id = m[ss[i].key].id
      BY <3>1 DEF SlotOf
    <3>3. ss[i].key # e.key
      BY <1>2, <3>1, <3>2
    <3> QED
      BY <1>9, <3>1, <3>3 DEF SlotOf
  <2> QED
    BY <1>7, <2>1, <2>2
<1>13. Shows(p, a, up)
  BY <1>6, <1>8, <1>11, <1>12 DEF Shows
<1> QED
  BY <1>3, <1>13 DEF p, s, a

(* A rewrite finds the slot of its key, and changes no other.              *)
LEMMA RewriteShows ==
  ASSUME NEW top \in Nat, NEW m \in Maps, NEW ss,
         Shows(ss, m, top), NEW e \in Events, e.rewrite, Fits(m, e, top)
  PROVE  /\ IsOld(ss, e) /\ SlotsOf(ss, e) # {}
         /\ Shows([i \in DOMAIN ss |-> IF i \in SlotsOf(ss, e)
                                       THEN [ss[i] EXCEPT !.val = e.val] ELSE ss[i]],
                  Apply(m, e), top)
<1> DEFINE p == [i \in DOMAIN ss |-> IF i \in SlotsOf(ss, e)
                                     THEN [ss[i] EXCEPT !.val = e.val] ELSE ss[i]]
           a == Apply(m, e)
<1>1. /\ ss \in Seq(SlotsTo(top)) /\ Ordered(ss) /\ Len(ss) \in Nat
      /\ DOMAIN ss = 1 .. Len(ss)
      /\ \A i \in 1 .. Len(ss) : /\ ss[i].id \in 1 .. top /\ ss[i].key \in Keys
                                 /\ ss[i] \in SlotsTo(top)
  BY SlotsAre DEF Shows
<1>2. /\ m[e.key].id = e.id /\ e.id # 0
      /\ e.key \in Keys /\ e.id \in Nat /\ e.val \in Values \cup {NoVal}
  BY DEF Fits, Events, Ids
<1>3. PICK l \in 1 .. Len(ss) : ss[l] = SlotOf(m, e.key)
  BY <1>2 DEF Shows
<1>4. ss[l].id = e.id /\ ss[l].key = e.key /\ ~Gone(ss[l])
  <2>1. m[e.key].val # NoVal
    BY <1>2, MapsAre
  <2> QED
    BY <1>2, <1>3, <2>1 DEF SlotOf, Gone
<1>5. SlotsOf(ss, e) = {l}
  <2>1. l \in SlotsOf(ss, e)
    BY <1>1, <1>4 DEF SlotsOf
  <2>2. ASSUME NEW i \in SlotsOf(ss, e) PROVE i = l
    <3>1. i \in 1 .. Len(ss) /\ ss[i].id = ss[l].id
      BY <1>1, <1>4 DEF SlotsOf
    <3>2. ~(i < l) /\ ~(l < i)
      BY <1>1, <3>1 DEF Ordered
    <3> QED
      BY <1>1, <3>1, <3>2
  <2> QED
    BY <2>1, <2>2
<1>6. IsOld(ss, e)
  <2>1. ss # <<>> /\ Len(ss) \in 1 .. Len(ss)
    BY <1>1, <1>3, EmptySeq
  <2>2. Last(ss) = ss[Len(ss)] /\ Last(ss).id \in 1 .. top
    BY <1>1, <2>1 DEF Last
  <2>3. e.id <= Last(ss).id
    <3>1. CASE l = Len(ss)
      BY <1>4, <2>2, <3>1
    <3>2. CASE l # Len(ss)
      <4>1. l < Len(ss)
        BY <1>1, <3>2
      <4>2. ss[l].id < ss[Len(ss)].id
        BY <1>1, <2>1, <4>1 DEF Ordered
      <4> QED
        BY <1>2, <1>4, <2>2, <4>2
    <3> QED
      BY <3>1, <3>2
  <2>4. Back(ss) \in Nat /\ Back(ss) >= 2 * Last(ss).id
    BY <2>2 DEF Back
  <2> QED
    BY <1>2, <2>1, <2>2, <2>3, <2>4 DEF IsOld
<1> DEFINE s == [ss[l] EXCEPT !.val = e.val]
<1>7. s \in SlotsTo(top) /\ s = [id |-> e.id, key |-> e.key, val |-> e.val]
  <2>1. ss[l] \in SlotsTo(top)
    BY <1>1
  <2> QED
    BY <1>2, <1>4, <2>1 DEF SlotsTo
<1>8. /\ p[l] = s /\ \A i \in 1 .. Len(ss) : i # l => p[i] = ss[i]
      /\ p = [i \in 1 .. Len(ss) |-> p[i]]
  BY <1>1, <1>5
<1> HIDE DEF p, s
<1>9. p \in Seq(SlotsTo(top)) /\ Len(p) = Len(ss)
  <2>1. \A i \in 1 .. Len(ss) : p[i] \in SlotsTo(top)
    BY <1>1, <1>7, <1>8
  <2>2. p \in [1 .. Len(ss) -> SlotsTo(top)]
    BY <1>8, <2>1
  <2>3. p \in Seq(SlotsTo(top))
    BY <1>1, <2>2, SeqDef
  <2>4. DOMAIN p = 1 .. Len(ss)
    BY <2>2
  <2> QED
    BY <1>1, <2>3, <2>4, LenProperties
<1>10. \A i \in 1 .. Len(ss) : p[i].id = ss[i].id /\ p[i].key = ss[i].key
  BY <1>4, <1>7, <1>8
<1>11. Ordered(p)
  BY <1>1, <1>9, <1>10 DEF Ordered
<1>12. a \in Maps /\ a[e.key] = (IF e.val = NoVal THEN NoKey
                                 ELSE [val |-> e.val, id |-> e.id])
      /\ \A k \in Keys : k # e.key => a[k] = m[k]
  BY ApplyIs
<1> HIDE DEF a
<1>13. ASSUME NEW k \in Keys, a[k].id # 0
       PROVE  \E i \in 1 .. Len(p) : p[i] = SlotOf(a, k)
  <2>1. CASE k = e.key
    <3>1. a[k] = [val |-> e.val, id |-> e.id]
      BY <1>12, <1>13, <2>1 DEF NoKey
    <3>2. p[l] = SlotOf(a, k)
      BY <1>7, <1>8, <2>1, <3>1 DEF SlotOf
    <3> QED
      BY <1>9, <3>2
  <2>2. CASE k # e.key
    <3>1. a[k] = m[k] /\ SlotOf(a, k) = SlotOf(m, k)
      BY <1>12, <2>2 DEF SlotOf
    <3>2. PICK i \in 1 .. Len(ss) : ss[i] = SlotOf(m, k)
      BY <1>13, <3>1 DEF Shows
    <3>3. ss[i].key = k
      BY <3>2 DEF SlotOf
    <3>4. i # l
      BY <1>4, <2>2, <3>3
    <3> QED
      BY <1>8, <1>9, <3>1, <3>2, <3>4
  <2> QED
    BY <2>1, <2>2
<1>14. ASSUME NEW i \in 1 .. Len(p), ~Gone(p[i])
       PROVE  p[i] = SlotOf(a, p[i].key)
  <2>1. CASE i = l
    <3>1. p[i] = [id |-> e.id, key |-> e.key, val |-> e.val]
      BY <1>7, <1>8, <2>1
    <3>2. e.val # NoVal /\ p[i].key = e.key
      BY <1>14, <3>1 DEF Gone
    <3>3. a[e.key] = [val |-> e.val, id |-> e.id]
      BY <1>12, <3>2
    <3> QED
      BY <3>1, <3>2, <3>3 DEF SlotOf
  <2>2. CASE i # l
    <3>1. p[i] = ss[i] /\ ss[i].key \in Keys /\ i \in 1 .. Len(ss)
      BY <1>1, <1>8, <1>9, <2>2
    <3>2. ss[i] = SlotOf(m, ss[i].key)
      BY <1>14, <3>1 DEF Shows
    <3>3. ss[i].key # e.key
      <4>1. ASSUME ss[i].key = e.key PROVE FALSE
        <5>1. ss[i].id = ss[l].id
          BY <1>2, <1>4, <3>2, <4>1 DEF SlotOf
        <5>2. i < l \/ l < i
          BY <1>1, <2>2, <3>1
        <5>3. ss[i].id \in Nat
          BY <1>1, <3>1
        <5> QED
          BY <1>1, <3>1, <5>1, <5>2, <5>3 DEF Ordered
      <4> QED
        BY <4>1
    <3> QED
      BY <1>12, <3>1, <3>2, <3>3 DEF SlotOf
  <2> QED
    BY <2>1, <2>2
<1>15. Shows(p, a, top)
  BY <1>9, <1>11, <1>13, <1>14 DEF Shows
<1> QED
  BY <1>5, <1>6, <1>15 DEF p, a

LEMMA ShowsMore ==
  ASSUME NEW top \in Nat, NEW up \in Nat, top <= up, NEW m, NEW ss, Shows(ss, m, top)
  PROVE  Shows(ss, m, up)
<1>1. ss \in Seq(SlotsTo(up))
  BY SlotsGrow DEF Shows
<1> QED
  BY <1>1 DEF Shows

(* An event that fits is not refused, and the slots follow the map.        *)
LEMMA AddedShows ==
  ASSUME NEW top \in Nat, NEW up \in Nat, top <= up, NEW m \in Maps, NEW ss,
         Shows(ss, m, top), NEW e \in Events, Fits(m, e, top), e.rewrite \/ e.id <= up
  PROVE  ~Refused(ss, e) /\ Shows(Added(ss, e), Apply(m, e), up) /\ Apply(m, e) \in Maps
<1>0. Apply(m, e) \in Maps
  BY ApplyIs
<1>1. CASE e.rewrite
  <2> DEFINE p == [i \in DOMAIN ss |-> IF i \in SlotsOf(ss, e)
                                       THEN [ss[i] EXCEPT !.val = e.val] ELSE ss[i]]
  <2>1. IsOld(ss, e) /\ SlotsOf(ss, e) # {} /\ Shows(p, Apply(m, e), top)
    BY <1>1, RewriteShows
  <2>2. Added(ss, e) = compactify(p)
    BY <1>1, <2>1 DEF Added
  <2> HIDE DEF p
  <2>3. Shows(compactify(p), Apply(m, e), top)
    BY <1>0, <2>1, CompactShows
  <2>4. Shows(compactify(p), Apply(m, e), up)
    BY <2>3, ShowsMore
  <2>5. ~Refused(ss, e)
    BY <1>1, <2>1 DEF Refused
  <2> QED
    BY <1>0, <2>2, <2>4, <2>5
<1>2. CASE ~e.rewrite
  <2> DEFINE p == Append(ss, [id |-> e.id, key |-> e.key, val |-> e.val])
  <2>1. ~IsOld(ss, e) /\ Shows(p, Apply(m, e), up)
    BY <1>2, AppendShows
  <2>2. e.val # NoVal
    BY <1>2 DEF Fits
  <2>3. Added(ss, e) = compactify(p)
    BY <1>2, <2>2 DEF Added
  <2> HIDE DEF p
  <2>4. Shows(compactify(p), Apply(m, e), up)
    BY <1>0, <2>1, CompactShows
  <2>5. ~Refused(ss, e)
    BY <1>2, <2>1 DEF Refused
  <2> QED
    BY <1>0, <2>3, <2>4, <2>5
<1> QED
  BY <1>1, <1>2

LEMMA NothingShown == Nothing \in Maps /\ Shows(<<>>, Nothing, 0)
<1>1. \A k \in Keys : Nothing[k] = NoKey
  BY DEF Nothing
<1>2. Nothing \in Maps
  BY <1>1 DEF Nothing, Maps, NoKey
<1>3. <<>> \in Seq(SlotsTo(0)) /\ Len(<<>>) = 0
  BY EmptySeq
<1>4. \A k \in Keys : Nothing[k].id = 0
  BY <1>1 DEF NoKey
<1> QED
  BY <1>2, <1>3, <1>4 DEF Shows, Ordered

(* The map that init makes of the slots.                                   *)
LEMMA MapOfShows ==
  ASSUME NEW top \in Nat, NEW m \in Maps, NEW ss, Shows(ss, m, top)
  PROVE  MapOf(ss) = m
<1>1. /\ ss \in Seq(SlotsTo(top)) /\ Len(ss) \in Nat /\ DOMAIN ss = 1 .. Len(ss)
      /\ \A i \in 1 .. Len(ss) : ss[i].key \in Keys /\ ss[i].id \in 1 .. top
  BY SlotsAre DEF Shows
<1> DEFINE mine(k)  == {i \in DOMAIN ss : ss[i].key = k /\ ~Gone(ss[i])}
           first(k) == CHOOSE i \in mine(k) : \A j \in mine(k) : i <= j
           cell(k)  == IF mine(k) = {} THEN NoKey
                       ELSE [val |-> ss[first(k)].val, id |-> ss[first(k)].id]
<1>2. ASSUME NEW k \in Keys PROVE cell(k) = m[k]
  <2>1. CASE mine(k) = {}
    <3>1. ASSUME m[k].id # 0 PROVE FALSE
      <4>1. PICK i \in 1 .. Len(ss) : ss[i] = SlotOf(m, k)
        BY <3>1 DEF Shows
      <4>2. m[k].val # NoVal
        BY <3>1, MapsAre
      <4>3. ss[i].key = k /\ ~Gone(ss[i])
        BY <4>1, <4>2 DEF SlotOf, Gone
      <4> QED
        BY <1>1, <2>1, <4>3
    <3>2. m[k] = NoKey
      BY <3>1, MapsAre
    <3> QED
      BY <2>1, <3>2
  <2>2. CASE mine(k) # {}
    <3>1. mine(k) \in SUBSET Nat
      BY <1>1
    <3>2. first(k) \in mine(k)
      <4> HIDE DEF mine
      <4> QED
        BY <2>2, <3>1, LeastNatural
    <3>3. /\ first(k) \in 1 .. Len(ss) /\ ss[first(k)].key = k /\ ~Gone(ss[first(k)])
      BY <1>1, <3>2
    <3> HIDE DEF first
    <3>4. ss[first(k)] = SlotOf(m, k)
      BY <3>3 DEF Shows
    <3>5. ss[first(k)].val = m[k].val /\ ss[first(k)].id = m[k].id
      BY <3>4 DEF SlotOf
    <3>6. m[k] = [val |-> m[k].val, id |-> m[k].id]
      BY MapsAre
    <3> QED
      BY <2>2, <3>5, <3>6
  <2> QED
    BY <2>1, <2>2
<1>3. MapOf(ss) = [k \in Keys |-> cell(k)]
  BY DEF MapOf
<1>4. m = [k \in Keys |-> m[k]]
  BY DEF Maps
<1> HIDE DEF cell
<1> QED
  BY <1>2, <1>3, <1>4

-----------------------------------------------------------------------------
(* What a log makes, event by event: maps, and the newest numbers.         *)
Makes(log, c, t) ==
  /\ log \in Seq(Events)
  /\ c \in [0 .. Len(log) -> Maps] /\ t \in [0 .. Len(log) -> Nat]
  /\ c[0] = Nothing /\ t[0] = 0
  /\ \A n \in 1 .. Len(log) :
       /\ Fits(c[n - 1], log[n], t[n - 1])
       /\ c[n] = Apply(c[n - 1], log[n])
       /\ t[n] = IF log[n].rewrite THEN t[n - 1] ELSE log[n].id

LEMMA MakesIs ==
  ASSUME NEW log, NEW c, NEW t, Makes(log, c, t)
  PROVE  /\ log \in Seq(Events) /\ Len(log) \in Nat /\ DOMAIN log = 1 .. Len(log)
         /\ \A n \in 0 .. Len(log) : c[n] \in Maps /\ t[n] \in Nat
         /\ \A n \in 1 .. Len(log) : /\ log[n] \in Events /\ log[n].id \in Nat
                                     /\ n - 1 \in 0 .. Len(log) /\ n \in 0 .. Len(log)
                                     /\ t[n - 1] <= t[n]
<1>1. /\ log \in Seq(Events) /\ Len(log) \in Nat /\ DOMAIN log = 1 .. Len(log)
      /\ \A n \in 0 .. Len(log) : c[n] \in Maps /\ t[n] \in Nat
  BY LenProperties DEF Makes
<1>2. \A n \in 1 .. Len(log) : /\ log[n] \in Events /\ log[n].id \in Nat
                               /\ n - 1 \in 0 .. Len(log) /\ n \in 0 .. Len(log)
  <2>1. \A n \in 1 .. Len(log) : log[n] \in Events
    BY <1>1, ElementOfSeq
  <2>2. \A e \in Events : e.id \in Nat
    BY DEF Events, Ids
  <2> QED
    BY <1>1, <2>1, <2>2
<1>3. ASSUME NEW n \in 1 .. Len(log) PROVE t[n - 1] <= t[n]
  <2>1. t[n] = (IF log[n].rewrite THEN t[n - 1] ELSE log[n].id) /\ t[n - 1] \in Nat
    BY <1>1, <1>2 DEF Makes
  <2>2. Fits(c[n - 1], log[n], t[n - 1])
    BY DEF Makes
  <2> QED
    BY <1>2, <2>1, <2>2 DEF Fits
<1> QED
  BY <1>1, <1>2, <1>3

(* A log that is read back is not refused, and yields its map.             *)
LEMMA ReplayShows ==
  ASSUME NEW log, NEW c, NEW t, Makes(log, c, t)
  PROVE  Shows(Replayed(log), c[Len(log)], t[Len(log)])
<1>1. log \in Seq(EventsTo(MaxWrites)) /\ MaxWrites \in Nat
  BY BinlogAssumption DEF Makes, Events, EventsTo, Ids
<1>2. PICK f \in [0 .. Len(log) -> Seq(SlotsTo(MaxWrites))] :
        /\ f[0] = <<>>
        /\ \A n \in 1 .. Len(log) : f[n] = Added(f[n - 1], log[n])
        /\ Replayed(log) = f[Len(log)]
  BY <1>1, ReplayedSteps, Zenon
<1>3. Len(log) \in Nat
  BY MakesIs
<1> DEFINE Good == {n \in 0 .. Len(log) : Shows(f[n], c[n], t[n])}
<1>4. 0 \in Good
  BY <1>2, <1>3, NothingShown DEF Makes
<1>5. ASSUME NEW n \in 1 .. Len(log), n - 1 \in Good PROVE n \in Good
  <2>1. /\ log[n] \in Events /\ n \in 0 .. Len(log) /\ t[n] \in Nat
        /\ c[n - 1] \in Maps /\ t[n - 1] \in Nat /\ t[n - 1] <= t[n]
    BY MakesIs
  <2>2. /\ Fits(c[n - 1], log[n], t[n - 1]) /\ c[n] = Apply(c[n - 1], log[n])
        /\ t[n] = IF log[n].rewrite THEN t[n - 1] ELSE log[n].id
    BY DEF Makes
  <2>3. log[n].rewrite \/ log[n].id <= t[n]
    BY <2>1, <2>2
  <2>4. Shows(f[n - 1], c[n - 1], t[n - 1])
    BY <1>5
  <2>5. Shows(Added(f[n - 1], log[n]), c[n], t[n])
    BY <2>1, <2>2, <2>3, <2>4, AddedShows
  <2> QED
    BY <1>2, <2>1, <2>5
<1>6. Good \in SUBSET (0 .. Len(log)) /\ Len(log) \in 0 .. Len(log)
  BY <1>3
<1> HIDE DEF Good
<1>7. Len(log) \in Good
  BY <1>3, <1>4, <1>5, <1>6, NumbersInduction
<1> QED
  BY <1>2, <1>7 DEF Good

LEMMA MakesFirst ==
  ASSUME NEW log, NEW c, NEW t, Makes(log, c, t), NEW short \in Seq(Events),
         Len(short) \in 0 .. Len(log), \A i \in 1 .. Len(short) : short[i] = log[i]
  PROVE  Makes(short, [n \in 0 .. Len(short) |-> c[n]], [n \in 0 .. Len(short) |-> t[n]])
<1>1. Len(short) \in Nat /\ Len(log) \in Nat
  BY LenProperties, MakesIs
<1>2. \A n \in 0 .. Len(short) : n \in 0 .. Len(log) /\ c[n] \in Maps /\ t[n] \in Nat
  BY <1>1, MakesIs
<1>3. \A n \in 1 .. Len(short) : /\ n \in 1 .. Len(log) /\ n \in 0 .. Len(short)
                                 /\ n - 1 \in 0 .. Len(short) /\ short[n] = log[n]
  BY <1>1
<1> DEFINE c2 == [n \in 0 .. Len(short) |-> c[n]]
           t2 == [n \in 0 .. Len(short) |-> t[n]]
<1>4. /\ c2 \in [0 .. Len(short) -> Maps] /\ t2 \in [0 .. Len(short) -> Nat]
      /\ \A n \in 0 .. Len(short) : c2[n] = c[n] /\ t2[n] = t[n]
  BY <1>2
<1> HIDE DEF c2, t2
<1>5. c2[0] = Nothing /\ t2[0] = 0
  BY <1>1, <1>4 DEF Makes
<1>6. \A n \in 1 .. Len(short) :
        /\ Fits(c2[n - 1], short[n], t2[n - 1])
        /\ c2[n] = Apply(c2[n - 1], short[n])
        /\ t2[n] = IF short[n].rewrite THEN t2[n - 1] ELSE short[n].id
  BY <1>3, <1>4 DEF Makes
<1>7. Makes(short, c2, t2)
  BY <1>4, <1>5, <1>6 DEF Makes
<1> QED
  BY <1>7 DEF c2, t2

LEMMA NoneRefused ==
  ASSUME NEW log, NEW c, NEW t, Makes(log, c, t), NEW i \in DOMAIN log
  PROVE  ~Refused(Replayed(SubSeq(log, 1, i - 1)), log[i])
<1>1. /\ log \in Seq(Events) /\ Len(log) \in Nat /\ i \in 1 .. Len(log)
      /\ log[i] \in Events /\ i - 1 \in 0 .. Len(log)
      /\ c[i - 1] \in Maps /\ t[i - 1] \in Nat /\ log[i].id \in Nat
  BY MakesIs
<1> DEFINE short == SubSeq(log, 1, i - 1)
<1>2. /\ short \in Seq(Events) /\ Len(short) = i - 1
      /\ \A j \in 1 .. Len(short) : short[j] = log[j]
  <2>1. \A j \in 1 .. i - 1 : log[j] \in Events
    BY <1>1, ElementOfSeq
  <2>2. /\ short \in Seq(Events)
        /\ Len(short) = IF 1 <= i - 1 THEN i - 1 - 1 + 1 ELSE 0
        /\ \A j \in 1 .. i - 1 - 1 + 1 : short[j] = log[1 + j - 1]
    BY <1>1, <2>1, SubSeqProperties
  <2> QED
    BY <1>1, <2>2
<1> HIDE DEF short
<1> DEFINE c2 == [n \in 0 .. Len(short) |-> c[n]]
           t2 == [n \in 0 .. Len(short) |-> t[n]]
<1>3. Makes(short, c2, t2)
  BY <1>1, <1>2, MakesFirst
<1>4. c2[i - 1] = c[i - 1] /\ t2[i - 1] = t[i - 1]
  BY <1>1, <1>2
<1> HIDE DEF c2, t2
<1>5. Shows(Replayed(short), c[i - 1], t[i - 1])
  BY <1>2, <1>3, <1>4, ReplayShows
<1>6. Fits(c[i - 1], log[i], t[i - 1])
  BY <1>1 DEF Makes
<1>7. PICK up \in Nat : t[i - 1] <= up /\ log[i].id <= up
  <2>1. t[i - 1] <= t[i - 1] + log[i].id /\ log[i].id <= t[i - 1] + log[i].id
    BY <1>1
  <2> QED
    BY <1>1, <2>1
<1>8. ~Refused(Replayed(short), log[i])
  BY <1>1, <1>5, <1>6, <1>7, AddedShows
<1> QED
  BY <1>8 DEF short

LEMMA LastMade ==
  ASSUME NEW log, NEW c, NEW t, Makes(log, c, t)
  PROVE  LastAdded(log) = t[Len(log)]
<1>1. /\ Len(log) \in Nat /\ DOMAIN log = 1 .. Len(log) /\ t[0] = 0
      /\ \A n \in 1 .. Len(log) : t[n] = IF log[n].rewrite THEN t[n - 1] ELSE log[n].id
  BY MakesIs DEF Makes
<1> DEFINE added == {i \in DOMAIN log : ~log[i].rewrite}
           last  == CHOOSE i \in added : \A j \in added : j <= i
<1>2. CASE added = {}
  <2> DEFINE Good == {n \in 0 .. Len(log) : t[n] = 0}
  <2>1. 0 \in Good
    BY <1>1
  <2>2. ASSUME NEW n \in 1 .. Len(log), n - 1 \in Good PROVE n \in Good
    <3>1. log[n].rewrite /\ n \in 0 .. Len(log)
      BY <1>1, <1>2
    <3> QED
      BY <1>1, <2>2, <3>1
  <2>3. Good \in SUBSET (0 .. Len(log)) /\ Len(log) \in 0 .. Len(log)
    BY <1>1
  <2>4. Len(log) \in Good
    <3> HIDE DEF Good
    <3> QED
      BY <1>1, <2>1, <2>2, <2>3, NumbersInduction
  <2> QED
    BY <1>2, <2>4 DEF LastAdded
<1>3. CASE added # {}
  <2>1. added \in SUBSET (0 .. Len(log))
    BY <1>1
  <2>2. last \in added /\ \A j \in added : j <= last
    <3> HIDE DEF added
    <3> QED
      BY <1>1, <1>3, <2>1, GreatestNatural
  <2>3. /\ last \in 1 .. Len(log) /\ ~log[last].rewrite
        /\ \A j \in 1 .. Len(log) : ~log[j].rewrite => j <= last
    BY <1>1, <2>2
  <2>4. LastAdded(log) = log[last].id
    BY <1>3 DEF LastAdded
  <2> HIDE DEF last, added
  <2> DEFINE Good == {n \in 0 .. Len(log) : n < last \/ t[n] = log[last].id}
  <2>5. 0 \in Good
    BY <1>1, <2>3
  <2>6. ASSUME NEW n \in 1 .. Len(log), n - 1 \in Good PROVE n \in Good
    <3>1. n \in 0 .. Len(log) /\ (n - 1 < last \/ t[n - 1] = log[last].id)
      BY <1>1, <2>6
    <3>2. CASE n < last
      BY <3>1, <3>2
    <3>3. CASE n = last
      BY <1>1, <2>3, <3>1, <3>3
    <3>4. CASE last < n
      <4>1. log[n].rewrite /\ ~(n - 1 < last)
        BY <1>1, <2>3, <3>4
      <4> QED
        BY <1>1, <3>1, <4>1
    <3> QED
      BY <2>3, <3>2, <3>3, <3>4
  <2>7. Good \in SUBSET (0 .. Len(log)) /\ Len(log) \in 0 .. Len(log)
    BY <1>1
  <2>8. Len(log) \in Good
    <3> HIDE DEF Good
    <3> QED
      BY <1>1, <2>5, <2>6, <2>7, NumbersInduction
  <2>9. t[Len(log)] = log[last].id
    BY <1>1, <2>3, <2>8
  <2> QED
    BY <2>4, <2>9
<1> QED
  BY <1>2, <1>3

(* The events of a new file make the map that the slots show.              *)
LEMMA SnapshotMakes ==
  ASSUME NEW top \in Nat, top <= MaxWrites, NEW m \in Maps, Shows(slots, m, top)
  PROVE  \E c, t : /\ Makes(Snapshot, c, t)
                   /\ c[Len(Snapshot)] = m /\ t[Len(Snapshot)] <= top
<1> DEFINE L == Live(slots)
<1>1. /\ Shows(L, m, top) /\ L \in Seq(SlotsTo(top)) /\ Ordered(L) /\ Len(L) \in Nat
      /\ DOMAIN L = 1 .. Len(L)
      /\ \A i \in 1 .. Len(L) : /\ L[i].id \in 1 .. top /\ L[i].key \in Keys
                                /\ L[i].val \in Values \cup {NoVal} /\ L[i].val # NoVal
                                /\ L[i] = SlotOf(m, L[i].key)
  <2>1. Shows(L, m, top) /\ \A i \in 1 .. Len(L) : ~Gone(L[i])
    BY LiveShows
  <2> HIDE DEF L
  <2> QED
    BY <2>1, SlotsAre DEF Shows, Gone
<1>2. Snapshot = [i \in DOMAIN L |-> [id |-> L[i].id, rewrite |-> FALSE, key |-> L[i].key,
                                       val |-> L[i].val]]
  BY DEF Snapshot
<1> HIDE DEF L
<1>3. /\ Snapshot \in Seq(Events) /\ Len(Snapshot) = Len(L)
      /\ \A i \in 1 .. Len(L) : Snapshot[i] = [id |-> L[i].id, rewrite |-> FALSE,
                                              key |-> L[i].key, val |-> L[i].val]
  <2>1. \A i \in 1 .. Len(L) : [id |-> L[i].id, rewrite |-> FALSE, key |-> L[i].key,
                                val |-> L[i].val] \in Events
    BY <1>1, BinlogAssumption DEF Events, Ids
  <2>2. Snapshot \in [1 .. Len(L) -> Events]
    BY <1>1, <1>2, <2>1
  <2>3. Snapshot \in Seq(Events) /\ DOMAIN Snapshot = 1 .. Len(L)
    BY <1>1, <2>2, SeqDef
  <2>4. Len(Snapshot) = Len(L)
    BY <1>1, <2>3, LenProperties
  <2> QED
    BY <1>1, <1>2, <2>3, <2>4
<1>4. \A i, j \in 1 .. Len(L) : i < j => L[i].id < L[j].id /\ L[i].key # L[j].key
  <2> SUFFICES ASSUME NEW i \in 1 .. Len(L), NEW j \in 1 .. Len(L), i < j
               PROVE  L[i].id < L[j].id /\ L[i].key # L[j].key
    OBVIOUS
  <2>1. L[i].id < L[j].id
    BY <1>1 DEF Ordered
  <2>2. L[i].id = m[L[i].key].id /\ L[j].id = m[L[j].key].id
    BY <1>1 DEF SlotOf
  <2> QED
    BY <1>1, <2>1, <2>2
<1> DEFINE Upto(n) == {L[i].key : i \in 1 .. n}
           c == [n \in 0 .. Len(L) |-> [k \in Keys |-> IF k \in Upto(n) THEN m[k] ELSE NoKey]]
           t == [n \in 0 .. Len(L) |-> IF n = 0 THEN 0 ELSE L[n].id]
<1>5. /\ c \in [0 .. Len(L) -> Maps]
      /\ \A n \in 0 .. Len(L), k \in Keys : c[n][k] = IF k \in Upto(n) THEN m[k] ELSE NoKey
  <2>1. ASSUME NEW U
        PROVE  [k \in Keys |-> IF k \in U THEN m[k] ELSE NoKey] \in Maps
    <3> DEFINE r == [k \in Keys |-> IF k \in U THEN m[k] ELSE NoKey]
    <3>1. \A k \in Keys : r[k] = IF k \in U THEN m[k] ELSE NoKey
      OBVIOUS
    <3>2. NoKey \in [val : Values \cup {NoVal}, id : Nat] /\ NoKey.val = NoVal /\ NoKey.id = 0
      BY DEF NoKey
    <3>3. \A k \in Keys : r[k] \in [val : Values \cup {NoVal}, id : Nat]
                          /\ (r[k].val = NoVal <=> r[k].id = 0)
      <4> HIDE DEF r
      <4> TAKE k \in Keys
      <4>1. r[k] = IF k \in U THEN m[k] ELSE NoKey
        BY <3>1
      <4>2. m[k] \in [val : Values \cup {NoVal}, id : Nat] /\ (m[k].val = NoVal <=> m[k].id = 0)
        BY MapsAre
      <4> QED
        BY <3>2, <4>1, <4>2
    <3> QED
      BY <3>3 DEF Maps
  <2> HIDE DEF Upto
  <2> QED
    BY <2>1
<1>6. t \in [0 .. Len(L) -> Nat] /\ t[0] = 0 /\ \A n \in 1 .. Len(L) : t[n] = L[n].id
  <2>1. \A n \in 0 .. Len(L) : n # 0 => n \in 1 .. Len(L)
    BY <1>1
  <2>2. \A n \in 1 .. Len(L) : n # 0 /\ n \in 0 .. Len(L) /\ L[n].id \in Nat
    BY <1>1
  <2> QED
    BY <1>1, <2>1, <2>2
<1> HIDE DEF c, t
<1>7. c[0] = Nothing
  <2>1. Upto(0) = {} /\ 0 \in 0 .. Len(L)
    BY <1>1
  <2>2. c[0] \in Maps /\ \A k \in Keys : c[0][k] = NoKey
    BY <1>5, <2>1
  <2>3. c[0] = [k \in Keys |-> c[0][k]]
    BY <2>2 DEF Maps
  <2> HIDE DEF Upto
  <2> QED
    BY <2>2, <2>3 DEF Nothing
<1>8. ASSUME NEW n \in 1 .. Len(L)
      PROVE  /\ Fits(c[n - 1], Snapshot[n], t[n - 1])
             /\ c[n] = Apply(c[n - 1], Snapshot[n])
             /\ t[n] = IF Snapshot[n].rewrite THEN t[n - 1] ELSE Snapshot[n].id
  <2> DEFINE e == Snapshot[n]
  <2>1. /\ e \in Events /\ ~e.rewrite /\ e.id = L[n].id /\ e.key = L[n].key
        /\ e.val = L[n].val /\ e.val # NoVal /\ e.key \in Keys
    <3>1. e = [id |-> L[n].id, rewrite |-> FALSE, key |-> L[n].key, val |-> L[n].val]
      BY <1>3
    <3>2. e \in Events
      BY <1>3, ElementOfSeq
    <3> HIDE DEF e
    <3> QED
      BY <1>1, <3>1, <3>2
  <2> HIDE DEF e
  <2>2. n \in 0 .. Len(L) /\ n - 1 \in 0 .. Len(L)
    BY <1>1
  <2>3. L[n].key \notin Upto(n - 1) /\ Upto(n) = Upto(n - 1) \cup {L[n].key}
    <3>1. \A i \in 1 .. n - 1 : i \in 1 .. Len(L) /\ i < n /\ i \in 1 .. n
      BY <1>1
    <3>2. \A i \in 1 .. n : i \in 1 .. n - 1 \/ i = n
      BY <1>1
    <3>3. n \in 1 .. n
      BY <1>1
    <3> QED
      BY <1>4, <3>1, <3>2, <3>3
  <2> HIDE DEF Upto
  <2>4. t[n - 1] < e.id
    <3>1. CASE n = 1
      BY <1>1, <1>6, <2>1, <3>1
    <3>2. CASE n # 1
      <4>1. n - 1 \in 1 .. Len(L) /\ n - 1 < n
        BY <1>1, <3>2
      <4> QED
        BY <1>4, <1>6, <2>1, <4>1
    <3> QED
      BY <3>1, <3>2
  <2>5. c[n - 1][e.key] = NoKey
    BY <1>5, <2>1, <2>2, <2>3
  <2>6. Fits(c[n - 1], e, t[n - 1])
    BY <2>1, <2>4, <2>5 DEF Fits, NoKey
  <2>7. /\ Apply(c[n - 1], e) \in Maps
        /\ Apply(c[n - 1], e)[e.key] = [val |-> e.val, id |-> e.id]
        /\ \A k \in Keys : k # e.key => Apply(c[n - 1], e)[k] = c[n - 1][k]
    BY <1>5, <2>1, <2>2, ApplyIs
  <2>8. m[e.key] = [val |-> e.val, id |-> e.id]
    <3>1. L[n] = SlotOf(m, e.key)
      BY <1>1, <2>1
    <3>2. L[n].val = m[e.key].val /\ L[n].id = m[e.key].id
      BY <3>1 DEF SlotOf
    <3> QED
      BY <2>1, <3>2, MapsAre
  <2>9. \A k \in Keys : c[n][k] = Apply(c[n - 1], e)[k]
    BY <1>5, <2>1, <2>2, <2>3, <2>7, <2>8
  <2>10. c[n] = Apply(c[n - 1], e)
    <3>1. c[n] \in Maps
      BY <1>5, <2>2
    <3>2. /\ c[n] = [k \in Keys |-> c[n][k]]
          /\ Apply(c[n - 1], e) = [k \in Keys |-> Apply(c[n - 1], e)[k]]
      BY <2>7, <3>1 DEF Maps
    <3> QED
      BY <2>9, <3>2
  <2> QED
    BY <1>6, <2>1, <2>6, <2>10 DEF e
<1>9. Makes(Snapshot, c, t)
  BY <1>3, <1>5, <1>6, <1>7, <1>8 DEF Makes
<1>10. c[Len(L)] = m
  <2>1. Len(L) \in 0 .. Len(L)
    BY <1>1
  <2>2. ASSUME NEW k \in Keys, k \notin Upto(Len(L)) PROVE m[k] = NoKey
    <3>1. ASSUME m[k].id # 0 PROVE FALSE
      <4>1. PICK i \in 1 .. Len(L) : L[i] = SlotOf(m, k)
        BY <1>1, <3>1 DEF Shows
      <4>2. L[i].key = k
        BY <4>1 DEF SlotOf
      <4> QED
        BY <2>2, <4>2
    <3> QED
      BY <3>1, MapsAre
  <2> HIDE DEF Upto
  <2>3. \A k \in Keys : c[Len(L)][k] = m[k]
    BY <1>5, <2>1, <2>2
  <2>4. /\ c[Len(L)] = [k \in Keys |-> c[Len(L)][k]] /\ m = [k \in Keys |-> m[k]]
    BY <1>5, <2>1 DEF Maps
  <2> QED
    BY <2>3, <2>4
<1>11. t[Len(L)] <= top
  <2>1. Len(L) = 0 \/ Len(L) \in 1 .. Len(L)
    BY <1>1
  <2> QED
    BY <1>1, <1>6, <2>1
<1> QED
  BY <1>3, <1>9, <1>10, <1>11

-----------------------------------------------------------------------------
(* What the writes make of a key.                                          *)

(* The value after n writes is that of the newest of them to the key.      *)
LEMMA ValueIs ==
  ASSUME NEW h, NEW n \in Nat, NEW k, NEW i \in 1 .. n, h[i].key = k,
         \A j \in 1 .. n : h[j].key = k => j <= i
  PROVE  Store!ValueAt(h, n, k) = h[i].val
<1> DEFINE mine   == {j \in 1 .. n : h[j].key = k}
           newest == CHOOSE a \in mine : \A b \in mine : b <= a
<1>1. i \in mine /\ \A j \in mine : j <= i
  OBVIOUS
<1>2. newest \in mine /\ \A j \in mine : j <= newest
  BY <1>1
<1>3. newest = i
  BY <1>1, <1>2
<1>4. Store!ValueAt(h, n, k) = h[newest].val
  BY <1>1 DEF Store!ValueAt
<1> QED
  BY <1>3, <1>4

LEMMA NoValueYet ==
  ASSUME NEW h, NEW n, NEW k, \A j \in 1 .. n : h[j].key # k
  PROVE  Store!ValueAt(h, n, k) = NoVal
BY DEF Store!ValueAt

LEMMA ValueOfWrite ==
  ASSUME NEW h, NEW n \in Nat, NEW k
  PROVE  \/ \A j \in 1 .. n : h[j].key # k
         \/ \E i \in 1 .. n : h[i].key = k /\ \A j \in 1 .. n : h[j].key = k => j <= i
<1> DEFINE mine == {j \in 1 .. n : h[j].key = k}
<1>1. CASE mine = {}
  BY <1>1
<1>2. CASE mine # {}
  <2>1. mine \in SUBSET (0 .. n)
    OBVIOUS
  <2>2. PICK i \in mine : \A j \in mine : j <= i
    <3> HIDE DEF mine
    <3> QED
      BY <1>2, <2>1, GreatestNatural
  <2> QED
    BY <2>2
<1> QED
  BY <1>1, <1>2

(* The same, of operators, in which the provers find it at once.           *)
NoneOf(h, n, k)      == \A j \in 1 .. n : h[j].key # k
NewestOf(h, n, k, i) == h[i].key = k /\ \A j \in 1 .. n : h[j].key = k => j <= i

LEMMA ValueOrNone ==
  ASSUME NEW h, NEW n \in Nat, NEW k
  PROVE  NoneOf(h, n, k) \/ \E i \in 1 .. n : NewestOf(h, n, k, i)
<1>1. CASE \A j \in 1 .. n : h[j].key # k
  BY <1>1 DEF NoneOf
<1>2. CASE \E i \in 1 .. n : h[i].key = k /\ \A j \in 1 .. n : h[j].key = k => j <= i
  BY <1>2 DEF NewestOf
<1> QED
  BY <1>1, <1>2, ValueOfWrite

(* Two histories with the same first writes have the same values then.     *)
LEMMA ValueSame ==
  ASSUME NEW g, NEW h, NEW n \in Nat, NEW k, \A i \in 1 .. n : g[i] = h[i]
  PROVE  Store!ValueAt(g, n, k) = Store!ValueAt(h, n, k)
<1> DEFINE Same == Store!ValueAt(g, n, k) = Store!ValueAt(h, n, k)
<1>1. ASSUME NoneOf(h, n, k) PROVE Same
  <2>1. \A j \in 1 .. n : g[j].key # k
    BY <1>1 DEF NoneOf
  <2> QED
    BY <1>1, <2>1, NoValueYet DEF NoneOf
<1>2. ASSUME NEW i \in 1 .. n, NewestOf(h, n, k, i) PROVE Same
  <2>1. g[i].key = k /\ (\A j \in 1 .. n : g[j].key = k => j <= i) /\ g[i].val = h[i].val
    BY <1>2 DEF NewestOf
  <2>2. Store!ValueAt(h, n, k) = h[i].val
    BY <1>2, ValueIs DEF NewestOf
  <2>3. Store!ValueAt(g, n, k) = g[i].val
    BY <2>1, ValueIs
  <2> QED
    BY <2>1, <2>2, <2>3
<1>3. NoneOf(h, n, k) \/ \E i \in 1 .. n : NewestOf(h, n, k, i)
  BY ValueOrNone
<1>4. Same
  <2> HIDE DEF Same
  <2> QED
    BY <1>1, <1>2, <1>3
<1> QED
  BY <1>4

HistoryWrites == [key : Keys, val : Values \cup {NoVal}]

(* A write changes the value of its key.                                   *)
LEMMA ValueAppended ==
  ASSUME NEW h \in Seq(HistoryWrites), NEW w \in HistoryWrites, NEW k
  PROVE  Store!ValueAt(Append(h, w), Len(h) + 1, k)
           = IF w.key = k THEN w.val ELSE Store!ValueAt(h, Len(h), k)
<1> DEFINE g == Append(h, w)
<1>1. /\ Len(h) \in Nat /\ Len(h) + 1 \in 1 .. Len(h) + 1 /\ g[Len(h) + 1] = w
      /\ \A i \in 1 .. Len(h) : g[i] = h[i] /\ i \in 1 .. Len(h) + 1
      /\ \A i \in 1 .. Len(h) + 1 : i \in 1 .. Len(h) \/ i = Len(h) + 1
  <2>1. Len(h) \in Nat
    BY LenProperties
  <2>2. g[Len(h) + 1] = w /\ \A i \in 1 .. Len(h) : g[i] = h[i]
    BY AppendProperties
  <2> QED
    BY <2>1, <2>2
<1> HIDE DEF g
<1>2. CASE w.key = k
  <2>1. g[Len(h) + 1].key = k /\ \A j \in 1 .. Len(h) + 1 : g[j].key = k => j <= Len(h) + 1
    BY <1>1, <1>2
  <2>2. Store!ValueAt(g, Len(h) + 1, k) = g[Len(h) + 1].val
    BY <1>1, <2>1, ValueIs
  <2> QED
    BY <1>1, <1>2, <2>2 DEF g
<1>3. CASE w.key # k
  <2>1. CASE \A j \in 1 .. Len(h) : h[j].key # k
    <3>1. \A j \in 1 .. Len(h) + 1 : g[j].key # k
      BY <1>1, <1>3, <2>1
    <3>2. Store!ValueAt(g, Len(h) + 1, k) = NoVal /\ Store!ValueAt(h, Len(h), k) = NoVal
      BY <2>1, <3>1, NoValueYet
    <3> QED
      BY <1>3, <3>2 DEF g
  <2>2. CASE \E i \in 1 .. Len(h) :
               h[i].key = k /\ \A j \in 1 .. Len(h) : h[j].key = k => j <= i
    <3>1. PICK i \in 1 .. Len(h) :
            h[i].key = k /\ \A j \in 1 .. Len(h) : h[j].key = k => j <= i
      BY <2>2
    <3>2. g[i].key = k /\ (\A j \in 1 .. Len(h) + 1 : g[j].key = k => j <= i)
          /\ g[i].val = h[i].val /\ i \in 1 .. Len(h) + 1
      BY <1>1, <1>3, <3>1
    <3>3. Store!ValueAt(h, Len(h), k) = h[i].val
      BY <1>1, <3>1, ValueIs
    <3>4. Len(h) + 1 \in Nat
      BY <1>1
    <3>5. Store!ValueAt(g, Len(h) + 1, k) = g[i].val
      BY <3>2, <3>4, ValueIs
    <3> QED
      BY <1>3, <3>2, <3>3, <3>5 DEF g
  <2>3. Len(h) \in Nat
    BY <1>1
  <2>4. \/ \A j \in 1 .. Len(h) : h[j].key # k
        \/ \E i \in 1 .. Len(h) :
             h[i].key = k /\ \A j \in 1 .. Len(h) : h[j].key = k => j <= i
    BY <2>3, ValueOfWrite
  <2> QED
    BY <2>1, <2>2, <2>4
<1> QED
  BY <1>2, <1>3

-----------------------------------------------------------------------------
(* What a file records of a history.                                       *)

(* From its snap events on, the map that log makes is that of the writes   *)
(* that these events stand for.                                            *)
Trace(log, file, h, c, t) ==
  /\ Makes(log, c, t)
  /\ \A n \in file.snap .. Len(log), k \in Keys :
       c[n][k].val = Store!ValueAt(h, file.base + n - file.snap, k)

Records(log, file, h) == \E c, t : Trace(log, file, h, c, t)

(* ... and all of log makes the map m, with numbers up to top.             *)
RecordsAll(log, file, h, m, top) ==
  \E c, t : Trace(log, file, h, c, t) /\ c[Len(log)] = m /\ t[Len(log)] <= top

First(short, log) ==
  /\ short \in Seq(Events) /\ Len(short) \in 0 .. Len(log)
  /\ \A i \in 1 .. Len(short) : short[i] = log[i]

(* What is left of a log records what is left of its history.              *)
LEMMA RecordsFirst ==
  ASSUME NEW file, file.base \in Nat, file.snap \in Nat,
         NEW left, left.base = file.base, left.snap = file.snap,
         NEW log, NEW h, Records(log, file, h), NEW short, First(short, log),
         NEW g, \A i \in 1 .. file.base + Len(short) - file.snap : g[i] = h[i]
  PROVE  Records(short, left, g)
<1>1. PICK c, t : Trace(log, file, h, c, t)
  BY DEF Records
<1> DEFINE c2 == [n \in 0 .. Len(short) |-> c[n]]
           t2 == [n \in 0 .. Len(short) |-> t[n]]
<1>2. Makes(log, c, t)
  BY <1>1 DEF Trace
<1>3. Makes(short, c2, t2)
  BY <1>2, MakesFirst DEF First
<1>4. Len(short) \in Nat /\ Len(log) \in Nat /\ Len(short) <= Len(log)
  BY <1>2, MakesIs, LenProperties DEF First
<1>5. ASSUME NEW n \in left.snap .. Len(short), NEW k \in Keys
      PROVE  c2[n][k].val = Store!ValueAt(g, left.base + n - left.snap, k)
  <2>1. n \in 0 .. Len(short) /\ n \in file.snap .. Len(log)
    BY <1>4
  <2>2. c2[n] = c[n]
    BY <2>1
  <2> HIDE DEF c2, t2
  <2> DEFINE N == file.base + n - file.snap
             M == file.base + Len(short) - file.snap
  <2>3. M \in Int /\ N \in Nat /\ N <= M
    BY <1>4, <2>1
  <2>4. \A i \in 1 .. M : g[i] = h[i]
    OBVIOUS
  <2>5. c[n][k].val = Store!ValueAt(h, N, k)
    BY <1>1, <2>1 DEF Trace
  <2>6. N = left.base + n - left.snap
    OBVIOUS
  <2> HIDE DEF N, M
  <2>7. \A i \in 1 .. N : g[i] = h[i]
    BY <2>3, <2>4
  <2>8. Store!ValueAt(g, N, k) = Store!ValueAt(h, N, k)
    BY <2>3, <2>7, ValueSame
  <2> QED
    BY <2>2, <2>5, <2>6, <2>8
<1> HIDE DEF c2, t2
<1>6. Trace(short, left, g, c2, t2)
  BY <1>3, <1>5 DEF Trace
<1> QED
  BY <1>6 DEF Records

(* A history that goes on records the log as before.                       *)
LEMMA RecordsKept ==
  ASSUME NEW file, file.base \in Nat, file.snap \in Nat,
         NEW other, other.base = file.base, other.snap = file.snap,
         NEW log, NEW h, NEW m, NEW top, RecordsAll(log, file, h, m, top),
         NEW g, \A i \in 1 .. file.base + Len(log) - file.snap : g[i] = h[i]
  PROVE  RecordsAll(log, other, g, m, top)
<1>1. PICK c, t : Trace(log, file, h, c, t) /\ c[Len(log)] = m /\ t[Len(log)] <= top
  BY DEF RecordsAll
<1>2. Makes(log, c, t) /\ Len(log) \in Nat
  BY <1>1, MakesIs DEF Trace
<1>3. ASSUME NEW n \in other.snap .. Len(log), NEW k \in Keys
      PROVE  c[n][k].val = Store!ValueAt(g, other.base + n - other.snap, k)
  <2> DEFINE N == file.base + n - file.snap
             M == file.base + Len(log) - file.snap
  <2>1. M \in Int /\ N \in Nat /\ N <= M
    BY <1>2
  <2>2. \A i \in 1 .. M : g[i] = h[i]
    OBVIOUS
  <2>3. c[n][k].val = Store!ValueAt(h, N, k)
    BY <1>1 DEF Trace
  <2>4. N = other.base + n - other.snap
    OBVIOUS
  <2> HIDE DEF N, M
  <2>5. \A i \in 1 .. N : g[i] = h[i]
    BY <2>1, <2>2
  <2>6. Store!ValueAt(g, N, k) = Store!ValueAt(h, N, k)
    BY <2>1, <2>5, ValueSame
  <2> QED
    BY <2>3, <2>4, <2>6
<1>4. Trace(log, other, g, c, t)
  BY <1>2, <1>3 DEF Trace
<1> QED
  BY <1>1, <1>4 DEF RecordsAll

(* An event that is added records one write more.                          *)
LEMMA RecordsMore ==
  ASSUME NEW file, file.base \in Nat, file.snap \in Nat,
         NEW log, NEW h, NEW m \in Maps, NEW top \in Nat, NEW up \in Nat, top <= up,
         RecordsAll(log, file, h, m, top),
         NEW e \in Events, Fits(m, e, top), e.rewrite \/ e.id <= up,
         \A k \in Keys : Apply(m, e)[k].val
                           = Store!ValueAt(h, file.base + (Len(log) + 1) - file.snap, k)
  PROVE  RecordsAll(Append(log, e), file, h, Apply(m, e), up)
<1>1. PICK c, t : Trace(log, file, h, c, t) /\ c[Len(log)] = m /\ t[Len(log)] <= top
  BY DEF RecordsAll
<1>2. Makes(log, c, t)
  BY <1>1 DEF Trace
<1>3. /\ log \in Seq(Events) /\ Len(log) \in Nat /\ e.id \in Nat
      /\ \A n \in 0 .. Len(log) : c[n] \in Maps /\ t[n] \in Nat
  <2>1. e.id \in Nat
    BY DEF Events, Ids
  <2> QED
    BY <1>2, <2>1, MakesIs
<1> DEFINE L == Len(log) + 1
           longer == Append(log, e)
           last == IF e.rewrite THEN t[Len(log)] ELSE e.id
           c2 == [n \in 0 .. L |-> IF n = L THEN Apply(m, e) ELSE c[n]]
           t2 == [n \in 0 .. L |-> IF n = L THEN last ELSE t[n]]
<1>4. Apply(m, e) \in Maps
  BY ApplyIs
<1>5. last \in Nat /\ last <= up
  BY <1>1, <1>3
<1>6. /\ longer \in Seq(Events) /\ Len(longer) = L /\ longer[L] = e
      /\ \A n \in 1 .. Len(log) : longer[n] = log[n]
  BY <1>3, AppendProperties
<1>7. /\ L \in Nat \ {0} /\ L - 1 = Len(log) /\ 0 \in 0 .. Len(log) /\ 0 \in 0 .. L
      /\ L \in 0 .. L /\ Len(log) \in 0 .. Len(log) /\ L \notin 0 .. Len(log)
      /\ \A n \in 0 .. Len(log) : n \in 0 .. L
      /\ \A n \in 1 .. Len(log) : n \in 0 .. Len(log) /\ n - 1 \in 0 .. Len(log)
      /\ \A n \in 0 .. L : n = L \/ n \in 0 .. Len(log)
      /\ \A n \in 1 .. L : n = L \/ n \in 1 .. Len(log)
  BY <1>3
<1> HIDE DEF L, longer, last
<1>8. /\ c2 \in [0 .. L -> Maps] /\ c2[L] = Apply(m, e)
      /\ \A n \in 0 .. Len(log) : c2[n] = c[n]
  BY <1>3, <1>4, <1>7
<1>9. /\ t2 \in [0 .. L -> Nat] /\ t2[L] = last
      /\ \A n \in 0 .. Len(log) : t2[n] = t[n]
  BY <1>3, <1>5, <1>7
<1> HIDE DEF c2, t2
<1>10. c2[0] = Nothing /\ t2[0] = 0
  BY <1>2, <1>7, <1>8, <1>9 DEF Makes
<1>11. Fits(c[Len(log)], e, t[Len(log)])
  <2>1. t[Len(log)] \in Nat
    BY <1>3, <1>7
  <2> QED
    BY <1>1, <1>3, <2>1 DEF Fits
<1>12. ASSUME NEW n \in 1 .. L
       PROVE  /\ Fits(c2[n - 1], longer[n], t2[n - 1])
              /\ c2[n] = Apply(c2[n - 1], longer[n])
              /\ t2[n] = IF longer[n].rewrite THEN t2[n - 1] ELSE longer[n].id
  <2>1. CASE n = L
    <3>1. n - 1 = Len(log) /\ c2[n - 1] = c[Len(log)] /\ t2[n - 1] = t[Len(log)]
      BY <1>7, <1>8, <1>9, <2>1
    <3> QED
      BY <1>1, <1>6, <1>8, <1>9, <1>11, <2>1, <3>1 DEF last
  <2>2. CASE n \in 1 .. Len(log)
    <3>1. /\ c2[n - 1] = c[n - 1] /\ t2[n - 1] = t[n - 1]
          /\ c2[n] = c[n] /\ t2[n] = t[n] /\ longer[n] = log[n]
      BY <1>6, <1>7, <1>8, <1>9, <2>2
    <3> QED
      BY <1>2, <2>2, <3>1 DEF Makes
  <2> QED
    BY <1>7, <2>1, <2>2
<1>13. Makes(longer, c2, t2)
  BY <1>6, <1>8, <1>9, <1>10, <1>12 DEF Makes
<1>14. ASSUME NEW n \in file.snap .. Len(longer), NEW k \in Keys
       PROVE  c2[n][k].val = Store!ValueAt(h, file.base + n - file.snap, k)
  <2>1. n = L \/ n \in 0 .. Len(log)
    BY <1>6, <1>7
  <2>2. CASE n = L
    <3>1. Apply(m, e)[k].val = Store!ValueAt(h, file.base + (Len(log) + 1) - file.snap, k)
      OBVIOUS
    <3> QED
      BY <1>8, <2>2, <3>1 DEF L
  <2>3. CASE n \in 0 .. Len(log)
    <3>1. n \in file.snap .. Len(log) /\ c2[n] = c[n]
      BY <1>3, <1>8, <2>3
    <3> QED
      BY <1>1, <3>1 DEF Trace
  <2> QED
    BY <2>1, <2>2, <2>3
<1>15. Trace(longer, file, h, c2, t2)
  BY <1>13, <1>14 DEF Trace
<1>16. c2[Len(longer)] = Apply(m, e) /\ t2[Len(longer)] <= up
  BY <1>5, <1>6, <1>8, <1>9
<1>17. RecordsAll(longer, file, h, Apply(m, e), up)
  BY <1>15, <1>16 DEF RecordsAll
<1> QED
  BY <1>17 DEF longer

-----------------------------------------------------------------------------
(* The inductive invariant of what the store holds.                        *)

(* The events that the actor has not taken yet.                            *)
Pending == waiting \cup {call[t] : t \in {u \in Threads : Sending(u)}}

(* The maps from the one of the slots to the newest: each event that is    *)
(* pending fits the map at its number and makes the next one, and each map *)
(* is that of the writes up to it.                                         *)
Path(p, from, to, events, h, place) ==
  /\ p \in [from .. to -> Maps]
  /\ \A e \in events : /\ Fits(p[e.seq - 1], e.event, e.seq - 1)
                       /\ p[e.seq] = Apply(p[e.seq - 1], e.event)
                       /\ e.event.rewrite \/ e.event.id = e.seq
  /\ \A q \in from .. to, k \in Keys : p[q][k].val = Store!ValueAt(h, q + place, k)

SlotsInv == turn # "off" =>
  MapOf(slots) \in Maps /\ Shows(slots, MapOf(slots), begin - 1)

PathInv == turn # "off" =>
  \E p : /\ Path(p, begin - 1, lastId, Pending, history, boot)
         /\ p[begin - 1] = MapOf(slots) /\ p[lastId] = map

(* What the file and the buffer hold, and what would be left of it.        *)
Log  == main.data \o buffer
Kept == IF turn = "off" THEN Readable(Survivor.data)
        ELSE IF turn = "rename" THEN new.data ELSE Log

StoredInv ==
  /\ Records(Kept, Survivor, history)
  /\ turn \notin {"off", "write", "barrier", "unlink", "rename"} =>
       RecordsAll(Log, main, history, MapOf(slots), begin - 1)
  /\ turn \in {"barrier", "unlink", "rename"} =>
       RecordsAll(new.data, new, history, MapOf(slots), begin - 1)

ContentInv == NeverFatal /\ SlotsInv /\ PathInv /\ StoredInv

-----------------------------------------------------------------------------
(* The maps.                                                               *)

LEMMA PendingAre ==
  ASSUME IInv, turn # "off", NEW e \in Pending
  PROVE  /\ e.seq \in Nat /\ begin \in Nat /\ begin >= 1 /\ lastId \in Nat
         /\ begin <= e.seq /\ e.seq <= lastId /\ e.event \in Events
         /\ e.seq \in begin - 1 .. lastId /\ e.seq - 1 \in begin - 1 .. lastId
<1>1. TypeOK /\ WaitingInv
  BY DEF IInv
<1>2. EventInv(e) /\ e.seq \in Nat /\ e.event \in Events
  <2>1. CASE e \in waiting
    BY <1>1, <2>1, EventsAre
  <2>2. CASE e \in {call[t] : t \in {u \in Threads : Sending(u)}}
    <3>1. PICK t \in Threads : Sending(t) /\ e = call[t]
      BY <2>2
    <3>2. EventInv(call[t]) /\ call[t].seq \in Nat /\ call[t].event \in Events
      BY <1>1, <3>1, EventsAre
    <3> QED
      BY <3>1, <3>2
  <2> QED
    BY <2>1, <2>2 DEF Pending
<1>3. begin \in Nat /\ begin >= 1 /\ lastId \in Nat
  <2>1. begin \in 1 .. MaxWrites + 1
    BY <1>1 DEF TypeOK
  <2> QED
    BY <1>1, <2>1, NumbersAre
<1>4. begin <= e.seq /\ e.seq <= lastId
  BY <1>2 DEF EventInv
<1> QED
  BY <1>2, <1>3, <1>4

LEMMA PendingSeqs ==
  IInv /\ turn # "off" =>
    \A e \in Pending : /\ e.seq \in begin - 1 .. lastId
                       /\ e.seq - 1 \in begin - 1 .. lastId /\ e.event \in Events
BY PendingAre

LEMMA PendingStay ==
  (IInv /\ turn # "off")' =>
    (\A e \in Pending : /\ e.seq \in begin - 1 .. lastId
                        /\ e.seq - 1 \in begin - 1 .. lastId /\ e.event \in Events)'
BY PendingSeqs, PTL

LEMMA SameMaps ==
  ASSUME SlotsInv, PathInv, turn # "off",
         UNCHANGED <<slots, map, lastId, begin, history, boot>>, Pending' \subseteq Pending
  PROVE  SlotsInv' /\ PathInv'
<1>1. SlotsInv'
  BY DEF SlotsInv
<1>2. PICK p : /\ Path(p, begin - 1, lastId, Pending, history, boot)
               /\ p[begin - 1] = MapOf(slots) /\ p[lastId] = map
  BY DEF PathInv
<1>3. Path(p, begin - 1, lastId, Pending', history, boot)
  BY <1>2 DEF Path
<1>4. /\ Path(p, begin' - 1, lastId', Pending', history', boot')
      /\ p[begin' - 1] = MapOf(slots') /\ p[lastId'] = map'
  BY <1>2, <1>3
<1> QED
  BY <1>1, <1>4 DEF PathInv

(* The slots are those of the writes that were taken.                      *)
LEMMA SlotsStand ==
  ASSUME IInv, SlotsInv, PathInv, turn # "off"
  PROVE  /\ MapOf(slots) \in Maps /\ Shows(slots, MapOf(slots), begin - 1)
         /\ begin - 1 \in Nat /\ begin - 1 <= MaxWrites
         /\ \A k \in Keys : MapOf(slots)[k].val = Store!ValueAt(history, Taken, k)
<1>1. PICK p : /\ Path(p, begin - 1, lastId, Pending, history, boot)
               /\ p[begin - 1] = MapOf(slots)
  BY DEF PathInv
<1>2. begin \in 1 .. MaxWrites + 1 /\ MaxWrites \in Nat /\ lastId \in Nat
      /\ begin - 1 <= lastId
  BY BinlogAssumption, NumbersAre DEF IInv, TypeOK, NumberInv
<1>3. begin - 1 \in begin - 1 .. lastId /\ begin - 1 \in Nat /\ begin - 1 <= MaxWrites
  BY <1>2
<1>4. \A k \in Keys : p[begin - 1][k].val = Store!ValueAt(history, begin - 1 + boot, k)
  BY <1>1, <1>3 DEF Path
<1> QED
  BY <1>1, <1>3, <1>4 DEF SlotsInv, Taken

(* A write adds its map to the path.                                       *)
LEMMA WriteMaps ==
  ASSUME IInv, IInv', SlotsInv, PathInv,
         NEW t \in Threads, NEW k \in Keys, NEW v \in Values \cup {NoVal}, Write(t, k, v)
  PROVE  SlotsInv' /\ PathInv'
<1>1. /\ turn # "off" /\ turn' = turn /\ slots' = slots /\ begin' = begin /\ boot' = boot
      /\ waiting' = waiting /\ lastId' = lastId + 1 /\ v # map[k].val
      /\ history' = Append(history, [key |-> k, val |-> v])
  BY DEF Write, IsOpen, Reindexing, actorVars
<1> DEFINE event == [id |-> EventId(k), rewrite |-> map[k].id # 0, key |-> k, val |-> v]
           call2 == [type |-> "event", seq |-> lastId + 1, promise |-> t \in LogOwners,
                     event |-> event]
           w     == [key |-> k, val |-> v]
<1>2. /\ call \in [Threads -> Calls] /\ call' = [call EXCEPT ![t] = call2]
      /\ map' = [map EXCEPT ![k] = IF v = NoVal THEN NoKey
                                   ELSE [val |-> v, id |-> EventId(k)]]
  BY DEF Write, IInv, TypeOK
<1>3. /\ event.id = EventId(k) /\ event.rewrite = (map[k].id # 0) /\ event.key = k
      /\ event.val = v /\ call2.type = "event" /\ call2.seq = lastId + 1
      /\ call2.event = event
  OBVIOUS
<1>4. map' = Apply(map, event)
  BY <1>2 DEF Apply
<1> HIDE DEF event, call2
<1>5. Pending' \subseteq Pending \cup {call2} /\ call2 \in Pending'
  <2>1. call'[t] = call2 /\ \A u \in Threads : u # t => call'[u] = call[u]
    BY <1>2
  <2>2. ASSUME NEW e \in Pending' PROVE e \in Pending \cup {call2}
    <3>1. CASE e \in waiting'
      BY <1>1, <3>1 DEF Pending
    <3>2. CASE e \in {call'[u] : u \in {s \in Threads : call'[s].type = "event"}}
      <4>1. PICK u \in Threads : call'[u].type = "event" /\ e = call'[u]
        BY <3>2
      <4>2. CASE u = t
        BY <2>1, <4>1, <4>2
      <4>3. CASE u # t
        <5>1. e = call[u] /\ Sending(u)
          BY <2>1, <4>1, <4>3 DEF Sending
        <5> QED
          BY <5>1 DEF Pending
      <4> QED
        BY <4>2, <4>3
    <3> QED
      BY <3>1, <3>2 DEF Pending, Sending
  <2>3. call2 \in Pending'
    BY <1>3, <2>1 DEF Pending, Sending
  <2> QED
    BY <2>2, <2>3
<1>6. PICK p : /\ Path(p, begin - 1, lastId, Pending, history, boot)
               /\ p[begin - 1] = MapOf(slots) /\ p[lastId] = map
  BY <1>1 DEF PathInv
<1>7. /\ lastId \in Nat /\ boot \in Nat /\ lastId + boot = Len(history)
      /\ begin \in Nat /\ begin >= 1 /\ begin - 1 <= lastId /\ Len(history) \in Nat
  <2>1. TypeOK /\ NumberInv /\ begin \in 1 .. MaxWrites + 1
    BY DEF IInv, TypeOK
  <2> QED
    BY <1>1, <2>1, NumbersAre DEF NumberInv
<1>8. /\ \A q \in begin - 1 .. lastId : q \in begin - 1 .. lastId + 1 /\ q # lastId + 1
      /\ \A q \in begin - 1 .. lastId + 1 : q = lastId + 1 \/ q \in begin - 1 .. lastId
      /\ lastId + 1 \in begin - 1 .. lastId + 1 /\ lastId \in begin - 1 .. lastId
      /\ begin - 1 \in begin - 1 .. lastId
  BY <1>7
<1>9. map \in Maps /\ event \in Events
  <2>1. map \in Maps
    BY <1>6, <1>8 DEF Path
  <2>2. TypeOK' /\ WaitingInv' /\ turn' # "off" /\ IInv'
    BY <1>1 DEF IInv
  <2>3. call2.event \in Events
    BY <1>5, <2>2, PendingStay
  <2> QED
    BY <1>3, <2>1, <2>3
<1>10. Apply(map, event) \in Maps
  BY <1>9, ApplyIs
<1>11. Fits(map, event, lastId) /\ (event.rewrite \/ event.id = lastId + 1)
  <2>1. map[k].id \in Nat /\ (map[k].val = NoVal <=> map[k].id = 0)
    BY <1>9, MapsAre
  <2>2. CASE map[k].id = 0
    <3>1. v # NoVal /\ event.id = lastId + 1 /\ ~event.rewrite
      BY <1>1, <1>3, <2>1, <2>2 DEF EventId
    <3> QED
      BY <1>3, <1>7, <2>2, <3>1 DEF Fits
  <2>3. CASE map[k].id # 0
    BY <1>3, <2>3 DEF Fits, EventId
  <2> QED
    BY <2>2, <2>3
<1> DEFINE p2 == [q \in begin - 1 .. lastId + 1 |-> IF q = lastId + 1 THEN map' ELSE p[q]]
<1>12. /\ p2 \in [begin - 1 .. lastId + 1 -> Maps] /\ p2[lastId + 1] = map'
       /\ \A q \in begin - 1 .. lastId : p2[q] = p[q]
  <2>1. p \in [begin - 1 .. lastId -> Maps]
    BY <1>6 DEF Path
  <2> QED
    BY <1>4, <1>8, <1>10, <2>1
<1> HIDE DEF p2
<1>13. ASSUME NEW e \in Pending'
       PROVE  /\ Fits(p2[e.seq - 1], e.event, e.seq - 1)
              /\ p2[e.seq] = Apply(p2[e.seq - 1], e.event)
              /\ e.event.rewrite \/ e.event.id = e.seq
  <2>1. CASE e = call2
    <3>1. e.seq = lastId + 1 /\ e.seq - 1 = lastId /\ e.event = event
      BY <1>3, <1>7, <2>1
    <3>2. p2[lastId] = map /\ p2[lastId + 1] = Apply(map, event)
      BY <1>4, <1>6, <1>8, <1>12
    <3> QED
      BY <1>11, <3>1, <3>2
  <2>2. CASE e \in Pending
    <3>1. e.seq \in begin - 1 .. lastId /\ e.seq - 1 \in begin - 1 .. lastId
      BY <1>1, <2>2, PendingAre
    <3>2. p2[e.seq] = p[e.seq] /\ p2[e.seq - 1] = p[e.seq - 1]
      BY <1>12, <3>1
    <3> QED
      BY <1>6, <2>2, <3>2 DEF Path
  <2> QED
    BY <1>5, <2>1, <2>2
<1>14. ASSUME NEW q \in begin - 1 .. lastId + 1, NEW j \in Keys
       PROVE  p2[q][j].val = Store!ValueAt(history', q + boot, j)
  <2>1. history \in Seq(HistoryWrites) /\ w \in HistoryWrites /\ w.key = k /\ w.val = v
    BY DEF IInv, TypeOK, HistoryWrites
  <2> HIDE DEF w
  <2>2. history' = Append(history, w)
    BY <1>1 DEF w
  <2>3. CASE q \in begin - 1 .. lastId
    <3> DEFINE n == q + boot
    <3>1. p2[q][j].val = Store!ValueAt(history, n, j)
      BY <1>6, <1>12, <2>3 DEF Path
    <3>2. n \in Nat /\ n <= Len(history)
      BY <1>7, <2>3
    <3> HIDE DEF n
    <3>3. \A i \in 1 .. Len(history) : history'[i] = history[i]
      BY <2>1, <2>2, AppendProperties
    <3>4. \A i \in 1 .. n : history'[i] = history[i]
      BY <1>7, <3>2, <3>3
    <3>5. Store!ValueAt(history', n, j) = Store!ValueAt(history, n, j)
      BY <3>2, <3>4, ValueSame
    <3> QED
      BY <3>1, <3>5 DEF n
  <2>4. CASE q = lastId + 1
    <3>1. q + boot = Len(history) + 1 /\ p2[q] = Apply(map, event)
      BY <1>4, <1>7, <1>12, <2>4
    <3>2. Store!ValueAt(history', Len(history) + 1, j)
            = IF k = j THEN v ELSE Store!ValueAt(history, Len(history), j)
      BY <2>1, <2>2, ValueAppended
    <3>3. map[j].val = Store!ValueAt(history, Len(history), j)
      <4>1. p[lastId][j].val = Store!ValueAt(history, lastId + boot, j)
        BY <1>6, <1>8 DEF Path
      <4> QED
        BY <1>6, <1>7, <4>1
    <3>4. Apply(map, event)[j].val = IF k = j THEN v ELSE map[j].val
      <4>1. /\ Apply(map, event)[k] = IF v = NoVal THEN NoKey ELSE [val |-> v, id |-> event.id]
            /\ \A i \in Keys : i # k => Apply(map, event)[i] = map[i]
        BY <1>3, <1>9, ApplyIs
      <4> QED
        BY <4>1 DEF NoKey
    <3> QED
      BY <3>1, <3>2, <3>3, <3>4
  <2> QED
    BY <1>8, <2>3, <2>4
<1>15. Path(p2, begin - 1, lastId + 1, Pending', history', boot)
  BY <1>12, <1>13, <1>14 DEF Path
<1>16. PathInv'
  <2>1. p2[begin - 1] = MapOf(slots)
    BY <1>6, <1>8, <1>12
  <2>2. /\ Path(p2, begin' - 1, lastId', Pending', history', boot')
        /\ p2[begin' - 1] = MapOf(slots') /\ p2[lastId'] = map'
    BY <1>1, <1>12, <1>15, <2>1
  <2> QED
    BY <2>2 DEF PathInv
<1>17. SlotsInv'
  BY <1>1 DEF SlotsInv
<1> QED
  BY <1>16, <1>17

(* The event that is taken is accepted, and its map is the slots' next.    *)
LEMMA DrainMaps ==
  ASSUME IInv, IInv', SlotsInv, PathInv, NEW e \in waiting, Drain(e)
  PROVE  /\ ~Refused(slots, e.event) /\ SlotsInv' /\ PathInv'
         /\ MapOf(slots)' = Apply(MapOf(slots), e.event)
         /\ Fits(MapOf(slots), e.event, begin - 1)
         /\ e.event.rewrite \/ e.event.id <= begin
         /\ \A k \in Keys : Apply(MapOf(slots), e.event)[k].val
                              = Store!ValueAt(history, Taken + 1, k)
<1>1. /\ turn = "drain" /\ turn' # "off" /\ slots' = Added(slots, e.event)
      /\ begin' = begin + 1 /\ e.seq = begin /\ waiting' = waiting \ {e}
      /\ UNCHANGED <<map, lastId, call, history, boot>>
  BY DEF Drain, IsNext, clientVars, ghostVars
<1>2. e \in Pending
  BY DEF Pending
<1>3. PICK p : /\ Path(p, begin - 1, lastId, Pending, history, boot)
               /\ p[begin - 1] = MapOf(slots) /\ p[lastId] = map
  BY <1>1 DEF PathInv
<1>4. /\ begin \in Nat /\ begin >= 1 /\ lastId \in Nat /\ begin <= lastId
      /\ e.event \in Events /\ boot \in Nat
  <2>1. boot \in Nat
    BY DEF IInv, TypeOK
  <2> QED
    BY <1>1, <1>2, <2>1, PendingAre
<1> DEFINE m == MapOf(slots)
           a == Apply(m, e.event)
<1>5. m \in Maps /\ Shows(slots, m, begin - 1)
  BY <1>1 DEF SlotsInv
<1>6. Fits(m, e.event, begin - 1) /\ p[begin] = a /\ (e.event.rewrite \/ e.event.id = begin)
  BY <1>1, <1>2, <1>3 DEF Path
<1> HIDE DEF m, a
<1>7. e.event.rewrite \/ e.event.id <= begin
  BY <1>4, <1>6
<1>8. begin - 1 \in Nat /\ begin - 1 <= begin
  BY <1>4
<1>9. ~Refused(slots, e.event) /\ Shows(slots', a, begin) /\ a \in Maps
  BY <1>1, <1>4, <1>5, <1>6, <1>7, <1>8, AddedShows DEF a
<1>10. MapOf(slots') = a
  BY <1>4, <1>9, MapOfShows
<1>11. SlotsInv'
  <2>1. begin' - 1 = begin
    BY <1>1, <1>4
  <2> QED
    BY <1>9, <1>10, <2>1 DEF SlotsInv
<1> DEFINE p2 == [q \in begin .. lastId |-> p[q]]
<1>12. /\ \A q \in begin .. lastId : p2[q] = p[q] /\ q \in begin - 1 .. lastId
       /\ p2 \in [begin .. lastId -> Maps]
  <2>1. p \in [begin - 1 .. lastId -> Maps]
    BY <1>3 DEF Path
  <2>2. \A q \in begin .. lastId : q \in begin - 1 .. lastId
    BY <1>4
  <2> QED
    BY <2>1, <2>2
<1> HIDE DEF p2
<1>13. ASSUME NEW f \in Pending'
       PROVE  /\ Fits(p2[f.seq - 1], f.event, f.seq - 1)
              /\ p2[f.seq] = Apply(p2[f.seq - 1], f.event)
              /\ f.event.rewrite \/ f.event.id = f.seq
  <2>1. f \in Pending
    BY <1>1 DEF Pending, Sending
  <2>2. f.seq \in begin .. lastId /\ f.seq - 1 \in begin .. lastId
    <3>1. IInv' /\ turn' # "off"
      BY <1>1
    <3>2. f.seq \in begin' - 1 .. lastId' /\ f.seq - 1 \in begin' - 1 .. lastId'
      BY <3>1, PendingStay
    <3>3. begin' - 1 = begin /\ lastId' = lastId
      BY <1>1, <1>4
    <3> QED
      BY <3>2, <3>3
  <2>3. p2[f.seq] = p[f.seq] /\ p2[f.seq - 1] = p[f.seq - 1]
    BY <1>12, <2>2
  <2> QED
    BY <1>3, <2>1, <2>3 DEF Path
<1>14. \A q \in begin .. lastId, k \in Keys :
         p2[q][k].val = Store!ValueAt(history, q + boot, k)
  BY <1>3, <1>12 DEF Path
<1>15. Path(p2, begin, lastId, Pending', history, boot)
  BY <1>12, <1>13, <1>14 DEF Path
<1>16. begin \in begin .. lastId /\ lastId \in begin .. lastId
  BY <1>4
<1>17. p2[begin] = a /\ p2[lastId] = map
  BY <1>3, <1>6, <1>12, <1>16
<1>18. PathInv'
  <2>1. begin' - 1 = begin
    BY <1>1, <1>4
  <2>2. /\ Path(p2, begin' - 1, lastId', Pending', history', boot')
        /\ p2[begin' - 1] = MapOf(slots') /\ p2[lastId'] = map'
    BY <1>1, <1>10, <1>15, <1>17, <2>1
  <2> QED
    BY <2>2 DEF PathInv
<1>19. \A k \in Keys : a[k].val = Store!ValueAt(history, Taken + 1, k)
  <2>1. Taken + 1 = begin + boot
    BY <1>4 DEF Taken
  <2> QED
    BY <1>14, <1>16, <1>17, <2>1
<1> QED
  BY <1>6, <1>7, <1>9, <1>10, <1>11, <1>18, <1>19 DEF m, a

-----------------------------------------------------------------------------
(* The files.                                                              *)

LEMMA AllRecorded ==
  ASSUME NEW log, NEW file, NEW h, NEW m, NEW top, RecordsAll(log, file, h, m, top)
  PROVE  Records(log, file, h)
BY DEF RecordsAll, Records

LEMMA RecordsLog ==
  ASSUME NEW log, NEW file, NEW h, Records(log, file, h)
  PROVE  log \in Seq(Events) /\ Len(log) \in Nat /\ First(log, log)
<1>1. PICK c, t : Trace(log, file, h, c, t)
  BY DEF Records
<1>2. Makes(log, c, t)
  BY <1>1 DEF Trace
<1>3. log \in Seq(Events) /\ Len(log) \in Nat
  BY <1>2, MakesIs
<1> QED
  BY <1>3 DEF First

LEMMA SameRecords ==
  ASSUME NEW log, NEW file, NEW h, Records(log, file, h),
         NEW other, other.base = file.base, other.snap = file.snap
  PROVE  Records(log, other, h)
<1>1. PICK c, t : Trace(log, file, h, c, t)
  BY DEF Records
<1>2. Trace(log, other, h, c, t)
  BY <1>1 DEF Trace
<1> QED
  BY <1>2 DEF Records

LEMMA SameRecordsAll ==
  ASSUME NEW log, NEW file, NEW h, NEW m, NEW top, RecordsAll(log, file, h, m, top),
         NEW other, other.base = file.base, other.snap = file.snap
  PROVE  RecordsAll(log, other, h, m, top)
<1>1. PICK c, t : Trace(log, file, h, c, t) /\ c[Len(log)] = m /\ t[Len(log)] <= top
  BY DEF RecordsAll
<1>2. Trace(log, other, h, c, t)
  BY <1>1 DEF Trace
<1> QED
  BY <1>1, <1>2 DEF RecordsAll

(* What the files hold is no more than was written.                        *)
LEMMA KeptFits ==
  ASSUME IInv, turn # "off"
  PROVE  /\ turn # "rename" =>
              /\ main \in Files /\ main.exists /\ Survivor = main /\ Kept = Log
              /\ main.snap <= Len(main.data) /\ Len(Log) = Len(main.data) + Len(buffer)
              /\ main.base + Len(Log) - main.snap <= Len(history)
         /\ turn \in {"barrier", "unlink", "rename"} =>
              /\ new \in Files /\ new.base = Taken /\ new.snap = Len(new.data)
              /\ new.base + Len(new.data) - new.snap <= Len(history)
         /\ turn = "rename" => ~main.exists /\ Survivor = new /\ Kept = new.data
         /\ Len(history) \in Nat /\ Taken \in Nat /\ Taken <= Len(history)
         /\ Survivor.base \in Nat /\ Survivor.snap \in Nat
         /\ Survivor.base + Len(Kept) - Survivor.snap <= Len(history)
<1>0. TypeOK /\ NumberInv /\ MainInv /\ FileInv /\ NewInv
  BY DEF IInv
<1>1. Len(history) \in Nat /\ Taken \in Nat /\ Taken <= Len(history)
  BY <1>0, NumbersAre, TakenIsSmall
<1>2. CASE turn # "rename"
  <2>1. /\ main \in Files /\ main.exists
        /\ WritesIn(main, Len(main.data)) = main.base + Len(main.data) - main.snap
        /\ main.snap <= Len(main.data)
        /\ buffer \in Seq(Events) /\ Len(buffer) \in Nat
    BY <1>0, <1>2, MainThere
  <2>2. /\ main.data \in Seq(Events \cup {Torn}) /\ main.base \in Nat
        /\ main.snap \in Nat /\ Len(main.data) \in Nat
    BY <2>1, FilesAre
  <2>3. buffer \in Seq(Events \cup {Torn})
    <3>1. \A i \in 1 .. Len(buffer) : buffer[i] \in Events \cup {Torn}
      BY <2>1, ElementOfSeq
    <3>2. buffer \in [1 .. Len(buffer) -> Events \cup {Torn}]
      BY <2>1, <3>1, LenProperties
    <3> QED
      BY <2>1, <3>2, SeqDef
  <2>4. Len(Log) = Len(main.data) + Len(buffer)
    BY <2>2, <2>3, ConcatProperties DEF Log
  <2>5. WritesIn(main, Len(main.data)) + Len(buffer) <= Taken
    BY <1>0, <2>1 DEF FileInv
  <2>6. main.base + Len(Log) - main.snap <= Len(history)
    <3>1. PICK d \in Nat, l \in Nat, b \in Nat, s \in Nat, a \in Nat, h \in Nat :
            /\ d = Len(main.data) /\ l = Len(buffer) /\ b = main.base /\ s = main.snap
            /\ a = Taken /\ h = Len(history)
      BY <1>1, <2>1, <2>2
    <3>2. b + d - s + l <= a /\ a <= h
      BY <1>1, <2>1, <2>5, <3>1
    <3>3. b + (d + l) - s <= h
      BY <3>2
    <3> QED
      BY <2>4, <3>1, <3>3
  <2>7. Survivor = main /\ Kept = Log
    BY <1>2, <2>1 DEF Survivor, Kept
  <2>8. turn \in {"barrier", "unlink"} =>
          /\ new \in Files /\ new.base = Taken /\ new.snap = Len(new.data)
          /\ new.base + Len(new.data) - new.snap <= Len(history)
    <3> SUFFICES ASSUME turn \in {"barrier", "unlink"}
                 PROVE  /\ new \in Files /\ new.base = Taken /\ new.snap = Len(new.data)
                        /\ new.base + Len(new.data) - new.snap <= Len(history)
      OBVIOUS
    <3>1. new \in Files /\ new.base = Taken /\ new.snap = Len(new.data)
      BY <1>0 DEF NewInv, Replaces, TypeOK
    <3>2. Len(new.data) \in Nat
      BY <3>1, FilesAre
    <3> QED
      BY <1>1, <3>1, <3>2
  <2> QED
    BY <1>1, <1>2, <2>1, <2>2, <2>4, <2>6, <2>7, <2>8
<1>3. CASE turn = "rename"
  <2>1. /\ ~main.exists /\ new \in Files /\ new.base = Taken /\ new.snap = Len(new.data)
    BY <1>0, <1>3 DEF NewInv, Replaces, TypeOK
  <2>2. Len(new.data) \in Nat
    BY <2>1, FilesAre
  <2>3. Survivor = new /\ Kept = new.data
    BY <1>3, <2>1 DEF Survivor, Kept
  <2>4. new.base + Len(new.data) - new.snap <= Len(history)
    BY <1>1, <2>1, <2>2
  <2> QED
    BY <1>1, <1>3, <2>1, <2>2, <2>3, <2>4
<1> QED
  BY <1>2, <1>3

LEMMA SameStored ==
  ASSUME StoredInv, UNCHANGED <<main, new, buffer, slots, begin, history, turn>>
  PROVE  StoredInv'
BY DEF StoredInv, Kept, Log, Survivor

(* A step that keeps the log, between two steps of do_reindex.             *)
LEMMA SteadyStored ==
  ASSUME StoredInv, main.exists, main'.exists,
         turn \notin {"off", "write", "barrier", "unlink", "rename"},
         turn' \notin {"off", "write", "barrier", "unlink", "rename"},
         main'.base = main.base, main'.snap = main.snap, Log' = Log,
         UNCHANGED <<slots, begin, history>>
  PROVE  StoredInv'
<1>1. RecordsAll(Log, main, history, MapOf(slots), begin - 1)
  BY DEF StoredInv
<1>2. RecordsAll(Log, main', history, MapOf(slots), begin - 1)
  BY <1>1, SameRecordsAll
<1>3. Records(Log, main', history)
  BY <1>2, AllRecorded
<1>4. Kept' = Log' /\ Survivor' = main'
  BY DEF Kept, Survivor
<1>5. RecordsAll(Log', main', history', MapOf(slots'), begin' - 1)
  BY <1>2
<1>6. Records(Kept', Survivor', history')
  BY <1>3, <1>4
<1> QED
  BY <1>5, <1>6 DEF StoredInv

LEMMA WriteStored ==
  ASSUME IInv, StoredInv,
         NEW t \in Threads, NEW k \in Keys, NEW v \in Values \cup {NoVal}, Write(t, k, v)
  PROVE  StoredInv'
<1>1. /\ turn # "off" /\ history' = Append(history, [key |-> k, val |-> v])
      /\ UNCHANGED <<main, new, buffer, slots, begin, turn>>
  BY DEF Write, IsOpen, Reindexing, actorVars, fileVars
<1>2. history \in Seq(HistoryWrites) /\ [key |-> k, val |-> v] \in HistoryWrites
  BY DEF IInv, TypeOK, HistoryWrites
<1>3. Len(history) \in Nat /\ \A i \in 1 .. Len(history) : history'[i] = history[i]
  BY <1>1, <1>2, AppendProperties, LenProperties
<1>4. \A n \in Int : n <= Len(history) => \A i \in 1 .. n : history'[i] = history[i]
  BY <1>3
<1>5. Records(Kept, Survivor, history')
  <2>1. /\ Survivor.base \in Nat /\ Survivor.snap \in Nat
        /\ Survivor.base + Len(Kept) - Survivor.snap <= Len(history)
    BY <1>1, KeptFits
  <2>2. Records(Kept, Survivor, history)
    BY DEF StoredInv
  <2>3. First(Kept, Kept) /\ Len(Kept) \in Nat
    BY <2>2, RecordsLog
  <2> DEFINE N == Survivor.base + Len(Kept) - Survivor.snap
  <2>4. N \in Int /\ N <= Len(history)
    BY <2>1, <2>3
  <2>5. \A i \in 1 .. N : history'[i] = history[i]
    <3> HIDE DEF N
    <3> QED
      BY <1>4, <2>4
  <2> QED
    BY <2>1, <2>2, <2>3, <2>5, RecordsFirst
<1>6. turn \notin {"off", "write", "barrier", "unlink", "rename"} =>
        RecordsAll(Log, main, history', MapOf(slots), begin - 1)
  <2> SUFFICES ASSUME turn \notin {"off", "write", "barrier", "unlink", "rename"}
               PROVE  RecordsAll(Log, main, history', MapOf(slots), begin - 1)
    OBVIOUS
  <2>1. main \in Files /\ main.base + Len(Log) - main.snap <= Len(history)
    BY KeptFits
  <2>2. RecordsAll(Log, main, history, MapOf(slots), begin - 1)
    BY DEF StoredInv
  <2>3. Len(Log) \in Nat /\ main.base \in Nat /\ main.snap \in Nat
    BY <2>1, <2>2, AllRecorded, RecordsLog, FilesAre
  <2> DEFINE N == main.base + Len(Log) - main.snap
  <2>4. N \in Int /\ N <= Len(history)
    BY <2>1, <2>3
  <2>5. \A i \in 1 .. N : history'[i] = history[i]
    <3> HIDE DEF N
    <3> QED
      BY <1>4, <2>4
  <2> QED
    BY <2>2, <2>3, <2>5, RecordsKept
<1>7. turn \in {"barrier", "unlink", "rename"} =>
        RecordsAll(new.data, new, history', MapOf(slots), begin - 1)
  <2> SUFFICES ASSUME turn \in {"barrier", "unlink", "rename"}
               PROVE  RecordsAll(new.data, new, history', MapOf(slots), begin - 1)
    OBVIOUS
  <2>1. new \in Files /\ new.base + Len(new.data) - new.snap <= Len(history)
    BY KeptFits
  <2>2. RecordsAll(new.data, new, history, MapOf(slots), begin - 1)
    BY DEF StoredInv
  <2>3. Len(new.data) \in Nat /\ new.base \in Nat /\ new.snap \in Nat
    BY <2>1, FilesAre
  <2> DEFINE N == new.base + Len(new.data) - new.snap
  <2>4. N \in Int /\ N <= Len(history)
    BY <2>1, <2>3
  <2>5. \A i \in 1 .. N : history'[i] = history[i]
    <3> HIDE DEF N
    <3> QED
      BY <1>4, <2>4
  <2> QED
    BY <2>2, <2>3, <2>5, RecordsKept
<1>8. Kept' = Kept /\ Survivor' = Survivor /\ Log' = Log
  BY <1>1 DEF Kept, Survivor, Log
<1> QED
  BY <1>1, <1>5, <1>6, <1>7, <1>8 DEF StoredInv

LEMMA AppendLast ==
  ASSUME NEW S, NEW a \in Seq(S), NEW b \in Seq(S), NEW x \in S
  PROVE  a \o Append(b, x) = Append(a \o b, x)
OBVIOUS

(* The event goes to the end of the log, written or not.                   *)
LEMMA DrainStored ==
  ASSUME IInv, IInv', ContentInv, NEW e \in waiting, Drain(e)
  PROVE  StoredInv'
<1> DEFINE m == MapOf(slots)
<1>1. /\ ~Refused(slots, e.event) /\ MapOf(slots)' = Apply(m, e.event)
      /\ Fits(m, e.event, begin - 1) /\ (e.event.rewrite \/ e.event.id <= begin)
      /\ \A k \in Keys : Apply(m, e.event)[k].val = Store!ValueAt(history, Taken + 1, k)
  BY DrainMaps DEF ContentInv
<1>2. /\ turn = "drain" /\ turn' \in {"drain", "open"} /\ begin' = begin + 1
      /\ history' = history /\ new' = new
      /\ \/ main' = [main EXCEPT !.data = @ \o Append(buffer, e.event)] /\ buffer' = <<>>
         \/ main' = main /\ buffer' = Append(buffer, e.event)
  BY <1>1 DEF Drain, ghostVars
<1>3. /\ TypeOK /\ NumberInv /\ WaitingInv /\ MainInv /\ FileInv /\ NewInv
      /\ SlotsInv /\ PathInv
  BY DEF IInv, ContentInv
<1>4. /\ main \in Files /\ main.exists /\ Len(Log) = Len(main.data) + Len(buffer)
      /\ Taken = main.base + Len(main.data) + Len(buffer) - main.snap
      /\ buffer \in Seq(Events \cup {Torn}) /\ Len(buffer) \in Nat
      /\ m \in Maps /\ begin - 1 \in Nat /\ begin \in Nat
  <2>1. begin - 1 \in Nat /\ begin \in Nat /\ m \in Maps
    BY <1>2, <1>3, SlotsStand, NumbersAre
  <2>2. main \in Files /\ main.exists /\ Len(Log) = Len(main.data) + Len(buffer)
    BY <1>2, KeptFits
  <2> HIDE DEF m
  <2>3. /\ Taken = main.base + Len(main.data) + Len(buffer) - main.snap
        /\ buffer \in Seq(Events \cup {Torn}) /\ Len(buffer) \in Nat
    BY <1>2, <1>3, BufferFits, LenProperties
  <2> QED
    BY <2>1, <2>2, <2>3
<1>5. /\ main.data \in Seq(Events \cup {Torn}) /\ main.base \in Nat /\ main.snap \in Nat
      /\ Len(main.data) \in Nat
  BY <1>4, FilesAre
<1>6. e.event \in Events
  BY <1>2, <1>3, EventsAre
<1> HIDE DEF m
<1>7. Log' = Append(Log, e.event)
  <2> DEFINE S == Events \cup {Torn}
  <2>1. main.data \in Seq(S) /\ buffer \in Seq(S) /\ e.event \in S
    BY <1>4, <1>5, <1>6
  <2> HIDE DEF S
  <2>2. Append(buffer, e.event) \in Seq(S)
    BY <2>1, AppendProperties
  <2>3. main.data \o Append(buffer, e.event) = Append(main.data \o buffer, e.event)
    <3>1. PICK a \in Seq(S), b \in Seq(S), x \in S :
            a = main.data /\ b = buffer /\ x = e.event
      BY <2>1
    <3>2. a \o Append(b, x) = Append(a \o b, x)
      BY AppendLast
    <3> QED
      BY <3>1, <3>2
  <2>4. CASE main' = main /\ buffer' = Append(buffer, e.event)
    BY <2>3, <2>4 DEF Log
  <2>5. CASE main' = [main EXCEPT !.data = @ \o Append(buffer, e.event)] /\ buffer' = <<>>
    <3> DEFINE longer == main.data \o Append(buffer, e.event)
    <3>1. longer \in Seq(S)
      BY <2>1, <2>2, ConcatProperties
    <3>2. main'.data = longer
      BY <1>4, <2>5 DEF Files
    <3> HIDE DEF longer
    <3>3. longer \o <<>> = longer
      BY <3>1, ConcatEmptySeq
    <3>4. longer = Append(main.data \o buffer, e.event)
      BY <2>3 DEF longer
    <3> QED
      BY <2>5, <3>2, <3>3, <3>4 DEF Log
  <2> QED
    BY <1>2, <2>4, <2>5
<1>8. main'.exists /\ main'.base = main.base /\ main'.snap = main.snap
  BY <1>2, <1>4 DEF Files
<1>9. RecordsAll(Log, main, history, m, begin - 1)
  BY <1>2 DEF ContentInv, StoredInv, m
<1>10. RecordsAll(Append(Log, e.event), main, history, Apply(m, e.event), begin)
  <2>1. Taken + 1 = main.base + (Len(Log) + 1) - main.snap
    <3> DEFINE base == main.base
               snap == main.snap
               data == Len(main.data)
               held == Len(buffer)
    <3>1. base \in Nat /\ snap \in Nat /\ data \in Nat /\ held \in Nat
      BY <1>4, <1>5
    <3>2. Taken = base + data + held - snap /\ Len(Log) = data + held
      BY <1>4
    <3> HIDE DEF base, snap, data, held
    <3>3. Taken + 1 = base + ((data + held) + 1) - snap
      BY <3>1, <3>2
    <3>4. Taken + 1 = base + (Len(Log) + 1) - snap
      BY <3>2, <3>3
    <3> QED
      BY <3>4 DEF base, snap
  <2>2. \A k \in Keys : Apply(m, e.event)[k].val
                          = Store!ValueAt(history, main.base + (Len(Log) + 1) - main.snap, k)
    BY <1>1, <2>1
  <2>3. begin - 1 <= begin
    BY <1>4
  <2> QED
    BY <1>1, <1>4, <1>5, <1>6, <1>9, <2>2, <2>3, RecordsMore
<1>11. RecordsAll(Log', main', history', MapOf(slots)', begin' - 1)
  <2>1. RecordsAll(Append(Log, e.event), main', history, Apply(m, e.event), begin)
    BY <1>8, <1>10, SameRecordsAll
  <2>2. begin' - 1 = begin
    BY <1>2, <1>4
  <2> QED
    BY <1>1, <1>2, <1>7, <2>1, <2>2
<1>12. Kept' = Log' /\ Survivor' = main'
  BY <1>2, <1>8 DEF Kept, Survivor
<1>13. Records(Kept', Survivor', history')
  BY <1>11, <1>12, AllRecorded
<1> QED
  BY <1>2, <1>11, <1>13 DEF StoredInv

(* What is in the file comes before what is in the buffer.                 *)
LEMMA LogIs ==
  ASSUME IInv, turn \notin {"off", "rename"}
  PROVE  /\ main.data \in Seq(Events) /\ First(main.data, Log) /\ main.data \o <<>> = main.data
         /\ Len(main.data) \in Nat /\ Len(buffer) \in Nat
         /\ Len(Log) = Len(main.data) + Len(buffer)
         /\ \A i \in 1 .. Len(main.data) : Log[i] = main.data[i]
         /\ \A i \in 1 .. Len(buffer) : Log[Len(main.data) + i] = buffer[i]
<1>0. TypeOK /\ NumberInv /\ MainInv /\ FileInv /\ NewInv
  BY DEF IInv
<1>1. main \in Files /\ buffer \in Seq(Events) /\ Len(buffer) \in Nat
  BY <1>0, MainThere
<1>2. main.data \in Seq(Events \cup {Torn}) /\ Len(main.data) \in Nat
  BY <1>1, FilesAre
<1>3. main.data \in Seq(Events)
  <2>1. \A i \in 1 .. Len(main.data) : main.data[i] \in Events
    <3>1. \A i \in 1 .. Len(main.data) : main.data[i] \in Events \cup {Torn}
      BY <1>2, ElementOfSeq
    <3>2. \A i \in 1 .. Len(main.data) : main.data[i] # Torn
      BY <1>0 DEF FileInv
    <3> QED
      BY <3>1, <3>2
  <2>2. main.data \in [1 .. Len(main.data) -> Events]
    BY <1>2, <2>1, LenProperties
  <2> QED
    BY <1>2, <2>2, SeqDef
<1>4. /\ Len(Log) = Len(main.data) + Len(buffer)
      /\ \A i \in 1 .. Len(main.data) + Len(buffer) :
           Log[i] = IF i <= Len(main.data) THEN main.data[i] ELSE buffer[i - Len(main.data)]
  BY <1>1, <1>3, ConcatProperties DEF Log
<1>5. \A i \in 1 .. Len(main.data) : Log[i] = main.data[i]
  BY <1>1, <1>2, <1>4
<1>6. ASSUME NEW i \in 1 .. Len(buffer) PROVE Log[Len(main.data) + i] = buffer[i]
  <2>1. /\ Len(main.data) + i \in 1 .. Len(main.data) + Len(buffer)
        /\ ~(Len(main.data) + i <= Len(main.data)) /\ (Len(main.data) + i) - Len(main.data) = i
    BY <1>1, <1>2
  <2> QED
    BY <1>4, <2>1
<1>7. First(main.data, Log)
  <2>1. Len(main.data) \in 0 .. Len(Log)
    BY <1>1, <1>2, <1>4
  <2> QED
    BY <1>3, <1>5, <2>1 DEF First
<1>8. main.data \o <<>> = main.data
  BY <1>3, ConcatEmptySeq
<1> QED
  BY <1>1, <1>2, <1>3, <1>4, <1>5, <1>6, <1>7, <1>8

(* The buffer that do_reindex drops was never in the file.                 *)
LEMMA OpenNewStored ==
  ASSUME IInv, ContentInv, OpenNew PROVE StoredInv'
<1>1. turn = "open" /\ turn' = "write" /\ main' = main /\ buffer' = <<>> /\ history' = history
  BY DEF OpenNew, ReindexStep, ghostVars
<1>2. Log' = main.data /\ First(main.data, Log)
  BY <1>1, LogIs DEF Log
<1>3. main \in Files /\ main.exists /\ Survivor = main /\ Kept = Log
  BY <1>1, KeptFits
<1>4. main.base \in Nat /\ main.snap \in Nat
  BY <1>3, FilesAre
<1>5. Records(Log, main, history)
  BY <1>3 DEF ContentInv, StoredInv
<1>6. Records(main.data, main, history)
  BY <1>2, <1>4, <1>5, RecordsFirst
<1>7. Kept' = Log' /\ Survivor' = main
  BY <1>1, <1>3 DEF Kept, Survivor
<1>8. Records(Kept', Survivor', history')
  BY <1>1, <1>2, <1>6, <1>7
<1> QED
  BY <1>1, <1>8 DEF StoredInv

(* The new file holds the map that the slots are.                          *)
LEMMA WriteNewStored ==
  ASSUME IInv, ContentInv, WriteNew PROVE StoredInv'
<1>1. /\ turn = "write" /\ turn' = "barrier" /\ main' = main /\ buffer' = buffer
      /\ history' = history /\ slots' = slots /\ begin' = begin
      /\ new' = [new EXCEPT !.data = @ \o Snapshot, !.snap = Len(Snapshot)]
  BY DEF WriteNew, ReindexStep, ghostVars, actorVars
<1>2. SlotsInv /\ PathInv /\ StoredInv /\ NewInv /\ TypeOK
  BY DEF ContentInv, IInv
<1> DEFINE m == MapOf(slots)
<1>3. /\ m \in Maps /\ Shows(slots, m, begin - 1)
      /\ begin - 1 \in Nat /\ begin - 1 <= MaxWrites
      /\ \A k \in Keys : m[k].val = Store!ValueAt(history, Taken, k)
  BY <1>1, <1>2, SlotsStand
<1> HIDE DEF m
<1>4. PICK c, t : /\ Makes(Snapshot, c, t)
                  /\ c[Len(Snapshot)] = m /\ t[Len(Snapshot)] <= begin - 1
  BY <1>3, SnapshotMakes
<1>5. Snapshot \in Seq(Events) /\ Len(Snapshot) \in Nat
  BY <1>4, MakesIs
<1>6. new'.data = Snapshot /\ new'.base = Taken /\ new'.snap = Len(Snapshot)
  <2>1. new = [exists |-> TRUE, data |-> <<>>, synced |-> 0, base |-> Taken, snap |-> 0]
    BY <1>1, <1>2, NewFileRecord DEF NewInv
  <2>2. <<>> \o Snapshot = Snapshot
    BY <1>5, ConcatEmptySeq
  <2> QED
    BY <1>1, <2>1, <2>2
<1>7. ASSUME NEW n \in new'.snap .. Len(Snapshot), NEW k \in Keys
      PROVE  c[n][k].val = Store!ValueAt(history, new'.base + n - new'.snap, k)
  <2>1. Taken \in Nat
    BY <1>2, NumbersAre
  <2>2. n = Len(Snapshot) /\ new'.base + n - new'.snap = Taken
    BY <1>5, <1>6, <2>1
  <2> QED
    BY <1>3, <1>4, <2>2
<1>8. Trace(Snapshot, new', history, c, t)
  BY <1>4, <1>7 DEF Trace
<1>9. RecordsAll(Snapshot, new', history, m, begin - 1)
  BY <1>4, <1>8 DEF RecordsAll
<1>10. RecordsAll(new'.data, new', history', MapOf(slots'), begin' - 1)
  BY <1>1, <1>6, <1>9 DEF m
<1>11. main.exists /\ Survivor = main /\ Kept = Log
  BY <1>1, KeptFits
<1>12. Kept' = Log /\ Survivor' = main
  BY <1>1, <1>11 DEF Kept, Survivor, Log
<1>13. Records(Kept', Survivor', history')
  BY <1>1, <1>2, <1>11, <1>12 DEF StoredInv
<1> QED
  BY <1>1, <1>10, <1>13 DEF StoredInv

LEMMA BarrierStored ==
  ASSUME IInv, ContentInv, Barrier PROVE StoredInv'
<1>1. /\ turn = "barrier" /\ turn' = "unlink" /\ main' = main /\ buffer' = buffer
      /\ history' = history /\ slots' = slots /\ begin' = begin /\ new' = NewSynced
  BY DEF Barrier, ReindexStep, ghostVars, actorVars
<1>2. new \in Files
  BY DEF IInv, TypeOK
<1>3. new'.data = new.data /\ new'.base = new.base /\ new'.snap = new.snap
  BY <1>1, <1>2 DEF NewSynced, Synced, Files
<1>4. RecordsAll(new.data, new, history, MapOf(slots), begin - 1)
  BY <1>1 DEF ContentInv, StoredInv
<1>5. RecordsAll(new.data, new', history, MapOf(slots), begin - 1)
  BY <1>3, <1>4, SameRecordsAll
<1>6. RecordsAll(new'.data, new', history', MapOf(slots'), begin' - 1)
  BY <1>1, <1>3, <1>5
<1>7. main.exists /\ Survivor = main /\ Kept = Log
  BY <1>1, KeptFits
<1>8. Kept' = Log /\ Survivor' = main
  BY <1>1, <1>7 DEF Kept, Survivor, Log
<1>9. Records(Kept', Survivor', history')
  BY <1>1, <1>7, <1>8 DEF ContentInv, StoredInv
<1> QED
  BY <1>1, <1>6, <1>9 DEF StoredInv

(* With the old file gone, the new one is what is left.                    *)
LEMMA UnlinkOldStored ==
  ASSUME IInv, ContentInv, UnlinkOld PROVE StoredInv'
<1>1. /\ turn = "unlink" /\ turn' = "rename" /\ main' = NoFile /\ new' = new
      /\ history' = history /\ slots' = slots /\ begin' = begin
  BY DEF UnlinkOld, ReindexStep, ghostVars, actorVars
<1>2. RecordsAll(new.data, new, history, MapOf(slots), begin - 1)
  BY <1>1 DEF ContentInv, StoredInv
<1>3. Kept' = new.data /\ Survivor' = new
  BY <1>1, NoFileIs DEF Kept, Survivor
<1>4. Records(new.data, new, history)
  BY <1>2, AllRecorded
<1>5. Records(Kept', Survivor', history')
  BY <1>1, <1>3, <1>4
<1>6. RecordsAll(new'.data, new', history', MapOf(slots'), begin' - 1)
  BY <1>1, <1>2
<1> QED
  BY <1>1, <1>5, <1>6 DEF StoredInv

LEMMA RenameNewStored ==
  ASSUME IInv, ContentInv, RenameNew PROVE StoredInv'
<1>1. /\ turn = "rename" /\ turn' = "drain" /\ main' = new /\ buffer' = buffer
      /\ history' = history /\ slots' = slots /\ begin' = begin
  BY DEF RenameNew, ReindexStep, ghostVars, actorVars
<1>2. RecordsAll(new.data, new, history, MapOf(slots), begin - 1)
  BY <1>1 DEF ContentInv, StoredInv
<1>3. new.exists /\ buffer = <<>>
  BY <1>1 DEF IInv, NewInv, Replaces, FileInv
<1>4. Records(new.data, new, history)
  BY <1>2, AllRecorded
<1>5. Log' = new.data
  <2>1. new.data \in Seq(Events)
    BY <1>4, RecordsLog
  <2>2. new.data \o <<>> = new.data
    BY <2>1, ConcatEmptySeq
  <2> QED
    BY <1>1, <1>3, <2>2 DEF Log
<1>6. Kept' = Log' /\ Survivor' = main'
  BY <1>1, <1>3 DEF Kept, Survivor
<1>7. Records(Kept', Survivor', history')
  BY <1>1, <1>4, <1>5, <1>6
<1>8. RecordsAll(Log', main', history', MapOf(slots'), begin' - 1)
  BY <1>1, <1>2, <1>5
<1> QED
  BY <1>1, <1>7, <1>8 DEF StoredInv

(* A flush moves the buffer to the file, a sync neither.                   *)
LEMMA QuietStored ==
  ASSUME IInv, ContentInv, QuietStep PROVE StoredInv'
<1>1. TypeOK /\ SyncInv /\ MainInv /\ FileInv /\ NewInv /\ StoredInv
  BY DEF IInv, ContentInv
<1>2. FlushStep /\ UNCHANGED <<begin, slots, history>>
  BY <1>1, QuietIs DEF ghostVars
<1>3. turn \in {"idle", "drain"} /\ turn' \in {"idle", "drain", "sync", "closing", "unlinkNew"}
  BY <1>2 DEF FlushStep
<1>4. main.exists /\ main \in Files
  BY <1>3, KeptFits
<1>5. main'.exists /\ main'.base = main.base /\ main'.snap = main.snap /\ Log' = Log
  <2>1. CASE UNCHANGED <<main, buffer, needSync>>
    BY <1>4, <2>1 DEF Log
  <2>2. CASE Flush
    <3>1. main' = Flushed(main) /\ buffer' = <<>>
      BY <2>2 DEF Flush
    <3>2. /\ main'.exists /\ main'.base = main.base /\ main'.snap = main.snap
          /\ main'.data = Log
      BY <1>4, <3>1 DEF Flushed, Files, Log
    <3>3. Log \in Seq(Events)
      <4>1. Records(Kept, Survivor, history) /\ Kept = Log
        BY <1>1, <1>3, KeptFits DEF StoredInv
      <4> QED
        BY <4>1, RecordsLog
    <3>4. Log \o <<>> = Log
      BY <3>3, ConcatEmptySeq
    <3>5. Log' = main'.data \o buffer'
      BY DEF Log
    <3> QED
      BY <3>1, <3>2, <3>4, <3>5
  <2> QED
    BY <1>2, <2>1, <2>2 DEF FlushStep
<1> QED
  BY <1>1, <1>2, <1>3, <1>4, <1>5, SteadyStored

LEMMA UnlinkNewStored ==
  ASSUME IInv, ContentInv, OpenFails \/ UnlinkNew PROVE StoredInv'
<1>1. /\ turn \in {"open", "unlinkNew"} /\ turn' \in {"drain", "unlinkMain"}
      /\ UNCHANGED <<main, buffer, history, slots, begin>>
  BY DEF OpenFails, UnlinkNew, ReindexStep, ghostVars, actorVars, fileVars
<1>2. main.exists
  BY <1>1, KeptFits
<1>3. main'.exists /\ Log' = Log
  BY <1>1, <1>2 DEF Log
<1> QED
  BY <1>1, <1>2, <1>3, SteadyStored DEF ContentInv

LEMMA SyncEndsStored ==
  ASSUME IInv, ContentInv, SyncEnds PROVE StoredInv'
<1>1. /\ turn = "sync" /\ turn' = "idle" /\ main' = SyncedMain
      /\ UNCHANGED <<buffer, history, slots, begin>>
  BY DEF SyncEnds, actorVars
<1>2. main.exists
  BY <1>1, KeptFits
<1>3. /\ SyncedMain.exists /\ SyncedMain.data = main.data
      /\ SyncedMain.base = main.base /\ SyncedMain.snap = main.snap
  BY <1>1, SyncedMainIs DEF IInv
<1>4. main'.exists /\ main'.base = main.base /\ main'.snap = main.snap /\ Log' = Log
  BY <1>1, <1>3 DEF Log
<1> QED
  BY <1>1, <1>2, <1>4, SteadyStored DEF ContentInv

LEMMA DeliverEventStored ==
  ASSUME IInv, ContentInv, NEW t \in Threads, DeliverEvent(t) PROVE StoredInv'
<1>1. /\ turn = "idle" /\ turn' = "drain"
      /\ UNCHANGED <<main, buffer, history, slots, begin>>
  BY DEF DeliverEvent, fileVars, ghostVars
<1>2. main.exists
  BY <1>1, KeptFits
<1>3. main'.exists /\ Log' = Log
  BY <1>1, <1>2 DEF Log
<1> QED
  BY <1>1, <1>2, <1>3, SteadyStored DEF ContentInv

-----------------------------------------------------------------------------
(* The steps of a process that runs.                                       *)

LEMMA ThreadContent ==
  ASSUME IInv, IInv', ContentInv, NEW t \in Threads,
         \/ ForceSync(t) \/ Deliver(t)
         \/ \E k \in Keys, v \in Values \cup {NoVal} : Write(t, k, v)
  PROVE  ContentInv'
<1>0. SlotsInv /\ PathInv /\ StoredInv /\ NeverFatal /\ call \in [Threads -> Calls]
  BY DEF ContentInv, IInv, TypeOK
<1>1. ASSUME NEW k \in Keys, NEW v \in Values \cup {NoVal}, Write(t, k, v)
      PROVE  ContentInv'
  <2>1. SlotsInv' /\ PathInv'
    BY <1>0, <1>1, WriteMaps
  <2>2. StoredInv'
    BY <1>0, <1>1, WriteStored
  <2>3. NeverFatal'
    BY <1>0, <1>1 DEF Write, NeverFatal
  <2> QED
    BY <2>1, <2>2, <2>3 DEF ContentInv
<1>2. CASE ForceSync(t)
  <2>1. /\ UNCHANGED <<main, new, buffer, begin, boot, slots, turn, history, map, lastId>>
        /\ turn # "off" /\ waiting' = waiting
        /\ call' = [call EXCEPT ![t] = [type |-> "sync", upto |-> wrote[t]]]
    BY <1>2 DEF ForceSync, IsOpen, Reindexing, fileVars, actorVars, ghostVars
  <2>2. Pending' \subseteq Pending
    BY <1>0, <2>1 DEF Pending, Sending
  <2>3. SlotsInv' /\ PathInv'
    BY <1>0, <2>1, <2>2, SameMaps
  <2>4. StoredInv'
    BY <1>0, <2>1, SameStored
  <2> QED
    BY <1>0, <2>1, <2>3, <2>4 DEF ContentInv, NeverFatal
<1>3. CASE DeliverEvent(t)
  <2>1. /\ UNCHANGED <<begin, boot, slots, history, map, lastId>>
        /\ turn = "idle" /\ turn' = "drain" /\ Sending(t)
        /\ waiting' = waiting \cup {call[t]}
        /\ call' = [call EXCEPT ![t] = NoCall]
    BY <1>3 DEF DeliverEvent, ghostVars, Sending
  <2>2. Pending' \subseteq Pending
    BY <1>0, <2>1 DEF Pending, Sending, NoCall
  <2>3. SlotsInv' /\ PathInv'
    BY <1>0, <2>1, <2>2, SameMaps
  <2>4. StoredInv'
    BY <1>3, DeliverEventStored
  <2> QED
    BY <2>1, <2>3, <2>4 DEF ContentInv, NeverFatal
<1>4. CASE DeliverSync(t)
  <2>1. /\ UNCHANGED <<main, new, buffer, begin, boot, slots, turn, history, map, lastId>>
        /\ turn = "idle" /\ waiting' = waiting
        /\ call' = [call EXCEPT ![t] = NoCall]
    BY <1>4 DEF DeliverSync, fileVars, ghostVars
  <2>2. Pending' \subseteq Pending
    BY <1>0, <2>1 DEF Pending, Sending, NoCall
  <2>3. SlotsInv' /\ PathInv'
    BY <1>0, <2>1, <2>2, SameMaps
  <2>4. StoredInv'
    BY <1>0, <2>1, SameStored
  <2> QED
    BY <1>0, <2>1, <2>3, <2>4 DEF ContentInv, NeverFatal
<1> QED
  BY <1>1, <1>2, <1>3, <1>4 DEF Deliver

LEMMA DrainContent ==
  ASSUME IInv, IInv', ContentInv, NEW e \in waiting, Drain(e) PROVE ContentInv'
<1>1. ~Refused(slots, e.event) /\ SlotsInv' /\ PathInv'
  BY DrainMaps DEF ContentInv
<1>2. StoredInv'
  BY DrainStored
<1>3. NeverFatal'
  BY <1>1 DEF Drain, NeverFatal
<1> QED
  BY <1>1, <1>2, <1>3 DEF ContentInv

LEMMA QuietContent ==
  ASSUME IInv, ContentInv, QuietStep PROVE ContentInv'
<1>1. /\ turn # "off" /\ turn' \in {"idle", "drain", "sync", "closing", "unlinkNew"}
      /\ UNCHANGED <<call, map, lastId, begin, waiting, slots, history, boot>>
  BY QuietIs DEF IInv, FlushStep, clientVars, ghostVars
<1>2. Pending' \subseteq Pending
  BY <1>1 DEF Pending, Sending
<1>3. SlotsInv' /\ PathInv'
  BY <1>1, <1>2, SameMaps DEF ContentInv
<1>4. StoredInv'
  BY QuietStored
<1> QED
  BY <1>1, <1>3, <1>4 DEF ContentInv, NeverFatal

LEMMA ReindexContent ==
  ASSUME IInv, ContentInv, Reindex \/ UnlinkNew \/ SyncEnds PROVE ContentInv'
<1>1. /\ turn # "off" /\ turn' # "fatal"
      /\ UNCHANGED <<call, map, lastId, begin, waiting, slots, history, boot>>
  BY DEF Reindex, OpenNew, OpenFails, WriteNew, Barrier, UnlinkOld, RenameNew, UnlinkNew,
         SyncEnds, ReindexStep, clientVars, actorVars, ghostVars
<1>2. Pending' \subseteq Pending
  BY <1>1 DEF Pending, Sending
<1>3. SlotsInv' /\ PathInv'
  BY <1>1, <1>2, SameMaps DEF ContentInv
<1>4. StoredInv'
  BY OpenNewStored, WriteNewStored, BarrierStored, UnlinkOldStored, RenameNewStored,
     UnlinkNewStored, SyncEndsStored DEF Reindex
<1> QED
  BY <1>1, <1>3, <1>4 DEF ContentInv, NeverFatal

-----------------------------------------------------------------------------
(* The end of a process: what is read of the file that it leaves comes     *)
(* first in what was kept.                                                 *)

LEMMA FirstOfFirst ==
  ASSUME NEW a, NEW b, NEW c, First(a, b), First(b, c)
  PROVE  First(a, c)
<1>1. Len(a) \in Nat /\ Len(b) \in Nat
  BY LenProperties DEF First
<1>2. Len(a) \in 0 .. Len(c) /\ \A i \in 1 .. Len(a) : i \in 1 .. Len(b)
  BY <1>1 DEF First
<1> QED
  BY <1>2 DEF First

LEMMA EventsOf ==
  ASSUME NEW s \in Seq(Events \cup {Torn}), \A i \in 1 .. Len(s) : s[i] # Torn
  PROVE  s \in Seq(Events) /\ Len(s) \in Nat
<1>1. Len(s) \in Nat
  BY LenProperties
<1>2. \A i \in 1 .. Len(s) : s[i] \in Events
  BY ElementOfSeq
<1>3. s \in [1 .. Len(s) -> Events]
  BY <1>2, LenProperties
<1> QED
  BY <1>1, <1>3, SeqDef

LEMMA ReadsFirst ==
  ASSUME NEW f \in Files
  PROVE  /\ Readable(f.data) \in Seq(Events) /\ Len(Readable(f.data)) \in 0 .. Len(f.data)
         /\ \A i \in 1 .. Len(Readable(f.data)) : Readable(f.data)[i] = f.data[i]
                                                   /\ f.data[i] # Torn
<1>1. f.data \in Seq(Events \cup {Torn})
  BY FilesAre
<1>2. /\ Readable(f.data) \in Seq(Events \cup {Torn})
      /\ Len(Readable(f.data)) \in 0 .. Len(f.data)
      /\ \A i \in 1 .. Len(Readable(f.data)) :
           Readable(f.data)[i] = f.data[i] /\ f.data[i] # Torn
  BY <1>1, ReadableIs
<1> QED
  BY <1>2, EventsOf

(* No more is read of a file that the machine cut than would have been.    *)
LEMMA LostReads ==
  ASSUME NEW f \in Files, GoodFile(f), NEW g \in LostFrom(f)
  PROVE  First(Readable(g.data), Readable(f.data))
<1>1. /\ f.data \in Seq(Events \cup {Torn}) /\ f.synced \in Nat /\ Len(f.data) \in Nat
  BY FilesAre
<1>0. PICK n \in f.synced .. Len(f.data) : \E tail \in Cuts(f.data, n) :
        g = [f EXCEPT !.data = tail, !.synced = Len(Readable(tail))]
  BY DEF LostFrom
<1>2. PICK tail \in Cuts(f.data, n) :
        g = [f EXCEPT !.data = tail, !.synced = Len(Readable(tail))]
  BY <1>0
<1>3. g \in Files /\ g.data = tail
  BY <1>2, LostIs DEF Files
<1>4. n \in 0 .. Len(f.data)
  BY <1>1
<1>5. /\ Len(tail) \in {n, n + 1} /\ \A i \in 1 .. n : tail[i] = f.data[i]
      /\ Len(tail) = n + 1 => tail[n + 1] = Torn
  BY <1>1, <1>2, <1>4, CutIs
<1>6. PICK r \in Nat : r = Len(Readable(tail))
  <2>1. Readable(tail) \in Seq(Events)
    BY <1>3, ReadsFirst
  <2> QED
    BY <2>1, LenProperties
<1>7. /\ Readable(tail) \in Seq(Events) /\ r \in 0 .. Len(tail)
      /\ \A i \in 1 .. r : Readable(tail)[i] = tail[i] /\ tail[i] # Torn
  BY <1>3, <1>6, ReadsFirst
<1>8. r <= n
  BY <1>4, <1>5, <1>7
<1>9. r \in 0 .. Len(f.data) /\ \A i \in 1 .. r : f.data[i] # Torn /\ f.data[i] = tail[i]
  BY <1>4, <1>5, <1>7, <1>8
<1>10. /\ r <= Len(Readable(f.data)) /\ Len(Readable(f.data)) \in Nat
       /\ \A i \in 1 .. Len(Readable(f.data)) : Readable(f.data)[i] = f.data[i]
  <2>1. r <= Len(Readable(f.data))
    BY <1>1, <1>9, ReadableIs
  <2> QED
    BY <2>1, ReadsFirst, LenProperties
<1>11. \A i \in 1 .. r : Readable(tail)[i] = Readable(f.data)[i]
  BY <1>7, <1>9, <1>10
<1>12. First(Readable(tail), Readable(f.data))
  BY <1>6, <1>7, <1>10, <1>11 DEF First
<1> QED
  BY <1>3, <1>12

LEMMA KeptReads ==
  ASSUME IInv, StoredInv
  PROVE  First(Readable(Survivor.data), Kept)
<1>0. Kept \in Seq(Events) /\ First(Kept, Kept)
  BY RecordsLog DEF StoredInv
<1>1. CASE turn = "off"
  BY <1>0, <1>1 DEF Kept
<1>2. CASE turn = "rename"
  <2>1. Survivor = new /\ Kept = new.data /\ new \in Files
    BY <1>2, KeptFits
  <2>2. \A i \in 1 .. Len(new.data) : new.data[i] # Torn
    BY <1>2 DEF IInv, NewInv, Replaces
  <2>3. new.data \in Seq(Events \cup {Torn})
    BY <2>1, FilesAre
  <2>4. Readable(new.data) = new.data
    BY <2>2, <2>3, ReadableIs
  <2> QED
    BY <1>0, <2>1, <2>4
<1>3. CASE turn \notin {"off", "rename"}
  <2>1. Survivor = main /\ Kept = Log /\ main \in Files
    BY <1>3, KeptFits
  <2>2. \A i \in 1 .. Len(main.data) : main.data[i] # Torn
    BY <1>3 DEF IInv, FileInv
  <2>3. main.data \in Seq(Events \cup {Torn})
    BY <2>1, FilesAre
  <2>4. Readable(main.data) = main.data
    BY <2>2, <2>3, ReadableIs
  <2>5. First(main.data, Log)
    BY <1>3, LogIs
  <2> QED
    BY <2>1, <2>4, <2>5
<1> QED
  BY <1>1, <1>2, <1>3

LEMMA PowerLeaves ==
  ASSUME IInv, ContentInv, PowerLoss
  PROVE  /\ Survivor'.base = Survivor.base /\ Survivor'.snap = Survivor.snap
         /\ First(Readable(Survivor'.data), Kept)
<1>1. /\ main \in Files /\ new \in Files /\ GoodFile(main)
      /\ ~main.exists => GoodFile(new)
  BY DEF IInv, TypeOK, MainInv
<1>2. main' \in LostFrom(main) /\ new' \in LostFrom(new)
  BY DEF PowerLoss
<1>3. PICK g : g = Survivor'
  OBVIOUS
<1>4. g \in LostFrom(Survivor) /\ Survivor \in Files /\ GoodFile(Survivor)
  <2>1. main'.exists = main.exists
    BY <1>1, <1>2, LostIs
  <2> QED
    BY <1>1, <1>2, <1>3, <2>1 DEF Survivor
<1>5. g.base = Survivor.base /\ g.snap = Survivor.snap
  BY <1>4, LostIs
<1>6. First(Readable(g.data), Readable(Survivor.data))
  BY <1>4, LostReads
<1>7. First(Readable(Survivor.data), Kept)
  BY KeptReads DEF ContentInv
<1>8. First(Readable(g.data), Kept)
  BY <1>6, <1>7, FirstOfFirst
<1> QED
  BY <1>3, <1>5, <1>8

(* The buffer, as far as it was written, follows on the file.              *)
LEMMA KillLeaves ==
  ASSUME IInv, ContentInv, Kill
  PROVE  /\ Survivor'.base = Survivor.base /\ Survivor'.snap = Survivor.snap
         /\ First(Readable(Survivor'.data), Kept)
<1>0. /\ TypeOK /\ NumberInv /\ MainInv /\ FileInv /\ NewInv /\ StoredInv /\ turn # "off"
  BY DEF IInv, ContentInv, Kill
<1>1. PICK m \in 0 .. Len(buffer) : \E tail \in Cuts(buffer, m) :
        main' = Extended(main, tail)
  BY DEF Kill, Extended
<1>2. PICK tail \in Cuts(buffer, m) : main' = Extended(main, tail)
  BY <1>1
<1>3. CASE main.exists
  <2>1. turn # "rename"
    BY <1>0, <1>3 DEF NewInv
  <2>2. /\ Extended(main, tail) \in Files /\ Extended(main, tail).exists
        /\ Extended(main, tail).base = main.base /\ Extended(main, tail).snap = main.snap
    BY <1>0, <1>3, TailFits
  <2>3. PICK g \in Files : g = main'
    BY <1>2, <2>2
  <2>4. g.exists /\ g.base = main.base /\ g.snap = main.snap
    BY <1>2, <2>2, <2>3
  <2>5. Survivor' = g /\ Survivor = main /\ Kept = Log /\ main \in Files
    BY <1>0, <1>3, <2>1, <2>3, <2>4, KeptFits DEF Survivor
  <2>6. /\ buffer \in Seq(Events) /\ main.data \in Seq(Events)
        /\ Len(main.data) \in Nat /\ Len(buffer) \in Nat
        /\ Len(Log) = Len(main.data) + Len(buffer)
        /\ \A i \in 1 .. Len(main.data) : Log[i] = main.data[i]
        /\ \A i \in 1 .. Len(buffer) : Log[Len(main.data) + i] = buffer[i]
    BY <1>0, <2>1, LogIs DEF TypeOK
  <2>7. /\ tail \in Seq(Events \cup {Torn}) /\ Len(tail) \in {m, m + 1}
        /\ Len(tail) <= Len(buffer) /\ Len(tail) \in Nat
        /\ \A i \in 1 .. m : tail[i] = buffer[i]
        /\ Len(tail) = m + 1 => tail[m + 1] = Torn
    <3>1. /\ tail \in Seq(Events \cup {Torn}) /\ Len(tail) \in {m, m + 1}
          /\ Len(tail) <= Len(buffer)
          /\ \A i \in 1 .. m : tail[i] = buffer[i]
          /\ Len(tail) = m + 1 => tail[m + 1] = Torn
      <4>1. buffer \in Seq(Events)
        BY <1>0 DEF TypeOK
      <4> QED
        BY <4>1, CutIs
    <3> QED
      BY <3>1, LenProperties
  <2>8. g.data = main.data \o tail
    BY <1>2, <2>3, <2>5 DEF Extended, Files
  <2>9. /\ Len(g.data) = Len(main.data) + Len(tail)
        /\ \A i \in 1 .. Len(main.data) + Len(tail) :
             g.data[i] = IF i <= Len(main.data) THEN main.data[i]
                         ELSE tail[i - Len(main.data)]
    BY <2>5, <2>7, <2>8, FilesAre, ConcatProperties
  <2>10. PICK r \in Nat : r = Len(Readable(g.data))
    <3>1. Readable(g.data) \in Seq(Events)
      BY ReadsFirst
    <3> QED
      BY <3>1, LenProperties
  <2>11. /\ Readable(g.data) \in Seq(Events) /\ r \in 0 .. Len(g.data)
         /\ \A i \in 1 .. r : Readable(g.data)[i] = g.data[i] /\ g.data[i] # Torn
    BY <2>10, ReadsFirst
  <2>12. ASSUME NEW i \in 1 .. r PROVE Readable(g.data)[i] = Log[i]
    <3>1. i \in 1 .. Len(main.data) + Len(tail) /\ g.data[i] # Torn
      BY <2>9, <2>11
    <3>2. CASE i <= Len(main.data)
      <4>1. i \in 1 .. Len(main.data)
        BY <2>6, <3>2
      <4>2. g.data[i] = main.data[i]
        BY <2>9, <3>1, <3>2
      <4> QED
        BY <2>6, <2>11, <4>1, <4>2
    <3>3. CASE ~(i <= Len(main.data))
      <4>1. PICK j \in Nat : j = i - Len(main.data)
        <5>1. i \in Nat /\ Len(main.data) \in Nat /\ Len(main.data) < i
          BY <2>6, <3>1, <3>3
        <5>2. i - Len(main.data) \in Nat
          BY <5>1
        <5> QED
          BY <5>2
      <4>2. j \in 1 .. Len(tail) /\ g.data[i] = tail[j] /\ i = Len(main.data) + j
        BY <2>6, <2>7, <2>9, <3>1, <3>3, <4>1
      <4>3. j \in 1 .. m /\ j \in 1 .. Len(buffer)
        BY <2>6, <2>7, <3>1, <4>2
      <4> QED
        BY <2>6, <2>7, <2>11, <4>2, <4>3
    <3> QED
      BY <3>2, <3>3
  <2>13. r \in 0 .. Len(Log)
    BY <2>6, <2>7, <2>9, <2>11
  <2>14. First(Readable(g.data), Log)
    BY <2>10, <2>11, <2>12, <2>13 DEF First
  <2> QED
    BY <2>4, <2>5, <2>14
<1>4. CASE ~main.exists
  <2>1. /\ main = NoFile /\ turn = "rename" /\ new' = new /\ new \in Files
    BY <1>0, <1>4 DEF MainInv, TypeOK, Kill
  <2>2. main' = NoFile
    <3>1. buffer = <<>> /\ Len(buffer) = 0 /\ buffer \in Seq(Events)
      BY <1>0, <2>1, EmptyBuffer DEF FileInv, TypeOK
    <3>2. tail \in Seq(Events \cup {Torn}) /\ Len(tail) <= 0
      BY <1>2, <3>1, CutIs
    <3>3. tail = <<>>
      <4>1. Len(tail) = 0
        BY <3>2, LenProperties
      <4> QED
        BY <3>2, <4>1, EmptySeq
    <3>4. main.data \o <<>> = main.data
      BY <2>1, NoFileIs, ConcatEmptySeq, EmptySeq
    <3> QED
      BY <1>2, <2>1, <3>3, <3>4 DEF Extended, NoFile
  <2>3. Survivor' = Survivor
    BY <1>4, <2>1, <2>2 DEF Survivor
  <2>4. First(Readable(Survivor.data), Kept)
    BY <1>0, KeptReads
  <2> QED
    BY <2>3, <2>4
<1> QED
  BY <1>3, <1>4

(* What is read of what is left records the writes that are left.          *)
LEMMA EndsContent ==
  ASSUME IInv, ContentInv, IInv', NEW n, Ends(n),
         Survivor'.base = Survivor.base, Survivor'.snap = Survivor.snap,
         First(Readable(Survivor'.data), Kept)
  PROVE  ContentInv'
<1>1. turn' = "off" /\ n = WritesIn(Survivor', Len(Readable(Survivor'.data)))
      /\ history' = SubSeq(history, 1, n) /\ n \in 0 .. Len(history)
  BY DEF Ends, ProcessEnds, WritesIn
<1>2. Survivor \in Files /\ history \in Seq(HistoryWrites) /\ Len(history) \in Nat
  BY SurvivorIs, LenProperties DEF IInv, TypeOK, HistoryWrites
<1>3. Survivor.base \in Nat /\ Survivor.snap \in Nat
  BY <1>2, FilesAre
<1>4. PICK g \in Files : g = Survivor' /\ GoodFile(g)
  <2>1. main' \in Files /\ new' \in Files /\ MainInv'
    BY DEF Ends
  <2>2. main'.exists => GoodFile(main')
    BY <2>1 DEF MainInv, GoodFile, PlaceOf
  <2>3. ~main'.exists => GoodFile(new')
    BY <2>1 DEF MainInv, GoodFile, PlaceOf
  <2> QED
    BY <2>1, <2>2, <2>3 DEF Survivor
<1>5. PICK r \in Nat : r = Len(Readable(g.data))
  <2>1. Readable(g.data) \in Seq(Events)
    BY ReadsFirst
  <2> QED
    BY <2>1, LenProperties
<1>6. g.snap <= r
  <2>1. g.synced \in Nat /\ g.snap \in Nat /\ g.snap <= g.synced /\ Len(g.data) \in Nat
    BY <1>4, FilesAre DEF GoodFile
  <2>2. r \in g.synced .. Len(g.data)
    BY <1>4, <1>5, RemainsIs
  <2> QED
    BY <2>1, <2>2
<1>7. n = Survivor.base + r - Survivor.snap
  BY <1>1, <1>3, <1>4, <1>5, <1>6 DEF WritesIn
<1>8. \A i \in 1 .. n : history'[i] = history[i]
  <2>1. \A i \in 1 .. n : SubSeq(history, 1, n)[i] = history[i]
    BY <1>1, <1>2, SubSeqProperties
  <2> QED
    BY <1>1, <2>1
<1>9. Records(Kept, Survivor, history)
  BY DEF ContentInv, StoredInv
<1>10. Records(Readable(g.data), g, history')
  BY <1>3, <1>4, <1>5, <1>7, <1>8, <1>9, RecordsFirst
<1>11. Kept' = Readable(g.data)
  BY <1>1, <1>4 DEF Kept
<1>12. StoredInv'
  BY <1>1, <1>4, <1>10, <1>11 DEF StoredInv
<1> QED
  BY <1>1, <1>12 DEF ContentInv, NeverFatal, SlotsInv, PathInv

LEMMA CrashContent ==
  ASSUME IInv, ContentInv, IInv', Kill \/ PowerLoss PROVE ContentInv'
<1>1. PICK n \in Nat : Ends(n)
  BY KillEnds, PowerLossEnds DEF IInv
<1> QED
  BY <1>1, KillLeaves, PowerLeaves, EndsContent

LEMMA CloseContent ==
  ASSUME IInv, ContentInv, IInv', CloseEnds PROVE ContentInv'
<1>1. Ends(Len(history)) /\ turn = "closing" /\ main' = SyncedMain
  BY CloseEndsEnds DEF CloseEnds
<1>2. /\ SyncedMain.exists /\ SyncedMain.data = main.data
      /\ SyncedMain.base = main.base /\ SyncedMain.snap = main.snap
  BY <1>1, SyncedMainIs DEF IInv
<1>3. Survivor = main
  BY <1>1, KeptFits
<1>4. Survivor' = SyncedMain
  BY <1>1, <1>2 DEF Survivor
<1>5. First(Readable(Survivor.data), Kept)
  BY KeptReads DEF ContentInv
<1> QED
  BY <1>1, <1>2, <1>3, <1>4, <1>5, EndsContent

(* A file that is not there records nothing.                               *)
LEMMA NothingRecorded ==
  ASSUME NEW h PROVE Records(<<>>, NoFile, h)
<1> DEFINE c == [n \in 0 .. 0 |-> Nothing]
           t == [n \in 0 .. 0 |-> 0]
<1>1. <<>> \in Seq(Events) /\ Len(<<>>) = 0
  BY EmptySeq
<1>2. Nothing \in Maps /\ c[0] = Nothing /\ t[0] = 0
  BY NothingShown
<1>3. c \in [0 .. 0 -> Maps] /\ t \in [0 .. 0 -> Nat]
  BY <1>2
<1> HIDE DEF c, t
<1>4. Makes(<<>>, c, t)
  BY <1>1, <1>2, <1>3 DEF Makes
<1>5. ASSUME NEW n \in NoFile.snap .. Len(<<>>), NEW k \in Keys
      PROVE  c[n][k].val = Store!ValueAt(h, NoFile.base + n - NoFile.snap, k)
  <2>1. n = 0 /\ NoFile.base + n - NoFile.snap = 0
    BY <1>1, NoFileIs
  <2>2. Store!ValueAt(h, 0, k) = NoVal
    BY NoValueYet
  <2>3. Nothing[k].val = NoVal
    BY DEF Nothing, NoKey
  <2> QED
    BY <1>2, <2>1, <2>2, <2>3
<1>6. Trace(<<>>, NoFile, h, c, t)
  BY <1>4, <1>5 DEF Trace
<1> QED
  BY <1>6 DEF Records

LEMMA NothingReadable == Readable(NoFile.data) = <<>>
<1>1. NoFile.data \in Seq(Events \cup {Torn}) /\ \A i \in 1 .. Len(NoFile.data) : FALSE
  BY NoFileIs, FilesAre
<1>2. Readable(NoFile.data) = NoFile.data
  BY <1>1, ReadableIs
<1> QED
  BY <1>2, NoFileIs

LEMMA UnlinkMainContent ==
  ASSUME IInv, UnlinkMain PROVE ContentInv'
<1>1. turn' = "off" /\ main' = NoFile /\ new' = NoFile
  BY DEF UnlinkMain, ProcessEnds, IInv, NewInv
<1>2. Kept' = <<>> /\ Survivor' = NoFile
  BY <1>1, NothingReadable DEF Kept, Survivor
<1>3. Records(Kept', Survivor', history')
  BY <1>2, NothingRecorded
<1>4. StoredInv'
  BY <1>1, <1>3 DEF StoredInv
<1> QED
  BY <1>1, <1>4 DEF ContentInv, NeverFatal, SlotsInv, PathInv

LEMMA StartContent == Init => ContentInv
<1> SUFFICES ASSUME Init PROVE ContentInv
  OBVIOUS
<1>1. turn = "off" /\ main = NoFile /\ new = NoFile
  BY DEF Init
<1>2. Kept = <<>> /\ Survivor = NoFile
  BY <1>1, NothingReadable DEF Kept, Survivor
<1>3. Records(Kept, Survivor, history)
  BY <1>2, NothingRecorded
<1>4. StoredInv
  BY <1>1, <1>3 DEF StoredInv
<1> QED
  BY <1>1, <1>4 DEF ContentInv, NeverFatal, SlotsInv, PathInv

-----------------------------------------------------------------------------
(* What init reads is the map of the writes that are left.                 *)
LEMMA InitContent ==
  ASSUME IInv, ContentInv, init PROVE ContentInv'
<1> DEFINE events == Readable(Found.data)
<1>0. TypeOK /\ OffInv /\ MainInv /\ turn = "off"
  BY DEF IInv, init
<1>1. /\ main' = [Found EXCEPT !.data = events] /\ slots' = Replayed(events)
      /\ map' = MapOf(slots') /\ lastId' = LastAdded(events) /\ begin' = lastId' + 1
      /\ boot' = Len(history) - lastId' /\ call' = call /\ waiting' = waiting
      /\ buffer' = buffer /\ history' = history
  BY DEF init
<1>2. /\ Found \in Files /\ Found.exists /\ GoodFile(Found) /\ Found.data = Survivor.data
      /\ Found.base = Survivor.base /\ Found.snap = Survivor.snap
  BY <1>0, FoundIs
<1>3. /\ Len(history) \in Nat /\ Len(events) \in Nat /\ Found.synced <= Len(events)
      /\ Len(history) = WritesIn(Found, Len(events))
  BY <1>0, FoundEvents
<1>4. Kept = events
  BY <1>0, <1>2 DEF Kept
<1>5. \/ turn' = "fatal" /\ \E i \in DOMAIN events :
             Refused(Replayed(SubSeq(events, 1, i - 1)), events[i])
      \/ turn' \in {"open", "idle"}
  BY DEF init
<1> HIDE DEF events
<1>6. PICK L \in Nat : L = Len(events)
  BY <1>3
<1>7. L \in Found.snap .. L /\ Len(history) = Found.base + L - Found.snap
  <2>1. Found.snap \in Nat /\ Found.synced \in Nat /\ Found.base \in Nat
        /\ Found.snap <= Found.synced /\ Found.synced <= L
    BY <1>2, <1>3, <1>6, FilesAre DEF GoodFile
  <2> QED
    BY <1>3, <1>6, <2>1 DEF WritesIn
<1>8. Records(events, Survivor, history)
  BY <1>4 DEF ContentInv, StoredInv
<1>9. PICK c, t : Trace(events, Survivor, history, c, t)
  BY <1>8 DEF Records
<1>10. Makes(events, c, t)
  BY <1>9 DEF Trace
<1> DEFINE m   == c[L]
           top == t[L]
<1>11. m \in Maps /\ top \in Nat
  BY <1>6, <1>10, MakesIs
<1>12. \A k \in Keys : m[k].val = Store!ValueAt(history, Len(history), k)
  <2>1. \A k \in Keys :
          m[k].val = Store!ValueAt(history, Survivor.base + L - Survivor.snap, k)
    BY <1>2, <1>6, <1>7, <1>9 DEF Trace
  <2> QED
    BY <1>2, <1>7, <2>1
<1>13. Shows(slots', m, top) /\ lastId' = top
  BY <1>1, <1>6, <1>10, ReplayShows, LastMade
<1>14. RecordsAll(events, Survivor, history, m, top)
  BY <1>6, <1>9, <1>11 DEF RecordsAll
<1> HIDE DEF m, top
<1>15. MapOf(slots') = m /\ map' = m
  BY <1>1, <1>11, <1>13, MapOfShows
<1>16. begin' = top + 1 /\ begin' - 1 = top /\ top + boot' = Len(history)
       /\ top \in top .. top /\ \A q \in top .. top : q = top
  BY <1>1, <1>3, <1>11, <1>13
<1>17. turn' \in {"open", "idle"}
  <2>1. \A i \in DOMAIN events : ~Refused(Replayed(SubSeq(events, 1, i - 1)), events[i])
    BY <1>10, NoneRefused
  <2> QED
    BY <1>5, <2>1
<1>18. SlotsInv'
  BY <1>11, <1>13, <1>15, <1>16 DEF SlotsInv
<1>19. PathInv'
  <2>1. Pending' = {}
    <3>1. waiting' = {} /\ \A u \in Threads : call'[u] = NoCall
      BY <1>0, <1>1 DEF OffInv
    <3>2. \A u \in Threads : ~(call'[u].type = "event")
      BY <3>1 DEF NoCall
    <3> QED
      BY <3>1, <3>2 DEF Pending, Sending
  <2> DEFINE p == [q \in top .. top |-> m]
  <2>2. p \in [top .. top -> Maps] /\ \A q \in top .. top : p[q] = m
    BY <1>11
  <2> HIDE DEF p
  <2>3. \A q \in top .. top, k \in Keys : p[q][k].val = Store!ValueAt(history, q + boot', k)
    BY <1>12, <1>16, <2>2
  <2>4. Path(p, top, top, Pending', history, boot')
    BY <2>1, <2>2, <2>3 DEF Path
  <2>5. p[top] = m
    BY <1>16, <2>2
  <2>6. /\ Path(p, begin' - 1, lastId', Pending', history', boot')
        /\ p[begin' - 1] = MapOf(slots') /\ p[lastId'] = map'
    BY <1>1, <1>13, <1>15, <1>16, <2>4, <2>5
  <2> QED
    BY <2>6 DEF PathInv
<1>20. /\ main'.exists /\ main'.data = events /\ main'.base = Survivor.base
       /\ main'.snap = Survivor.snap
  BY <1>1, <1>2 DEF Files
<1>21. Log' = events
  <2>1. events \in Seq(Events) /\ buffer = <<>>
    BY <1>0, <1>10, MakesIs DEF OffInv
  <2>2. events \o <<>> = events
    BY <2>1, ConcatEmptySeq
  <2> QED
    BY <1>1, <1>20, <2>1, <2>2 DEF Log
<1>22. RecordsAll(Log', main', history', MapOf(slots'), begin' - 1)
  <2>1. RecordsAll(events, main', history, m, top)
    BY <1>14, <1>20, SameRecordsAll
  <2> QED
    BY <1>1, <1>15, <1>16, <1>21, <2>1
<1>23. Kept' = Log' /\ Survivor' = main'
  BY <1>17, <1>20 DEF Kept, Survivor
<1>24. StoredInv'
  <2>1. Records(Kept', Survivor', history')
    BY <1>22, <1>23, AllRecorded
  <2> QED
    BY <1>17, <1>22, <2>1 DEF StoredInv
<1> QED
  BY <1>17, <1>18, <1>19, <1>24 DEF ContentInv, NeverFatal

-----------------------------------------------------------------------------
LEMMA NextContent == IInv /\ ContentInv /\ [Next]_vars => ContentInv'
<1> SUFFICES ASSUME IInv, ContentInv, [Next]_vars PROVE ContentInv'
  OBVIOUS
<1>0. IInv'
  BY NextInvariant
<1>1. CASE init
  BY <1>1, InitContent
<1>2. CASE Kill \/ PowerLoss
  BY <1>0, <1>2, CrashContent
<1>3. CASE \E e \in waiting : Drain(e)
  BY <1>0, <1>3, DrainContent
<1>4. CASE QuietStep
  BY <1>4, QuietContent
<1>5. CASE Reindex \/ UnlinkNew \/ SyncEnds
  BY <1>5, ReindexContent
<1>6. CASE CloseEnds
  BY <1>0, <1>6, CloseContent
<1>7. CASE UnlinkMain
  BY <1>7, UnlinkMainContent
<1>8. CASE \E t \in Threads : \/ ForceSync(t) \/ Deliver(t)
                             \/ \E k \in Keys, v \in Values \cup {NoVal} : Write(t, k, v)
  BY <1>0, <1>8, ThreadContent
<1>9. CASE UNCHANGED vars
  <2>1. UNCHANGED <<map, lastId, call, begin, waiting, turn, buffer, main, new, slots,
                    history, boot>>
    BY <1>9 DEF vars, clientVars, actorVars, fileVars, ghostVars
  <2>2. StoredInv' /\ NeverFatal'
    BY <2>1, SameStored DEF ContentInv, NeverFatal
  <2>3. SlotsInv'
    BY <2>1 DEF ContentInv, SlotsInv
  <2>4. PathInv'
    BY <2>1 DEF ContentInv, PathInv, Path, Pending, Sending
  <2> QED
    BY <2>2, <2>3, <2>4 DEF ContentInv
<1> QED
  BY <1>1, <1>2, <1>3, <1>4, <1>5, <1>6, <1>7, <1>8, <1>9
  DEF Next, Actor, QuietStep

(* The processor of the log never meets an event that it refuses, so that  *)
(* TDLib never aborts over its own file: whatever order the events of two  *)
(* threads arrive in, and whatever a crash in the middle of a write, of    *)
(* do_reindex or of destroy leaves of the files.                           *)
THEOREM NoEventRefused == Spec => []NeverFatal
<1>1. Init => IInv /\ ContentInv
  BY InitInvariant, StartContent
<1>2. IInv /\ ContentInv /\ [Next]_vars => IInv' /\ ContentInv'
  BY NextInvariant, NextContent
<1>3. ContentInv => NeverFatal
  BY DEF ContentInv
<1> QED
  BY <1>1, <1>2, <1>3, PTL DEF Spec

(* As long as a process runs, the map from which the settings and the      *)
(* login are read is what the writes that were not lost make of it, also   *)
(* when it was read back from a file that a crash had cut, torn or left in *)
(* the middle of being replaced.                                           *)
THEOREM MapIsOfTheWrites == Spec => []MapIsWrites
<1>1. Init => IInv /\ ContentInv
  BY InitInvariant, StartContent
<1>2. IInv /\ ContentInv /\ [Next]_vars => IInv' /\ ContentInv'
  BY NextInvariant, NextContent
<1>3. IInv /\ ContentInv => MapIsWrites
  <2> SUFFICES ASSUME IInv, ContentInv, turn # "off", NEW k \in Keys
               PROVE  map[k].val = Store!ValueAt(history, Len(history), k)
    BY DEF MapIsWrites
  <2>1. PICK p : Path(p, begin - 1, lastId, Pending, history, boot) /\ p[lastId] = map
    BY DEF ContentInv, PathInv
  <2>2. /\ lastId + boot = Len(history) /\ begin - 1 <= lastId
        /\ lastId \in Nat /\ begin \in Nat
    BY NumbersAre DEF IInv, NumberInv
  <2>3. lastId \in begin - 1 .. lastId
    BY <2>2
  <2>4. p[lastId][k].val = Store!ValueAt(history, lastId + boot, k)
    BY <2>1, <2>3 DEF Path
  <2> QED
    BY <2>1, <2>2, <2>4
<1> QED
  BY <1>1, <1>2, <1>3, PTL DEF Spec
=============================================================================
