------------------------------ MODULE DurableMap ------------------------------
(***************************************************************************)
(* What TDLib's key-value store promises: a map that remembers the order   *)
(* of its writes.  A crash loses at most the newest of them, never one     *)
(* whose caller has been told that it is saved; what remains is the map    *)
(* as it stood after some earlier write, never a mixture.                  *)
(***************************************************************************)
EXTENDS Naturals, Sequences

CONSTANTS Keys, Values, NoVal  \* NoVal: a key that was erased has it

VARIABLES
  writes,    \* the writes since the map was created, oldest first
  durable,   \* this many of them survive a crash
  promised   \* this many of them some caller knows to be saved

vars == <<writes, durable, promised>>

\* Erasing a key writes NoVal to it.
Writes == [key : Keys, val : Values \cup {NoVal}]

TypeOK ==
  /\ writes \in Seq(Writes) /\ durable \in Nat /\ promised \in Nat

\* The value of a key after the first n writes.
ValueAt(ws, n, k) ==
  LET mine == {i \in 1 .. n : ws[i].key = k}
  IN  IF mine = {} THEN NoVal
      ELSE ws[CHOOSE i \in mine : \A j \in mine : j <= i].val

Init == writes = <<>> /\ durable = 0 /\ promised = 0

Write ==
  /\ \E w \in Writes : writes' = Append(writes, w)
  /\ UNCHANGED <<durable, promised>>

\* Writes reach the disk in their order; only then are their callers told.
Save ==
  /\ durable' \in durable .. Len(writes)
  /\ promised' \in promised .. durable'
  /\ UNCHANGED writes

Crash ==
  /\ \E n \in durable .. Len(writes) : writes' = SubSeq(writes, 1, n)
  /\ durable' \in durable .. Len(writes')
  /\ UNCHANGED promised

Destroy == writes' = <<>> /\ durable' = 0 /\ promised' = 0

Next == Write \/ Save \/ Crash \/ Destroy

Spec == Init /\ [][Next]_vars

\* What a caller was told is saved is there, and survives.
PromisesHold == promised <= durable /\ durable <= Len(writes)

\* No step but the destruction of the map changes a write that was promised.
PromisedStay ==
  [][\/ writes' = <<>> /\ promised' = 0
     \/ /\ promised <= Len(writes')
        /\ \A i \in 1 .. promised : writes'[i] = writes[i]]_vars
=============================================================================
