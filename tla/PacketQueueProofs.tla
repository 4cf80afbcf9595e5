-------------------------- MODULE PacketQueueProofs -------------------------
(***************************************************************************)
(* Proofs about PacketQueue, for every capacity and every set of packets.  *)
(* The code's capacity is 8 and meant to be tuned.                         *)
(***************************************************************************)
EXTENDS PacketQueue, TLAPS

(* Once around the ring is where the remainder comes in.                   *)
LEMMA Around ==
  ASSUME NEW c \in Nat \ {0}, NEW x \in Nat, x < 2 * c
  PROVE  x % c = IF x < c THEN x ELSE x - c
<1>1. /\ x % c \in 0..(c - 1)
      /\ x = c * (x \div c) + (x % c)
  BY Z3
<1> QED BY <1>1, Z3

LEMMA NextSlot ==
  ASSUME Capacity \in Nat \ {0}, NEW x \in Slot
  PROVE  (x + 1) % Capacity = IF x + 1 < Capacity THEN x + 1 ELSE 0
<1>1. x + 1 \in Nat /\ x + 1 < 2 * Capacity /\ x + 1 <= Capacity
  BY DEF Slot
<1> QED BY <1>1, Around

LEMMA Position ==
  ASSUME Capacity \in Nat \ {0}, NEW x \in Slot, NEW k \in 0..Capacity
  PROVE  (x + k) % Capacity =
           IF x + k < Capacity THEN x + k ELSE (x + k) - Capacity
<1>1. x + k \in Nat /\ x + k < 2 * Capacity
  BY DEF Slot
<1> QED BY <1>1, Around

(* The positions and the count, step by step.                              *)
LEMMA RingStart ==
  ASSUME Capacity \in Nat \ {0}
  PROVE  Init => RingOK
<1> SUFFICES ASSUME Init PROVE RingOK
  OBVIOUS
<1>1. 0 \in Slot /\ (0 + 0) % Capacity = 0
  BY Position DEF Slot
<1> QED BY <1>1 DEF Init, RingOK

LEMMA RingPush ==
  ASSUME Capacity \in Nat \ {0}, RingOK, NEW p \in Packet, PushStored(p)
  PROVE  RingOK'
<1>1. head \in Slot /\ tail \in Slot /\ count \in 0..(Capacity - 1)
  BY DEF RingOK, PushStored, IsFull
<1>2. tail = IF head + count < Capacity THEN head + count ELSE (head + count) - Capacity
  BY <1>1, Position DEF RingOK
<1>3. tail' = IF tail + 1 < Capacity THEN tail + 1 ELSE 0
  BY <1>1, NextSlot DEF PushStored
<1>4. (head + (count + 1)) % Capacity =
        IF head + (count + 1) < Capacity THEN head + (count + 1)
                                         ELSE (head + (count + 1)) - Capacity
  BY <1>1, Position
<1>5. tail' = (head' + count') % Capacity
  BY <1>1, <1>2, <1>3, <1>4 DEF PushStored, Slot
<1>6. tail' \in Slot /\ count' \in 0..Capacity /\ head' \in Slot
  BY <1>1, <1>3 DEF PushStored, Slot
<1>7. items' \in [Slot -> Packet]
  BY <1>1 DEF RingOK, PushStored
<1> QED BY <1>5, <1>6, <1>7 DEF RingOK

LEMMA RingPop ==
  ASSUME Capacity \in Nat \ {0}, RingOK, PopTaken
  PROVE  RingOK'
<1>1. head \in Slot /\ tail \in Slot /\ count \in 1..Capacity
  BY DEF RingOK, PopTaken
<1>2. tail = IF head + count < Capacity THEN head + count ELSE (head + count) - Capacity
  BY <1>1, Position DEF RingOK
<1>3. head' = IF head + 1 < Capacity THEN head + 1 ELSE 0
  BY <1>1, NextSlot DEF PopTaken
<1>4. head' \in Slot /\ count' \in 0..Capacity /\ count' = count - 1
  BY <1>1, <1>3 DEF PopTaken, Slot
<1>5. (head' + count') % Capacity =
        IF head' + count' < Capacity THEN head' + count' ELSE (head' + count') - Capacity
  BY <1>4, Position
<1>6. tail = (head' + count') % Capacity
  BY <1>1, <1>2, <1>3, <1>4, <1>5 DEF Slot
<1> QED BY <1>1, <1>4, <1>6 DEF RingOK, PopTaken

LEMMA RingStep ==
  ASSUME Capacity \in Nat \ {0}
  PROVE  RingOK /\ [Next]_vars => RingOK'
<1> SUFFICES ASSUME RingOK, [Next]_vars PROVE RingOK'
  OBVIOUS
<1>1. ASSUME NEW p \in Packet, PushStored(p) PROVE RingOK'
  BY <1>1, RingPush
<1>2. CASE PopTaken
  BY <1>2, RingPop
<1>3. ASSUME UNCHANGED <<items, head, tail, count>> PROVE RingOK'
  BY <1>3 DEF RingOK
<1> QED
  BY <1>1, <1>2, <1>3 DEF Next, Push, PushDropped, Pop, PopEmpty, vars

(* The ring never loses its place: NNPacketQueue's two positions are always*)
(* as far apart as it holds packets.                                       *)
THEOREM RingSafe ==
  ASSUME Capacity \in Nat \ {0}
  PROVE  Spec => []RingOK
  BY RingStart, RingStep, PTL DEF Spec

-----------------------------------------------------------------------------
(* What the ring holds, as a sequence.                                     *)
Wrapped(h, i) == IF h + (i - 1) < Capacity THEN h + (i - 1)
                                              ELSE (h + (i - 1)) - Capacity

Ring(slots, h, c) == [i \in 1..c |-> slots[(h + i - 1) % Capacity]]

LEMMA Held ==
  ASSUME Capacity \in Nat \ {0},
         NEW slots \in [Slot -> Packet], NEW h \in Slot, NEW c \in 0..Capacity
  PROVE  /\ Ring(slots, h, c) \in Seq(Packet) /\ Len(Ring(slots, h, c)) = c
         /\ \A i \in 1..c : Ring(slots, h, c)[i] = slots[Wrapped(h, i)]
<1>1. ASSUME NEW i \in 1..c
      PROVE  /\ (h + i - 1) % Capacity = Wrapped(h, i)
             /\ (h + i - 1) % Capacity \in Slot
  <2>1. i - 1 \in 0..Capacity /\ h + i - 1 = h + (i - 1)
    BY DEF Slot
  <2>2. (h + i - 1) % Capacity = Wrapped(h, i)
    BY <2>1, Position DEF Wrapped
  <2>3. h + i - 1 \in Nat /\ h + i - 1 < 2 * Capacity
    BY DEF Slot
  <2> QED BY <2>2, <2>3 DEF Slot, Wrapped
<1>2. Ring(slots, h, c) \in [1..c -> Packet]
  BY <1>1 DEF Ring
<1>3. Ring(slots, h, c) \in Seq(Packet) /\ Len(Ring(slots, h, c)) = c
  BY <1>2
<1> QED BY <1>1, <1>3 DEF Ring

LEMMA HeldNow ==
  ASSUME Capacity \in Nat \ {0}
  PROVE  RingOK => /\ Contents = Ring(items, head, count)
                   /\ Contents \in Seq(Packet) /\ Len(Contents) = count
                   /\ \A i \in 1..count : Contents[i] = items[Wrapped(head, i)]
<1>1. Contents = Ring(items, head, count)
  BY DEF Contents, Ring
<1> QED BY <1>1, Held DEF RingOK

LEMMA HeldNext ==
  ASSUME Capacity \in Nat \ {0}
  PROVE  RingOK' => /\ Contents' \in Seq(Packet) /\ Len(Contents') = count'
                    /\ \A i \in 1..count' : Contents'[i] = items'[Wrapped(head', i)]
<1>1. Contents' = Ring(items', head', count')
  BY DEF Contents, Ring
<1> QED BY <1>1, Held DEF RingOK, Slot

LEMMA PushAppends ==
  ASSUME Capacity \in Nat \ {0}, RingOK, NEW p \in Packet, PushStored(p)
  PROVE  Fifo!Accept(p)
<1>1. RingOK'
  BY RingPush
<1>2. /\ head \in Slot /\ tail \in Slot /\ count \in 0..(Capacity - 1)
      /\ items \in [Slot -> Packet]
  BY DEF RingOK, PushStored, IsFull
<1>3. tail = IF head + count < Capacity THEN head + count ELSE (head + count) - Capacity
  BY <1>2, Position DEF RingOK
<1>4. /\ Contents \in Seq(Packet) /\ Len(Contents) = count
      /\ Contents' \in Seq(Packet) /\ Len(Contents') = count + 1
  BY <1>1, HeldNow, HeldNext DEF PushStored
<1>5. ASSUME NEW i \in 1..(count + 1)
      PROVE  Contents'[i] = Append(Contents, p)[i]
  <2> DEFINE at == Wrapped(head, i)
  <2>1. Contents'[i] = items'[at]
    BY <1>1, <1>2, HeldNext DEF PushStored
  <2>2. items' = [items EXCEPT ![tail] = p] /\ at \in Slot
    BY <1>2 DEF PushStored, Slot, Wrapped
  <2>3. CASE i = count + 1
    <3>1. at = tail
      BY <1>2, <1>3, <2>3 DEF Slot, Wrapped
    <3>2. Append(Contents, p)[i] = p
      BY <1>4, <2>3
    <3> QED BY <1>2, <2>1, <2>2, <3>1, <3>2
  <2>4. CASE i \in 1..count
    <3>1. at # tail
      BY <1>2, <1>3, <2>4 DEF Slot, Wrapped
    <3>2. items'[at] = items[at]
      BY <1>2, <2>2, <3>1
    <3>3. Contents[i] = items[at]
      BY <2>4, HeldNow
    <3>4. Append(Contents, p)[i] = Contents[i]
      BY <1>4, <2>4
    <3> QED BY <2>1, <3>2, <3>3, <3>4
  <2>5. i = count + 1 \/ i \in 1..count
    BY <1>2
  <2> QED BY <2>3, <2>4, <2>5
<1>6. Contents' = Append(Contents, p)
  <2>1. Append(Contents, p) \in Seq(Packet) /\ Len(Append(Contents, p)) = count + 1
    BY <1>4
  <2> QED BY <1>2, <1>4, <1>5, <2>1
<1>7. Len(Contents) < Capacity
  BY <1>2, <1>4
<1> QED BY <1>6, <1>7 DEF PushStored, Fifo!Accept

LEMMA PopDelivers ==
  ASSUME Capacity \in Nat \ {0}, RingOK, PopTaken
  PROVE  Fifo!Deliver
<1>1. RingOK'
  BY RingPop
<1>2. /\ head \in Slot /\ count \in 1..Capacity /\ items' = items
      /\ count' = count - 1
  BY DEF RingOK, PopTaken
<1>3. head' = IF head + 1 < Capacity THEN head + 1 ELSE 0
  BY <1>2, NextSlot DEF PopTaken
<1>4. /\ Contents \in Seq(Packet) /\ Len(Contents) = count
      /\ Contents' \in Seq(Packet) /\ Len(Contents') = count - 1
  BY <1>1, <1>2, HeldNow, HeldNext
<1>5. Contents # << >> /\ Head(Contents) = items[head]
  <2>1. Contents[1] = items[head]
    BY <1>2, HeldNow DEF Slot, Wrapped
  <2> QED BY <1>2, <1>4, <2>1
<1>6. ASSUME NEW i \in 1..(count - 1)
      PROVE  Contents'[i] = Tail(Contents)[i]
  <2> DEFINE at == IF head + i < Capacity THEN head + i ELSE (head + i) - Capacity
  <2>1. i \in 1..count' /\ i + 1 \in 1..count
    BY <1>2
  <2>2. Contents'[i] = items'[Wrapped(head', i)]
    BY <1>1, <2>1, HeldNext
  <2>3. Contents[i + 1] = items[Wrapped(head, i + 1)]
    BY <2>1, HeldNow
  <2>4. Wrapped(head', i) = at /\ Wrapped(head, i + 1) = at
    BY <1>2, <1>3 DEF Slot, Wrapped
  <2>5. Tail(Contents)[i] = Contents[i + 1]
    BY <1>2, <1>4
  <2> QED BY <1>2, <2>2, <2>3, <2>4, <2>5
<1>7. Contents' = Tail(Contents)
  <2>1. Tail(Contents) \in Seq(Packet) /\ Len(Tail(Contents)) = count - 1
    BY <1>2, <1>4, <1>5
  <2> QED BY <1>2, <1>4, <1>6, <2>1
<1> QED BY <1>5, <1>7 DEF PopTaken, Fifo!Deliver

LEMMA Refuses ==
  ASSUME Capacity \in Nat \ {0}
  PROVE  RingOK /\ PushDropped => Fifo!Refuse
<1> SUFFICES ASSUME RingOK, PushDropped PROVE Fifo!Refuse
  OBVIOUS
<1>1. Len(Contents) = Capacity
  BY HeldNow DEF PushDropped, IsFull, RingOK
<1>2. Contents' = Contents
  BY DEF PushDropped, Contents
<1> QED BY <1>1, <1>2 DEF PushDropped, Failed, Fifo!Refuse

LEMMA FindsNothing ==
  ASSUME Capacity \in Nat \ {0}
  PROVE  RingOK /\ PopEmpty => Fifo!NothingThere
<1> SUFFICES ASSUME RingOK, PopEmpty PROVE Fifo!NothingThere
  OBVIOUS
<1>1. Contents = << >>
  BY HeldNow DEF PopEmpty
<1>2. Contents' = Contents
  BY DEF PopEmpty, Contents
<1> QED BY <1>1, <1>2 DEF PopEmpty, Failed, Fifo!NothingThere

(* NNPacketQueue is a bounded queue: in order, each once, the newest       *)
(* refused when full, for every capacity.                                  *)
THEOREM QueueIsFifo ==
  ASSUME Capacity \in Nat \ {0}
  PROVE  Spec => IsFifo
<1>1. Init => Fifo!FifoInit
  <2> SUFFICES ASSUME Init PROVE Fifo!FifoInit
    OBVIOUS
  <2>1. Contents = << >>
    BY RingStart, HeldNow DEF Init
  <2> QED BY <2>1 DEF Init, Fifo!FifoInit
<1>2. RingOK /\ [Next]_vars => [Fifo!FifoNext]_(Fifo!fifoVars)
  <2> SUFFICES ASSUME RingOK, [Next]_vars PROVE [Fifo!FifoNext]_(Fifo!fifoVars)
    OBVIOUS
  <2>1. ASSUME NEW p \in Packet, PushStored(p) PROVE Fifo!FifoNext
    BY <2>1, PushAppends DEF Fifo!FifoNext
  <2>2. CASE PushDropped
    BY <2>2, Refuses DEF Fifo!FifoNext
  <2>3. CASE PopTaken
    BY <2>3, PopDelivers DEF Fifo!FifoNext
  <2>4. CASE PopEmpty
    BY <2>4, FindsNothing DEF Fifo!FifoNext
  <2>5. CASE UNCHANGED vars
    BY <2>5 DEF vars, Fifo!fifoVars, Contents
  <2> QED BY <2>1, <2>2, <2>3, <2>4, <2>5 DEF Next, Push, Pop
<1> QED BY <1>1, <1>2, RingSafe, PTL DEF Spec, IsFifo, Fifo!FifoSpec
=============================================================================
