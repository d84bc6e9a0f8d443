-------------------------- MODULE VirtioHostProofs --------------------------
(***************************************************************************)
(* Theorems about VirtioHost, for every size of the queues and of their    *)
(* indices, any contents of the messages and any number of buttons.        *)
(***************************************************************************)
EXTENDS VirtioHost, VirtioProofs, SequenceTheorems, FiniteSetTheorems

-----------------------------------------------------------------------------
(* The inductive invariant *)

TypeOK ==
    /\ dev \in Devices
    /\ queue \in [QueueId -> QueueState]
    /\ ring = [a \in Addr |-> ring[a]]
    /\ \A a \in Addr : "idx" \in DOMAIN ring[a] /\ ring[a].idx \in Idx
    /\ seen \in [QueueId -> Idx]

\* A driver that starts has read nothing; one that runs has its rings apart.
DriverInv ==
    IF drv = "off" THEN \A q \in QueueId : seen[q] = 0
    ELSE \A p, q \in QueueId : queue[p].avail_addr # queue[q].used_addr

IInv == TypeOK /\ DriverInv /\ HostIsSignalled

UsedIdx(q) == ring[queue[q].used_addr].idx

\* The interrupt that a used buffer, or a new size, needs.
UsedPending == "used" \in int_status /\ irq = 1
ConfigPending == "config" \in int_status /\ irq = 1
Handling == drv \in {"ack", "scan"}

LEMMA QueuesAre ==
    0 \in QueueId /\ 1 \in QueueId
  BY HostAssumption, VirtioAssumption DEF QueueId

LEMMA SlotsAre ==
    ASSUME TypeOK, NEW q \in QueueId
    PROVE  Slots(q) # << >> <=> UsedIdx(q) # seen[q]
<1>1. UsedIdx(q) \in Idx /\ seen[q] \in Idx
  BY DEF TypeOK, UsedIdx, QueueState
<1> DEFINE n == Count(seen[q], UsedIdx(q))
<1>2. n \in Nat /\ (n = 0 <=> UsedIdx(q) = seen[q])
  <2>1. n = IF UsedIdx(q) >= seen[q] THEN UsedIdx(q) - seen[q]
            ELSE UsedIdx(q) - seen[q] + IdxSize
    BY <1>1, CountIs
  <2>2. QED
    BY <1>1, <2>1, VirtioAssumption DEF Idx
<1>3. Slots(q) = [i \in 1 .. n |-> Slot(q, seen[q] + i - 1)]
  BY DEF Slots, Count, UsedIdx
<1> HIDE DEF n
<1>4. CASE n = 0
  <2>1. Slots(q) = [i \in 1 .. 0 |-> Slot(q, seen[q] + i - 1)]
    BY <1>3, <1>4
  <2>2. Slots(q) = << >>
    BY <2>1, EmptySeq, SeqDef, LenProperties
  <2>3. QED
    BY <1>2, <1>4, <2>2
<1>5. CASE n # 0
  <2>1. 1 \in DOMAIN Slots(q)
    BY <1>2, <1>3, <1>5
  <2>2. DOMAIN << >> = {}
    OBVIOUS
  <2>3. QED
    BY <1>2, <1>5, <2>1, <2>2
<1>6. QED
  BY <1>4, <1>5

\* The property, in the terms of the proofs.
Told ==
    drv # "off" =>
      /\ (\E q \in QueueId : UsedIdx(q) # seen[q]) => Handling \/ UsedPending
      /\ config # config_read => (Handling /\ "config" \in causes) \/ ConfigPending

LEMMA ToldIs ==
    ASSUME TypeOK PROVE HostIsSignalled <=> Told
  BY SlotsAre DEF HostIsSignalled, Told, Handling, UsedPending, ConfigPending

LEMMA NextToldIs ==
    TypeOK' => (HostIsSignalled' <=> Told')
<1>1. TypeOK => (HostIsSignalled <=> Told)
  BY ToldIs
<1>2. QED
  BY <1>1, PTL
-----------------------------------------------------------------------------
(* The calls of the host *)

HandStep(msgs, i, e) == IF CanWrite(e) THEN Put(e, msgs[i]) ELSE e

\* What is left for a call that has come to e; what it has used it will tell.
HandInv(msgs, i, e) ==
    LET a == AvailIdx(0)
        n == Count(queue[0].last_avail_idx, a)
    IN  /\ e.last \in Idx /\ "idx" \in DOMAIN e.used /\ e.used.idx \in Idx
        /\ Count(e.last, a) <= n
        /\ e # Filled => Count(e.last, a) < n

Handing == INSTANCE Loops WITH Base <- LAMBDA msgs : Filled, Step <- HandStep, Inv <- HandInv

LEMMA HandedIs ==
    ASSUME NEW msgs PROVE PutAll(msgs) = Handing!After(msgs, Len(msgs))[Len(msgs)]
  BY DEF PutAll, Handing!After, HandStep

\* No call takes more chains than there are: the index of the device does not
\* come round to where it was, so that the call can tell what it has used.
LEMMA HandedKeeps ==
    ASSUME TypeOK, NEW msgs, Len(msgs) \in Nat
    PROVE  LET e == PutAll(msgs)
           IN  /\ e.last \in Idx /\ "idx" \in DOMAIN e.used /\ e.used.idx \in Idx
               /\ e.last = queue[0].last_avail_idx => e = Filled
<1> DEFINE a == AvailIdx(0)
           n == Count(queue[0].last_avail_idx, a)
<1>1. a \in Idx /\ queue[0].last_avail_idx \in Idx /\ queue[0].used_addr \in Addr
  BY QueuesAre DEF TypeOK, QueueState, AvailIdx
<1>2. n \in Nat
  BY <1>1, CountType, SMTT(40) DEF Idx
<1> HIDE DEF a, n
<1>3. HandInv(msgs, 0, Filled)
  BY <1>1, <1>2 DEF HandInv, Filled, TypeOK, a, n
<1>4. ASSUME NEW i \in 1 .. Len(msgs), NEW e, HandInv(msgs, i - 1, e)
      PROVE  HandInv(msgs, i, HandStep(msgs, i, e))
  <2>1. /\ e.last \in Idx /\ "idx" \in DOMAIN e.used /\ e.used.idx \in Idx
        /\ Count(e.last, a) <= n
        /\ e # Filled => Count(e.last, a) < n
    BY <1>4 DEF HandInv, a, n
  <2>2. CASE ~CanWrite(e)
    BY <2>1, <2>2 DEF HandInv, HandStep, a, n
  <2>3. CASE CanWrite(e)
    <3> DEFINE p == Put(e, msgs[i])
    <3>1. /\ p.last = (e.last + 1) % IdxSize
          /\ "idx" \in DOMAIN p.used /\ p.used.idx = (e.used.idx + 1) % IdxSize
      BY DEF Put, WithEntry
    <3> HIDE DEF p
    <3>2. p.last \in Idx /\ p.used.idx \in Idx
      BY <2>1, <3>1, NextIdx
    <3>3. e.last # a
      BY <2>3 DEF CanWrite, a
    <3>4. Count(p.last, a) = Count(e.last, a) - 1 /\ Count(e.last, a) \in Nat
      BY <1>1, <2>1, <3>1, <3>3, CountLess
    <3>5. Count(p.last, a) < n
      BY <1>2, <2>1, <3>4
    <3>6. Count(p.last, a) <= n
      BY <1>2, <3>4, <3>5
    <3>7. HandInv(msgs, i, p)
      BY <3>1, <3>2, <3>5, <3>6 DEF HandInv, a, n
    <3>8. QED
      BY <2>3, <3>7 DEF HandStep, p
  <2>4. QED
    BY <2>2, <2>3
<1>5. HandInv(msgs, Len(msgs), Handing!After(msgs, Len(msgs))[Len(msgs)])
  <2>1. \A i \in 0 .. Len(msgs) : HandInv(msgs, i, Handing!After(msgs, Len(msgs))[i])
    BY <1>3, <1>4, Handing!LoopKeeps
  <2>2. Len(msgs) \in 0 .. Len(msgs)
    OBVIOUS
  <2>3. QED
    BY <2>1, <2>2
<1> DEFINE e == PutAll(msgs)
<1>6. HandInv(msgs, Len(msgs), e)
  BY <1>5, HandedIs
<1> HIDE DEF e
<1>7. e.last = queue[0].last_avail_idx => e = Filled
  <2>1. e.last = queue[0].last_avail_idx => Count(e.last, a) = n
    BY DEF n
  <2>2. ~(n < n)
    BY <1>2
  <2>3. e # Filled => Count(e.last, a) < n
    BY <1>6 DEF HandInv, a, n
  <2>4. QED
    BY <2>1, <2>2, <2>3
<1>8. QED
  BY <1>6, <1>7 DEF HandInv, e

LEMMA FillKeeps ==
    ASSUME IInv, NEW msgs, Len(msgs) \in Nat, Fill(msgs) PROVE IInv'
<1> DEFINE e == PutAll(msgs)
           a == queue[0].used_addr
<1>1. /\ e.last \in Idx /\ "idx" \in DOMAIN e.used /\ e.used.idx \in Idx
      /\ e.last = queue[0].last_avail_idx => e = Filled
  BY HandedKeeps DEF IInv
<1>2. /\ queue' = [queue EXCEPT ![0].last_avail_idx = e.last]
      /\ ring' = [ring EXCEPT ![a] = e.used]
      /\ IF e.last = queue[0].last_avail_idx THEN UNCHANGED <<int_status, irq>>
         ELSE int_status' = int_status \cup {"used"} /\ irq' = 1
      /\ UNCHANGED <<dev, config, drv, causes, config_read, seen>>
  BY DEF Fill, driver
<1>3. e = Filled => e.used = ring[a]
  BY DEF Filled
<1> HIDE DEF e
<1>4. /\ 0 \in QueueId /\ queue \in [QueueId -> QueueState] /\ a \in Addr
      /\ ring = [b \in Addr |-> ring[b]]
      /\ \A b \in Addr : "idx" \in DOMAIN ring[b] /\ ring[b].idx \in Idx
  BY QueuesAre DEF IInv, TypeOK, QueueState
<1>5. /\ queue' \in [QueueId -> QueueState]
      /\ \A q \in QueueId : /\ queue'[q].used_addr = queue[q].used_addr
                            /\ queue'[q].avail_addr = queue[q].avail_addr
  BY <1>1, <1>2, <1>4, SMTT(40) DEF QueueState
<1> HIDE DEF a
<1>6. /\ ring' = [b \in Addr |-> ring'[b]]
      /\ \A b \in Addr : ring'[b] = IF b = a THEN e.used ELSE ring[b]
  BY <1>2, <1>4
<1>7. TypeOK'
  BY <1>1, <1>2, <1>4, <1>5, <1>6 DEF IInv, TypeOK
<1>8. DriverInv'
  BY <1>2, <1>5 DEF IInv, DriverInv
<1>9. Told'
  <2>1. Told
    BY ToldIs DEF IInv
  <2>2. CASE e.last = queue[0].last_avail_idx
    <3>1. e.used = ring[a]
      BY <1>1, <1>3, <2>2
    <3>2. \A q \in QueueId : queue[q].used_addr \in Addr
      BY <1>4 DEF QueueState
    <3>3. \A q \in QueueId : UsedIdx(q)' = UsedIdx(q)
      BY <1>5, <1>6, <3>1, <3>2 DEF UsedIdx
    <3>4. QED
      BY <1>2, <2>1, <2>2, <3>3 DEF Told, Handling, UsedPending, ConfigPending
  <2>3. CASE e.last # queue[0].last_avail_idx
    BY <1>2, <2>1, <2>3 DEF Told, Handling, UsedPending, ConfigPending
  <2>4. QED
    BY <2>2, <2>3
<1>10. QED
  BY <1>7, <1>8, <1>9, NextToldIs DEF IInv

LEMMA PacketKeeps ==
    ASSUME IInv, Packet PROVE IInv'
<1>1. PICK p \in Payloads :
        Fill(IF /\ Room > 0
                /\ WellFormed(FirstChain(Filled))
                /\ 1 + Len(p) <= Len(WritableCells(FirstChain(Filled)))
             THEN << <<Header>> \o p >> ELSE << >>)
  BY DEF Packet
<1>2. CASE Fill(<< <<Header>> \o p >>)
  BY <1>2, FillKeeps
<1>3. CASE Fill(<< >>)
  BY <1>3, FillKeeps
<1>4. QED
  BY <1>1, <1>2, <1>3

LEMMA TypedKeeps ==
    ASSUME IInv, Typed PROVE IInv'
<1>1. PICK p \in Payloads : Fill(<<p>>)
  BY DEF Typed
<1>2. QED
  BY <1>1, FillKeeps

LEMMA KeyKeeps ==
    ASSUME IInv, Key PROVE IInv'
<1>1. PICK is_down \in {0, 1} : Fill(<<Event("KEY", "key", is_down), Syn>>)
  BY DEF Key
<1>2. QED
  BY <1>1, FillKeeps

\* The loop over the buttons ends with a sequence.
ButtonStep(S, i, e) == IF ButtonsList[i] \in S THEN Append(e, ButtonsList[i]) ELSE e

ButtonInv(S, i, e) == e \in Seq(Range(ButtonsList))

Listing ==
    INSTANCE Loops WITH Base <- LAMBDA S : << >>, Step <- ButtonStep, Inv <- ButtonInv

LEMMA ListedType ==
    ASSUME NEW S PROVE Listed(S) \in Seq(Range(ButtonsList))
<1> DEFINE n == Len(ButtonsList)
<1>1. n \in Nat /\ DOMAIN ButtonsList = 1 .. n
  BY HostAssumption, LenProperties
<1>2. Listed(S) = Listing!After(S, n)[n]
  BY DEF Listed, Listing!After, ButtonStep
<1>3. \A i \in 1 .. n : ButtonsList[i] \in Range(ButtonsList)
  BY <1>1 DEF Range
<1> HIDE DEF n
<1>4. ButtonInv(S, 0, << >>)
  BY DEF ButtonInv
<1>5. ASSUME NEW i \in 1 .. n, NEW e, ButtonInv(S, i - 1, e)
      PROVE  ButtonInv(S, i, ButtonStep(S, i, e))
  BY <1>3, <1>5, AppendProperties DEF ButtonInv, ButtonStep
<1>6. \A i \in 0 .. n : ButtonInv(S, i, Listing!After(S, n)[i])
  BY <1>1, <1>4, <1>5, Listing!LoopKeeps
<1>7. n \in 0 .. n
  BY <1>1
<1>8. QED
  BY <1>2, <1>6, <1>7 DEF ButtonInv

\* Each is of one event.
LEMMA MovesAreMessages ==
    ASSUME NEW axis, NEW dx, NEW dy, NEW dz, NEW B, NEW pressed
    PROVE  LET msgs == Append(Moves(axis, dx, dy, dz, Listed(B), pressed), Syn)
           IN  Len(msgs) \in Nat /\ \A i \in 1 .. Len(msgs) : \E e : msgs[i] = <<e>>
<1> DEFINE changes == Listed(B)
           first == <<Event(axis, "X", dx), Event(axis, "Y", dy)>>
           wheel == IF dz # 0 THEN <<Event("REL", "WHEEL", dz)>> ELSE << >>
           key(b) == Event("KEY", b, IF b \in pressed THEN 1 ELSE 0)
           keys == [i \in 1 .. Len(changes) |-> key(changes[i])]
           S == {Event(axis, "X", dx), Event(axis, "Y", dy), Event("REL", "WHEEL", dz), Syn}
                  \cup {key(b) : b \in Range(ButtonsList)}
           msgs == Append(Moves(axis, dx, dy, dz, changes, pressed), Syn)
<1>1. /\ Len(changes) \in Nat
      /\ \A i \in 1 .. Len(changes) : changes[i] \in Range(ButtonsList)
  BY ListedType, LenProperties, ElementOfSeq
<1>2. Moves(axis, dx, dy, dz, changes, pressed) = first \o wheel \o keys
  BY DEF Moves
<1>3. \A m \in S : \E e : m = <<e>>
  BY DEF Event, Syn
<1> HIDE DEF changes, key
<1>4. first \in Seq(S) /\ wheel \in Seq(S) /\ Syn \in S
  <2>1. /\ Event(axis, "X", dx) \in S /\ Event(axis, "Y", dy) \in S
        /\ Event("REL", "WHEEL", dz) \in S /\ Syn \in S
    OBVIOUS
  <2> HIDE DEF S
  <2>2. first \in Seq(S)
    BY <2>1
  <2>3. << >> \in Seq(S) /\ <<Event("REL", "WHEEL", dz)>> \in Seq(S)
    BY <2>1
  <2>4. wheel \in Seq(S)
    BY <2>3, Zenon
  <2>5. QED
    BY <2>1, <2>2, <2>4
<1>5. keys \in Seq(S)
  <2>1. \A i \in 1 .. Len(changes) : key(changes[i]) \in S
    BY <1>1
  <2> HIDE DEF S
  <2>2. keys \in [1 .. Len(changes) -> S]
    BY <2>1
  <2>3. QED
    BY <1>1, <2>2, SeqDef
<1> HIDE DEF S, first, wheel, keys
<1>6. first \o wheel \o keys \in Seq(S)
  BY <1>4, <1>5, ConcatProperties
<1>7. msgs \in Seq(S)
  BY <1>2, <1>4, <1>6, AppendProperties
<1> HIDE DEF msgs
<1>8. Len(msgs) \in Nat /\ \A i \in 1 .. Len(msgs) : msgs[i] \in S
  BY <1>7, LenProperties, ElementOfSeq
<1>9. QED
  BY <1>3, <1>8 DEF msgs, changes

LEMMA MouseKeeps ==
    ASSUME IInv, Mouse PROVE IInv'
<1>1. PICK dx \in Offsets, dy \in Offsets, dz \in Wheel, pressed \in SUBSET Range(ButtonsList) :
        Fill(Append(Moves(IF dev = "mouse" THEN "REL" ELSE "ABS", dx, dy, dz,
                          Changed(pressed), pressed), Syn))
  BY DEF Mouse
<1>2. QED
  BY <1>1, MovesAreMessages, FillKeeps, Zenon DEF Changed

LEMMA ResizeKeeps ==
    ASSUME IInv, Resize PROVE IInv'
<1>1. /\ int_status' = int_status \cup {"config"} /\ irq' = 1
      /\ UNCHANGED <<queue, ring, dev, drv, causes, config_read, seen>>
  BY DEF Resize, ram, driver
<1>2. TypeOK' /\ DriverInv'
  BY <1>1 DEF IInv, TypeOK, DriverInv
<1>3. Told'
  <2>1. Told /\ \A q \in QueueId : UsedIdx(q)' = UsedIdx(q)
    BY <1>1, ToldIs DEF IInv, UsedIdx
  <2>2. QED
    BY <1>1, <2>1 DEF Told, Handling, UsedPending, ConfigPending
<1>4. QED
  BY <1>2, <1>3, NextToldIs DEF IInv
-----------------------------------------------------------------------------
(* What the guest sends *)

SendStep(taken, i, e) == IF i \in taken THEN WithEntry(1, e, Head1(i)) ELSE e

\* The used ring after some of the chains; it has changed only if one was taken.
SendInv(taken, i, e) ==
    /\ "idx" \in DOMAIN e /\ e.idx \in Idx
    /\ taken = {} => e = ring[queue[1].used_addr]

Sending ==
    INSTANCE Loops WITH Base <- LAMBDA taken : ring[queue[1].used_addr],
                        Step <- SendStep, Inv <- SendInv

LEMMA SentKeeps ==
    ASSUME TypeOK, NEW taken, NEW n \in Nat
    PROVE  SendInv(taken, n, Sending!After(taken, n)[n])
<1>1. SendInv(taken, 0, ring[queue[1].used_addr])
  <2>1. queue[1].used_addr \in Addr
    BY QueuesAre DEF TypeOK, QueueState
  <2>2. QED
    BY <2>1 DEF TypeOK, SendInv
<1>2. ASSUME NEW i \in 1 .. n, NEW e, SendInv(taken, i - 1, e)
      PROVE  SendInv(taken, i, SendStep(taken, i, e))
  <2>1. CASE i \in taken
    <3> DEFINE r == WithEntry(1, e, Head1(i))
    <3>1. "idx" \in DOMAIN r /\ r.idx = (e.idx + 1) % IdxSize
      BY DEF WithEntry
    <3> HIDE DEF r
    <3>2. r.idx \in Idx
      BY <1>2, <3>1, NextIdx DEF SendInv
    <3>3. SendInv(taken, i, r)
      BY <2>1, <3>1, <3>2 DEF SendInv
    <3>4. QED
      BY <2>1, <3>3 DEF SendStep, r
  <2>2. CASE i \notin taken
    BY <1>2, <2>2 DEF SendInv, SendStep
  <2>3. QED
    BY <2>1, <2>2
<1>3. \A i \in 0 .. n : SendInv(taken, i, Sending!After(taken, n)[i])
  BY <1>1, <1>2, Sending!LoopKeeps
<1>4. n \in 0 .. n
  OBVIOUS
<1>5. QED
  BY <1>3, <1>4

LEMMA NotifyKeeps ==
    ASSUME IInv, Notify PROVE IInv'
<1> DEFINE a == queue[1].used_addr
           n == Pending1
           taken == {i \in 1 .. n : IsTaken(ChainOf(1, Head1(i)))}
           u == Sending!After(taken, n)[n]
<1>1. /\ ring' = [ring EXCEPT ![a] = u]
      /\ queue' = [queue EXCEPT ![1].last_avail_idx = AvailIdx(1)]
      /\ IF taken = {} THEN UNCHANGED <<int_status, irq>>
         ELSE int_status' = int_status \cup {"used"} /\ irq' = 1
      /\ UNCHANGED <<dev, config, drv, causes, config_read, seen>>
  BY DEF Notify, driver, Sending!After, SendStep
<1>2. /\ 1 \in QueueId /\ queue \in [QueueId -> QueueState] /\ a \in Addr
      /\ ring = [b \in Addr |-> ring[b]]
      /\ \A b \in Addr : "idx" \in DOMAIN ring[b] /\ ring[b].idx \in Idx
      /\ AvailIdx(1) \in Idx /\ queue[1].last_avail_idx \in Idx
  BY QueuesAre DEF IInv, TypeOK, QueueState, AvailIdx
<1>3. n \in Nat
  BY <1>2, CountType DEF Pending1, Count, Idx
<1> HIDE DEF n
<1>4. "idx" \in DOMAIN u /\ u.idx \in Idx /\ (taken = {} => u = ring[a])
  <2> HIDE DEF taken
  <2>1. SendInv(taken, n, u)
    BY <1>3, SentKeeps DEF IInv
  <2>2. QED
    BY <2>1 DEF SendInv
<1> HIDE DEF u, taken
<1>5. /\ queue' \in [QueueId -> QueueState]
      /\ \A q \in QueueId : /\ queue'[q].used_addr = queue[q].used_addr
                            /\ queue'[q].avail_addr = queue[q].avail_addr
  BY <1>1, <1>2, SMTT(40) DEF QueueState
<1> HIDE DEF a
<1>6. /\ ring' = [b \in Addr |-> ring'[b]]
      /\ \A b \in Addr : ring'[b] = IF b = a THEN u ELSE ring[b]
  BY <1>1, <1>2
<1>7. TypeOK'
  BY <1>1, <1>2, <1>4, <1>5, <1>6 DEF IInv, TypeOK
<1>8. DriverInv'
  BY <1>1, <1>5 DEF IInv, DriverInv
<1>9. Told'
  <2>1. Told
    BY ToldIs DEF IInv
  <2>2. CASE taken = {}
    <3>1. \A q \in QueueId : queue[q].used_addr \in Addr
      BY <1>2 DEF QueueState
    <3>2. \A q \in QueueId : UsedIdx(q)' = UsedIdx(q)
      BY <1>4, <1>5, <1>6, <2>2, <3>1 DEF UsedIdx
    <3>3. QED
      BY <1>1, <2>1, <2>2, <3>2 DEF Told, Handling, UsedPending, ConfigPending
  <2>3. CASE taken # {}
    BY <1>1, <2>1, <2>3 DEF Told, Handling, UsedPending, ConfigPending
  <2>4. QED
    BY <2>2, <2>3
<1>10. QED
  BY <1>7, <1>8, <1>9, NextToldIs DEF IInv
-----------------------------------------------------------------------------
(* The driver *)

LEMMA SetUpKeeps ==
    ASSUME IInv, SetUp PROVE IInv'
<1>1. /\ ring' = [a \in Addr |-> [idx |-> 0, ring |-> [h \in DescIdx |-> 0]]]
      /\ queue' = [q \in QueueId |->
                     [ready |-> 1, num |-> QueueNum[dev], last_avail_idx |-> 0,
                      desc_addr |-> Layout[q].desc, avail_addr |-> Layout[q].avail,
                      used_addr |-> Layout[q].used]]
      /\ config_read' = config /\ config' = config /\ dev' = dev /\ seen' = seen
      /\ drv = "off" /\ drv' = "run"
  BY DEF SetUp, others
<1>2. 0 \in Idx
  BY VirtioAssumption DEF Idx
<1>3. /\ dev \in Devices /\ seen \in [QueueId -> Idx]
      /\ \A q \in QueueId : seen[q] = 0
  BY <1>1 DEF IInv, TypeOK, DriverInv
<1>4. queue' \in [QueueId -> QueueState]
  <2>1. QueueNum[dev] \in Nat \ {0}
    BY <1>3, HostAssumption
  <2>2. QED
    BY <1>1, <1>2, <2>1, HostAssumption DEF QueueState
<1>5. /\ ring' = [a \in Addr |-> ring'[a]]
      /\ \A a \in Addr : "idx" \in DOMAIN ring'[a] /\ ring'[a].idx = 0
  BY <1>1
<1>6. TypeOK'
  BY <1>1, <1>2, <1>3, <1>4, <1>5 DEF TypeOK
<1>7. DriverInv'
  <2>1. \A q \in QueueId : /\ queue'[q].avail_addr = Layout[q].avail
                           /\ queue'[q].used_addr = Layout[q].used
    BY <1>1
  <2>2. QED
    BY <1>1, <2>1, HostAssumption DEF DriverInv
<1>8. Told'
  <2>1. \A q \in QueueId : queue'[q].used_addr \in Addr
    BY <1>4 DEF QueueState
  <2>2. \A q \in QueueId : UsedIdx(q)' = seen'[q]
    BY <1>1, <1>3, <1>5, <2>1 DEF UsedIdx
  <2>3. QED
    BY <1>1, <2>2 DEF Told
<1>9. QED
  BY <1>6, <1>8, <1>7, NextToldIs DEF IInv

LEMMA ResetKeeps ==
    ASSUME IInv, Reset PROVE IInv'
<1>1. /\ queue' = [q \in QueueId |-> ResetQueue]
      /\ ring' = ring /\ dev' = dev /\ drv' = "off"
      /\ seen' = [q \in QueueId |-> 0]
  BY DEF Reset, WriteStatus, ram, others
<1>2. 0 \in Idx /\ ResetQueue \in QueueState
  BY VirtioAssumption DEF Idx, ResetQueue, QueueState
<1>3. TypeOK' /\ DriverInv'
  BY <1>1, <1>2 DEF IInv, TypeOK, DriverInv
<1>4. Told'
  BY <1>1 DEF Told
<1>5. QED
  BY <1>3, <1>4, NextToldIs DEF IInv

LEMMA PostKeeps ==
    ASSUME IInv, NEW q \in {0, 1}, NEW c, Post(q, c) PROVE IInv'
<1> DEFINE a == queue[q].avail_addr
<1>1. PICK h : ring' = [ring EXCEPT ![a] = WithEntry(q, @, h)]
  BY DEF Post
<1>2. /\ drv = "run"
      /\ UNCHANGED <<int_status, irq, queue, dev, config, drv, causes, config_read, seen>>
  BY DEF Post, registers, others
<1>3. /\ q \in QueueId /\ queue \in [QueueId -> QueueState] /\ a \in Addr
      /\ ring = [b \in Addr |-> ring[b]]
      /\ \A b \in Addr : "idx" \in DOMAIN ring[b] /\ ring[b].idx \in Idx
      /\ \A p \in QueueId : queue[p].used_addr \in Addr /\ queue[p].used_addr # a
  BY <1>2, QueuesAre DEF IInv, TypeOK, DriverInv, QueueState
<1> HIDE DEF a
<1> DEFINE r == WithEntry(q, ring[a], h)
<1>4. "idx" \in DOMAIN r /\ r.idx \in Idx
  <2>1. "idx" \in DOMAIN r /\ r.idx = (ring[a].idx + 1) % IdxSize
    BY DEF WithEntry
  <2> HIDE DEF r
  <2>2. QED
    BY <1>3, <2>1, NextIdx
<1>5. ring' = [b \in Addr |-> IF b = a THEN r ELSE ring[b]]
  BY <1>1, <1>3
<1> HIDE DEF r
<1>6. TypeOK'
  BY <1>2, <1>3, <1>4, <1>5 DEF IInv, TypeOK
<1>7. DriverInv'
  BY <1>2 DEF IInv, DriverInv
<1>8. Told'
  <2>1. Told
    BY ToldIs DEF IInv
  <2>2. \A p \in QueueId : UsedIdx(p)' = UsedIdx(p)
    BY <1>2, <1>3, <1>5 DEF UsedIdx
  <2>3. QED
    BY <1>2, <2>1, <2>2 DEF Told, Handling, UsedPending, ConfigPending
<1>9. QED
  BY <1>6, <1>7, <1>8, NextToldIs DEF IInv

\* The registers of the interrupt leave the rings alone.
LEMMA InterruptKeeps ==
    ASSUME IInv, UNCHANGED <<queue, ring, dev, seen>>, drv # "off", drv' # "off", Told'
    PROVE  IInv'
<1>1. TypeOK' /\ DriverInv'
  BY DEF IInv, TypeOK, DriverInv
<1>2. QED
  BY <1>1, NextToldIs DEF IInv

LEMMA ReadCausesKeeps ==
    ASSUME IInv, ReadCauses PROVE IInv'
<1>1. /\ drv = "run" /\ drv' = "ack" /\ causes' = int_status
      /\ UNCHANGED <<queue, ring, dev, seen, config, config_read, int_status, irq>>
  BY DEF ReadCauses, virtioVars, registers, ram, others
<1>2. Told'
  <2>1. Told
    BY ToldIs DEF IInv
  <2>2. QED
    BY <1>1, <2>1 DEF Told, Handling, UsedPending, ConfigPending
<1>3. QED
  BY <1>1, <1>2, InterruptKeeps

\* A size that came after the driver's read of the causes stays pending.
LEMMA AcknowledgeKeeps ==
    ASSUME IInv, Acknowledge PROVE IInv'
<1>1. /\ drv = "ack" /\ drv' = "scan"
      /\ int_status' = int_status \ causes
      /\ irq' = IF int_status' = {} THEN 0 ELSE irq
      /\ UNCHANGED <<queue, ring, dev, seen, config, config_read, causes>>
  BY DEF Acknowledge, InterruptAck, ram, others
<1>2. Told'
  <2>1. Told
    BY ToldIs DEF IInv
  <2>2. config # config_read /\ "config" \notin causes => ConfigPending'
    BY <1>1, <2>1 DEF Told, Handling, ConfigPending
  <2>3. QED
    BY <1>1, <2>2 DEF Told, Handling
<1>3. QED
  BY <1>1, <1>2, InterruptKeeps

LEMMA AcknowledgePCIKeeps ==
    ASSUME IInv, AcknowledgePCI PROVE IInv'
<1>1. /\ drv = "run" /\ drv' = "scan" /\ causes' = int_status
      /\ UNCHANGED <<queue, ring, dev, seen, config, config_read>>
  BY DEF AcknowledgePCI, ReadISR, ram, others
<1>2. Told'
  <2>1. Told
    BY ToldIs DEF IInv
  <2>2. QED
    BY <1>1, <2>1 DEF Told, Handling, UsedPending, ConfigPending
<1>3. QED
  BY <1>1, <1>2, InterruptKeeps

LEMMA ScanKeeps ==
    ASSUME IInv, Scan PROVE IInv'
<1>1. /\ drv = "scan" /\ drv' = "run"
      /\ seen' = [q \in QueueId |-> UsedIdx(q)]
      /\ ring' = [a \in Addr |->
                    IF \E q \in QueueId : a = queue[q].used_addr
                    THEN [ring[a] EXCEPT !.ring = [h \in DescIdx |-> 0]] ELSE ring[a]]
      /\ config_read' = IF "config" \in causes THEN config ELSE config_read
      /\ UNCHANGED <<int_status, irq, queue, dev, config>>
  BY DEF Scan, UsedIdx, registers
<1>2. /\ queue \in [QueueId -> QueueState]
      /\ \A a \in Addr : "idx" \in DOMAIN ring[a] /\ ring[a].idx \in Idx
      /\ \A q \in QueueId : queue[q].used_addr \in Addr
  BY DEF IInv, TypeOK, QueueState
<1>3. /\ ring' = [a \in Addr |-> ring'[a]]
      /\ \A a \in Addr : "idx" \in DOMAIN ring'[a] /\ ring'[a].idx = ring[a].idx
  BY <1>1, <1>2
<1>4. \A q \in QueueId : UsedIdx(q)' = seen'[q] /\ UsedIdx(q) \in Idx
  BY <1>1, <1>2, <1>3 DEF UsedIdx
<1>5. TypeOK'
  BY <1>1, <1>2, <1>3, <1>4 DEF IInv, TypeOK
<1>6. DriverInv'
  BY <1>1 DEF IInv, DriverInv
<1>7. Told'
  <2>1. Told
    BY ToldIs DEF IInv
  <2>2. QED
    BY <1>1, <1>4, <2>1 DEF Told, ConfigPending
<1>8. QED
  BY <1>5, <1>6, <1>7, NextToldIs DEF IInv
-----------------------------------------------------------------------------
LEMMA InitIInv == Init => IInv
<1> SUFFICES ASSUME Init PROVE IInv
  OBVIOUS
<1>1. 0 \in Idx /\ ResetQueue \in QueueState
  BY VirtioAssumption DEF Idx, ResetQueue, QueueState
<1>2. TypeOK
  BY <1>1 DEF Init, VirtioInit, TypeOK
<1>3. DriverInv /\ HostIsSignalled
  BY DEF Init, DriverInv, HostIsSignalled
<1>4. QED
  BY <1>2, <1>3 DEF IInv

LEMMA StepIInv == IInv /\ [Next]_vars => IInv'
<1> SUFFICES ASSUME IInv, [Next]_vars PROVE IInv'
  OBVIOUS
<1>1. CASE Packet \/ Typed \/ Resize \/ Key \/ Mouse
  BY <1>1, PacketKeeps, TypedKeeps, ResizeKeeps, KeyKeeps, MouseKeeps
<1>2. CASE SetUp \/ Reset \/ Notify
  BY <1>2, SetUpKeeps, ResetKeeps, NotifyKeeps
<1>3. CASE \E c \in Buffers[dev] : Post(0, c)
  BY <1>3, PostKeeps
<1>4. CASE \E c \in Sent[dev] : Post(1, c)
  BY <1>4, PostKeeps
<1>5. CASE ReadCauses \/ Acknowledge \/ AcknowledgePCI \/ Scan
  BY <1>5, ReadCausesKeeps, AcknowledgeKeeps, AcknowledgePCIKeeps, ScanKeeps
<1>6. CASE UNCHANGED vars
  <2>1. UNCHANGED <<queue, ring, dev, seen, drv, int_status, irq, config, config_read, causes>>
    BY <1>6 DEF vars, virtioVars, registers, ram, driver
  <2>2. TypeOK' /\ DriverInv'
    BY <2>1 DEF IInv, TypeOK, DriverInv
  <2>3. Told' <=> Told
    BY <2>1 DEF Told, Handling, UsedPending, ConfigPending, UsedIdx
  <2>4. QED
    BY <2>2, <2>3, ToldIs, NextToldIs DEF IInv
<1>7. QED
  BY <1>1, <1>2, <1>3, <1>4, <1>5, <1>6 DEF Next, Driver

\* The queues, the indices of the rings and what the driver has seen of them
\* keep to their ranges (virtio_mmio_write, virtio_consume_desc).
THEOREM TypesHold == Spec => []TypeOK
<1>1. IInv => TypeOK
  BY DEF IInv
<1>2. QED
  BY <1>1, InitIInv, StepIInv, PTL DEF Spec

\* The interrupt that tells the driver of a used buffer, or of a new size of
\* the console, is never lost: neither to the calls of the host that come
\* between the driver's read of the causes and its acknowledgement, nor to
\* those between that and its look at the rings (virtio_consume_desc,
\* virtio_config_change_notify, INTERRUPT_ACK).
THEOREM HostIsAlwaysSignalled == Spec => []HostIsSignalled
<1>1. IInv => HostIsSignalled
  BY DEF IInv
<1>2. QED
  BY <1>1, InitIInv, StepIInv, PTL DEF Spec
-----------------------------------------------------------------------------
(* What queue 0 holds for the driver.  A view of it is a value, so that the  *)
(* loop of a call and the steps of the program are reasoned about alike.     *)

View(e) == [num   |-> queue[0].num, from |-> seen[0], own |-> owned[0],
            avail |-> ring[queue[0].avail_addr], table |-> desc[queue[0].desc_addr],
            last  |-> e.last, used |-> e.used, len |-> e.len, data |-> e.data]

\* The chains that the device has used and the driver has not read, and those
\* that it has not used yet: the heads of both, first the oldest.
UsedCount(v) == Count(v.from, v.used.idx)
AvailCount(v) == Count(v.last, v.avail.idx)
Total(v) == UsedCount(v) + AvailCount(v)
UsedSlot(v, i) == (v.from + i - 1) % v.num
AvailSlot(v, i) == (v.last + i - 1) % v.num
HeadAt(v, i) == IF i <= UsedCount(v) THEN v.used.ring[UsedSlot(v, i)]
                ELSE v.avail.ring[AvailSlot(v, i - UsedCount(v))]

CellsOf(v, h) == WritableCells(v.table[h])
MessageAt(v, i) ==
    [j \in 1 .. v.len[UsedSlot(v, i)] |-> v.data[CellsOf(v, HeadAt(v, i))[j]]]
Messages(v) == [i \in 1 .. UsedCount(v) |-> MessageAt(v, i)]

Zone(h) == h * MaxCells .. ((h + 1) * MaxCells) - 1

ViewType(v) ==
    /\ v.num \in 1 .. MaxQueueNum /\ IdxSize % v.num = 0
    /\ v.from \in Idx /\ v.last \in Idx
    /\ v.avail \in Ring /\ v.used \in Ring
    /\ v.len \in [DescIdx -> Nat]
    /\ v.data = [x \in Cell |-> v.data[x]]
    /\ v.own \subseteq DescIdx
    /\ Cardinality(v.own) <= v.num /\ Cardinality(v.own) < IdxSize

\* They are all the driver's, and none is there twice.
HeadsInv(v) ==
    /\ \A i \in 1 .. Total(v) : HeadAt(v, i) \in v.own
    /\ \A i, j \in 1 .. Total(v) : HeadAt(v, i) = HeadAt(v, j) => i = j

\* The buffers of a chain are in cells of its own, and hold what was put there.
CellsInv(v) == \A h \in v.own : CellsOf(v, h) \in Seq(Zone(h)) /\ Increasing(CellsOf(v, h))
LensInv(v) ==
    \A i \in 1 .. UsedCount(v) : v.len[UsedSlot(v, i)] <= Len(CellsOf(v, HeadAt(v, i)))

ViewInv(v) == ViewType(v) /\ HeadsInv(v) /\ CellsInv(v) /\ LensInv(v)

LEMMA ViewCounts ==
    ASSUME NEW v, ViewType(v)
    PROVE  /\ v.used.idx \in Idx /\ v.avail.idx \in Idx
           /\ v.used.ring \in [DescIdx -> DescIdx] /\ v.avail.ring \in [DescIdx -> DescIdx]
           /\ UsedCount(v) \in Nat /\ AvailCount(v) \in Nat /\ Total(v) \in Nat
           /\ v.num \in Nat \ {0} /\ v.from \in Nat /\ v.last \in Nat
<1>1. /\ v.used.idx \in Idx /\ v.avail.idx \in Idx
      /\ v.used.ring \in [DescIdx -> DescIdx] /\ v.avail.ring \in [DescIdx -> DescIdx]
  BY DEF ViewType, Ring
<1>2. UsedCount(v) \in Idx /\ AvailCount(v) \in Idx
  BY <1>1, CountType DEF ViewType, UsedCount, AvailCount
<1>3. v.num \in Nat \ {0} /\ v.from \in Nat /\ v.last \in Nat
  BY VirtioAssumption DEF ViewType, Idx
<1>4. QED
  BY <1>1, <1>2, <1>3 DEF Idx, Total

LEMMA ViewSlots ==
    ASSUME NEW v, ViewType(v), NEW i \in Nat \ {0}
    PROVE  UsedSlot(v, i) \in DescIdx /\ AvailSlot(v, i) \in DescIdx
<1> DEFINE n == v.num
           x == v.from + i - 1
           y == v.last + i - 1
<1>1. n \in Nat \ {0} /\ n <= MaxQueueNum /\ x \in Nat /\ y \in Nat
  BY ViewCounts DEF ViewType
<1>2. UsedSlot(v, i) = x % n /\ AvailSlot(v, i) = y % n
  BY DEF UsedSlot, AvailSlot
<1> HIDE DEF n, x, y
<1>3. x % n \in 0 .. n - 1 /\ y % n \in 0 .. n - 1
  BY <1>1, DivMod
<1>4. QED
  BY <1>1, <1>2, <1>3, VirtioAssumption DEF DescIdx

LEMMA AvailHead ==
    ASSUME NEW v, ViewType(v), NEW k \in Nat \ {0}
    PROVE  HeadAt(v, UsedCount(v) + k) = v.avail.ring[AvailSlot(v, k)]
<1> DEFINE u == UsedCount(v)
<1>1. u \in Nat
  BY ViewCounts
<1> HIDE DEF u
<1>2. \A i : ~(i <= u) => HeadAt(v, i) = v.avail.ring[AvailSlot(v, i - u)]
  BY DEF HeadAt, u
<1> DEFINE i == u + k
           l == i - u
<1>3. ~(i <= u) /\ l = k
  BY <1>1
<1> HIDE DEF i
<1>4. HeadAt(v, i) = v.avail.ring[AvailSlot(v, l)]
  BY <1>2, <1>3, Zenon
<1> HIDE DEF l
<1>5. HeadAt(v, i) = v.avail.ring[AvailSlot(v, k)]
  BY <1>3, <1>4, Zenon
<1>6. QED
  BY <1>5 DEF i, u

\* There are no more of them than the driver has given.
LEMMA HeadsFit ==
    ASSUME NEW v, ViewType(v), HeadsInv(v)
    PROVE  /\ IsFiniteSet(v.own) /\ Cardinality(v.own) \in Nat
           /\ Total(v) <= Cardinality(v.own)
<1> DEFINE n == Total(v)
           f == [i \in 1 .. n |-> HeadAt(v, i)]
<1>1. n \in Nat
  BY ViewCounts
<1>2. IsFiniteSet(v.own)
  <2>1. v.own \subseteq DescIdx
    BY DEF ViewType
  <2>2. MaxQueueNum - 1 \in Int /\ 0 \in Int
    BY VirtioAssumption
  <2>3. IsFiniteSet(DescIdx)
    BY <2>2, FS_Interval DEF DescIdx
  <2>4. QED
    BY <2>1, <2>3, FS_Subset
<1>3. Cardinality(v.own) \in Nat
  BY <1>2, FS_CardinalityType
<1>4. f \in [1 .. n -> v.own] /\ \A i, j \in 1 .. n : f[i] = f[j] => i = j
  BY DEF HeadsInv
<1> HIDE DEF n, f
<1>5. IsFiniteSet(1 .. n) /\ Cardinality(1 .. n) = n
  BY <1>1, FS_Interval
<1>6. ~(Cardinality(v.own) < Cardinality(1 .. n))
  <2> DEFINE S == 1 .. n
  <2> HIDE DEF S
  <2>1. SUFFICES ASSUME Cardinality(v.own) < Cardinality(S) PROVE FALSE
    BY DEF S
  <2>2. IsFiniteSet(S) /\ f \in [S -> v.own] /\ \A i, j \in S : f[i] = f[j] => i = j
    BY <1>4, <1>5 DEF S
  <2>3. \E x, y \in S : x # y /\ f[x] = f[y]
    BY <1>2, <2>1, <2>2, FS_PigeonHole
  <2>4. QED
    BY <2>2, <2>3
<1>7. QED
  BY <1>1, <1>2, <1>3, <1>5, <1>6 DEF n

\* Unread entries are in slots of their own, and the next goes to another.
LEMMA SlotsApart ==
    ASSUME NEW v, ViewType(v), HeadsInv(v), NEW i \in 1 .. Total(v), NEW j \in 1 .. Total(v), i < j
    PROVE  UsedSlot(v, i) # UsedSlot(v, j)
<1> DEFINE x == v.from + i - 1
           y == v.from + j - 1
           n == v.num
<1>1. Total(v) <= n /\ n \in Nat \ {0} /\ v.from \in Nat /\ Total(v) \in Nat
  BY HeadsFit, ViewCounts DEF ViewType
<1>2. x \in Nat /\ y \in Nat /\ x < y /\ y < x + n
  BY <1>1
<1> HIDE DEF x, y, n
<1>3. x % n # y % n
  BY <1>1, <1>2, ModsDiffer
<1>4. QED
  BY <1>3 DEF UsedSlot, x, y, n

LEMMA NextSlot ==
    ASSUME NEW v, ViewType(v)
    PROVE  /\ v.used.idx % v.num = UsedSlot(v, UsedCount(v) + 1)
           /\ v.avail.idx % v.num = AvailSlot(v, AvailCount(v) + 1)
<1> DEFINE n == v.num
           a == v.from
           b == v.used.idx
           c == v.last
           d == v.avail.idx
           k == Count(a, b)
           l == Count(c, d)
<1>1. n \in Nat \ {0} /\ IdxSize % n = 0 /\ a \in Idx /\ b \in Idx /\ c \in Idx /\ d \in Idx
  BY ViewCounts DEF ViewType
<1>2. a \in Nat /\ c \in Nat /\ k \in Nat /\ l \in Nat
  BY ViewCounts DEF UsedCount, AvailCount
<1>3. UsedSlot(v, UsedCount(v) + 1) = (a + (k + 1) - 1) % n
  BY DEF UsedSlot, UsedCount
<1>4. AvailSlot(v, AvailCount(v) + 1) = (c + (l + 1) - 1) % n
  BY DEF AvailSlot, AvailCount
<1>5. a + (k + 1) - 1 = a + k /\ c + (l + 1) - 1 = c + l
  BY <1>2
<1> HIDE DEF a, b, c, d, n
<1>6. b % n = (a + Count(a, b)) % n /\ d % n = (c + Count(c, d)) % n
  BY <1>1, CountSlot
<1>7. QED
  BY <1>3, <1>4, <1>5, <1>6 DEF a, b, c, d, n

LEMMA StillFunction ==
    ASSUME NEW S, NEW T, NEW f \in [S -> T], NEW x \in S, NEW y \in T
    PROVE  [f EXCEPT ![x] = y] \in [S -> T]
  OBVIOUS

\* The cells of chains of different heads are different.
LEMMA ZonesApart ==
    ASSUME NEW h \in DescIdx
    PROVE  /\ Zone(h) \subseteq Cell
           /\ \A g \in DescIdx : h # g => Zone(h) \cap Zone(g) = {}
<1>1. /\ ZoneOf(MaxCells, h) \subseteq Cell
      /\ \A g \in DescIdx : h # g => ZoneOf(MaxCells, h) \cap ZoneOf(MaxCells, g) = {}
  BY BuffersAssumption, ZonesOf
<1>2. QED
  BY <1>1 DEF Zone, ZoneOf

HasLength(f, n) == f = [i \in 1 .. n |-> f[i]]

\* w is what v becomes when buf is put in the chain h.
IsPut(v, w, h, buf) ==
    /\ w.num = v.num /\ w.from = v.from /\ w.own = v.own /\ w.avail = v.avail
    /\ w.table = v.table
    /\ w.last = (v.last + 1) % IdxSize
    /\ w.used = [idx  |-> (v.used.idx + 1) % IdxSize,
                 ring |-> [v.used.ring EXCEPT ![v.used.idx % v.num] = h]]
    /\ w.len = [v.len EXCEPT ![v.used.idx % v.num] = Len(buf)]
    /\ w.data = CopiedTo(v.data, v.table[h], buf)

\* A call that puts a message in the first chain adds it to the messages, and
\* leaves the others and the order of the chains.
LEMMA PutView ==
    ASSUME NEW v, ViewInv(v), AvailCount(v) > 0, NEW w, NEW h, h = HeadAt(v, UsedCount(v) + 1),
           NEW buf, Len(buf) \in Nat, HasLength(buf, Len(buf)), Len(buf) <= Len(CellsOf(v, h)),
           IsPut(v, w, h, buf)
    PROVE  /\ ViewInv(w)
           /\ UsedCount(w) = UsedCount(v) + 1
           /\ \A i \in 1 .. UsedCount(v) : MessageAt(w, i) = MessageAt(v, i)
           /\ MessageAt(w, UsedCount(w)) = buf
<1>0. /\ w.num = v.num /\ w.from = v.from /\ w.own = v.own /\ w.avail = v.avail
      /\ w.table = v.table
      /\ w.last = (v.last + 1) % IdxSize
      /\ w.used = [idx  |-> (v.used.idx + 1) % IdxSize,
                   ring |-> [v.used.ring EXCEPT ![v.used.idx % v.num] = h]]
      /\ w.len = [v.len EXCEPT ![v.used.idx % v.num] = Len(buf)]
      /\ w.data = CopiedTo(v.data, v.table[h], buf)
  BY DEF IsPut
<1> USE <1>0
<1> DEFINE u == UsedCount(v)
           a == AvailCount(v)
           s == v.used.idx % v.num
           K == CellsOf(v, h)
<1>1. ViewType(v) /\ HeadsInv(v) /\ CellsInv(v) /\ LensInv(v)
  BY DEF ViewInv
<1>2. /\ u \in Nat /\ a \in Nat \ {0} /\ Total(v) = u + a
      /\ v.used.idx \in Idx /\ v.avail.idx \in Idx /\ v.from \in Idx /\ v.last \in Idx
      /\ v.used.ring \in [DescIdx -> DescIdx] /\ v.len \in [DescIdx -> Nat]
      /\ v.own \subseteq DescIdx /\ v.num \in Nat \ {0} /\ IdxSize % v.num = 0
  BY <1>1, ViewCounts DEF ViewType, Total
<1>3. u + a < IdxSize
  <2>1. Total(v) <= Cardinality(v.own) /\ Cardinality(v.own) < IdxSize /\ Cardinality(v.own) \in Nat
    BY <1>1, HeadsFit DEF ViewType
  <2> HIDE DEF u, a
  <2>2. QED
    BY <1>2, <2>1, VirtioAssumption
<1>4. s = UsedSlot(v, u + 1) /\ s \in DescIdx
  BY <1>1, <1>2, NextSlot, ViewSlots
<1>5. h \in v.own /\ h \in DescIdx /\ h = v.avail.ring[AvailSlot(v, 1)]
  <2> HIDE DEF u, a, s, K
  <2>1. u + 1 \in 1 .. Total(v)
    BY <1>2
  <2>2. h = v.avail.ring[AvailSlot(v, 1)]
    BY <1>1, AvailHead
  <2>3. HeadAt(v, u + 1) \in v.own
    BY <1>1, <2>1 DEF HeadsInv
  <2>4. h \in v.own
    BY <2>3 DEF u
  <2>5. QED
    BY <1>2, <2>1, <2>2, <2>4
<1>6. w.used.idx = (v.used.idx + 1) % IdxSize /\ w.used.ring = [v.used.ring EXCEPT ![s] = h]
  OBVIOUS
<1>7. UsedCount(w) = u + 1
  <2>1. Count(v.from, v.used.idx) + 1 < IdxSize
    BY <1>2, <1>3, VirtioAssumption DEF UsedCount
  <2>2. QED
    BY <1>2, <1>6, <2>1, CountMore DEF UsedCount
<1>8. AvailCount(w) = a - 1
  <2>1. v.last # v.avail.idx
    <3>1. Count(v.last, v.avail.idx) # 0
      BY <1>2 DEF AvailCount
    <3>2. QED
      BY <1>2, <3>1, CountIs, VirtioAssumption DEF Idx
  <2>2. QED
    BY <1>2, <2>1, CountLess DEF AvailCount
<1>9. Total(w) = Total(v)
  BY <1>2, <1>7, <1>8 DEF Total
<1>10. \A i \in Nat : UsedSlot(w, i) = UsedSlot(v, i)
  BY DEF UsedSlot
<1>11. ASSUME NEW i \in 1 .. u PROVE UsedSlot(v, i) # s
  <2>1. i \in 1 .. Total(v) /\ u + 1 \in 1 .. Total(v) /\ i < u + 1
    BY <1>2
  <2>2. QED
    BY <1>1, <1>4, <2>1, SlotsApart
<1>12. ASSUME NEW i \in 1 .. Total(v) PROVE HeadAt(w, i) = HeadAt(v, i)
  <2>0. i \in Nat \ {0} /\ UsedSlot(v, i) \in DescIdx
    BY <1>1, ViewSlots
  <2>1. CASE i <= u
    <3>1. i \in 1 .. u /\ i <= u + 1
      BY <1>2, <2>1
    <3>2. w.used.ring[UsedSlot(v, i)] = v.used.ring[UsedSlot(v, i)]
      BY <1>2, <1>6, <1>11, <2>0, <3>1
    <3>3. QED
      BY <1>7, <1>10, <2>0, <2>1, <3>1, <3>2 DEF HeadAt
  <2>2. CASE i = u + 1
    <3>1. w.used.ring[s] = h
      BY <1>2, <1>4, <1>6
    <3>2. HeadAt(w, i) = w.used.ring[UsedSlot(w, i)]
      BY <1>2, <1>7, <2>2 DEF HeadAt
    <3>3. QED
      BY <1>4, <1>10, <2>0, <2>2, <3>1, <3>2
  <2>3. CASE i > u + 1
    <3> DEFINE n == v.num
               l == v.last
               k == i - u
               x == ((l + 1) % IdxSize) + (k - 1) - 1
               y == l + k - 1
    <3>1. k \in Nat /\ k > 1 /\ ~(i <= u) /\ ~(i <= u + 1) /\ i - (u + 1) = k - 1
      BY <1>2, <2>3, SMTT(40)
    <3>2. l \in Idx /\ l \in Nat /\ n \in Nat \ {0} /\ IdxSize % n = 0
      BY <1>2, VirtioAssumption DEF Idx
    <3>3. HeadAt(v, i) = v.avail.ring[y % n]
      BY <3>1, SMTT(40) DEF HeadAt, AvailSlot
    <3>4. HeadAt(w, i) = v.avail.ring[x % n]
      BY <1>7, <3>1 DEF HeadAt, AvailSlot
    <3> HIDE DEF k, l, n
    <3>5. /\ (l + 1) % IdxSize = IF l = IdxSize - 1 THEN 0 ELSE l + 1
          /\ (l + 1) % IdxSize \in Nat
      BY <3>2, NextIdx DEF Idx
    <3>6. x \in Nat /\ y \in Nat /\ x \in {y, y + IdxSize, y - IdxSize}
      <4> DEFINE m == (l + 1) % IdxSize
      <4>1. m = (IF l = IdxSize - 1 THEN 0 ELSE l + 1) /\ m \in Nat
        BY <3>5
      <4>2. x = m + (k - 1) - 1
        OBVIOUS
      <4> HIDE DEF m, x
      <4>3. QED
        BY <3>1, <3>2, <4>1, <4>2, VirtioAssumption
    <3> HIDE DEF x, y
    <3>7. x % n = y % n
      BY <3>2, <3>6, ModWraps
    <3>8. QED
      BY <3>3, <3>4, <3>7
  <2>4. QED
    BY <1>2, <2>0, <2>1, <2>2, <2>3
<1>13. \A g : CellsOf(w, g) = CellsOf(v, g)
  BY DEF CellsOf
<1>14. /\ K \in Seq(Zone(h)) /\ Increasing(K) /\ Len(K) \in Nat
       /\ \A j \in 1 .. Len(K) : K[j] \in Zone(h) /\ K[j] \in Cell
  <2>1. K \in Seq(Zone(h)) /\ Increasing(K)
    BY <1>1, <1>5 DEF CellsInv
  <2>2. Zone(h) \subseteq Cell
    BY <1>5, ZonesApart
  <2> HIDE DEF K
  <2>3. Len(K) \in Nat /\ \A j \in 1 .. Len(K) : K[j] \in Zone(h)
    BY <2>1
  <2>4. QED
    BY <2>1, <2>2, <2>3
<1>15. /\ w.data = [x \in Cell |-> w.data[x]]
       /\ \A j \in 1 .. Len(buf) : w.data[K[j]] = buf[j]
       /\ \A x \in Cell : (\A j \in 1 .. Len(K) : x # K[j]) => w.data[x] = v.data[x]
  <2> DEFINE c == v.table[h]
  <2>1. K = WritableCells(c)
    BY DEF CellsOf
  <2>2. Len(buf) <= Len(K)
    OBVIOUS
  <2> HIDE DEF K, c
  <2>3. w.data = CopiedTo(v.data, c, buf)
    BY DEF c
  <2> DEFINE m == w.data
             mem == v.data
  <2>4. m = CopiedTo(mem, c, buf)
    BY <2>3
  <2> HIDE DEF m, mem
  <2>5. /\ m = [x \in Cell |-> m[x]]
        /\ \A j \in 1 .. Len(buf) : m[K[j]] = buf[j]
        /\ \A x \in Cell : (\A j \in 1 .. Len(K) : x # K[j]) => m[x] = mem[x]
    BY <1>14, <2>1, <2>2, <2>4, CopyIs
  <2>6. QED
    BY <2>5 DEF m, mem
<1> HIDE DEF u, a, s, K
<1>16. /\ w.len[s] = Len(buf) /\ w.len \in [DescIdx -> Nat]
       /\ \A r \in DescIdx : r # s => w.len[r] = v.len[r]
  BY <1>2, <1>4 DEF s
<1>17. ViewType(w)
  <2>1. w.used.idx \in Idx /\ w.last \in Idx
    BY <1>2, <1>6, NextIdx
  <2>2. w.used.ring \in [DescIdx -> DescIdx]
    <3> DEFINE f == v.used.ring
    <3>1. f \in [DescIdx -> DescIdx]
      BY <1>2
    <3>2. w.used.ring = [f EXCEPT ![s] = h]
      BY <1>6
    <3> HIDE DEF f
    <3>3. [f EXCEPT ![s] = h] \in [DescIdx -> DescIdx]
      BY <1>4, <1>5, <3>1, StillFunction, Zenon
    <3>4. QED
      BY <3>2, <3>3, Zenon
  <2>3. w.used \in Ring
    BY <2>1, <2>2 DEF Ring
  <2>4. QED
    BY <1>1, <1>15, <1>16, <2>1, <2>3 DEF ViewType
<1>18. HeadsInv(w)
  BY <1>1, <1>9, <1>12 DEF HeadsInv
<1>19. CellsInv(w)
  BY <1>1, <1>13 DEF CellsInv
<1>20. ASSUME NEW i \in 1 .. u
       PROVE  /\ UsedSlot(v, i) \in DescIdx /\ w.len[UsedSlot(v, i)] = v.len[UsedSlot(v, i)]
              /\ HeadAt(w, i) = HeadAt(v, i) /\ HeadAt(v, i) \in v.own /\ HeadAt(v, i) # h
  <2>1. i \in 1 .. Total(v) /\ u + 1 \in 1 .. Total(v) /\ i # u + 1 /\ i \in Nat \ {0}
    BY <1>2
  <2>2. HeadAt(v, i) \in v.own /\ HeadAt(v, i) # h
    BY <1>1, <2>1 DEF HeadsInv, u
  <2>3. UsedSlot(v, i) \in DescIdx
    BY <1>1, <2>1, ViewSlots
  <2>4. QED
    BY <1>11, <1>12, <1>16, <2>1, <2>2, <2>3
<1>21. /\ u + 1 \in 1 .. Total(v) /\ UsedSlot(w, u + 1) = s
       /\ HeadAt(w, u + 1) = h
  <2>1. u + 1 \in 1 .. Total(v)
    BY <1>2
  <2>2. HeadAt(w, u + 1) = h
    BY <1>12, <2>1 DEF u
  <2>3. QED
    BY <1>2, <1>4, <1>10, <2>1, <2>2
<1>22. LensInv(w)
  <2>1. ASSUME NEW i \in 1 .. u + 1
        PROVE  w.len[UsedSlot(w, i)] <= Len(CellsOf(w, HeadAt(w, i)))
    <3>1. CASE i \in 1 .. u
      BY <1>1, <1>10, <1>13, <1>20, <3>1 DEF LensInv, u
    <3>2. CASE i = u + 1
      BY <1>13, <1>16, <1>21, <3>2
    <3>3. QED
      BY <1>2, <3>1, <3>2
  <2>2. QED
    BY <1>7, <2>1 DEF LensInv
<1>23. ASSUME NEW i \in 1 .. u PROVE MessageAt(w, i) = MessageAt(v, i)
  <2> DEFINE g == HeadAt(v, i)
             C == CellsOf(v, g)
             n == v.len[UsedSlot(v, i)]
  <2>1. g \in v.own /\ g # h /\ n \in Nat /\ n <= Len(C) /\ g \in DescIdx
    BY <1>1, <1>2, <1>20 DEF LensInv, u
  <2>2. C \in Seq(Zone(g))
    BY <1>1, <2>1 DEF CellsInv
  <2>3. /\ MessageAt(v, i) = [j \in 1 .. n |-> v.data[C[j]]]
        /\ MessageAt(w, i) = [j \in 1 .. n |-> w.data[C[j]]]
    BY <1>10, <1>13, <1>20 DEF MessageAt
  <2> HIDE DEF g, C, n
  <2>4. ASSUME NEW j \in 1 .. n PROVE w.data[C[j]] = v.data[C[j]]
    <3>1. Len(C) \in Nat /\ j \in 1 .. Len(C)
      BY <2>1, <2>2
    <3>2. C[j] \in Zone(g)
      BY <2>2, <3>1
    <3>3. Zone(g) \subseteq Cell /\ Zone(g) \cap Zone(h) = {}
      BY <1>5, <2>1, ZonesApart
    <3>4. QED
      BY <1>14, <1>15, <3>2, <3>3
  <2>5. QED
    BY <2>3, <2>4
<1>24. MessageAt(w, u + 1) = buf
  <2>1. MessageAt(w, u + 1) = [j \in 1 .. Len(buf) |-> w.data[K[j]]]
    BY <1>13, <1>16, <1>21 DEF MessageAt, K
  <2>2. QED
    BY <1>15, <2>1 DEF HasLength
<1>25. QED
  BY <1>7, <1>17, <1>18, <1>19, <1>22, <1>23, <1>24 DEF ViewInv, u

\* w is what v becomes when the driver makes the chain h available.
IsPost(v, w, h) ==
    /\ w.num = v.num /\ w.from = v.from /\ w.last = v.last /\ w.used = v.used
    /\ w.len = v.len /\ w.data = v.data /\ w.own = v.own \cup {h}
    /\ w.avail = [idx  |-> (v.avail.idx + 1) % IdxSize,
                  ring |-> [v.avail.ring EXCEPT ![v.avail.idx % v.num] = h]]
    /\ \A g \in v.own : w.table[g] = v.table[g]
    /\ WritableCells(w.table[h]) \in Seq(Zone(h)) /\ Increasing(WritableCells(w.table[h]))

\* A chain that the driver makes available comes after the others.
LEMMA PostView ==
    ASSUME NEW v, ViewInv(v), NEW h \in DescIdx, h \notin v.own,
           Cardinality(v.own) < v.num, Cardinality(v.own) + 1 < IdxSize,
           NEW w, IsPost(v, w, h)
    PROVE  /\ ViewInv(w)
           /\ UsedCount(w) = UsedCount(v)
           /\ \A i \in 1 .. UsedCount(v) : MessageAt(w, i) = MessageAt(v, i)
<1>0. /\ w.num = v.num /\ w.from = v.from /\ w.last = v.last /\ w.used = v.used
      /\ w.len = v.len /\ w.data = v.data /\ w.own = v.own \cup {h}
      /\ w.avail = [idx  |-> (v.avail.idx + 1) % IdxSize,
                    ring |-> [v.avail.ring EXCEPT ![v.avail.idx % v.num] = h]]
      /\ \A g \in v.own : w.table[g] = v.table[g]
      /\ WritableCells(w.table[h]) \in Seq(Zone(h)) /\ Increasing(WritableCells(w.table[h]))
  BY DEF IsPost
<1> USE <1>0
<1> DEFINE u == UsedCount(v)
           a == AvailCount(v)
           s == v.avail.idx % v.num
<1>1. ViewType(v) /\ HeadsInv(v) /\ CellsInv(v) /\ LensInv(v)
  BY DEF ViewInv
<1>2. /\ u \in Nat /\ a \in Nat /\ Total(v) = u + a
      /\ v.used.idx \in Idx /\ v.avail.idx \in Idx /\ v.last \in Idx /\ v.last \in Nat
      /\ v.avail.ring \in [DescIdx -> DescIdx] /\ v.own \subseteq DescIdx
      /\ v.num \in Nat \ {0}
  BY <1>1, ViewCounts DEF ViewType, Total
<1>3. /\ IsFiniteSet(v.own) /\ Cardinality(v.own) \in Nat
      /\ u + a < v.num /\ u + a + 1 < IdxSize
  <2>1. /\ IsFiniteSet(v.own) /\ Cardinality(v.own) \in Nat
        /\ Total(v) <= Cardinality(v.own)
    BY <1>1, HeadsFit
  <2> HIDE DEF u, a
  <2>2. QED
    BY <1>2, <2>1, VirtioAssumption
<1>4. s = AvailSlot(v, a + 1) /\ s \in DescIdx
  BY <1>1, <1>2, NextSlot, ViewSlots
<1>5. /\ w.avail.idx = (v.avail.idx + 1) % IdxSize
      /\ w.avail.ring = [v.avail.ring EXCEPT ![s] = h]
  OBVIOUS
<1>6. UsedCount(w) = u
  BY DEF UsedCount
<1>7. AvailCount(w) = a + 1
  <2>1. Count(v.last, v.avail.idx) + 1 < IdxSize
    <3>1. Count(v.last, v.avail.idx) = a
      BY DEF AvailCount
    <3> HIDE DEF u, a
    <3>2. QED
      BY <1>2, <1>3, <3>1, VirtioAssumption
  <2>2. QED
    BY <1>2, <1>5, <2>1, CountMore DEF AvailCount
<1>8. /\ \A i : UsedSlot(w, i) = UsedSlot(v, i)
      /\ \A i : AvailSlot(w, i) = AvailSlot(v, i)
  BY DEF UsedSlot, AvailSlot
<1> HIDE DEF u, a, s
<1>9. Total(w) = Total(v) + 1
  BY <1>2, <1>6, <1>7 DEF Total
<1>10. ViewType(w)
  <2>1. w.avail.idx \in Idx
    BY <1>2, <1>5, NextIdx
  <2>2. w.avail.ring \in [DescIdx -> DescIdx]
    <3> DEFINE f == v.avail.ring
    <3>1. f \in [DescIdx -> DescIdx]
      BY <1>2
    <3>2. w.avail.ring = [f EXCEPT ![s] = h]
      BY <1>5
    <3> HIDE DEF f
    <3>3. [f EXCEPT ![s] = h] \in [DescIdx -> DescIdx]
      BY <1>4, <3>1, StillFunction, Zenon
    <3>4. QED
      BY <3>2, <3>3, Zenon
  <2>3. w.avail \in Ring
    BY <2>1, <2>2 DEF Ring
  <2>4. Cardinality(w.own) = Cardinality(v.own) + 1
    BY <1>3, FS_AddElement, ZenonT(60)
  <2>5. Cardinality(w.own) <= w.num /\ Cardinality(w.own) < IdxSize
    BY <1>2, <1>3, <2>4, VirtioAssumption
  <2>6. w.own \subseteq DescIdx
    BY <1>2
  <2>7. QED
    BY <1>1, <2>3, <2>5, <2>6 DEF ViewType
<1>11. ASSUME NEW i \in 1 .. Total(v) PROVE HeadAt(w, i) = HeadAt(v, i)
  <2>1. CASE i <= u
    BY <1>6, <1>8, <2>1 DEF HeadAt, u
  <2>2. CASE ~(i <= u)
    <3> DEFINE k == i - u
    <3>1. k \in Nat \ {0} /\ k < a + 1 /\ i = u + k
      BY <1>2, <2>2
    <3> HIDE DEF k
    <3>2. HeadAt(v, i) = v.avail.ring[AvailSlot(v, k)]
      BY <1>1, <3>1, AvailHead DEF u
    <3>3. HeadAt(w, i) = w.avail.ring[AvailSlot(w, k)]
      BY <1>6, <1>10, <3>1, AvailHead, ZenonT(60)
    <3>4. AvailSlot(v, k) \in DescIdx
      BY <1>1, <3>1, ViewSlots
    <3>5. AvailSlot(v, k) # s
      <4> DEFINE n == v.num
                 l == v.last
                 x == l + k - 1
                 y == l + (a + 1) - 1
      <4>1. n \in Nat \ {0} /\ l \in Nat /\ a < n
        BY <1>2, <1>3
      <4> HIDE DEF n, l
      <4>2. x \in Nat /\ y \in Nat /\ x < y /\ y < x + n
        BY <1>2, <3>1, <4>1
      <4> HIDE DEF x, y
      <4>3. x % n # y % n
        BY <4>1, <4>2, ModsDiffer
      <4>4. QED
        BY <1>4, <4>3 DEF AvailSlot, x, y, n, l
    <3>6. QED
      BY <1>2, <1>5, <1>8, <3>2, <3>3, <3>4, <3>5
  <2>3. QED
    BY <2>1, <2>2
<1>12. HeadAt(w, Total(w)) = h
  <2>1. Total(w) = UsedCount(w) + (a + 1) /\ a + 1 \in Nat \ {0}
    BY <1>2, <1>6, <1>9
  <2>2. HeadAt(w, Total(w)) = w.avail.ring[AvailSlot(w, a + 1)]
    <3> DEFINE k == a + 1
    <3>1. k \in Nat \ {0} /\ Total(w) = UsedCount(w) + k
      BY <2>1
    <3> HIDE DEF k
    <3>2. HeadAt(w, UsedCount(w) + k) = w.avail.ring[AvailSlot(w, k)]
      BY <1>10, <3>1, AvailHead
    <3>3. HeadAt(w, Total(w)) = w.avail.ring[AvailSlot(w, k)]
      BY <3>1, <3>2, Zenon
    <3>4. QED
      BY <3>3 DEF k
  <2>3. QED
    BY <1>2, <1>4, <1>5, <1>8, <2>2
<1>13. HeadsInv(w)
  <2>1. ASSUME NEW i \in 1 .. Total(w)
        PROVE  IF i = Total(w) THEN HeadAt(w, i) = h
               ELSE i \in 1 .. Total(v) /\ HeadAt(w, i) = HeadAt(v, i) /\ HeadAt(v, i) \in v.own
    <3>1. Total(v) \in Nat
      BY <1>2
    <3>2. i # Total(w) => i \in 1 .. Total(v)
      BY <1>9, <3>1
    <3>3. QED
      BY <1>1, <1>11, <1>12, <3>2 DEF HeadsInv
  <2>2. \A i \in 1 .. Total(w) : HeadAt(w, i) \in w.own
    BY <2>1
  <2>3. ASSUME NEW i \in 1 .. Total(w), NEW j \in 1 .. Total(w), HeadAt(w, i) = HeadAt(w, j)
        PROVE  i = j
    <3>1. CASE i = Total(w) \/ j = Total(w)
      BY <2>1, <2>3, <3>1
    <3>2. CASE i # Total(w) /\ j # Total(w)
      BY <1>1, <2>1, <2>3, <3>2 DEF HeadsInv
    <3>3. QED
      BY <3>1, <3>2
  <2>4. QED
    BY <2>2, <2>3 DEF HeadsInv
<1>14. \A g \in v.own : CellsOf(w, g) = CellsOf(v, g)
  BY DEF CellsOf
<1>15. CellsInv(w)
  BY <1>1, <1>14 DEF CellsInv, CellsOf
<1>16. \A i \in 1 .. u : i \in 1 .. Total(v) /\ HeadAt(w, i) = HeadAt(v, i) /\ HeadAt(v, i) \in v.own
  <2>1. \A i \in 1 .. u : i \in 1 .. Total(v)
    BY <1>2
  <2>2. QED
    BY <1>1, <1>11, <2>1 DEF HeadsInv
<1>17. LensInv(w)
  BY <1>1, <1>6, <1>8, <1>14, <1>16 DEF LensInv, u
<1>18. \A i \in 1 .. u : MessageAt(w, i) = MessageAt(v, i)
  BY <1>8, <1>14, <1>16 DEF MessageAt
<1>19. QED
  BY <1>6, <1>10, <1>13, <1>15, <1>17, <1>18 DEF ViewInv, u

\* w is what v becomes when the driver has read what is used.
IsScan(v, w) ==
    /\ w.num = v.num /\ w.last = v.last /\ w.avail = v.avail
    /\ w.from = v.used.idx /\ w.used.idx = v.used.idx /\ w.used \in Ring
    /\ w.own = v.own \ {HeadAt(v, i) : i \in 1 .. UsedCount(v)}
    /\ \A h \in w.own : w.table[h] = v.table[h]
    /\ w.len \in [DescIdx -> Nat] /\ w.data = [x \in Cell |-> w.data[x]]

\* When the driver has read what is used, the others are left as they were.
LEMMA ScanView ==
    ASSUME NEW v, ViewInv(v), NEW w, IsScan(v, w) PROVE ViewInv(w) /\ UsedCount(w) = 0
<1>0. /\ w.num = v.num /\ w.last = v.last /\ w.avail = v.avail
      /\ w.from = v.used.idx /\ w.used.idx = v.used.idx /\ w.used \in Ring
      /\ w.own = v.own \ {HeadAt(v, i) : i \in 1 .. UsedCount(v)}
      /\ \A h \in w.own : w.table[h] = v.table[h]
      /\ w.len \in [DescIdx -> Nat] /\ w.data = [x \in Cell |-> w.data[x]]
  BY DEF IsScan
<1> USE <1>0
<1> DEFINE u == UsedCount(v)
           a == AvailCount(v)
<1>1. ViewType(v) /\ HeadsInv(v) /\ CellsInv(v)
  BY DEF ViewInv
<1>2. /\ u \in Nat /\ a \in Nat /\ Total(v) = u + a /\ v.used.idx \in Idx
      /\ v.num \in Nat \ {0} /\ v.own \subseteq DescIdx
  BY <1>1, ViewCounts DEF ViewType, Total
<1>3. UsedCount(w) = 0
  BY <1>2, CountIs, VirtioAssumption DEF UsedCount, Idx
<1>4. AvailCount(w) = a /\ \A i : AvailSlot(w, i) = AvailSlot(v, i)
  BY DEF AvailCount, AvailSlot
<1> HIDE DEF u, a
<1>5. Total(w) = a
  BY <1>2, <1>3, <1>4 DEF Total
<1>6. ViewType(w)
  <2>1. /\ IsFiniteSet(v.own) /\ Cardinality(v.own) \in Nat
        /\ Cardinality(v.own) <= v.num /\ Cardinality(v.own) < IdxSize
    BY <1>1, HeadsFit DEF ViewType
  <2>2. w.own \subseteq v.own
    OBVIOUS
  <2>3. IsFiniteSet(w.own) /\ Cardinality(w.own) <= Cardinality(v.own)
    BY <2>1, <2>2, FS_Subset
  <2>4. Cardinality(w.own) \in Nat
    BY <2>3, FS_CardinalityType
  <2>5. Cardinality(w.own) <= w.num /\ Cardinality(w.own) < IdxSize
    BY <1>2, <2>1, <2>3, <2>4, VirtioAssumption
  <2>6. w.own \subseteq DescIdx
    BY <1>2, <2>2
  <2>7. QED
    BY <1>1, <1>2, <2>5, <2>6 DEF ViewType
<1>7. ASSUME NEW i \in 1 .. a
      PROVE  /\ u + i \in 1 .. Total(v) /\ HeadAt(w, i) = HeadAt(v, u + i)
             /\ HeadAt(v, u + i) \in w.own
  <2>1. i \in Nat \ {0} /\ u + i \in 1 .. Total(v)
    BY <1>2
  <2>2. HeadAt(v, u + i) = v.avail.ring[AvailSlot(v, i)]
    BY <1>1, <2>1, AvailHead DEF u
  <2>3. HeadAt(w, i) = w.avail.ring[AvailSlot(w, i)]
    <3>1. HeadAt(w, UsedCount(w) + i) = w.avail.ring[AvailSlot(w, i)]
      BY <1>6, <2>1, AvailHead
    <3>2. UsedCount(w) + i = i
      BY <1>3, <2>1
    <3>3. QED
      BY <3>1, <3>2, Zenon
  <2>4. HeadAt(v, u + i) \in v.own
    BY <1>1, <2>1 DEF HeadsInv
  <2>5. ASSUME NEW j \in 1 .. u PROVE HeadAt(v, j) # HeadAt(v, u + i)
    <3>1. j \in 1 .. Total(v) /\ j # u + i
      BY <1>2, <2>1
    <3>2. QED
      BY <1>1, <2>1, <3>1 DEF HeadsInv
  <2>6. QED
    BY <1>4, <2>1, <2>2, <2>3, <2>4, <2>5 DEF u
<1>8. HeadsInv(w)
  <2>1. ASSUME NEW i \in 1 .. a, NEW j \in 1 .. a, HeadAt(w, i) = HeadAt(w, j) PROVE i = j
    <3>1. HeadAt(v, u + i) = HeadAt(v, u + j) /\ u + i \in 1 .. Total(v) /\ u + j \in 1 .. Total(v)
      BY <1>7, <2>1
    <3>2. u + i = u + j
      BY <1>1, <3>1 DEF HeadsInv
    <3>3. QED
      BY <1>2, <3>2
  <2>2. QED
    BY <1>5, <1>7, <2>1 DEF HeadsInv
<1>9. CellsInv(w)
  BY <1>1 DEF CellsInv, CellsOf
<1>10. LensInv(w)
  BY <1>3 DEF LensInv
<1>11. QED
  BY <1>3, <1>6, <1>8, <1>9, <1>10 DEF ViewInv
-----------------------------------------------------------------------------
(* The messages of a call *)

V == View(Filled)

LEMMA UnreadIs == Unread = Messages(V)
<1> DEFINE v == V
           n == UsedCount(v)
<1>1. /\ v.from = seen[0] /\ v.num = queue[0].num /\ v.used = ring[queue[0].used_addr]
      /\ v.len = used_len /\ v.data = data /\ v.table = desc[queue[0].desc_addr]
  BY DEF V, View, Filled
<1>2. n = (ring[queue[0].used_addr].idx - seen[0]) % IdxSize
  BY <1>1 DEF UsedCount, Count
<1>3. ASSUME NEW i \in 1 .. n
      PROVE  MessageAt(v, i) =
               Message(UsedSlot(v, i), WritableCells(ChainOf(0, v.used.ring[UsedSlot(v, i)])))
  <2>1. HeadAt(v, i) = v.used.ring[UsedSlot(v, i)]
    BY <1>3 DEF HeadAt
  <2>2. QED
    BY <1>1, <2>1 DEF MessageAt, Message, CellsOf, ChainOf
<1>4. \A i \in 1 .. n : UsedSlot(v, i) = Slot(0, seen[0] + i - 1)
  BY <1>1 DEF UsedSlot, Slot
<1>5. Unread = [i \in 1 .. n |->
                  Message(UsedSlot(v, i), WritableCells(ChainOf(0, v.used.ring[UsedSlot(v, i)])))]
  BY <1>1, <1>2, <1>4 DEF Unread
<1>6. QED
  BY <1>3, <1>5 DEF Messages

LEMMA NextUnreadIs == (Unread = Messages(V))'
  BY UnreadIs, PTL

\* The l elements of s after m.
IsPart(r, s, m, l) == r = [i \in 1 .. l |-> s[m + i]]

LEMMA PartIs ==
    ASSUME NEW s, NEW m \in Nat, NEW l \in Nat, NEW a, NEW b, a = m + 1, b = m + l
    PROVE  IsPart(SubSeq(s, a, b), s, m, l)
<1> DEFINE r == SubSeq(s, a, b)
<1>1. r = [i \in 1 .. (1 + b - a) |-> s[i + a - 1]]
  <2>1. a \in Int /\ b \in Int
    OBVIOUS
  <2>2. QED
    BY <2>1
<1> HIDE DEF r
<1>2. 1 + b - a = l /\ \A i \in 1 .. l : i + a - 1 = m + i
  OBVIOUS
<1>3. r = [i \in 1 .. l |-> s[i + a - 1]]
  BY <1>1, <1>2, Zenon
<1>4. r = [i \in 1 .. l |-> s[m + i]]
  BY <1>2, <1>3, Zenon
<1>5. QED
  BY <1>4 DEF r, IsPart

LEMMA BeginningIs ==
    ASSUME NEW s, NEW l \in Nat PROVE SubSeq(s, 1, l) = [i \in 1 .. l |-> s[i]]
<1> DEFINE z == 0
           a == 1
<1>1. z \in Nat /\ a = z + 1 /\ l = z + l /\ \A i \in 1 .. l : z + i = i
  OBVIOUS
<1> HIDE DEF z, a
<1>2. IsPart(SubSeq(s, a, l), s, z, l)
  BY <1>1, PartIs
<1>3. SubSeq(s, a, l) = [i \in 1 .. l |-> s[i]]
  BY <1>1, <1>2, Zenon DEF IsPart
<1>4. QED
  BY <1>3 DEF a

\* A sequence with another one behind it.
LEMMA Extended ==
    ASSUME NEW n \in Nat, NEW k \in Nat, NEW f, HasLength(f, n),
           NEW N, N = n + k, NEW g, HasLength(g, N), NEW m,
           \A i \in 1 .. n : g[i] = f[i], \A j \in 1 .. k : g[n + j] = m[j]
    PROVE  /\ Len(f) = n /\ Len(g) = N
           /\ SubSeq(g, 1, n) = f
           /\ SubSeq(g, n + 1, N) = SubSeq(m, 1, k)
<1>1. Len(f) = n /\ Len(g) = N
  <2> DEFINE F(i) == f[i]
             G(i) == g[i]
  <2>1. f = [i \in 1 .. n |-> F(i)] /\ g = [i \in 1 .. N |-> G(i)] /\ N \in Nat
    BY DEF HasLength
  <2> HIDE DEF F, G
  <2>2. Len([i \in 1 .. n |-> F(i)]) = n /\ Len([i \in 1 .. N |-> G(i)]) = N
    BY <2>1
  <2>3. QED
    BY <2>1, <2>2, Zenon
<1>2. SubSeq(g, 1, n) = f
  <2>1. SubSeq(g, 1, n) = [i \in 1 .. n |-> g[i]]
    BY BeginningIs, Zenon
  <2>2. QED
    BY <2>1, Zenon DEF HasLength
<1>3. SubSeq(g, n + 1, N) = [i \in 1 .. k |-> g[n + i]]
  <2> DEFINE a == n + 1
  <2>1. a = n + 1
    OBVIOUS
  <2> HIDE DEF a
  <2>2. IsPart(SubSeq(g, a, N), g, n, k)
    BY <2>1, PartIs
  <2>3. QED
    BY <2>2 DEF a, IsPart
<1>4. SubSeq(m, 1, k) = [i \in 1 .. k |-> m[i]]
  BY BeginningIs, Zenon
<1>5. SubSeq(g, n + 1, N) = SubSeq(m, 1, k)
  BY <1>3, <1>4, Zenon
<1>6. QED
  BY <1>1, <1>2, <1>5

FifoStep == Fifo!Next \/ Unread' = Unread

\* The messages of a call, or those that there was room for, are a step of the
\* queue that is promised.
LEMMA CallIsStep ==
    ASSUME NEW v, NEW w, Unread = Messages(v), Unread' = Messages(w), UsedCount(v) \in Nat,
           NEW msgs, Len(msgs) \in Nat, NEW k \in 0 .. Len(msgs),
           k > 0 => msgs \in AnyCall,
           UsedCount(w) = UsedCount(v) + k,
           \A i \in 1 .. UsedCount(v) : MessageAt(w, i) = MessageAt(v, i),
           \A j \in 1 .. k : MessageAt(w, UsedCount(v) + j) = msgs[j]
    PROVE  FifoStep
<1> DEFINE n == UsedCount(v)
           f == Messages(v)
           g == Messages(w)
<1>1. /\ f = [i \in 1 .. n |-> f[i]] /\ \A i \in 1 .. n : f[i] = MessageAt(v, i)
      /\ g = [i \in 1 .. n + k |-> g[i]] /\ \A i \in 1 .. n + k : g[i] = MessageAt(w, i)
  BY DEF Messages
<1> HIDE DEF n, f, g
<1>2. n \in Nat /\ k \in Nat
  BY DEF n
<1>3. \A i \in 1 .. n : i \in 1 .. n + k /\ g[i] = f[i]
  <2>1. \A i \in 1 .. n : i \in 1 .. n + k
    BY <1>2
  <2>2. QED
    BY <1>1, <2>1 DEF n
<1>4. \A j \in 1 .. k : g[n + j] = msgs[j]
  <2>1. \A j \in 1 .. k : n + j \in 1 .. n + k
    BY <1>2
  <2>2. QED
    BY <1>1, <2>1 DEF n
<1>5. /\ Len(f) = n /\ Len(g) = n + k
      /\ SubSeq(g, 1, n) = f
      /\ SubSeq(g, n + 1, n + k) = SubSeq(msgs, 1, k)
  <2> DEFINE N == n + k
  <2>1. HasLength(g, N) /\ HasLength(f, n)
    BY <1>1 DEF HasLength
  <2>2. \A i \in 1 .. n : g[i] = f[i]
    BY <1>3
  <2>3. N = n + k
    OBVIOUS
  <2> HIDE DEF N
  <2>4. /\ Len(f) = n /\ Len(g) = N
        /\ SubSeq(g, 1, n) = f
        /\ SubSeq(g, n + 1, N) = SubSeq(msgs, 1, k)
    BY <1>2, <1>4, <2>1, <2>2, <2>3, Extended
  <2>5. QED
    BY <2>4 DEF N
<1>6. CASE k = 0
  <2>1. n + k = n
    BY <1>2, <1>6
  <2>2. g = f
    BY <1>1, <1>3, <2>1
  <2>3. QED
    BY <2>2 DEF FifoStep, f, g
<1>7. CASE k > 0
  <2>1. SubSeq(msgs, 1, k) \in UNION {{SubSeq(c, 1, l) : l \in 1 .. Len(c)} : c \in AnyCall}
    <3>1. k \in 1 .. Len(msgs)
      BY <1>7
    <3>2. SubSeq(msgs, 1, k) \in {SubSeq(msgs, 1, l) : l \in 1 .. Len(msgs)}
      BY <3>1
    <3>3. QED
      BY <1>7, <3>2
  <2>2. Len(g) > Len(f)
    BY <1>2, <1>5, <1>7
  <2>3. /\ Len(g) > Len(f) /\ SubSeq(g, 1, Len(f)) = f
        /\ SubSeq(g, Len(f) + 1, Len(g)) \in Fifo!Beginnings
    BY <1>5, <2>1, <2>2 DEF Fifo!Beginnings
  <2>4. Fifo!Send
    BY <2>3 DEF Fifo!Send, f, g
  <2>5. QED
    BY <2>4 DEF FifoStep, Fifo!Next
<1>8. QED
  BY <1>2, <1>6, <1>7

LEMMA ViewIs ==
    ASSUME NEW e
    PROVE  /\ View(e).num = queue[0].num /\ View(e).from = seen[0] /\ View(e).own = owned[0]
           /\ View(e).avail = ring[queue[0].avail_addr]
           /\ View(e).table = desc[queue[0].desc_addr]
           /\ View(e).last = e.last /\ View(e).used = e.used
           /\ View(e).len = e.len /\ View(e).data = e.data
  BY DEF View

\* The first chain of a call that has come to e.
LEMMA FirstIs ==
    ASSUME NEW e, ViewInv(View(e))
    PROVE  /\ FirstHead(e) = HeadAt(View(e), UsedCount(View(e)) + 1)
           /\ CanWrite(e) => AvailCount(View(e)) > 0 /\ FirstHead(e) \in owned[0]
           /\ queue[0].ready = 1 /\ ~CanWrite(e) => AvailCount(View(e)) = 0
<1> DEFINE v == View(e)
<1>1. /\ v.num = queue[0].num /\ v.own = owned[0] /\ v.last = e.last
      /\ v.avail = ring[queue[0].avail_addr]
  BY ViewIs
<1>2. ViewType(v) /\ HeadsInv(v)
  BY DEF ViewInv
<1> HIDE DEF v
<1>3. /\ UsedCount(v) \in Nat /\ AvailCount(v) \in Nat /\ Total(v) = UsedCount(v) + AvailCount(v)
      /\ v.last \in Nat /\ v.last \in Idx /\ v.avail.idx \in Idx
  BY <1>2, ViewCounts DEF Total, ViewType
<1>4. HeadAt(v, UsedCount(v) + 1) = v.avail.ring[AvailSlot(v, 1)]
  BY <1>2, AvailHead
<1>5. AvailSlot(v, 1) = Slot(0, e.last)
  <2>1. v.last + 1 - 1 = v.last
    BY <1>3
  <2>2. QED
    BY <1>1, <2>1 DEF AvailSlot, Slot
<1>6. FirstHead(e) = HeadAt(v, UsedCount(v) + 1)
  BY <1>1, <1>4, <1>5 DEF FirstHead
<1>7. AvailCount(v) = 0 <=> v.last = v.avail.idx
  <2>1. AvailCount(v) = IF v.avail.idx >= v.last THEN v.avail.idx - v.last
                        ELSE v.avail.idx - v.last + IdxSize
    BY <1>3, CountIs DEF AvailCount
  <2> DEFINE x == v.last
             y == v.avail.idx
  <2>2. x \in 0 .. IdxSize - 1 /\ y \in 0 .. IdxSize - 1 /\ IdxSize \in Nat
    BY <1>3, VirtioAssumption DEF Idx
  <2>3. AvailCount(v) = IF y >= x THEN y - x ELSE y - x + IdxSize
    BY <2>1
  <2> HIDE DEF x, y
  <2>4. AvailCount(v) = 0 <=> x = y
    BY <2>2, <2>3
  <2>5. QED
    BY <2>4 DEF x, y
<1>8. CanWrite(e) <=> queue[0].ready = 1 /\ v.last # v.avail.idx
  BY <1>1 DEF CanWrite, AvailIdx
<1>9. CanWrite(e) => AvailCount(v) > 0 /\ FirstHead(e) \in owned[0]
  <2>1. SUFFICES ASSUME CanWrite(e) PROVE AvailCount(v) > 0 /\ FirstHead(e) \in owned[0]
    OBVIOUS
  <2>2. AvailCount(v) > 0
    BY <1>3, <1>7, <1>8, <2>1
  <2>3. UsedCount(v) + 1 \in 1 .. Total(v)
    BY <1>3, <2>2
  <2>4. HeadAt(v, UsedCount(v) + 1) \in v.own
    BY <1>2, <2>3 DEF HeadsInv
  <2>5. QED
    BY <1>1, <1>6, <2>2, <2>4
<1>10. QED
  BY <1>6, <1>7, <1>8, <1>9 DEF v

LEMMA PutKeeps ==
    ASSUME NEW e, ViewInv(View(e)), CanWrite(e),
           NEW buf, Len(buf) \in Nat, HasLength(buf, Len(buf)),
           Len(buf) <= Len(CellsOf(View(e), FirstHead(e)))
    PROVE  LET v == View(e)
               w == View(Put(e, buf))
           IN  /\ ViewInv(w)
               /\ UsedCount(w) = UsedCount(v) + 1
               /\ \A i \in 1 .. UsedCount(v) : MessageAt(w, i) = MessageAt(v, i)
               /\ MessageAt(w, UsedCount(w)) = buf
<1> DEFINE v == View(e)
           p == Put(e, buf)
           w == View(p)
           h == FirstHead(e)
<1>1. AvailCount(v) > 0 /\ h = HeadAt(v, UsedCount(v) + 1)
  BY FirstIs
<1>2. ViewInv(v) /\ Len(buf) <= Len(CellsOf(v, h))
  OBVIOUS
<1>3. /\ v.num = queue[0].num /\ v.from = seen[0] /\ v.own = owned[0]
      /\ v.avail = ring[queue[0].avail_addr] /\ v.table = desc[queue[0].desc_addr]
      /\ v.last = e.last /\ v.used = e.used /\ v.len = e.len /\ v.data = e.data
  BY ViewIs
<1>4. /\ w.num = queue[0].num /\ w.from = seen[0] /\ w.own = owned[0]
      /\ w.avail = ring[queue[0].avail_addr] /\ w.table = desc[queue[0].desc_addr]
      /\ w.last = p.last /\ w.used = p.used /\ w.len = p.len /\ w.data = p.data
  BY ViewIs
<1>5. /\ p.last = (e.last + 1) % IdxSize
      /\ p.used = [idx |-> (e.used.idx + 1) % IdxSize,
                   ring |-> [e.used.ring EXCEPT ![e.used.idx % queue[0].num] = h]]
      /\ p.len = [e.len EXCEPT ![e.used.idx % queue[0].num] = Len(buf)]
      /\ p.data = CopiedTo(e.data, desc[queue[0].desc_addr][h], buf)
  BY DEF Put, WithEntry, Slot, FirstChain, ChainOf
<1> HIDE DEF v, w, p, h
<1>6. /\ w.num = v.num /\ w.from = v.from /\ w.own = v.own /\ w.avail = v.avail
      /\ w.table = v.table
  BY <1>3, <1>4, Zenon
<1>7. /\ w.last = (v.last + 1) % IdxSize
      /\ w.used = [idx |-> (v.used.idx + 1) % IdxSize,
                   ring |-> [v.used.ring EXCEPT ![v.used.idx % v.num] = h]]
      /\ w.len = [v.len EXCEPT ![v.used.idx % v.num] = Len(buf)]
      /\ w.data = CopiedTo(v.data, v.table[h], buf)
  BY <1>3, <1>4, <1>5, Zenon
<1>8. IsPut(v, w, h, buf)
  BY <1>6, <1>7, Zenon DEF IsPut
<1>9. /\ ViewInv(w)
      /\ UsedCount(w) = UsedCount(v) + 1
      /\ \A i \in 1 .. UsedCount(v) : MessageAt(w, i) = MessageAt(v, i)
      /\ MessageAt(w, UsedCount(w)) = buf
  BY <1>1, <1>2, <1>8, PutView
<1>10. QED
  BY <1>9 DEF v, w, p

\* No message of a call is longer than the chain that it will be put in.
Fits(msgs) ==
    \A i \in 1 .. Len(msgs) :
      /\ Len(msgs[i]) \in Nat /\ HasLength(msgs[i], Len(msgs[i]))
      /\ \A h \in owned[0] :
           i > 1 \/ (CanWrite(Filled) /\ h = FirstHead(Filled))
             => Len(msgs[i]) <= Len(CellsOf(V, h))

\* A call has put k messages behind those that were there, and has stopped
\* before the i-th only when there was no chain left.
PutSome(msgs, k, w) ==
    /\ UsedCount(w) = UsedCount(V) + k
    /\ \A j \in 1 .. UsedCount(V) : MessageAt(w, j) = MessageAt(V, j)
    /\ \A j \in 1 .. k : MessageAt(w, UsedCount(V) + j) = msgs[j]

MessagesInv(msgs, i, e) ==
    /\ ViewInv(View(e))
    /\ i = 0 => e = Filled
    /\ \E k \in 0 .. i : PutSome(msgs, k, View(e)) /\ (k = i \/ ~CanWrite(e))

Calling ==
    INSTANCE Loops WITH Base <- LAMBDA msgs : Filled, Step <- HandStep, Inv <- MessagesInv

LEMMA CallKeeps ==
    ASSUME ViewInv(V), NEW msgs, Len(msgs) \in Nat, Fits(msgs)
    PROVE  LET w == View(PutAll(msgs))
           IN  ViewInv(w) /\ \E k \in 0 .. Len(msgs) : PutSome(msgs, k, w)
<1>0. UsedCount(V) \in Nat
  BY ViewCounts DEF ViewInv
<1>1. MessagesInv(msgs, 0, Filled)
  <2>1. PutSome(msgs, 0, V)
    BY <1>0 DEF PutSome
  <2>2. QED
    BY <2>1 DEF MessagesInv, V
<1>2. ASSUME NEW i \in 1 .. Len(msgs), NEW e, MessagesInv(msgs, i - 1, e)
      PROVE  MessagesInv(msgs, i, HandStep(msgs, i, e))
  <2> DEFINE v == View(e)
  <2>1. PICK k \in 0 .. i - 1 : PutSome(msgs, k, v) /\ (k = i - 1 \/ ~CanWrite(e))
    BY <1>2 DEF MessagesInv
  <2>2. ViewInv(v) /\ (i - 1 = 0 => e = Filled)
    BY <1>2 DEF MessagesInv
  <2>3. CASE ~CanWrite(e)
    <3>1. k \in 0 .. i /\ i # 0
      BY <2>1
    <3>2. HandStep(msgs, i, e) = e
      BY <2>3 DEF HandStep
    <3>3. QED
      BY <2>1, <2>2, <2>3, <3>1, <3>2 DEF MessagesInv
  <2>4. CASE CanWrite(e)
    <3> DEFINE buf == msgs[i]
               h == FirstHead(e)
               p == Put(e, buf)
               w == View(p)
    <3>1. k = i - 1 /\ i \in 0 .. i /\ i # 0 /\ i \in Nat
      BY <2>1, <2>4
    <3>2. h \in owned[0]
      BY <2>2, <2>4, FirstIs
    <3>3. Len(buf) \in Nat /\ HasLength(buf, Len(buf)) /\ Len(buf) <= Len(CellsOf(V, h))
      <4>1. i > 1 \/ (CanWrite(Filled) /\ h = FirstHead(Filled))
        <5>1. i = 1 => e = Filled
          BY <2>2
        <5>2. QED
          BY <2>4, <3>1, <5>1
      <4>2. QED
        BY <3>2, <4>1 DEF Fits
    <3>4. CellsOf(V, h) = CellsOf(v, h)
      BY ViewIs DEF CellsOf, V
    <3> HIDE DEF v, h, buf
    <3>5. /\ ViewInv(w)
          /\ UsedCount(w) = UsedCount(v) + 1
          /\ \A j \in 1 .. UsedCount(v) : MessageAt(w, j) = MessageAt(v, j)
          /\ MessageAt(w, UsedCount(w)) = buf
      BY <2>2, <2>4, <3>3, <3>4, PutKeeps DEF v, h
    <3> HIDE DEF p, w
    <3>6. /\ UsedCount(v) = UsedCount(V) + (i - 1)
          /\ \A j \in 1 .. UsedCount(V) : MessageAt(v, j) = MessageAt(V, j)
          /\ \A j \in 1 .. i - 1 : MessageAt(v, UsedCount(V) + j) = msgs[j]
      BY <2>1, <3>1 DEF PutSome
    <3>7. PutSome(msgs, i, w)
      <4> DEFINE n == UsedCount(V)
      <4>1. n \in Nat
        BY <1>0
      <4> HIDE DEF n
      <4>2. UsedCount(v) = n + (i - 1) /\ UsedCount(w) = n + i
        BY <3>1, <3>5, <3>6, <4>1 DEF n
      <4>3. \A j \in 1 .. n : MessageAt(w, j) = MessageAt(V, j)
        <5>1. \A j \in 1 .. n : j \in 1 .. UsedCount(v)
          BY <3>1, <4>1, <4>2
        <5>2. QED
          BY <3>5, <3>6, <5>1 DEF n
      <4>4. ASSUME NEW j \in 1 .. i PROVE MessageAt(w, n + j) = msgs[j]
        <5>1. CASE j = i
          <6>1. n + j = UsedCount(w)
            BY <4>2, <5>1
          <6>2. QED
            BY <3>5, <5>1, <6>1 DEF buf
        <5>2. CASE j # i
          <6>1. j \in 1 .. i - 1 /\ n + j \in 1 .. UsedCount(v)
            BY <3>1, <4>1, <4>2, <5>2
          <6>2. MessageAt(w, n + j) = MessageAt(v, n + j)
            BY <3>5, <6>1
          <6>3. QED
            BY <3>6, <6>1, <6>2 DEF n
        <5>3. QED
          BY <5>1, <5>2
      <4>5. QED
        BY <4>2, <4>3, <4>4 DEF PutSome, n
    <3>8. HandStep(msgs, i, e) = p
      BY <2>4 DEF HandStep, p, buf
    <3>9. MessagesInv(msgs, i, p)
      BY <3>1, <3>5, <3>7 DEF MessagesInv, w
    <3>10. QED
      BY <3>8, <3>9
  <2>5. QED
    BY <2>3, <2>4
<1>3. \A i \in 0 .. Len(msgs) : MessagesInv(msgs, i, Calling!After(msgs, Len(msgs))[i])
  BY <1>1, <1>2, Calling!LoopKeeps
<1>4. PutAll(msgs) = Calling!After(msgs, Len(msgs))[Len(msgs)]
  BY DEF PutAll, Calling!After, HandStep
<1>5. MessagesInv(msgs, Len(msgs), PutAll(msgs))
  <2>1. Len(msgs) \in 0 .. Len(msgs)
    OBVIOUS
  <2>2. QED
    BY <1>3, <1>4, <2>1
<1>6. QED
  BY <1>5 DEF MessagesInv
-----------------------------------------------------------------------------
(* The invariant of queue 0.  While the driver runs, its two rings are at    *)
(* the addresses it has chosen, and what they hold is in order; when it has  *)
(* been reset, the ring that the device would read is empty.                 *)

RunInv ==
    /\ \A q \in QueueId : /\ queue[q].desc_addr = Layout[q].desc
                          /\ queue[q].avail_addr = Layout[q].avail
                          /\ queue[q].used_addr = Layout[q].used
    /\ queue[0].ready = 1 /\ queue[0].num = QueueNum[dev]
    /\ Cardinality(owned[0]) <= Posted[dev][0]
    /\ IsInput => \A h \in owned[0] : Len(CellsOf(V, h)) > 0
    /\ ViewInv(V)

RamType ==
    /\ used_len \in [DescIdx -> Nat]
    /\ owned = [q \in QueueId |-> owned[q]]
    /\ desc = [a \in Addr |-> desc[a]]
    /\ \A a \in Addr : desc[a] = [h \in DescIdx |-> desc[a][h]]
    /\ data = [x \in Cell |-> data[x]]
    /\ ring[0].idx = 0

QueueInv ==
    /\ RamType
    /\ IF drv = "off" THEN queue[0] = ResetQueue /\ owned[0] = {} ELSE RunInv

LEMMA EmptyIs ==
    ASSUME NEW v, UsedCount(v) = 0 PROVE Messages(v) = << >>
<1>1. Messages(v) = [i \in 1 .. 0 |-> MessageAt(v, i)]
  BY DEF Messages
<1>2. QED
  BY <1>1, EmptySeq, SeqDef, LenProperties

LEMMA VIs ==
    /\ V.num = queue[0].num /\ V.from = seen[0] /\ V.own = owned[0]
    /\ V.avail = ring[queue[0].avail_addr] /\ V.table = desc[queue[0].desc_addr]
    /\ V.last = queue[0].last_avail_idx /\ V.used = ring[queue[0].used_addr]
    /\ V.len = used_len /\ V.data = data
  BY DEF V, View, Filled

LEMMA OffUnread ==
    ASSUME IInv, QueueInv, drv = "off" PROVE Unread = << >>
<1>1. seen[0] = 0 /\ ring[0].idx = 0 /\ queue[0].used_addr = 0
  BY QueuesAre DEF IInv, DriverInv, QueueInv, RamType, ResetQueue
<1>2. UsedCount(V) = Count(0, 0)
  BY <1>1, VIs DEF UsedCount
<1>3. 0 \in Idx
  BY VirtioAssumption DEF Idx
<1>4. UsedCount(V) = 0
  BY <1>2, <1>3, CountIs
<1>5. QED
  BY <1>4, EmptyIs, UnreadIs

\* Nothing that the view is made of changes.
LEMMA ViewStays ==
    ASSUME QueueInv, drv # "off", drv' # "off", dev' = dev, RamType',
           queue'[0] = queue[0], seen'[0] = seen[0], owned'[0] = owned[0],
           ring'[queue[0].avail_addr] = ring[queue[0].avail_addr],
           ring'[queue[0].used_addr] = ring[queue[0].used_addr],
           desc'[queue[0].desc_addr] = desc[queue[0].desc_addr],
           used_len' = used_len, data' = data,
           \A q \in QueueId : /\ queue'[q].desc_addr = queue[q].desc_addr
                              /\ queue'[q].avail_addr = queue[q].avail_addr
                              /\ queue'[q].used_addr = queue[q].used_addr
    PROVE  QueueInv' /\ FifoStep
<1>1. V' = V
  BY DEF V, View, Filled
<1>2. RunInv /\ ViewInv(V)
  BY DEF QueueInv, RunInv
<1>3. Unread' = Unread
  BY <1>1, UnreadIs, NextUnreadIs
<1>4. ViewInv(V)'
  BY <1>1, <1>2
<1>5. RunInv'
  BY <1>1, <1>2, <1>4 DEF RunInv, IsInput
<1>6. QED
  BY <1>3, <1>5 DEF QueueInv, FifoStep
-----------------------------------------------------------------------------
(* The calls of the host on the queue *)

IdleInv(msgs, i, e) == e = Filled

Idling ==
    INSTANCE Loops WITH Base <- LAMBDA msgs : Filled, Step <- HandStep, Inv <- IdleInv

\* A queue that is not ready takes nothing.
LEMMA IdleIs ==
    ASSUME queue[0].ready # 1, NEW msgs, Len(msgs) \in Nat PROVE PutAll(msgs) = Filled
<1>1. IdleInv(msgs, 0, Filled)
  BY DEF IdleInv
<1>2. ASSUME NEW i \in 1 .. Len(msgs), NEW e, IdleInv(msgs, i - 1, e)
      PROVE  IdleInv(msgs, i, HandStep(msgs, i, e))
  BY <1>2 DEF IdleInv, HandStep, CanWrite
<1>3. \A i \in 0 .. Len(msgs) : IdleInv(msgs, i, Idling!After(msgs, Len(msgs))[i])
  BY <1>1, <1>2, Idling!LoopKeeps
<1>4. PutAll(msgs) = Idling!After(msgs, Len(msgs))[Len(msgs)]
  BY DEF PutAll, Idling!After, HandStep
<1>5. Len(msgs) \in 0 .. Len(msgs)
  OBVIOUS
<1>6. QED
  BY <1>3, <1>4, <1>5 DEF IdleInv

\* When nothing of the queue changes while the driver is off.
LEMMA OffStays ==
    ASSUME IInv, QueueInv, drv = "off", drv' = "off", RamType', seen'[0] = seen[0],
           owned'[0] = owned[0], queue'[0] = queue[0]
    PROVE  QueueInv' /\ FifoStep
<1>1. QueueInv'
  BY DEF QueueInv, ResetQueue
<1>2. seen[0] = 0 /\ ring'[0].idx = 0 /\ queue[0].used_addr = 0
  BY QueuesAre DEF IInv, DriverInv, QueueInv, RamType, ResetQueue
<1>3. 0 \in Idx
  BY VirtioAssumption DEF Idx
<1>4. UsedCount(V') = 0
  <2>1. V'.from = 0 /\ V'.used = ring'[0]
    BY <1>2 DEF V, View, Filled
  <2>2. QED
    BY <1>2, <1>3, <2>1, CountIs DEF UsedCount
<1>5. Unread' = << >>
  BY <1>4, EmptyIs, NextUnreadIs
<1>6. QED
  BY <1>1, <1>5, OffUnread DEF FifoStep

LEMMA FillQueue ==
    ASSUME IInv, QueueInv, NEW msgs, Len(msgs) \in Nat, Len(msgs) > 0 => msgs \in AnyCall,
           drv # "off" => Fits(msgs), Fill(msgs)
    PROVE  QueueInv' /\ FifoStep
<1> DEFINE e == PutAll(msgs)
           a == queue[0].used_addr
<1>1. /\ queue' = [queue EXCEPT ![0].last_avail_idx = e.last]
      /\ ring' = [ring EXCEPT ![a] = e.used]
      /\ used_len' = e.len /\ data' = e.data
      /\ UNCHANGED <<desc, dev, drv, seen, owned>>
  BY DEF Fill, driver
<1>2. /\ 0 \in QueueId /\ queue \in [QueueId -> QueueState] /\ a \in Addr
      /\ ring = [b \in Addr |-> ring[b]]
  BY QueuesAre DEF IInv, TypeOK, QueueState
<1> HIDE DEF e
<1>3. /\ queue'[0] = [queue[0] EXCEPT !.last_avail_idx = e.last]
      /\ \A q \in QueueId : q # 0 => queue'[q] = queue[q]
      /\ ring'[a] = e.used /\ \A b \in Addr : b # a => ring'[b] = ring[b]
  BY <1>1, <1>2
<1>4. queue[0] \in QueueState
  BY <1>2
<1>5. CASE drv = "off"
  <2>1. queue[0].ready # 1 /\ a = 0
    BY <1>5 DEF QueueInv, ResetQueue
  <2>2. e = Filled
    BY <2>1, IdleIs DEF e
  <2>3. e.last = queue[0].last_avail_idx /\ e.used = ring[a] /\ e.len = used_len /\ e.data = data
    BY <2>2 DEF Filled
  <2>4. queue'[0] = queue[0]
    BY <1>3, <1>4, <2>3 DEF QueueState
  <2>5. RamType'
    BY <1>1, <1>3, <2>1, <2>3 DEF QueueInv, RamType
  <2>6. QED
    BY <1>1, <1>5, <2>4, <2>5, OffStays
<1>6. CASE drv # "off"
  <2> DEFINE w == View(e)
  <2>1. RunInv /\ ViewInv(V)
    BY <1>6 DEF QueueInv, RunInv
  <2>2. PICK k \in 0 .. Len(msgs) : ViewInv(w) /\ PutSome(msgs, k, w)
    BY <1>6, <2>1, CallKeeps DEF e
  <2>3. a # queue[0].avail_addr /\ queue[0].avail_addr \in Addr /\ a # 0
    BY <1>2, <1>4, <2>1, HostAssumption DEF RunInv, QueueState
  <2>4. /\ queue'[0].num = queue[0].num /\ queue'[0].ready = queue[0].ready
        /\ queue'[0].last_avail_idx = e.last
        /\ queue'[0].desc_addr = queue[0].desc_addr
        /\ queue'[0].avail_addr = queue[0].avail_addr
        /\ queue'[0].used_addr = queue[0].used_addr
    BY <1>3, <1>4 DEF QueueState
  <2>5. V' = w
    BY <1>1, <1>3, <2>3, <2>4 DEF V, View, Filled
  <2> HIDE DEF w
  <2>6. ViewInv(V)'
    BY <2>2, <2>5
  <2>7. \A h : CellsOf(V, h)' = CellsOf(V, h)
    <3>1. V'.table = V.table
      BY <1>1, <2>4 DEF V, View
    <3>2. QED
      BY <3>1 DEF CellsOf
  <2>8. \A q \in QueueId : /\ queue'[q].desc_addr = queue[q].desc_addr
                           /\ queue'[q].avail_addr = queue[q].avail_addr
                           /\ queue'[q].used_addr = queue[q].used_addr
    BY <1>3, <2>4
  <2>9. RunInv'
    BY <1>1, <2>1, <2>4, <2>6, <2>7, <2>8 DEF RunInv, IsInput
  <2>10. RamType'
    <3>1. V'.len = used_len' /\ V'.data = data'
      BY DEF V, View, Filled
    <3>2. used_len' \in [DescIdx -> Nat] /\ data' = [x \in Cell |-> data'[x]]
      BY <2>2, <2>5, <3>1 DEF ViewInv, ViewType
    <3>3. ring'[0].idx = 0
      BY <1>3, <2>3, VirtioAssumption DEF QueueInv, RamType
    <3>4. QED
      BY <1>1, <3>2, <3>3 DEF QueueInv, RamType
  <2>11. UsedCount(V) \in Nat
    BY <2>1, ViewCounts DEF ViewInv
  <2>12. Unread = Messages(V) /\ Unread' = Messages(w)
    BY <2>5, UnreadIs, NextUnreadIs
  <2>13. k > 0 => msgs \in AnyCall
    OBVIOUS
  <2>14. FifoStep
    BY <2>2, <2>11, <2>12, <2>13, CallIsStep DEF PutSome
  <2>15. QED
    BY <1>1, <1>6, <2>9, <2>10, <2>14 DEF QueueInv
<1>7. QED
  BY <1>5, <1>6

LEMMA SeqLength ==
    ASSUME NEW S, NEW s \in Seq(S) PROVE Len(s) \in Nat /\ HasLength(s, Len(s))
<1>1. Len(s) \in Nat /\ s \in [1 .. Len(s) -> S]
  BY LenProperties
<1>2. QED
  BY <1>1 DEF HasLength

\* A call for one message that is no longer than the first chain.
LEMMA OneFits ==
    ASSUME NEW S, NEW s \in Seq(S),
           CanWrite(Filled) => Len(s) <= Len(WritableCells(FirstChain(Filled)))
    PROVE  Fits(<<s>>)
<1>1. Len(<<s>>) = 1 /\ <<s>>[1] = s
  OBVIOUS
<1>2. Len(s) \in Nat /\ HasLength(s, Len(s))
  BY SeqLength
<1>3. CellsOf(V, FirstHead(Filled)) = WritableCells(FirstChain(Filled))
  BY VIs DEF CellsOf, FirstChain, ChainOf
<1> DEFINE msgs == <<s>>
<1>4. Len(msgs) = 1 /\ msgs[1] = s
  BY <1>1
<1> HIDE DEF msgs
<1>5. \A i \in 1 .. Len(msgs) : i = 1
  BY <1>4
<1>6. Fits(msgs)
  BY <1>2, <1>3, <1>4, <1>5 DEF Fits
<1>7. QED
  BY <1>6 DEF msgs

LEMMA NoneFits ==
    Len(<< >>) = 0 /\ Fits(<< >>)
  BY DEF Fits

\* Input devices are given chains with room for an event.
LEMMA EventsFit ==
    ASSUME QueueInv, drv # "off", IsInput, NEW msgs,
           \A i \in 1 .. Len(msgs) : \E e : msgs[i] = <<e>>
    PROVE  Fits(msgs)
<1>1. /\ \A h \in owned[0] : Len(CellsOf(V, h)) > 0
      /\ ViewInv(V) /\ V.own = owned[0]
  BY VIs DEF QueueInv, RunInv
<1>2. ASSUME NEW h \in owned[0] PROVE 1 <= Len(CellsOf(V, h))
  <2>1. CellsOf(V, h) \in Seq(Zone(h))
    BY <1>1 DEF ViewInv, CellsInv
  <2>2. Len(CellsOf(V, h)) \in Nat
    BY <2>1, LenProperties
  <2>3. QED
    BY <1>1, <2>2
<1>3. ASSUME NEW i \in 1 .. Len(msgs)
      PROVE  Len(msgs[i]) = 1 /\ HasLength(msgs[i], Len(msgs[i]))
  <2>1. PICK e : msgs[i] = <<e>>
    OBVIOUS
  <2>2. <<e>> \in Seq({e}) /\ Len(<<e>>) = 1
    OBVIOUS
  <2>3. QED
    BY <2>1, <2>2, SeqLength
<1>4. ASSUME NEW i \in 1 .. Len(msgs)
      PROVE  /\ Len(msgs[i]) \in Nat /\ HasLength(msgs[i], Len(msgs[i]))
             /\ \A h \in owned[0] : Len(msgs[i]) <= Len(CellsOf(V, h))
  BY <1>2, <1>3
<1>5. QED
  BY <1>4, Zenon DEF Fits

LEMMA PacketQueue ==
    ASSUME IInv, QueueInv, Packet PROVE QueueInv' /\ FifoStep
<1>1. PICK p \in Payloads :
        Fill(IF /\ Room > 0
                /\ WellFormed(FirstChain(Filled))
                /\ 1 + Len(p) <= Len(WritableCells(FirstChain(Filled)))
             THEN << <<Header>> \o p >> ELSE << >>)
  BY DEF Packet
<1>2. CASE /\ 1 + Len(p) <= Len(WritableCells(FirstChain(Filled)))
           /\ Fill(<< <<Header>> \o p >>)
  <2> DEFINE s == <<Header>> \o p
             S == {Header} \cup Range(p)
  <2>1. s \in Seq(S) /\ Len(s) = 1 + Len(p)
    <3>1. p \in Seq(Range(p))
      BY HostAssumption
    <3>2. p \in Seq(S)
      BY <3>1, SeqWider
    <3>3. <<Header>> \in Seq(S) /\ Len(<<Header>>) = 1
      OBVIOUS
    <3>4. QED
      BY <3>2, <3>3, ConcatProperties
  <2>2. << s >> \in AnyCall
    BY DEF AnyCall
  <2> HIDE DEF s, S
  <2>3. Fits(<<s>>) /\ Len(<<s>>) \in Nat
    BY <1>2, <2>1, OneFits
  <2>4. Fill(<<s>>)
    BY <1>2 DEF s
  <2>5. QED
    BY <2>2, <2>3, <2>4, FillQueue
<1>3. CASE Fill(<< >>)
  BY <1>3, NoneFits, FillQueue
<1>4. QED
  BY <1>1, <1>2, <1>3

\* At the console no more is typed than the first chain has room for.
LEMMA TypedQueue ==
    ASSUME IInv, QueueInv, Typed PROVE QueueInv' /\ FifoStep
<1>1. PICK p \in Payloads : Len(p) <= WriteLen /\ Fill(<<p>>)
  BY DEF Typed
<1>2. p \in Seq(Range(p))
  BY HostAssumption
<1>3. <<p>> \in AnyCall /\ Len(<<p>>) \in Nat
  BY DEF AnyCall
<1>4. drv # "off" => Fits(<<p>>)
  <2>1. SUFFICES ASSUME drv # "off" PROVE Fits(<<p>>)
    OBVIOUS
  <2>2. CASE WriteLen = Len(WritableCells(FirstChain(Filled)))
    BY <1>1, <1>2, <2>2, OneFits
  <2>3. CASE WriteLen = 0
    <3>1. Len(p) = 0
      BY <1>1, <1>2, <2>3, LenProperties
    <3>2. CanWrite(Filled) => 0 <= Len(WritableCells(FirstChain(Filled)))
      <4>1. ViewInv(V) /\ V.own = owned[0]
        BY <2>1, VIs DEF QueueInv, RunInv
      <4>2. CanWrite(Filled) => FirstHead(Filled) \in owned[0]
        BY <4>1, FirstIs DEF V
      <4>3. CanWrite(Filled) => CellsOf(V, FirstHead(Filled)) \in Seq(Zone(FirstHead(Filled)))
        BY <4>1, <4>2 DEF ViewInv, CellsInv
      <4>4. CellsOf(V, FirstHead(Filled)) = WritableCells(FirstChain(Filled))
        BY VIs DEF CellsOf, FirstChain, ChainOf
      <4>5. QED
        BY <4>3, <4>4, LenProperties
    <3>3. QED
      BY <1>2, <3>1, <3>2, OneFits
  <2>4. QED
    BY <2>2, <2>3 DEF WriteLen
<1>5. QED
  BY <1>1, <1>3, <1>4, FillQueue

LEMMA KeyQueue ==
    ASSUME IInv, QueueInv, Key PROVE QueueInv' /\ FifoStep
<1>1. PICK v \in {0, 1} : Fill(<<Event("KEY", "key", v), Syn>>)
  BY DEF Key
<1> DEFINE msgs == <<Event("KEY", "key", v), Syn>>
<1>2. Len(msgs) = 2 /\ msgs[1] = Event("KEY", "key", v) /\ msgs[2] = Syn
  OBVIOUS
<1>3. msgs \in AnyCall
  BY DEF AnyCall
<1>4. \A i \in 1 .. Len(msgs) : \E e : msgs[i] = <<e>>
  <2> HIDE DEF msgs
  <2>1. \A i \in 1 .. Len(msgs) : i = 1 \/ i = 2
    BY <1>2
  <2>2. QED
    BY <1>2, <2>1 DEF Event, Syn
<1> HIDE DEF msgs
<1>5. IsInput
  BY DEF Key, IsInput
<1>6. drv # "off" => Fits(msgs)
  BY <1>4, <1>5, EventsFit
<1>7. QED
  BY <1>1, <1>2, <1>3, <1>6, FillQueue DEF msgs

LEMMA MouseQueue ==
    ASSUME IInv, QueueInv, Mouse PROVE QueueInv' /\ FifoStep
<1>1. PICK dx \in Offsets, dy \in Offsets, dz \in Wheel, pressed \in SUBSET Range(ButtonsList) :
        Fill(Append(Moves(IF dev = "mouse" THEN "REL" ELSE "ABS", dx, dy, dz,
                          Changed(pressed), pressed), Syn))
  BY DEF Mouse
<1> DEFINE kind == IF dev = "mouse" THEN "REL" ELSE "ABS"
           T == {b \in Range(ButtonsList) : (b \in pressed) # (b \in buttons_state)}
           moves == Moves(kind, dx, dy, dz, Listed(T), pressed)
           msgs == Append(moves, Syn)
<1>2. Fill(msgs)
  BY <1>1 DEF Changed
<1>3. kind \in {"REL", "ABS"} /\ T \in SUBSET Range(ButtonsList) /\ IsInput
  BY DEF Mouse, IsInput
<1> HIDE DEF kind, T
<1>4. Len(msgs) \in Nat /\ \A i \in 1 .. Len(msgs) : \E e : msgs[i] = <<e>>
  BY MovesAreMessages
<1>5. msgs \in AnyCall
  <2>1. \E a \in {"REL", "ABS"}, x \in Offsets, y \in Offsets, z \in Wheel,
           S \in SUBSET Range(ButtonsList), p \in SUBSET Range(ButtonsList) :
             msgs = Append(Moves(a, x, y, z, Listed(S), p), Syn)
    BY <1>3, Zenon
  <2> HIDE DEF msgs
  <2>2. QED
    BY <2>1 DEF AnyCall
<1> HIDE DEF msgs
<1>6. drv # "off" => Fits(msgs)
  BY <1>3, <1>4, EventsFit
<1>7. QED
  BY <1>2, <1>4, <1>5, <1>6, FillQueue

-----------------------------------------------------------------------------
(* The other steps, for queue 0 *)

\* The parts of the queues are at addresses of their own.
LEMMA PartsApart ==
    ASSUME IInv, QueueInv, drv # "off"
    PROVE  /\ 0 \in QueueId /\ 1 \in QueueId
           /\ queue \in [QueueId -> QueueState]
           /\ \A q \in QueueId : /\ queue[q].avail_addr \in Addr \ {0}
                                 /\ queue[q].used_addr \in Addr \ {0}
                                 /\ queue[q].desc_addr \in Addr
                                 /\ queue[0].avail_addr # queue[q].used_addr
                                 /\ queue[q].avail_addr # queue[0].used_addr
           /\ queue[0].avail_addr # queue[1].avail_addr
           /\ queue[0].used_addr # queue[1].used_addr
           /\ queue[0].desc_addr # queue[1].desc_addr
<1>1. 0 \in QueueId /\ 1 \in QueueId /\ queue \in [QueueId -> QueueState]
  BY QueuesAre DEF IInv, TypeOK
<1>2. \A q \in QueueId : /\ queue[q].desc_addr = Layout[q].desc
                         /\ queue[q].avail_addr = Layout[q].avail
                         /\ queue[q].used_addr = Layout[q].used
  BY DEF QueueInv, RunInv
<1>3. QED
  BY <1>1, <1>2, HostAssumption

LEMMA QuietQueue ==
    ASSUME IInv, QueueInv, UNCHANGED <<queue, ram, dev, used_len, seen, owned>>,
           drv # "off" <=> drv' # "off"
    PROVE  QueueInv' /\ FifoStep
<1>1. UNCHANGED <<ring, desc, data>>
  BY DEF ram
<1>2. RamType'
  BY <1>1 DEF QueueInv, RamType
<1>3. CASE drv = "off"
  BY <1>2, <1>3, OffStays
<1>4. CASE drv # "off"
  BY <1>1, <1>2, <1>4, ViewStays
<1>5. QED
  BY <1>3, <1>4

LEMMA ResizeQueue ==
    ASSUME IInv, QueueInv, Resize PROVE QueueInv' /\ FifoStep
<1>1. UNCHANGED <<queue, ram, dev, used_len, seen, owned, drv>>
  BY DEF Resize, driver
<1>2. QED
  BY <1>1, QuietQueue

LEMMA InterruptQueue ==
    ASSUME IInv, QueueInv, ReadCauses \/ Acknowledge \/ AcknowledgePCI
    PROVE  QueueInv' /\ FifoStep
<1>1. UNCHANGED <<queue, ram, dev, used_len, seen, owned>> /\ drv # "off" /\ drv' # "off"
  BY DEF ReadCauses, Acknowledge, AcknowledgePCI, InterruptAck, ReadISR, virtioVars, registers,
         others
<1>2. QED
  BY <1>1, QuietQueue

LEMMA NotifyQueue ==
    ASSUME IInv, QueueInv, Notify PROVE QueueInv' /\ FifoStep
<1>1. PICK r : ring' = [ring EXCEPT ![queue[1].used_addr] = r]
  BY DEF Notify
<1>2. /\ queue' = [queue EXCEPT ![1].last_avail_idx = AvailIdx(1)]
      /\ drv = "run"
      /\ UNCHANGED <<desc, data, dev, used_len, drv, seen, owned>>
  BY DEF Notify, driver
<1>3. /\ queue'[0] = queue[0]
      /\ \A q \in QueueId : /\ queue'[q].desc_addr = queue[q].desc_addr
                            /\ queue'[q].avail_addr = queue[q].avail_addr
                            /\ queue'[q].used_addr = queue[q].used_addr
  BY <1>2, PartsApart DEF QueueState
<1>4. /\ ring'[queue[0].avail_addr] = ring[queue[0].avail_addr]
      /\ ring'[queue[0].used_addr] = ring[queue[0].used_addr]
      /\ ring'[0] = ring[0]
  BY <1>1, <1>2, PartsApart, VirtioAssumption DEF IInv, TypeOK
<1>5. RamType'
  BY <1>2, <1>4 DEF QueueInv, RamType
<1>6. QED
  BY <1>2, <1>3, <1>4, <1>5, ViewStays

\* What the driver posts on queue 1 is apart from queue 0.
LEMMA PostOther ==
    ASSUME IInv, QueueInv, NEW c, Post(1, c) PROVE QueueInv' /\ FifoStep
<1>1. PICK h, r, k :
        /\ desc' = [desc EXCEPT ![queue[1].desc_addr][h] = k]
        /\ ring' = [ring EXCEPT ![queue[1].avail_addr] = r]
        /\ owned' = [owned EXCEPT ![1] = owned[1] \cup {h}]
  BY DEF Post
<1>2. /\ drv = "run"
      /\ UNCHANGED <<queue, data, dev, used_len, drv, seen>>
  BY DEF Post, others
<1>3. /\ owned = [q \in QueueId |-> owned[q]] /\ desc = [a \in Addr |-> desc[a]]
      /\ \A a \in Addr : desc[a] = [g \in DescIdx |-> desc[a][g]]
  BY DEF QueueInv, RamType
<1>4. /\ ring'[queue[0].avail_addr] = ring[queue[0].avail_addr]
      /\ ring'[queue[0].used_addr] = ring[queue[0].used_addr]
      /\ ring'[0] = ring[0]
  BY <1>1, <1>2, PartsApart, VirtioAssumption DEF IInv, TypeOK
<1>5. owned'[0] = owned[0] /\ owned' = [q \in QueueId |-> owned'[q]]
  BY <1>1, <1>2, <1>3, PartsApart
<1>6. /\ desc'[queue[0].desc_addr] = desc[queue[0].desc_addr]
      /\ desc' = [a \in Addr |-> desc'[a]]
      /\ \A a \in Addr : desc'[a] = [g \in DescIdx |-> desc'[a][g]]
  <2>1. \A a \in Addr : desc'[a] = IF a = queue[1].desc_addr THEN [desc[a] EXCEPT ![h] = k]
                                  ELSE desc[a]
    BY <1>1, <1>3
  <2>2. \A a \in Addr : [desc[a] EXCEPT ![h] = k]
                          = [g \in DescIdx |-> [desc[a] EXCEPT ![h] = k][g]]
    BY <1>3
  <2>3. \A a \in Addr : desc'[a] = [g \in DescIdx |-> desc'[a][g]]
    <3>1. SUFFICES ASSUME NEW a \in Addr PROVE desc'[a] = [g \in DescIdx |-> desc'[a][g]]
      OBVIOUS
    <3>2. CASE a = queue[1].desc_addr
      BY <2>1, <2>2, <3>2
    <3>3. CASE a # queue[1].desc_addr
      BY <1>3, <2>1, <3>3, Zenon
    <3>4. QED
      BY <3>2, <3>3
  <2>4. desc' = [a \in Addr |-> desc'[a]]
    BY <1>1, <1>3
  <2>5. desc'[queue[0].desc_addr] = desc[queue[0].desc_addr]
    BY <1>2, <2>1, PartsApart
  <2>6. QED
    BY <2>3, <2>4, <2>5
<1>7. RamType'
  BY <1>2, <1>4, <1>5, <1>6 DEF QueueInv, RamType
<1>8. QED
  BY <1>2, <1>4, <1>5, <1>6, <1>7, ViewStays

\* The driver may stop to look for messages at any time.
LEMMA EmptiedIsStep ==
    ASSUME NEW v, UsedCount(v) \in Nat, Unread = Messages(v), Unread' = << >> PROVE FifoStep
<1> DEFINE n == UsedCount(v)
           s == Messages(v)
<1>1. CASE n = 0
  BY <1>1, EmptyIs DEF FifoStep
<1>2. CASE n # 0
  <2>1. Len(s) = n
    <3> DEFINE F(i) == MessageAt(v, i)
    <3>1. s = [i \in 1 .. n |-> F(i)] /\ n \in Nat
      BY DEF Messages
    <3> HIDE DEF F, s, n
    <3>2. Len([i \in 1 .. n |-> F(i)]) = n
      BY <3>1
    <3>3. QED
      BY <3>1, <3>2, Zenon
  <2>2. Len(<< >>) = 0
    OBVIOUS
  <2> DEFINE z == 0
             a == n - 0 + 1
  <2>3. z \in Nat /\ n \in Nat /\ a = n + 1 /\ n = n + z
    OBVIOUS
  <2> HIDE DEF n, s, z, a
  <2>4. IsPart(SubSeq(s, a, n), s, n, z)
    BY <2>3, PartIs
  <2>5. SubSeq(s, a, n) = [i \in 1 .. 0 |-> s[n + i]]
    BY <2>4 DEF IsPart, z
  <2>6. SubSeq(s, a, n) = << >>
    BY <2>5, EmptySeq, SeqDef, LenProperties
  <2>7. 0 < n
    BY <1>2, <2>3
  <2>8. Unread = s
    BY DEF s
  <2>9. Fifo!Receive
    BY <2>1, <2>2, <2>6, <2>7, <2>8 DEF Fifo!Receive, a
  <2>10. QED
    BY <2>9 DEF FifoStep, Fifo!Next
<1>3. QED
  BY <1>1, <1>2

LEMMA NextOffUnread == (IInv /\ QueueInv /\ drv = "off" => Unread = << >>)'
<1>1. IInv /\ QueueInv /\ drv = "off" => Unread = << >>
  BY OffUnread
<1>2. QED
  BY <1>1, PTL

LEMMA ResetKeepsQueue ==
    ASSUME IInv, QueueInv, Reset PROVE QueueInv' /\ FifoStep
<1>1. /\ queue' = [q \in QueueId |-> ResetQueue]
      /\ UNCHANGED <<ring, desc, data, used_len>>
      /\ drv # "off" /\ drv' = "off"
      /\ seen' = [q \in QueueId |-> 0] /\ owned' = [q \in QueueId |-> {}]
  BY DEF Reset, WriteStatus, ram, others
<1>2. 0 \in QueueId
  BY QueuesAre
<1>3. owned' = [q \in QueueId |-> owned'[q]] /\ owned'[0] = {} /\ queue'[0] = ResetQueue
  BY <1>1, <1>2
<1>4. RamType'
  BY <1>1, <1>3 DEF QueueInv, RamType
<1>5. QueueInv'
  BY <1>1, <1>3, <1>4 DEF QueueInv
<1>6. IInv'
  BY ResetKeeps
<1>7. Unread' = << >>
  BY <1>1, <1>5, <1>6, NextOffUnread
<1>8. UsedCount(V) \in Nat
  BY <1>1, ViewCounts DEF QueueInv, RunInv, ViewInv
<1>9. QED
  BY <1>5, <1>7, <1>8, UnreadIs, EmptiedIsStep

\* Two empty rings.
LEMMA FreshView ==
    ASSUME NEW w, w.num \in 1 .. MaxQueueNum, IdxSize % w.num = 0,
           w.from = 0, w.last = 0, w.own = {},
           w.avail \in Ring, w.avail.idx = 0, w.used \in Ring, w.used.idx = 0,
           w.len \in [DescIdx -> Nat], w.data = [x \in Cell |-> w.data[x]]
    PROVE  ViewInv(w) /\ UsedCount(w) = 0
<1>1. 0 \in Idx /\ IdxSize > 0
  BY VirtioAssumption DEF Idx
<1>2. UsedCount(w) = 0 /\ AvailCount(w) = 0
  BY <1>1, CountIs DEF UsedCount, AvailCount
<1>3. Total(w) = 0
  BY <1>2 DEF Total
<1>4. ViewType(w)
  <2>1. Cardinality({}) = 0
    BY FS_EmptySet
  <2>2. QED
    BY <1>1, <2>1 DEF ViewType
<1>5. HeadsInv(w)
  BY <1>3 DEF HeadsInv
<1>6. CellsInv(w) /\ LensInv(w)
  BY <1>2 DEF CellsInv, LensInv
<1>7. QED
  BY <1>2, <1>4, <1>5, <1>6 DEF ViewInv

LEMMA SetUpQueue ==
    ASSUME IInv, QueueInv, SetUp PROVE QueueInv' /\ FifoStep
<1>1. /\ ring' = [a \in Addr |-> [idx |-> 0, ring |-> [h \in DescIdx |-> 0]]]
      /\ desc' = [a \in Addr |-> [h \in DescIdx |-> << >>]]
      /\ data' = [x \in Cell |-> Empty]
      /\ queue' = [q \in QueueId |->
                     [ready |-> 1, num |-> QueueNum[dev], last_avail_idx |-> 0,
                      desc_addr |-> Layout[q].desc, avail_addr |-> Layout[q].avail,
                      used_addr |-> Layout[q].used]]
      /\ drv = "off" /\ drv' = "run"
      /\ UNCHANGED <<dev, used_len, seen, owned>>
  BY DEF SetUp, others
<1>2. 0 \in QueueId /\ dev \in Devices /\ seen[0] = 0 /\ owned[0] = {}
  BY <1>1, QueuesAre DEF IInv, TypeOK, DriverInv, QueueInv
<1>3. /\ queue'[0].num = QueueNum[dev] /\ queue'[0].ready = 1 /\ queue'[0].last_avail_idx = 0
      /\ \A q \in QueueId : /\ queue'[q].desc_addr = Layout[q].desc
                            /\ queue'[q].avail_addr = Layout[q].avail
                            /\ queue'[q].used_addr = Layout[q].used
  BY <1>1, <1>2
<1>4. \A a \in Addr : ring'[a] \in Ring /\ ring'[a].idx = 0
  <2> DEFINE r == [idx |-> 0, ring |-> [h \in DescIdx |-> 0]]
  <2>1. 0 \in Idx /\ 0 \in DescIdx
    BY VirtioAssumption DEF Idx, DescIdx
  <2>2. r \in Ring /\ r.idx = 0
    BY <2>1 DEF Ring
  <2>3. \A a \in Addr : ring'[a] = r
    BY <1>1
  <2> HIDE DEF r
  <2>4. QED
    BY <2>2, <2>3
<1>5. RamType'
  <2>1. data' = [x \in Cell |-> data'[x]]
    BY <1>1
  <2>2. desc' = [a \in Addr |-> desc'[a]]
    BY <1>1
  <2>3. \A a \in Addr : desc'[a] = [h \in DescIdx |-> desc'[a][h]]
    BY <1>1
  <2>4. QED
    BY <1>1, <1>4, <2>1, <2>2, <2>3, VirtioAssumption DEF QueueInv, RamType
<1>6. ViewInv(V') /\ UsedCount(V') = 0
  <2>1. /\ Layout[0].avail \in Addr /\ Layout[0].used \in Addr
        /\ QueueNum[dev] \in 1 .. MaxQueueNum /\ IdxSize % QueueNum[dev] = 0
    BY <1>2, HostAssumption
  <2>2. /\ V'.num = QueueNum[dev] /\ V'.from = 0 /\ V'.own = {} /\ V'.last = 0
        /\ V'.avail = ring'[Layout[0].avail] /\ V'.used = ring'[Layout[0].used]
        /\ V'.len = used_len' /\ V'.data = data'
    BY <1>1, <1>2, <1>3 DEF V, View, Filled
  <2> DEFINE w == V'
  <2>3. /\ w.num \in 1 .. MaxQueueNum /\ IdxSize % w.num = 0
        /\ w.from = 0 /\ w.last = 0 /\ w.own = {}
        /\ w.avail \in Ring /\ w.avail.idx = 0 /\ w.used \in Ring /\ w.used.idx = 0
        /\ w.len \in [DescIdx -> Nat] /\ w.data = [x \in Cell |-> w.data[x]]
    BY <1>4, <1>5, <2>1, <2>2 DEF RamType
  <2> HIDE DEF w
  <2>4. ViewInv(w) /\ UsedCount(w) = 0
    BY <2>3, FreshView
  <2>5. QED
    BY <2>4 DEF w
<1>7. RunInv'
  <2>1. Cardinality(owned'[0]) = 0
    BY <1>1, <1>2, FS_EmptySet
  <2>2. Posted[dev][0] \in Nat
    BY <1>2, HostAssumption
  <2>3. ViewInv(V)'
    BY <1>6
  <2>4. QED
    BY <1>1, <1>2, <1>3, <2>1, <2>2, <2>3 DEF RunInv
<1>8. Unread' = << >>
  BY <1>6, EmptyIs, NextUnreadIs
<1>9. Unread = << >>
  BY <1>1, OffUnread
<1>10. QED
  BY <1>1, <1>5, <1>7, <1>8, <1>9 DEF QueueInv, FifoStep

\* The buffers of a chain are in the cells of its head.
LEMMA BufferCells ==
    ASSUME NEW d \in Devices, NEW c \in Buffers[d], NEW h \in DescIdx
    PROVE  LET w == WritableCells(ChainFrom(h * MaxCells, c))
           IN  /\ w \in Seq(Zone(h)) /\ Increasing(w)
               /\ d \notin {"net", "console"} => Len(w) > 0
<1> DEFINE base == h * MaxCells
           w == WritableCells(ChainFrom(base, c))
           n == CellsBefore(c)[Len(c)]
<1>1. /\ c \in Seq(DescriptorSizes) /\ c # << >> /\ n <= MaxCells
      /\ d \notin {"net", "console"} => c[1].write /\ c[1].len > 0
      /\ MaxCells \in Nat /\ h \in Nat
  BY BuffersAssumption DEF DescriptorSizes, DescIdx
<1>2. base \in Nat /\ (h + 1) * MaxCells = base + MaxCells
  BY <1>1
<1>3. Len(c) \in Nat \ {0} /\ n \in Nat
  <2>1. Len(c) \in Nat \ {0}
    BY <1>1, SizesAre
  <2>2. Len(c) \in 0 .. Len(c)
    BY <2>1
  <2>3. QED
    BY <1>1, <2>1, <2>2, CellsBeforeIs
<1> HIDE DEF base
<1>4. /\ w \in Seq(base .. base + n - 1) /\ Increasing(w)
      /\ d \notin {"net", "console"} => Len(w) > 0
  <2>1. (/\ 1 \in 1 .. Len(c) /\ c[1].write /\ c[1].len > 0
         /\ \A j \in 1 .. 1 : c[j].write => \A l \in j .. 1 : c[l].write) => Len(w) > 0
    BY <1>1, <1>2, WritableFrom
  <2>2. \A j \in 1 .. 1 : \A l \in j .. 1 : l = 1
    OBVIOUS
  <2>3. d \notin {"net", "console"} => Len(w) > 0
    BY <1>1, <1>3, <2>1, <2>2
  <2>4. w \in Seq(base .. base + n - 1) /\ Increasing(w)
    BY <1>1, <1>2, WritableFrom
  <2>5. QED
    BY <2>3, <2>4
<1>5. base .. base + n - 1 \subseteq Zone(h)
  BY <1>1, <1>2, <1>3 DEF Zone, base
<1>6. QED
  BY <1>4, <1>5, SeqWider DEF w, base

\* There is a head for the driver to take.
LEMMA FreeHead ==
    ASSUME NEW own \in SUBSET DescIdx, Cardinality(own) < MaxQueueNum
    PROVE  \E h \in DescIdx : h \notin own /\ \A k \in 0 .. h - 1 : k \in own
<1>1. MaxQueueNum \in Nat \ {0}
  BY VirtioAssumption
<1>2. DescIdx \ own # {}
  <2>1. Cardinality(DescIdx) = MaxQueueNum
    <3>1. 0 \in Int /\ MaxQueueNum - 1 \in Int
      BY <1>1
    <3>2. Cardinality(0 .. MaxQueueNum - 1)
            = IF 0 > MaxQueueNum - 1 THEN 0 ELSE (MaxQueueNum - 1) - 0 + 1
      BY <3>1, FS_Interval
    <3>3. QED
      BY <1>1, <3>2 DEF DescIdx
  <2>2. SUFFICES ASSUME DescIdx \ own = {} PROVE FALSE
    OBVIOUS
  <2>3. own = DescIdx
    BY <2>2
  <2>4. QED
    BY <1>1, <2>1, <2>3
<1>3. DescIdx \ own \in SUBSET Nat
  BY DEF DescIdx
<1>4. PICK h \in DescIdx \ own : \A k \in DescIdx \ own : ~(k < h)
  BY <1>2, <1>3, Handing!LeastNat
<1>5. \A k \in 0 .. h - 1 : k \in DescIdx /\ k < h
  BY <1>1 DEF DescIdx
<1>6. QED
  BY <1>4, <1>5

LEMMA PostQueue ==
    ASSUME IInv, QueueInv, NEW c \in Buffers[dev], Post(0, c) PROVE QueueInv' /\ FifoStep
<1> DEFINE own == owned[0]
           h == CHOOSE h \in DescIdx : h \notin own /\ \A k \in 0 .. h - 1 : k \in own
           chain == ChainFrom(h * MaxCells, c)
           aa == queue[0].avail_addr
           da == queue[0].desc_addr
<1>1. drv = "run" /\ RunInv /\ ViewInv(V) /\ RamType
  BY DEF Post, QueueInv, RunInv
<1>2. /\ own \in SUBSET DescIdx /\ V.own = own
      /\ Cardinality(own) < Posted[dev][0] /\ Posted[dev][0] <= QueueNum[dev]
      /\ Posted[dev][0] \in Nat /\ Posted[dev][0] < IdxSize
      /\ QueueNum[dev] \in 1 .. MaxQueueNum /\ V.num = QueueNum[dev] /\ dev \in Devices
  <2>1. dev \in Devices
    BY DEF IInv, TypeOK
  <2>2. own \in SUBSET DescIdx /\ V.own = own /\ V.num = queue[0].num
    BY <1>1, VIs DEF ViewInv, ViewType
  <2>3. Cardinality(own) < Posted[dev][0]
    BY DEF Post
  <2>4. /\ Posted[dev][0] \in 0 .. QueueNum[dev] /\ Posted[dev][0] < IdxSize
        /\ QueueNum[dev] \in 1 .. MaxQueueNum
    BY <2>1, HostAssumption
  <2>5. QED
    BY <1>1, <2>1, <2>2, <2>3, <2>4 DEF RunInv
<1>3. IsFiniteSet(own) /\ Cardinality(own) \in Nat
  BY <1>1, <1>2, HeadsFit DEF ViewInv
<1>4. Cardinality(own) < MaxQueueNum
  BY <1>2, <1>3, VirtioAssumption
<1>5. h \in DescIdx /\ h \notin own
  BY <1>2, <1>4, FreeHead
<1>6. /\ desc' = [desc EXCEPT ![da][h] = chain]
      /\ ring' = [ring EXCEPT ![aa] = WithEntry(0, ring[aa], h)]
      /\ owned' = [owned EXCEPT ![0] = own \cup {h}]
      /\ UNCHANGED <<queue, data, dev, used_len, drv, seen>>
  <2>1. h \in Nat /\ MaxQueueNum \in Nat
    BY <1>5, VirtioAssumption DEF DescIdx
  <2>2. (0 * MaxQueueNum + h) * MaxCells = h * MaxCells
    <3> HIDE DEF h
    <3>1. 0 * MaxQueueNum + h = h
      BY <2>1
    <3>2. QED
      BY <3>1
  <2> DEFINE b == (0 * MaxQueueNum + h) * MaxCells
  <2>3. /\ desc' = [desc EXCEPT ![da][h] = ChainFrom(b, c)]
        /\ ring' = [ring EXCEPT ![aa] = WithEntry(0, ring[aa], h)]
        /\ owned' = [owned EXCEPT ![0] = own \cup {h}]
        /\ UNCHANGED <<queue, data, dev, used_len, drv, seen>>
    BY DEF Post, others
  <2>4. b = h * MaxCells
    BY <2>2
  <2> HIDE DEF h, b
  <2>5. QED
    BY <2>3, <2>4
<1>7. /\ WritableCells(chain) \in Seq(Zone(h)) /\ Increasing(WritableCells(chain))
      /\ dev \notin {"net", "console"} => Len(WritableCells(chain)) > 0
  BY <1>2, <1>5, BufferCells
<1> HIDE DEF h, chain
<1>8. /\ 0 \in QueueId /\ aa \in Addr \ {0} /\ da \in Addr
      /\ queue[0].used_addr \in Addr /\ queue[0].used_addr # aa
  BY <1>1, PartsApart
<1>9. /\ ring'[aa] = WithEntry(0, ring[aa], h)
      /\ ring'[queue[0].used_addr] = ring[queue[0].used_addr] /\ ring'[0] = ring[0]
  BY <1>6, <1>8, VirtioAssumption DEF IInv, TypeOK
<1>10. owned'[0] = own \cup {h} /\ owned' = [q \in QueueId |-> owned'[q]]
  BY <1>1, <1>6, <1>8 DEF RamType
<1>11. /\ desc'[da][h] = chain
       /\ \A g \in DescIdx : g # h => desc'[da][g] = desc[da][g]
       /\ desc' = [a \in Addr |-> desc'[a]]
       /\ \A a \in Addr : desc'[a] = [g \in DescIdx |-> desc'[a][g]]
  <2> DEFINE t == [desc[da] EXCEPT ![h] = chain]
  <2>1. desc = [a \in Addr |-> desc[a]] /\ \A a \in Addr : desc[a] = [g \in DescIdx |-> desc[a][g]]
    BY <1>1 DEF RamType
  <2>2. /\ t = [g \in DescIdx |-> t[g]] /\ t[h] = chain
        /\ \A g \in DescIdx : g # h => t[g] = desc[da][g]
    BY <1>5, <1>8, <2>1
  <2>3. desc' = [desc EXCEPT ![da] = t]
    BY <1>6
  <2> HIDE DEF t, da
  <2>4. /\ desc' = [a \in Addr |-> desc'[a]] /\ desc'[da] = t
        /\ \A a \in Addr : a # da => desc'[a] = desc[a]
    BY <1>8, <2>1, <2>3
  <2>5. \A a \in Addr : desc'[a] = [g \in DescIdx |-> desc'[a][g]]
    <3>1. SUFFICES ASSUME NEW a \in Addr PROVE desc'[a] = [g \in DescIdx |-> desc'[a][g]]
      OBVIOUS
    <3>2. CASE a = da
      BY <2>2, <2>4, <3>2, Zenon
    <3>3. CASE a # da
      BY <2>1, <2>4, <3>3, Zenon
    <3>4. QED
      BY <3>2, <3>3
  <2>6. QED
    BY <2>2, <2>4, <2>5
<1>12. /\ V'.num = V.num /\ V'.from = V.from /\ V'.last = V.last /\ V'.used = V.used
       /\ V'.len = V.len /\ V'.data = V.data /\ V'.own = V.own \cup {h}
       /\ V'.avail = [idx  |-> (V.avail.idx + 1) % IdxSize,
                      ring |-> [V.avail.ring EXCEPT ![V.avail.idx % V.num] = h]]
       /\ V'.table = desc'[da] /\ V.table = desc[da]
  BY <1>6, <1>9, <1>10 DEF V, View, Filled, WithEntry, Slot
<1>13. IsPost(V, V', h)
  <2>1. V'.table[h] = chain /\ \A g \in V.own : V'.table[g] = V.table[g]
    BY <1>2, <1>5, <1>11, <1>12
  <2>2. QED
    BY <1>7, <1>12, <2>1 DEF IsPost
<1>14. /\ ViewInv(V') /\ UsedCount(V') = UsedCount(V)
       /\ \A i \in 1 .. UsedCount(V) : MessageAt(V', i) = MessageAt(V, i)
  <2>1. Cardinality(V.own) < V.num /\ Cardinality(V.own) + 1 < IdxSize /\ h \notin V.own
    BY <1>2, <1>3, <1>5, VirtioAssumption
  <2> DEFINE w == V'
  <2>2. IsPost(V, w, h)
    BY <1>13
  <2> HIDE DEF w
  <2>3. /\ ViewInv(w) /\ UsedCount(w) = UsedCount(V)
        /\ \A i \in 1 .. UsedCount(V) : MessageAt(w, i) = MessageAt(V, i)
    BY <1>1, <1>5, <2>1, <2>2, PostView
  <2>4. QED
    BY <2>3 DEF w
<1>15. RunInv'
  <2>1. Cardinality(owned'[0]) <= Posted[dev][0]
    <3>1. Cardinality(own \cup {h}) = Cardinality(own) + 1
      BY <1>3, <1>5, FS_AddElement
    <3>2. QED
      BY <1>2, <1>3, <1>10, <3>1
  <2>2. IsInput => \A g \in owned'[0] : Len(CellsOf(V', g)) > 0
    <3>1. SUFFICES ASSUME IsInput, NEW g \in owned'[0] PROVE Len(CellsOf(V', g)) > 0
      OBVIOUS
    <3>2. CASE g = h
      <4>1. V'.table[g] = chain
        BY <1>11, <1>12, <3>2
      <4>2. dev \notin {"net", "console"}
        BY <3>1 DEF IsInput
      <4>3. QED
        BY <1>7, <4>1, <4>2 DEF CellsOf
    <3>3. CASE g # h
      <4>1. g \in own /\ V'.table[g] = V.table[g]
        BY <1>2, <1>10, <1>11, <1>12, <3>3
      <4>2. Len(CellsOf(V, g)) > 0
        BY <1>1, <3>1, <4>1 DEF RunInv
      <4>3. QED
        BY <4>1, <4>2 DEF CellsOf
    <3>4. QED
      BY <3>2, <3>3
  <2>3. ViewInv(V)'
    BY <1>14
  <2>4. (\A g \in owned[0] : Len(CellsOf(V, g)) > 0)' <=> \A g \in owned'[0] : Len(CellsOf(V', g)) > 0
    BY SMTT(40) DEF CellsOf
  <2>5. QED
    BY <1>1, <1>6, <2>1, <2>2, <2>3, <2>4 DEF RunInv, IsInput
<1>16. RamType'
  BY <1>1, <1>6, <1>9, <1>10, <1>11 DEF RamType
<1>17. Unread' = Unread
  <2>1. Messages(V') = Messages(V)
    <3> DEFINE w == V'
               n == UsedCount(V)
    <3>1. UsedCount(w) = n /\ \A i \in 1 .. n : MessageAt(w, i) = MessageAt(V, i)
      BY <1>14
    <3> HIDE DEF w, n
    <3>2. [i \in 1 .. n |-> MessageAt(w, i)] = [i \in 1 .. n |-> MessageAt(V, i)]
      BY <3>1
    <3>3. Messages(w) = Messages(V)
      BY <3>1, <3>2, Zenon DEF Messages, n
    <3>4. QED
      BY <3>3 DEF w
  <2>2. QED
    BY <2>1, UnreadIs, NextUnreadIs
<1>18. QED
  BY <1>1, <1>6, <1>15, <1>16, <1>17 DEF QueueInv, FifoStep

LEMMA ScanQueue ==
    ASSUME IInv, QueueInv, Scan PROVE QueueInv' /\ FifoStep
<1> DEFINE own == owned[0]
           aa == queue[0].avail_addr
           da == queue[0].desc_addr
           ua == queue[0].used_addr
           n == UsedCount(V)
<1>1. drv = "scan" /\ RunInv /\ ViewInv(V) /\ RamType
  BY DEF Scan, QueueInv, RunInv
<1>2. /\ drv' = "run"
      /\ seen' = [q \in QueueId |-> UsedIdx(q)]
      /\ owned' = [q \in QueueId |-> owned[q] \ Range(UsedHeads(q))]
      /\ ring' = [a \in Addr |->
                    IF \E q \in QueueId : a = queue[q].used_addr
                    THEN [ring[a] EXCEPT !.ring = [h \in DescIdx |-> 0]] ELSE ring[a]]
      /\ used_len' = [i \in DescIdx |-> 0]
      /\ UNCHANGED <<queue, dev>>
  BY DEF Scan, UsedIdx
<1>3. /\ data' = [x \in Cell |-> IF x \div MaxCells \in owned'[0] THEN data[x] ELSE Empty]
      /\ desc' = [a \in Addr |-> [h \in DescIdx |->
                    IF \E q \in QueueId : a = queue[q].desc_addr /\ h \in owned'[q]
                    THEN desc[a][h] ELSE << >>]]
  BY DEF Scan
<1>4. /\ 0 \in QueueId /\ aa \in Addr /\ da \in Addr /\ ua \in Addr
      /\ \A q \in QueueId : aa # queue[q].used_addr /\ queue[q].used_addr # 0
  BY <1>1, PartsApart
<1>5. /\ V.num = queue[0].num /\ V.from = seen[0] /\ V.own = own
      /\ V.avail = ring[aa] /\ V.table = desc[da] /\ V.used = ring[ua]
      /\ n \in Nat /\ V.used \in Ring
  BY <1>1, VIs, ViewCounts DEF ViewInv, ViewType
<1>6. Range(UsedHeads(0)) = {HeadAt(V, i) : i \in 1 .. n}
  <2>1. n = (ring[ua].idx - seen[0]) % IdxSize
    BY <1>5 DEF UsedCount, Count
  <2>2. Slots(0) = [i \in 1 .. n |-> Slot(0, seen[0] + i - 1)]
    BY <2>1 DEF Slots
  <2> DEFINE G(i) == ring[ua].ring[Slot(0, seen[0] + i - 1)]
  <2>3. \A i \in 1 .. n : HeadAt(V, i) = G(i)
    BY <1>5 DEF HeadAt, UsedSlot, Slot
  <2>4. UsedHeads(0) = [i \in 1 .. n |-> G(i)]
    <3> DEFINE F(i) == Slot(0, seen[0] + i - 1)
    <3>1. Slots(0) = [i \in 1 .. n |-> F(i)] /\ n \in Nat /\ \A i : G(i) = ring[ua].ring[F(i)]
      BY <1>5, <2>2
    <3>2. UsedHeads(0) = [i \in 1 .. Len(Slots(0)) |-> ring[ua].ring[Slots(0)[i]]]
      BY DEF UsedHeads
    <3> HIDE DEF F, G, n, ua
    <3>3. Len([i \in 1 .. n |-> F(i)]) = n
      BY <3>1
    <3>4. Len(Slots(0)) = n /\ \A i \in 1 .. n : Slots(0)[i] = F(i)
      BY <3>1, <3>3
    <3>5. \A i \in 1 .. n : ring[ua].ring[Slots(0)[i]] = G(i)
      BY <3>1, <3>4
    <3>6. QED
      BY <3>2, <3>4, <3>5
  <2> HIDE DEF G, n
  <2>5. UsedHeads(0) = [i \in 1 .. n |-> HeadAt(V, i)]
    BY <2>3, <2>4
  <2> DEFINE f == [i \in 1 .. n |-> HeadAt(V, i)]
  <2>6. Range(f) = {HeadAt(V, i) : i \in 1 .. n}
    BY DEF Range
  <2>7. QED
    BY <2>5, <2>6
<1>7. owned'[0] = own \ {HeadAt(V, i) : i \in 1 .. n} /\ owned' = [q \in QueueId |-> owned'[q]]
  BY <1>2, <1>4, <1>6
<1>8. ring'[aa] = ring[aa] /\ ring'[0] = ring[0]
  BY <1>2, <1>4, VirtioAssumption
<1>9. ring'[ua] \in Ring /\ ring'[ua].idx = ring[ua].idx
  <2>1. ring'[ua] = [ring[ua] EXCEPT !.ring = [h \in DescIdx |-> 0]]
    BY <1>2, <1>4
  <2>2. ring[ua] \in Ring /\ 0 \in DescIdx
    BY <1>5, VirtioAssumption DEF DescIdx
  <2>3. QED
    BY <2>1, <2>2 DEF Ring
<1>10. \A h \in owned'[0] : desc'[da][h] = desc[da][h]
  <2>1. own \subseteq DescIdx
    BY <1>1, <1>5 DEF ViewInv, ViewType
  <2>2. \A h \in owned'[0] : h \in DescIdx
    BY <1>7, <2>1
  <2>3. QED
    BY <1>3, <1>4, <2>2
<1>11. RamType'
  <2>1. desc' = [a \in Addr |-> desc'[a]]
    BY <1>3
  <2>2. \A a \in Addr : desc'[a] = [h \in DescIdx |-> desc'[a][h]]
    BY <1>3
  <2>3. data' = [x \in Cell |-> data'[x]]
    BY <1>3
  <2>4. used_len' \in [DescIdx -> Nat]
    BY <1>2
  <2>5. QED
    BY <1>1, <1>7, <1>8, <2>1, <2>2, <2>3, <2>4 DEF RamType
<1>12. /\ V'.num = V.num /\ V'.last = V.last /\ V'.avail = V.avail
       /\ V'.from = V.used.idx /\ V'.used = ring'[ua] /\ V'.own = owned'[0]
       /\ V'.table = desc'[da] /\ V'.len = used_len' /\ V'.data = data'
  <2>1. seen'[0] = ring[ua].idx
    BY <1>2, <1>4 DEF UsedIdx
  <2>2. QED
    BY <1>2, <1>5, <1>8, <2>1 DEF V, View, Filled
<1>13. ViewInv(V') /\ UsedCount(V') = 0
  <2> DEFINE w == V'
  <2>1. w.own = V.own \ {HeadAt(V, i) : i \in 1 .. UsedCount(V)}
    BY <1>5, <1>7, <1>12
  <2>2. w.used.idx = V.used.idx /\ w.used \in Ring
    BY <1>5, <1>9, <1>12
  <2>3. \A h \in w.own : w.table[h] = V.table[h]
    BY <1>5, <1>10, <1>12
  <2>4. w.len \in [DescIdx -> Nat] /\ w.data = [x \in Cell |-> w.data[x]]
    BY <1>11, <1>12 DEF RamType
  <2>5. IsScan(V, w)
    BY <1>12, <2>1, <2>2, <2>3, <2>4 DEF IsScan
  <2> HIDE DEF w
  <2>6. ViewInv(w) /\ UsedCount(w) = 0
    BY <1>1, <2>5, ScanView
  <2>7. QED
    BY <2>6 DEF w
<1>14. RunInv'
  <2>1. Cardinality(owned'[0]) <= Posted[dev][0]
    <3>1. IsFiniteSet(own) /\ Cardinality(own) \in Nat
      BY <1>1, <1>5, HeadsFit DEF ViewInv
    <3>2. owned'[0] \subseteq own
      BY <1>7
    <3>3. IsFiniteSet(owned'[0]) /\ Cardinality(owned'[0]) <= Cardinality(own)
      BY <3>1, <3>2, FS_Subset
    <3>4. Cardinality(owned'[0]) \in Nat
      BY <3>3, FS_CardinalityType
    <3>5. Cardinality(own) <= Posted[dev][0] /\ Posted[dev][0] \in Nat
      BY <1>1, HostAssumption DEF RunInv, IInv, TypeOK
    <3>6. QED
      BY <3>1, <3>3, <3>4, <3>5
  <2>2. IsInput => \A h \in owned'[0] : Len(CellsOf(V', h)) > 0
    <3>1. \A h \in owned'[0] : h \in own /\ CellsOf(V', h) = CellsOf(V, h)
      BY <1>5, <1>7, <1>10, <1>12 DEF CellsOf
    <3>2. QED
      BY <1>1, <3>1 DEF RunInv
  <2>3. ViewInv(V)'
    BY <1>13
  <2>4. (\A h \in owned[0] : Len(CellsOf(V, h)) > 0)' <=> \A h \in owned'[0] : Len(CellsOf(V', h)) > 0
    BY DEF CellsOf
  <2>5. QED
    BY <1>1, <1>2, <2>1, <2>2, <2>3, <2>4 DEF RunInv, IsInput
<1>15. Unread' = << >>
  BY <1>13, EmptyIs, NextUnreadIs
<1>16. FifoStep
  BY <1>5, <1>15, UnreadIs, EmptiedIsStep
<1>17. QED
  BY <1>2, <1>11, <1>14, <1>16 DEF QueueInv

LEMMA InitQueueInv == Init => QueueInv
<1> SUFFICES ASSUME Init PROVE QueueInv
  OBVIOUS
<1>1. /\ queue = [q \in QueueId |-> ResetQueue]
      /\ ring = [a \in Addr |-> [idx |-> 0, ring |-> [h \in DescIdx |-> 0]]]
      /\ desc = [a \in Addr |-> [h \in DescIdx |-> << >>]]
      /\ data = [c \in Cell |-> 0]
      /\ used_len = [i \in DescIdx |-> 0]
      /\ drv = "off" /\ owned = [q \in QueueId |-> {}]
  BY DEF Init, VirtioInit
<1>2. ring[0].idx = 0
  BY <1>1, VirtioAssumption
<1>3. desc = [a \in Addr |-> desc[a]] /\ \A a \in Addr : desc[a] = [h \in DescIdx |-> desc[a][h]]
  BY <1>1
<1>4. /\ used_len \in [DescIdx -> Nat] /\ owned = [q \in QueueId |-> owned[q]]
      /\ data = [x \in Cell |-> data[x]]
  BY <1>1
<1>5. QED
  BY <1>1, <1>2, <1>3, <1>4, QueuesAre DEF QueueInv, RamType

LEMMA StepQueueInv == IInv /\ QueueInv /\ [Next]_vars => QueueInv' /\ FifoStep
<1> SUFFICES ASSUME IInv, QueueInv, [Next]_vars PROVE QueueInv' /\ FifoStep
  OBVIOUS
<1>1. CASE Packet \/ Typed \/ Resize \/ Key \/ Mouse
  BY <1>1, PacketQueue, TypedQueue, ResizeQueue, KeyQueue, MouseQueue
<1>2. CASE SetUp \/ Reset \/ Notify
  BY <1>2, SetUpQueue, ResetKeepsQueue, NotifyQueue
<1>3. CASE \E c \in Buffers[dev] : Post(0, c)
  BY <1>3, PostQueue
<1>4. CASE \E c \in Sent[dev] : Post(1, c)
  BY <1>4, PostOther
<1>5. CASE ReadCauses \/ Acknowledge \/ AcknowledgePCI \/ Scan
  BY <1>5, InterruptQueue, ScanQueue
<1>6. CASE UNCHANGED vars
  <2>1. UNCHANGED <<queue, ram, dev, used_len, seen, owned, drv>>
    BY <1>6 DEF vars, virtioVars, driver
  <2>2. QED
    BY <2>1, QuietQueue
<1>7. QED
  BY <1>1, <1>2, <1>3, <1>4, <1>5, <1>6 DEF Next, Driver

\* What the driver finds in the used buffers is what the host's calls put
\* there, each message whole, once and in their order, for queues of any size
\* and a call of any length, wherever the indices wrap around and whatever the
\* driver posts, resets or reads between the calls (memcpy_to_queue,
\* virtio_consume_desc, virtio_net_write_packet, virtio_console_write_data,
\* virtio_input_queue_event).
THEOREM MessagesArriveInOrder == Spec => ImplementsFifo
<1>1. Init => IInv /\ QueueInv /\ Fifo!Init
  <2>1. Init => IInv /\ QueueInv /\ drv = "off"
    BY InitIInv, InitQueueInv DEF Init
  <2>2. QED
    BY <2>1, OffUnread DEF Fifo!Init
<1>2. IInv /\ QueueInv /\ [Next]_vars => IInv' /\ QueueInv' /\ [Fifo!Next]_Unread
  BY StepIInv, StepQueueInv DEF FifoStep
<1>3. QED
  BY <1>1, <1>2, PTL DEF Spec, ImplementsFifo, Fifo!Spec
=============================================================================
