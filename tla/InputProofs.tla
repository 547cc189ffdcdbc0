------------------------------ MODULE InputProofs ------------------------------
(***************************************************************************)
(* Proofs about InputChannel, for any keys, mouse events and flags, any width *)
(* of a short, any number of posted receives and of events.  A key, a flag or *)
(* an amount is in one place at a time: the atomics, the packet, the receiver's *)
(* buffer, its copy or SendInput, and the keys further on are the earlier ones. *)
(***************************************************************************)
EXTENDS InputChannel, KeyCombos, TLAPS

\* A receive is posted, or completed, or is the one the receiver is to post.
CreditsAccounted ==
  /\ posted + completed \in {Credits, Credits + 1}
  /\ connected => cPc \notin {"aborted", "returned"}
  /\ cPc \notin {"aborted", "returned"} =>
       posted + completed = Credits + (IF cPc = "wait" THEN 1 ELSE 0)

\* Unless a packet landed on one not yet read, the buffer holds one at most.
OneLanded == ~overrun => completed \in {0, 1} /\ (cPc = "read" => completed = 0)

\* The slot and the packet while a key is stored, exchanged, or neither.
KeyInOnePlace ==
  ~torn /\ ~overwritten =>
    /\ ~(TakingKey /\ StoringKey)
    /\ StoringKey => wKey \in KeyEvents /\ mScan = wKey[1] /\ ~mE0
    /\ wPc = "down" => mDown = 2
    /\ wPc = "e0" => mDown = wKey[2] /\ wKey[3]
    /\ TakingKey => mScan = 0
    /\ sPc = "e0" => mDown = 2
    /\ mScan = 0 /\ ~TakingKey => mDown = 2 /\ ~mE0
    /\ sPc = "down" /\ packet.key[1] = 0 => mDown = 2
    /\ TakingKey /\ packet.key[1] = 0 => ~mE0

\* The key in the slot, and in the packet, when their fields are complete.
SlotKey == IF StoringKey THEN wKey ELSE <<mScan, mDown, mE0>>
PacketKey ==
  <<packet.key[1], IF sPc = "down" THEN mDown ELSE packet.key[2],
    IF TakingKey THEN mE0 ELSE packet.key[3]>>

InSlot == mScan # 0
InPacket == sPc \in {"down", "e0", "send", "returned"} /\ packet.key[1] # 0
InBuffer == Landed /\ buffer.key[1] # 0
InRead == Held /\ read.key[1] # 0

\* How many keys typed lie before the one in each place.
BeforeBuffer == Len(injected) + One(InRead)
BeforePacket == BeforeBuffer + One(InBuffer)
BeforeSlot == BeforePacket + One(InPacket)

Undisturbed == ~overwritten /\ ~torn /\ ~overrun /\ ~refused

KeysInOrder ==
  Undisturbed =>
    /\ Len(typed) = BeforeSlot + One(InSlot)
    /\ \A i \in 1..Len(injected) : injected[i] = typed[i]
    /\ InRead => read.key = typed[Len(injected) + 1]
    /\ InBuffer => buffer.key = typed[BeforeBuffer + 1]
    /\ InPacket => PacketKey = typed[BeforePacket + 1]
    /\ InSlot => SlotKey = typed[BeforeSlot + 1]

\* As long as no event has absolute coordinates, no packet is rescaled.
RelativeOnly ==
  ~absolute =>
    /\ ~mAbsolute /\ ~wMouse.absolute
    /\ ~packet.absolute /\ ~buffer.absolute /\ ~read.absolute

\* An amount of the wheel has RI_MOUSE_WHEEL with it, or about to be with it.
TurnWithFlag ==
  ~split /\ ~tilted =>
    /\ StoringWheel => Wheel \in wMouse.flags /\ ~TakingWheel
    /\ mWheel # 0 => ~TakingWheel /\ (Wheel \in mButtons \/ StoringWheel)
    /\ TakingWheel /\ packet.wheel # 0 => Wheel \in mButtons
    /\ ButtonsPacked /\ packet.wheel # 0 => Wheel \in packet.buttons
    /\ Landed /\ buffer.wheel # 0 => Wheel \in buffer.buttons
    /\ Held /\ read.wheel # 0 => Wheel \in read.buttons

\* An X flag among these flags is beside no other, and not beside the wheel's.
Alone(buttons) ==
  \A f \in XFlags \cap buttons :
    \A g \in buttons : g \in XFlags \cup {Wheel} => g = f

XFlagsAlone ==
  ~mixed =>
    /\ Alone(mButtons)
    /\ ButtonsPacked => Alone(packet.buttons)
    /\ Landed => Alone(buffer.buttons)
    /\ Held => Alone(read.buttons)

IInv ==
  /\ TypeOK /\ NoLostWakeup /\ CreditsAccounted /\ OneLanded
  /\ RelativeOnly /\ TurnWithFlag /\ XFlagsAlone
  /\ ClicksConserved /\ DeltaConserved /\ WheelConserved
  /\ KeyInOnePlace /\ KeysInOrder

-----------------------------------------------------------------------------
(* Sums of shorts wrap: taking the remainder early or late is the same.      *)

LEMMA Multiple ==
  ASSUME NEW k \in Int, k * Range16 < Range16, 0 - Range16 < k * Range16
  PROVE  k = 0
<1> USE InputAssumption
<1>1. CASE k >= 1
  <2>1. (k - 1) * Range16 >= 0
    BY <1>1
  <2> QED
    BY <1>1, <2>1
<1>2. CASE k <= 0 - 1
  <2>1. (0 - 1 - k) * Range16 >= 0
    BY <1>2
  <2> QED
    BY <1>2, <2>1
<1> QED
  BY <1>1, <1>2

LEMMA WrapIsRest ==
  ASSUME NEW a \in Int
  PROVE  /\ Wrap(a) \in Shorts /\ a \div Range16 \in Int
         /\ a = Range16 * (a \div Range16) + Wrap(a)
BY InputAssumption DEF Wrap, Shorts

LEMMA RestIsUnique ==
  ASSUME NEW a \in Int, NEW q \in Int, NEW r \in Shorts, a = Range16 * q + r
  PROVE  r = Wrap(a)
<1> DEFINE s == Wrap(a)
           p == a \div Range16
<1> USE InputAssumption
<1>1. s \in Shorts /\ p \in Int /\ a = Range16 * p + s
  BY WrapIsRest
<1> HIDE DEF s, p
<1>2. (p - q) * Range16 = r - s
  BY <1>1 DEF Shorts
<1>3. p - q = 0
  BY <1>1, <1>2, Multiple DEF Shorts
<1>4. r = s
  BY <1>1, <1>2, <1>3 DEF Shorts
<1> QED
  BY <1>4 DEF s

LEMMA WrapEarly ==
  ASSUME NEW a \in Int, NEW b \in Int
  PROVE  Wrap(Wrap(a) + b) = Wrap(a + b)
<1> DEFINE s == Wrap(a)
           p == a \div Range16
           t == Wrap(s + b)
           u == (s + b) \div Range16
<1> USE InputAssumption
<1>1. s \in Shorts /\ p \in Int /\ a = Range16 * p + s
  BY WrapIsRest
<1>2. t \in Shorts /\ u \in Int /\ s + b = Range16 * u + t
  <2>1. s + b \in Int
    BY <1>1 DEF Shorts
  <2> QED
    BY <2>1, WrapIsRest
<1> HIDE DEF s, p, t, u
<1>3. a + b = Range16 * (p + u) + t
  BY <1>1, <1>2 DEF Shorts
<1>4. p + u \in Int /\ a + b \in Int
  BY <1>1, <1>2
<1>5. t = Wrap(a + b)
  BY <1>2, <1>3, <1>4, RestIsUnique
<1> QED
  BY <1>5 DEF s, t

LEMMA WrapSum ==
  ASSUME NEW a \in Int, NEW b \in Int, NEW d \in Int, Wrap(a) = Wrap(b)
  PROVE  Wrap(a + d) = Wrap(b + d)
BY WrapEarly

-----------------------------------------------------------------------------

MouseFields == [x : Int, wheel : Int, flags : SUBSET Flags, absolute : BOOLEAN]

LEMMA DataFacts ==
  /\ 0 \in Shorts /\ Shorts \subseteq Nat
  /\ 0 \in Codes /\ NoKey \in KeyFields /\ Nothing \in Packets
  /\ \A k \in KeyEvents : k \in KeyFields /\ k[1] \in Codes
  /\ MouseEvents \cup {NoMouse} \subseteq MouseFields
<1>1. 0 \in Shorts /\ Shorts \subseteq Nat
  BY InputAssumption DEF Shorts
<1>2. 0 \in Codes /\ \A k \in KeyEvents : k[1] \in Codes
  BY DEF Codes
<1>3. NoKey \in KeyFields
  BY <1>2 DEF NoKey, KeyFields
<1>4. Nothing \in Packets
  BY <1>1, <1>3 DEF Nothing, Packets, ButtonFields
<1>5. \A k \in KeyEvents : k \in KeyFields
  BY <1>2, InputAssumption DEF KeyFields
<1>6. MouseEvents \cup {NoMouse} \subseteq MouseFields
  <2>1. MouseEvents \subseteq MouseFields
    BY InputAssumption DEF MouseFields
  <2>2. NoMouse \in MouseFields
    BY DEF MouseFields, NoMouse
  <2> QED
    BY <2>1, <2>2
<1> QED
  BY <1>1, <1>2, <1>3, <1>4, <1>5, <1>6

\* An exchange replaces one field of the packet's key.
LEMMA KeyTaken ==
  ASSUME NEW p \in Packets, NEW c \in Codes, NEW d \in {0, 1, 2, 3}, NEW e \in BOOLEAN
  PROVE  /\ [p EXCEPT !.key[1] = c] = [p EXCEPT !.key = <<c, p.key[2], p.key[3]>>]
         /\ [p EXCEPT !.key[2] = d] = [p EXCEPT !.key = <<p.key[1], d, p.key[3]>>]
         /\ [p EXCEPT !.key[3] = e] = [p EXCEPT !.key = <<p.key[1], p.key[2], e>>]
<1>1. p.key \in KeyFields
  BY DEF Packets
<1>2. [p.key EXCEPT ![1] = c] = <<c, p.key[2], p.key[3]>>
  BY <1>1 DEF KeyFields
<1>3. [p.key EXCEPT ![2] = d] = <<p.key[1], d, p.key[3]>>
  BY <1>1 DEF KeyFields
<1>4. [p.key EXCEPT ![3] = e] = <<p.key[1], p.key[2], e>>
  BY <1>1 DEF KeyFields
<1> QED
  BY <1>2, <1>3, <1>4

\* The three key exchanges of the sender.
LEMMA Taken ==
  ASSUME TypeOK
  PROVE  /\ packet.key \in KeyFields /\ packet \in Packets
         /\ mScan \in Codes /\ mDown \in {0, 1, 2, 3} /\ mE0 \in BOOLEAN
         /\ TakeScan =>
              packet' = [packet EXCEPT !.key = <<mScan, packet.key[2], packet.key[3]>>]
         /\ TakeDown =>
              packet' = [packet EXCEPT !.key = <<packet.key[1], mDown, packet.key[3]>>]
         /\ TakeE0 =>
              packet' = [packet EXCEPT !.key = <<packet.key[1], packet.key[2], mE0>>]
<1>1. mScan \in Codes /\ mDown \in {0, 1, 2, 3} /\ mE0 \in BOOLEAN
  BY DEF TypeOK, KeyFields
<1>2. packet \in Packets
  BY DEF TypeOK
<1>3. packet.key \in KeyFields
  BY <1>2 DEF Packets
<1> QED
  BY <1>1, <1>2, <1>3, KeyTaken DEF TakeScan, TakeDown, TakeE0

LEMMA TypeStep == TypeOK /\ CreditsAccounted /\ [Next]_vars => TypeOK'
<1> SUFFICES ASSUME TypeOK, CreditsAccounted, [Next]_vars PROVE TypeOK'
  OBVIOUS
<1> USE InputAssumption
    DEF TypeOK, windowVars, userVars, slotVars, mouseVars, keyVars, receiverVars,
        injectedVars, lossVars, flagVars, Sources, Others, Rest
<1> USE DataFacts
<1>1. ASSUME NEW e \in MouseEvents, StoreX(e) PROVE TypeOK'
  <2>0. e \in MouseFields
    OBVIOUS
  <2>1. mX + e.x \in Int /\ moved + e.x \in Int /\ e.absolute \in BOOLEAN
    BY <2>0 DEF MouseFields
  <2>2. Wrap(mX + e.x) \in Shorts
    BY <2>1, WrapIsRest
  <2>3. absolute' \in BOOLEAN
    BY <1>1, <2>1 DEF StoreX
  <2> QED
    BY <1>1, <2>1, <2>2, <2>3 DEF StoreX
<1>2. CASE StoreWheel
  <2>0. wMouse \in MouseFields
    OBVIOUS
  <2>1. mWheel + wMouse.wheel \in Int /\ turned + wMouse.wheel \in Int
    BY <2>0 DEF MouseFields
  <2>2. Wrap(mWheel + wMouse.wheel) \in Shorts
    BY <2>1, WrapIsRest
  <2>3. tilted' \in BOOLEAN /\ split' \in BOOLEAN
    BY <1>2 DEF StoreWheel
  <2> QED
    BY <1>2, <2>1, <2>2, <2>3 DEF StoreWheel
<1>21. CASE StoreFlags
  <2>0. wMouse \in MouseFields
    OBVIOUS
  <2>1. wMouse.flags \subseteq Flags
    BY <2>0 DEF MouseFields
  <2>2. mButtons' \in ButtonFields /\ merged' \subseteq Flags
    BY <1>21, <2>1 DEF StoreFlags, ButtonFields
  <2>3. clicked' \in [Flags -> Nat]
    BY <1>21 DEF StoreFlags, One
  <2>4. mixed' \in BOOLEAN
    BY <1>21 DEF StoreFlags
  <2> QED
    BY <1>21, <2>2, <2>3, <2>4 DEF StoreFlags
<1>22. CASE StoreAbsolute
  <2>0. wMouse \in MouseFields
    OBVIOUS
  <2>1. wMouse.absolute \in BOOLEAN
    BY <2>0 DEF MouseFields
  <2> QED
    BY <1>22, <2>1 DEF StoreAbsolute
<1>3. ASSUME NEW k \in KeyEvents, TypeKey(k) PROVE TypeOK'
  <2>1. <<k[1], mDown, mE0>> \in KeyFields
    BY DEF KeyFields
  <2>2. Append(typed, k) \in Seq(KeyEvents)
    OBVIOUS
  <2> QED
    BY <1>3, <2>1, <2>2 DEF TypeKey, TakingKey
<1>4. CASE StoreDown
  BY <1>4 DEF StoreDown, KeyFields
<1>5. CASE StoreE0
  <2>1. <<mScan, mDown, TRUE>> \in KeyFields
    BY DEF KeyFields
  <2> QED
    BY <1>5, <2>1 DEF StoreE0
<1>6. CASE SignalEvent \/ CloseWindow
  BY <1>6 DEF SignalEvent, CloseWindow
<1>7. CASE Wake
  BY <1>7 DEF Wake
<1>8. CASE TakeX
  BY <1>8 DEF TakeX, Packets
<1>81. CASE TakeWheel
  <2>1. split' \in BOOLEAN
    BY <1>81 DEF TakeWheel
  <2> QED
    BY <1>81, <2>1 DEF TakeWheel, Packets
<1>82. CASE TakeAbsolute
  BY <1>82 DEF TakeAbsolute, Packets
<1>9. CASE TakeButtons
  BY <1>9 DEF TakeButtons, Packets, ButtonFields
<1>10. CASE TakeScan
  <2>1. /\ <<mScan, packet.key[2], packet.key[3]>> \in KeyFields
        /\ <<0, mDown, mE0>> \in KeyFields
    BY Taken DEF KeyFields
  <2>2. packet' \in Packets
    BY <1>10, <2>1, Taken DEF Packets
  <2> QED
    BY <1>10, <2>1, <2>2 DEF TakeScan, StoringKey
<1>11. CASE TakeDown
  <2>1. /\ <<packet.key[1], mDown, packet.key[3]>> \in KeyFields
        /\ <<mScan, 2, mE0>> \in KeyFields
    BY Taken DEF KeyFields
  <2>2. packet' \in Packets
    BY <1>11, <2>1, Taken DEF Packets
  <2> QED
    BY <1>11, <2>1, <2>2 DEF TakeDown
<1>12. CASE TakeE0
  <2>1. /\ <<packet.key[1], packet.key[2], mE0>> \in KeyFields
        /\ <<mScan, mDown, FALSE>> \in KeyFields
    BY Taken DEF KeyFields
  <2>2. packet' \in Packets
    BY <1>12, <2>1, Taken DEF Packets
  <2> QED
    BY <1>12, <2>1, <2>2 DEF TakeE0
<1>13. CASE SendDelivered
  BY <1>13 DEF SendDelivered, CreditsAccounted
<1>14. CASE SendFails \/ SendCancelled
  BY <1>14 DEF SendFails, SendCancelled
<1>15. CASE PostReceive
  BY <1>15 DEF PostReceive, CreditsAccounted
<1>16. CASE ReceiveCompleted
  BY <1>16 DEF ReceiveCompleted
<1>17. CASE ReadPacket
  BY <1>17 DEF ReadPacket
<1>18. ASSUME NEW m \in BOOLEAN, NEW k \in BOOLEAN, Inject(m, k) PROVE TypeOK'
  <2>1. injectedX + HandedX \in Nat /\ injectedWheel + HandedWheel \in Nat
    <3>1. read.x \in Nat /\ read.wheel \in Nat
      BY DEF Packets
    <3>2. HandedX \in Nat /\ HandedWheel \in Nat
      BY <3>1 DEF HandedX, HandedWheel
    <3> QED
      BY <3>2
  <2>2. Append(injected, read.key) \in Seq(KeyFields)
    BY DEF Packets
  <2>3. [f \in Flags |-> injectedFlags[f] + One(f \in HandedFlags)] \in [Flags -> Nat]
    BY DEF One
  <2>4. refused' \in BOOLEAN
    BY <1>18 DEF Inject
  <2>5. injected' \in Seq(KeyFields)
    BY <1>18, <2>2 DEF Inject
  <2>6. /\ injectedX' \in Nat /\ injectedWheel' \in Nat
        /\ injectedFlags' \in [Flags -> Nat]
    BY <1>18, <2>1, <2>3 DEF Inject, InjectMouse
  <2> QED
    BY <1>18, <2>4, <2>5, <2>6 DEF Inject
<1>19. CASE Abort \/ ReceiverReturns \/ Disconnect
  <2>1. CASE Abort
    BY <2>1 DEF Abort
  <2>2. CASE ReceiverReturns
    BY <2>2 DEF ReceiverReturns
  <2>3. CASE Disconnect
    BY <2>3 DEF Disconnect
  <2> QED
    BY <1>19, <2>1, <2>2, <2>3
<1>20. CASE UNCHANGED vars
  BY <1>20 DEF vars
<1> HIDE DEF TypeOK, windowVars, userVars, slotVars, mouseVars, keyVars, receiverVars,
       injectedVars, lossVars, flagVars, Sources, Others, Rest
<1> QED
  BY <1>1, <1>2, <1>21, <1>22, <1>81, <1>82, <1>3, <1>4, <1>5, <1>6, <1>7, <1>8, <1>9,
     <1>10, <1>11, <1>12,
     <1>13, <1>14, <1>15, <1>16, <1>17, <1>18, <1>19, <1>20
  DEF Next, Window, Sender, Receiver, InjectPacket

LEMMA WakeupStep == TypeOK /\ NoLostWakeup /\ [Next]_vars => NoLostWakeup'
<1> SUFFICES ASSUME TypeOK, NoLostWakeup, [Next]_vars PROVE NoLostWakeup'
  OBVIOUS
<1> USE DEF NoLostWakeup, slotVars, mouseVars, keyVars
<1>1. CASE Window
  <2>1. UNCHANGED sPc
    BY <1>1
    DEF Window, StoreX, StoreWheel, StoreFlags, StoreAbsolute, TypeKey, StoreDown,
        StoreE0,
                SignalEvent, CloseWindow, Sources
  <2>2. ASSUME NEW e \in MouseEvents, StoreX(e) PROVE NoLostWakeup'
    BY <2>1, <2>2 DEF StoreX
  <2>3. CASE StoreWheel \/ StoreFlags \/ StoreAbsolute
    BY <2>1, <2>3 DEF StoreWheel, StoreFlags, StoreAbsolute
  <2>4. ASSUME NEW k \in KeyEvents, TypeKey(k) PROVE NoLostWakeup'
    BY <2>1, <2>4 DEF TypeKey
  <2>5. CASE StoreDown
    BY <2>1, <2>5 DEF StoreDown
  <2>6. CASE StoreE0 \/ SignalEvent \/ CloseWindow
    BY <2>1, <2>6 DEF StoreE0, SignalEvent, CloseWindow
  <2> QED
    BY <1>1, <2>2, <2>3, <2>4, <2>5, <2>6 DEF Window
<1>2. CASE Sender
  <2>1. UNCHANGED wPc
    BY <1>2
    DEF Sender, Wake, TakeX, TakeWheel, TakeAbsolute, TakeButtons, TakeScan, TakeDown,
        TakeE0,
                SendDelivered, SendFails, SendCancelled, Others, windowVars, userVars
  <2>2. CASE Wake
    BY <2>1, <2>2 DEF Wake
  <2>3. CASE TakeX \/ TakeWheel \/ TakeAbsolute \/ TakeButtons
    BY <2>1, <2>3 DEF TakeX, TakeWheel, TakeAbsolute, TakeButtons
  <2>4. CASE TakeScan
    BY <2>1, <2>4 DEF TakeScan
  <2>5. CASE TakeDown \/ TakeE0
    BY <2>1, <2>5 DEF TakeDown, TakeE0
  <2>6. CASE SendDelivered
    BY <2>1, <2>6 DEF SendDelivered
  <2>7. CASE SendFails \/ SendCancelled
    BY <2>1, <2>7 DEF SendFails, SendCancelled
  <2> QED
    BY <1>2, <2>2, <2>3, <2>4, <2>5, <2>6, <2>7 DEF Sender
<1>3. CASE Receiver \/ Disconnect
  BY <1>3
  DEF Receiver, PostReceive, ReceiveCompleted, ReadPacket, InjectPacket, Inject,
      Abort, ReceiverReturns, Disconnect, Rest, windowVars, userVars
<1>4. CASE UNCHANGED vars
  BY <1>4 DEF vars, windowVars, userVars
<1> QED
  BY <1>1, <1>2, <1>3, <1>4 DEF Next

LEMMA CreditsStep ==
  TypeOK /\ CreditsAccounted /\ [Next]_vars => CreditsAccounted'
<1> SUFFICES ASSUME TypeOK, CreditsAccounted, [Next]_vars PROVE CreditsAccounted'
  OBVIOUS
<1>0. posted \in Int /\ completed \in Int /\ Credits \in Int /\ connected \in BOOLEAN
  BY InputAssumption DEF TypeOK
<1> USE <1>0 DEF CreditsAccounted
<1>1. CASE Window
  BY <1>1
  DEF Window, StoreX, StoreWheel, StoreFlags, StoreAbsolute, TypeKey, StoreDown,
      StoreE0,
              SignalEvent, CloseWindow, Sources, receiverVars, injectedVars
<1>2. CASE \/ Wake \/ TakeX \/ TakeWheel \/ TakeAbsolute \/ TakeButtons
           \/ TakeScan \/ TakeDown \/ TakeE0
  BY <1>2
  DEF Wake, TakeX, TakeWheel, TakeAbsolute, TakeButtons, TakeScan, TakeDown, TakeE0,
      Others, receiverVars, injectedVars
<1>3. CASE SendDelivered
  BY <1>3 DEF SendDelivered, receiverVars, injectedVars
<1>4. CASE SendFails \/ SendCancelled
  <2>1. UNCHANGED <<cPc, posted, completed, connected>>
    BY <1>4 DEF SendFails, SendCancelled, Others, receiverVars, injectedVars
  <2> QED
    BY <2>1
<1>5. CASE PostReceive
  BY <1>5 DEF PostReceive
<1>6. CASE ReceiveCompleted
  <2>1. /\ cPc = "wait" /\ cPc' = "read" /\ completed' = completed - 1
        /\ UNCHANGED <<posted, connected>>
    BY <1>6 DEF ReceiveCompleted
  <2> QED
    BY <2>1
<1>7. CASE ReadPacket \/ InjectPacket
  BY <1>7 DEF ReadPacket, InjectPacket, Inject
<1>8. CASE Abort \/ ReceiverReturns \/ Disconnect
  BY <1>8 DEF Abort, ReceiverReturns, Disconnect, receiverVars, injectedVars
<1>9. CASE UNCHANGED vars
  BY <1>9 DEF vars, receiverVars, injectedVars
<1> QED
  BY <1>1, <1>2, <1>3, <1>4, <1>5, <1>6, <1>7, <1>8, <1>9 DEF Next, Sender, Receiver

LEMMA OneLandedStep == TypeOK /\ OneLanded /\ [Next]_vars => OneLanded'
<1> SUFFICES ASSUME TypeOK, OneLanded, [Next]_vars PROVE OneLanded'
  OBVIOUS
<1>0. completed \in Nat /\ overrun \in BOOLEAN
  BY DEF TypeOK
<1> USE <1>0 DEF OneLanded
<1>1. CASE Window
  BY <1>1
  DEF Window, StoreX, StoreWheel, StoreFlags, StoreAbsolute, TypeKey, StoreDown,
      StoreE0, SignalEvent, CloseWindow, Sources, receiverVars, injectedVars,
      lossVars, flagVars
<1>2. CASE \/ Wake \/ TakeX \/ TakeWheel \/ TakeAbsolute \/ TakeButtons
           \/ TakeScan \/ TakeDown \/ TakeE0
  BY <1>2
  DEF Wake, TakeX, TakeWheel, TakeAbsolute, TakeButtons, TakeScan, TakeDown, TakeE0,
      Others, receiverVars, injectedVars
<1>3. CASE SendDelivered
  <2>1. ~overrun' => ~overrun /\ ~(completed > 0) /\ cPc # "read"
    BY <1>3 DEF SendDelivered
  <2>2. completed' = completed + 1 /\ UNCHANGED cPc
    BY <1>3 DEF SendDelivered, receiverVars, injectedVars
  <2> QED
    BY <2>1, <2>2
<1>4. CASE SendFails \/ SendCancelled
  BY <1>4 DEF SendFails, SendCancelled, Others, receiverVars, injectedVars, lossVars
<1>5. CASE PostReceive
  BY <1>5 DEF PostReceive, Rest, lossVars, flagVars
<1>6. CASE ReceiveCompleted
  BY <1>6 DEF ReceiveCompleted, Rest, lossVars, flagVars
<1>7. CASE ReadPacket \/ InjectPacket
  BY <1>7 DEF ReadPacket, InjectPacket, Inject, Rest, lossVars, flagVars
<1>8. CASE Abort \/ ReceiverReturns \/ Disconnect
  BY <1>8
  DEF Abort, ReceiverReturns, Disconnect, receiverVars, injectedVars, Rest, lossVars,
      flagVars
<1>9. CASE UNCHANGED vars
  BY <1>9 DEF vars, receiverVars, injectedVars, lossVars, flagVars
<1> QED
  BY <1>1, <1>2, <1>3, <1>4, <1>5, <1>6, <1>7, <1>8, <1>9 DEF Next, Sender, Receiver

-----------------------------------------------------------------------------
(* The mouse.                                                                *)

\* The steps that lose nothing: nothing is written over, nothing refused.
LEMMA Lossless ==
  ASSUME TypeOK, [Next]_vars, ~overrun', ~refused'
  PROVE  /\ ~overrun /\ ~refused /\ ~Abort
         /\ SendDelivered => ~Landed
         /\ \A m, k \in BOOLEAN : Inject(m, k) => (ShouldMouse => m) /\ (ShouldKey => k)
<1> USE DEF Rest, lossVars, flagVars, receiverVars, injectedVars
<1>1. SendDelivered => ~overrun /\ ~Landed
  BY DEF SendDelivered, Landed
<1>2. ASSUME NEW m \in BOOLEAN, NEW k \in BOOLEAN, Inject(m, k)
      PROVE ~refused /\ (ShouldMouse => m) /\ (ShouldKey => k)
  <2>1. refused' = (refused \/ (ShouldMouse /\ ~m) \/ (ShouldKey /\ ~k))
    BY <1>2 DEF Inject
  <2> QED
    BY <2>1
<1>3. ~Abort
  BY DEF Abort
<1>4. SendDelivered \/ UNCHANGED overrun
  BY DEF Next, Window, StoreX, StoreWheel, StoreFlags, StoreAbsolute, TypeKey,
         StoreDown, StoreE0, SignalEvent, CloseWindow, Sender, Wake, TakeX, TakeWheel,
         TakeAbsolute, TakeButtons, TakeScan, TakeDown, TakeE0, SendFails,
         SendCancelled, Others, Receiver, PostReceive, ReceiveCompleted, ReadPacket,
         InjectPacket, Inject, Abort, ReceiverReturns, Disconnect, vars
<1>5. InjectPacket \/ Abort \/ UNCHANGED refused
  BY DEF Next, Window, StoreX, StoreWheel, StoreFlags, StoreAbsolute, TypeKey,
         StoreDown, StoreE0, SignalEvent, CloseWindow, Sender, Wake, TakeX, TakeWheel,
         TakeAbsolute, TakeButtons, TakeScan, TakeDown, TakeE0, SendDelivered,
         SendFails, SendCancelled, Others, Sources, Receiver, PostReceive,
         ReceiveCompleted, ReadPacket, ReceiverReturns, Disconnect, vars
<1> QED
  BY <1>1, <1>2, <1>3, <1>4, <1>5 DEF InjectPacket

\* What has once been excused stays excused.
LEMMA ExcusesStay ==
  ASSUME TypeOK, [Next]_vars
  PROVE  /\ merged \subseteq merged' /\ (mixed => mixed') /\ (split => split')
         /\ (tilted => tilted') /\ (absolute => absolute')
<1> USE DEF Rest, lossVars, flagVars, windowVars, userVars
<1>1. CASE StoreWheel \/ StoreFlags
  <2>1. StoreWheel =>
          /\ (split => split') /\ (tilted => tilted')
          /\ UNCHANGED <<merged, mixed, absolute>>
    BY DEF StoreWheel
  <2>2. StoreFlags =>
          /\ merged \subseteq merged' /\ (mixed => mixed')
          /\ UNCHANGED <<split, tilted, absolute>>
    BY DEF StoreFlags
  <2> QED
    BY <1>1, <2>1, <2>2
<1>2. ASSUME NEW e \in MouseEvents, StoreX(e)
      PROVE  (absolute => absolute') /\ UNCHANGED <<merged, mixed, split, tilted>>
  BY <1>2 DEF StoreX
<1>4. CASE StoreAbsolute \/ StoreDown \/ StoreE0 \/ SignalEvent \/ CloseWindow
  BY <1>4 DEF StoreAbsolute, StoreDown, StoreE0, SignalEvent, CloseWindow
<1>5. ASSUME NEW k \in KeyEvents, TypeKey(k)
      PROVE  UNCHANGED <<merged, mixed, split, tilted, absolute>>
  BY <1>5 DEF TypeKey
<1>6. CASE TakeWheel
  BY <1>6 DEF TakeWheel, Others
<1>7. CASE Wake \/ TakeX \/ TakeAbsolute \/ TakeButtons
  BY <1>7 DEF Wake, TakeX, TakeAbsolute, TakeButtons, Others
<1>8. CASE TakeScan \/ TakeDown \/ TakeE0
  BY <1>8 DEF TakeScan, TakeDown, TakeE0, Others
<1>9. CASE SendDelivered \/ SendFails \/ SendCancelled
  <2>1. SendDelivered => UNCHANGED <<merged, mixed, split, tilted, absolute>>
    BY DEF SendDelivered
  <2>2. SendFails => UNCHANGED <<merged, mixed, split, tilted, absolute>>
    BY DEF SendFails, Others
  <2>3. SendCancelled => UNCHANGED <<merged, mixed, split, tilted, absolute>>
    BY DEF SendCancelled
  <2> QED
    BY <1>9, <2>1, <2>2, <2>3
<1>3. CASE Receiver \/ Disconnect \/ UNCHANGED vars
  BY <1>3
  DEF Receiver, PostReceive, ReceiveCompleted, ReadPacket, InjectPacket, Inject,
      Abort, ReceiverReturns, Disconnect, vars
<1> QED
  BY <1>1, <1>2, <1>3, <1>4, <1>5, <1>6, <1>7, <1>8, <1>9 DEF Next, Window, Sender

\* The mouse fields of the packet before and after each of the sender's exchanges.
LEMMA MouseTaken ==
  ASSUME TypeOK
  PROVE  /\ TakeX => packet' = [packet EXCEPT !.x = mX]
                     /\ packet'.x = mX /\ packet'.wheel = packet.wheel
                     /\ packet'.absolute = packet.absolute
                     /\ packet'.buttons = packet.buttons
         /\ TakeWheel => /\ packet'.wheel = mWheel /\ packet'.x = packet.x
                         /\ packet'.absolute = packet.absolute
                         /\ packet'.buttons = packet.buttons
         /\ TakeAbsolute => /\ packet'.absolute = mAbsolute /\ packet'.x = packet.x
                            /\ packet'.wheel = packet.wheel
                            /\ packet'.buttons = packet.buttons
         /\ TakeButtons => /\ packet'.buttons = mButtons /\ packet'.x = packet.x
                           /\ packet'.wheel = packet.wheel
                           /\ packet'.absolute = packet.absolute
         /\ TakeScan \/ TakeDown \/ TakeE0 =>
              /\ packet'.x = packet.x /\ packet'.wheel = packet.wheel
              /\ packet'.absolute = packet.absolute /\ packet'.buttons = packet.buttons
<1>1. packet \in Packets
  BY DEF TypeOK
<1>2. TakeX \/ TakeWheel \/ TakeAbsolute \/ TakeButtons =>
        \/ packet' = [packet EXCEPT !.x = mX] /\ TakeX
        \/ packet' = [packet EXCEPT !.wheel = mWheel] /\ TakeWheel
        \/ packet' = [packet EXCEPT !.absolute = mAbsolute] /\ TakeAbsolute
        \/ packet' = [packet EXCEPT !.buttons = mButtons] /\ TakeButtons
  BY DEF TakeX, TakeWheel, TakeAbsolute, TakeButtons
<1>3. TakeX => packet' = [packet EXCEPT !.x = mX]
  BY DEF TakeX
<1>4. TakeWheel => packet' = [packet EXCEPT !.wheel = mWheel]
  BY DEF TakeWheel
<1>5. TakeAbsolute => packet' = [packet EXCEPT !.absolute = mAbsolute]
  BY DEF TakeAbsolute
<1>6. TakeButtons => packet' = [packet EXCEPT !.buttons = mButtons]
  BY DEF TakeButtons
<1>7. TakeScan \/ TakeDown \/ TakeE0 =>
        /\ packet'.x = packet.x /\ packet'.wheel = packet.wheel
        /\ packet'.absolute = packet.absolute /\ packet'.buttons = packet.buttons
  BY <1>1, Taken DEF Packets
<1> QED
  BY <1>1, <1>3, <1>4, <1>5, <1>6, <1>7 DEF Packets

LEMMA RelativeStep == TypeOK /\ RelativeOnly /\ [Next]_vars => RelativeOnly'
<1> SUFFICES ASSUME TypeOK, RelativeOnly, [Next]_vars, ~absolute'
             PROVE  RelativeOnly'
  BY DEF RelativeOnly
<1>0. /\ ~mAbsolute /\ ~wMouse.absolute
      /\ ~packet.absolute /\ ~buffer.absolute /\ ~read.absolute
  BY ExcusesStay DEF RelativeOnly
<1> USE <1>0 DEF RelativeOnly
<1>1. ASSUME NEW e \in MouseEvents, StoreX(e) PROVE RelativeOnly'
  <2>1. ~e.absolute
    BY <1>1 DEF StoreX
  <2> QED
    BY <1>1, <2>1 DEF StoreX, Sources, receiverVars
<1>2. CASE StoreWheel \/ StoreFlags \/ StoreAbsolute
  BY <1>2 DEF StoreWheel, StoreFlags, StoreAbsolute, Sources, receiverVars
<1>3. ASSUME NEW k \in KeyEvents, TypeKey(k) PROVE RelativeOnly'
  BY <1>3 DEF TypeKey, Sources, receiverVars, mouseVars
<1>4. CASE StoreDown \/ StoreE0 \/ SignalEvent \/ CloseWindow
  BY <1>4
  DEF StoreDown, StoreE0, SignalEvent, CloseWindow, Sources, receiverVars, slotVars,
      mouseVars, NoMouse
<1>5. CASE Sender
  <2>1. UNCHANGED <<wMouse, read>>
    BY <1>5
    DEF Sender, Wake, TakeX, TakeWheel, TakeAbsolute, TakeButtons, TakeScan, TakeDown,
        TakeE0, SendDelivered, SendFails, SendCancelled, Others, windowVars,
        receiverVars
  <2>2. CASE Wake \/ SendDelivered \/ SendFails \/ SendCancelled
    BY <2>1, <2>2
    DEF Wake, SendDelivered, SendFails, SendCancelled, Others, slotVars, mouseVars
  <2>3. CASE TakeX \/ TakeWheel \/ TakeAbsolute \/ TakeButtons
    BY <2>1, <2>3, MouseTaken DEF TakeX, TakeWheel, TakeAbsolute, TakeButtons, Others
  <2>4. CASE TakeScan \/ TakeDown \/ TakeE0
    BY <2>1, <2>4, MouseTaken DEF TakeScan, TakeDown, TakeE0, Others, mouseVars
  <2> QED
    BY <1>5, <2>2, <2>3, <2>4 DEF Sender
<1>6. CASE Receiver \/ Disconnect
  BY <1>6
  DEF Receiver, PostReceive, ReceiveCompleted, ReadPacket, InjectPacket, Inject,
      Abort, ReceiverReturns, Disconnect, Rest, windowVars, slotVars, mouseVars,
      receiverVars, Nothing
<1>7. CASE UNCHANGED vars
  BY <1>7 DEF vars, windowVars, slotVars, mouseVars, receiverVars
<1> QED
  BY <1>1, <1>2, <1>3, <1>4, <1>5, <1>6, <1>7 DEF Next, Window

\* Where the packets' mouse data is, a step of the receiver apart.
LEMMA TurnStep == TypeOK /\ TurnWithFlag /\ [Next]_vars => TurnWithFlag'
<1> SUFFICES ASSUME TypeOK, TurnWithFlag, [Next]_vars, ~split', ~tilted'
             PROVE  TurnWithFlag'
  BY DEF TurnWithFlag
<1>0. /\ ~split /\ ~tilted
      /\ StoringWheel => Wheel \in wMouse.flags /\ ~TakingWheel
      /\ mWheel # 0 => ~TakingWheel /\ (Wheel \in mButtons \/ StoringWheel)
      /\ TakingWheel /\ packet.wheel # 0 => Wheel \in mButtons
      /\ ButtonsPacked /\ packet.wheel # 0 => Wheel \in packet.buttons
      /\ Landed /\ buffer.wheel # 0 => Wheel \in buffer.buttons
      /\ Held /\ read.wheel # 0 => Wheel \in read.buttons
  BY ExcusesStay DEF TurnWithFlag
<1>t. completed \in Nat
  BY DEF TypeOK
<1> USE <1>0, <1>t DEF TurnWithFlag, StoringWheel, TakingWheel, ButtonsPacked, Landed,
       Held
<1>1. ASSUME NEW e \in MouseEvents, StoreX(e) PROVE TurnWithFlag'
  BY <1>1 DEF StoreX, Sources, receiverVars
<1>2. CASE StoreWheel
  <2>1. wMouse.wheel # 0 => Wheel \in wMouse.flags /\ sPc \notin {"abs", "buttons"}
    BY <1>2 DEF StoreWheel
  <2>2. wMouse.wheel = 0 => mWheel' = mWheel
    <3>1. mWheel \in Shorts
      BY DEF TypeOK
    <3>2. mWheel \in Int /\ mWheel = Range16 * 0 + mWheel
      BY <3>1, DataFacts, InputAssumption
    <3>3. mWheel = Wrap(mWheel)
      BY <3>1, <3>2, RestIsUnique
    <3> QED
      BY <1>2, <3>2, <3>3 DEF StoreWheel
  <2> QED
    BY <1>2, <2>1, <2>2 DEF StoreWheel, Sources, receiverVars
<1>3. CASE StoreFlags
  BY <1>3 DEF StoreFlags, Sources, receiverVars
<1>4. CASE StoreAbsolute
  BY <1>4 DEF StoreAbsolute, Sources, receiverVars
<1>5. ASSUME NEW k \in KeyEvents, TypeKey(k) PROVE TurnWithFlag'
  BY <1>5 DEF TypeKey, Sources, receiverVars, mouseVars
<1>6. CASE StoreDown \/ StoreE0 \/ SignalEvent \/ CloseWindow
  BY <1>6
  DEF StoreDown, StoreE0, SignalEvent, CloseWindow, Sources, receiverVars, slotVars,
      mouseVars
<1>7. CASE Sender
  <2>1. UNCHANGED <<wPc, wMouse, read, cPc>>
    BY <1>7
    DEF Sender, Wake, TakeX, TakeWheel, TakeAbsolute, TakeButtons, TakeScan, TakeDown,
        TakeE0, SendDelivered, SendFails, SendCancelled, Others, windowVars,
        receiverVars
  <2>2. CASE Wake \/ SendFails \/ SendCancelled
    BY <2>1, <2>2 DEF Wake, SendFails, SendCancelled, Others, slotVars, mouseVars
  <2>3. CASE SendDelivered
    BY <2>1, <2>3 DEF SendDelivered, slotVars, mouseVars
  <2>4. CASE TakeX
    BY <2>1, <2>4, MouseTaken DEF TakeX, Others
  <2>5. CASE TakeWheel
    BY <2>1, <2>5, MouseTaken DEF TakeWheel, Others
  <2>6. CASE TakeAbsolute
    BY <2>1, <2>6, MouseTaken DEF TakeAbsolute, Others
  <2>7. CASE TakeButtons
    BY <2>1, <2>7, MouseTaken DEF TakeButtons, Others
  <2>8. CASE TakeScan \/ TakeDown \/ TakeE0
    BY <2>1, <2>8, MouseTaken DEF TakeScan, TakeDown, TakeE0, Others, mouseVars
  <2> QED
    BY <1>7, <2>2, <2>3, <2>4, <2>5, <2>6, <2>7, <2>8 DEF Sender
<1>8. CASE Receiver \/ Disconnect
  <2>1. UNCHANGED <<wPc, wMouse, sPc, packet, mWheel, mButtons>>
    BY <1>8
    DEF Receiver, PostReceive, ReceiveCompleted, ReadPacket, InjectPacket, Inject,
        Abort,
        ReceiverReturns, Disconnect, Rest, windowVars, slotVars, mouseVars
  <2>2. CASE PostReceive \/ ReceiveCompleted \/ ReadPacket
    BY <2>1, <2>2 DEF PostReceive, ReceiveCompleted, ReadPacket
  <2>3. CASE InjectPacket \/ Abort \/ ReceiverReturns \/ Disconnect
    BY <2>1, <2>3 DEF InjectPacket, Inject, Abort, ReceiverReturns, Disconnect,
                      receiverVars
  <2> QED
    BY <1>8, <2>2, <2>3 DEF Receiver
<1>9. CASE UNCHANGED vars
  BY <1>9 DEF vars, windowVars, slotVars, mouseVars, receiverVars
<1> QED
  BY <1>1, <1>2, <1>3, <1>4, <1>5, <1>6, <1>7, <1>8, <1>9 DEF Next, Window

LEMMA AloneStep == TypeOK /\ XFlagsAlone /\ [Next]_vars => XFlagsAlone'
<1> SUFFICES ASSUME TypeOK, XFlagsAlone, [Next]_vars, ~mixed'
             PROVE  XFlagsAlone'
  BY DEF XFlagsAlone
<1>0. /\ ~mixed /\ Alone(mButtons)
      /\ ButtonsPacked => Alone(packet.buttons)
      /\ Landed => Alone(buffer.buttons)
      /\ Held => Alone(read.buttons)
  BY ExcusesStay DEF XFlagsAlone
<1>t. completed \in Nat
  BY DEF TypeOK
<1>e. Alone({})
  BY DEF Alone
<1> USE <1>0, <1>t, <1>e DEF XFlagsAlone, ButtonsPacked, Landed, Held
<1>1. CASE Window
  <2>1. UNCHANGED <<sPc, packet, buffer, read, cPc, completed>>
    BY <1>1
    DEF Window, StoreX, StoreWheel, StoreFlags, StoreAbsolute, TypeKey, StoreDown,
        StoreE0, SignalEvent, CloseWindow, Sources, receiverVars
  <2>2. Alone(mButtons')
    <3>1. CASE StoreFlags
      <4>1. ~(\E f \in XFlags \cap mButtons' :
               \E g \in mButtons' : g # f /\ g \in XFlags \cup {Wheel})
        BY <3>1 DEF StoreFlags
      <4> QED
        BY <4>1 DEF Alone
    <3>2. CASE ~StoreFlags
      BY <1>1, <3>2
      DEF Window, StoreX, StoreWheel, StoreAbsolute, TypeKey, StoreDown, StoreE0,
          SignalEvent, CloseWindow, slotVars, mouseVars
    <3> QED
      BY <3>1, <3>2
  <2> QED
    BY <2>1, <2>2
<1>2. CASE Sender
  <2>1. UNCHANGED <<read, cPc>>
    BY <1>2
    DEF Sender, Wake, TakeX, TakeWheel, TakeAbsolute, TakeButtons, TakeScan, TakeDown,
        TakeE0, SendDelivered, SendFails, SendCancelled, Others, receiverVars
  <2>2. CASE Wake \/ SendFails \/ SendCancelled
    BY <2>1, <2>2 DEF Wake, SendFails, SendCancelled, Others, slotVars, mouseVars
  <2>3. CASE SendDelivered
    BY <2>1, <2>3 DEF SendDelivered, slotVars, mouseVars
  <2>4. CASE TakeX \/ TakeWheel \/ TakeAbsolute
    BY <2>1, <2>4, MouseTaken DEF TakeX, TakeWheel, TakeAbsolute, Others
  <2>5. CASE TakeButtons
    BY <2>1, <2>5, MouseTaken DEF TakeButtons, Others
  <2>6. CASE TakeScan \/ TakeDown \/ TakeE0
    BY <2>1, <2>6, MouseTaken DEF TakeScan, TakeDown, TakeE0, Others, mouseVars
  <2> QED
    BY <1>2, <2>2, <2>3, <2>4, <2>5, <2>6 DEF Sender
<1>3. CASE Receiver \/ Disconnect
  <2>1. UNCHANGED <<sPc, packet, mButtons>>
    BY <1>3
    DEF Receiver, PostReceive, ReceiveCompleted, ReadPacket, InjectPacket, Inject,
        Abort,
        ReceiverReturns, Disconnect, Rest, slotVars, mouseVars
  <2>2. CASE PostReceive \/ ReceiveCompleted \/ ReadPacket
    BY <2>1, <2>2 DEF PostReceive, ReceiveCompleted, ReadPacket
  <2>3. CASE InjectPacket \/ Abort \/ ReceiverReturns \/ Disconnect
    BY <2>1, <2>3 DEF InjectPacket, Inject, Abort, ReceiverReturns, Disconnect,
                      receiverVars
  <2> QED
    BY <1>3, <2>2, <2>3 DEF Receiver
<1>4. CASE UNCHANGED vars
  BY <1>4 DEF vars, slotVars, mouseVars, receiverVars
<1> QED
  BY <1>1, <1>2, <1>3, <1>4 DEF Next

\* How often flag f is in the places between SendEvent and SendInput.
Clicks(f) ==
  One(f \in mButtons) + One(ButtonsPacked /\ f \in packet.buttons)
    + One(Landed /\ f \in buffer.buttons) + One(Held /\ f \in read.buttons)
    + injectedFlags[f]

\* A flag that is not an X button's beside another is handed to SendInput.
LEMMA FlagHanded ==
  ASSUME XFlagsAlone, Held, NEW f \in Flags, f \in XFlags => ~mixed
  PROVE  /\ f \in read.buttons <=> f \in HandedFlags
         /\ f \in read.buttons => ShouldMouse
<1>1. CASE f \notin XFlags
  BY <1>1 DEF HandedFlags, XFlag, ShouldMouse
<1>2. CASE f \in XFlags /\ f \in read.buttons
  <2>1. \A g \in read.buttons : g \in XFlags \cup {Wheel} => g = f
    BY <1>2 DEF XFlagsAlone, Alone
  <2>2. ~IsWheel
    BY <1>2, <2>1, InputAssumption DEF IsWheel
  <2>3. read.buttons \cap XFlags = {f}
    BY <1>2, <2>1
  <2> QED
    BY <1>2, <2>2, <2>3 DEF HandedFlags, XFlag, ShouldMouse
<1>3. CASE f \in XFlags /\ f \notin read.buttons
  BY <1>3 DEF HandedFlags, XFlag
<1> QED
  BY <1>1, <1>2, <1>3

LEMMA ClicksStep ==
  TypeOK /\ OneLanded /\ XFlagsAlone /\ ClicksConserved /\ [Next]_vars => ClicksConserved'
<1> SUFFICES ASSUME TypeOK, OneLanded, XFlagsAlone, ClicksConserved, [Next]_vars,
                    ~overrun', ~refused',
                    NEW f \in Flags, f \notin merged', f \in XFlags => ~mixed'
             PROVE  clicked'[f] = Clicks(f)'
  BY DEF ClicksConserved, Clicks
<1>0. /\ ~overrun /\ ~refused /\ ~Abort
      /\ SendDelivered => ~Landed
      /\ \A m, k \in BOOLEAN : Inject(m, k) => (ShouldMouse => m) /\ (ShouldKey => k)
  BY Lossless
<1>1. f \notin merged /\ (f \in XFlags => ~mixed)
  BY ExcusesStay
<1>2. clicked[f] = Clicks(f)
  BY <1>0, <1>1 DEF ClicksConserved, Clicks
<1>t. completed \in Nat /\ clicked[f] \in Nat /\ injectedFlags[f] \in Nat
  BY DEF TypeOK
<1> DEFINE Kept == clicked'[f] = clicked[f] /\ Clicks(f)' = Clicks(f)
<1> USE <1>t DEF Clicks, One, ButtonsPacked, Landed, Held
<1>3. CASE StoreFlags
  <2>1. f # Data
    BY InputAssumption
  <2>2. f \in mButtons' <=> f \in mButtons \/ f \in wMouse.flags
    BY <1>3, <2>1 DEF StoreFlags
  <2>3. ~(f \in mButtons /\ f \in wMouse.flags)
    BY <1>3 DEF StoreFlags
  <2>4. clicked'[f] = clicked[f] + One(f \in wMouse.flags)
    BY <1>3 DEF StoreFlags
  <2>5. UNCHANGED <<sPc, packet, completed, cPc, buffer, read, injectedFlags>>
    BY <1>3 DEF StoreFlags, Sources, receiverVars, injectedVars
  <2> QED
    BY <1>2, <2>2, <2>3, <2>4, <2>5
<1>4. CASE Window /\ ~StoreFlags
  <2>1. /\ UNCHANGED <<sPc, packet, completed, cPc, buffer, read, injectedFlags>>
        /\ UNCHANGED <<clicked, mButtons>>
    BY <1>4
    DEF Window, StoreX, StoreWheel, StoreAbsolute, TypeKey, StoreDown, StoreE0,
        SignalEvent, CloseWindow, Sources, receiverVars, injectedVars, slotVars,
        mouseVars, userVars
  <2> QED
    BY <1>2, <2>1
<1>5. CASE Sender
  <2>1. UNCHANGED <<clicked, cPc, read, injectedFlags>>
    BY <1>5
    DEF Sender, Wake, TakeX, TakeWheel, TakeAbsolute, TakeButtons, TakeScan, TakeDown,
        TakeE0, SendDelivered, SendFails, SendCancelled, Others, windowVars, userVars,
        receiverVars, injectedVars
  <2>2. CASE Wake \/ SendFails \/ SendCancelled
    BY <1>2, <2>1, <2>2
    DEF Wake, SendFails, SendCancelled, Others, slotVars, mouseVars
  <2>3. CASE SendDelivered
    <3>1. /\ ~(completed > 0 \/ cPc = "read") /\ completed' > 0
          /\ buffer' = packet /\ sPc = "send" /\ sPc' \in {"done", "wait"}
          /\ UNCHANGED mButtons
      BY <1>0, <2>3 DEF SendDelivered, slotVars, mouseVars
    <3> QED
      BY <1>2, <2>1, <3>1
  <2>4. CASE TakeX \/ TakeWheel \/ TakeAbsolute
    BY <1>2, <2>1, <2>4, MouseTaken DEF TakeX, TakeWheel, TakeAbsolute, Others
  <2>5. CASE TakeButtons
    BY <1>2, <2>1, <2>5, MouseTaken DEF TakeButtons, Others
  <2>6. CASE TakeScan \/ TakeDown \/ TakeE0
    BY <1>2, <2>1, <2>6, MouseTaken DEF TakeScan, TakeDown, TakeE0, Others, mouseVars
  <2> QED
    BY <1>5, <2>2, <2>3, <2>4, <2>5, <2>6 DEF Sender
<1>6. CASE Receiver \/ Disconnect
  <2>1. UNCHANGED <<sPc, packet, mButtons, clicked>>
    BY <1>6
    DEF Receiver, PostReceive, ReceiveCompleted, ReadPacket, InjectPacket, Inject,
        Abort,
        ReceiverReturns, Disconnect, Rest, slotVars, mouseVars, windowVars, userVars
  <2>2. CASE PostReceive \/ ReceiveCompleted
    BY <1>2, <2>1, <2>2 DEF PostReceive, ReceiveCompleted, injectedVars
  <2>3. CASE ReadPacket
    BY <1>0, <1>2, <2>1, <2>3 DEF ReadPacket, OneLanded, injectedVars
  <2>4. ASSUME NEW m \in BOOLEAN, NEW k \in BOOLEAN, Inject(m, k)
        PROVE  clicked'[f] = Clicks(f)'
    <3>1. Held /\ cPc = "inject" /\ cPc' = "post" /\ UNCHANGED <<buffer, completed>>
      BY <2>4 DEF Inject
    <3>2. /\ f \in read.buttons <=> f \in HandedFlags
          /\ f \in read.buttons => ShouldMouse
      BY <1>1, <3>1, FlagHanded
    <3>3. ShouldMouse => m
      BY <1>0, <2>4
    <3>4. injectedFlags'[f] = injectedFlags[f] + One(f \in read.buttons)
      <4>1. CASE ShouldMouse
        BY <2>4, <3>2, <3>3, <4>1 DEF Inject, InjectMouse
      <4>2. CASE ~ShouldMouse
        BY <2>4, <3>2, <4>2 DEF Inject, InjectMouse
      <4> QED
        BY <4>1, <4>2
    <3> QED
      BY <1>2, <2>1, <3>1, <3>4
  <2>5. CASE ReceiverReturns \/ Disconnect
    BY <1>2, <2>1, <2>5 DEF ReceiverReturns, Disconnect, receiverVars, injectedVars
  <2> QED
    BY <1>0, <1>6, <2>2, <2>3, <2>4, <2>5 DEF Receiver, InjectPacket
<1>7. CASE UNCHANGED vars
  BY <1>2, <1>7 DEF vars, slotVars, mouseVars, receiverVars, injectedVars, windowVars,
                    userVars
<1> QED
  BY <1>3, <1>4, <1>5, <1>6, <1>7 DEF Next

\* The movement, and the amount of the wheel, in every place but the user's hand.
Moves == mX + At(XPacked, packet.x) + At(Landed, buffer.x) + At(Held, read.x) + injectedX
Turns ==
  mWheel + At(WheelPacked, packet.wheel) + At(Landed, buffer.wheel) + At(Held, read.wheel)
    + injectedWheel

LEMMA MovesTyped ==
  ASSUME TypeOK
  PROVE  /\ Moves \in Int /\ mX \in Int /\ moved \in Int /\ injectedX \in Int
         /\ packet.x \in Int /\ buffer.x \in Int /\ read.x \in Int
         /\ At(XPacked, packet.x) \in Int /\ At(Landed, buffer.x) \in Int
         /\ At(Held, read.x) \in Int
<1>1. packet.x \in Nat /\ buffer.x \in Nat /\ read.x \in Nat /\ mX \in Nat
  BY DataFacts DEF TypeOK, Packets
<1>2. /\ At(XPacked, packet.x) \in Int /\ At(Landed, buffer.x) \in Int
      /\ At(Held, read.x) \in Int
  BY <1>1 DEF At
<1>3. moved \in Int /\ injectedX \in Int
  BY DEF TypeOK
<1> QED
  BY <1>1, <1>2, <1>3 DEF Moves

LEMMA TurnsTyped ==
  ASSUME TypeOK
  PROVE  /\ Turns \in Int /\ mWheel \in Int /\ turned \in Int /\ injectedWheel \in Int
         /\ packet.wheel \in Int /\ buffer.wheel \in Int /\ read.wheel \in Int
         /\ At(WheelPacked, packet.wheel) \in Int /\ At(Landed, buffer.wheel) \in Int
         /\ At(Held, read.wheel) \in Int
<1>1. /\ packet.wheel \in Nat /\ buffer.wheel \in Nat /\ read.wheel \in Nat
      /\ mWheel \in Nat
  BY DataFacts DEF TypeOK, Packets
<1>2. /\ At(WheelPacked, packet.wheel) \in Int /\ At(Landed, buffer.wheel) \in Int
      /\ At(Held, read.wheel) \in Int
  BY <1>1 DEF At
<1>3. turned \in Int /\ injectedWheel \in Int
  BY DEF TypeOK
<1> QED
  BY <1>1, <1>2, <1>3 DEF Turns

\* Only the user changes the sum: the other steps move what there is.
LEMMA MovesKept ==
  ASSUME TypeOK, OneLanded, RelativeOnly, [Next]_vars, ~overrun', ~refused', ~absolute',
         ~(\E e \in MouseEvents : StoreX(e))
  PROVE  Moves' = Moves /\ moved' = moved
<1>0. /\ ~overrun /\ ~refused /\ ~Abort /\ ~read.absolute
      /\ SendDelivered => ~Landed
      /\ \A m, k \in BOOLEAN : Inject(m, k) => (ShouldMouse => m) /\ (ShouldKey => k)
  BY Lossless, ExcusesStay DEF RelativeOnly
<1>t. /\ completed \in Nat
      /\ Moves \in Int /\ mX \in Int /\ moved \in Int /\ injectedX \in Int
      /\ packet.x \in Int /\ buffer.x \in Int /\ read.x \in Int
  BY MovesTyped DEF TypeOK
<1> DEFINE Kept == Moves' = Moves /\ moved' = moved
<1> USE <1>t DEF Moves, At, ButtonsPacked, TakingWheel, WheelPacked, XPacked, Landed,
       Held
<1>1. CASE Window
  <2>1. UNCHANGED <<sPc, packet, completed, cPc, buffer, read, injectedX, moved, mX>>
    BY <1>1
    DEF Window, StoreWheel, StoreFlags, StoreAbsolute, TypeKey, StoreDown, StoreE0,
        SignalEvent, CloseWindow, Sources, receiverVars, injectedVars, slotVars,
        mouseVars, userVars
  <2> QED
    BY <2>1
<1>2. CASE Sender
  <2>1. UNCHANGED <<moved, cPc, read, injectedX>>
    BY <1>2
    DEF Sender, Wake, TakeX, TakeWheel, TakeAbsolute, TakeButtons, TakeScan, TakeDown,
        TakeE0, SendDelivered, SendFails, SendCancelled, Others, windowVars, userVars,
        receiverVars, injectedVars
  <2>2. CASE Wake \/ SendFails \/ SendCancelled
    BY <2>1, <2>2 DEF Wake, SendFails, SendCancelled, Others, slotVars, mouseVars
  <2>3. CASE SendDelivered
    <3>1. /\ ~(completed > 0 \/ cPc = "read") /\ completed' > 0
          /\ buffer' = packet /\ sPc = "send" /\ sPc' \in {"done", "wait"}
          /\ UNCHANGED mX
      BY <1>0, <2>3 DEF SendDelivered, slotVars, mouseVars
    <3> QED
      BY <2>1, <3>1
  <2>4. CASE TakeX
    BY <2>1, <2>4, MouseTaken DEF TakeX, Others
  <2>5. CASE TakeWheel \/ TakeAbsolute \/ TakeButtons
    BY <2>1, <2>5, MouseTaken DEF TakeWheel, TakeAbsolute, TakeButtons, Others
  <2>6. CASE TakeScan \/ TakeDown \/ TakeE0
    BY <2>1, <2>6, MouseTaken DEF TakeScan, TakeDown, TakeE0, Others, mouseVars
  <2> QED
    BY <1>2, <2>2, <2>3, <2>4, <2>5, <2>6 DEF Sender
<1>3. CASE Receiver \/ Disconnect
  <2>1. UNCHANGED <<sPc, packet, mX, moved>>
    BY <1>3
    DEF Receiver, PostReceive, ReceiveCompleted, ReadPacket, InjectPacket, Inject,
        Abort,
        ReceiverReturns, Disconnect, Rest, slotVars, mouseVars, windowVars, userVars
  <2>2. CASE PostReceive \/ ReceiveCompleted
    BY <2>1, <2>2 DEF PostReceive, ReceiveCompleted, injectedVars
  <2>3. CASE ReadPacket
    BY <1>0, <2>1, <2>3 DEF ReadPacket, OneLanded, injectedVars
  <2>4. ASSUME NEW m \in BOOLEAN, NEW k \in BOOLEAN, Inject(m, k) PROVE Kept
    <3>1. cPc = "inject" /\ cPc' = "post" /\ UNCHANGED <<buffer, completed>>
      BY <2>4 DEF Inject
    <3>2. injectedX' = injectedX + read.x
      BY <1>0, <2>4 DEF Inject, InjectMouse, HandedX, ShouldMouse
    <3> QED
      BY <2>1, <3>1, <3>2
  <2>5. CASE ReceiverReturns \/ Disconnect
    BY <2>1, <2>5 DEF ReceiverReturns, Disconnect, receiverVars, injectedVars
  <2> QED
    BY <1>0, <1>3, <2>2, <2>3, <2>4, <2>5 DEF Receiver, InjectPacket
<1>4. CASE UNCHANGED vars
  BY <1>4
  DEF vars, slotVars, mouseVars, receiverVars, injectedVars, windowVars, userVars
<1> QED
  BY <1>1, <1>2, <1>3, <1>4 DEF Next

\* The same of the wheel: an amount that has its flag with it is not dropped.
LEMMA TurnsKept ==
  ASSUME TypeOK, OneLanded, TurnWithFlag, [Next]_vars, ~overrun', ~refused', ~split',
         ~tilted', ~StoreWheel
  PROVE  Turns' = Turns /\ turned' = turned
<1>0. /\ ~overrun /\ ~refused /\ ~Abort
      /\ Held /\ read.wheel # 0 => Wheel \in read.buttons
      /\ SendDelivered => ~Landed
      /\ \A m, k \in BOOLEAN : Inject(m, k) => (ShouldMouse => m) /\ (ShouldKey => k)
  BY Lossless, ExcusesStay DEF TurnWithFlag
<1>t. /\ completed \in Nat
      /\ Turns \in Int /\ mWheel \in Int /\ turned \in Int /\ injectedWheel \in Int
      /\ packet.wheel \in Int /\ buffer.wheel \in Int /\ read.wheel \in Int
  BY TurnsTyped DEF TypeOK
<1> DEFINE Kept == Turns' = Turns /\ turned' = turned
<1> USE <1>t DEF Turns, At, ButtonsPacked, TakingWheel, WheelPacked, Landed, Held
<1>1. CASE Window
  <2>1. /\ UNCHANGED <<sPc, packet, completed, cPc, buffer, read, injectedWheel>>
        /\ UNCHANGED <<turned, mWheel>>
    BY <1>1
    DEF Window, StoreX, StoreFlags, StoreAbsolute, TypeKey, StoreDown, StoreE0,
        SignalEvent, CloseWindow, Sources, receiverVars, injectedVars, slotVars,
        mouseVars, userVars
  <2> QED
    BY <2>1
<1>2. CASE Sender
  <2>1. UNCHANGED <<turned, cPc, read, injectedWheel>>
    BY <1>2
    DEF Sender, Wake, TakeX, TakeWheel, TakeAbsolute, TakeButtons, TakeScan, TakeDown,
        TakeE0, SendDelivered, SendFails, SendCancelled, Others, windowVars, userVars,
        receiverVars, injectedVars
  <2>2. CASE Wake \/ SendFails \/ SendCancelled
    BY <2>1, <2>2 DEF Wake, SendFails, SendCancelled, Others, slotVars, mouseVars
  <2>3. CASE SendDelivered
    <3>1. /\ ~(completed > 0 \/ cPc = "read") /\ completed' > 0
          /\ buffer' = packet /\ sPc = "send" /\ sPc' \in {"done", "wait"}
          /\ UNCHANGED mWheel
      BY <1>0, <2>3 DEF SendDelivered, slotVars, mouseVars
    <3> QED
      BY <2>1, <3>1
  <2>4. CASE TakeX
    BY <2>1, <2>4, MouseTaken DEF TakeX, Others
  <2>5. CASE TakeWheel
    BY <2>1, <2>5, MouseTaken DEF TakeWheel, Others
  <2>6. CASE TakeAbsolute \/ TakeButtons
    BY <2>1, <2>6, MouseTaken DEF TakeAbsolute, TakeButtons, Others
  <2>7. CASE TakeScan \/ TakeDown \/ TakeE0
    BY <2>1, <2>7, MouseTaken DEF TakeScan, TakeDown, TakeE0, Others, mouseVars
  <2> QED
    BY <1>2, <2>2, <2>3, <2>4, <2>5, <2>6, <2>7 DEF Sender
<1>3. CASE Receiver \/ Disconnect
  <2>1. UNCHANGED <<sPc, packet, mWheel, turned>>
    BY <1>3
    DEF Receiver, PostReceive, ReceiveCompleted, ReadPacket, InjectPacket, Inject,
        Abort,
        ReceiverReturns, Disconnect, Rest, slotVars, mouseVars, windowVars, userVars
  <2>2. CASE PostReceive \/ ReceiveCompleted
    BY <2>1, <2>2 DEF PostReceive, ReceiveCompleted, injectedVars
  <2>3. CASE ReadPacket
    BY <1>0, <2>1, <2>3 DEF ReadPacket, OneLanded, injectedVars
  <2>4. ASSUME NEW m \in BOOLEAN, NEW k \in BOOLEAN, Inject(m, k) PROVE Kept
    <3>1. cPc = "inject" /\ cPc' = "post" /\ UNCHANGED <<buffer, completed>>
      BY <2>4 DEF Inject
    <3>2. injectedWheel' = injectedWheel + read.wheel
      <4>1. HandedWheel = read.wheel
        BY <1>0, <3>1 DEF HandedWheel, IsWheel
      <4> QED
        BY <1>0, <2>4, <4>1 DEF Inject, InjectMouse, ShouldMouse
    <3> QED
      BY <2>1, <3>1, <3>2
  <2>5. CASE ReceiverReturns \/ Disconnect
    BY <2>1, <2>5 DEF ReceiverReturns, Disconnect, receiverVars, injectedVars
  <2> QED
    BY <1>0, <1>3, <2>2, <2>3, <2>4, <2>5 DEF Receiver, InjectPacket
<1>4. CASE UNCHANGED vars
  BY <1>4
  DEF vars, slotVars, mouseVars, receiverVars, injectedVars, windowVars, userVars
<1> QED
  BY <1>1, <1>2, <1>3, <1>4 DEF Next

LEMMA DeltaStep ==
  TypeOK /\ OneLanded /\ RelativeOnly /\ DeltaConserved /\ [Next]_vars => DeltaConserved'
<1> SUFFICES ASSUME TypeOK, OneLanded, RelativeOnly, DeltaConserved, [Next]_vars,
                    ~overrun', ~refused', ~absolute'
             PROVE  Wrap(moved)' = Wrap(Moves)'
  BY DEF DeltaConserved, Moves
<1>1. ~overrun /\ ~refused /\ ~absolute
  BY Lossless, ExcusesStay
<1>2. Wrap(moved) = Wrap(Moves)
  BY <1>1 DEF DeltaConserved, Moves
<1>3. CASE ~(\E e \in MouseEvents : StoreX(e))
  BY <1>2, <1>3, MovesKept DEF Wrap
<1>4. ASSUME NEW e \in MouseEvents, StoreX(e) PROVE Wrap(moved)' = Wrap(Moves)'
  <2> DEFINE rest == At(XPacked, packet.x) + At(Landed, buffer.x) + At(Held, read.x)
                       + injectedX
  <2>1. rest \in Int /\ mX \in Int /\ moved \in Int
    BY MovesTyped
  <2>2. e.x \in Int
    BY DataFacts DEF MouseFields
  <2>3. /\ At(XPacked, packet.x)' = At(XPacked, packet.x)
        /\ At(Landed, buffer.x)' = At(Landed, buffer.x)
        /\ At(Held, read.x)' = At(Held, read.x) /\ injectedX' = injectedX
    BY <1>4 DEF StoreX, Sources, receiverVars, injectedVars, At, ButtonsPacked,
                TakingWheel, WheelPacked, XPacked, Landed, Held
  <2>4. mX' = Wrap(mX + e.x) /\ moved' = moved + e.x /\ mX' \in Int
    <3>1. mX' = Wrap(mX + e.x) /\ moved' = moved + e.x /\ mX + e.x \in Int
      BY <1>4, <2>1, <2>2 DEF StoreX
    <3>2. mX' \in Shorts
      BY <3>1, WrapIsRest
    <3> QED
      BY <3>1, <3>2, DataFacts
  <2>5. Moves = mX + rest /\ Moves' = mX' + rest
    BY MovesTyped, <2>3, <2>4 DEF Moves
  <2> HIDE DEF rest
  <2>6. Wrap(Moves') = Wrap((mX + e.x) + rest)
    <3>1. mX + e.x \in Int
      BY <2>1, <2>2
    <3> QED
      BY <2>1, <2>4, <2>5, <3>1, WrapEarly
  <2>7. (mX + e.x) + rest = Moves + e.x /\ Moves \in Int
    BY <2>1, <2>2, <2>5
  <2>8. Wrap(moved + e.x) = Wrap(Moves + e.x)
    BY <1>2, <2>1, <2>2, <2>7, WrapSum
  <2> QED
    BY <2>4, <2>6, <2>7, <2>8 DEF Wrap
<1> QED
  BY <1>3, <1>4

LEMMA WheelStep ==
  TypeOK /\ OneLanded /\ TurnWithFlag /\ WheelConserved /\ [Next]_vars => WheelConserved'
<1> SUFFICES ASSUME TypeOK, OneLanded, TurnWithFlag, WheelConserved, [Next]_vars,
                    ~overrun', ~refused', ~split', ~tilted'
             PROVE  Wrap(turned)' = Wrap(Turns)'
  BY DEF WheelConserved, Turns
<1>1. ~overrun /\ ~refused /\ ~split /\ ~tilted
  BY Lossless, ExcusesStay
<1>2. Wrap(turned) = Wrap(Turns)
  BY <1>1 DEF WheelConserved, Turns
<1>3. CASE ~StoreWheel
  BY <1>2, <1>3, TurnsKept DEF Wrap
<1>4. CASE StoreWheel
  <2> DEFINE rest == At(WheelPacked, packet.wheel) + At(Landed, buffer.wheel)
                       + At(Held, read.wheel) + injectedWheel
             d == wMouse.wheel
  <2>1. rest \in Int /\ mWheel \in Int /\ turned \in Int
    BY TurnsTyped
  <2>2. d \in Int
    BY DataFacts DEF MouseFields, TypeOK
  <2>3. /\ At(WheelPacked, packet.wheel)' = At(WheelPacked, packet.wheel)
        /\ At(Landed, buffer.wheel)' = At(Landed, buffer.wheel)
        /\ At(Held, read.wheel)' = At(Held, read.wheel) /\ injectedWheel' = injectedWheel
    BY <1>4 DEF StoreWheel, Sources, receiverVars, injectedVars, At, ButtonsPacked,
                TakingWheel, WheelPacked, Landed, Held
  <2>4. mWheel' = Wrap(mWheel + d) /\ turned' = turned + d /\ mWheel' \in Int
    <3>1. mWheel' = Wrap(mWheel + d) /\ turned' = turned + d /\ mWheel + d \in Int
      BY <1>4, <2>1, <2>2 DEF StoreWheel
    <3>2. mWheel' \in Shorts
      BY <3>1, WrapIsRest
    <3> QED
      BY <3>1, <3>2, DataFacts
  <2>5. Turns = mWheel + rest /\ Turns' = mWheel' + rest
    BY TurnsTyped, <2>3, <2>4 DEF Turns
  <2> HIDE DEF rest, d
  <2>6. Wrap(Turns') = Wrap((mWheel + d) + rest)
    <3>1. mWheel + d \in Int
      BY <2>1, <2>2
    <3> QED
      BY <2>1, <2>4, <2>5, <3>1, WrapEarly
  <2>7. (mWheel + d) + rest = Turns + d /\ Turns \in Int
    BY <2>1, <2>2, <2>5
  <2>8. Wrap(turned + d) = Wrap(Turns + d)
    BY <1>2, <2>1, <2>2, <2>7, WrapSum
  <2> QED
    BY <2>4, <2>6, <2>7, <2>8 DEF Wrap
<1> QED
  BY <1>3, <1>4

-----------------------------------------------------------------------------
(* The keyboard.                                                             *)

\* The steps that neither tear a key nor store one over another.
LEMMA KeysWhole ==
  ASSUME TypeOK, [Next]_vars, ~torn', ~overwritten'
  PROVE  /\ ~torn /\ ~overwritten
         /\ \A k \in KeyEvents :
              TypeKey(k) => ~TakingKey /\ mScan = 0 /\ mDown = 2 /\ ~mE0
         /\ TakeScan => ~StoringKey
<1> USE DEF Rest, lossVars, flagVars
<1>1. ASSUME NEW k \in KeyEvents, TypeKey(k)
      PROVE  ~torn /\ ~overwritten /\ ~TakingKey /\ mScan = 0 /\ mDown = 2 /\ ~mE0
  <2>1. torn' = (torn \/ TakingKey)
    BY <1>1 DEF TypeKey
  <2>2. overwritten' = (overwritten \/ <<mScan, mDown, mE0>> # NoKey)
    BY <1>1 DEF TypeKey
  <2>3. ~torn /\ ~TakingKey
    BY <2>1
  <2>4. ~overwritten /\ <<mScan, mDown, mE0>> = <<0, 2, FALSE>>
    BY <2>2 DEF NoKey
  <2> QED
    BY <2>3, <2>4
<1>2. ASSUME TakeScan PROVE ~torn /\ ~overwritten /\ ~StoringKey
  <2>1. torn' = (torn \/ StoringKey) /\ UNCHANGED overwritten
    BY <1>2 DEF TakeScan, Others
  <2> QED
    BY <2>1
<1>3. \/ \E k \in KeyEvents : TypeKey(k)
      \/ TakeScan
      \/ UNCHANGED <<torn, overwritten>>
  BY DEF Next, Window, StoreX, StoreWheel, StoreFlags, StoreAbsolute, StoreDown,
         StoreE0, SignalEvent, CloseWindow, Sender, Wake, TakeX, TakeWheel,
         TakeAbsolute, TakeButtons, TakeDown, TakeE0, SendDelivered, SendFails,
         SendCancelled, Others, Receiver, PostReceive, ReceiveCompleted, ReadPacket,
         InjectPacket, Inject, Abort, ReceiverReturns, Disconnect, vars
<1> QED
  BY <1>1, <1>2, <1>3

LEMMA KeyPlaceStep == TypeOK /\ KeyInOnePlace /\ [Next]_vars => KeyInOnePlace'
<1> SUFFICES ASSUME TypeOK, KeyInOnePlace, [Next]_vars, ~torn', ~overwritten'
             PROVE  KeyInOnePlace'
  BY DEF KeyInOnePlace
<1>0. /\ ~torn /\ ~overwritten
      /\ \A k \in KeyEvents :
           TypeKey(k) => ~TakingKey /\ mScan = 0 /\ mDown = 2 /\ ~mE0
      /\ TakeScan => ~StoringKey
  BY KeysWhole
<1>t. mE0 \in BOOLEAN /\ \A k \in KeyEvents : k[1] # 0 /\ k[3] \in BOOLEAN
  BY InputAssumption DEF TypeOK, KeyFields
<1> USE <1>0, <1>t DEF KeyInOnePlace, TakingKey, StoringKey
<1>1. ASSUME NEW e \in MouseEvents, StoreX(e) PROVE KeyInOnePlace'
  BY <1>1 DEF StoreX, keyVars, Sources
<1>2. CASE StoreWheel \/ StoreFlags \/ StoreAbsolute
  BY <1>2 DEF StoreWheel, StoreFlags, StoreAbsolute, keyVars, Sources
<1>3. ASSUME NEW k \in KeyEvents, TypeKey(k) PROVE KeyInOnePlace'
  BY <1>3 DEF TypeKey, Sources
<1>4. CASE StoreDown
  BY <1>4 DEF StoreDown, Sources
<1>5. CASE StoreE0
  BY <1>5 DEF StoreE0, Sources
<1>6. CASE SignalEvent \/ CloseWindow
  BY <1>6 DEF SignalEvent, CloseWindow, Sources, slotVars, mouseVars, keyVars
<1>7. CASE Wake \/ TakeX \/ TakeWheel \/ TakeAbsolute \/ TakeButtons
  <2>1. packet'.key = packet.key
    BY <1>7 DEF Wake, TakeX, TakeWheel, TakeAbsolute, TakeButtons, TypeOK, Packets
  <2> QED
    BY <1>7, <2>1
    DEF Wake, TakeX, TakeWheel, TakeAbsolute, TakeButtons, Others, windowVars,
        userVars, slotVars, mouseVars, keyVars
<1>8. CASE TakeScan
  <2>1. packet'.key[1] = mScan
    BY <1>8, Taken DEF Packets
  <2> QED
    BY <1>8, <2>1 DEF TakeScan, Others, windowVars, userVars
<1>9. CASE TakeDown
  <2>1. packet'.key[1] = packet.key[1]
    BY <1>9, Taken DEF Packets
  <2> QED
    BY <1>9, <2>1 DEF TakeDown, Others, windowVars, userVars
<1>10. CASE TakeE0
  BY <1>10 DEF TakeE0, Others, windowVars, userVars
<1>11. CASE SendDelivered \/ SendFails \/ SendCancelled
  BY <1>11
  DEF SendDelivered, SendFails, SendCancelled, Others, windowVars, userVars, slotVars,
      mouseVars, keyVars
<1>12. CASE Receiver \/ Disconnect
  BY <1>12
  DEF Receiver, PostReceive, ReceiveCompleted, ReadPacket, InjectPacket, Inject,
      Abort, ReceiverReturns, Disconnect, Rest, windowVars, userVars, slotVars,
      mouseVars, keyVars
<1>13. CASE UNCHANGED vars
  BY <1>13 DEF vars, windowVars, userVars, slotVars, mouseVars, keyVars
<1> QED
  BY <1>1, <1>2, <1>3, <1>4, <1>5, <1>6, <1>7, <1>8, <1>9, <1>10, <1>11, <1>12, <1>13
  DEF Next, Window, Sender

\* The keys stay where they are, whole.
SameKeys ==
  /\ typed' = typed /\ injected' = injected
  /\ InSlot' = InSlot /\ (InSlot => SlotKey' = SlotKey)
  /\ InPacket' = InPacket /\ (InPacket => PacketKey' = PacketKey)
  /\ InBuffer' = InBuffer /\ (InBuffer => buffer'.key = buffer.key)
  /\ InRead' = InRead /\ (InRead => read'.key = read.key)

\* Storing or exchanging a key's other fields does not alter the key.
LEMMA QuietSteps ==
  ASSUME TypeOK, KeyInOnePlace, ~torn, ~overwritten, [Next]_vars,
         ~(\E k \in KeyEvents : TypeKey(k)), ~TakeScan, ~SendDelivered, ~ReadPacket,
         ~InjectPacket, ~Abort
  PROVE  SameKeys
<1>t. /\ mE0 \in BOOLEAN /\ completed \in Nat
      /\ \A k \in KeyEvents : k = <<k[1], k[2], k[3]>> /\ k[3] \in BOOLEAN
  BY InputAssumption DEF TypeOK, KeyFields
<1> USE <1>t DEF SameKeys, InSlot, InPacket, InBuffer, InRead, Landed, Held, SlotKey,
                PacketKey, TakingKey, StoringKey
<1>1. ASSUME NEW e \in MouseEvents, StoreX(e) PROVE SameKeys
  BY <1>1 DEF StoreX, keyVars, userVars, Sources, receiverVars, injectedVars
<1>2. CASE StoreWheel \/ StoreFlags \/ StoreAbsolute
  BY <1>2
  DEF StoreWheel, StoreFlags, StoreAbsolute, keyVars, userVars, Sources, receiverVars,
      injectedVars
<1>3. CASE StoreDown
  <2>1. /\ ~TakingKey /\ wKey \in KeyEvents /\ mScan = wKey[1] /\ ~mE0
        /\ mDown' = wKey[2] /\ UNCHANGED <<mScan, mE0, wKey>>
        /\ wPc' = IF wKey[3] THEN "e0" ELSE "signal"
    BY <1>3 DEF StoreDown, KeyInOnePlace
  <2>2. SlotKey = wKey /\ SlotKey' = wKey
    BY <1>3, <2>1 DEF StoreDown
  <2> QED
    BY <1>3, <2>1, <2>2 DEF StoreDown, userVars, Sources, receiverVars, injectedVars
<1>4. CASE StoreE0
  <2>1. /\ ~TakingKey /\ wKey \in KeyEvents /\ mScan = wKey[1] /\ wKey[3]
        /\ mDown = wKey[2] /\ mE0' = TRUE /\ UNCHANGED <<mScan, mDown, wKey>>
        /\ wPc' = "signal"
    BY <1>4 DEF StoreE0, KeyInOnePlace
  <2>2. SlotKey = wKey /\ SlotKey' = wKey
    BY <1>4, <2>1 DEF StoreE0
  <2> QED
    BY <1>4, <2>1, <2>2 DEF StoreE0, userVars, Sources, receiverVars, injectedVars
<1>5. CASE SignalEvent \/ CloseWindow
  BY <1>5
  DEF SignalEvent, CloseWindow, userVars, Sources, receiverVars, injectedVars,
      slotVars, mouseVars, keyVars
<1>6. CASE Wake \/ TakeX \/ TakeWheel \/ TakeAbsolute \/ TakeButtons
  BY <1>6
  DEF Wake, TakeX, TakeWheel, TakeAbsolute, TakeButtons, Others, receiverVars,
      injectedVars, windowVars, userVars, slotVars, mouseVars, keyVars
<1>7. CASE TakeDown
  <2>1. /\ packet'.key[1] = packet.key[1] /\ packet'.key[2] = mDown
        /\ ~StoringKey /\ mScan = 0
    BY <1>7, Taken DEF TakeDown, KeyInOnePlace, Packets
  <2> QED
    BY <1>7, <2>1
    DEF TakeDown, Others, receiverVars, injectedVars, windowVars, userVars
<1>8. CASE TakeE0
  <2>1. packet'.key = <<packet.key[1], packet.key[2], mE0>>
    BY <1>8, Taken DEF Packets
  <2>2. ~StoringKey /\ mScan = 0
    BY <1>8 DEF TakeE0, KeyInOnePlace
  <2> QED
    BY <1>8, <2>1, <2>2
    DEF TakeE0, Others, receiverVars, injectedVars, windowVars, userVars
<1>9. CASE SendFails \/ SendCancelled
  BY <1>9
  DEF SendFails, SendCancelled, Others, receiverVars, injectedVars, windowVars,
      userVars, slotVars, mouseVars, keyVars
<1>10. CASE PostReceive \/ ReceiverReturns
  BY <1>10
  DEF PostReceive, ReceiverReturns, injectedVars, Rest, windowVars, userVars,
      slotVars, mouseVars, keyVars
<1>11. CASE ReceiveCompleted
  BY <1>11
  DEF ReceiveCompleted, injectedVars, Rest, windowVars, userVars, slotVars, mouseVars,
      keyVars
<1>12. CASE Disconnect
  BY <1>12
  DEF Disconnect, receiverVars, injectedVars, Rest, windowVars, userVars, slotVars,
      mouseVars, keyVars
<1>13. CASE UNCHANGED vars
  BY <1>13
  DEF vars, receiverVars, injectedVars, windowVars, userVars, slotVars, mouseVars,
      keyVars
<1> HIDE DEF SameKeys
<1> QED
  BY <1>1, <1>2, <1>3, <1>4, <1>5, <1>6, <1>7, <1>8, <1>9, <1>10, <1>11, <1>12, <1>13
  DEF Next, Window, Sender, Receiver

LEMMA KeysTyped ==
  ASSUME TypeOK
  PROVE  /\ Len(injected) \in Nat /\ Len(typed) \in Nat
         /\ BeforeBuffer \in Nat /\ BeforePacket \in Nat /\ BeforeSlot \in Nat
         /\ \A i \in 1..Len(typed) : typed[i] \in KeyEvents
<1>1. injected \in Seq(KeyFields) /\ typed \in Seq(KeyEvents)
  BY DEF TypeOK
<1>2. \A here \in BOOLEAN : One(here) \in {0, 1}
  BY DEF One
<1>3. One(InRead) \in {0, 1} /\ One(InBuffer) \in {0, 1} /\ One(InPacket) \in {0, 1}
  BY DEF One
<1> QED
  BY <1>1, <1>3 DEF BeforeBuffer, BeforePacket, BeforeSlot

LEMMA KeysStep ==
  /\ TypeOK /\ OneLanded /\ KeyInOnePlace /\ KeysInOrder
  /\ TypeOK' /\ [Next]_vars
  => KeysInOrder'
<1> SUFFICES ASSUME TypeOK, OneLanded, KeyInOnePlace, KeysInOrder, TypeOK', [Next]_vars,
                    Undisturbed'
             PROVE  KeysInOrder'
  BY DEF KeysInOrder
<1>0. /\ ~overrun /\ ~refused /\ ~torn /\ ~overwritten /\ ~Abort
      /\ SendDelivered => ~Landed
      /\ \A m, k \in BOOLEAN : Inject(m, k) => (ShouldMouse => m) /\ (ShouldKey => k)
      /\ \A k \in KeyEvents :
           TypeKey(k) => ~TakingKey /\ mScan = 0 /\ mDown = 2 /\ ~mE0
      /\ TakeScan => ~StoringKey
  BY Lossless, KeysWhole DEF Undisturbed
<1>a. /\ Len(typed) = BeforeSlot + One(InSlot)
      /\ \A i \in 1..Len(injected) : injected[i] = typed[i]
      /\ InRead => read.key = typed[Len(injected) + 1]
      /\ InBuffer => buffer.key = typed[BeforeBuffer + 1]
      /\ InPacket => PacketKey = typed[BeforePacket + 1]
      /\ InSlot => SlotKey = typed[BeforeSlot + 1]
  BY <1>0 DEF KeysInOrder, Undisturbed
<1>t. /\ injected \in Seq(KeyFields) /\ typed \in Seq(KeyEvents) /\ completed \in Nat
      /\ packet.key \in KeyFields /\ read.key \in KeyFields
      /\ Len(injected) \in Nat /\ Len(typed) \in Nat
      /\ BeforeBuffer \in Nat /\ BeforePacket \in Nat /\ BeforeSlot \in Nat
      /\ \A i \in 1..Len(typed) : typed[i] \in KeyEvents
  <2>1. packet \in Packets /\ read \in Packets
    BY DEF TypeOK
  <2>2. packet.key \in KeyFields /\ read.key \in KeyFields
    BY <2>1 DEF Packets
  <2>3. /\ injected \in Seq(KeyFields) /\ typed \in Seq(KeyEvents)
        /\ completed \in Nat
    BY DEF TypeOK
  <2> QED
    BY <2>2, <2>3, KeysTyped
<1>k. \A k \in KeyEvents : k[1] # 0 /\ k[2] # 2
  BY InputAssumption
<1>1. ASSUME NEW k \in KeyEvents, TypeKey(k) PROVE KeysInOrder'
  <2>1. typed' = Append(typed, k) /\ ~InSlot /\ ~TakingKey
    BY <1>0, <1>1 DEF TypeKey, InSlot
  <2>2. /\ Len(typed') = Len(typed) + 1 /\ typed'[Len(typed) + 1] = k
        /\ \A i \in 1..Len(typed) : typed'[i] = typed[i]
    BY <1>t, <2>1
  <2>3. InSlot' /\ SlotKey' = k
    BY <1>1, <1>k DEF TypeKey, InSlot, SlotKey, StoringKey
  <2>4. /\ InPacket' = InPacket /\ InBuffer' = InBuffer /\ InRead' = InRead
        /\ UNCHANGED <<injected, buffer, read>> /\ (InPacket => PacketKey' = PacketKey)
    BY <1>1, <2>1
    DEF TypeKey, Sources, receiverVars, injectedVars, InPacket, InBuffer, InRead,
        Landed,
                      Held, PacketKey, TakingKey
  <2>5. /\ Len(injected)' = Len(injected) /\ BeforeBuffer' = BeforeBuffer
        /\ BeforePacket' = BeforePacket /\ BeforeSlot' = BeforeSlot
    BY <2>4 DEF BeforeBuffer, BeforePacket, BeforeSlot
  <2>6. /\ BeforeSlot = Len(typed) /\ BeforePacket + One(InPacket) = Len(typed)
        /\ BeforeBuffer + One(InBuffer) <= Len(typed)
        /\ Len(injected) + One(InRead) <= Len(typed) /\ Len(injected) <= Len(typed)
    <3>1. One(InRead) \in {0, 1} /\ One(InBuffer) \in {0, 1} /\ One(InPacket) \in {0, 1}
      BY DEF One
    <3>2. One(InSlot) = 0
      BY <2>1 DEF One
    <3> QED
      BY <1>a, <1>t, <3>1, <3>2 DEF BeforeSlot, BeforePacket, BeforeBuffer
  <2> QED
    BY <1>a, <1>t, <2>2, <2>3, <2>4, <2>5, <2>6 DEF KeysInOrder, One
<1>2. CASE TakeScan
  <2>1. /\ UNCHANGED <<typed, injected, buffer, read>>
        /\ InBuffer' = InBuffer /\ InRead' = InRead
    BY <1>2
    DEF TakeScan, Others, windowVars, userVars, receiverVars, injectedVars, InBuffer,
        InRead, Landed, Held
  <2>2. packet'.key = <<mScan, packet.key[2], packet.key[3]>>
    BY <1>2, Taken DEF Packets
  <2>3. ~InPacket /\ InPacket' = InSlot /\ ~InSlot' /\ PacketKey' = SlotKey
    BY <1>0, <1>2, <2>2 DEF TakeScan, InPacket, InSlot, PacketKey, SlotKey, TakingKey
  <2>4. /\ BeforeBuffer' = BeforeBuffer /\ BeforePacket' = BeforePacket
        /\ BeforeSlot = BeforePacket /\ BeforeSlot' = BeforePacket + One(InSlot)
    BY <1>t, <2>1, <2>3 DEF BeforeBuffer, BeforePacket, BeforeSlot, One
  <2> QED
    BY <1>a, <1>t, <2>1, <2>3, <2>4 DEF KeysInOrder, One
<1>3. CASE SendDelivered
  <2>1. UNCHANGED <<typed, injected, read, mScan, mDown, mE0, wPc, wKey>>
    BY <1>3
    DEF SendDelivered, windowVars, userVars, receiverVars, injectedVars, slotVars,
        mouseVars, keyVars
  <2>2. ~InBuffer /\ buffer' = packet /\ InBuffer' = InPacket /\ ~InPacket'
    BY <1>0, <1>3, <1>t DEF SendDelivered, InBuffer, InPacket, Landed
  <2>3. InPacket => PacketKey = buffer'.key
    BY <1>3, <1>t, <2>2 DEF SendDelivered, PacketKey, TakingKey, KeyFields
  <2>4. InRead' = InRead /\ InSlot' = InSlot /\ SlotKey' = SlotKey
    BY <1>3, <2>1
    DEF SendDelivered, receiverVars, injectedVars, InRead, Held, InSlot, SlotKey,
        StoringKey
  <2>5. /\ BeforeBuffer' = BeforeBuffer /\ BeforePacket = BeforeBuffer
        /\ BeforePacket' = BeforeSlot /\ BeforeSlot' = BeforeSlot
    BY <1>t, <2>1, <2>2, <2>4 DEF BeforeBuffer, BeforePacket, BeforeSlot, One
  <2> QED
    BY <1>a, <1>t, <2>1, <2>2, <2>3, <2>4, <2>5 DEF KeysInOrder
<1>4. CASE ReadPacket
  <2>1. /\ UNCHANGED <<typed, injected, packet, sPc, mScan, mDown, mE0, wPc, wKey>>
        /\ read' = buffer
    BY <1>4
    DEF ReadPacket, injectedVars, Rest, windowVars, userVars, slotVars, mouseVars,
        keyVars
  <2>2. ~InRead /\ InRead' = InBuffer /\ ~InBuffer'
    BY <1>0, <1>4, <1>t DEF ReadPacket, OneLanded, InRead, InBuffer, Landed, Held
  <2>3. /\ InSlot' = InSlot /\ SlotKey' = SlotKey
        /\ InPacket' = InPacket /\ PacketKey' = PacketKey
    BY <2>1 DEF InSlot, SlotKey, StoringKey, InPacket, PacketKey, TakingKey
  <2>4. /\ BeforeBuffer = Len(injected) /\ BeforeBuffer' = BeforePacket
        /\ BeforePacket' = BeforePacket /\ BeforeSlot' = BeforeSlot
    BY <1>t, <2>1, <2>2, <2>3 DEF BeforeBuffer, BeforePacket, BeforeSlot, One
  <2> QED
    BY <1>a, <1>t, <2>1, <2>2, <2>3, <2>4 DEF KeysInOrder
<1>5. ASSUME NEW m \in BOOLEAN, NEW k \in BOOLEAN, Inject(m, k) PROVE KeysInOrder'
  <2>1. UNCHANGED <<typed, buffer, packet, sPc, mScan, mDown, mE0, wPc, wKey>>
    BY <1>5 DEF Inject, Rest, windowVars, userVars, slotVars, mouseVars, keyVars
  <2>2. /\ InSlot' = InSlot /\ SlotKey' = SlotKey /\ InBuffer' = InBuffer
        /\ InPacket' = InPacket /\ PacketKey' = PacketKey /\ ~InRead'
    BY <1>5, <2>1
    DEF Inject, InSlot, SlotKey, StoringKey, InPacket, PacketKey, TakingKey,
                      InBuffer, InRead, Landed, Held
  <2>3. CASE InRead
    <3>1. read.key = typed[Len(injected) + 1] /\ Len(injected) + 1 \in 1..Len(typed)
      BY <1>a, <1>t, <2>3 DEF BeforeSlot, BeforePacket, BeforeBuffer, One
    <3>2. ShouldKey
      BY <1>k, <1>t, <3>1 DEF ShouldKey
    <3>3. injected' = Append(injected, read.key)
      BY <1>0, <1>5, <3>2 DEF Inject
    <3>4. /\ Len(injected') = Len(injected) + 1
          /\ injected'[Len(injected) + 1] = read.key
          /\ \A i \in 1..Len(injected) : injected'[i] = injected[i]
      BY <1>t, <3>3
    <3>5. \A i \in 1..Len(injected') : injected'[i] = typed[i]
      BY <1>a, <1>t, <3>1, <3>4
    <3>6. /\ BeforeBuffer' = BeforeBuffer /\ BeforePacket' = BeforePacket
          /\ BeforeSlot' = BeforeSlot
      BY <1>t, <2>2, <2>3, <3>4 DEF BeforeBuffer, BeforePacket, BeforeSlot, One
    <3> QED
      BY <1>a, <2>1, <2>2, <3>5, <3>6 DEF KeysInOrder
  <2>4. CASE ~InRead
    <3>1. injected' = injected
      BY <1>5, <2>4 DEF Inject, ShouldKey, InRead, Held
    <3>2. /\ BeforeBuffer' = BeforeBuffer /\ BeforePacket' = BeforePacket
          /\ BeforeSlot' = BeforeSlot
      BY <2>2, <2>4, <3>1 DEF BeforeBuffer, BeforePacket, BeforeSlot, One
    <3> QED
      BY <1>a, <2>1, <2>2, <3>1, <3>2 DEF KeysInOrder
  <2> QED
    BY <2>3, <2>4
<1>6. CASE /\ ~(\E k \in KeyEvents : TypeKey(k)) /\ ~TakeScan /\ ~SendDelivered
           /\ ~ReadPacket /\ ~InjectPacket
  <2>1. SameKeys
    BY <1>0, <1>6, QuietSteps
  <2>2. /\ BeforeBuffer' = BeforeBuffer /\ BeforePacket' = BeforePacket
        /\ BeforeSlot' = BeforeSlot
    BY <2>1 DEF SameKeys, BeforeBuffer, BeforePacket, BeforeSlot
  <2> QED
    BY <1>a, <2>1, <2>2 DEF SameKeys, KeysInOrder
<1> QED
  BY <1>1, <1>2, <1>3, <1>4, <1>5, <1>6 DEF InjectPacket

-----------------------------------------------------------------------------

LEMMA InitInv == Init => IInv
<1> SUFFICES ASSUME Init PROVE IInv
  OBVIOUS
<1> USE InputAssumption, DataFacts DEF Init
<1>1. TypeOK
  <2>1. <<mScan, mDown, mE0>> \in KeyFields
    BY DEF NoKey
  <2>2. {packet, buffer, read} \subseteq Packets /\ wKey \in KeyFields
    OBVIOUS
  <2>6. mButtons \in ButtonFields
    BY DEF ButtonFields
  <2>7. clicked \in [Flags -> Nat] /\ injectedFlags \in [Flags -> Nat]
    OBVIOUS
  <2>3. /\ posted \in 0..(Credits + 1) /\ completed \in 0..(Credits + 1)
        /\ events \in 0..MaxEvents
    OBVIOUS
  <2>4. typed \in Seq(KeyEvents) /\ injected \in Seq(KeyFields)
    OBVIOUS
  <2>5. /\ {signaled, quit, connected, mAbsolute} \subseteq BOOLEAN
        /\ {overwritten, torn, overrun, refused, split, mixed, tilted, absolute}
             \subseteq BOOLEAN
    OBVIOUS
  <2> QED
    BY <2>1, <2>2, <2>3, <2>4, <2>5, <2>6, <2>7 DEF TypeOK
<1>2. NoLostWakeup /\ CreditsAccounted /\ OneLanded
  BY DEF NoLostWakeup, CreditsAccounted, OneLanded
<1>3. ClicksConserved
  BY DEF ClicksConserved, One, ButtonsPacked, Landed, Held
<1>4. DeltaConserved
  BY DEF DeltaConserved, At, ButtonsPacked, TakingWheel, WheelPacked, XPacked, Landed,
         Held
<1>7. WheelConserved
  BY DEF WheelConserved, At, ButtonsPacked, TakingWheel, WheelPacked, Landed, Held
<1>8. RelativeOnly /\ TurnWithFlag
  BY DEF RelativeOnly, TurnWithFlag, NoMouse, Nothing, StoringWheel, TakingWheel,
         ButtonsPacked, Landed, Held
<1>9. XFlagsAlone
  BY DEF XFlagsAlone, Alone, ButtonsPacked, Landed, Held
<1>5. KeyInOnePlace
  BY DEF KeyInOnePlace, TakingKey, StoringKey
<1>6. KeysInOrder
  BY DEF KeysInOrder, InSlot, InPacket, InBuffer, InRead, Landed, Held, One,
         BeforeSlot, BeforePacket, BeforeBuffer
<1> QED
  BY <1>1, <1>2, <1>3, <1>4, <1>5, <1>6, <1>7, <1>8, <1>9 DEF IInv

\* IInv holds in every reachable state: a key, a flag or an amount is in one place
\* between SendEvent's atomics and SendInput, the earlier keys are further on, and
\* an amount of the wheel, or an X flag, has with it what the receiver asks for.
THEOREM InputInvariance == Spec => []IInv
<1>1. IInv /\ [Next]_vars => IInv'
  BY TypeStep, WakeupStep, CreditsStep, OneLandedStep, RelativeStep, TurnStep,
     AloneStep,
     ClicksStep, DeltaStep, WheelStep, KeyPlaceStep, KeysStep DEF IInv
<1> QED
  BY InitInv, <1>1, PTL DEF Spec

\* The atomics, the packets and the counters keep their types; no more than
\* one receive over Credits is ever posted.
THEOREM InputTypeCorrect == Spec => []TypeOK
BY InputInvariance, PTL DEF IInv

\* No event put into the atomics is slept on by InputNDSessionServer::Loop,
\* wherever SendEvent's stores fall between its wait and its exchanges.
THEOREM WakeupNotLost == Spec => []NoLostWakeup
BY InputInvariance, PTL DEF IInv

\* Relative movement is conserved between SendEvent and SendInput, as long as no
\* packet was overrun or refused.
THEOREM MovesConserved == Spec => []DeltaConserved
BY InputInvariance, PTL DEF IInv

\* What the wheel was turned is conserved, though the receiver drops an amount
\* without RI_MOUSE_WHEEL: only a turn exchanged between its two stores, or a
\* tilt, separates the two.
THEOREM TurnsConserved == Spec => []WheelConserved
BY InputInvariance, PTL DEF IInv

\* Every press and release is injected once, X buttons included, unless flags met
\* in one packet that the receiver does not take together, or equal ones did.
THEOREM ButtonsConserved == Spec => []ClicksConserved
BY InputInvariance, PTL DEF IInv

\* The keys SendInput gets are the keys typed, in order and unaltered, unless
\* one of the four known ways to lose one occurred.
THEOREM KeysAsTyped == Spec => []InjectedAsTyped
<1>1. IInv => InjectedAsTyped
  <2> SUFFICES ASSUME IInv, Undisturbed
               PROVE  /\ Len(injected) <= Len(typed)
                      /\ injected = SubSeq(typed, 1, Len(injected))
    BY DEF InjectedAsTyped, Undisturbed
  <2>1. injected \in Seq(KeyFields) /\ typed \in Seq(KeyEvents)
    BY DEF IInv, TypeOK
  <2>2. \A i \in 1..Len(injected) : injected[i] = typed[i]
    BY DEF IInv, KeysInOrder
  <2>3. Len(injected) <= Len(typed)
    <3>1. Len(typed) = BeforeSlot + One(InSlot)
      BY DEF IInv, KeysInOrder
    <3>2. /\ One(InRead) \in {0, 1} /\ One(InBuffer) \in {0, 1}
          /\ One(InPacket) \in {0, 1} /\ One(InSlot) \in {0, 1}
      BY DEF One
    <3> QED
      BY <2>1, <3>1, <3>2 DEF BeforeSlot, BeforePacket, BeforeBuffer
  <2>4. injected = SubSeq(typed, 1, Len(injected))
    BY <2>1, <2>2, <2>3
  <2> QED
    BY <2>3, <2>4
<1> QED
  BY InputInvariance, <1>1, PTL

\* A Send finds no receive posted, and so silently ends the input thread, only
\* when the receiver has Credits completions it has not taken.
THEOREM SendFailure == Spec => SendFailsOnlyWhenBehind
<1>1. IInv /\ [Next]_vars
        => [connected /\ sPc = "send" /\ sPc' = "returned" => completed >= Credits]_vars
  <2> SUFFICES ASSUME IInv, [Next]_vars, connected, sPc = "send", sPc' = "returned"
               PROVE  completed >= Credits
    OBVIOUS
  <2>1. posted = 0
    BY DEF Next, Window, StoreX, StoreWheel, StoreFlags, StoreAbsolute, TypeKey,
           StoreDown, StoreE0, SignalEvent, CloseWindow, Sources, Sender, Wake, TakeX,
           TakeWheel, TakeAbsolute, TakeButtons, TakeScan, TakeDown, TakeE0,
           SendDelivered, SendFails, SendCancelled, Receiver, PostReceive,
           ReceiveCompleted, ReadPacket, InjectPacket, Inject, Abort, ReceiverReturns,
           Disconnect, Rest, vars
  <2>2. posted + completed \in {Credits, Credits + 1}
    BY DEF IInv, CreditsAccounted
  <2> QED
    BY <2>1, <2>2, InputAssumption DEF IInv, TypeOK
<1> QED
  BY InputInvariance, <1>1, PTL DEF Spec, SendFailsOnlyWhenBehind

-----------------------------------------------------------------------------
(* The escape combinations, whatever the other keys of the keyboard are.      *)

\* Every step is a make or a break of a key, a change of focus, or a stutter.
LEMMA KeySteps ==
  ASSUME [ComboNext]_comboVars
  PROVE \/ \E k \in Keys : Make(k)
        \/ \E k \in Keys : Break(k)
        \/ FocusChange
        \/ UNCHANGED comboVars
BY DEF ComboNext

\* The masks of the code, as sets of bits.
LEMMA BitFacts ==
  /\ Tracked = {"Alt", "Tab", "Ctrl", "LShift", "RShift", "X"}
  /\ \A k \in Tracked : Bits[k] \subseteq 0..5
  /\ Bits["Alt"] = {3, 4, 5} /\ Bits["Tab"] = {0, 1, 2, 3}
  /\ Bits["Ctrl"] = {0, 2, 3, 4} /\ Bits["X"] = {0, 2, 3, 5}
  /\ Bits["LShift"] = {1, 3, 5} /\ Bits["RShift"] = {1, 2, 4, 5}
<1>1. Tracked = {"Alt", "Tab", "Ctrl", "LShift", "RShift", "X"}
  BY DEF Tracked, Bits
<1>2. /\ Bits["Alt"] = {3, 4, 5} /\ Bits["Tab"] = {0, 1, 2, 3}
      /\ Bits["Ctrl"] = {0, 2, 3, 4} /\ Bits["X"] = {0, 2, 3, 5}
      /\ Bits["LShift"] = {1, 3, 5} /\ Bits["RShift"] = {1, 2, 4, 5}
  BY DEF Bits
<1> QED
  BY <1>1, <1>2

\* KeyFlags only ever holds bits of the masks, and every key seen is a key.
THEOREM KeyTypeCorrect == ComboSpec => []ComboTypeOK
<1>1. ComboInit => ComboTypeOK
  BY DEF ComboInit, ComboTypeOK
<1>2. ComboTypeOK /\ [ComboNext]_comboVars => ComboTypeOK'
  <2> SUFFICES ASSUME ComboTypeOK, [ComboNext]_comboVars PROVE ComboTypeOK'
    OBVIOUS
  <2>1. ASSUME NEW k \in Keys, Make(k) PROVE ComboTypeOK'
    <3>1. Raise(k) \subseteq 0..5
      BY BitFacts DEF ComboTypeOK, Raise
    <3>2. CASE focused
      <4>1. blocked' \in BOOLEAN
        BY <2>1, <3>2 DEF Make, AltTab, CtrlAltShiftX, Test
      <4>2. last' = <<k, "make">> /\ <<k, "make">> \in Keys \X {"make", "break"}
        BY <2>1, <3>2 DEF Make
      <4>3. KeyFlags' = Raise(k) /\ seen' = seen \cup {k} /\ held' = held \cup {k}
        BY <2>1, <3>2 DEF Make
      <4>4. focused' \in BOOLEAN
        BY <2>1 DEF ComboTypeOK, Make
      <4>5. last' \in {<<>>} \cup (Keys \X {"make", "break"})
        BY <4>2
      <4>6. KeyFlags' \subseteq 0..5 /\ seen' \subseteq Keys /\ held' \subseteq Keys
        BY <2>1, <3>1, <4>3 DEF ComboTypeOK
      <4> QED
        BY <4>1, <4>4, <4>5, <4>6 DEF ComboTypeOK
    <3>3. CASE ~focused
      BY <2>1, <3>3 DEF ComboTypeOK, Make
    <3> QED
      BY <3>2, <3>3
  <2>2. ASSUME NEW k \in Keys, Break(k) PROVE ComboTypeOK'
    <3>1. Clear(k) \subseteq 0..5
      BY DEF ComboTypeOK, Clear
    <3>2. CASE focused
      <4>1. last' = <<k, "break">> /\ blocked' = FALSE /\ focused' = focused
        BY <2>2, <3>2 DEF Break
      <4>2. last' \in {<<>>} \cup (Keys \X {"make", "break"})
        BY <4>1
      <4>3. KeyFlags' \subseteq 0..5 /\ seen' \subseteq Keys /\ held' \subseteq Keys
        BY <2>2, <3>1, <3>2 DEF Break, ComboTypeOK
      <4> QED
        BY <4>1, <4>2, <4>3 DEF ComboTypeOK
    <3>3. CASE ~focused
      BY <2>2, <3>3 DEF ComboTypeOK, Break
    <3> QED
      BY <3>2, <3>3
  <2>3. CASE FocusChange
    BY <2>3 DEF ComboTypeOK, FocusChange
  <2>4. CASE UNCHANGED comboVars
    BY <2>4 DEF ComboTypeOK, comboVars
  <2> QED
    BY KeySteps, <2>1, <2>2, <2>3, <2>4
<1> QED
  BY <1>1, <1>2, PTL DEF ComboSpec

\* Releasing a key removes only bits that this key, or the other shift, can have
\* set, so what is left belongs to keys still down: the word drains to 0 when the
\* window has seen every release.
THEOREM NoStale == ComboSpec => []NoStaleBits
<1>1. ComboInit => NoStaleBits
  BY DEF ComboInit, NoStaleBits
<1>2. NoStaleBits /\ [ComboNext]_comboVars => NoStaleBits'
  <2> SUFFICES ASSUME NoStaleBits, [ComboNext]_comboVars PROVE NoStaleBits'
    OBVIOUS
  <2>1. ASSUME NEW k \in Keys, Make(k) PROVE NoStaleBits'
    <3>1. CASE ~focused
      BY <2>1, <3>1 DEF Make, NoStaleBits
    <3>2. CASE focused
      <4>1. KeyFlags' = Raise(k) /\ seen' = seen \cup {k}
        BY <2>1, <3>2 DEF Make
      <4> QED
        BY <4>1 DEF NoStaleBits, Raise
    <3> QED
      BY <3>1, <3>2
  <2>2. ASSUME NEW k \in Keys, Break(k) PROVE NoStaleBits'
    <3>1. CASE ~focused
      BY <2>2, <3>1 DEF Break, NoStaleBits
    <3>2. CASE focused
      <4>1. KeyFlags' = Clear(k) /\ seen' = seen \ {k}
        BY <2>2, <3>2 DEF Break
      <4>2. Clear(k) \subseteq KeyFlags
        BY DEF Clear
      <4>3. k \in Tracked => Clear(k) \cap Bits[k] = {}
        BY DEF Clear, Shifts
      <4> QED
        BY <4>1, <4>2, <4>3 DEF NoStaleBits
    <3> QED
      BY <3>1, <3>2
  <2>3. CASE FocusChange
    BY <2>3 DEF FocusChange, NoStaleBits
  <2>4. CASE UNCHANGED comboVars
    BY <2>4 DEF comboVars, NoStaleBits
  <2> QED
    BY KeySteps, <2>1, <2>2, <2>3, <2>4
<1> QED
  BY <1>1, <1>2, PTL DEF ComboSpec

\* A real Alt+Tab or Ctrl+Alt+Shift+X is never missed.  The reason is the overlap
\* of the masks: the make of Tab, or of X, sets a bit of every mask it is tested
\* with, whatever other releases have cleared.
THEOREM NeverMissed == ComboSpec => []ComboNeverMissed
<1>1. ComboInit => ComboNeverMissed
  BY DEF ComboInit, ComboNeverMissed
<1>2. ASSUME NEW k \in Keys, k \in {"Tab", "X"}, focused, Make(k) PROVE blocked'
  <2>1. k \in Tracked /\ Raise(k) = KeyFlags \cup Bits[k]
    BY <1>2, BitFacts DEF Raise
  <2>2. CASE k = "Tab"
    <3>1. 3 \in Raise(k)
      BY <2>1, <2>2, BitFacts
    <3>2. AltTab(k, Raise(k))
      BY <2>2, <3>1, BitFacts DEF AltTab, Test
    <3> QED
      BY <1>2, <3>2 DEF Make
  <2>3. CASE k = "X"
    <3>1. 3 \in Raise(k)
      BY <2>1, <2>3, BitFacts
    <3>2. CtrlAltShiftX(k, Raise(k))
      BY <2>3, <3>1, BitFacts DEF CtrlAltShiftX, Test
    <3> QED
      BY <1>2, <3>2 DEF Make
  <2> QED
    BY <1>2, <2>2, <2>3
<1>3. ComboNeverMissed /\ [ComboNext]_comboVars => ComboNeverMissed'
  <2> SUFFICES ASSUME ComboNeverMissed, [ComboNext]_comboVars PROVE ComboNeverMissed'
    OBVIOUS
  <2>1. ASSUME NEW k \in Keys, Make(k) PROVE ComboNeverMissed'
    <3>1. CASE ~focused
      BY <2>1, <3>1 DEF Make, ComboNeverMissed
    <3>2. CASE focused /\ k \in {"Tab", "X"}
      BY <2>1, <3>2, <1>2 DEF ComboNeverMissed
    <3>3. CASE focused /\ k \notin {"Tab", "X"}
      BY <2>1, <3>3 DEF Make, ComboNeverMissed
    <3> QED
      BY <3>1, <3>2, <3>3
  <2>2. ASSUME NEW k \in Keys, Break(k) PROVE ComboNeverMissed'
    <3>1. CASE ~focused
      BY <2>2, <3>1 DEF Break, ComboNeverMissed
    <3>2. CASE focused
      BY <2>2, <3>2 DEF Break, ComboNeverMissed
    <3> QED
      BY <3>1, <3>2
  <2>3. CASE FocusChange
    BY <2>3 DEF FocusChange, ComboNeverMissed
  <2>4. CASE UNCHANGED comboVars
    BY <2>4 DEF comboVars, ComboNeverMissed
  <2> QED
    BY KeySteps, <2>1, <2>2, <2>3, <2>4
<1> QED
  BY <1>1, <1>3, PTL DEF ComboSpec
=============================================================================
