-------------------------- MODULE FrameChannelProofs --------------------------
(***************************************************************************)
(* Proofs about FrameChannel, for every frame size, every number of frames   *)
(* and every mode.  The inductive invariant has four parts: types, the count *)
(* of frames delivered, what the capture loop has copied, and the handshake, *)
(* which holds until a collision.                                            *)
(***************************************************************************)
EXTENDS FrameChannel, TLAPS

\* Frames given to an AsyncWrite so far; the last of them is in buffers[aBuf].
Launched == IF cPc = "acquire" THEN captured ELSE captured - 1

\* Frames whose Send has consumed a receive of the viewer.
Delivered ==
  Len(shown) + completions + (IF sPc \in {"check", "copy", "thrown"} THEN 1 ELSE 0)

\* Every launched frame has been delivered, but for one in flight or failed.
Counting ==
  /\ cPc # "acquire" => captured > 0
  /\ Launched - 1 <= Delivered /\ Delivered <= Launched
  /\ aPc \in {"none", "sent", "true"} => Delivered = Launched
  /\ InFlight => Delivered = Launched - 1

\* The capture loop has copied what it no longer has to copy.
Copying ==
  cPc = "copy" => \A b \in FrameByte \ cLeft : cBuf[cIndex][b] = captured

\* The viewer waits with a receive posted, or nothing can be sent any more.
Ready ==
  /\ posted > 0
  /\ (sPc = "wait" /\ completions = 0) \/ ~connected

\* The viewer's buffer holds the frame that is to be shown next.
NextFrame == \A p \in Pixels : sBuf[p] = Len(shown) + 1

\* The flags: a 2 means that the viewer is ready, on both sides, and no
\* write is under way otherwise.
FlagInv ==
  /\ sBuf[0] = 2 => Ready
  /\ aPc = "poll" /\ cBuf[aBuf][0] = 2 => Ready
  /\ aPc \in {"write", "send"} => Ready
  /\ aPc = "send" => cBuf[aBuf][0] = 1
  /\ sPc = "arm" => posted > 0
  /\ completions > 0 => completions = 1 /\ sPc = "wait" /\ sBuf[0] = 1
  /\ sPc = "check" => sBuf[0] = 1
  /\ sPc # "thrown"
  /\ cPc = "copy" /\ InFlight => aBuf # cIndex

\* The bytes: from the buffer of the AsyncWrite to the images shown.
FrameInv ==
  /\ InFlight => \A b \in FrameByte : cBuf[aBuf][b] = Launched
  /\ aPc = "write" => \A p \in Pixels \ aLeft : sBuf[p] = Launched
  /\ aPc = "send" => \A p \in Pixels : sBuf[p] = Launched
  /\ completions > 0 \/ sPc \in {"check", "copy"} => NextFrame
  /\ sPc = "copy" => \A p \in Pixels \ sLeft : image[p] = Len(shown) + 1
  /\ \A n \in 1..Len(shown) : \A p \in Pixels : shown[n][p] = n

\* In test mode the capture loop is always in the other buffer.
Alternating ==
  Mode = "test" =>
    /\ ~collided
    /\ aPc # "none" => (aBuf = cIndex <=> cPc = "acquire")

IInv ==
  /\ TypeOK
  /\ Counting
  /\ Copying
  /\ ~collided => FlagInv /\ FrameInv
  /\ Alternating

-------------------------------------------------------------------------------

\* Byte 0 is the flag, the others are the frame; all but the last are moved.
LEMMA ByteFacts ==
  /\ 0 \in Byte /\ 0 \notin FrameByte /\ FrameByte \subseteq Byte
  /\ Pixels \subseteq FrameByte /\ Transported \subseteq Byte
  /\ Transported = {0} \cup Pixels /\ 0 \notin Pixels
BY ChannelAssumption DEF Byte, FrameByte, Pixels, Transported

\* A step of the channel is a step of one of its actions, or a stutter.
LEMMA Steps ==
  ASSUME [Next]_vars
  PROVE \/ PostReceive
        \/ ArmFlag
        \/ WaitForCompletion
        \/ CheckFlag
        \/ Throw
        \/ \E b \in FrameByte : UpdateSubresource(b)
        \/ Render
        \/ Shutdown
        \/ RequestQuit
        \/ Acquire
        \/ AcquireFailed
        \/ MarkBuffer
        \/ \E b \in FrameByte : CopyByte(b)
        \/ LaunchWrite
        \/ WriteFailed
        \/ Disconnect
        \/ ReadFlag
        \/ PollFlag
        \/ ReadTimeout
        \/ \E b \in Transported : WriteByte(b)
        \/ RaiseFlag
        \/ DeliverSend
        \/ WriteCancelled
        \/ SendCompleted
        \/ PostFirst
        \/ FirstPostFails
        \/ DismissBox
        \/ UNCHANGED vars
BY DEF Next, ServerLoop, ClientLoop, AsyncWrite

\* Every action keeps the types.
LEMMA TypeStep == TypeOK /\ [Next]_vars => TypeOK'
<1> SUFFICES ASSUME TypeOK, [Next]_vars PROVE TypeOK'
  OBVIOUS
<1> USE ByteFacts, ChannelAssumption
    DEF TypeOK, vars, serverVars, clientVars, asyncVars, Buffer
<1>1. CASE PostReceive BY <1>1 DEF PostReceive
<1>2. CASE ArmFlag BY <1>2 DEF ArmFlag
<1>3. CASE WaitForCompletion BY <1>3 DEF WaitForCompletion
<1>4. CASE CheckFlag BY <1>4 DEF CheckFlag
<1>5. CASE Throw BY <1>5 DEF Throw
<1>6. CASE \E b \in FrameByte : UpdateSubresource(b)
  BY <1>6 DEF UpdateSubresource
<1>7. CASE Render BY <1>7 DEF Render
<1>8. CASE Shutdown BY <1>8 DEF Shutdown
<1>9. CASE RequestQuit BY <1>9 DEF RequestQuit
<1>10. CASE Acquire BY <1>10 DEF Acquire
<1>11. CASE AcquireFailed BY <1>11 DEF AcquireFailed
<1>12. CASE MarkBuffer BY <1>12 DEF MarkBuffer
<1>13. CASE \E b \in FrameByte : CopyByte(b)
  BY <1>13 DEF CopyByte
<1>14. CASE LaunchWrite BY <1>14 DEF LaunchWrite
<1>15. CASE WriteFailed BY <1>15 DEF WriteFailed
<1>16. CASE Disconnect
  <2>1. connected' \in BOOLEAN
    BY <1>16 DEF Disconnect
  <2>2. UNCHANGED <<serverVars, clientVars, asyncVars, sBuf, cBuf, posted, quit>>
    BY <1>16 DEF Disconnect
  <2> QED
    BY <2>1, <2>2
<1>17. CASE ReadFlag BY <1>17 DEF ReadFlag
<1>18. CASE PollFlag BY <1>18 DEF PollFlag
<1>19. CASE ReadTimeout BY <1>19 DEF ReadTimeout
<1>20. CASE \E b \in Transported : WriteByte(b)
  BY <1>20 DEF WriteByte
<1>21. CASE RaiseFlag BY <1>21 DEF RaiseFlag
<1>22. CASE DeliverSend BY <1>22 DEF DeliverSend
<1>23. CASE WriteCancelled BY <1>23 DEF WriteCancelled
<1>24. CASE SendCompleted BY <1>24 DEF SendCompleted
<1>25. CASE UNCHANGED vars BY <1>25
<1>26. CASE PostFirst BY <1>26 DEF PostFirst
<1>27. CASE FirstPostFails BY <1>27 DEF FirstPostFails
<1>28. CASE DismissBox BY <1>28 DEF DismissBox
<1> QED
  BY Steps, <1>1, <1>2, <1>3, <1>4, <1>5, <1>6, <1>7, <1>8, <1>9, <1>10,
     <1>11, <1>12, <1>13, <1>14, <1>15, <1>16, <1>17, <1>18, <1>19,
     <1>20, <1>21, <1>22, <1>23, <1>24, <1>25, <1>26, <1>27, <1>28

\* The counts are integers, and the last captured frame may not be launched yet.
LEMMA CountFacts ==
  ASSUME IInv
  PROVE /\ Len(shown) \in Nat /\ completions \in Nat /\ captured \in Nat
        /\ Delivered \in Int /\ Launched \in Int
        /\ captured - 1 <= Launched /\ Launched <= captured
<1>1. Len(shown) \in Nat /\ completions \in Nat /\ captured \in Nat
  BY ChannelAssumption DEF IInv, TypeOK
<1> QED
  BY <1>1 DEF Delivered, Launched

\* No action loses or invents a frame: an AsyncWrite that has returned true has
\* delivered its frame, and at most one launched frame is not delivered.
LEMMA CountingStep == IInv /\ [Next]_vars => Counting'
<1> SUFFICES ASSUME IInv, [Next]_vars PROVE Counting'
  OBVIOUS
<1> USE ByteFacts, ChannelAssumption, TypeStep
    DEF IInv, TypeOK, Counting, Launched, Delivered, InFlight, vars, serverVars,
        clientVars, asyncVars
<1>1. CASE PostReceive BY <1>1 DEF PostReceive
<1>2. CASE ArmFlag BY <1>2 DEF ArmFlag
<1>3. CASE WaitForCompletion
  <2>1. Delivered' = Delivered /\ Launched' = Launched /\ UNCHANGED <<aPc, cPc, captured>>
    BY <1>3 DEF WaitForCompletion
  <2> QED
    BY <2>1
<1>4. CASE CheckFlag BY <1>4 DEF CheckFlag
<1>5. CASE Throw BY <1>5 DEF Throw
<1>6. CASE \E b \in FrameByte : UpdateSubresource(b)
  BY <1>6 DEF UpdateSubresource
<1>7. CASE Render
  <2>1. Len(shown') = Len(shown) + 1
    BY <1>7 DEF Render
  <2>2. Len(shown) \in Nat /\ completions' = completions
    BY <1>7 DEF Render
  <2>3. Delivered' = Delivered
    <3>1. sPc = "copy" /\ sPc' \in {"top", "leave"}
      BY <1>7 DEF Render
    <3>2. Delivered = Len(shown) + completions + 1
      BY <3>1
    <3>3. Delivered' = Len(shown') + completions' + 0
      BY <3>1
    <3>4. completions \in Nat
      BY CountFacts
    <3> HIDE DEF Delivered, IInv, TypeOK
    <3> QED
      BY <2>1, <2>2, <3>2, <3>3, <3>4
  <2>4. Launched' = Launched /\ UNCHANGED <<aPc, cPc, captured>>
    BY <1>7 DEF Render
  <2> QED
    BY <2>3, <2>4
<1>8. CASE Shutdown BY <1>8 DEF Shutdown
<1>9. CASE RequestQuit BY <1>9 DEF RequestQuit
<1>10. CASE Acquire BY <1>10 DEF Acquire
<1>11. CASE AcquireFailed BY <1>11 DEF AcquireFailed
<1>12. CASE MarkBuffer BY <1>12 DEF MarkBuffer
<1>13. CASE \E b \in FrameByte : CopyByte(b) BY <1>13 DEF CopyByte
<1>14. CASE LaunchWrite BY <1>14 DEF LaunchWrite
<1>15. CASE WriteFailed BY <1>15 DEF WriteFailed
<1>16. CASE Disconnect BY <1>16 DEF Disconnect
<1>17. CASE ReadFlag BY <1>17 DEF ReadFlag
<1>18. CASE PollFlag BY <1>18 DEF PollFlag
<1>19. CASE ReadTimeout BY <1>19 DEF ReadTimeout
<1>20. CASE \E b \in Transported : WriteByte(b) BY <1>20 DEF WriteByte
<1>21. CASE RaiseFlag BY <1>21 DEF RaiseFlag
<1>22. CASE DeliverSend
  <2>1. Len(shown') = Len(shown) /\ Len(shown) \in Nat
    BY <1>22 DEF DeliverSend
  <2>2. Delivered' = Delivered + 1
    BY <1>22, <2>1 DEF DeliverSend
  <2>3. Launched' = Launched /\ UNCHANGED <<cPc, captured>>
    BY <1>22 DEF DeliverSend
  <2>4. Delivered = Launched - 1 /\ aPc' = "sent"
    BY <1>22 DEF DeliverSend
  <2>5. Launched \in Int
    BY CountFacts
  <2> HIDE ByteFacts, ChannelAssumption, TypeStep
  <2> HIDE DEF IInv, TypeOK
  <2>6. Delivered' = Launched'
    <3> HIDE DEF Delivered, Launched
    <3> QED
      BY <2>2, <2>3, <2>4, <2>5
  <2>7. cPc' # "acquire" => captured' > 0
    BY <2>3 DEF IInv
  <2> QED
    BY <2>3, <2>4, <2>5, <2>6, <2>7
<1>23. CASE WriteCancelled BY <1>23 DEF WriteCancelled
<1>24. CASE SendCompleted BY <1>24 DEF SendCompleted
<1>25. CASE UNCHANGED vars BY <1>25
<1>26. CASE PostFirst BY <1>26 DEF PostFirst
<1>27. CASE FirstPostFails BY <1>27 DEF FirstPostFails
<1>28. CASE DismissBox BY <1>28 DEF DismissBox
<1> QED
  BY Steps, <1>1, <1>2, <1>3, <1>4, <1>5, <1>6, <1>7, <1>8, <1>9, <1>10,
     <1>11, <1>12, <1>13, <1>14, <1>15, <1>16, <1>17, <1>18, <1>19,
     <1>20, <1>21, <1>22, <1>23, <1>24, <1>25, <1>26, <1>27, <1>28

\* The capture loop's buffer holds the captured frame where it is copied.
LEMMA CopyingStep == IInv /\ [Next]_vars => Copying'
<1> SUFFICES ASSUME IInv, [Next]_vars PROVE Copying'
  OBVIOUS
<1> USE ByteFacts, ChannelAssumption, TypeStep
    DEF IInv, TypeOK, Copying, vars, serverVars, clientVars, asyncVars,
        Buffer
<1>1. CASE PostReceive BY <1>1 DEF PostReceive
<1>2. CASE ArmFlag BY <1>2 DEF ArmFlag
<1>3. CASE WaitForCompletion BY <1>3 DEF WaitForCompletion
<1>4. CASE CheckFlag BY <1>4 DEF CheckFlag
<1>5. CASE Throw BY <1>5 DEF Throw
<1>6. CASE \E b \in FrameByte : UpdateSubresource(b)
  BY <1>6 DEF UpdateSubresource
<1>7. CASE Render BY <1>7 DEF Render
<1>8. CASE Shutdown BY <1>8 DEF Shutdown
<1>9. CASE RequestQuit BY <1>9 DEF RequestQuit
<1>10. CASE Acquire BY <1>10 DEF Acquire
<1>11. CASE AcquireFailed BY <1>11 DEF AcquireFailed
<1>12. CASE MarkBuffer BY <1>12 DEF MarkBuffer
<1>13. ASSUME NEW b \in FrameByte, CopyByte(b) PROVE Copying'
  <2>1. cLeft' = cLeft \ {b} /\ cIndex' = cIndex /\ captured' = captured
    BY <1>13 DEF CopyByte
  <2>2. cBuf'[cIndex][b] = captured
    BY <1>13 DEF CopyByte
  <2>3. \A c \in FrameByte \ {b} : cBuf'[cIndex][c] = cBuf[cIndex][c]
    BY <1>13 DEF CopyByte
  <2> QED
    BY <1>13, <2>1, <2>2, <2>3 DEF CopyByte
<1>14. CASE LaunchWrite BY <1>14 DEF LaunchWrite
<1>15. CASE WriteFailed BY <1>15 DEF WriteFailed
<1>16. CASE Disconnect BY <1>16 DEF Disconnect
<1>17. CASE ReadFlag BY <1>17 DEF ReadFlag
<1>18. CASE PollFlag BY <1>18 DEF PollFlag
<1>19. CASE ReadTimeout BY <1>19 DEF ReadTimeout
<1>20. CASE \E b \in Transported : WriteByte(b) BY <1>20 DEF WriteByte
<1>21. CASE RaiseFlag BY <1>21 DEF RaiseFlag
<1>22. CASE DeliverSend BY <1>22 DEF DeliverSend
<1>23. CASE WriteCancelled BY <1>23 DEF WriteCancelled
<1>24. CASE SendCompleted BY <1>24 DEF SendCompleted
<1>25. CASE UNCHANGED vars BY <1>25
<1>26. CASE PostFirst BY <1>26 DEF PostFirst
<1>27. CASE FirstPostFails BY <1>27 DEF FirstPostFails
<1>28. CASE DismissBox BY <1>28 DEF DismissBox
<1> QED
  BY Steps, <1>1, <1>2, <1>3, <1>4, <1>5, <1>6, <1>7, <1>8, <1>9, <1>10,
     <1>11, <1>12, <1>13, <1>14, <1>15, <1>16, <1>17, <1>18, <1>19,
     <1>20, <1>21, <1>22, <1>23, <1>24, <1>25, <1>26, <1>27, <1>28

\* In test mode index flips exactly once between two AsyncWrites.
LEMMA AlternatingStep == IInv /\ [Next]_vars => Alternating'
<1> SUFFICES ASSUME IInv, [Next]_vars PROVE Alternating'
  OBVIOUS
<1> USE ByteFacts, ChannelAssumption, TypeStep
    DEF IInv, TypeOK, Alternating, InFlight, vars, serverVars,
        clientVars, asyncVars, Buffer
<1>1. CASE PostReceive BY <1>1 DEF PostReceive
<1>2. CASE ArmFlag BY <1>2 DEF ArmFlag
<1>3. CASE WaitForCompletion BY <1>3 DEF WaitForCompletion
<1>4. CASE CheckFlag BY <1>4 DEF CheckFlag
<1>5. CASE Throw BY <1>5 DEF Throw
<1>6. CASE \E b \in FrameByte : UpdateSubresource(b)
  BY <1>6 DEF UpdateSubresource
<1>7. CASE Render BY <1>7 DEF Render
<1>8. CASE Shutdown BY <1>8 DEF Shutdown
<1>9. CASE RequestQuit BY <1>9 DEF RequestQuit
<1>10. CASE Acquire BY <1>10 DEF Acquire
<1>11. CASE AcquireFailed BY <1>11 DEF AcquireFailed
<1>12. CASE MarkBuffer BY <1>12 DEF MarkBuffer
<1>13. CASE \E b \in FrameByte : CopyByte(b) BY <1>13 DEF CopyByte
<1>14. CASE LaunchWrite BY <1>14 DEF LaunchWrite
<1>15. CASE WriteFailed BY <1>15 DEF WriteFailed
<1>16. CASE Disconnect BY <1>16 DEF Disconnect
<1>17. CASE ReadFlag BY <1>17 DEF ReadFlag
<1>18. CASE PollFlag BY <1>18 DEF PollFlag
<1>19. CASE ReadTimeout BY <1>19 DEF ReadTimeout
<1>20. CASE \E b \in Transported : WriteByte(b) BY <1>20 DEF WriteByte
<1>21. CASE RaiseFlag BY <1>21 DEF RaiseFlag
<1>22. CASE DeliverSend BY <1>22 DEF DeliverSend
<1>23. CASE WriteCancelled BY <1>23 DEF WriteCancelled
<1>24. CASE SendCompleted BY <1>24 DEF SendCompleted
<1>25. CASE UNCHANGED vars BY <1>25
<1>26. CASE PostFirst BY <1>26 DEF PostFirst
<1>27. CASE FirstPostFails BY <1>27 DEF FirstPostFails
<1>28. CASE DismissBox BY <1>28 DEF DismissBox
<1> QED
  BY Steps, <1>1, <1>2, <1>3, <1>4, <1>5, <1>6, <1>7, <1>8, <1>9, <1>10,
     <1>11, <1>12, <1>13, <1>14, <1>15, <1>16, <1>17, <1>18, <1>19,
     <1>20, <1>21, <1>22, <1>23, <1>24, <1>25, <1>26, <1>27, <1>28

\* The handshake: a flag of 2 is seen only while the viewer waits, and stays
\* valid through the read, the write and the Send.
LEMMA FlagStep == IInv /\ [Next]_vars => (~collided' => FlagInv')
<1> SUFFICES ASSUME IInv, [Next]_vars, ~collided' PROVE FlagInv'
  OBVIOUS
<1> USE ByteFacts, ChannelAssumption, TypeStep
    DEF IInv, TypeOK, FlagInv, Ready, InFlight, vars, serverVars,
        clientVars, asyncVars, Buffer
<1>1. CASE PostReceive BY <1>1 DEF PostReceive
<1>2. CASE ArmFlag BY <1>2 DEF ArmFlag
<1>3. CASE WaitForCompletion BY <1>3 DEF WaitForCompletion
<1>4. CASE CheckFlag BY <1>4 DEF CheckFlag
<1>5. CASE Throw BY <1>5 DEF Throw
<1>6. CASE \E b \in FrameByte : UpdateSubresource(b)
  BY <1>6 DEF UpdateSubresource
<1>7. CASE Render BY <1>7 DEF Render
<1>8. CASE Shutdown BY <1>8 DEF Shutdown
<1>9. CASE RequestQuit BY <1>9 DEF RequestQuit
<1>10. CASE Acquire BY <1>10 DEF Acquire
<1>11. CASE AcquireFailed BY <1>11 DEF AcquireFailed
<1>12. CASE MarkBuffer BY <1>12 DEF MarkBuffer
<1>13. ASSUME NEW b \in FrameByte, CopyByte(b) PROVE FlagInv'
  <2>1. cBuf'[aBuf][0] = cBuf[aBuf][0] /\ aBuf' = aBuf
    BY <1>13 DEF CopyByte
  <2>2. cPc = "copy" /\ cPc' = cPc /\ cIndex' = cIndex /\ ~collided
    BY <1>13 DEF CopyByte
  <2> QED
    BY <1>13, <2>1, <2>2 DEF CopyByte
<1>14. CASE LaunchWrite BY <1>14 DEF LaunchWrite
<1>15. CASE WriteFailed BY <1>15 DEF WriteFailed
<1>16. CASE Disconnect BY <1>16 DEF Disconnect
<1>17. CASE ReadFlag BY <1>17 DEF ReadFlag
<1>18. CASE PollFlag BY <1>18 DEF PollFlag
<1>19. CASE ReadTimeout BY <1>19 DEF ReadTimeout
<1>20. CASE \E b \in Transported : WriteByte(b) BY <1>20 DEF WriteByte
<1>21. CASE RaiseFlag BY <1>21 DEF RaiseFlag
<1>22. CASE DeliverSend BY <1>22 DEF DeliverSend
<1>23. CASE WriteCancelled BY <1>23 DEF WriteCancelled
<1>24. CASE SendCompleted BY <1>24 DEF SendCompleted
<1>25. CASE UNCHANGED vars BY <1>25
<1>26. CASE PostFirst BY <1>26 DEF PostFirst
<1>27. CASE FirstPostFails BY <1>27 DEF FirstPostFails
<1>28. CASE DismissBox BY <1>28 DEF DismissBox
<1> QED
  BY Steps, <1>1, <1>2, <1>3, <1>4, <1>5, <1>6, <1>7, <1>8, <1>9, <1>10,
     <1>11, <1>12, <1>13, <1>14, <1>15, <1>16, <1>17, <1>18, <1>19,
     <1>20, <1>21, <1>22, <1>23, <1>24, <1>25, <1>26, <1>27, <1>28

\* The frame moves whole from the buffer of the AsyncWrite to the screen.
LEMMA FrameStep == IInv /\ [Next]_vars => (~collided' => FrameInv')
<1> SUFFICES ASSUME IInv, [Next]_vars, ~collided' PROVE FrameInv'
  OBVIOUS
<1> USE ByteFacts, ChannelAssumption, TypeStep
    DEF IInv, TypeOK, FlagInv, FrameInv, Ready, Copying, Counting,
        Launched, Delivered, NextFrame, InFlight, vars, serverVars,
        clientVars, asyncVars, Buffer
<1>1. CASE PostReceive BY <1>1 DEF PostReceive
<1>2. CASE ArmFlag BY <1>2 DEF ArmFlag
<1>3. CASE WaitForCompletion BY <1>3 DEF WaitForCompletion
<1>4. CASE CheckFlag BY <1>4 DEF CheckFlag
<1>5. CASE Throw BY <1>5 DEF Throw
<1>6. ASSUME NEW b \in FrameByte, UpdateSubresource(b) PROVE FrameInv'
  <2>1. /\ sPc = "copy" /\ sLeft' = sLeft \ {b} /\ image'[b] = sBuf[b]
        /\ \A c \in FrameByte \ {b} : image'[c] = image[c]
    BY <1>6 DEF UpdateSubresource
  <2>2. UNCHANGED <<sPc, shown, completions, sBuf, collided, cPc, captured, aPc,
                    aBuf, aLeft, cBuf>>
    BY <1>6 DEF UpdateSubresource
  <2>3. FrameInv /\ NextFrame
    BY <2>1, <2>2
  <2>4. \A p \in Pixels \ sLeft' : image'[p] = Len(shown) + 1
    <3> SUFFICES ASSUME NEW p \in Pixels \ sLeft' PROVE image'[p] = Len(shown) + 1
      OBVIOUS
    <3>1. CASE p = b
      BY <3>1, <2>1, <2>3
    <3>2. CASE p # b
      BY <3>2, <2>1, <2>3
    <3> QED
      BY <3>1, <3>2
  <2> HIDE DEF IInv, TypeOK, FlagInv, Copying, Counting, Delivered
  <2> QED
    BY <2>2, <2>3, <2>4
<1>7. CASE Render BY <1>7 DEF Render
<1>8. CASE Shutdown BY <1>8 DEF Shutdown
<1>9. CASE RequestQuit BY <1>9 DEF RequestQuit
<1>10. CASE Acquire BY <1>10 DEF Acquire
<1>11. CASE AcquireFailed BY <1>11 DEF AcquireFailed
<1>12. CASE MarkBuffer BY <1>12 DEF MarkBuffer
<1>13. CASE \E b \in FrameByte : CopyByte(b) BY <1>13 DEF CopyByte
<1>14. CASE LaunchWrite BY <1>14 DEF LaunchWrite
<1>15. CASE WriteFailed BY <1>15 DEF WriteFailed
<1>16. CASE Disconnect BY <1>16 DEF Disconnect
<1>17. CASE ReadFlag BY <1>17 DEF ReadFlag
<1>18. CASE PollFlag BY <1>18 DEF PollFlag
<1>19. CASE ReadTimeout BY <1>19 DEF ReadTimeout
<1>20. CASE \E b \in Transported : WriteByte(b) BY <1>20 DEF WriteByte
<1>21. CASE RaiseFlag BY <1>21 DEF RaiseFlag
<1>22. CASE DeliverSend BY <1>22 DEF DeliverSend
<1>23. CASE WriteCancelled BY <1>23 DEF WriteCancelled
<1>24. CASE SendCompleted BY <1>24 DEF SendCompleted
<1>25. CASE UNCHANGED vars BY <1>25
<1>26. CASE PostFirst BY <1>26 DEF PostFirst
<1>27. CASE FirstPostFails BY <1>27 DEF FirstPostFails
<1>28. CASE DismissBox BY <1>28 DEF DismissBox
<1> QED
  BY Steps, <1>1, <1>2, <1>3, <1>4, <1>5, <1>6, <1>7, <1>8, <1>9, <1>10,
     <1>11, <1>12, <1>13, <1>14, <1>15, <1>16, <1>17, <1>18, <1>19,
     <1>20, <1>21, <1>22, <1>23, <1>24, <1>25, <1>26, <1>27, <1>28

\* The initial state satisfies the invariant: nothing has been launched.
LEMMA InitInv == Init => IInv
<1> SUFFICES ASSUME Init PROVE IInv
  OBVIOUS
<1>1. TypeOK
  BY ByteFacts, ChannelAssumption DEF Init, TypeOK, Buffer
<1>2. Counting /\ Copying /\ Alternating
  BY DEF Init, Counting, Delivered, Launched, InFlight, Copying, Alternating
<1>3. FlagInv
  BY ByteFacts DEF Init, FlagInv, Ready, InFlight
<1>4. Len(shown) = 0
  BY DEF Init
<1>5. FrameInv
  BY <1>4 DEF Init, FrameInv, InFlight
<1> QED
  BY <1>1, <1>2, <1>3, <1>5 DEF IInv

\* Every state of the channel has the types of its variables: captured never
\* exceeds MaxFrames, and both loops and AsyncWrite stay in their steps.
THEOREM TypeCorrect == Spec => []TypeOK
<1>1. Init => TypeOK
  BY InitInv DEF IInv
<1> QED
  BY <1>1, TypeStep, PTL DEF Spec

\* The inductive invariant holds in every state.
THEOREM Invariance == Spec => []IInv
<1>1. IInv /\ [Next]_vars => IInv'
  BY TypeStep, CountingStep, CopyingStep, FlagStep, FrameStep, AlternatingStep
  DEF IInv
<1> QED
  BY InitInv, <1>1, PTL DEF Spec

\* The viewer throws on a wrong flag only after the capture loop has re-entered
\* the buffer of an AsyncWrite, whatever the sizes and the mode.
THEOREM FlagSafety == Spec => []FlagIsOneUnlessCollided
<1>1. IInv => FlagIsOneUnlessCollided
  BY DEF IInv, FlagInv, FlagIsOneUnlessCollided, ReceivedFlagIsOne
<1> QED
  BY Invariance, <1>1, PTL

\* Until such a collision every image rendered is the next captured frame, whole.
THEOREM FramesWhole == Spec => []ShownWholeInOrder
<1>1. IInv => ShownWholeInOrder
  BY DEF IInv, FrameInv, ShownWholeInOrder
<1> QED
  BY Invariance, <1>1, PTL

\* The RDMA write and UpdateSubresource never use the viewer's buffer together.
THEOREM WriteExclusion == Spec => []WriteOnlyWhileWaiting
<1>1. IInv => WriteOnlyWhileWaiting
  BY DEF IInv, FlagInv, Ready, WriteOnlyWhileWaiting
<1> QED
  BY Invariance, <1>1, PTL

\* A Send always meets a posted receive, with or without the extra one of Loop.
THEOREM ReceiveReady == Spec => []SendFindsReceive
<1>1. IInv => SendFindsReceive
  BY DEF IInv, FlagInv, Ready, SendFindsReceive
<1> QED
  BY Invariance, <1>1, PTL

\* In test mode the buffers alternate strictly, so that there is no collision.
THEOREM TestModeSafety == Spec => []TestModeNeverCollides
<1>1. IInv => TestModeNeverCollides
  BY DEF IInv, Alternating, TestModeNeverCollides
<1> QED
  BY Invariance, <1>1, PTL

\* The images as the abstract stream sees them: without the last byte.
Images == [n \in 1..Len(shown) |-> [p \in Pixels |-> shown[n][p]]]

\* Render appends exactly one whole image, that of the next frame.
LEMMA RenderShows ==
  ASSUME IInv, ~collided, Render
  PROVE Images' = Append(Images, [p \in Pixels |-> Len(Images) + 1])
<1> DEFINE n == Len(shown)
<1>1. n \in Nat /\ shown' = Append(shown, image) /\ Len(shown') = n + 1
  BY DEF IInv, TypeOK, Render
<1>2. \A i \in 1..n : shown'[i] = shown[i]
  BY <1>1 DEF IInv, TypeOK
<1>3. shown'[n + 1] = image
  BY <1>1 DEF IInv, TypeOK
<1>4. \A p \in Pixels : image[p] = n + 1
  BY DEF IInv, FrameInv, Render
<1>5. Len(Images) = n /\ Images \in Seq([Pixels -> Nat])
  <2>1. \A i \in 1..n : shown[i] \in [FrameByte -> Nat]
    BY <1>1 DEF IInv, TypeOK
  <2>2. \A i \in 1..n : \A p \in Pixels : shown[i][p] \in Nat
    BY <2>1, ByteFacts
  <2>3. Images \in [1..n -> [Pixels -> Nat]]
    BY <2>2 DEF Images
  <2> QED
    BY <2>3, <1>1 DEF Images
<1>6. Images' = [i \in 1..(n + 1) |-> [p \in Pixels |-> shown'[i][p]]]
  BY <1>1 DEF Images
<1>7. \A i \in 1..n : [p \in Pixels |-> shown'[i][p]] = Images[i]
  BY <1>2, <1>1 DEF Images
<1>8. [p \in Pixels |-> shown'[n + 1][p]] = [p \in Pixels |-> n + 1]
  BY <1>3, <1>4
<1>9. /\ Images' \in Seq([Pixels -> Nat]) /\ Len(Images') = n + 1
      /\ \A i \in 1..n : Images'[i] = Images[i]
      /\ Images'[n + 1] = [p \in Pixels |-> n + 1]
  <2>1. \A i \in 1..(n + 1) : [p \in Pixels |-> shown'[i][p]] \in [Pixels -> Nat]
    <3>1. \A i \in 1..n : Images[i] \in [Pixels -> Nat]
      BY <1>1, <1>5
    <3>2. [p \in Pixels |-> n + 1] \in [Pixels -> Nat]
      BY <1>1
    <3>3. \A i \in 1..(n + 1) : i \in 1..n \/ i = n + 1
      BY <1>1
    <3> QED
      BY <1>7, <1>8, <3>1, <3>2, <3>3
  <2>2. Images' \in [1..(n + 1) -> [Pixels -> Nat]]
    BY <1>6, <2>1
  <2>3. Images' \in Seq([Pixels -> Nat]) /\ Len(Images') = n + 1
    BY <2>2, <1>1
  <2> QED
    BY <1>1, <1>6, <1>7, <1>8, <2>3
<1> DEFINE e == [p \in Pixels |-> n + 1]
<1>10. e \in [Pixels -> Nat]
  BY <1>1
<1> HIDE DEF n, e
<1> QED
  BY <1>1, <1>5, <1>9, <1>10 DEF n, e

\* A frame is captured only when at most two are still to be shown.
LEMMA AcquireWithinDepth ==
  ASSUME IInv, ~collided, Acquire
  PROVE captured - Len(shown) < 3
<1>1. Len(shown) \in Nat /\ completions \in Nat /\ captured \in Nat
  BY CountFacts
<1>2. completions > 0 => completions = 1 /\ sPc = "wait"
  BY DEF IInv, FlagInv
<1>3. Delivered <= Len(shown) + 1
  BY <1>1, <1>2 DEF Delivered
<1>4. captured - 1 <= Delivered
  BY <1>1 DEF IInv, Counting, Launched, Acquire
<1> QED
  BY <1>1, <1>3, <1>4, CountFacts

\* In test mode the channel implements MediaStream: a bounded, lossless and
\* ordered stream of whole frames.
THEOREM Refinement ==
  ASSUME Mode = "test"
  PROVE Spec => StreamSpec
<1>1. Init => Stream!Init
  <2> SUFFICES ASSUME Init PROVE Stream!Init
    OBVIOUS
  <2>1. captured = 0 /\ Len(shown) = 0
    BY DEF Init
  <2>2. Images = <<>>
    BY <2>1 DEF Images
  <2> QED
    BY <2>1, <2>2 DEF Stream!Init, Images
<1>2. IInv /\ [Next]_vars => [Stream!Next]_(Stream!vars)
  <2> SUFFICES ASSUME IInv, [Next]_vars PROVE [Stream!Next]_(Stream!vars)
    OBVIOUS
  <2>1. ~collided
    BY DEF IInv, Alternating
  <2>2. CASE Acquire
    <3>1. Len(Images) = Len(shown) /\ Images' = Images
      BY <2>2 DEF Acquire, Images, serverVars, IInv, TypeOK
    <3> QED
      BY <2>1, <2>2, <3>1, AcquireWithinDepth
      DEF Acquire, Stream!Next, Stream!Capture, Images
  <2>3. CASE Render
    <3>1. Len(Images) = Len(shown) /\ Len(shown) < captured /\ captured' = captured
      <4>1. Len(shown) \in Nat /\ completions \in Nat /\ captured \in Nat
        BY CountFacts
      <4>2. Len(shown) + 1 <= Delivered
        BY <2>3, <4>1 DEF Render, Delivered
      <4>3. Delivered <= captured
        BY CountFacts DEF IInv, Counting
      <4>4. Delivered \in Int
        BY CountFacts
      <4> QED
        BY <2>3, <4>1, <4>2, <4>3, <4>4 DEF Images, Render, clientVars
    <3> QED
      BY <2>1, <2>3, <3>1, RenderShows
      DEF Stream!Next, Stream!Show, Stream!Whole, Images
  <2>4. CASE UNCHANGED <<captured, shown>>
    BY <2>4 DEF Stream!vars
  <2> QED
    BY <2>2, <2>3, <2>4, Steps
    DEF PostReceive, ArmFlag, WaitForCompletion, CheckFlag, Throw,
        UpdateSubresource, Shutdown, RequestQuit, AcquireFailed, MarkBuffer,
        CopyByte, LaunchWrite, WriteFailed, Disconnect, ReadFlag, PollFlag,
        ReadTimeout, WriteByte, RaiseFlag, DeliverSend, SendCompleted,
        WriteCancelled, PostFirst, FirstPostFails, DismissBox,
        vars, serverVars, clientVars
<1> QED
  BY <1>1, <1>2, Invariance, PTL DEF Spec, StreamSpec, Stream!Spec
===============================================================================
