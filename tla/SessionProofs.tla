---------------------------- MODULE SessionProofs ----------------------------
(***************************************************************************)
(* Proofs about Session: both programs from start to end.                    *)
(***************************************************************************)
EXTENDS Session, TLAPS

\* Run returns behind the two joins, and the destructors take the links down.
ThreadsJoined ==
  \A p \in Sides :
    /\ main[p] = "joinAudio" => input[p] = "done"
    /\ main[p] = "ended" => /\ input[p] \in {"off", "done"} /\ audio[p] \in {"off", "done"}
                            /\ \A c \in Channels : link[c] # "up"

\* What the viewer has when Run may still return early.
NothingStarted ==
  main["viewer"] = "announce" =>
    /\ input["viewer"] = "off" /\ audio["viewer"] = "off"
    /\ \A c \in Channels : link[c] = "none"

\* The order of Run on the two machines: the audio link comes after the client's
\* input thread, the callback after the audio link, and an event after the callback.
ReceiverFirst ==
  /\ main["client"] \in {"find", "input", "crashed"} \/ input["client"] # "off"
  /\ link["audio"] # "none" => main["client"] \notin {"find", "input"}
  /\ main["viewer"] \in {"setup", "register"} => link["audio"] # "none"
  /\ callback => link["audio"] # "none"
  /\ event \/ input["viewer"] = "send" => callback

RunInv == TypeOK /\ ThreadsJoined /\ NothingStarted /\ ReceiverFirst

LEMMA RunTypeStep == TypeOK /\ [Next]_vars => TypeOK'
<1> SUFFICES ASSUME TypeOK, [Next]_vars PROVE TypeOK'
  OBVIOUS
<1> USE DEF TypeOK, Sides, Channels, Goto, Again, Continues,
            QuitAfter, Down, threadVars, windowVars, linkVars
<1>1. CASE Announced
  BY <1>1 DEF Announced
<1>2. CASE AnnounceFails
  BY <1>2 DEF AnnounceFails
<1>3. CASE MulticastFails
  BY <1>3 DEF MulticastFails
<1>4. ASSUME NEW c \in Channels, Connect(c) PROVE TypeOK'
  BY <1>4 DEF Connect
<1>5. CASE StartViewerInput
  BY <1>5 DEF StartViewerInput
<1>6. CASE StartClientInput
  BY <1>6 DEF StartClientInput
<1>7. CASE StartViewerAudio
  BY <1>7 DEF StartViewerAudio
<1>8. CASE StartClientAudio
  BY <1>8 DEF StartClientAudio
<1>9. CASE Setup
  BY <1>9 DEF Setup
<1>10. CASE RegisterRawInputCallback
  BY <1>10 DEF RegisterRawInputCallback
<1>11. CASE ViewerLoop
  BY <1>11 DEF ViewerLoop
<1>12. CASE ClientLoop
  BY <1>12 DEF ClientLoop
<1>13. CASE SetupFails
  BY <1>13 DEF SetupFails, Die
<1>14. CASE Refused
  BY <1>14 DEF Refused, Die
<1>15. ASSUME NEW p \in Sides, Crash(p) PROVE TypeOK'
  BY <1>15 DEF Crash, Die, Alive
<1>16. CASE WriteFrame
  BY <1>16 DEF WriteFrame
<1>17. CASE TakeFrame
  BY <1>17 DEF TakeFrame
<1>18. CASE QuitKey
  BY <1>18 DEF QuitKey
<1>19. CASE FrameCancelled
  BY <1>19 DEF FrameCancelled
<1>20. CASE Shutdown
  BY <1>20 DEF Shutdown
<1>21. CASE PostClose
  BY <1>21 DEF PostClose
<1>22. CASE JoinWindow
  BY <1>22 DEF JoinWindow
<1>23. CASE WriteFails
  BY <1>23 DEF WriteFails, LeaveClientLoop
<1>24. CASE WriteTimesOut
  BY <1>24 DEF WriteTimesOut
<1>25. ASSUME NEW p \in Sides, JoinInput(p) PROVE TypeOK'
  BY <1>25 DEF JoinInput
<1>26. ASSUME NEW p \in Sides, JoinAudio(p) PROVE TypeOK'
  BY <1>26 DEF JoinAudio
<1>27. CASE WaitForEvent
  BY <1>27 DEF WaitForEvent
<1>28. CASE SendDelivered
  BY <1>28 DEF SendDelivered
<1>29. CASE SendFails
  BY <1>29 DEF SendFails
<1>30. CASE PostReceives
  BY <1>30 DEF PostReceives
<1>31. CASE ReceivePacket
  BY <1>31 DEF ReceivePacket
<1>32. CASE ReceiveCancelled
  BY <1>32 DEF ReceiveCancelled
<1>33. CASE WaitForDevice
  BY <1>33 DEF WaitForDevice
<1>34. CASE DeviceFull
  BY <1>34 DEF DeviceFull
<1>35. CASE PlayAudio
  BY <1>35 DEF PlayAudio
<1>36. CASE AudioBreaks("receive")
  BY <1>36 DEF AudioBreaks
<1>37. CASE AudioBreaks("device")
  BY <1>37 DEF AudioBreaks
<1>38. CASE PrepareAudio
  BY <1>38 DEF PrepareAudio
<1>39. CASE GiveUpAudio
  BY <1>39 DEF GiveUpAudio
<1>40. CASE LeaveAudio
  BY <1>40 DEF LeaveAudio
<1>41. CASE Silence
  BY <1>41 DEF Silence
<1>42. CASE SendAudio
  BY <1>42 DEF SendAudio
<1>43. CASE ReceiveAck
  BY <1>43 DEF ReceiveAck
<1>44. CASE AudioCancelled
  BY <1>44 DEF AudioCancelled
<1>45. CASE RawInput
  BY <1>45 DEF RawInput
<1>46. CASE UserCloses
  BY <1>46 DEF UserCloses, CloseWindow
<1>47. CASE WindowThread
  BY <1>47 DEF WindowThread, CloseWindow
<1>48. CASE ViewerLoopFails
  BY <1>48 DEF ViewerLoopFails
<1>49. CASE DismissBox
  BY <1>49 DEF DismissBox, LeaveClientLoop
<1>50. CASE PostAudioReceives
  BY <1>50 DEF PostAudioReceives
<1>51. CASE PostAudioFails
  BY <1>51 DEF PostAudioFails
<1>52. CASE NetworkFails
  BY <1>52 DEF NetworkFails
<1>53. CASE UNCHANGED vars
  BY <1>53 DEF vars
<1> HIDE DEF TypeOK, Sides, Channels, Goto, Again, Continues,
             QuitAfter, Down, threadVars, windowVars, linkVars
<1> QED
  BY <1>1, <1>2, <1>3, <1>4, <1>5, <1>6, <1>7, <1>8, <1>9, <1>10, <1>11, <1>12, <1>13,
     <1>14, <1>15, <1>16, <1>17, <1>18, <1>19, <1>20, <1>21, <1>22, <1>23, <1>24, <1>25,
     <1>26, <1>27, <1>28, <1>29, <1>30, <1>31, <1>32, <1>33, <1>34, <1>35, <1>36, <1>37,
     <1>38, <1>39, <1>40, <1>41, <1>42, <1>43, <1>44, <1>45, <1>46, <1>47, <1>48,
     <1>49, <1>50, <1>51, <1>52, <1>53
  DEF Sides, Next, ViewerMain, ClientMain, ViewerInput, ClientInput,
      ViewerAudio, ClientAudio

LEMMA JoinedStep ==
  TypeOK /\ ThreadsJoined /\ NothingStarted /\ [Next]_vars =>
  ThreadsJoined'
<1> SUFFICES ASSUME TypeOK, ThreadsJoined, NothingStarted, [Next]_vars
                    PROVE ThreadsJoined'
  OBVIOUS
<1> USE DEF TypeOK, ThreadsJoined, NothingStarted, Sides, Channels,
            Goto, Again, Continues, QuitAfter, Down, threadVars,
            windowVars, linkVars
<1>1. CASE Announced \/ AnnounceFails \/ MulticastFails
  BY <1>1 DEF Announced, AnnounceFails, MulticastFails
<1>2. ASSUME NEW c \in Channels, Connect(c) PROVE ThreadsJoined'
  BY <1>2 DEF Connect
<1>3. CASE StartViewerInput \/ StartClientInput
  BY <1>3 DEF StartViewerInput, StartClientInput
<1>4. CASE StartViewerAudio \/ StartClientAudio
  BY <1>4 DEF StartViewerAudio, StartClientAudio
<1>5. CASE Setup \/ RegisterRawInputCallback
  BY <1>5 DEF Setup, RegisterRawInputCallback
<1>6. CASE ViewerLoop \/ ViewerLoopFails \/ ClientLoop
  BY <1>6 DEF ViewerLoop, ViewerLoopFails, ClientLoop
<1>7. CASE SetupFails \/ Refused
  BY <1>7 DEF SetupFails, Die, Refused
<1>8. ASSUME NEW p \in Sides, Crash(p) PROVE ThreadsJoined'
  BY <1>8 DEF Crash, Die, Alive
<1>9. CASE WriteFrame \/ TakeFrame \/ QuitKey \/ FrameCancelled
  BY <1>9 DEF WriteFrame, TakeFrame, QuitKey, FrameCancelled
<1>10. CASE Shutdown
  BY <1>10 DEF Shutdown
<1>11. CASE PostClose \/ JoinWindow
  BY <1>11 DEF PostClose, JoinWindow
<1>12. CASE WriteFails \/ WriteTimesOut \/ DismissBox
  BY <1>12 DEF WriteFails, LeaveClientLoop, WriteTimesOut, DismissBox
<1>13. ASSUME NEW p \in Sides, JoinInput(p) PROVE ThreadsJoined'
  BY <1>13 DEF JoinInput
<1>14. ASSUME NEW p \in Sides, JoinAudio(p) PROVE ThreadsJoined'
  BY <1>14 DEF JoinAudio
<1>15. CASE WaitForEvent
  BY <1>15 DEF WaitForEvent
<1>16. CASE SendDelivered
  BY <1>16 DEF SendDelivered
<1>17. CASE SendFails
  BY <1>17 DEF SendFails
<1>18. CASE PostReceives \/ ReceivePacket \/ ReceiveCancelled
  BY <1>18 DEF PostReceives, ReceivePacket, ReceiveCancelled
<1>19. CASE WaitForDevice \/ DeviceFull \/ PlayAudio
  BY <1>19 DEF WaitForDevice, DeviceFull, PlayAudio
<1>20. CASE AudioBreaks("receive") \/ AudioBreaks("device")
  BY <1>20 DEF AudioBreaks
<1>21. CASE PrepareAudio \/ GiveUpAudio \/ LeaveAudio \/ Silence
  BY <1>21 DEF PrepareAudio, GiveUpAudio, LeaveAudio, Silence
<1>22. CASE SendAudio \/ ReceiveAck \/ AudioCancelled
  BY <1>22 DEF SendAudio, ReceiveAck, AudioCancelled
<1>23. CASE RawInput
  BY <1>23 DEF RawInput
<1>24. CASE UserCloses \/ WindowThread
  BY <1>24 DEF UserCloses, CloseWindow, WindowThread
<1>25. CASE PostAudioReceives \/ PostAudioFails
  BY <1>25 DEF PostAudioReceives, PostAudioFails
<1>26. CASE NetworkFails
  BY <1>26 DEF NetworkFails
<1>27. CASE UNCHANGED vars
  BY <1>27 DEF vars
<1> HIDE DEF TypeOK, ThreadsJoined, NothingStarted, Sides, Channels,
             Goto, Again, Continues, QuitAfter, Down,
             threadVars, windowVars, linkVars
<1> QED
  BY <1>1, <1>2, <1>3, <1>4, <1>5, <1>6, <1>7, <1>8, <1>9, <1>10, <1>11, <1>12, <1>13,
     <1>14, <1>15, <1>16, <1>17, <1>18, <1>19, <1>20, <1>21, <1>22, <1>23, <1>24, <1>25,
     <1>26, <1>27
  DEF Sides, Next, ViewerMain, ClientMain, ViewerInput, ClientInput,
      ViewerAudio, ClientAudio

LEMMA StartedStep ==
  TypeOK /\ NothingStarted /\ [Next]_vars => NothingStarted'
<1> SUFFICES ASSUME TypeOK, NothingStarted, [Next]_vars PROVE NothingStarted'
  OBVIOUS
<1> USE DEF TypeOK, NothingStarted, Sides, Channels, Goto, Again,
            Continues, QuitAfter, Down, threadVars, windowVars,
            linkVars
<1>1. CASE Announced \/ AnnounceFails \/ MulticastFails
  BY <1>1 DEF Announced, AnnounceFails, MulticastFails
<1>2. ASSUME NEW c \in Channels, Connect(c) PROVE NothingStarted'
  BY <1>2 DEF Connect
<1>3. CASE StartViewerInput \/ StartClientInput
  BY <1>3 DEF StartViewerInput, StartClientInput
<1>4. CASE StartViewerAudio \/ StartClientAudio
  BY <1>4 DEF StartViewerAudio, StartClientAudio
<1>5. CASE Setup \/ RegisterRawInputCallback
  BY <1>5 DEF Setup, RegisterRawInputCallback
<1>6. CASE ViewerLoop \/ ViewerLoopFails \/ ClientLoop
  BY <1>6 DEF ViewerLoop, ViewerLoopFails, ClientLoop
<1>7. CASE SetupFails \/ Refused
  BY <1>7 DEF SetupFails, Die, Refused
<1>8. ASSUME NEW p \in Sides, Crash(p) PROVE NothingStarted'
  BY <1>8 DEF Crash, Die, Alive
<1>9. CASE WriteFrame \/ TakeFrame \/ QuitKey \/ FrameCancelled
  BY <1>9 DEF WriteFrame, TakeFrame, QuitKey, FrameCancelled
<1>10. CASE Shutdown
  BY <1>10 DEF Shutdown
<1>11. CASE PostClose \/ JoinWindow
  BY <1>11 DEF PostClose, JoinWindow
<1>12. CASE WriteFails \/ WriteTimesOut \/ DismissBox
  BY <1>12 DEF WriteFails, LeaveClientLoop, WriteTimesOut, DismissBox
<1>13. ASSUME NEW p \in Sides, JoinInput(p) PROVE NothingStarted'
  BY <1>13 DEF JoinInput
<1>14. ASSUME NEW p \in Sides, JoinAudio(p) PROVE NothingStarted'
  BY <1>14 DEF JoinAudio
<1>15. CASE WaitForEvent
  BY <1>15 DEF WaitForEvent
<1>16. CASE SendDelivered
  BY <1>16 DEF SendDelivered
<1>17. CASE SendFails
  BY <1>17 DEF SendFails
<1>18. CASE PostReceives \/ ReceivePacket \/ ReceiveCancelled
  BY <1>18 DEF PostReceives, ReceivePacket, ReceiveCancelled
<1>19. CASE WaitForDevice \/ DeviceFull \/ PlayAudio
  BY <1>19 DEF WaitForDevice, DeviceFull, PlayAudio
<1>20. CASE AudioBreaks("receive") \/ AudioBreaks("device")
  BY <1>20 DEF AudioBreaks
<1>21. CASE PrepareAudio \/ GiveUpAudio \/ LeaveAudio \/ Silence
  BY <1>21 DEF PrepareAudio, GiveUpAudio, LeaveAudio, Silence
<1>22. CASE SendAudio \/ ReceiveAck \/ AudioCancelled
  BY <1>22 DEF SendAudio, ReceiveAck, AudioCancelled
<1>23. CASE RawInput
  BY <1>23 DEF RawInput
<1>24. CASE UserCloses \/ WindowThread
  BY <1>24 DEF UserCloses, CloseWindow, WindowThread
<1>25. CASE PostAudioReceives \/ PostAudioFails
  BY <1>25 DEF PostAudioReceives, PostAudioFails
<1>26. CASE NetworkFails
  BY <1>26 DEF NetworkFails
<1>27. CASE UNCHANGED vars
  BY <1>27 DEF vars
<1> HIDE DEF TypeOK, NothingStarted, Sides, Channels, Goto, Again,
             Continues, QuitAfter, Down, threadVars, windowVars,
             linkVars
<1> QED
  BY <1>1, <1>2, <1>3, <1>4, <1>5, <1>6, <1>7, <1>8, <1>9, <1>10, <1>11, <1>12, <1>13,
     <1>14, <1>15, <1>16, <1>17, <1>18, <1>19, <1>20, <1>21, <1>22, <1>23, <1>24, <1>25,
     <1>26, <1>27
  DEF Sides, Next, ViewerMain, ClientMain, ViewerInput, ClientInput,
      ViewerAudio, ClientAudio

LEMMA ReceiverStep ==
  TypeOK /\ ReceiverFirst /\ [Next]_vars => ReceiverFirst'
<1> SUFFICES ASSUME TypeOK, ReceiverFirst, [Next]_vars PROVE ReceiverFirst'
  OBVIOUS
<1> USE DEF TypeOK, ReceiverFirst, Sides, Channels, Goto, Again,
            Continues, QuitAfter, Down, threadVars, windowVars,
            linkVars
<1>1. CASE Announced \/ AnnounceFails \/ MulticastFails
  BY <1>1 DEF Announced, AnnounceFails, MulticastFails
<1>2. ASSUME NEW c \in Channels, Connect(c) PROVE ReceiverFirst'
  BY <1>2 DEF Connect
<1>3. CASE StartViewerInput \/ StartClientInput
  BY <1>3 DEF StartViewerInput, StartClientInput
<1>4. CASE StartViewerAudio \/ StartClientAudio
  BY <1>4 DEF StartViewerAudio, StartClientAudio
<1>5. CASE Setup \/ RegisterRawInputCallback
  BY <1>5 DEF Setup, RegisterRawInputCallback
<1>6. CASE ViewerLoop \/ ViewerLoopFails \/ ClientLoop
  BY <1>6 DEF ViewerLoop, ViewerLoopFails, ClientLoop
<1>7. CASE SetupFails \/ Refused
  BY <1>7 DEF SetupFails, Die, Refused
<1>8. ASSUME NEW p \in Sides, Crash(p) PROVE ReceiverFirst'
  BY <1>8 DEF Crash, Die, Alive
<1>9. CASE WriteFrame \/ TakeFrame \/ QuitKey \/ FrameCancelled
  BY <1>9 DEF WriteFrame, TakeFrame, QuitKey, FrameCancelled
<1>10. CASE Shutdown
  BY <1>10 DEF Shutdown
<1>11. CASE PostClose \/ JoinWindow
  BY <1>11 DEF PostClose, JoinWindow
<1>12. CASE WriteFails \/ WriteTimesOut \/ DismissBox
  BY <1>12 DEF WriteFails, LeaveClientLoop, WriteTimesOut, DismissBox
<1>13. ASSUME NEW p \in Sides, JoinInput(p) PROVE ReceiverFirst'
  BY <1>13 DEF JoinInput
<1>14. ASSUME NEW p \in Sides, JoinAudio(p) PROVE ReceiverFirst'
  BY <1>14 DEF JoinAudio
<1>15. CASE WaitForEvent
  BY <1>15 DEF WaitForEvent
<1>16. CASE SendDelivered
  BY <1>16 DEF SendDelivered
<1>17. CASE SendFails
  BY <1>17 DEF SendFails
<1>18. CASE PostReceives \/ ReceivePacket \/ ReceiveCancelled
  BY <1>18 DEF PostReceives, ReceivePacket, ReceiveCancelled
<1>19. CASE WaitForDevice \/ DeviceFull \/ PlayAudio
  BY <1>19 DEF WaitForDevice, DeviceFull, PlayAudio
<1>20. CASE AudioBreaks("receive") \/ AudioBreaks("device")
  BY <1>20 DEF AudioBreaks
<1>21. CASE PrepareAudio \/ GiveUpAudio \/ LeaveAudio \/ Silence
  BY <1>21 DEF PrepareAudio, GiveUpAudio, LeaveAudio, Silence
<1>22. CASE SendAudio \/ ReceiveAck \/ AudioCancelled
  BY <1>22 DEF SendAudio, ReceiveAck, AudioCancelled
<1>23. CASE RawInput
  BY <1>23 DEF RawInput
<1>24. CASE UserCloses \/ WindowThread
  BY <1>24 DEF UserCloses, CloseWindow, WindowThread
<1>25. CASE PostAudioReceives \/ PostAudioFails
  BY <1>25 DEF PostAudioReceives, PostAudioFails
<1>26. CASE NetworkFails
  BY <1>26 DEF NetworkFails
<1>27. CASE UNCHANGED vars
  BY <1>27 DEF vars
<1> HIDE DEF TypeOK, ReceiverFirst, Sides, Channels, Goto, Again,
             Continues, QuitAfter, Down, threadVars, windowVars,
             linkVars
<1> QED
  BY <1>1, <1>2, <1>3, <1>4, <1>5, <1>6, <1>7, <1>8, <1>9, <1>10, <1>11, <1>12, <1>13,
     <1>14, <1>15, <1>16, <1>17, <1>18, <1>19, <1>20, <1>21, <1>22, <1>23, <1>24, <1>25,
     <1>26, <1>27
  DEF Sides, Next, ViewerMain, ClientMain, ViewerInput, ClientInput,
      ViewerAudio, ClientAudio

-----------------------------------------------------------------------------

\* RunInv holds in every reachable state of the two programs.
THEOREM RunInvariance == Spec => []RunInv
<1>1. Init => RunInv
  <2> SUFFICES ASSUME Init PROVE RunInv
    OBVIOUS
  <2>1. TypeOK
    <3>1. main \in [Sides -> Channels \cup
                      {"announce", "find", "setup", "register", "frame", "loop", "box",
                       "shutdown", "stopWindow", "joinWindow", "joinInput",
                       "joinAudio", "ended", "crashed"}]
      BY DEF Init, Sides
    <3>2. /\ input \in [Sides -> {"off", "wait", "send", "post", "receive", "done"}]
          /\ audio \in [Sides -> {"off", "prepare", "post", "device", "receive", "ack", "done"}]
      BY DEF Init
    <3>3. /\ quit \in [Sides -> BOOLEAN]
          /\ running \in [Sides -> SUBSET {"input", "audio"}]
          /\ link \in [Channels -> {"none", "up", "down"}]
      BY DEF Init
    <3>4. /\ window \in {"none", "open", "closing", "closed", "unheard"}
          /\ callback \in BOOLEAN /\ event \in BOOLEAN
          /\ packet \in BOOLEAN /\ frame \in BOOLEAN
          /\ sound \in {"none", "data", "ack"}
      BY DEF Init
    <3> QED
      BY <3>1, <3>2, <3>3, <3>4 DEF TypeOK
  <2>2. ThreadsJoined /\ NothingStarted
    BY DEF Init, Sides, Channels, ThreadsJoined, NothingStarted
  <2>3. ReceiverFirst
    BY DEF Init, Sides, Channels, ReceiverFirst
  <2> QED
    BY <2>1, <2>2, <2>3 DEF RunInv
<1>2. RunInv /\ [Next]_vars => RunInv'
  BY RunTypeStep, JoinedStep, StartedStep, ReceiverStep DEF RunInv
<1> QED
  BY <1>1, <1>2, PTL DEF Spec

\* The threads, the window and the links keep their types.
THEOREM RunTypeCorrect == Spec => []TypeOK
BY RunInvariance, PTL DEF RunInv

\* The viewer sends no input before the client posts receives for it, although
\* only the order of the two Run sees to it.
THEOREM ReceiverStartsFirst == Spec => []InputAfterReceiver
<1>1. RunInv => InputAfterReceiver
  <2> SUFFICES ASSUME RunInv, input["viewer"] = "send"
               PROVE  input["client"] # "off" \/ main["client"] = "crashed"
    BY DEF InputAfterReceiver
  <2>1. link["audio"] # "none"
    BY DEF RunInv, ReceiverFirst
  <2> QED
    BY <2>1 DEF RunInv, ReceiverFirst
<1> QED
  BY RunInvariance, <1>1, PTL

\* A Run that has returned has joined its threads and left no connection up.
THEOREM RunEndsCleanly == Spec => []EndsCleanly
<1>1. RunInv => EndsCleanly
  BY DEF RunInv, ThreadsJoined, EndsCleanly, Sides
<1> QED
  BY RunInvariance, <1>1, PTL
=============================================================================
