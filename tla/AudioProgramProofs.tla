------------------------- MODULE AudioProgramProofs -------------------------
(***************************************************************************)
(* Theorems about AudioProgram, for every length of the file and of the    *)
(* recording and every set of faults.                                      *)
(***************************************************************************)
EXTENDS AudioProgram, TLAPS

\* A signal has lowered ak_arecord's run_flag for good.
Stopped == program = "record" /\ signalled = "heard"

Before == {"file", "device", "setup", "raise"}
Closing == {"closeFile", "closeDevice"}

\* Where main and the thread can be at the same time, and what is open then.
Places ==
  /\ main # "exit" => closings >= 1
  /\ main \in Before \cup {"create"} =>
       tid = "none" /\ closings = 1 /\ signalled \in {"no", "early"} \cup
         (IF main = "create" THEN {"heard"} ELSE {})
  /\ main \in {"setup", "raise", "create"} => fp = "open" /\ handle = "open"
  /\ main = "device" => fp = "open"
  /\ thread = "none" <=> tid # "made"
  /\ tid = "made" => closings <= 1 /\ main # "create"
  /\ main = "create" \/ tid = "made" => runFlag \/ Stopped
  /\ program = "play" => thread \notin {"get", "write", "release"}
  /\ program = "record" => thread \notin {"read", "send", "after"}

\* While the thread works, main waits for it and everything is open.
Waits ==
  tid = "made" /\ thread # "done" /\ ~Stopped =>
    main \in {"join", "joining"} /\ fp = "open" /\ handle = "open"

\* The recording, frame by frame.
Recording ==
  /\ thread = "none" => pos = 0 /\ saved = <<>>
  /\ program = "play" => saved = <<>> /\ late = 0
  /\ program = "record" /\ thread \in {"test", "get"} => pos < SaveFrames
  /\ Len(saved) <= pos /\ \A i \in 1..Len(saved) : saved[i] <= pos
  /\ thread = "write" =>
       Len(saved) < pos /\ \A i \in 1..Len(saved) : saved[i] < pos
  /\ \A i, j \in 1..Len(saved) : i < j => saved[i] < saved[j]

\* Once stopped the thread does not get past its test.
Stopping ==
  /\ Stopped => ~runFlag
  /\ late <= 1
  /\ late > 0 => Stopped /\ thread \in {"release", "test", "done"}

\* What was read is in the device, was played, or found no room.
Playing ==
  program = "play" =>
    /\ thread = "none" =>
         queue = 0 /\ played = 0 /\ dropped = 0 /\ pos = 0 /\ ~readLen
    /\ thread \in {"test", "read"} => queue + played + dropped = 2 * pos
    /\ thread = "send" => queue + played + dropped = 2 * (pos - 1) /\ readLen
    /\ thread \in {"after", "done"} =>
         readLen \/ /\ queue + played + dropped = 2 * pos
                    /\ pos = FileLen \/ ferror
    /\ thread = "done" => readLen \/ queue = 0

AudioInv ==
  TypeOK /\ Places /\ Waits /\ Recording /\ Stopping /\ Playing /\ SafeShutdown

-----------------------------------------------------------------------------
\* Nothing is open and nothing runs at first.
LEMMA InitAudio == Init => AudioInv
  <1> SUFFICES ASSUME Init PROVE AudioInv
    OBVIOUS
  <1>1. TypeOK
    <2>1. /\ runFlag \in BOOLEAN /\ readLen \in BOOLEAN /\ held \in BOOLEAN
          /\ noticed \in BOOLEAN /\ broken \in BOOLEAN
          /\ ferror \in BOOLEAN /\ capturing \in BOOLEAN
      BY Zenon DEF Init
    <2>2. saved \in Seq(Nat)
      BY DEF Init
    <2>3. program \in Programs
      BY Zenon DEF Init
    <2> QED
      BY <2>1, <2>2, <2>3, ConstantsAssumption
      DEF ConstantsAssumption, Init, TypeOK
  <1>2. Places /\ Waits
    BY DEF Init, Places, Waits, Stopped, Before
  <1>3. Recording
    BY ConstantsAssumption DEF ConstantsAssumption, Init, Recording
  <1>4. Stopping /\ Playing /\ SafeShutdown
    BY DEF Init, Stopping, Playing, SafeShutdown, Stopped
  <1> QED
    BY <1>1, <1>2, <1>3, <1>4 DEF AudioInv

\* Every step keeps the types; the recording's length keeps pos in bounds.
LEMMA StepTyped == AudioInv /\ [Next]_vars => TypeOK'
  <1> SUFFICES ASSUME AudioInv, [Next]_vars PROVE TypeOK'
    OBVIOUS
  <1> USE ConstantsAssumption
      DEF ConstantsAssumption, AudioInv, TypeOK, mainVars, threadVars, daVars,
          sigVars, MainMoves, ThreadMoves, Runs
  <1>1. CASE UNCHANGED vars
    BY <1>1 DEF vars
  <1>2. CASE OpenFile
    BY <1>2 DEF OpenFile
  <1>3. CASE OpenDevice
    BY <1>3 DEF OpenDevice
  <1>4. CASE SetUp
    BY <1>4 DEF SetUp
  <1>5. CASE RaiseFlag
    <2>1. capturing' \in BOOLEAN
      BY <1>5, Zenon DEF RaiseFlag
    <2> QED
      BY <1>5, <2>1 DEF RaiseFlag
  <1>6. CASE CreateThread
    BY <1>6 DEF CreateThread
  <1>7. CASE JoinThread
    BY <1>7 DEF JoinThread
  <1>8. CASE JoinNobody \/ UseClosed
    <2>1. Break
      BY <1>8 DEF JoinNobody, UseClosed
    <2> QED
      BY <2>1 DEF Break
  <1>9. CASE CloseFile
    BY <1>9 DEF CloseFile
  <1>10. CASE CloseDevice
    BY <1>10 DEF CloseDevice, Places
  <1>11. CASE TestPlay \/ TestRecord
    BY <1>11 DEF TestPlay, TestRecord
  <1>12. CASE ReadFile
    <2>1. readLen' \in BOOLEAN
      BY <1>12, Zenon DEF ReadFile
    <2>4. ferror' \in BOOLEAN
      BY <1>12, Zenon DEF ReadFile
    <2>3. noticed' \in BOOLEAN
      BY <1>12, Zenon DEF ReadFile
    <2>2. pos' \in 0..(IF program' = "play" THEN FileLen ELSE SaveFrames)
      BY <1>12 DEF ReadFile
    <2> QED
      BY <1>12, <2>1, <2>2, <2>3, <2>4 DEF ReadFile
  <1>13. CASE SendFrame
    BY <1>13 DEF SendFrame, Room, Parts
  <1>14. CASE WaitFinished
    BY <1>14 DEF WaitFinished
  <1>15. CASE GetFrame
    BY <1>15 DEF GetFrame, Recording
  <1>16. CASE GetNothing
    BY <1>16 DEF GetNothing, AfterNoFrame
  <1>17. CASE WriteFrame
    BY <1>17 DEF WriteFrame
  <1>18. CASE ReleaseFrame
    <2>1. held' \in BOOLEAN
      BY <1>18, Zenon DEF ReleaseFrame
    <2>2. thread' \in {"test", "done"}
      BY <1>18, Zenon DEF ReleaseFrame
    <2> QED
      BY <1>18, <2>1, <2>2 DEF ReleaseFrame
  <1>19. CASE Signal
    BY <1>19 DEF Signal, StopValue
  <1>20. CASE DevicePlays
    BY <1>20 DEF DevicePlays
  <1> QED
    BY <1>1, <1>2, <1>3, <1>4, <1>5, <1>6, <1>7, <1>8, <1>9, <1>10, <1>11,
       <1>12, <1>13, <1>14, <1>15, <1>16, <1>17, <1>18, <1>19, <1>20
    DEF Next, Main, Thread
-----------------------------------------------------------------------------
\* Statements of main and of the thread keep to their places.
LEMMA StepPlaces == AudioInv /\ [Next]_vars => Places'
  <1> SUFFICES ASSUME AudioInv, [Next]_vars PROVE Places'
    OBVIOUS
  <1> USE DEF AudioInv, TypeOK, Places, Stopped, Before, mainVars, threadVars,
              daVars, sigVars, MainMoves, ThreadMoves, Runs
  <1>1. CASE UNCHANGED vars
    BY <1>1 DEF vars
  <1>2. CASE OpenFile
    BY <1>2 DEF OpenFile
  <1>3. CASE OpenDevice
    BY <1>3 DEF OpenDevice
  <1>4. CASE SetUp
    BY <1>4 DEF SetUp
  <1>5. CASE RaiseFlag
    BY <1>5 DEF RaiseFlag
  <1>6. CASE CreateThread
    BY <1>6 DEF CreateThread
  <1>7. CASE JoinThread
    BY <1>7 DEF JoinThread
  <1>8. CASE JoinNobody \/ UseClosed
    BY <1>8 DEF JoinNobody, UseClosed, Break
  <1>9. CASE CloseFile
    BY <1>9 DEF CloseFile
  <1>10. CASE CloseDevice
    BY <1>10 DEF CloseDevice
  <1>11. CASE TestPlay \/ TestRecord
    BY <1>11 DEF TestPlay, TestRecord
  <1>12. CASE ReadFile
    BY <1>12 DEF ReadFile
  <1>13. CASE SendFrame
    BY <1>13 DEF SendFrame, Room, Parts
  <1>14. CASE WaitFinished
    BY <1>14 DEF WaitFinished, WaitsForEnd
  <1>15. CASE GetFrame
    BY <1>15 DEF GetFrame
  <1>16. CASE GetNothing
    BY <1>16 DEF GetNothing, AfterNoFrame
  <1>17. CASE WriteFrame
    BY <1>17 DEF WriteFrame
  <1>18. CASE ReleaseFrame
    BY <1>18 DEF ReleaseFrame, TimeUp
  <1>19. CASE Signal
    <2>1. runFlag' = (program = "play")
      BY <1>19, Zenon DEF Signal, StopValue
    <2>2. main = "create" \/ tid = "made" => runFlag' \/ Stopped'
      <3>1. CASE program = "play"
        BY <2>1, <3>1
      <3>2. CASE program = "record"
        BY <1>19, <3>2 DEF Signal, FlagRaised
      <3> QED
        BY <3>1, <3>2 DEF Programs
    <2> QED
      BY <1>19, <2>2 DEF Signal, FlagRaised
  <1>20. CASE DevicePlays
    BY <1>20 DEF DevicePlays
  <1> QED
    BY <1>1, <1>2, <1>3, <1>4, <1>5, <1>6, <1>7, <1>8, <1>9, <1>10, <1>11,
       <1>12, <1>13, <1>14, <1>15, <1>16, <1>17, <1>18, <1>19, <1>20
    DEF Next, Main, Thread

\* The thread is only left alone by a signal that stops ak_arecord.
LEMMA StepWaits == AudioInv /\ [Next]_vars => Waits'
  <1> SUFFICES ASSUME AudioInv, [Next]_vars PROVE Waits'
    OBVIOUS
  <1> USE DEF AudioInv, TypeOK, Places, Waits, Stopped, Before, mainVars,
              threadVars, daVars, sigVars, MainMoves, ThreadMoves, Runs
  <1>1. CASE UNCHANGED vars
    BY <1>1 DEF vars
  <1>2. CASE OpenFile
    BY <1>2 DEF OpenFile
  <1>3. CASE OpenDevice
    BY <1>3 DEF OpenDevice
  <1>4. CASE SetUp
    BY <1>4 DEF SetUp
  <1>5. CASE RaiseFlag
    BY <1>5 DEF RaiseFlag
  <1>6. CASE CreateThread
    BY <1>6 DEF CreateThread
  <1>7. CASE JoinThread
    BY <1>7 DEF JoinThread, MustJoin
  <1>8. CASE JoinNobody \/ UseClosed
    BY <1>8 DEF JoinNobody, UseClosed, Break
  <1>9. CASE CloseFile
    BY <1>9 DEF CloseFile
  <1>10. CASE CloseDevice
    BY <1>10 DEF CloseDevice
  <1>11. CASE TestPlay \/ TestRecord
    BY <1>11 DEF TestPlay, TestRecord
  <1>12. CASE ReadFile
    BY <1>12 DEF ReadFile
  <1>13. CASE SendFrame
    BY <1>13 DEF SendFrame, Room, Parts
  <1>14. CASE WaitFinished
    BY <1>14 DEF WaitFinished, WaitsForEnd
  <1>15. CASE GetFrame
    BY <1>15 DEF GetFrame
  <1>16. CASE GetNothing
    BY <1>16 DEF GetNothing, AfterNoFrame
  <1>17. CASE WriteFrame
    BY <1>17 DEF WriteFrame
  <1>18. CASE ReleaseFrame
    BY <1>18 DEF ReleaseFrame, TimeUp
  <1>19. CASE Signal
    BY <1>19 DEF Signal, StopValue, FlagRaised
  <1>20. CASE DevicePlays
    BY <1>20 DEF DevicePlays
  <1> QED
    BY <1>1, <1>2, <1>3, <1>4, <1>5, <1>6, <1>7, <1>8, <1>9, <1>10, <1>11,
       <1>12, <1>13, <1>14, <1>15, <1>16, <1>17, <1>18, <1>19, <1>20
    DEF Next, Main, Thread

\* The recording only grows, by the frame in hand.
LEMMA StepRecording == AudioInv /\ [Next]_vars => Recording'
  <1> SUFFICES ASSUME AudioInv, [Next]_vars PROVE Recording'
    OBVIOUS
  <1> USE ConstantsAssumption
      DEF ConstantsAssumption, AudioInv, TypeOK, Places, Recording, mainVars,
          threadVars, daVars, sigVars, MainMoves, ThreadMoves, Runs
  <1>1. CASE UNCHANGED vars
    BY <1>1 DEF vars
  <1>2. CASE OpenFile
    BY <1>2 DEF OpenFile
  <1>3. CASE OpenDevice
    BY <1>3 DEF OpenDevice
  <1>4. CASE SetUp
    BY <1>4 DEF SetUp
  <1>5. CASE RaiseFlag
    BY <1>5 DEF RaiseFlag
  <1>6. CASE CreateThread
    BY <1>6 DEF CreateThread
  <1>7. CASE JoinThread
    BY <1>7 DEF JoinThread
  <1>8. CASE JoinNobody \/ UseClosed
    BY <1>8 DEF JoinNobody, UseClosed, Break
  <1>9. CASE CloseFile
    BY <1>9 DEF CloseFile
  <1>10. CASE CloseDevice
    BY <1>10 DEF CloseDevice
  <1>11. CASE TestPlay \/ TestRecord
    BY <1>11 DEF TestPlay, TestRecord
  <1>12. CASE ReadFile
    BY <1>12 DEF ReadFile
  <1>13. CASE SendFrame
    BY <1>13 DEF SendFrame, Room, Parts
  <1>14. CASE WaitFinished
    BY <1>14 DEF WaitFinished, WaitsForEnd
  <1>15. CASE GetFrame
    BY <1>15 DEF GetFrame
  <1>16. CASE GetNothing
    BY <1>16 DEF GetNothing, AfterNoFrame
  <1>17. CASE WriteFrame
    <2>1. CASE saved' = Append(saved, pos)
      <3>1. /\ Len(saved') = Len(saved) + 1 /\ saved'[Len(saved) + 1] = pos
            /\ \A i \in 1..Len(saved) : saved'[i] = saved[i]
        BY <2>1
      <3>2. /\ Len(saved) < pos /\ \A i \in 1..Len(saved) : saved[i] < pos
            /\ pos' = pos /\ program' = program /\ program = "record"
            /\ thread' = "release" /\ Len(saved) \in Nat /\ pos \in Nat
        BY <1>17 DEF WriteFrame
      <3> HIDE DEF TypeOK, Places, ThreadMoves
      <3>3. \A i \in 1..Len(saved') : saved'[i] <= pos'
        BY <3>1, <3>2
      <3>4. \A i, j \in 1..Len(saved') : i < j => saved'[i] < saved'[j]
        BY <3>1, <3>2
      <3> QED
        BY <3>1, <3>2, <3>3, <3>4
    <2>2. CASE saved' = saved
      BY <1>17, <2>2 DEF WriteFrame
    <2> QED
      BY <1>17, <2>1, <2>2 DEF WriteFrame
  <1>18. CASE ReleaseFrame
    BY <1>18 DEF ReleaseFrame, TimeUp
  <1>19. CASE Signal
    BY <1>19 DEF Signal, StopValue, FlagRaised
  <1>20. CASE DevicePlays
    BY <1>20 DEF DevicePlays
  <1> QED
    BY <1>1, <1>2, <1>3, <1>4, <1>5, <1>6, <1>7, <1>8, <1>9, <1>10, <1>11,
       <1>12, <1>13, <1>14, <1>15, <1>16, <1>17, <1>18, <1>19, <1>20
    DEF Next, Main, Thread

\* Nothing raises run_flag again, and the thread tests it before every frame.
LEMMA StepStopping == AudioInv /\ [Next]_vars => Stopping'
  <1> SUFFICES ASSUME AudioInv, [Next]_vars PROVE Stopping'
    OBVIOUS
  <1> USE DEF AudioInv, TypeOK, Places, Recording, Stopping, Stopped, Before,
              mainVars, threadVars, daVars, sigVars, MainMoves, ThreadMoves, Runs
  <1>1. CASE UNCHANGED vars
    BY <1>1 DEF vars
  <1>2. CASE OpenFile
    BY <1>2 DEF OpenFile
  <1>3. CASE OpenDevice
    BY <1>3 DEF OpenDevice
  <1>4. CASE SetUp
    BY <1>4 DEF SetUp
  <1>5. CASE RaiseFlag
    BY <1>5 DEF RaiseFlag
  <1>6. CASE CreateThread
    BY <1>6 DEF CreateThread
  <1>7. CASE JoinThread
    BY <1>7 DEF JoinThread
  <1>8. CASE JoinNobody \/ UseClosed
    BY <1>8 DEF JoinNobody, UseClosed, Break
  <1>9. CASE CloseFile
    BY <1>9 DEF CloseFile
  <1>10. CASE CloseDevice
    BY <1>10 DEF CloseDevice
  <1>11. CASE TestPlay \/ TestRecord
    BY <1>11 DEF TestPlay, TestRecord
  <1>12. CASE ReadFile
    BY <1>12 DEF ReadFile
  <1>13. CASE SendFrame
    BY <1>13 DEF SendFrame, Room, Parts
  <1>14. CASE WaitFinished
    BY <1>14 DEF WaitFinished, WaitsForEnd
  <1>15. CASE GetFrame
    BY <1>15 DEF GetFrame
  <1>16. CASE GetNothing
    BY <1>16 DEF GetNothing, AfterNoFrame
  <1>17. CASE WriteFrame
    BY <1>17 DEF WriteFrame
  <1>18. CASE ReleaseFrame
    BY <1>18 DEF ReleaseFrame, TimeUp
  <1>19. CASE Signal
    BY <1>19 DEF Signal, StopValue, FlagRaised
  <1>20. CASE DevicePlays
    BY <1>20 DEF DevicePlays
  <1> QED
    BY <1>1, <1>2, <1>3, <1>4, <1>5, <1>6, <1>7, <1>8, <1>9, <1>10, <1>11,
       <1>12, <1>13, <1>14, <1>15, <1>16, <1>17, <1>18, <1>19, <1>20
    DEF Next, Main, Thread

\* The device is given every read once, and is asked to finish the last.
LEMMA StepPlaying == AudioInv /\ [Next]_vars => Playing'
  <1> SUFFICES ASSUME AudioInv, [Next]_vars PROVE Playing'
    OBVIOUS
  <1> USE ConstantsAssumption
      DEF ConstantsAssumption, AudioInv, TypeOK, Places, Waits, Recording,
          Playing, Stopped, mainVars, threadVars, daVars, sigVars, MainMoves,
          ThreadMoves, Runs
  <1>1. CASE UNCHANGED vars
    BY <1>1 DEF vars
  <1>2. CASE OpenFile
    BY <1>2 DEF OpenFile
  <1>3. CASE OpenDevice
    BY <1>3 DEF OpenDevice
  <1>4. CASE SetUp
    BY <1>4 DEF SetUp
  <1>5. CASE RaiseFlag
    BY <1>5 DEF RaiseFlag
  <1>6. CASE CreateThread
    BY <1>6 DEF CreateThread
  <1>7. CASE JoinThread
    BY <1>7 DEF JoinThread
  <1>8. CASE JoinNobody \/ UseClosed
    BY <1>8 DEF JoinNobody, UseClosed, Break
  <1>9. CASE CloseFile
    BY <1>9 DEF CloseFile
  <1>10. CASE CloseDevice
    BY <1>10 DEF CloseDevice
  <1>11. CASE TestPlay \/ TestRecord
    BY <1>11 DEF TestPlay, TestRecord
  <1>12. CASE ReadFile
    BY <1>12 DEF ReadFile
  <1>13. CASE SendFrame
    BY <1>13 DEF SendFrame, Room, Parts
  <1>14. CASE WaitFinished
    BY <1>14 DEF WaitFinished, WaitsForEnd
  <1>15. CASE GetFrame
    BY <1>15 DEF GetFrame
  <1>16. CASE GetNothing
    BY <1>16 DEF GetNothing, AfterNoFrame
  <1>17. CASE WriteFrame
    BY <1>17 DEF WriteFrame
  <1>18. CASE ReleaseFrame
    BY <1>18 DEF ReleaseFrame, TimeUp
  <1>19. CASE Signal
    BY <1>19 DEF Signal, StopValue, FlagRaised
  <1>20. CASE DevicePlays
    BY <1>20 DEF DevicePlays
  <1> QED
    BY <1>1, <1>2, <1>3, <1>4, <1>5, <1>6, <1>7, <1>8, <1>9, <1>10, <1>11,
       <1>12, <1>13, <1>14, <1>15, <1>16, <1>17, <1>18, <1>19, <1>20
    DEF Next, Main, Thread
\* Undefined behaviour is reached only without a thread, or after such a signal.
LEMMA StepSafe == AudioInv /\ [Next]_vars => SafeShutdown'
  <1> SUFFICES ASSUME AudioInv, [Next]_vars PROVE SafeShutdown'
    OBVIOUS
  <1> USE DEF AudioInv, SafeShutdown
  <1>1. CASE JoinNobody
    BY <1>1 DEF JoinNobody, Break, mainVars
  <1>2. CASE UseClosed
    <2>1. /\ tid' = tid /\ program' = program /\ signalled' = signalled
          /\ thread \notin {"none", "done"} /\ (fp # "open" \/ handle # "open")
      BY <1>2 DEF UseClosed, Break, mainVars, sigVars
    <2> QED
      BY <2>1 DEF Places, Waits, Stopped
  <1>3. CASE CreateThread \/ Signal
    BY <1>3 DEF CreateThread, Signal, Runs, MainMoves, SafeShutdown, Stopped
  <1>4. CASE UNCHANGED <<program, broken, tid, signalled>>
    BY <1>4
  <1> QED
    BY <1>1, <1>2, <1>3, <1>4
    DEF Next, Main, Thread, vars, mainVars, sigVars, daVars, OpenFile,
        OpenDevice, SetUp, RaiseFlag, JoinThread, CloseFile, CloseDevice,
        TestPlay, ReadFile, SendFrame, WaitFinished, TestRecord, GetFrame,
        GetNothing, WriteFrame, ReleaseFrame, DevicePlays

\* The invariant holds throughout.
LEMMA Invariance == Spec => []AudioInv
  <1>1. AudioInv /\ [Next]_vars => AudioInv'
    BY StepTyped, StepPlaces, StepWaits, StepRecording, StepStopping,
       StepPlaying, StepSafe DEF AudioInv
  <1> QED
    BY InitAudio, <1>1, PTL DEF Spec

-----------------------------------------------------------------------------
\* Both programs keep their types, for every length and every fault.
THEOREM TypeCorrect == Spec => []TypeOK
  <1>1. AudioInv => TypeOK
    BY DEF AudioInv
  <1> QED
    BY Invariance, <1>1, PTL

\* close_audio never closes a file or a device under the thread, and never
\* joins what is no thread once there is one, except after a signal that
\* lowered ak_arecord's run_flag.
THEOREM ShutdownIsSafe == Spec => []SafeShutdown
  <1>1. AudioInv => SafeShutdown
    BY DEF AudioInv
  <1> QED
    BY Invariance, <1>1, PTL

\* After the end of the file ak_aplay closes the device only when all it took
\* was played, and every part of every read was either taken or found no room;
\* the whole file was read, unless reading failed.
THEOREM EverythingPlayed == Spec => []PlayedWhole
  <1>1. AudioInv => PlayedWhole
    <2> SUFFICES ASSUME AudioInv, program = "play", tid = "made",
                        handle = "closed", ~readLen
                 PROVE  /\ queue = 0 /\ played + dropped = Parts * pos
                        /\ pos = FileLen \/ ferror
      BY DEF PlayedWhole
    <2>1. thread = "done"
      BY DEF AudioInv, Waits, Stopped
    <2>2. queue = 0 /\ queue + played + dropped = 2 * pos
          /\ (pos = FileLen \/ ferror)
      BY <2>1 DEF AudioInv, Playing
    <2>3. played \in Nat /\ dropped \in Nat
      BY DEF AudioInv, TypeOK
    <2> QED
      BY <2>2, <2>3 DEF Parts
  <1> QED
    BY Invariance, <1>1, PTL

\* ak_arecord saves every frame at most once and in order.
THEOREM NothingRecordedTwice == Spec => []RecordedOnce
  <1>1. AudioInv => RecordedOnce
    BY DEF AudioInv, TypeOK, Recording, RecordedOnce
  <1> QED
    BY Invariance, <1>1, PTL

\* ak_arecord saves at most one frame after it heard a signal, and stops at
\* the save time without one.
THEOREM SignalStops == Spec => []StopObeyed
  <1>1. AudioInv => StopObeyed
    BY ConstantsAssumption
    DEF ConstantsAssumption, AudioInv, TypeOK, Recording, Stopping, StopObeyed,
        Programs
  <1> QED
    BY Invariance, <1>1, PTL
=============================================================================
