---------------------------- MODULE AkRecordProofs ----------------------------
(***************************************************************************)
(* For every value of the constants: ak_record keeps the capture thread    *)
(* and the server thread apart, and when files can be written it answers   *)
(* every snapshot request with the image taken for it.                     *)
(***************************************************************************)
EXTENDS AkRecord, CameraHttpProofs

\* The handshake: capture is up only while the server polls, the capture
\* thread works on an image only while it is up, and ready goes up last.
Handshake ==
  /\ capture => acc = "poll" /\ ~ready
  /\ cap \in {"write", "fill", "count", "clear"} => capture
  /\ cap = "announce" => acc = "poll" /\ ~ready /\ ~capture
  /\ acc = "raise" => ~ready

\* The statements of this program.
Places ==
  /\ cap \in {"init", "server", "test", "get", "debug", "write", "fill",
              "count", "clear", "announce", "release", "off", "close",
              "return"}
  /\ acc \in {"none", "accept", "parse", "arm", "raise", "poll", "open",
              "header", "body", "drain"}
  /\ ready \in BOOLEAN

SafeInv == CameraInv /\ Places /\ Handshake

USE DEF NoImage, NoFrame

-----------------------------------------------------------------------------
(***************************************************************************)
(* Types and handshake.                                                    *)
(***************************************************************************)
\* What the invariant says of types is TypeOK.
LEMMA SafeTyped == SafeInv => TypeOK
BY DEF SafeInv, CameraInv, CameraTypes, Places, TypeOK

\* A program starts in the invariant.
LEMMA InitSafe == RecordInit => SafeInv
<1>1. RecordInit => ready \in BOOLEAN
  BY Zenon DEF RecordInit
<1>2. RecordInit => Places /\ Handshake
  BY <1>1 DEF RecordInit, Init, Places, Handshake
<1> QED
  BY <1>2, InitTyped DEF SafeInv, RecordInit

\* So does the next one.
LEMMA RestartSafe == SafeInv /\ Restart /\ ready' = FALSE => SafeInv'
<1>1. Restart /\ ready' = FALSE => ready' \in BOOLEAN
  BY Zenon
<1>2. Restart /\ ready' = FALSE => (Places /\ Handshake)'
  BY <1>1 DEF Restart, Places, Handshake
<1> QED
  BY <1>2, RestartTyped DEF SafeInv

\* Steps of the capture thread keep the types both programs have.
LEMMA CapThreadTyped == SafeInv /\ CapThread => CameraInv'
<1> SUFFICES ASSUME SafeInv, CapThread PROVE CameraInv'
  OBVIOUS
<1>1. CASE CapStep
  BY <1>1, CapTyped DEF SafeInv
<1>2. CASE CloseVi("return")
  BY <1>2, CloseViTyped DEF SafeInv
<1>3. CASE RaiseReady
  BY <1>3 DEF RaiseReady, CapMoves, SafeInv, CameraInv, CameraTypes,
              ConnectionOpen, ServerStarted, accVars, procVars, netVars
<1> QED
  BY <1>1, <1>2, <1>3 DEF CapThread

\* So do the server thread's.
LEMMA AccThreadTyped == SafeInv /\ AccThread => CameraInv'
<1> SUFFICES ASSUME SafeInv, AccThread PROVE CameraInv'
  OBVIOUS
<1> USE DEF SafeInv
<1>1. CASE AccStep
  BY <1>1, AccTyped
<1>2. CASE LowerReady \/ Poll
  BY <1>2 DEF LowerReady, Poll, AccMoves, CameraInv, CameraTypes,
              ConnectionOpen, ServerStarted, capVars, procVars, netVars
<1>3. CASE RaiseCapture
  <2>1. capture' \in BOOLEAN
    BY <1>3, Zenon DEF RaiseCapture
  <2> QED
    BY <1>3, <2>1 DEF RaiseCapture, AccMoves, CameraInv, CameraTypes,
                      ConnectionOpen, ServerStarted, capVars, procVars, netVars
<1> QED
  BY <1>1, <1>2, <1>3 DEF AccThread

\* The capture thread keeps the handshake.
LEMMA CapShakes == SafeInv /\ CapThread => (Places /\ Handshake)'
<1> SUFFICES ASSUME SafeInv, CapThread PROVE (Places /\ Handshake)'
  OBVIOUS
<1>1. ready' \in BOOLEAN
  BY Zenon DEF CapThread, RaiseReady, ReadyAfterImage, SafeInv, Places
<1> QED
  BY <1>1 DEF SafeInv, CameraInv, ServerStarted, Places, Handshake,
       CapThread, CapStep, CaptureInit,
       StartServer, LoopTest, GetFrame, GetNothing, GetFault, CheckCapture,
       OpenImage, ConvertFails, FillImage, ShortWrite, CountImage,
       ClearCapture, ReleaseFrame, CaptureOff, MainReturns, CloseVi,
       RaiseReady, CapMoves, Crash, capVars, accVars, AfterNoFrame,
       AfterCheck, Wanted, CaptureAfterImage, ReadyAfterImage

\* The server thread keeps the handshake.
LEMMA AccShakes == SafeInv /\ AccThread => (Places /\ Handshake)'
<1> SUFFICES ASSUME SafeInv, AccThread PROVE (Places /\ Handshake)'
  OBVIOUS
<1>1. ready' \in BOOLEAN
  BY Zenon DEF AccThread, LowerReady, RaiseCapture, Poll, ReadyAtRequest,
               SafeInv, Places
<1> QED
  BY <1>1 DEF SafeInv, CameraInv, ServerStarted, Places, Handshake,
       AccThread, AccStep, Accept, Parse,
       OpenFile, SendHeader, SendBlock, EndOfFile, CloseConnection, BrokenPipe,
       LowerReady, RaiseCapture, Poll, AccMoves, Crash, capVars, accVars,
       ReadyAtRequest, PollDone

\* Clients and signals keep the invariant.
LEMMA EnvSafe == SafeInv /\ EnvStep /\ UNCHANGED ready => SafeInv'
BY EnvTyped, EnvStepKeeps DEF SafeInv, Places, Handshake, capVars, accVars

\* So does a step that changes nothing.
LEMMA StutterSafe == SafeInv /\ UNCHANGED allVars => SafeInv'
BY StutterTyped DEF SafeInv, Places, Handshake, allVars, vars, capVars, accVars

\* Every step keeps the invariant.
LEMMA NextSafe == SafeInv /\ [Next]_allVars => SafeInv'
BY CapThreadTyped, AccThreadTyped, CapShakes, AccShakes, EnvSafe, RestartSafe,
   StutterSafe DEF Next, SafeInv

\* The invariant holds throughout.
LEMMA AlwaysSafe == Spec => []SafeInv
BY InitSafe, NextSafe, PTL DEF Spec

\* Every variable keeps its type, whatever the constants and the faults.
THEOREM TypeCorrect == Spec => []TypeOK
BY SafeTyped, AlwaysSafe, PTL

\* The polled flag keeps the two threads apart on /tmp/preview.bmp for any
\* number of requests, restarts and descriptors, and whatever faults occur.
THEOREM FileExclusion == Spec => []NoConcurrentWrite
<1>1. SafeInv => NoConcurrentWrite
  BY DEF SafeInv, Handshake, NoConcurrentWrite
<1> QED
  BY <1>1, AlwaysSafe, PTL

\* snapshot_ref.count moves only for a client that is waiting.
THEOREM OnlyWantedCounted == Spec => CountsOnlyWanted
<1>1. SafeInv /\ [Next]_allVars
        => [count' = count + 1 => acc = "poll" /\ acc' = "poll" /\ capture]_allVars
  <2> SUFFICES ASSUME SafeInv, Next, count' = count + 1
               PROVE  acc = "poll" /\ acc' = "poll" /\ capture
    OBVIOUS
  <2>1. CapThread
    <3>1. ~AccThread
      BY DEF SafeInv, CameraInv, CameraTypes, Places, AccThread, AccStep, Accept, Parse,
       OpenFile, SendHeader, SendBlock, EndOfFile, CloseConnection, BrokenPipe,
       LowerReady, RaiseCapture, Poll, AccMoves, AccRuns, Crash, capVars, accVars,
       procVars, netVars, Released, ReadyAtRequest, PollDone
    <3>2. ~EnvStep
      BY DEF SafeInv, CameraInv, CameraTypes, Places, EnvStep, Connect, ClientActs, Leave, Interrupt,
       HandlerExits, capVars, accVars,
       procVars, netVars
    <3>3. ~Restart
      BY DEF SafeInv, CameraInv, CameraTypes, Places, Restart
    <3> QED
      BY <3>1, <3>2, <3>3 DEF Next
  <2>2. CountImage
    BY <2>1 DEF SafeInv, CameraInv, CameraTypes, Places, CapThread, CapStep, CaptureInit,
       StartServer, LoopTest, GetFrame, GetNothing, GetFault, CheckCapture,
       OpenImage, ConvertFails, FillImage, ShortWrite, CountImage,
       ClearCapture, ReleaseFrame, CaptureOff, MainReturns, CloseVi,
       RaiseReady, CapMoves, CapRuns, Crash, capVars, accVars, procVars,
       netVars, AfterNoFrame, AfterCheck, Wanted, CaptureAfterImage,
       ReadyAfterImage
  <2> QED
    BY <2>2 DEF CountImage, CapMoves, accVars, SafeInv, Handshake
<1> QED
  BY <1>1, AlwaysSafe, PTL DEF Spec, CountsOnlyWanted

-----------------------------------------------------------------------------
(***************************************************************************)
(* Frames.                                                                 *)
(***************************************************************************)
\* Every step keeps the frames in order.
LEMMA NextFrames == SafeInv /\ Frames /\ [Next]_allVars => Frames'
<1> SUFFICES ASSUME SafeInv, Frames, [Next]_allVars PROVE Frames'
  OBVIOUS
<1>1. CASE CapThread
  <2>1. CASE RaiseReady
    BY <2>1 DEF RaiseReady, CapMoves, Frames
  <2> QED
    BY <1>1, <2>1, CapFrames, CloseViFrames DEF CapThread, SafeInv, CameraInv
<1>2. CASE AccThread
  BY <1>2, OtherFrames, AccStepKeeps
     DEF AccThread, LowerReady, RaiseCapture, Poll
<1>3. CASE EnvStep
  BY <1>3, OtherFrames, EnvStepKeeps
<1>4. CASE UNCHANGED allVars
  BY <1>4, OtherFrames DEF allVars, vars
<1> QED
  BY <1>1, <1>2, <1>3, <1>4, RestartFrames DEF Next

\* They are in order throughout.
LEMMA AlwaysFrames == Spec => []Frames
<1>1. RecordInit => Frames
  BY InitFrames DEF RecordInit
<1> QED
  BY <1>1, NextFrames, AlwaysSafe, PTL DEF Spec

\* No frame is saved twice and nothing is saved without a frame, whatever
\* fails.
THEOREM FramesAreNew == Spec => []EveryImageANewFrame
<1>1. Frames => EveryImageANewFrame
  BY DEF Frames, EveryImageANewFrame
<1> QED
  BY <1>1, AlwaysFrames, PTL

\* The camera is on from its opening to the end of the loop, when
\* capture_init succeeds.
CameraOn ==
  cap \in {"server", "test", "get", "debug", "write", "fill", "count", "clear",
           "announce", "release", "off"} => vi = "on"

InitSucceeds == "init" \notin Faults

\* Every step keeps it on.
LEMMA NextCameraOn ==
  ASSUME InitSucceeds PROVE SafeInv /\ CameraOn /\ [Next]_allVars => CameraOn'
<1> SUFFICES ASSUME SafeInv, CameraOn, [Next]_allVars PROVE CameraOn'
  OBVIOUS
<1>1. CASE CapThread
  BY <1>1, InitSucceeds
     DEF InitSucceeds, SafeInv, Places, CameraOn, CapThread, CapStep,
       CaptureInit, StartServer, LoopTest, GetFrame, GetNothing, GetFault,
       CheckCapture, OpenImage, ConvertFails, FillImage, ShortWrite,
       CountImage, ClearCapture, ReleaseFrame, CaptureOff, MainReturns,
       CloseVi, RaiseReady, CapMoves, capVars, AfterNoFrame, AfterCheck
<1>2. CASE AccThread
  BY <1>2, AccStepKeeps
     DEF AccThread, LowerReady, RaiseCapture, Poll, CameraOn, capVars
<1>3. CASE EnvStep
  BY <1>3, EnvStepKeeps DEF CameraOn, capVars
<1>4. CASE Restart \/ UNCHANGED allVars
  BY <1>4 DEF Restart, allVars, vars, capVars, CameraOn
<1> QED
  BY <1>1, <1>2, <1>3, <1>4 DEF Next

\* When capture_init succeeds, every frame is asked for through a handle that
\* is open and on, and every frame is given back before the next is asked for
\* and before the camera is switched off.
THEOREM CameraDiscipline == ASSUME InitSucceeds PROVE Spec => []FrameDiscipline
<1>1. RecordInit => CameraOn
  BY DEF RecordInit, Init, CameraOn
<1>2. CameraOn /\ Frames => FrameDiscipline
  BY DEF CameraOn, Frames, FrameDiscipline
<1> QED
  BY <1>1, <1>2, InitSucceeds, NextCameraOn, AlwaysSafe, AlwaysFrames, PTL DEF Spec

-----------------------------------------------------------------------------
(***************************************************************************)
(* Delivery, when YUVToBMP opens its file.  A write that fails half way    *)
(* leaves a torn file, which is no image at all.                           *)
(***************************************************************************)
ConvertSucceeds == "convert" \notin Faults
WritesSucceed   == ConvertSucceeds /\ "short" \notin Faults

\* The file holds image n, complete and of the connection in service, or the
\* rest of a short write.
Mine(n) == \/ img.state = "whole" /\ img.for = hit /\ img.no = n
           \/ "short" \in Faults /\ img.no = 0

\* Once the image is written it stays the one the server thread will send.
Delivery ==
  /\ cap = "fill" => img.no = 0
  /\ cap = "count" => Mine(count + 1)
  /\ cap \in {"clear", "announce"} => Mine(count)
  /\ acc \in {"arm", "raise", "poll"} => want = "bmp"
  /\ acc = "poll" /\ ~capture => Mine(count)
  /\ Sending /\ want = "bmp" => Mine(count)

\* Nothing is delivered at first.
LEMMA InitDelivers == RecordInit => Delivery
BY DEF RecordInit, Init, Delivery, Sending

\* The capture thread writes the image of the waiting connection.
LEMMA CapDelivers ==
  ConvertSucceeds /\ SafeInv /\ Delivery /\ CapThread => Delivery'
BY DEF SafeInv, CameraInv, CameraTypes, Places, Image, Handshake, ServerStarted, ConvertSucceeds,
       Delivery, Mine, Sending,
       CapThread, CapStep, CaptureInit,
       StartServer, LoopTest, GetFrame, GetNothing, GetFault, CheckCapture,
       OpenImage, ConvertFails, FillImage, ShortWrite, CountImage,
       ClearCapture, ReleaseFrame, CaptureOff, MainReturns, CloseVi,
       RaiseReady, CapMoves, CapRuns, Crash, capVars, accVars, procVars,
       netVars, AfterNoFrame, AfterCheck, Wanted, CaptureAfterImage,
       ReadyAfterImage

\* The server thread sends the image that was written for it.
LEMMA AccDelivers == SafeInv /\ Delivery /\ AccThread => Delivery'
<1> SUFFICES ASSUME SafeInv, Delivery, AccThread PROVE Delivery'
  OBVIOUS
<1> USE DEF SafeInv, CameraInv, CameraTypes, Places, Handshake, Delivery, Mine, Sending,
            AccMoves, AccRuns, capVars
<1>1. CASE Accept
  BY <1>1 DEF Accept
<1>2. CASE Parse
  BY <1>2 DEF Parse
<1>3. CASE OpenFile
  BY <1>3 DEF OpenFile
<1>4. CASE SendHeader
  BY <1>4 DEF SendHeader
<1>5. CASE SendBlock \/ EndOfFile
  BY <1>5 DEF SendBlock, EndOfFile
<1>6. CASE CloseConnection
  BY <1>6 DEF CloseConnection
<1>7. CASE BrokenPipe
  BY <1>7 DEF BrokenPipe, accVars
<1>8. CASE LowerReady \/ RaiseCapture
  BY <1>8 DEF LowerReady, RaiseCapture
<1>9. CASE Poll
  BY <1>9 DEF Poll, PollDone
<1> QED
  BY <1>1, <1>2, <1>3, <1>4, <1>5, <1>6, <1>7, <1>8, <1>9
     DEF AccThread, AccStep

\* Clients and signals change no image.
LEMMA EnvDelivers == Delivery /\ EnvStep => Delivery'
BY DEF Delivery, Mine, Sending, EnvStep, Connect, ClientActs, Leave, Interrupt,
       HandlerExits, capVars, accVars,
       procVars, netVars

\* A new process waits for a new image.
LEMMA RestartDelivers == Delivery /\ Restart => Delivery'
BY DEF Delivery, Mine, Sending, Restart

\* Every step keeps what delivery rests on.
LEMMA NextDelivers ==
  ConvertSucceeds /\ SafeInv /\ Delivery /\ [Next]_allVars => Delivery'
<1>1. Delivery /\ UNCHANGED allVars => Delivery'
  BY DEF Delivery, Mine, Sending, allVars, vars, capVars, accVars
<1> QED
  BY <1>1, CapDelivers, AccDelivers, EnvDelivers, RestartDelivers DEF Next

\* So it holds throughout, when the file can be opened.
LEMMA AlwaysDelivers == ASSUME ConvertSucceeds PROVE Spec => []Delivery
BY ConvertSucceeds, InitDelivers, NextDelivers, AlwaysSafe, PTL DEF Spec

\* The answers follow the image from the first block to the last.
LEMMA NextAnswers ==
  SafeInv /\ Delivery /\ Answers /\ [Next]_allVars => Answers'
<1> SUFFICES ASSUME SafeInv, Delivery, Answers, [Next]_allVars PROVE Answers'
  OBVIOUS
<1>1. CASE CapThread
  <2>1. acc = "body" => cap \notin {"write", "fill"}
    BY DEF SafeInv, Handshake
  <2>2. CASE CapStep
    BY <2>1, <2>2, CapAnswers DEF SafeInv, CameraInv
  <2>3. CASE CloseVi("return") \/ RaiseReady
    BY <2>3, OtherAnswers DEF CloseVi, RaiseReady, CapMoves, accVars
  <2> QED
    BY <1>1, <2>2, <2>3 DEF CapThread
<1>2. CASE AccThread
  <2>1. OwnImage
    BY DEF OwnImage, Delivery, Mine, Sending
  <2>2. CASE AccStep
    BY <2>1, <2>2, AccAnswers DEF SafeInv, CameraInv
  <2>3. CASE LowerReady \/ RaiseCapture \/ Poll
    BY <2>3, OtherAnswers
       DEF LowerReady, RaiseCapture, Poll, AccMoves, BeforeBody
  <2> QED
    BY <1>2, <2>2, <2>3 DEF AccThread
<1>3. CASE UNCHANGED allVars
  BY <1>3, StutterAnswers DEF allVars, vars
<1> QED
  BY <1>1, <1>2, <1>3, EnvAnswers, RestartAnswers DEF Next

\* So they do throughout, when the file can be opened.
LEMMA AlwaysAnswers == ASSUME ConvertSucceeds PROVE Spec => []Answers
<1>1. RecordInit => Answers
  BY InitAnswers DEF RecordInit
<1> QED
  BY <1>1, ConvertSucceeds, NextAnswers, AlwaysSafe, AlwaysDelivers, PTL DEF Spec

\* Every block that reaches a client is of the one complete image written for
\* its connection, and web closes no connection before the last of them.
THEOREM RepliesAreFresh == ASSUME WritesSucceed PROVE Spec => []FreshReply
<1>1. ConvertSucceeds /\ (Answers => FreshReply)
  BY WritesSucceed DEF WritesSucceed, Answers
<1> QED
  BY <1>1, AlwaysAnswers, PTL

-----------------------------------------------------------------------------
(***************************************************************************)
(* ak_record implements SnapshotService, when YUVToBMP opens its file: a   *)
(* torn one counts as an answer without an image.                          *)
(***************************************************************************)
ServiceStep == [Service!Next]_(Service!serviceVars)

\* The initial states are the service's.
LEMMA InitServes == RecordInit => Service!Init
BY NoAnswer DEF RecordInit, Init, Service!Init, Phase, Waiting, Sending

\* A step of the capture thread takes an image or is a stutter.
LEMMA CapServes == SafeInv /\ Delivery /\ CapThread => ServiceStep
<1> SUFFICES ASSUME SafeInv, Delivery, CapThread PROVE ServiceStep
  OBVIOUS
<1> USE DEF SafeInv, CameraInv, CameraTypes, Places, Handshake, ServerStarted,
            CapMoves, CapRuns, accVars, procVars, ServiceStep,
            Service!serviceVars, Service!answer, Service!Next, Phase, Waiting,
            Sending, Taken
<1>0. UNCHANGED <<Answered, Complete>>
  BY SameAnswer, CapStepKeeps DEF CapThread, CloseVi, RaiseReady
<1>1. CASE CountImage
  BY <1>0, <1>1 DEF CountImage, Delivery, Service!Take
<1>2. CASE ClearCapture
  BY <1>0, <1>2 DEF ClearCapture, CaptureAfterImage
<1>3. CASE GetFault \/ MainReturns
  BY <1>0, <1>3 DEF GetFault, MainReturns, Crash, capVars, Service!Stop
<1>4. CASE StartServer
  BY <1>0, <1>4 DEF StartServer
<1>5. CASE CaptureInit \/ LoopTest \/ GetFrame \/ GetNothing \/ CheckCapture
           \/ OpenImage
  BY <1>0, <1>5 DEF CaptureInit, LoopTest, GetFrame, GetNothing, CheckCapture,
                    OpenImage, AfterNoFrame, AfterCheck, Wanted
<1>6. CASE ConvertFails \/ FillImage \/ ShortWrite \/ ReleaseFrame
           \/ CaptureOff \/ CloseVi("return")
  BY <1>0, <1>6 DEF ConvertFails, FillImage, ShortWrite, ReleaseFrame,
                    CaptureOff, CloseVi
<1>7. CASE RaiseReady
  BY <1>0, <1>7 DEF RaiseReady
<1> QED
  BY <1>1, <1>2, <1>3, <1>4, <1>5, <1>6, <1>7 DEF CapThread, CapStep

\* A step of the server thread asks, answers or is a stutter.
LEMMA AccServes == SafeInv /\ Delivery /\ Answers /\ AccThread => ServiceStep
<1> SUFFICES ASSUME SafeInv, Delivery, Answers, AccThread PROVE ServiceStep
  OBVIOUS
<1> USE DEF SafeInv, CameraInv, Places, Handshake, AccMoves, AccRuns, capVars,
            procVars, ServiceStep, Service!serviceVars, Service!answer,
            Service!Next, Phase, Waiting, Sending, Taken
<1>0. UNCHANGED sent => UNCHANGED <<Answered, Complete>>
  BY SameAnswer
<1>1. CASE Accept
  <2>1. Answered' = 0 /\ Complete' = FALSE
    BY <1>1, NoAnswer DEF Accept, Answered, Complete
  <2> QED
    BY <1>1, <2>1 DEF Accept, Service!Greet
<1>2. CASE Parse
  BY <1>0, <1>2 DEF Parse, Crash, Service!Ask
<1>3. CASE OpenFile \/ SendHeader \/ CloseConnection
  BY <1>0, <1>3 DEF OpenFile, SendHeader, CloseConnection
<1>4. CASE SendBlock
  <2>1. /\ Complete = FALSE
        /\ want = "bmp" => Answered' = img.no
        /\ want # "bmp" \/ img.no = 0 => UNCHANGED <<Answered, Complete>>
    BY <1>4, BlockAnswers DEF Answers
  <2>2. /\ acc = "body" /\ UNCHANGED <<acc, proc, want, cap, capture, count>>
    BY <1>4 DEF SendBlock
  <2>3. CASE want # "bmp" \/ img.no = 0
    BY <2>1, <2>2, <2>3
  <2>4. CASE want = "bmp" /\ Answered' = count
    <3>1. Complete' \in BOOLEAN
      BY CompleteOrNot DEF Complete, Answered
    <3>2. CASE proc = "up"
      BY <2>1, <2>2, <2>4, <3>1, <3>2 DEF Service!Send
    <3> QED
      BY <1>4, <3>2 DEF SendBlock
  <2> QED
    BY <2>1, <2>2, <2>3, <2>4 DEF Delivery, Mine
<1>5. CASE EndOfFile
  <2>1. want = "bmp" => Complete = TRUE \/ Answered = 0
    BY <1>5, EndAnswers DEF EndOfFile, Answers, Delivery, Mine
  <2> QED
    BY <1>0, <1>5, <2>1 DEF EndOfFile, Service!Finish
<1>6. CASE BrokenPipe
  BY <1>0, <1>6 DEF BrokenPipe, Crash, accVars, Service!Stop
<1>7. CASE LowerReady \/ RaiseCapture
  BY <1>0, <1>7 DEF LowerReady, RaiseCapture
<1>8. CASE Poll
  BY <1>0, <1>8 DEF Poll, PollDone
<1> QED
  BY <1>1, <1>2, <1>3, <1>4, <1>5, <1>6, <1>7, <1>8 DEF AccThread, AccStep

\* Clients and signals stutter.
LEMMA EnvServes == EnvStep => ServiceStep
<1> SUFFICES ASSUME EnvStep PROVE ServiceStep
  OBVIOUS
<1>1. UNCHANGED <<Answered, Complete>>
  BY SameAnswer, EnvStepKeeps DEF accVars
<1> QED
  BY <1>1 DEF EnvStep, Connect, ClientActs, Leave, Interrupt, HandlerExits,
       capVars, accVars, procVars, netVars, ServiceStep, Service!serviceVars,
       Service!answer, Service!Next, Service!Stop, Phase, Waiting, Sending,
       Taken

\* A new process is a new start of the service.
LEMMA RestartServes == Restart => ServiceStep
<1> SUFFICES ASSUME Restart PROVE ServiceStep
  OBVIOUS
<1>1. Answered' = 0 /\ Complete' = FALSE
  BY DEF Restart, Answered, Complete
<1> QED
  BY <1>1 DEF Restart, ServiceStep, Service!serviceVars, Service!Next,
              Service!Restart, Phase, Waiting, Sending

\* Every step is a step of the service.
LEMMA NextServes ==
  SafeInv /\ Delivery /\ Answers /\ [Next]_allVars => ServiceStep
<1>1. UNCHANGED allVars => ServiceStep
  BY SameAnswer
     DEF allVars, vars, capVars, accVars, procVars, ServiceStep,
         Service!serviceVars, Phase, Waiting, Sending, Taken
<1> QED
  BY <1>1, CapServes, AccServes, EnvServes, RestartServes DEF Next

\* One new image per snapshot request, and that image in its answer, the
\* whole of it unless the program ends first.
THEOREM ImplementsService == ASSUME ConvertSucceeds PROVE Spec => ServiceSpec
BY ConvertSucceeds, InitServes, NextServes, AlwaysSafe, AlwaysDelivers,
   AlwaysAnswers, PTL DEF Spec, ServiceSpec, Service!Spec, ServiceStep
=============================================================================
