--------------------------- MODULE AkSnapshotProofs ---------------------------
(***************************************************************************)
(* For every value of the constants: as long as waits end by a signal,     *)
(* ak_snapshot keeps the capture thread and the server thread apart, and   *)
(* when files can be written too, it answers a snapshot request with the   *)
(* image taken for it or not at all.  (It may answer none: a signal that   *)
(* comes before the wait is lost, which the model checker shows.)          *)
(***************************************************************************)
EXTENDS AkSnapshot, CameraHttpProofs

\* The statements of this program, and the types of what only it has.
Places ==
  /\ cap \in {"init", "server", "test", "get", "debug", "write", "fill",
              "count", "clear", "announce", "release", "off", "close",
              "stopServer", "return"}
  /\ acc \in {"none", "accept", "parse", "arm", "raise", "lock", "wait",
              "woken", "unlock", "open", "header", "body", "drain"}
  /\ waiting \in BOOLEAN /\ lock \in {"free", "acc"}

\* Both hold whatever goes wrong.
BaseInv == CameraInv /\ Places

\* The server thread between raising capture and the signal: it is on its way
\* into the wait, or in it and still to be signalled.
AwaitsSignal == acc \in {"lock", "wait"} \/ (acc = "woken" /\ waiting)

\* The handshake of waits that end by a signal.  While capture is up, and
\* from then on until the signal, the server thread awaits it; the capture
\* thread works on an image only while capture is up; and only a thread at
\* the wait is in the wait set.
Handshake ==
  /\ capture => AwaitsSignal
  /\ cap \in {"write", "fill", "count", "clear"} => capture
  /\ cap = "announce" => AwaitsSignal /\ ~capture
  /\ waiting => acc = "woken"

NoSpurious == "spurious" \notin Faults

USE DEF NoImage, NoFrame

-----------------------------------------------------------------------------
(***************************************************************************)
(* Types.                                                                  *)
(***************************************************************************)
\* What BaseInv says of types is TypeOK.
LEMMA BaseTyped == BaseInv => TypeOK
BY DEF BaseInv, CameraInv, CameraTypes, Places, TypeOK

\* A program starts well typed.
LEMMA InitBase == SnapshotInit => BaseInv
<1>1. SnapshotInit => waiting \in BOOLEAN
  BY Zenon DEF SnapshotInit
<1>2. SnapshotInit => Places
  BY <1>1 DEF SnapshotInit, Init, Places
<1> QED
  BY <1>2, InitTyped DEF BaseInv, SnapshotInit

\* So does the next one.
LEMMA RestartBase ==
  BaseInv /\ Restart /\ waiting' = FALSE /\ lock' = "free" => BaseInv'
<1>1. waiting' = FALSE => waiting' \in BOOLEAN
  BY Zenon
<1>2. Restart /\ waiting' = FALSE /\ lock' = "free" => Places'
  BY <1>1 DEF Restart, Places
<1> QED
  BY <1>2, RestartTyped DEF BaseInv

\* The capture thread's steps keep the types.
LEMMA CapBase == BaseInv /\ CapThread => BaseInv'
<1> SUFFICES ASSUME BaseInv, CapThread PROVE BaseInv'
  OBVIOUS
<1>1. CameraInv'
  <2>1. CASE CapStep
    BY <2>1, CapTyped DEF BaseInv
  <2>2. CASE CloseVi("stopServer")
    BY <2>2, CloseViTyped DEF BaseInv
  <2>3. CASE SignalReady
    BY <2>3 DEF SignalReady, CapMoves, BaseInv, CameraInv, CameraTypes,
                ConnectionOpen, ServerStarted, accVars, procVars, netVars
  <2>4. CASE StopServer
    <3>1. listening' \in BOOLEAN
      BY <2>4, Zenon DEF StopServer
    <3> QED
      BY <2>4, <3>1 DEF StopServer, CapMoves, BaseInv, CameraInv, CameraTypes,
                 ConnectionOpen, ServerStarted, accVars, procVars
  <2> QED
    BY <2>1, <2>2, <2>3, <2>4 DEF CapThread
<1>2. waiting' \in BOOLEAN
  BY Zenon DEF CapThread, SignalReady, StopServer, LeftWaiting, BaseInv,
               Places, syncVars
<1>3. Places'
  BY <1>2 DEF BaseInv, CameraInv, ServerStarted, Places, CapThread, CapStep,
       CaptureInit, StartServer, LoopTest, GetFrame, GetNothing, GetFault,
       CheckCapture, OpenImage, ConvertFails, FillImage, ShortWrite,
       CountImage, ClearCapture, ReleaseFrame, CaptureOff, MainReturns,
       CloseVi, SignalReady, StopServer, CapMoves, capVars, accVars, syncVars,
       AfterNoFrame, AfterCheck
<1> QED
  BY <1>1, <1>3 DEF BaseInv

\* So do the server thread's.
LEMMA AccBase == BaseInv /\ AccThread => BaseInv'
<1> SUFFICES ASSUME BaseInv, AccThread PROVE BaseInv'
  OBVIOUS
<1>1. CameraInv'
  <2> USE DEF BaseInv
  <2>1. CASE AccStep
    BY <2>1, AccTyped
  <2>2. CASE InitReady \/ LockMutex \/ BeginWait \/ EndWait \/ UnlockMutex
    BY <2>2 DEF InitReady, LockMutex, BeginWait, EndWait, UnlockMutex,
                AccMoves, CameraInv, CameraTypes, ConnectionOpen,
                ServerStarted, capVars, procVars, netVars
  <2>3. CASE RaiseCapture
    <3>1. capture' \in BOOLEAN
      BY <2>3, Zenon DEF RaiseCapture
    <3> QED
      BY <2>3, <3>1 DEF RaiseCapture, AccMoves, CameraInv, CameraTypes,
                        ConnectionOpen, ServerStarted, capVars, procVars, netVars
  <2> QED
    BY <2>1, <2>2, <2>3 DEF AccThread
<1>2. waiting' \in BOOLEAN
  BY Zenon DEF AccThread, InitReady, RaiseCapture, LockMutex, BeginWait,
               EndWait, UnlockMutex, BaseInv, Places, syncVars
<1>3. Places'
  BY <1>2 DEF BaseInv, CameraInv, ServerStarted, Places, AccThread, AccStep,
       Accept, Parse, OpenFile, SendHeader, SendBlock, EndOfFile, CloseConnection,
       BrokenPipe, InitReady, RaiseCapture, LockMutex, BeginWait, EndWait,
       UnlockMutex, AccMoves, capVars, accVars, syncVars
<1> QED
  BY <1>1, <1>3 DEF BaseInv

\* A wakeup without a signal touches only the wait set.
LEMMA SpuriousBase == BaseInv /\ SpuriousWakeup => BaseInv'
<1> SUFFICES ASSUME BaseInv, SpuriousWakeup PROVE BaseInv'
  OBVIOUS
<1>1. waiting' \in BOOLEAN
  BY Zenon DEF SpuriousWakeup
<1> QED
  BY <1>1, StutterTyped
     DEF SpuriousWakeup, BaseInv, Places, vars, capVars, accVars

\* Every step keeps the types.
LEMMA NextBase == BaseInv /\ [Next]_allVars => BaseInv'
<1>1. BaseInv /\ EnvStep /\ UNCHANGED syncVars => BaseInv'
  BY EnvTyped, EnvStepKeeps DEF BaseInv, Places, capVars, accVars, syncVars
<1>2. BaseInv /\ UNCHANGED allVars => BaseInv'
  BY StutterTyped DEF BaseInv, Places, allVars, vars, capVars, accVars, syncVars
<1> QED
  BY <1>1, <1>2, CapBase, AccBase, SpuriousBase, RestartBase DEF Next

\* So they hold throughout.
LEMMA AlwaysBase == Spec => []BaseInv
BY InitBase, NextBase, PTL DEF Spec

\* Every variable keeps its type, whatever the constants and the faults.
THEOREM TypeCorrect == Spec => []TypeOK
BY BaseTyped, AlwaysBase, PTL

-----------------------------------------------------------------------------
(***************************************************************************)
(* The handshake, as long as waits end by a signal.                        *)
(***************************************************************************)
\* Nobody has asked for anything at first.
LEMMA InitShakes == SnapshotInit => Handshake
BY DEF SnapshotInit, Init, Handshake, AwaitsSignal

\* The capture thread signals last.
LEMMA CapShakes == BaseInv /\ Handshake /\ CapThread => Handshake'
BY DEF BaseInv, CameraInv, ServerStarted, Places, Handshake, AwaitsSignal,
       CapThread, CapStep, CaptureInit, StartServer, LoopTest, GetFrame,
       GetNothing, GetFault, CheckCapture, OpenImage, ConvertFails, FillImage,
       ShortWrite, CountImage, ClearCapture, ReleaseFrame, CaptureOff,
       MainReturns, CloseVi, SignalReady, StopServer, CapMoves, capVars,
       accVars, syncVars, AfterNoFrame, AfterCheck, Wanted, CaptureAfterImage,
       LeftWaiting

\* The server thread leaves the wait after the signal.
LEMMA AccShakes == BaseInv /\ Handshake /\ AccThread => Handshake'
BY DEF BaseInv, CameraInv, ServerStarted, Places, Handshake, AwaitsSignal,
       AccThread, AccStep, Accept, Parse, OpenFile, SendHeader, SendBlock, EndOfFile,
       CloseConnection, BrokenPipe, InitReady, RaiseCapture, LockMutex,
       BeginWait, EndWait, EndWaitReady, UnlockMutex, AccMoves, capVars,
       accVars, syncVars

\* Every step keeps the handshake.
LEMMA NextShakes ==
  ASSUME NoSpurious PROVE BaseInv /\ Handshake /\ [Next]_allVars => Handshake'
<1> SUFFICES ASSUME BaseInv, Handshake, [Next]_allVars PROVE Handshake'
  OBVIOUS
<1>1. ~SpuriousWakeup
  BY NoSpurious DEF NoSpurious, SpuriousWakeup
<1>2. CASE EnvStep /\ UNCHANGED syncVars
  BY <1>2, EnvStepKeeps DEF Handshake, AwaitsSignal, capVars, accVars, syncVars
<1>3. CASE Restart /\ waiting' = FALSE /\ lock' = "free"
  BY <1>3 DEF Restart, Handshake, AwaitsSignal
<1>4. CASE UNCHANGED allVars
  BY <1>4 DEF Handshake, AwaitsSignal, allVars, vars, capVars, accVars, syncVars
<1> QED
  BY <1>1, <1>2, <1>3, <1>4, CapShakes, AccShakes DEF Next

\* So it holds throughout.
LEMMA AlwaysShakes == ASSUME NoSpurious PROVE Spec => []Handshake
BY NoSpurious, InitShakes, NextShakes, AlwaysBase, PTL DEF Spec

\* The condition variable keeps the two threads apart on /tmp/preview.bmp for
\* any number of requests, restarts and descriptors, and whatever fails, but
\* only because waits end by a signal: the wait tests no predicate.
THEOREM FileExclusion == ASSUME NoSpurious PROVE Spec => []NoConcurrentWrite
<1>1. Handshake => NoConcurrentWrite
  BY DEF Handshake, AwaitsSignal, NoConcurrentWrite
<1> QED
  BY <1>1, NoSpurious, AlwaysShakes, PTL

\* A server thread in its wait while capture is up has its signal to come.
THEOREM SignalToCome == ASSUME NoSpurious PROVE Spec => []SignalStillToCome
<1>1. Handshake => SignalStillToCome
  BY DEF Handshake, AwaitsSignal, SignalStillToCome
<1> QED
  BY <1>1, NoSpurious, AlwaysShakes, PTL

-----------------------------------------------------------------------------
(***************************************************************************)
(* Frames.                                                                 *)
(***************************************************************************)
\* Every step keeps the frames in order.
LEMMA NextFrames == BaseInv /\ Frames /\ [Next]_allVars => Frames'
<1> SUFFICES ASSUME BaseInv, Frames, [Next]_allVars PROVE Frames'
  OBVIOUS
<1>1. CASE CapThread
  <2>1. CASE SignalReady \/ StopServer
    BY <2>1 DEF SignalReady, StopServer, CapMoves, Frames
  <2> QED
    BY <1>1, <2>1, CapFrames, CloseViFrames DEF CapThread, BaseInv, CameraInv
<1>2. CASE AccThread
  BY <1>2, OtherFrames, AccStepKeeps
     DEF AccThread, InitReady, RaiseCapture, LockMutex, BeginWait, EndWait,
         UnlockMutex
<1>3. CASE EnvStep
  BY <1>3, OtherFrames, EnvStepKeeps
<1>4. CASE SpuriousWakeup \/ UNCHANGED allVars
  BY <1>4, OtherFrames DEF SpuriousWakeup, allVars, vars
<1> QED
  BY <1>1, <1>2, <1>3, <1>4, RestartFrames DEF Next

\* No frame is saved twice and nothing is saved without a frame, whatever
\* fails and whatever ends a wait.
THEOREM FramesAreNew == Spec => []EveryImageANewFrame
<1>1. SnapshotInit => Frames
  BY InitFrames DEF SnapshotInit
<1>2. Frames => EveryImageANewFrame
  BY DEF Frames, EveryImageANewFrame
<1> QED
  BY <1>1, <1>2, NextFrames, AlwaysBase, PTL DEF Spec

-----------------------------------------------------------------------------
(***************************************************************************)
(* Delivery, when YUVToBMP opens its file besides.  A write that fails     *)
(* half way leaves a torn file, which is no image at all.                  *)
(***************************************************************************)
ConvertSucceeds == "convert" \notin Faults
WritesSucceed   == ConvertSucceeds /\ "short" \notin Faults

\* The file holds image n, complete and of the connection in service, or the
\* rest of a short write.
Mine(n) == \/ img.state = "whole" /\ img.for = hit /\ img.no = n
           \/ "short" \in Faults /\ img.no = 0

\* Once the image is written it stays the one the server thread will send:
\* while it still waits for the signal, and until the body is out.
Delivery ==
  /\ cap = "fill" => img.no = 0
  /\ cap = "count" => Mine(count + 1)
  /\ cap \in {"clear", "announce"} => Mine(count)
  /\ Waiting => want = "bmp"
  /\ Blocked /\ ~capture => Mine(count)
  /\ Sending /\ want = "bmp" => Mine(count)

\* What the steps below rest on.
ShakeInv == BaseInv /\ Handshake

\* Nothing is delivered at first.
LEMMA InitDelivers == SnapshotInit => Delivery
BY DEF SnapshotInit, Init, Delivery, Sending, Waiting, Blocked

\* The capture thread writes the image of the connection that awaits it.
LEMMA CapDelivers ==
  ConvertSucceeds /\ ShakeInv /\ Delivery /\ CapThread => Delivery'
<1> SUFFICES ASSUME ConvertSucceeds, ShakeInv, Delivery, CapThread
             PROVE  Delivery'
  OBVIOUS
<1> USE DEF ShakeInv, BaseInv, CameraInv, CameraTypes, Image, ServerStarted,
            Handshake, AwaitsSignal, Delivery, Mine, Waiting,
            Blocked, Sending, CapMoves, accVars
<1>1. CASE SignalReady \/ StopServer \/ CloseVi("stopServer")
  BY <1>1 DEF SignalReady, StopServer, CloseVi
<1>2. CASE CaptureInit \/ StartServer \/ LoopTest \/ GetFrame \/ GetNothing
           \/ GetFault \/ ReleaseFrame \/ CaptureOff \/ MainReturns
  BY <1>2 DEF CaptureInit, StartServer, LoopTest, GetFrame, GetNothing,
              GetFault, ReleaseFrame, CaptureOff, MainReturns, Crash, capVars,
              AfterNoFrame
<1>3. CASE CheckCapture \/ CountImage \/ ClearCapture
  BY <1>3 DEF CheckCapture, AfterCheck, Wanted, CountImage, ClearCapture,
              CaptureAfterImage
<1>4. CASE OpenImage \/ FillImage \/ ShortWrite
  BY <1>4 DEF OpenImage, FillImage, ShortWrite
<1>5. ~ConvertFails
  BY DEF ConvertSucceeds, ConvertFails
<1> QED
  BY <1>1, <1>2, <1>3, <1>4, <1>5 DEF CapThread, CapStep

\* The server thread sends the image that was written for it.
LEMMA AccDelivers == ShakeInv /\ Delivery /\ AccThread => Delivery'
<1> SUFFICES ASSUME ShakeInv, Delivery, AccThread PROVE Delivery'
  OBVIOUS
<1> USE DEF ShakeInv, BaseInv, CameraInv, CameraTypes, Handshake, AwaitsSignal,
            Delivery, Mine, Waiting, Blocked, Sending, AccMoves,
            capVars
<1>1. CASE Accept \/ CloseConnection \/ BrokenPipe
  BY <1>1 DEF Accept, CloseConnection, BrokenPipe, accVars
<1>2. CASE Parse
  BY <1>2 DEF Parse
<1>3. CASE OpenFile \/ SendHeader
  BY <1>3 DEF OpenFile, SendHeader
<1>4. CASE SendBlock \/ EndOfFile
  BY <1>4 DEF SendBlock, EndOfFile
<1>5. CASE InitReady \/ RaiseCapture \/ LockMutex \/ BeginWait
  BY <1>5 DEF InitReady, RaiseCapture, LockMutex, BeginWait
<1>6. CASE EndWait \/ UnlockMutex
  BY <1>6 DEF EndWait, EndWaitReady, UnlockMutex
<1> QED
  BY <1>1, <1>2, <1>3, <1>4, <1>5, <1>6 DEF AccThread, AccStep

\* Clients and signals change no image.
LEMMA EnvDelivers == Delivery /\ EnvStep => Delivery'
<1> SUFFICES ASSUME Delivery, EnvStep PROVE Delivery'
  OBVIOUS
<1>1. UNCHANGED <<capVars, capture, accVars>>
  BY EnvStepKeeps
<1> QED
  BY <1>1 DEF Delivery, Mine, Waiting, Blocked, Sending, capVars,
              accVars

\* A new process waits for a new image.
LEMMA RestartDelivers == Delivery /\ Restart => Delivery'
BY DEF Delivery, Mine, Waiting, Blocked, Sending, Restart

\* Every step keeps what delivery rests on.
LEMMA NextDelivers ==
  ASSUME NoSpurious, ConvertSucceeds
  PROVE  ShakeInv /\ Delivery /\ [Next]_allVars => Delivery'
<1>1. Delivery /\ UNCHANGED allVars => Delivery'
  BY DEF Delivery, Mine, Waiting, Blocked, Sending, allVars, vars,
         capVars, accVars
<1>2. ~SpuriousWakeup
  BY NoSpurious DEF NoSpurious, SpuriousWakeup
<1> QED
  BY <1>1, <1>2, ConvertSucceeds, CapDelivers, AccDelivers, EnvDelivers,
     RestartDelivers DEF Next

\* So it holds throughout, without spurious wakeups, when the file can be opened.
LEMMA AlwaysDelivers ==
  ASSUME NoSpurious, ConvertSucceeds PROVE Spec => [](ShakeInv /\ Delivery)
<1>1. Spec => []ShakeInv
  BY NoSpurious, AlwaysBase, AlwaysShakes, PTL DEF ShakeInv
<1> QED
  BY <1>1, NoSpurious, ConvertSucceeds, InitDelivers, NextDelivers, PTL DEF Spec

\* The answers follow the image from the first block to the last.
LEMMA NextAnswers ==
  ASSUME NoSpurious
  PROVE  ShakeInv /\ Delivery /\ Answers /\ [Next]_allVars => Answers'
<1> SUFFICES ASSUME ShakeInv, Delivery, Answers, [Next]_allVars PROVE Answers'
  OBVIOUS
<1>1. CASE CapThread
  <2>1. acc = "body" => cap \notin {"write", "fill"}
    BY DEF ShakeInv, Handshake, AwaitsSignal
  <2>2. CASE CapStep
    BY <2>1, <2>2, CapAnswers DEF ShakeInv, BaseInv, CameraInv
  <2>3. CASE CloseVi("stopServer") \/ SignalReady \/ StopServer
    BY <2>3, OtherAnswers DEF CloseVi, SignalReady, StopServer, CapMoves, accVars
  <2> QED
    BY <1>1, <2>2, <2>3 DEF CapThread
<1>2. CASE AccThread
  <2>1. OwnImage
    BY DEF OwnImage, Delivery, Mine, Sending
  <2>2. CASE AccStep
    BY <2>1, <2>2, AccAnswers DEF ShakeInv, BaseInv, CameraInv
  <2>3. CASE InitReady \/ RaiseCapture \/ LockMutex \/ BeginWait \/ EndWait
             \/ UnlockMutex
    BY <2>3, OtherAnswers
       DEF InitReady, RaiseCapture, LockMutex, BeginWait, EndWait, UnlockMutex,
           AccMoves, BeforeBody
  <2> QED
    BY <1>2, <2>2, <2>3 DEF AccThread
<1>3. CASE UNCHANGED allVars
  BY <1>3, StutterAnswers DEF allVars, vars
<1>4. ~SpuriousWakeup
  BY NoSpurious DEF NoSpurious, SpuriousWakeup
<1> QED
  BY <1>1, <1>2, <1>3, <1>4, EnvAnswers, RestartAnswers DEF Next

\* So they do throughout, without spurious wakeups, when the file can be opened.
LEMMA AlwaysAnswers ==
  ASSUME NoSpurious, ConvertSucceeds PROVE Spec => []Answers
<1>1. SnapshotInit => Answers
  BY InitAnswers DEF SnapshotInit
<1> QED
  BY <1>1, NoSpurious, ConvertSucceeds, NextAnswers, AlwaysDelivers, PTL DEF Spec

\* Every block that reaches a client is of the one complete image written for
\* its connection, and web closes no connection before the last of them.
THEOREM RepliesAreFresh ==
  ASSUME NoSpurious, WritesSucceed PROVE Spec => []FreshReply
<1>1. ConvertSucceeds /\ (Answers => FreshReply)
  BY WritesSucceed DEF WritesSucceed, Answers
<1> QED
  BY <1>1, NoSpurious, AlwaysAnswers, PTL

-----------------------------------------------------------------------------
(***************************************************************************)
(* ak_snapshot implements SnapshotService when waits end by a signal and   *)
(* YUVToBMP opens its file: a torn one counts as an answer without one.    *)
(***************************************************************************)
ServiceStep == [Service!Next]_(Service!serviceVars)

\* The initial states are the service's.
LEMMA InitServes == SnapshotInit => Service!Init
BY NoAnswer DEF SnapshotInit, Init, Service!Init, Phase,
                Waiting, Blocked, Sending

\* A step of the capture thread takes an image or is a stutter.
LEMMA CapServes == ShakeInv /\ Delivery /\ CapThread => ServiceStep
<1> SUFFICES ASSUME ShakeInv, Delivery, CapThread PROVE ServiceStep
  OBVIOUS
<1> USE DEF ShakeInv, BaseInv, CameraInv, CameraTypes, Handshake,
            AwaitsSignal, ServerStarted, CapMoves, CapRuns, accVars, procVars, ServiceStep,
            Service!serviceVars, Service!answer, Service!Next, Phase, Waiting,
            Blocked, Sending, Taken
<1>0. UNCHANGED <<Answered, Complete>>
  BY SameAnswer, CapStepKeeps DEF CapThread, CloseVi, SignalReady, StopServer
<1>1. CASE CountImage
  BY <1>0, <1>1 DEF CountImage, Delivery, Service!Take
<1>2. CASE ClearCapture
  BY <1>0, <1>2 DEF ClearCapture, CaptureAfterImage
<1>3. CASE GetFault \/ MainReturns
  BY <1>0, <1>3 DEF GetFault, MainReturns, Crash, capVars, Service!Stop
<1>4. CASE StartServer
  BY <1>0, <1>4 DEF StartServer
<1>5. CASE CaptureInit \/ LoopTest \/ GetFrame \/ GetNothing \/ CheckCapture
           \/ OpenImage
  BY <1>0, <1>5 DEF CaptureInit, LoopTest, GetFrame, GetNothing, CheckCapture,
                    OpenImage, AfterNoFrame, AfterCheck, Wanted
<1>6. CASE ConvertFails \/ FillImage \/ ShortWrite \/ ReleaseFrame
           \/ CaptureOff \/ CloseVi("stopServer")
  BY <1>0, <1>6 DEF ConvertFails, FillImage, ShortWrite, ReleaseFrame,
                    CaptureOff, CloseVi
<1>7. CASE SignalReady \/ StopServer
  BY <1>0, <1>7 DEF SignalReady, StopServer
<1> QED
  BY <1>1, <1>2, <1>3, <1>4, <1>5, <1>6, <1>7 DEF CapThread, CapStep

\* A step of the server thread asks, answers or is a stutter.
LEMMA AccServes == ShakeInv /\ Delivery /\ Answers /\ AccThread => ServiceStep
<1> SUFFICES ASSUME ShakeInv, Delivery, Answers, AccThread PROVE ServiceStep
  OBVIOUS
<1> USE DEF ShakeInv, BaseInv, CameraInv, Handshake, AwaitsSignal, AccMoves,
            AccRuns, capVars, procVars, ServiceStep, Service!serviceVars, Service!answer,
            Service!Next, Phase, Waiting, Blocked, Sending, Taken
<1>0. UNCHANGED sent => UNCHANGED <<Answered, Complete>>
  BY SameAnswer
<1>1. CASE Accept
  <2>1. Answered' = 0 /\ Complete' = FALSE
    BY <1>1, NoAnswer DEF Accept, Answered, Complete
  <2> QED
    BY <1>1, <2>1 DEF Accept, Service!Greet
<1>2. CASE Parse
  BY <1>0, <1>2 DEF Parse, Crash, Service!Ask
<1>3. CASE OpenFile \/ SendHeader \/ CloseConnection
  BY <1>0, <1>3 DEF OpenFile, SendHeader, CloseConnection
<1>4. CASE SendBlock
  <2>1. /\ Complete = FALSE
        /\ want = "bmp" => Answered' = img.no
        /\ want # "bmp" \/ img.no = 0 => UNCHANGED <<Answered, Complete>>
    BY <1>4, BlockAnswers DEF Answers
  <2>2. /\ acc = "body" /\ UNCHANGED <<acc, proc, want, cap, capture, count>>
    BY <1>4 DEF SendBlock
  <2>3. CASE want # "bmp" \/ img.no = 0
    BY <2>1, <2>2, <2>3
  <2>4. CASE want = "bmp" /\ Answered' = count
    <3>1. Complete' \in BOOLEAN
      BY CompleteOrNot DEF Complete, Answered
    <3>2. CASE proc = "up"
      BY <2>1, <2>2, <2>4, <3>1, <3>2 DEF Service!Send
    <3> QED
      BY <1>4, <3>2 DEF SendBlock
  <2> QED
    BY <2>1, <2>2, <2>3, <2>4 DEF Delivery, Mine
<1>5. CASE EndOfFile
  <2>1. want = "bmp" => Complete = TRUE \/ Answered = 0
    BY <1>5, EndAnswers DEF EndOfFile, Answers, Delivery, Mine
  <2> QED
    BY <1>0, <1>5, <2>1 DEF EndOfFile, Service!Finish
<1>6. CASE BrokenPipe
  BY <1>0, <1>6 DEF BrokenPipe, Crash, accVars, Service!Stop
<1>7. CASE InitReady \/ RaiseCapture \/ LockMutex \/ BeginWait
  BY <1>0, <1>7 DEF InitReady, RaiseCapture, LockMutex, BeginWait
<1>8. CASE EndWait \/ UnlockMutex
  BY <1>0, <1>8 DEF EndWait, EndWaitReady, UnlockMutex
<1> QED
  BY <1>1, <1>2, <1>3, <1>4, <1>5, <1>6, <1>7, <1>8 DEF AccThread, AccStep

\* Clients and signals stutter.
LEMMA EnvServes == EnvStep => ServiceStep
<1> SUFFICES ASSUME EnvStep PROVE ServiceStep
  OBVIOUS
<1>1. UNCHANGED <<Answered, Complete>>
  BY SameAnswer, EnvStepKeeps DEF accVars
<1> QED
  BY <1>1 DEF EnvStep, Connect, ClientActs, Leave, Interrupt, HandlerExits,
       capVars, accVars, procVars, netVars, ServiceStep, Service!serviceVars,
       Service!answer, Service!Next, Service!Stop, Phase, Waiting, Blocked, Sending,
       Taken

\* A new process is a new start of the service.
LEMMA RestartServes == Restart => ServiceStep
<1> SUFFICES ASSUME Restart PROVE ServiceStep
  OBVIOUS
<1>1. Answered' = 0 /\ Complete' = FALSE
  BY DEF Restart, Answered, Complete
<1> QED
  BY <1>1 DEF Restart, ServiceStep, Service!serviceVars, Service!Next,
              Service!Restart, Phase, Waiting, Blocked, Sending

\* Every step is a step of the service.
LEMMA NextServes ==
  ASSUME NoSpurious
  PROVE  ShakeInv /\ Delivery /\ Answers /\ [Next]_allVars => ServiceStep
<1>1. UNCHANGED allVars => ServiceStep
  BY SameAnswer
     DEF allVars, vars, capVars, accVars, procVars, ServiceStep,
         Service!serviceVars, Phase, Waiting, Blocked, Sending, Taken
<1>2. ~SpuriousWakeup
  BY NoSpurious DEF NoSpurious, SpuriousWakeup
<1> QED
  BY <1>1, <1>2, CapServes, AccServes, EnvServes, RestartServes DEF Next

\* At most one new image per snapshot request, and no other image in its
\* answer, which has the whole of it unless the program ends first.
THEOREM ImplementsService ==
  ASSUME NoSpurious, ConvertSucceeds PROVE Spec => ServiceSpec
BY NoSpurious, ConvertSucceeds, InitServes, NextServes, AlwaysDelivers,
   AlwaysAnswers, PTL DEF Spec, ServiceSpec, Service!Spec, ServiceStep
=============================================================================
