--------------------------- MODULE CameraHttpProofs ---------------------------
(***************************************************************************)
(* What the statements ak_snapshot and ak_record share keep, whatever the  *)
(* two programs add: the types, the descriptor of a connection, and the    *)
(* order of frames and images.  AkSnapshotProofs and AkRecordProofs build  *)
(* their invariants on these lemmas.                                       *)
(***************************************************************************)
EXTENDS CameraHttp, TLAPS

\* The types of every variable but the two program counters.
CameraTypes ==
  /\ proc \in {"up", "exited", "crashed"} /\ runs \in 1..MaxRuns
  /\ stop \in BOOLEAN /\ handler \in {"none", "cap", "acc"}
  /\ vi \in {"null", "on", "off", "closed"}
  /\ frame \in Int /\ capture \in BOOLEAN /\ count \in Nat /\ img \in Image
  /\ listening \in BOOLEAN /\ reqs \in Seq(Requests) /\ hit \in 0..Len(reqs)
  /\ want \in {"none", "bmp", "other"} /\ opened \in BOOLEAN
  /\ gone \in BOOLEAN /\ idle \in BOOLEAN
  /\ reply \in Seq({200, 403, 404})
  /\ sent \in Seq(Image) /\ Len(sent) <= Blocks
  /\ fds \in 0..MaxFds

\* A connection in service holds a descriptor.
ConnectionOpen == acc \notin {"none", "accept"} => fds >= 1

\* No server thread before start_server.
ServerStarted == cap \in {"init", "server"} => acc = "none"

\* What the steps of all three parties rest on.
CameraInv == CameraTypes /\ ConnectionOpen /\ ServerStarted

USE DEF NoImage, NoFrame

-----------------------------------------------------------------------------
(***************************************************************************)
(* Who writes what.                                                        *)
(***************************************************************************)
\* The capture thread leaves the connection alone; it starts the server.
LEMMA CapStepKeeps ==
  CapStep => /\ UNCHANGED <<hit, want, opened, reply, sent, fds, reqs, gone,
                            idle>>
             /\ acc' # acc => cap = "server" /\ cap' = "test" /\ acc' = "accept"
BY DEF CapStep, CaptureInit, StartServer, LoopTest, GetFrame, GetNothing,
       GetFault, CheckCapture, OpenImage, ConvertFails, FillImage, ShortWrite,
       CountImage, ClearCapture, ReleaseFrame, CaptureOff, MainReturns,
       CapMoves, Crash, accVars, netVars

\* The server thread leaves the camera and the image alone.
LEMMA AccStepKeeps ==
  AccStep => /\ UNCHANGED <<capVars, capture, runs, stop, handler>>
             /\ UNCHANGED <<listening, reqs>>
BY DEF AccStep, Accept, Parse, OpenFile, SendHeader, SendBlock, EndOfFile,
       CloseConnection, BrokenPipe, procVars, netVars

\* Clients and signals leave both alone.
LEMMA EnvStepKeeps == EnvStep => UNCHANGED <<capVars, capture, accVars, runs>>
BY DEF EnvStep, Connect, ClientActs, Leave, Interrupt, HandlerExits, procVars

-----------------------------------------------------------------------------
(***************************************************************************)
(* Types.                                                                  *)
(***************************************************************************)
\* A program starts well typed.
LEMMA InitTyped == Init => CameraInv
<1> SUFFICES ASSUME Init PROVE CameraInv
  OBVIOUS
<1>1. stop \in BOOLEAN /\ capture \in BOOLEAN /\ listening \in BOOLEAN
      /\ opened \in BOOLEAN /\ gone \in BOOLEAN /\ idle \in BOOLEAN
  BY Zenon DEF Init
<1>2. img \in Image
  BY DEF Init, Image
<1>3. sent \in Seq(Image) /\ Len(sent) <= Blocks
  BY ConstantsAssumption DEF Init, ConstantsAssumption
<1> QED
  BY <1>1, <1>2, <1>3, ConstantsAssumption
     DEF Init, ConstantsAssumption, CameraInv, CameraTypes, ConnectionOpen,
         ServerStarted

\* So does the next one.
LEMMA RestartTyped == CameraInv /\ Restart => CameraInv'
<1> SUFFICES ASSUME CameraInv, Restart PROVE CameraInv'
  OBVIOUS
<1> USE DEF Restart
<1>1. stop' \in BOOLEAN /\ capture' \in BOOLEAN /\ listening' \in BOOLEAN
      /\ opened' \in BOOLEAN /\ gone' \in BOOLEAN /\ idle' \in BOOLEAN
  BY Zenon
<1>2. img' \in Image
  <2>1. img \in Image
    BY DEF CameraInv, CameraTypes
  <2> QED
    BY <2>1 DEF Image
<1> QED
  BY <1>1, <1>2, ConstantsAssumption
     DEF ConstantsAssumption, CameraInv, CameraTypes, ConnectionOpen,
         ServerStarted

\* What opening the file leaves of it.
LEMMA TornImage == [NoImage EXCEPT !.state = "torn"] \in Image
BY DEF Image

\* The capture thread's steps keep the types.
LEMMA CapTypes == CameraTypes /\ CapStep => CameraTypes'
<1> SUFFICES ASSUME CameraTypes, CapStep PROVE CameraTypes'
  OBVIOUS
<1> USE DEF CameraTypes, CapMoves, procVars, accVars, netVars
<1>1. CASE CaptureInit
  <2>1. vi' \in {"null", "on", "off", "closed"}
    BY <1>1 DEF CaptureInit
  <2> QED
    BY <1>1, <2>1 DEF CaptureInit
<1>2. CASE StartServer
  <2>1. listening' \in BOOLEAN
    BY <1>2, Zenon DEF StartServer
  <2> QED
    BY <1>2, <2>1 DEF StartServer
<1>3. CASE LoopTest \/ GetFrame \/ GetNothing \/ CheckCapture \/ ConvertFails
           \/ ShortWrite \/ ReleaseFrame
  BY <1>3 DEF LoopTest, GetFrame, GetNothing, CheckCapture, ConvertFails,
              ShortWrite, ReleaseFrame
<1>4. CASE GetFault \/ MainReturns
  BY <1>4 DEF GetFault, MainReturns, Crash, capVars
<1>5. CASE OpenImage
  <2>1. img' \in Image
    BY <1>5, TornImage DEF OpenImage
  <2> QED
    BY <1>5, <2>1 DEF OpenImage
<1>6. CASE FillImage
  <2>1. frame \in Int /\ count \in Nat /\ hit \in Nat
    OBVIOUS
  <2>2. img' \in Image
    BY <1>6, <2>1 DEF FillImage, Image
  <2> QED
    BY <1>6, <2>2 DEF FillImage
<1>7. CASE CountImage
  BY <1>7 DEF CountImage
<1>8. CASE ClearCapture
  <2>1. capture' \in BOOLEAN
    BY <1>8, Zenon DEF ClearCapture, CaptureAfterImage
  <2> QED
    BY <1>8, <2>1 DEF ClearCapture
<1>9. CASE CaptureOff
  BY <1>9 DEF CaptureOff
<1> QED
  BY <1>1, <1>2, <1>3, <1>4, <1>5, <1>6, <1>7, <1>8, <1>9 DEF CapStep

\* With the descriptor and the start of the server.
LEMMA CapTyped == CameraInv /\ CapStep => CameraInv'
<1>1. CameraInv /\ CapStep => (ConnectionOpen /\ ServerStarted)'
  BY DEF CameraInv, CameraTypes, ConnectionOpen, ServerStarted, CapStep,
         CaptureInit, StartServer, LoopTest, GetFrame, GetNothing, GetFault,
         CheckCapture, OpenImage, ConvertFails, FillImage, ShortWrite,
         CountImage, ClearCapture, ReleaseFrame, CaptureOff, MainReturns,
         CapMoves, Crash, capVars, accVars, AfterNoFrame, AfterCheck
<1> QED
  BY <1>1, CapTypes DEF CameraInv

\* Closing the camera, after which the two programs go different ways.
LEMMA CloseViTyped ==
  ASSUME CameraInv, NEW next \in {"stopServer", "return"}, CloseVi(next)
  PROVE  CameraInv'
BY DEF CameraInv, CameraTypes, Image, ConnectionOpen, ServerStarted, CloseVi,
       CapMoves, procVars, accVars, netVars

\* One page.
LEMMA OnePage == <<403>> \in Seq({200, 403, 404})
BY <<403>> = Append(<<>>, 403)

\* Two pages.
LEMMA TwoPages == <<403, 403>> \in Seq({200, 403, 404})
BY OnePage, <<403, 403>> = Append(<<403>>, 403)

\* The pages of a refusal.
LEMMA RefusalPages ==
  ASSUME NEW kind PROVE Refusals(kind) \in Seq({200, 403, 404})
<1>1. CASE kind = "closed"
  BY <1>1, TwoPages DEF Refusals
<1>2. CASE kind = "refused"
  BY <1>2, OnePage DEF Refusals
<1>3. CASE kind # "closed" /\ kind # "refused"
  <2>1. <<>> \in Seq({200, 403, 404})
    OBVIOUS
  <2> QED
    BY <1>3, <2>1 DEF Refusals
<1> QED
  BY <1>1, <1>2, <1>3

\* What Parse makes of a request.
LEMMA ParseTyped == CameraTypes /\ Parse => CameraTypes'
<1> SUFFICES ASSUME CameraTypes, Parse PROVE CameraTypes'
  OBVIOUS
<1>1. PICK ext \in Extensions(Kind) :
        /\ reply' = reply \o Refusals(Kind)
                          \o (IF ext = "none" THEN <<403>> ELSE <<>>)
        /\ want' = ext
        /\ \/ ext = "none"  /\ Crash /\ acc' = acc
           \/ ext = "bmp"   /\ acc' = "arm"  /\ proc' = proc
           \/ ext = "other" /\ acc' = "open" /\ proc' = proc
  BY DEF Parse
<1>2. (IF ext = "none" THEN <<403>> ELSE <<>>) \in Seq({200, 403, 404})
  <2>1. CASE ext = "none"
    BY <2>1, OnePage
  <2>2. CASE ext # "none"
    BY <2>2
  <2> QED
    BY <2>1, <2>2
<1>3. reply' \in Seq({200, 403, 404})
  BY <1>1, <1>2, RefusalPages DEF CameraTypes
<1>4. want' \in {"none", "bmp", "other"}
  BY <1>1 DEF Extensions
<1> QED
  BY <1>1, <1>3, <1>4 DEF CameraTypes, Parse, Crash, Image, capVars, netVars

\* The server thread's steps keep the types.
LEMMA AccTypes == CameraTypes /\ ConnectionOpen /\ AccStep => CameraTypes'
<1> SUFFICES ASSUME CameraTypes, ConnectionOpen, AccStep PROVE CameraTypes'
  OBVIOUS
<1> USE DEF CameraTypes, Image, AccMoves, procVars, capVars, netVars
<1>1. CASE Accept
  <2>1. gone' \in BOOLEAN /\ idle' \in BOOLEAN
    BY <1>1, Zenon DEF Accept
  <2> QED
    BY <1>1, <2>1, ConstantsAssumption DEF Accept, Pending, ConstantsAssumption
<1>2. CASE Parse
  BY <1>2, ParseTyped
<1>3. CASE OpenFile
  <2>1. opened' \in BOOLEAN /\ (opened' => fds < MaxFds)
    BY <1>3 DEF OpenFile, CanOpen
  <2>2. fds' \in 0..MaxFds
    BY <1>3, <2>1, ConstantsAssumption DEF OpenFile, ConstantsAssumption
  <2>3. reply' \in Seq({200, 403, 404})
    BY <1>3 DEF OpenFile
  <2> QED
    BY <1>3, <2>1, <2>2, <2>3 DEF OpenFile
<1>4. CASE SendHeader
  BY <1>4 DEF SendHeader
<1>5. CASE SendBlock
  <2>1. idle' \in BOOLEAN
    BY <1>5, Zenon DEF SendBlock
  <2>2. Block \in Image
    BY DEF Block
  <2>3. sent' \in Seq(Image) /\ Len(sent') = Len(sent) + 1
    BY <1>5, <2>2 DEF SendBlock
  <2>4. Len(sent') <= Blocks
    BY <1>5, <2>3, ConstantsAssumption DEF SendBlock, ConstantsAssumption
  <2> QED
    BY <1>5, <2>1, <2>3, <2>4 DEF SendBlock
<1>6. CASE EndOfFile
  BY <1>6 DEF EndOfFile
<1>7. CASE CloseConnection
  <2>1. idle' \in BOOLEAN
    BY <1>7, Zenon DEF CloseConnection
  <2> QED
    BY <1>7, <2>1, ConstantsAssumption
       DEF CloseConnection, Released, ConnectionOpen, ConstantsAssumption
<1>8. CASE BrokenPipe
  BY <1>8 DEF BrokenPipe, Crash, accVars
<1> QED
  BY <1>1, <1>2, <1>3, <1>4, <1>5, <1>6, <1>7, <1>8 DEF AccStep

\* With the descriptor and the start of the server.
LEMMA AccTyped == CameraInv /\ AccStep => CameraInv'
<1>1. CameraInv /\ AccStep => (ConnectionOpen /\ ServerStarted)'
  BY DEF CameraInv, CameraTypes, ConnectionOpen, ServerStarted, AccStep,
         Accept, Parse, OpenFile, SendHeader, SendBlock, EndOfFile,
         CloseConnection, BrokenPipe, AccMoves, Crash, capVars, accVars, Released
<1> QED
  BY <1>1, AccTypes DEF CameraInv

\* Clients and signals keep the types.
LEMMA EnvTyped == CameraInv /\ EnvStep => CameraInv'
<1> SUFFICES ASSUME CameraInv, EnvStep PROVE CameraInv'
  OBVIOUS
<1> USE DEF CameraInv, CameraTypes, Image, ConnectionOpen, ServerStarted,
            procVars, capVars, accVars, netVars
<1>1. ASSUME NEW kind \in Requests, Connect(kind) PROVE CameraInv'
  BY <1>1 DEF Connect
<1>2. CASE Leave
  BY <1>2 DEF Leave
<1>3. CASE ClientActs
  <2>1. idle' \in BOOLEAN
    BY <1>3, Zenon DEF ClientActs
  <2> QED
    BY <1>3, <2>1 DEF ClientActs
<1>4. ASSUME NEW thread \in {"cap", "acc"}, Interrupt(thread) PROVE CameraInv'
  BY <1>4 DEF Interrupt
<1>5. CASE HandlerExits
  BY <1>5 DEF HandlerExits
<1> QED
  BY <1>1, <1>2, <1>3, <1>4, <1>5 DEF EnvStep

\* So does a step that changes nothing.
LEMMA StutterTyped == CameraInv /\ UNCHANGED vars => CameraInv'
BY DEF CameraInv, CameraTypes, Image, ConnectionOpen, ServerStarted, vars,
       procVars, capVars, accVars, netVars

-----------------------------------------------------------------------------
(***************************************************************************)
(* Frames.  A held frame was fetched when as many images were taken as     *)
(* now, until its own image is counted; a saved image is the one after     *)
(* that many.                                                              *)
(***************************************************************************)
Frames ==
  /\ cap \in {"debug", "write", "fill"} => frame = count
  /\ cap \in {"init", "server", "test", "get", "off", "close", "stopServer",
              "return"} => frame = NoFrame
  /\ img.for # 0 => img.no > 0 /\ img.grab = img.no - 1

\* No frame is held at first.
LEMMA InitFrames == Init => Frames
BY DEF Init, Frames

\* The capture thread takes a frame before it counts an image.
LEMMA CapFrames == CameraTypes /\ Frames /\ CapStep => Frames'
BY DEF CameraTypes, Image, Frames, CapStep, CaptureInit, StartServer, LoopTest,
       GetFrame, GetNothing, GetFault, CheckCapture, OpenImage, ConvertFails,
       FillImage, ShortWrite, CountImage, ClearCapture, ReleaseFrame,
       CaptureOff, MainReturns, CapMoves, Crash, capVars, AfterNoFrame,
       AfterCheck

\* It closes the camera without one.
LEMMA CloseViFrames ==
  ASSUME Frames, NEW next \in {"stopServer", "return"}, CloseVi(next)
  PROVE  Frames'
BY DEF Frames, CloseVi, CapMoves

\* A step that leaves the capture thread alone leaves the frames alone.
LEMMA OtherFrames == Frames /\ UNCHANGED capVars => Frames'
BY DEF Frames, capVars

\* A new process holds no frame.
LEMMA RestartFrames == Frames /\ Restart => Frames'
BY DEF Frames, Restart

-----------------------------------------------------------------------------
(***************************************************************************)
(* The answer.  Every block sent so far is of the file as it is now, until *)
(* web is done with it.                                                    *)
(***************************************************************************)
\* Nothing is sent yet.
BeforeBody == acc \notin {"none", "accept", "body", "drain"}

Body ==
  /\ acc = "none" => want = "none"
  /\ BeforeBody => sent = <<>>
  /\ acc = "body" => /\ opened \/ sent = <<>>
                     /\ \A b \in 1..Len(sent) : sent[b] = Block

Answers == Body /\ ("short" \notin Faults => FreshReply)

\* The file that is being sent is the image of this connection.
OwnImage ==
  acc = "body" /\ want = "bmp" /\ "short" \notin Faults =>
    img.state = "whole" /\ img.for = hit

\* Nobody was answered at first.
LEMMA InitAnswers == Init => Answers
BY DEF Init, Answers, Body, BeforeBody, FreshReply

\* Nor was anybody by a new process.
LEMMA RestartAnswers == Restart => Answers'
BY DEF Restart, Answers, Body, BeforeBody, FreshReply

\* A step that leaves the connection, and a file that is being sent, alone.
LEMMA OtherAnswers ==
  ASSUME Answers, UNCHANGED <<hit, want, opened, sent>>,
         \/ acc' = acc
         \/ acc = "none" /\ acc' = "accept"
         \/ BeforeBody /\ BeforeBody',
         acc = "body" /\ want = "bmp" => UNCHANGED img
  PROVE  Answers'
<1>1. Body'
  BY DEF Answers, Body, BeforeBody, Block
<1>2. "short" \notin Faults => FreshReply'
  BY DEF Answers, Body, BeforeBody, FreshReply
<1> QED
  BY <1>1, <1>2 DEF Answers

\* The capture thread does not touch an image that is being sent.
LEMMA CapAnswers ==
  ASSUME ServerStarted, Answers, CapStep,
         acc = "body" /\ want = "bmp" => cap \notin {"write", "fill"}
  PROVE  Answers'
<1>1. cap \notin {"write", "fill"} => UNCHANGED img
  BY DEF CapStep, CaptureInit, StartServer, LoopTest, GetFrame, GetNothing,
         GetFault, CheckCapture, OpenImage, ConvertFails, FillImage,
         ShortWrite, CountImage, ClearCapture, ReleaseFrame, CaptureOff,
         MainReturns, CapMoves, capVars
<1>2. acc' = acc \/ (acc = "none" /\ acc' = "accept")
  BY DEF CapStep, CaptureInit, StartServer, LoopTest, GetFrame, GetNothing,
         GetFault, CheckCapture, OpenImage, ConvertFails, FillImage,
         ShortWrite, CountImage, ClearCapture, ReleaseFrame, CaptureOff,
         MainReturns, CapMoves, accVars, ServerStarted
<1> QED
  BY <1>1, <1>2, CapStepKeeps, OtherAnswers

\* The server thread sends its own image from the first block to the last.
LEMMA AccAnswers ==
  ASSUME CameraTypes, Answers, OwnImage, AccStep
  PROVE  Answers'
<1> USE DEF Answers, Body, BeforeBody, AccMoves
<1>1. CASE Accept
  BY <1>1 DEF Accept, FreshReply
<1>2. CASE Parse
  <2>1. sent = <<>> /\ sent' = <<>> /\ acc = "parse"
    BY <1>2 DEF Parse
  <2>2. acc' \in {"parse", "arm", "open"}
    BY <1>2, <2>1 DEF Parse
  <2> QED
    BY <2>1, <2>2 DEF FreshReply
<1>3. CASE OpenFile \/ SendHeader
  <2>1. sent = <<>> /\ sent' = <<>> /\ acc' \in {"header", "body"}
    BY <1>3 DEF OpenFile, SendHeader
  <2> QED
    BY <2>1 DEF FreshReply
<1>4. CASE SendBlock
  <2>1. /\ acc = "body" /\ acc' = "body" /\ opened /\ opened' = opened
        /\ want' = want /\ hit' = hit /\ img' = img
        /\ sent' = Append(sent, Block)
    BY <1>4 DEF SendBlock, capVars
  <2>2. Block' = Block
    BY <2>1 DEF Block
  <2>3. Len(sent') = Len(sent) + 1 /\ Len(sent) \in Nat
    BY <2>1 DEF CameraTypes
  <2>4. \A b \in 1..Len(sent') : sent'[b] = Block
    <3>1. \A b \in 1..Len(sent) : sent[b] = Block
      BY <2>1
    <3> QED
      BY <2>1, <2>3, <3>1 DEF CameraTypes
  <2>5. "short" \notin Faults => FreshReply'
    <3> SUFFICES ASSUME "short" \notin Faults, want = "bmp",
                        NEW b \in 1..Len(sent')
                 PROVE  /\ sent'[b].state = "whole" /\ sent'[b].for = hit
                        /\ sent'[b] = sent'[1]
      BY <2>1 DEF FreshReply
    <3>1. sent'[b] = img /\ sent'[1] = img
      BY <2>3, <2>4 DEF Block
    <3> QED
      BY <2>1, <3>1 DEF OwnImage
  <2> QED
    BY <2>1, <2>2, <2>4, <2>5
<1>5. CASE EndOfFile
  BY <1>5 DEF EndOfFile, AtEnd, OwnImage, FreshReply
<1>6. CASE CloseConnection
  BY <1>6 DEF CloseConnection, FreshReply
<1>7. CASE BrokenPipe
  BY <1>7, OtherAnswers DEF BrokenPipe, accVars, capVars
<1> QED
  BY <1>1, <1>2, <1>3, <1>4, <1>5, <1>6, <1>7 DEF AccStep

\* Clients and signals change no answer.
LEMMA EnvAnswers == ASSUME Answers, EnvStep PROVE Answers'
BY EnvStepKeeps, OtherAnswers DEF accVars, capVars

\* So does a step that changes nothing.
LEMMA StutterAnswers == ASSUME Answers, UNCHANGED <<capVars, accVars>> PROVE Answers'
BY OtherAnswers DEF accVars, capVars

-----------------------------------------------------------------------------
(***************************************************************************)
(* The answer as SnapshotService sees it.                                  *)
(***************************************************************************)
\* It changes with what is sent.
LEMMA SameAnswer == UNCHANGED sent => UNCHANGED <<Answered, Complete>>
BY DEF Answered, Complete

\* It is empty before the first block.
LEMMA NoAnswer == sent = <<>> => Answered = 0 /\ Complete = FALSE
BY DEF Answered, Complete

\* It is a whole image or not.
LEMMA CompleteOrNot == Complete \in BOOLEAN
BY DEF Complete

\* A block carries the image in the file, and is not sent after the last one.
LEMMA BlockAnswers ==
  ASSUME CameraTypes, Body, SendBlock
  PROVE  /\ Complete = FALSE
         /\ want = "bmp" => Answered' = img.no
         /\ want # "bmp" \/ img.no = 0 => UNCHANGED <<Answered, Complete>>
<1>1. /\ acc = "body" /\ opened /\ Len(sent) < Blocks
      /\ sent' = Append(sent, Block)
  BY DEF SendBlock
<1>2. sent' # <<>> /\ sent'[1] = Block
  <2>1. Len(sent) \in Nat /\ \A b \in 1..Len(sent) : sent[b] = Block
    BY <1>1 DEF Body, CameraTypes
  <2>2. CASE sent = <<>>
    BY <1>1, <2>2
  <2>3. CASE sent # <<>>
    <3>1. Len(sent) >= 1
      BY <2>3 DEF CameraTypes
    <3> QED
      BY <1>1, <2>1, <3>1 DEF CameraTypes
  <2> QED
    BY <2>2, <2>3
<1>3. Complete = FALSE
  BY <1>1, ConstantsAssumption DEF Complete, CameraTypes, ConstantsAssumption
<1>4. Answered' = Block.no
  BY <1>2 DEF Answered
<1>5. ASSUME want # "bmp" \/ img.no = 0 PROVE UNCHANGED <<Answered, Complete>>
  <2>1. Answered' = 0
    BY <1>4, <1>5 DEF Block
  <2>2. Answered = 0
    <3>1. CASE sent = <<>>
      BY <3>1 DEF Answered
    <3>2. CASE sent # <<>>
      <4>1. sent[1] = Block
        BY <1>1, <3>2 DEF Body, CameraTypes
      <4> QED
        BY <1>5, <3>2, <4>1 DEF Answered, Block
    <3> QED
      BY <3>1, <3>2
  <2> QED
    BY <1>3, <2>1, <2>2 DEF Complete
<1> QED
  BY <1>3, <1>4, <1>5 DEF Block

\* At the end of the file the image is all out, or there was none.
LEMMA EndAnswers ==
  ASSUME CameraTypes, Body, EndOfFile, want = "bmp",
         img.state = "whole" \/ img.no = 0
  PROVE  Complete = TRUE \/ Answered = 0
<1>1. /\ acc = "body" /\ (opened \/ sent = <<>>)
      /\ \A b \in 1..Len(sent) : sent[b] = img
      /\ opened /\ img.state = "whole" => Len(sent) = Blocks
  BY DEF EndOfFile, AccMoves, Body, Block, AtEnd
<1>2. CASE sent = <<>>
  BY <1>2 DEF Answered
<1>3. CASE sent # <<>> /\ img.state = "whole"
  BY <1>1, <1>3 DEF Complete
<1>4. CASE sent # <<>> /\ img.no = 0
  <2>1. sent[1] = img
    BY <1>1, <1>4 DEF CameraTypes
  <2> QED
    BY <1>4, <2>1 DEF Answered
<1> QED
  BY <1>2, <1>3, <1>4
=============================================================================
