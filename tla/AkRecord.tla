------------------------------- MODULE AkRecord -------------------------------
(***************************************************************************)
(* ak_record: CameraHttp, with a server thread that polls the flag ready.  *)
(***************************************************************************)
EXTENDS CameraHttp

VARIABLE ready   \* snapshot_ref.ready, a uint8_t here

allVars == <<vars, ready>>

\* Slips, as in CameraHttp.
ReadyNotLowered == ready
PollHasty       == TRUE
ReadyForgotten  == ready

-----------------------------------------------------------------------------
\* snapshot_ref.ready before the capture is asked for
ReadyAtRequest == FALSE

LowerReady ==
  /\ AccMoves("arm", "raise")
  /\ ready' = ReadyAtRequest
  /\ UNCHANGED <<hit, want, opened, reply, sent, fds, capVars, capture,
                 procVars, netVars>>

RaiseCapture ==
  /\ AccMoves("raise", "poll")
  /\ capture' = TRUE
  /\ UNCHANGED <<ready, hit, want, opened, reply, sent, fds, capVars, procVars,
                 netVars>>

\* while(!snapshot_http->ready)
PollDone == ready

Poll ==
  /\ AccMoves("poll", "open")
  /\ PollDone
  /\ UNCHANGED <<ready, hit, want, opened, reply, sent, fds, capVars, capture,
                 procVars, netVars>>

\* snapshot_ref.ready once the image is written
ReadyAfterImage == TRUE

RaiseReady ==
  /\ CapMoves("announce", "release")
  /\ ready' = ReadyAfterImage
  /\ UNCHANGED <<vi, frame, count, img, capture, accVars, procVars, netVars>>

CapThread == ((CapStep \/ CloseVi("return")) /\ UNCHANGED ready) \/ RaiseReady
AccThread == (AccStep /\ UNCHANGED ready) \/ LowerReady \/ RaiseCapture \/ Poll

RecordInit == Init /\ ready = FALSE

Next ==
  \/ CapThread
  \/ AccThread
  \/ EnvStep /\ UNCHANGED ready
  \/ Restart /\ ready' = FALSE

\* The scheduler runs both threads, the sensor keeps delivering frames, and
\* usleep(200) in the handler ends.  Clients, signals, faults and whoever
\* restarts the program owe nothing.
Fairness ==
  /\ WF_allVars(CapThread) /\ SF_allVars(GetFrame /\ UNCHANGED ready)
  /\ WF_allVars(AccThread)
  /\ WF_allVars(HandlerExits /\ UNCHANGED ready)

Spec     == RecordInit /\ [][Next]_allVars
FairSpec == Spec /\ Fairness

-----------------------------------------------------------------------------
\* Every variable keeps its C type, every thread is at one of its statements,
\* and the bounded resources stay within their bounds.
TypeOK ==
  /\ proc \in {"up", "exited", "crashed"} /\ runs \in 1..MaxRuns
  /\ stop \in BOOLEAN /\ handler \in {"none", "cap", "acc"}
  /\ cap \in {"init", "server", "test", "get", "debug", "write", "fill",
              "count", "clear", "announce", "release", "off", "close",
              "return"}
  /\ vi \in {"null", "on", "off", "closed"}
  /\ frame \in Int /\ capture \in BOOLEAN /\ count \in Nat /\ img \in Image
  /\ acc \in {"none", "accept", "parse", "arm", "raise", "poll", "open",
              "header", "body", "drain"}
  /\ listening \in BOOLEAN /\ reqs \in Seq(Requests) /\ hit \in 0..Len(reqs)
  /\ want \in {"none", "bmp", "other"} /\ opened \in BOOLEAN
  /\ gone \in BOOLEAN /\ idle \in BOOLEAN
  /\ reply \in Seq({200, 403, 404})
  /\ sent \in Seq(Image) /\ Len(sent) <= Blocks
  /\ fds \in 0..MaxFds /\ ready \in BOOLEAN

\* The server thread never has preview.bmp open to send while the capture
\* thread is between creating it and closing it: the flags keep web's read
\* loop and YUVToBMP apart whatever fails, restarts included.
NoConcurrentWrite ==
  acc \in {"header", "body"} /\ want = "bmp" => cap \notin {"write", "fill"}

\* An image is made from a frame the camera delivered after the image before
\* it was counted: no frame is saved twice, and none when get_frame failed.
EveryImageANewFrame ==
  img.for # 0 => img.no > 0 /\ img.grab = img.no - 1

\* The camera is asked for a frame only through a handle that capture_init
\* opened and switched on, and both that and switching it off come after the
\* last frame was given back.
FrameDiscipline ==
  /\ proc = "up" /\ cap = "get" => vi = "on"
  /\ cap \in {"get", "off", "close", "return"} => frame = NoFrame

\* snapshot_ref.count goes up only while a client waits for an image, and by
\* one for that client.
CountsOnlyWanted ==
  [][count' = count + 1 => acc = "poll" /\ acc' = "poll" /\ capture]_allVars

\* Every connection is served to the end, in the order of arrival, unless
\* the program is told to stop or dies.  This is for clients that send
\* a request and read the answer: one that does not, sooner or later, keeps
\* the only server thread for ever.
Served ==
  []<>(~idle) =>
    \A i \in 1..MaxHits :
      Len(reqs) >= i ~> hit > i \/ (hit = i /\ acc = "accept")
                        \/ stop \/ proc # "up"

-----------------------------------------------------------------------------
\* Where the request in service is, as SnapshotService sees it.
Waiting == acc \in {"arm", "raise", "poll"}
Taken   == acc = "poll" /\ (cap = "clear" \/ ~capture)
Sending == acc \in {"open", "header", "body"}
Phase ==
  IF proc # "up" \/ want # "bmp" \/ ~(Waiting \/ Sending) THEN "idle"
  ELSE IF Taken \/ Sending THEN "taken" ELSE "asked"

Service == INSTANCE SnapshotService
           WITH phase <- Phase, images <- count, sent <- Answered,
                complete <- Complete

\* ak_record implements the snapshot service.
ServiceSpec == Service!Spec
=============================================================================
