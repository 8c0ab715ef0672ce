------------------------------ MODULE StreamDemo ------------------------------
(***************************************************************************)
(* The two SDK demos that encode video with a thread per stream:           *)
(* ak_venc_demo, which this project adapted, and ak_mt_demo, which also    *)
(* turns the camera after what moves, from a second thread.  main starts   *)
(* the threads and waits until work_nr says that the saver is done.        *)
(*                                                                         *)
(* A frame is FrameLen units, which are saved as <<frame, unit>>.          *)
(***************************************************************************)
EXTENDS Integers, Sequences

CONSTANTS
  Faults,      \* calls that may fail
  Frames,      \* frame_number is at most this
  FrameLen,    \* units of a frame
  MaxShorts    \* bounds the calls of fwrite that write part of their data

\* What a handle is made from, or works on while it is open.  A thread counts
\* as a handle: the saver works on a stream, the tracker moves the camera.
Needs ==
  [ipc |-> {}, vi |-> {}, capture |-> {"vi"}, ptz |-> {}, mt |-> {},
   venc |-> {}, stream |-> {"vi", "venc"}, frame |-> {"stream"},
   fp |-> {}, fw |-> {}, saver |-> {"stream"}, tracker |-> {"vi", "mt", "ptz"}]

Handle == DOMAIN Needs

FaultKinds == (Handle \ {"frame"}) \cup {"dir", "args", "match", "attr",
                                         "stat", "short", "full"}

ASSUME ConstantsAssumption ==
  /\ Faults \subseteq FaultKinds
  /\ Frames \in Nat /\ FrameLen \in Nat \ {0} /\ MaxShorts \in Nat

VARIABLES
  program,     \* which of the two demos this is
  encCount,    \* enc_count
  main,        \* where main is
  saver,       \* where the thread that saves the stream is
  tracker,     \* where mt_ctrl_thread is
  open,        \* the handles and files that are open
  workNr,      \* work_nr
  mainRead, saverRead,   \* work_nr as it was read for ++ and for --
  runFlag,     \* mt_ctrl.run_flag
  left,        \* looptimes
  rest,        \* ret of venc_save_data: units it still wants to write
  saved,       \* the stream file
  spoilt,      \* the file was not opened, or a write was short
  shorts       \* calls of fwrite that were short

params  == <<program, encCount>>
counter == <<workNr, mainRead, saverRead>>
data    == <<left, rest, saved, spoilt, shorts>>
vars    == <<params, main, saver, tracker, open, counter, runFlag, data>>

(***************************************************************************)
(* Slips: plausible mistakes in a definition below; none is used here.     *)
(***************************************************************************)
OneFrameMore      == left >= 0        \* >= in the loop of the saver
OneFrameLess      == left > 1         \* --looptimes > 0
StopForgotten     == "load"           \* no venc_stop_stream
CountForgotten    == saverRead        \* no work_nr--
ViLeftOpen        == open             \* no ak_vi_close after a failed attribute

-----------------------------------------------------------------------------
Runs == main \notin {"return", "crashed", "killed"}

Venc == program = "venc"
Then(venc, mt) == IF Venc THEN venc ELSE mt

Dies(how) == main' = how /\ open' = {}

Goes(from, to) == main = from /\ main' = to

NoThread == UNCHANGED <<params, saver, tracker, counter, runFlag, data>>

\* A call of main that opens h; where it goes when it does and when not.
Open(h, from, to, failed) ==
  /\ \/ Goes(from, to) /\ open' = open \cup {h}
     \/ h \in Faults /\ Goes(from, failed) /\ open' = open
  /\ NoThread

Try(call, from, to, failed) ==
  /\ \/ Goes(from, to)
     \/ call \in Faults /\ Goes(from, failed)
  /\ open' = open /\ NoThread

\* Giving back what was not opened has no effect.
Close(h, from, to) ==
  Goes(from, to) /\ open' = open \ {h} /\ NoThread

(***************************************************************************)
(* main.  ak_venc_demo turns capturing on for the encoder and leaves it on *)
(* when there is no stream; ak_mt_demo turns it on with the camera.        *)
(***************************************************************************)
ViClosed == open \ {"vi"}

InitVi ==
  \/ /\ Venc
     /\ Open("ipc", "ipc", "dir", "dir")
  \/ Try("dir", "dir", Then("args", "match"), "return")
  \/ Try("args", "args", "match", "return")
  \/ Try("match", "match", "vi", "return")
  \/ Open("vi", "vi", "attr", "return")
  \/ Goes("attr", Then("encoder", "capture")) /\ open' = open /\ NoThread
  \/ "attr" \in Faults /\ Goes("attr", "return") /\ open' = ViClosed /\ NoThread

Capture ==
  \/ Venc /\ Open("capture", "capture", "stream", "wait")
  \/ ~Venc /\ Goes("capture", "ptz") /\ open' = open \cup {"capture"} /\ NoThread
  \/ ~Venc /\ "capture" \in Faults /\ Goes("capture", "return")
     /\ open' = ViClosed /\ NoThread

StartStream ==
  \/ Open("venc", "encoder", Then("capture", "stream"), "wait")
  \/ Open("stream", "stream", "create", "wait")

\* The result of ak_thread_create is ignored.
CreateSaver ==
  /\ Goes("create", "load")
  /\ \/ saver' = "open"
     \/ "saver" \in Faults /\ saver' = "none"
  /\ UNCHANGED <<params, tracker, open, counter, runFlag, data>>

\* work_nr++ is a load and a store.
LoadWork ==
  /\ Goes("load", "store")
  /\ mainRead' = workNr
  /\ UNCHANGED <<params, saver, tracker, open, workNr, saverRead, runFlag, data>>

StoreWork ==
  /\ Goes("store", "wait")
  /\ workNr' = mainRead + 1
  /\ UNCHANGED <<params, saver, tracker, open, mainRead, saverRead, runFlag, data>>

Wait ==
  /\ workNr <= 0
  /\ Goes("wait", Then("off", "exitMt"))
  /\ open' = open /\ NoThread

CloseVi ==
  \/ Close("capture", "off", "closeVi")
  \/ Close("vi", "closeVi", Then("unregister", "return"))
  \/ Close("ipc", "unregister", "return")

(***************************************************************************)
(* What only ak_mt_demo does.                                              *)
(***************************************************************************)
MtInit ==
  \/ Open("ptz", "ptz", "mt", "exitMt")
  \/ /\ \/ Goes("mt", "tracker") /\ open' = open \cup {"mt"} /\ runFlag' = TRUE
        \/ "mt" \in Faults /\ Goes("mt", "exitMt") /\ UNCHANGED <<open, runFlag>>
     /\ UNCHANGED <<params, saver, tracker, counter, data>>

\* run_flag stays up when the thread cannot be created.
CreateTracker ==
  /\ \/ Goes("tracker", "encoder") /\ tracker' = "test"
     \/ "tracker" \in Faults /\ Goes("tracker", "exitMt") /\ tracker' = tracker
  /\ UNCHANGED <<params, saver, open, counter, runFlag, data>>

MtExit ==
  \/ /\ Goes("exitMt", IF runFlag THEN "join" ELSE "closePtz")
     /\ runFlag' = FALSE
     /\ UNCHANGED <<params, saver, tracker, open, counter, data>>
  \/ Close("mt", "destroy", "closePtz")
  \/ Close("ptz", "closePtz", "off")

\* The join of a thread that was never created may do anything: it fails at
\* once, or dereferences the identifier nobody set.
JoinTracker ==
  \/ tracker \in {"done", "none"} /\ Goes("join", "destroy") /\ open' = open /\ NoThread
  \/ tracker = "none" /\ main = "join" /\ Dies("crashed") /\ NoThread

MainStep ==
  \/ InitVi \/ Capture \/ StartStream \/ CreateSaver \/ LoadWork \/ StoreWork
  \/ Wait \/ CloseVi \/ MtInit \/ CreateTracker \/ MtExit \/ JoinTracker

(***************************************************************************)
(* venc_save_stream_thread.                                                *)
(***************************************************************************)
Moves(from, to) == Runs /\ saver = from /\ saver' = to

SaverCrashes(from) ==
  /\ Moves(from, from) /\ Dies("crashed")
  /\ UNCHANGED <<params, tracker, counter, runFlag, data>>

OpenFile ==
  /\ Moves("open", Then("get", "openFw"))
  /\ left' = encCount
  /\ \/ open' = open \cup {"fp"} /\ spoilt' = spoilt
     \/ "fp" \in Faults /\ spoilt' = TRUE /\ open' = open
  /\ UNCHANGED <<params, main, tracker, counter, runFlag, rest, saved, shorts>>

\* The file for the statistics, which nobody looks at before it is used.
OpenFw ==
  /\ Moves("openFw", "get")
  /\ \/ open' = open \cup {"fw"}
     \/ "fw" \in Faults /\ open' = open
  /\ UNCHANGED <<params, main, tracker, counter, runFlag, data>>

LoopGoesOn == left > 0
AfterFiles == "join"

GetStream ==
  /\ Moves("get", "write")
  /\ LoopGoesOn
  /\ open' = open \cup {"frame"}
  /\ rest' = FrameLen
  /\ UNCHANGED <<params, main, tracker, counter, runFlag, left, saved, spoilt, shorts>>

\* One fwrite of venc_save_data's loop.  Every one of them starts at the
\* first unit of the frame.
Fwrite(k) ==
  /\ Moves("write", IF k = rest THEN Then("release", "stats") ELSE "write")
  /\ "fp" \in open
  /\ saved' = saved \o [i \in 1..k |-> <<encCount - left + 1, i>>]
  /\ rest' = rest - k
  /\ IF k = rest
       THEN UNCHANGED <<spoilt, shorts>>
       ELSE "short" \in Faults /\ shorts < MaxShorts
            /\ spoilt' = TRUE /\ shorts' = shorts + 1
  /\ UNCHANGED <<params, main, tracker, open, counter, runFlag, left>>

\* A card without room takes nothing, and the loop does not end.
DiskFull ==
  /\ "full" \in Faults /\ "fp" \in open
  /\ Moves("write", "stuck")
  /\ UNCHANGED <<params, main, tracker, open, counter, runFlag, data>>

NoFile ==
  /\ "fp" \notin open
  /\ Moves("write", Then("release", "stats"))
  /\ UNCHANGED <<params, main, tracker, open, counter, runFlag, data>>

WriteStats ==
  \/ /\ "fw" \in open
     /\ Moves("stats", "release")
     /\ UNCHANGED <<params, main, tracker, open, counter, runFlag, data>>
  \/ "fw" \notin open /\ SaverCrashes("stats")

ReleaseStream ==
  /\ Moves("release", "get")
  /\ open' = open \ {"frame"}
  /\ left' = left - 1
  /\ UNCHANGED <<params, main, tracker, counter, runFlag, rest, saved, spoilt, shorts>>

\* Without the first file the second one is not closed either.
CloseFiles ==
  \/ /\ ~LoopGoesOn
     /\ Moves("get", IF "fp" \in open /\ ~Venc THEN "closeFw" ELSE AfterFiles)
     /\ open' = open \ {"fp"}
     /\ UNCHANGED <<params, main, tracker, counter, runFlag, data>>
  \/ /\ "fw" \in open
     /\ Moves("closeFw", AfterFiles)
     /\ open' = open \ {"fw"}
     /\ UNCHANGED <<params, main, tracker, counter, runFlag, data>>
  \/ "fw" \notin open /\ SaverCrashes("closeFw")

\* The thread joins itself, which fails at once.  Its identifier, which
\* ak_thread_create stores for main, is taken to be there by now:
\* venc_stop_stream would leave its stream open if it were still 0.
StopStream ==
  /\ \/ Moves("join", "cancel") /\ open' = open
     \/ Moves("cancel", "closeEnc") /\ open' = open \ {"stream"}
     \/ Moves("closeEnc", "load") /\ open' = open \ {"venc"}
  /\ UNCHANGED <<params, main, tracker, counter, runFlag, data>>

Counted == saverRead - 1

WorkDone ==
  /\ \/ Moves("load", "store") /\ saverRead' = workNr /\ workNr' = workNr
     \/ Moves("store", "done") /\ workNr' = Counted /\ saverRead' = saverRead
  /\ UNCHANGED <<params, main, tracker, open, mainRead, runFlag, data>>

SaverStep ==
  \/ OpenFile \/ OpenFw \/ GetStream \/ DiskFull \/ NoFile
  \/ \E k \in 1..rest : Fwrite(k)
  \/ WriteStats \/ ReleaseStream \/ CloseFiles \/ StopStream \/ WorkDone

(***************************************************************************)
(* mt_ctrl_thread: what moved decides whether the camera turns.            *)
(***************************************************************************)
TrackerStep ==
  /\ Runs
  /\ \/ tracker = "test" /\ tracker' = IF runFlag THEN "look" ELSE "done"
     \/ tracker = "look" /\ tracker' \in {"test", "turn"}
     \/ tracker = "look" /\ "stat" \in Faults /\ tracker' = "done"
     \/ tracker = "turn" /\ tracker' = "test"
  /\ UNCHANGED <<params, main, saver, open, counter, runFlag, data>>

-----------------------------------------------------------------------------
\* The handler of ak_venc_demo exits; ak_mt_demo has none.
Signal == Runs /\ Dies("killed") /\ NoThread

Init ==
  /\ program \in {"venc", "mt"} /\ encCount \in 0..Frames
  /\ main = Then("ipc", "dir") /\ saver = "none" /\ tracker = "none"
  /\ open = {} /\ workNr = 0 /\ mainRead = 0 /\ saverRead = 0 /\ runFlag = FALSE
  /\ left = 0 /\ rest = 0 /\ saved = <<>> /\ spoilt = FALSE /\ shorts = 0

Next == MainStep \/ SaverStep \/ TrackerStep \/ Signal

\* The scheduler runs all three threads, the encoder has a frame in the end,
\* and the motors arrive.
Fairness == WF_vars(MainStep) /\ WF_vars(SaverStep) /\ WF_vars(TrackerStep)

Spec     == Init /\ [][Next]_vars
FairSpec == Spec /\ Fairness

-----------------------------------------------------------------------------
\* Where the saver still has its stream, and where it will count itself out.
Saving  == {"open", "openFw", "get", "write", "stuck", "stats", "release", "closeFw", "join"}
Working == Saving \cup {"cancel", "closeEnc", "load"}

TypeOK ==
  /\ program \in {"venc", "mt"} /\ encCount \in 0..Frames
  /\ main \in {"ipc", "dir", "args", "match", "vi", "attr", "capture", "ptz", "mt",
               "tracker", "encoder", "stream", "create", "load", "store", "wait",
               "exitMt", "join", "destroy", "closePtz", "off", "closeVi",
               "unregister", "return", "crashed", "killed"}
  /\ saver \in Working \cup {"none", "store", "done"}
  /\ tracker \in {"none", "test", "look", "turn", "done"}
  /\ open \subseteq Handle \ {"saver", "tracker"}
  /\ workNr \in -1..1 /\ mainRead \in -1..1 /\ saverRead \in 0..1
  /\ runFlag \in BOOLEAN /\ spoilt \in BOOLEAN
  /\ left \in 0..encCount /\ rest \in 0..FrameLen
  /\ saved \in Seq((1..Frames) \X (1..FrameLen)) /\ shorts \in 0..MaxShorts

\* The threads hold on to what they work on.  No handle is closed under a
\* handle or a thread that uses it: main does not close the camera before the
\* stream is cancelled and the tracker has ended, and the saver gives the
\* last frame back before it cancels the stream it came from.
InUse == open \cup (IF Runs /\ saver \in Saving THEN {"saver"} ELSE {})
              \cup (IF Runs /\ tracker \notin {"none", "done"} THEN {"tracker"} ELSE {})
H == INSTANCE Handles WITH open <- InUse
HandleSpec == H!Spec

\* When main returns, the camera, the motors and the stream were given back,
\* however far the program had got.  Left are the command server, an encoder
\* that got no stream, and the statistics when the stream file did not open.
GivenBack ==
  main = "return" =>
    /\ open \subseteq IF saver = "none" THEN {"ipc", "venc"} ELSE {"fw"}
    /\ "fw" \in open => spoilt

\* Unless it was not opened or a write was short, the file holds the frames
\* from the first one on, each whole and once; when it is closed it holds as
\* many as were asked for.
SavedWhole ==
  ~spoilt =>
    LET whole == Len(saved) \div FrameLen
    IN /\ saved = [i \in 1..(whole * FrameLen) |->
                     <<((i - 1) \div FrameLen) + 1, ((i - 1) % FrameLen) + 1>>]
       /\ saver \notin {"none", "open"} =>
            whole \in {encCount - left, encCount - left + 1}
       /\ saver \in {"closeFw", "join", "cancel", "closeEnc", "load", "store", "done"} =>
            whole = encCount

\* A main that waits while the saver has not yet counted itself out returns,
\* unless the card is full.  (It waits for ever when the thread could not be
\* created, or ran to its end between the two halves of work_nr++.)
MainReturns ==
  (main = "wait" /\ saver \in Working) ~> (~Runs \/ saver = "stuck")
=============================================================================
