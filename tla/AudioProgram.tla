----------------------------- MODULE AudioProgram -----------------------------
(***************************************************************************)
(* ak_aplay and ak_arecord.  Each opens a file and an audio device, starts *)
(* one thread that moves samples from one to the other while run_flag is   *)
(* set, joins it and closes both; a signal handler writes run_flag.  The   *)
(* programs have the same skeleton and differ in the thread, in what the   *)
(* handler does and in which failures lead to close_audio.                 *)
(*                                                                         *)
(* Using what was closed, or joining a thread that was not created, is     *)
(* undefined; the model stops there (broken).                              *)
(***************************************************************************)
EXTENDS Integers, Sequences

CONSTANTS
  Faults,      \* what may fail
  FileLen,     \* reads of PCM_READ_LEN in the file that is played
  SaveFrames   \* frames until ai_save_time has passed

Programs == {"play", "record"}

\* file, device, interval, start, thread: that call of main (start:
\* ak_ai_start_capture); read, send, notice, write, get: that call of the
\* thread; short: the device has no room for all of a frame.
FaultKinds == {"file", "device", "interval", "start", "thread", "read", "send",
               "short", "notice", "write", "get"}

\* A read is sent in parts: how much of it the device took.
Parts == 2

ASSUME ConstantsAssumption ==
  FileLen \in Nat /\ SaveFrames \in Nat \ {0} /\ Faults \subseteq FaultKinds

VARIABLES
  program,     \* which of the two this is
  main,        \* where main is
  closings,    \* calls of close_audio still to make
  runFlag,     \* pcm_in.run_flag, pcm_out.run_flag
  tid,         \* "none", "made", "failed"
  fp, handle,  \* "null", "open", "closed"
  thread,      \* where write_da_thread or read_ad_thread is
  readLen,     \* the last read brought something
  ferror,      \* reading the file failed
  pos,         \* reads from the file, or frames from the device
  held,        \* a frame of the device is held
  queue,       \* parts in the device that were not played yet
  played,      \* parts it played
  dropped,     \* parts it was sent and did not take
  noticed,     \* ak_ao_notice_frame_end succeeded
  capturing,   \* ak_ai_start_capture succeeded
  saved,       \* the frames in the recorded file, by number
  signalled,   \* "no", "early", "heard": a signal was caught, the last ones
               \* after run_flag was raised
  late,        \* frames saved after a signal was heard
  broken       \* undefined behaviour has been reached

mainVars   == <<main, closings, tid, fp, handle>>
threadVars == <<thread, readLen, ferror, pos, held, saved>>
daVars     == <<queue, played, dropped, noticed, capturing>>
sigVars    == <<signalled, late>>
vars == <<program, mainVars, runFlag, threadVars, daVars, sigVars, broken>>

(***************************************************************************)
(* Slips: plausible mistakes in a definition below; none is used here.     *)
(***************************************************************************)
JoinForgotten   == FALSE                  \* no ak_thread_join
WaitForgotten   == FALSE                  \* no wait_play_finished
FailedGetSaved  == "write"                \* no continue
SignalSetsFlag  == TRUE                   \* AK_TRUE, as in ak_aplay
RetryGet        == "get"                  \* without a look at run_flag
OneFrameMore    == pos > SaveFrames       \* > for >=

-----------------------------------------------------------------------------
Runs == main # "exit" /\ ~broken

Break ==
  /\ broken' = TRUE
  /\ UNCHANGED <<program, mainVars, runFlag, threadVars, daVars, sigVars>>

MainMoves(from, to) == Runs /\ main = from /\ main' = to

(***************************************************************************)
(* main: init_aec_ao or init_aec_ai, write_da_run or read_ad_run,          *)
(* close_audio.                                                            *)
(***************************************************************************)
\* When the file cannot be opened play goes on to close_audio and record
\* returns without it.
OpenFile ==
  /\ \/ MainMoves("file", "device") /\ fp' = "open"
     \/ /\ "file" \in Faults
        /\ MainMoves("file", IF program = "play" THEN "join" ELSE "exit")
        /\ fp' = fp
  /\ UNCHANGED <<program, closings, tid, handle, runFlag, threadVars, daVars,
                 sigVars, broken>>

\* When the device cannot be opened both call close_audio; play then calls
\* it again.
OpenDevice ==
  /\ \/ MainMoves("device", "setup") /\ handle' = "open" /\ closings' = closings
     \/ /\ "device" \in Faults /\ MainMoves("device", "join")
        /\ handle' = handle
        /\ closings' = IF program = "play" THEN 2 ELSE 1
  /\ UNCHANGED <<program, tid, fp, runFlag, threadVars, daVars, sigVars,
                 broken>>

\* A frame interval the device does not take ends ak_arecord with
\* everything open.
SetUp ==
  /\ \/ MainMoves("setup", "raise")
     \/ /\ "interval" \in Faults /\ program = "record"
        /\ MainMoves("setup", "exit")
  /\ UNCHANGED <<program, closings, tid, fp, handle, runFlag, threadVars,
                 daVars, sigVars, broken>>

\* Nobody looks at what ak_ai_start_capture returns.  A signal that came
\* earlier is forgotten here.
RaiseFlag ==
  /\ MainMoves("raise", "create")
  /\ runFlag' = TRUE
  /\ \/ capturing' = (program = "record")
     \/ "start" \in Faults /\ capturing' = FALSE
  /\ UNCHANGED <<program, closings, tid, fp, handle, threadVars, queue, played,
                 dropped, noticed, sigVars, broken>>

\* The flag stays up when there is no thread.
CreateThread ==
  /\ MainMoves("create", "join")
  /\ \/ tid' = "made" /\ thread' = "test"
     \/ "thread" \in Faults /\ tid' = "failed" /\ thread' = thread
  /\ UNCHANGED <<program, closings, fp, handle, runFlag, readLen, ferror, pos,
                 held, saved, daVars, sigVars, broken>>

\* close_audio's test
MustJoin == runFlag

JoinThread ==
  /\ \/ ~MustJoin /\ MainMoves("join", "closeFile")
     \/ MustJoin /\ tid = "made" /\ MainMoves("join", "joining")
     \/ MainMoves("joining", "closeFile") /\ thread = "done"
  /\ UNCHANGED <<program, closings, tid, fp, handle, runFlag, threadVars,
                 daVars, sigVars, broken>>

JoinNobody == Runs /\ main = "join" /\ MustJoin /\ tid # "made" /\ Break

CloseFile ==
  /\ MainMoves("closeFile", "closeDevice")
  /\ fp' = IF fp = "open" THEN "closed" ELSE fp
  /\ UNCHANGED <<program, closings, tid, handle, runFlag, threadVars, daVars,
                 sigVars, broken>>

CloseDevice ==
  /\ MainMoves("closeDevice", IF closings > 1 THEN "join" ELSE "exit")
  /\ handle' = IF handle = "open" THEN "closed" ELSE handle
  /\ closings' = closings - 1
  /\ UNCHANGED <<program, tid, fp, runFlag, threadVars, daVars, sigVars,
                 broken>>

Main ==
  \/ OpenFile \/ OpenDevice \/ SetUp \/ RaiseFlag \/ CreateThread
  \/ JoinThread \/ JoinNobody \/ CloseFile \/ CloseDevice

-----------------------------------------------------------------------------
ThreadMoves(from, to) == Runs /\ thread = from /\ thread' = to

\* write_da_thread
TestPlay ==
  /\ program = "play"
  /\ ThreadMoves("test", IF runFlag THEN "read" ELSE "after")
  /\ UNCHANGED <<program, mainVars, runFlag, readLen, ferror, pos, held, saved,
                 daVars, sigVars, broken>>

\* read_len is 0 at the end of the file and when reading fails, and nobody
\* looks at what ak_ao_notice_frame_end returns.
ReadFile ==
  /\ program = "play" /\ fp = "open"
  /\ \/ /\ pos < FileLen /\ ~ferror
        /\ ThreadMoves("read", "send")
        /\ pos' = pos + 1 /\ readLen' = TRUE /\ UNCHANGED <<ferror, noticed>>
     \/ /\ \/ pos = FileLen /\ ferror' = ferror
           \/ "read" \in Faults /\ ferror' = TRUE
        /\ ThreadMoves("read", "after")
        /\ readLen' = FALSE /\ pos' = pos
        /\ \/ noticed' = TRUE
           \/ "notice" \in Faults /\ noticed' = noticed
  /\ UNCHANGED <<program, mainVars, runFlag, held, saved, queue, played,
                 dropped, capturing, sigVars, broken>>

\* What of a frame the device takes when it does not wait (ms is 0).
Room == {k \in 0..Parts : k = Parts \/ "short" \in Faults}

\* The thread goes on to the next read whatever part of the frame was taken.
SendFrame ==
  /\ program = "play" /\ handle = "open"
  /\ \/ /\ ThreadMoves("send", "test")
        /\ \E k \in Room :
             queue' = queue + k /\ dropped' = dropped + (Parts - k)
     \/ /\ "send" \in Faults
        /\ ThreadMoves("send", "after")
        /\ UNCHANGED <<queue, dropped>>
  /\ UNCHANGED <<program, mainVars, runFlag, readLen, ferror, pos, held, saved,
                 played, noticed, capturing, sigVars, broken>>

\* Only a thread that saw the end of the file waits for the sound to end.
WaitsForEnd == ~readLen

WaitFinished ==
  /\ program = "play" /\ ThreadMoves("after", "done")
  /\ WaitsForEnd => handle = "open" /\ noticed /\ queue = 0
  /\ UNCHANGED <<program, mainVars, runFlag, readLen, ferror, pos, held, saved,
                 daVars, sigVars, broken>>

\* read_ad_thread
TestRecord ==
  /\ program = "record"
  /\ ThreadMoves("test", IF runFlag THEN "get" ELSE "done")
  /\ UNCHANGED <<program, mainVars, runFlag, readLen, ferror, pos, held, saved,
                 daVars, sigVars, broken>>

GetFrame ==
  /\ program = "record" /\ handle = "open" /\ capturing
  /\ ThreadMoves("get", "write")
  /\ pos' = pos + 1 /\ held' = TRUE
  /\ UNCHANGED <<program, mainVars, runFlag, readLen, ferror, saved, daVars,
                 sigVars, broken>>

\* Where the loop goes when there is no frame; a device that was not started
\* never has one.
AfterNoFrame == "test"

GetNothing ==
  /\ program = "record" /\ handle = "open"
  /\ "get" \in Faults \/ ~capturing
  /\ ThreadMoves("get", AfterNoFrame)
  /\ UNCHANGED <<program, mainVars, runFlag, readLen, ferror, pos, held, saved,
                 daVars, sigVars, broken>>

\* fwrite's result is compared with a negative number and never is one.
WriteFrame ==
  /\ program = "record" /\ fp = "open"
  /\ ThreadMoves("write", "release")
  /\ \/ /\ saved' = Append(saved, pos)
        /\ late' = IF signalled = "heard" THEN late + 1 ELSE late
     \/ "write" \in Faults /\ UNCHANGED <<saved, late>>
  /\ UNCHANGED <<program, mainVars, runFlag, readLen, ferror, pos, held,
                 daVars, signalled, broken>>

\* (end_ts - start_ts) >= ai_save_time
TimeUp == pos >= SaveFrames

ReleaseFrame ==
  /\ program = "record" /\ handle = "open"
  /\ ThreadMoves("release", IF TimeUp THEN "done" ELSE "test")
  /\ held' = FALSE
  /\ UNCHANGED <<program, mainVars, runFlag, readLen, ferror, pos, saved,
                 daVars, sigVars, broken>>

\* close_audio did not wait for the thread.
UseClosed ==
  /\ Runs
  /\ \/ thread \in {"read", "write"} /\ fp # "open"
     \/ thread \in {"send", "get", "release"} /\ handle # "open"
     \/ program = "play" /\ thread = "after" /\ WaitsForEnd /\ handle # "open"
  /\ Break

Thread ==
  \/ TestPlay \/ ReadFile \/ SendFrame \/ WaitFinished
  \/ TestRecord \/ GetFrame \/ GetNothing \/ WriteFrame \/ ReleaseFrame
  \/ UseClosed

-----------------------------------------------------------------------------
\* What process_signal stores in run_flag: ak_aplay's was turned round.
StopValue == program = "play"

FlagRaised == main \in {"create", "join", "joining", "closeFile", "closeDevice"}

Signal ==
  /\ Runs
  /\ signalled' = IF FlagRaised THEN "heard" ELSE "early"
  /\ runFlag' = StopValue
  /\ UNCHANGED <<program, mainVars, threadVars, daVars, late, broken>>

DevicePlays ==
  /\ Runs /\ handle = "open" /\ queue > 0
  /\ queue' = queue - 1 /\ played' = played + 1
  /\ UNCHANGED <<program, mainVars, runFlag, threadVars, dropped, noticed,
                 capturing, sigVars, broken>>

Init ==
  /\ program \in Programs
  /\ main = "file" /\ closings = 1 /\ tid = "none"
  /\ fp = "null" /\ handle = "null" /\ runFlag = FALSE
  /\ thread = "none" /\ readLen = FALSE /\ ferror = FALSE
  /\ pos = 0 /\ held = FALSE /\ saved = <<>>
  /\ queue = 0 /\ played = 0 /\ dropped = 0
  /\ noticed = FALSE /\ capturing = FALSE
  /\ signalled = "no" /\ late = 0 /\ broken = FALSE

Next == Main \/ Thread \/ Signal \/ DevicePlays

\* Both threads run, a microphone that was started has a frame in the end, and
\* the device plays what it took.
Fairness ==
  /\ WF_vars(Main) /\ WF_vars(Thread)
  /\ SF_vars(GetFrame) /\ WF_vars(DevicePlays)

Spec     == Init /\ [][Next]_vars
FairSpec == Spec /\ Fairness

-----------------------------------------------------------------------------
\* Every variable keeps its type.
TypeOK ==
  /\ program \in Programs
  /\ main \in {"file", "device", "setup", "raise", "create", "join", "joining",
               "closeFile", "closeDevice", "exit"}
  /\ closings \in 0..2 /\ tid \in {"none", "made", "failed"}
  /\ fp \in {"null", "open", "closed"} /\ handle \in {"null", "open", "closed"}
  /\ thread \in {"none", "test", "read", "send", "after", "get", "write",
                 "release", "done"}
  /\ pos \in 0..(IF program = "play" THEN FileLen ELSE SaveFrames)
  /\ queue \in Nat /\ played \in Nat /\ dropped \in Nat /\ late \in Nat
  /\ saved \in Seq(Nat)
  /\ runFlag \in BOOLEAN /\ readLen \in BOOLEAN /\ ferror \in BOOLEAN
  /\ held \in BOOLEAN
  /\ noticed \in BOOLEAN /\ capturing \in BOOLEAN /\ broken \in BOOLEAN
  /\ signalled \in {"no", "early", "heard"}

\* A thread that was created never works on a file or a device that was
\* closed: close_audio waits for it.  Only a signal that makes ak_arecord's
\* close_audio find the flag down undoes this.
SafeShutdown ==
  broken => tid # "made" \/ (program = "record" /\ signalled = "heard")

\* After the end of the file the device is closed only when it has played all
\* it took, whatever signals come.  All that was read was sent, once; what is
\* missing is what the device had no room for, and it is missing silently.  All
\* of the file was read unless reading failed.
PlayedWhole ==
  program = "play" /\ tid = "made" /\ handle = "closed" /\ ~readLen =>
    /\ queue = 0 /\ played + dropped = Parts * pos
    /\ pos = FileLen \/ ferror

\* No frame of the microphone is recorded twice, and they are recorded in
\* the order they came, also when reads and writes fail in between.
RecordedOnce ==
  \A i, j \in DOMAIN saved : i < j => saved[i] < saved[j]

\* After a signal that came once the flag was up, ak_arecord saves at most
\* the frame in hand; without one it stops at the save time.
StopObeyed == late <= 1 /\ Len(saved) <= SaveFrames

\* The thread waits for what a failure nobody looked at keeps from coming:
\* frames of a device that was not started, until a signal ends the wait, or
\* the end of a sound whose end was not noticed.
WaitsInVain ==
  \/ program = "record" /\ tid = "made" /\ ~capturing /\ signalled # "heard"
  \/ program = "play" /\ thread = "after" /\ WaitsForEnd /\ ~noticed

\* Both programs end, unless they reach undefined behaviour or one of those two
\* waits lasts for ever: no other failure, and no signal, keeps them.
Ends == <>(main = "exit" \/ broken) \/ <>[]WaitsInVain
=============================================================================
