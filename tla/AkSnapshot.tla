------------------------------ MODULE AkSnapshot ------------------------------
(***************************************************************************)
(* ak_snapshot: CameraHttp, with a server thread that waits on the         *)
(* condition variable snapshot_ref.ready.  The capture thread signals it   *)
(* without taking the mutex, and the wait tests no predicate.              *)
(***************************************************************************)
EXTENDS CameraHttp

VARIABLES
  waiting,   \* the server thread is in the wait set of the condition
  lock       \* holder of the mutex: "free" or "acc"

syncVars == <<waiting, lock>>
allVars  == <<vars, syncVars>>

\* Slips, as in CameraHttp.
EndWaitEarly == TRUE
SignalMissed == waiting

-----------------------------------------------------------------------------
\* pthread_cond_init forgets whoever waits.
InitReady ==
  /\ AccMoves("arm", "raise")
  /\ waiting' = FALSE
  /\ UNCHANGED <<lock, hit, want, opened, reply, sent, fds, capVars, capture,
                 procVars, netVars>>

RaiseCapture ==
  /\ AccMoves("raise", "lock")
  /\ capture' = TRUE
  /\ UNCHANGED <<syncVars, hit, want, opened, reply, sent, fds, capVars,
                 procVars, netVars>>

LockMutex ==
  /\ AccMoves("lock", "wait")
  /\ lock = "free" /\ lock' = "acc"
  /\ UNCHANGED <<waiting, hit, want, opened, reply, sent, fds, capVars,
                 capture, procVars, netVars>>

BeginWait ==
  /\ AccMoves("wait", "woken")
  /\ waiting' = TRUE /\ lock' = "free"
  /\ UNCHANGED <<hit, want, opened, reply, sent, fds, capVars, capture,
                 procVars, netVars>>

\* pthread_cond_wait returns to a thread that was taken off the wait set.
EndWaitReady == ~waiting

EndWait ==
  /\ AccMoves("woken", "unlock")
  /\ EndWaitReady
  /\ lock = "free" /\ lock' = "acc"
  /\ UNCHANGED <<waiting, hit, want, opened, reply, sent, fds, capVars,
                 capture, procVars, netVars>>

UnlockMutex ==
  /\ AccMoves("unlock", "open")
  /\ lock' = "free"
  /\ UNCHANGED <<waiting, hit, want, opened, reply, sent, fds, capVars,
                 capture, procVars, netVars>>

\* POSIX lets a wait return without a signal.
SpuriousWakeup ==
  /\ "spurious" \in Faults
  /\ proc = "up" /\ waiting
  /\ waiting' = FALSE
  /\ UNCHANGED <<vars, lock>>

\* Who is left in the wait set by pthread_cond_signal.
LeftWaiting == FALSE

SignalReady ==
  /\ CapMoves("announce", "release")
  /\ waiting' = LeftWaiting
  /\ UNCHANGED <<lock, vi, frame, count, img, capture, accVars, procVars,
                 netVars>>

\* accept keeps blocking on the socket this closes; new clients are refused.
StopServer ==
  /\ CapMoves("stopServer", "return")
  /\ listening' = FALSE
  /\ UNCHANGED <<syncVars, vi, frame, count, img, capture, accVars, procVars,
                 reqs, gone, idle>>

CapThread ==
  \/ (CapStep \/ CloseVi("stopServer")) /\ UNCHANGED syncVars
  \/ SignalReady \/ StopServer
AccThread ==
  \/ AccStep /\ UNCHANGED syncVars
  \/ InitReady \/ RaiseCapture \/ LockMutex \/ BeginWait \/ EndWait
  \/ UnlockMutex

SnapshotInit == Init /\ waiting = FALSE /\ lock = "free"

Next ==
  \/ CapThread
  \/ AccThread
  \/ SpuriousWakeup
  \/ EnvStep /\ UNCHANGED syncVars
  \/ Restart /\ waiting' = FALSE /\ lock' = "free"

\* As in AkRecord: threads, sensor and handler make progress, nothing else
\* has to.
Fairness ==
  /\ WF_allVars(CapThread) /\ SF_allVars(GetFrame /\ UNCHANGED syncVars)
  /\ WF_allVars(AccThread)
  /\ WF_allVars(HandlerExits /\ UNCHANGED syncVars)

Spec     == SnapshotInit /\ [][Next]_allVars
FairSpec == Spec /\ Fairness

-----------------------------------------------------------------------------
\* Every variable keeps its C type, every thread is at one of its statements,
\* and the bounded resources stay within their bounds.
TypeOK ==
  /\ proc \in {"up", "exited", "crashed"} /\ runs \in 1..MaxRuns
  /\ stop \in BOOLEAN /\ handler \in {"none", "cap", "acc"}
  /\ cap \in {"init", "server", "test", "get", "debug", "write", "fill",
              "count", "clear", "announce", "release", "off", "close",
              "stopServer", "return"}
  /\ vi \in {"null", "on", "off", "closed"}
  /\ frame \in Int /\ capture \in BOOLEAN /\ count \in Nat /\ img \in Image
  /\ acc \in {"none", "accept", "parse", "arm", "raise", "lock", "wait",
              "woken", "unlock", "open", "header", "body", "drain"}
  /\ listening \in BOOLEAN /\ reqs \in Seq(Requests) /\ hit \in 0..Len(reqs)
  /\ want \in {"none", "bmp", "other"} /\ opened \in BOOLEAN
  /\ gone \in BOOLEAN /\ idle \in BOOLEAN
  /\ reply \in Seq({200, 403, 404})
  /\ sent \in Seq(Image) /\ Len(sent) <= Blocks
  /\ fds \in 0..MaxFds /\ waiting \in BOOLEAN /\ lock \in {"free", "acc"}

\* As long as waits end only by a signal, the server thread never has
\* preview.bmp open to send while YUVToBMP is writing it, although no mutex
\* covers the file.
NoConcurrentWrite ==
  acc \in {"header", "body"} /\ want = "bmp" => cap \notin {"write", "fill"}

\* An image is made from a frame the camera delivered after the image before
\* it was counted, whatever wakes the server thread and whatever fails.
EveryImageANewFrame ==
  img.for # 0 => img.no > 0 /\ img.grab = img.no - 1

\* pthread_cond_signal comes once per raised capture, after the flag is
\* lowered: while the flag is up the signal the server needs is still to come,
\* so a server that got into its wait by then is woken.
SignalStillToCome ==
  acc = "woken" /\ capture => waiting

\* A server thread that is in the wait set before the capture thread lowers
\* the flag gets its answer out, unless the program is told to stop or dies.
WaiterServed ==
  waiting /\ capture ~> acc = "open" \/ stop \/ proc # "up"

\* Every connection is served to the end, in the order of arrival, unless
\* the program is told to stop or dies: "This will handle connection for each
\* client" (the comment over accept_thread).  This is for clients that send
\* a request and read the answer: one that does not, sooner or later, keeps
\* the only server thread for ever.
Served ==
  []<>(~idle) =>
    \A i \in 1..MaxHits :
      Len(reqs) >= i ~> hit > i \/ (hit = i /\ acc = "accept")
                        \/ stop \/ proc # "up"

-----------------------------------------------------------------------------
\* Where the request in service is, as SnapshotService sees it.
Blocked == acc \in {"lock", "wait", "woken", "unlock"}
Waiting == acc \in {"arm", "raise"} \/ Blocked
Taken   == Blocked /\ (cap = "clear" \/ ~capture)
Sending == acc \in {"open", "header", "body"}
Phase ==
  IF proc # "up" \/ want # "bmp" \/ ~(Waiting \/ Sending) THEN "idle"
  ELSE IF Taken \/ Sending THEN "taken" ELSE "asked"

Service == INSTANCE SnapshotService
           WITH phase <- Phase, images <- count, sent <- Answered,
                complete <- Complete

\* ak_snapshot implements the safety of the snapshot service.
ServiceSpec == Service!Spec
=============================================================================
