------------------------------ MODULE CameraHttp ------------------------------
(***************************************************************************)
(* What ak_snapshot and ak_record share: the capture thread (main.c) that  *)
(* turns camera frames into /tmp/preview.bmp on demand, and the web server *)
(* thread (http_server.h) that serves one connection at a time.  The way   *)
(* the server thread waits for the image is what the two programs do       *)
(* differently; AkSnapshot and AkRecord add it.                            *)
(*                                                                         *)
(* Each thread is a program counter (cap, acc).  A step is a statement or  *)
(* a run of statements that touch nothing the other thread reads.          *)
(***************************************************************************)
EXTENDS Integers, Sequences

CONSTANTS
  Requests,   \* the kinds of request clients send
  Faults,     \* what the environment may do wrong
  MaxHits,    \* bound: connections to one run of the program
  MaxRuns,    \* bound: starts of the program on one boot (/tmp survives)
  Blocks,     \* bound: 8 KB blocks of a file, as many as an image has
  Backlog,    \* listen(server_fd, 64)
  MaxFds      \* descriptors left for connections and files (RLIMIT_NOFILE)

\* bmp: an image; file, missing: another known extension, the file there or
\* not; refused: the same, but not a GET or with ".." in it; unknown: any
\* other extension; closed: read() returned 0 or -1.
Kinds == {"bmp", "file", "missing", "refused", "unknown", "closed"}

\* init: a call of capture_init fails; socket: bind fails; thread:
\* pthread_create fails; convert: YUVToBMP cannot allocate or create the
\* file; short: its fwrite stops early; leave: a client hangs up; spurious:
\* a condition wait returns by itself.
FaultKinds ==
  {"init", "socket", "thread", "convert", "short", "leave", "spurious"}

ASSUME ConstantsAssumption ==
  /\ Requests \subseteq Kinds
  /\ Faults \subseteq FaultKinds
  /\ MaxHits \in Nat \ {0} /\ MaxRuns \in Nat \ {0} /\ Blocks \in Nat \ {0}
  /\ Backlog \in Nat \ {0} /\ MaxFds \in Nat \ {0}

VARIABLES
  proc,       \* "up", "exited", "crashed": the process
  runs,       \* how many times it was started
  stop,       \* the flag the signal handler sets
  handler,    \* the thread inside my_handler, or "none"
  cap,        \* where the capture thread is
  vi,         \* what vi_handle refers to: "null", "on", "off", "closed"
  frame,      \* images taken when the held frame was fetched, or NoFrame
  capture,    \* snapshot_ref.capture
  count,      \* snapshot_ref.count
  img,        \* /tmp/preview.bmp
  acc,        \* where the server thread is
  listening,  \* clients reach server_fd
  reqs,       \* the connections of this run, in the order they arrived
  hit,        \* how many of them were accepted
  want,       \* extension found for the request in service
  opened,     \* file_fd # -1
  gone,       \* the client in service has hung up
  idle,       \* the next read or write on its connection waits for it
  reply,      \* the status lines written to the connection
  sent,       \* the blocks written to the connection, each with its image
  fds         \* descriptors in use

capVars  == <<cap, vi, frame, count, img>>
accVars  == <<acc, hit, want, opened, reply, sent, fds>>
procVars == <<proc, runs, stop, handler>>
netVars  == <<listening, reqs, gone, idle>>
vars     == <<procVars, capVars, capture, accVars, netVars>>

NoFrame == -1
NoImage == [state |-> "absent", no |-> 0, grab |-> NoFrame, for |-> 0]

\* An image file.  no, grab and for are what an answer is judged by: which
\* image of this run it is, how many were taken when its frame was fetched,
\* and the connection in service when it was written.
Image == [state : {"absent", "torn", "whole"}, no : Nat, grab : Int, for : Nat]

(***************************************************************************)
(* Slips.  Each is what a plausible edit would make of a definition below; *)
(* none is used here.  The properties are tried against them.              *)
(***************************************************************************)
NoFrameUnchecked  == "debug"                            \* if (!ret) dropped
WantedAlways      == TRUE                               \* capture not tested
ReleaseOnlySaved  == IF capture THEN "write" ELSE "test"  \* early return
CaptureNotCleared == capture                            \* missing reset
ReleasedTwice     == 2                                  \* closes file_fd -1 too

-----------------------------------------------------------------------------
CapRuns == proc = "up" /\ handler # "cap"
AccRuns == proc = "up" /\ handler # "acc"

Crash == proc' = "crashed"

-----------------------------------------------------------------------------
(***************************************************************************)
(* The capture thread: main, capture_init, capture_loop, debug_capture.    *)
(***************************************************************************)
CapMoves(from, to) == CapRuns /\ cap = from /\ cap' = to

\* Nothing else runs yet: the five library calls are one step.  A failed
\* match or open leaves vi_handle null, a later failure leaves it closed.
CaptureInit ==
  /\ CapMoves("init", "server")
  /\ \/ vi' = "on"
     \/ "init" \in Faults /\ vi' \in {"null", "closed"}
  /\ UNCHANGED <<frame, count, img, capture, accVars, procVars, netVars>>

\* The errors of socket, bind and listen are logged and passed over, the
\* test of pthread_create's is never true (they are positive), and main's
\* if(status) holds of capture_init's 1 and of its -1.
StartServer ==
  /\ CapMoves("server", "test")
  /\ \/ acc' = "accept"
     \/ "thread" \in Faults /\ acc' = acc
  /\ \/ listening' = TRUE
     \/ "socket" \in Faults /\ listening' = FALSE
  /\ UNCHANGED <<vi, frame, count, img, capture, hit, want, opened, reply,
                 sent, fds, procVars, reqs, gone, idle>>

LoopTest ==
  /\ CapMoves("test", IF stop THEN "off" ELSE "get")
  /\ UNCHANGED <<vi, frame, count, img, capture, accVars, procVars, netVars>>

GetFrame ==
  /\ vi = "on"
  /\ CapMoves("get", "debug")
  /\ frame' = count
  /\ UNCHANGED <<vi, count, img, capture, accVars, procVars, netVars>>

\* Where the loop goes when ak_vi_get_frame reports no frame.
AfterNoFrame == "test"

\* Not ready yet, or the library refused the handle.
GetNothing ==
  /\ CapMoves("get", AfterNoFrame)
  /\ UNCHANGED <<vi, frame, count, img, capture, accVars, procVars, netVars>>

\* The library follows a handle that is null or already freed.
GetFault ==
  /\ vi # "on"
  /\ CapRuns /\ cap = "get"
  /\ Crash
  /\ UNCHANGED <<capVars, capture, accVars, runs, stop, handler, netVars>>

\* debug_capture's test
Wanted == capture

\* debug_capture returns to the release of the frame in either case.
AfterCheck == IF Wanted THEN "write" ELSE "release"

CheckCapture ==
  /\ CapMoves("debug", AfterCheck)
  /\ UNCHANGED <<vi, frame, count, img, capture, accVars, procVars, netVars>>

\* fopen "wb+" truncates the file the server may have open.
OpenImage ==
  /\ CapMoves("write", "fill")
  /\ img' = [NoImage EXCEPT !.state = "torn"]
  /\ UNCHANGED <<vi, frame, count, capture, accVars, procVars, netVars>>

\* YUVToBMP returns -1 before it opens the file; nobody looks at it.
ConvertFails ==
  /\ "convert" \in Faults
  /\ CapMoves("write", "count")
  /\ UNCHANGED <<vi, frame, count, img, capture, accVars, procVars, netVars>>

FillImage ==
  /\ CapMoves("fill", "count")
  /\ img' = [state |-> "whole", no |-> count + 1, grab |-> frame, for |-> hit]
  /\ UNCHANGED <<vi, frame, count, capture, accVars, procVars, netVars>>

ShortWrite ==
  /\ "short" \in Faults
  /\ CapMoves("fill", "count")
  /\ UNCHANGED <<vi, frame, count, img, capture, accVars, procVars, netVars>>

CountImage ==
  /\ CapMoves("count", "clear")
  /\ count' = count + 1
  /\ UNCHANGED <<vi, frame, img, capture, accVars, procVars, netVars>>

\* snapshot_ref.capture once the image is written
CaptureAfterImage == FALSE

ClearCapture ==
  /\ CapMoves("clear", "announce")
  /\ capture' = CaptureAfterImage
  /\ UNCHANGED <<vi, frame, count, img, accVars, procVars, netVars>>

ReleaseFrame ==
  /\ CapMoves("release", "test")
  /\ frame' = NoFrame
  /\ UNCHANGED <<vi, count, img, capture, accVars, procVars, netVars>>

CaptureOff ==
  /\ CapMoves("off", "close")
  /\ vi' = IF vi = "on" THEN "off" ELSE vi
  /\ UNCHANGED <<frame, count, img, capture, accVars, procVars, netVars>>

CloseVi(next) ==
  /\ CapMoves("close", next)
  /\ vi' = "closed"
  /\ UNCHANGED <<frame, count, img, capture, accVars, procVars, netVars>>

MainReturns ==
  /\ CapRuns /\ cap = "return"
  /\ proc' = "exited"
  /\ UNCHANGED <<capVars, capture, accVars, runs, stop, handler, netVars>>

\* Every step of the thread but the ones the programs differ in.
CapStep ==
  \/ CaptureInit \/ StartServer \/ LoopTest \/ GetFrame \/ GetNothing
  \/ GetFault \/ CheckCapture \/ OpenImage \/ ConvertFails \/ FillImage
  \/ ShortWrite \/ CountImage \/ ClearCapture \/ ReleaseFrame \/ CaptureOff
  \/ MainReturns

-----------------------------------------------------------------------------
(***************************************************************************)
(* The server thread: accept_thread and web.                               *)
(***************************************************************************)
AccMoves(from, to) == AccRuns /\ acc = from /\ acc' = to

Pending == hit < Len(reqs)
Kind    == reqs[hit]

\* A failed accept (no descriptor left) only goes round the loop.  web's first
\* read waits for the client.
Accept ==
  /\ AccMoves("accept", "parse")
  /\ listening /\ Pending /\ fds < MaxFds
  /\ hit' = hit + 1
  /\ fds' = fds + 1
  /\ reply' = <<>>
  /\ sent' = <<>>
  /\ gone' = FALSE /\ idle' = TRUE
  /\ UNCHANGED <<want, opened, capVars, capture, procVars, listening, reqs>>

\* logger(FORBIDDEN, ...) writes the whole 403 page and returns: the
\* comment over web says "we can exit on errors", but nothing exits.
Refusals(kind) ==
  CASE kind = "closed"  -> <<403, 403>>   \* no bytes, then no "GET "
    [] kind = "refused" -> <<403>>
    [] OTHER            -> <<>>

\* The entry of the extensions table the loop stops at.  Of a closed
\* connection it compares the bytes in front of the empty buffer, which
\* may be anything.
Extensions(kind) ==
  CASE kind = "bmp"     -> {"bmp"}
    [] kind = "unknown" -> {"none"}
    [] kind = "closed"  -> {"bmp", "other", "none"}
    [] OTHER            -> {"other"}

\* An extension the table lacks leaves fstr null, and strcmp reads it.
Parse ==
  /\ AccRuns /\ acc = "parse" /\ ~idle
  /\ \E ext \in Extensions(Kind) :
       /\ reply' = reply \o Refusals(Kind)
                         \o (IF ext = "none" THEN <<403>> ELSE <<>>)
       /\ want' = ext
       /\ \/ ext = "none"  /\ Crash /\ acc' = acc
          \/ ext = "bmp"   /\ acc' = "arm"  /\ proc' = proc
          \/ ext = "other" /\ acc' = "open" /\ proc' = proc
  /\ UNCHANGED <<hit, opened, sent, fds, capVars, capture, runs, stop, handler,
                 netVars>>

\* Whether open() can find the file: what is there to be opened for a
\* request that was refused or never read is anybody's guess.
CanOpen ==
  IF want = "bmp" THEN {img.state # "absent"}
  ELSE {there \in BOOLEAN : (Kind = "missing" => ~there) /\ (Kind = "file" => there)}

\* file_fd is open()'s result; -1 is answered 404 and used all the same.
OpenFile ==
  /\ AccMoves("open", "header")
  /\ opened' \in {there /\ fds < MaxFds : there \in CanOpen}
  /\ fds' = IF opened' THEN fds + 1 ELSE fds
  /\ reply' = IF opened' THEN reply ELSE Append(reply, 404)
  /\ UNCHANGED <<hit, want, sent, capVars, capture, procVars, netVars>>

SendHeader ==
  /\ AccMoves("header", "body")
  /\ reply' = Append(reply, 200)
  /\ UNCHANGED <<hit, want, opened, sent, fds, capVars, capture, procVars,
                 netVars>>

\* What one read of the file that is served returns now.
Block == IF want = "bmp" THEN img ELSE NoImage

\* One turn of the loop that sends the file in 8 KB blocks; the next write
\* waits until the client took this one.
SendBlock ==
  /\ AccRuns /\ acc = "body" /\ acc' = acc
  /\ opened /\ Len(sent) < Blocks /\ ~idle
  /\ sent' = Append(sent, Block)
  /\ idle' = TRUE
  /\ UNCHANGED <<hit, want, opened, reply, fds, capVars, capture, procVars,
                 listening, reqs, gone>>

\* The length of a whole image; a torn one, or another file, ends anywhere.
AtEnd == img.state = "whole" => Len(sent) = Blocks

\* read() returns 0 at the end of the file, and -1 when there is no file.
EndOfFile ==
  /\ AccMoves("body", "drain")
  /\ opened /\ want = "bmp" => AtEnd
  /\ UNCHANGED <<hit, want, opened, reply, sent, fds, capVars, capture,
                 procVars, netVars>>

\* What the end of web gives back: the socket, never file_fd.
Released == 1

CloseConnection ==
  /\ AccMoves("drain", "accept")
  /\ fds' = fds - Released
  /\ idle' = FALSE
  /\ UNCHANGED <<hit, want, opened, reply, sent, capVars, capture, procVars,
                 listening, reqs, gone>>

\* The server thread writes to the connection: a page of logger's in Parse and
\* OpenFile, the header, a block.
Writes ==
  \/ acc = "parse" /\ ~idle
       /\ (Refusals(Kind) # <<>> \/ "none" \in Extensions(Kind))
  \/ acc = "open" /\ (FALSE \in CanOpen \/ fds = MaxFds)
  \/ acc = "header"
  \/ acc = "body" /\ opened /\ Len(sent) < Blocks

\* SIGPIPE, which nothing catches: a write to a client that hung up.
BrokenPipe ==
  /\ AccRuns /\ gone /\ Writes
  /\ Crash
  /\ UNCHANGED <<capVars, capture, accVars, runs, stop, handler, netVars>>

AccStep ==
  \/ Accept \/ Parse \/ OpenFile \/ SendHeader \/ SendBlock \/ EndOfFile
  \/ CloseConnection \/ BrokenPipe

-----------------------------------------------------------------------------
(***************************************************************************)
(* The world: clients, SIGINT, and whoever starts the program again.       *)
(***************************************************************************)
Connect(kind) ==
  /\ proc = "up" /\ listening
  /\ Len(reqs) < MaxHits
  /\ Len(reqs) - hit < Backlog
  /\ reqs' = Append(reqs, kind)
  /\ UNCHANGED <<capVars, capture, accVars, procVars, listening, gone, idle>>

InService == proc = "up" /\ acc \notin {"none", "accept"} /\ ~gone

\* The client sends its request (or closes without one), or reads what it was
\* sent.  Nothing makes it do so.
ClientActs ==
  /\ InService /\ idle
  /\ idle' = FALSE
  /\ UNCHANGED <<capVars, capture, accVars, procVars, listening, reqs, gone>>

\* A client that hangs up before it sends anything is of kind "closed".
Leave ==
  /\ "leave" \in Faults
  /\ InService /\ ~(acc = "parse" /\ idle)
  /\ gone' = TRUE
  /\ UNCHANGED <<capVars, capture, accVars, procVars, listening, reqs, idle>>

\* my_handler runs on whichever thread the kernel picks, and that thread
\* does nothing else until exit(1) ends them all.
Interrupt(thread) ==
  /\ proc = "up" /\ handler = "none"
  /\ thread = "acc" => acc # "none"
  /\ handler' = thread
  /\ stop' = TRUE
  /\ UNCHANGED <<capVars, capture, accVars, proc, runs, netVars>>

HandlerExits ==
  /\ proc = "up" /\ handler # "none"
  /\ proc' = "exited"
  /\ UNCHANGED <<capVars, capture, accVars, runs, stop, handler, netVars>>

EnvStep ==
  \/ \E kind \in Requests : Connect(kind)
  \/ ClientActs \/ Leave
  \/ \E thread \in {"cap", "acc"} : Interrupt(thread)
  \/ HandlerExits

Init ==
  /\ proc = "up" /\ runs = 1 /\ stop = FALSE /\ handler = "none"
  /\ cap = "init" /\ vi = "null" /\ frame = NoFrame
  /\ capture = FALSE /\ count = 0 /\ img = NoImage
  /\ acc = "none" /\ listening = FALSE /\ reqs = <<>> /\ hit = 0
  /\ want = "none" /\ opened = FALSE /\ gone = FALSE /\ idle = FALSE
  /\ reply = <<>> /\ sent = <<>> /\ fds = 0

\* A new process starts from nothing but the file the last one left.
Restart ==
  /\ proc # "up" /\ runs < MaxRuns
  /\ proc' = "up" /\ runs' = runs + 1 /\ stop' = FALSE /\ handler' = "none"
  /\ cap' = "init" /\ vi' = "null" /\ frame' = NoFrame
  /\ capture' = FALSE /\ count' = 0
  /\ img' = [NoImage EXCEPT !.state = img.state]
  /\ acc' = "none" /\ listening' = FALSE /\ reqs' = <<>> /\ hit' = 0
  /\ want' = "none" /\ opened' = FALSE /\ gone' = FALSE /\ idle' = FALSE
  /\ reply' = <<>> /\ sent' = <<>> /\ fds' = 0

-----------------------------------------------------------------------------
\* What reaches a client of an image is of one complete image, written for
\* that very connection: never of one left by an earlier request or an earlier
\* run, and never of two.  exit, SIGPIPE or a client that stops reading may cut
\* it short between any two blocks, but a connection that web closes got every
\* block.  This is for files that can be written and, in ak_snapshot, waits
\* that end by a signal.
FreshReply ==
  want = "bmp" =>
    /\ \A b \in 1..Len(sent) :
         sent[b].state = "whole" /\ sent[b].for = hit /\ sent[b] = sent[1]
    /\ opened /\ acc \in {"drain", "accept"} => Len(sent) = Blocks

\* The image the answer carries, 0 when it has none, and whether it has all
\* of it.
Answered == IF sent = <<>> THEN 0 ELSE sent[1].no
Complete == Len(sent) = Blocks /\ Answered # 0

\* "work out the file type and check we support it": a type that is not in
\* the table is refused, and the server lives on.
ServerSurvives == proc # "crashed"
=============================================================================
