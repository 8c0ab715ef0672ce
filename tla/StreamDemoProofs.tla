--------------------------- MODULE StreamDemoProofs ---------------------------
(***************************************************************************)
(* For any number and length of frames and any set of faults: the demos    *)
(* with a thread per stream close no handle under a thread or a handle     *)
(* that uses it, give back what they promise, and save whole frames.       *)
(***************************************************************************)
EXTENDS StreamDemo, SequenceTheorems, TLAPS

\* main before there is a saver, and once it has seen work_nr at zero.
BeforeSaver == {"ipc", "dir", "args", "match", "vi", "attr", "capture", "ptz",
                "mt", "tracker", "encoder", "stream", "create"}
Leaving     == {"exitMt", "join", "destroy", "closePtz", "off", "closeVi",
                "unregister", "return"}

\* Where only ak_mt_demo gets.
MtOnly == {"ptz", "mt", "tracker", "exitMt", "join", "destroy", "closePtz"}

\* Where the camera is open, and where the saver has a frame or a file.
WithVi    == (BeforeSaver \ {"ipc", "dir", "args", "match", "vi"})
               \cup {"load", "store", "wait"}
               \cup (Leaving \ {"unregister", "return"})
WithFrame == {"write", "stuck", "stats", "release"}
WithFile  == {"openFw", "get"} \cup WithFrame

\* What work_nr says of the saver, although ++ and -- are no single steps.
\* main gets past its wait only when there is no saver or it is done.
WorkInv ==
  /\ main \in BeforeSaver => saver = "none" /\ workNr = 0
  /\ main \in {"load", "store"} => workNr = IF saver = "done" THEN -1 ELSE 0
  /\ main = "store" => mainRead \in {-1, 0}
  /\ main = "store" /\ mainRead = -1 => saver = "done"
  /\ main \in {"load", "store"} /\ saver = "store" => saverRead = 0
  /\ main = "wait" /\ saver \in Working \cup {"store"} => workNr = 1
  /\ main \in Leaving => saver \in {"none", "done"}

\* What main has opened where.
MainHandles ==
  /\ "vi" \in open <=> main \in WithVi
  /\ "ipc" \in open => Venc /\ main # "ipc" /\ (main = "return" => saver = "none")
  /\ "capture" \in open =>
       main \in WithVi \ {"attr", "capture", "closeVi", Then("encoder", "attr")}
  /\ main \in MtOnly \/ "ptz" \in open \/ "mt" \in open => ~Venc
  /\ main \in {"mt", "tracker"} => "ptz" \in open
  /\ "ptz" \in open => main \in WithVi \ {"attr", "capture", "ptz", "off", "closeVi"}
  /\ "mt" \in open =>
       /\ main \in WithVi \ {"attr", "capture", "ptz", "mt", "closePtz", "off",
                             "closeVi"}
       /\ runFlag \/ main \in {"join", "destroy"}

\* What the tracker holds on to, and that main joins it before it lets go.
TrackerHandles ==
  /\ Venc => tracker = "none"
  /\ main \in BeforeSaver \ {"encoder", "stream", "create"} => tracker = "none"
  /\ main = "tracker" => "mt" \in open
  /\ main \in {"destroy", "closePtz", "off", "closeVi", "unregister", "return"}
       => tracker \in {"none", "done"}
  /\ Runs /\ tracker \notin {"none", "done"} =>
       /\ {"vi", "mt", "ptz"} \subseteq open
       /\ runFlag \/ main = "join"

\* The encoder and its stream.
StreamHandles ==
  /\ main \in BeforeSaver \ {Then("capture", "stream"), "stream", "create"}
       => "venc" \notin open
  /\ main = "stream" \/ (Venc /\ main = "capture") => "venc" \in open
  /\ "stream" \in open => "venc" \in open
  /\ saver \in {"load", "store", "done"} => "venc" \notin open
  /\ main = "create" \/ (Runs /\ saver \in Saving \cup {"cancel"})
       => "stream" \in open
  /\ "stream" \in open =>
       \/ saver \in Saving \cup {"cancel"}
       \/ saver = "none" /\ (\/ main \in {"create", "load", "store"}
                             \/ main = "wait" /\ workNr = 1)
  /\ "frame" \in open => saver \in WithFrame

\* The files of the saver.
FileHandles ==
  /\ "fp" \in open => saver \in WithFile
  /\ Runs /\ saver \in WithFile /\ "fp" \notin open => spoilt
  /\ "fw" \in open => ~Venc /\ saver \notin {"none", "open", "openFw"}
  /\ "fw" \in open /\ saver \notin WithFile \cup {"closeFw"} => spoilt
  /\ saver \in {"openFw", "closeFw"} => ~Venc

\* The loop of the saver.
LoopInv ==
  /\ saver \in WithFrame => left > 0
  /\ saver \notin WithFile => left = 0
  /\ saver \in {"none", "open"} => saved = <<>>
  /\ saver \in {"write", "stuck"} /\ ~spoilt => rest = FrameLen

HandleInv == WorkInv /\ MainHandles /\ TrackerHandles /\ StreamHandles /\ FileHandles
SafeInv   == TypeOK /\ HandleInv /\ LoopInv

-----------------------------------------------------------------------------
(***************************************************************************)
(* Handles and threads.                                                    *)
(***************************************************************************)
\* Nothing is open at first.
LEMMA InitHandles == Init => HandleInv
BY DEF Init, Then, Venc, HandleInv, WorkInv, MainHandles, TrackerHandles,
       StreamHandles, FileHandles, BeforeSaver, Leaving, MtOnly, WithVi, WithFrame,
       WithFile, Saving, Working, Runs

\* main keeps them.
LEMMA MainKeepsHandles == SafeInv /\ MainStep => HandleInv'
<1> SUFFICES ASSUME SafeInv, MainStep PROVE HandleInv'
  OBVIOUS
<1> USE DEF SafeInv, HandleInv, WorkInv, MainHandles, TrackerHandles,
            StreamHandles, FileHandles, BeforeSaver, Leaving, MtOnly, WithVi,
            WithFrame, WithFile, Saving, Working, Runs, Venc, Then, Goes,
            NoThread, params, counter, data
<1>1. CASE InitVi
  <2>1. CASE Venc /\ Open("ipc", "ipc", "dir", "dir")
    BY <2>1 DEF Open
  <2>2. CASE \/ Try("dir", "dir", Then("args", "match"), "return")
             \/ Try("args", "args", "match", "return")
             \/ Try("match", "match", "vi", "return")
    BY <2>2 DEF Try
  <2>3. CASE Open("vi", "vi", "attr", "return")
    BY <2>3 DEF Open
  <2>4. CASE Goes("attr", Then("encoder", "capture")) /\ open' = open /\ NoThread
    BY <2>4
  <2>5. CASE Goes("attr", "return") /\ open' = ViClosed /\ NoThread
    BY <2>5 DEF ViClosed
  <2> QED
    BY <1>1, <2>1, <2>2, <2>3, <2>4, <2>5 DEF InitVi
<1>2. CASE Capture
  <2>1. CASE Venc /\ Open("capture", "capture", "stream", "wait")
    BY <2>1 DEF Open
  <2>2. CASE ~Venc /\ Goes("capture", "ptz") /\ open' = open \cup {"capture"}
             /\ NoThread
    BY <2>2
  <2>3. CASE ~Venc /\ Goes("capture", "return") /\ open' = ViClosed /\ NoThread
    BY <2>3 DEF ViClosed
  <2> QED
    BY <1>2, <2>1, <2>2, <2>3 DEF Capture
<1>3. CASE StartStream
  <2>1. CASE Open("venc", "encoder", Then("capture", "stream"), "wait")
    BY <2>1 DEF Open
  <2>2. CASE Open("stream", "stream", "create", "wait")
    BY <2>2 DEF Open
  <2> QED
    BY <1>3, <2>1, <2>2 DEF StartStream
<1>4. CASE CreateSaver
  BY <1>4 DEF CreateSaver
<1>5. CASE LoadWork \/ StoreWork
  BY <1>5 DEF LoadWork, StoreWork
<1>6. CASE Wait
  BY <1>6 DEF Wait, TypeOK
<1>7. CASE CloseVi
  BY <1>7 DEF CloseVi, Close
<1>8. CASE MtInit
  BY <1>8 DEF MtInit, Open
<1>9. CASE CreateTracker
  <2>1. CASE /\ Goes("tracker", "encoder") /\ tracker' = "test"
             /\ UNCHANGED <<params, saver, open, counter, runFlag, data>>
    BY <2>1
  <2>2. CASE /\ Goes("tracker", "exitMt")
             /\ UNCHANGED <<params, tracker, saver, open, counter, runFlag, data>>
    BY <2>2
  <2> QED
    BY <1>9, <2>1, <2>2 DEF CreateTracker
<1>10. CASE MtExit
  <2>1. CASE Close("mt", "destroy", "closePtz") \/ Close("ptz", "closePtz", "off")
    BY <2>1 DEF Close
  <2>2. CASE /\ Goes("exitMt", IF runFlag THEN "join" ELSE "closePtz")
             /\ runFlag' = FALSE
             /\ UNCHANGED <<params, saver, tracker, open, counter, data>>
    BY <2>2
  <2> QED
    BY <1>10, <2>1, <2>2 DEF MtExit
<1>11. CASE JoinTracker
  BY <1>11 DEF JoinTracker, Dies
<1> QED
  BY <1>1, <1>2, <1>3, <1>4, <1>5, <1>6, <1>7, <1>8, <1>9, <1>10, <1>11
     DEF MainStep

\* So does the saver.
LEMMA SaverKeepsHandles == SafeInv /\ SaverStep => HandleInv'
<1> SUFFICES ASSUME SafeInv, SaverStep PROVE HandleInv'
  OBVIOUS
<1> USE DEF SafeInv, HandleInv, WorkInv, MainHandles, TrackerHandles,
            StreamHandles, FileHandles, BeforeSaver, Leaving, MtOnly, WithVi,
            WithFrame, WithFile, Saving, Working, Runs, Venc, Then, Moves,
            params, counter, data
<1>1. CASE OpenFile
  BY <1>1 DEF OpenFile
<1>2. CASE OpenFw
  BY <1>2 DEF OpenFw
<1>3. CASE GetStream
  BY <1>3 DEF GetStream
<1>4. CASE DiskFull \/ NoFile
  BY <1>4 DEF DiskFull, NoFile
<1>5. ASSUME NEW k \in 1..rest, Fwrite(k) PROVE HandleInv'
  BY <1>5 DEF Fwrite
<1>6. CASE WriteStats
  BY <1>6 DEF WriteStats, SaverCrashes, Dies
<1>7. CASE ReleaseStream
  BY <1>7 DEF ReleaseStream
<1>8. CASE CloseFiles
  BY <1>8 DEF CloseFiles, AfterFiles, SaverCrashes, Dies
<1>9. CASE StopStream
  BY <1>9 DEF StopStream
<1>10. CASE WorkDone
  BY <1>10 DEF WorkDone, Counted, TypeOK
<1> QED
  BY <1>1, <1>2, <1>3, <1>4, <1>5, <1>6, <1>7, <1>8, <1>9, <1>10 DEF SaverStep

\* And the tracker.
LEMMA TrackerKeepsHandles == SafeInv /\ TrackerStep => HandleInv'
BY DEF SafeInv, HandleInv, WorkInv, MainHandles, TrackerHandles, StreamHandles,
       FileHandles, BeforeSaver, Leaving, MtOnly, WithVi, WithFrame, WithFile,
       Saving, Working, Runs, Venc, Then, TrackerStep, params, counter, data

\* A killed program holds nothing.
LEMMA SignalKeepsHandles == SafeInv /\ Signal => HandleInv'
BY DEF SafeInv, HandleInv, WorkInv, MainHandles, TrackerHandles, StreamHandles,
       FileHandles, BeforeSaver, Leaving, MtOnly, WithVi, WithFrame, WithFile,
       Saving, Working, Runs, Venc, Then, Signal, Dies, NoThread, params,
       counter, data

-----------------------------------------------------------------------------
(***************************************************************************)
(* Types, and the loop of the saver.                                       *)
(***************************************************************************)
\* A program starts well typed.
LEMMA InitTyped == Init => TypeOK /\ LoopInv
<1> SUFFICES ASSUME Init PROVE TypeOK /\ LoopInv
  OBVIOUS
<1>1. runFlag \in BOOLEAN /\ spoilt \in BOOLEAN
  BY Zenon DEF Init
<1> QED
  BY <1>1, ConstantsAssumption
     DEF ConstantsAssumption, Init, TypeOK, LoopInv, Then, Venc, Saving,
         Working, WithFrame, WithFile

\* main keeps the types.
LEMMA MainTyped == SafeInv /\ MainStep => (TypeOK /\ LoopInv)'
<1> SUFFICES ASSUME SafeInv, MainStep PROVE (TypeOK /\ LoopInv)'
  OBVIOUS
<1> USE DEF SafeInv, HandleInv, WorkInv, TypeOK, LoopInv, BeforeSaver, Handle,
            Needs, Saving, Working, WithFrame, WithFile, Then, Goes, NoThread,
            params, counter, data
<1>1. CASE InitVi
  BY <1>1 DEF InitVi, Open, Try, ViClosed
<1>2. CASE Capture \/ StartStream
  BY <1>2 DEF Capture, StartStream, Open, ViClosed
<1>3. CASE CreateSaver
  BY <1>3 DEF CreateSaver
<1>4. CASE LoadWork \/ StoreWork
  BY <1>4 DEF LoadWork, StoreWork
<1>5. CASE Wait
  BY <1>5 DEF Wait
<1>6. CASE CloseVi
  <2>1. open' \subseteq open /\ NoThread
    BY <1>6 DEF CloseVi, Close
  <2>2. main' \in {"closeVi", "unregister", "return"}
    BY <1>6 DEF CloseVi, Close
  <2> QED
    BY <2>1, <2>2
<1>7. CASE MtInit
  <2>1. runFlag' \in BOOLEAN
    BY <1>7, Zenon DEF MtInit, Open
  <2> QED
    BY <1>7, <2>1 DEF MtInit, Open
<1>8. CASE CreateTracker
  BY <1>8 DEF CreateTracker
<1>9. CASE MtExit
  <2>1. CASE /\ Goes("exitMt", IF runFlag THEN "join" ELSE "closePtz")
             /\ runFlag' = FALSE
             /\ UNCHANGED <<params, saver, tracker, open, counter, data>>
    BY <2>1
  <2>2. CASE Close("mt", "destroy", "closePtz")
    BY <2>2 DEF Close
  <2>3. CASE Close("ptz", "closePtz", "off")
    BY <2>3 DEF Close
  <2> QED
    BY <1>9, <2>1, <2>2, <2>3, Zenon DEF MtExit
<1>10. CASE JoinTracker
  BY <1>10 DEF JoinTracker, Dies
<1> QED
  BY <1>1, <1>2, <1>3, <1>4, <1>5, <1>6, <1>7, <1>8, <1>9, <1>10 DEF MainStep

\* So does the saver.
LEMMA SaverTyped == SafeInv /\ SaverStep => (TypeOK /\ LoopInv)'
<1> SUFFICES ASSUME SafeInv, SaverStep PROVE (TypeOK /\ LoopInv)'
  OBVIOUS
<1> USE ConstantsAssumption
    DEF ConstantsAssumption, SafeInv, HandleInv, WorkInv, FileHandles, TypeOK,
        LoopInv, BeforeSaver, Leaving, Handle, Needs, Saving, Working,
        WithFrame, WithFile, Runs, Then, Moves, params, counter, data,
        LoopGoesOn
<1>1. CASE OpenFile
  <2>1. spoilt' \in BOOLEAN
    BY <1>1, Zenon DEF OpenFile
  <2> QED
    BY <1>1, <2>1 DEF OpenFile
<1>2. CASE OpenFw
  BY <1>2 DEF OpenFw
<1>3. CASE GetStream
  BY <1>3 DEF GetStream
<1>4. CASE DiskFull \/ NoFile
  BY <1>4 DEF DiskFull, NoFile
<1>5. ASSUME NEW k \in 1..rest, Fwrite(k) PROVE (TypeOK /\ LoopInv)'
  <2>1. spoilt' \in BOOLEAN
    BY <1>5, Zenon DEF Fwrite
  <2>2. [i \in 1..k |-> <<encCount - left + 1, i>>]
          \in Seq((1..Frames) \X (1..FrameLen))
    <3>1. encCount - left + 1 \in 1..Frames /\ k \in 1..FrameLen
      BY <1>5 DEF Fwrite
    <3>2. \A i \in 1..k :
            <<encCount - left + 1, i>> \in (1..Frames) \X (1..FrameLen)
      BY <3>1
    <3> QED
      BY <3>1, <3>2
  <2>3. saved' \in Seq((1..Frames) \X (1..FrameLen))
    BY <1>5, <2>2 DEF Fwrite
  <2>4. rest' \in 0..FrameLen /\ shorts' \in 0..MaxShorts
    BY <1>5 DEF Fwrite
  <2> QED
    BY <1>5, <2>1, <2>3, <2>4 DEF Fwrite
<1>6. CASE WriteStats
  BY <1>6 DEF WriteStats, SaverCrashes, Dies
<1>7. CASE ReleaseStream
  BY <1>7 DEF ReleaseStream
<1>8. CASE CloseFiles
  <2>1. CASE Moves("get", IF "fp" \in open /\ ~Venc THEN "closeFw" ELSE AfterFiles)
    <3>1. left = 0
      BY <1>8, <2>1 DEF CloseFiles, SaverCrashes
    <3> QED
      BY <1>8, <2>1, <3>1 DEF CloseFiles, AfterFiles, SaverCrashes
  <2>2. CASE Moves("closeFw", AfterFiles)
    BY <1>8, <2>2 DEF CloseFiles, AfterFiles, SaverCrashes
  <2>3. CASE SaverCrashes("closeFw")
    BY <2>3 DEF SaverCrashes, Dies
  <2> QED
    BY <1>8, <2>1, <2>2, <2>3 DEF CloseFiles
<1>9. CASE StopStream
  BY <1>9 DEF StopStream
<1>10. CASE WorkDone
  BY <1>10 DEF WorkDone, Counted
<1> QED
  BY <1>1, <1>2, <1>3, <1>4, <1>5, <1>6, <1>7, <1>8, <1>9, <1>10 DEF SaverStep

\* The others touch none of the data.
LEMMA OthersTyped == SafeInv /\ (TrackerStep \/ Signal) => (TypeOK /\ LoopInv)'
<1>1. SafeInv /\ TrackerStep => (TypeOK /\ LoopInv)'
  BY DEF SafeInv, TypeOK, LoopInv, TrackerStep, params, counter, data
<1>2. SafeInv /\ Signal => (TypeOK /\ LoopInv)'
  BY DEF SafeInv, TypeOK, LoopInv, Signal, Dies, NoThread, params, counter, data
<1> QED
  BY <1>1, <1>2

\* So does a step that changes nothing.
LEMMA StutterSafe == SafeInv /\ UNCHANGED vars => SafeInv'
BY DEF SafeInv, TypeOK, LoopInv, HandleInv, WorkInv, MainHandles,
       TrackerHandles, StreamHandles, FileHandles, Runs, Venc, Then, vars,
       params, counter, data

\* Every step keeps the invariant.
LEMMA NextSafe == SafeInv /\ [Next]_vars => SafeInv'
BY MainKeepsHandles, SaverKeepsHandles, TrackerKeepsHandles, SignalKeepsHandles,
   MainTyped, SaverTyped, OthersTyped, StutterSafe DEF Next, SafeInv

\* So it holds throughout.
LEMMA AlwaysSafe == Spec => []SafeInv
<1>1. Init => SafeInv
  BY InitHandles, InitTyped DEF SafeInv
<1> QED
  BY <1>1, NextSafe, PTL DEF Spec

\* Every variable keeps its type: work_nr stays between -1 and 1 although it
\* is counted by two threads without a lock.
THEOREM TypeCorrect == Spec => []TypeOK
<1>1. SafeInv => TypeOK
  BY DEF SafeInv
<1> QED
  BY <1>1, AlwaysSafe, PTL

\* What main has given back when it returns, whichever calls failed and in
\* whatever order the threads ran.
THEOREM EverythingGivenBack == Spec => []GivenBack
<1>1. SafeInv => GivenBack
  BY DEF SafeInv, TypeOK, HandleInv, WorkInv, MainHandles, StreamHandles,
         FileHandles, GivenBack, BeforeSaver, Leaving, WithVi, WithFrame,
         WithFile, Saving, Working, Handle, Needs, Then
<1> QED
  BY <1>1, AlwaysSafe, PTL

-----------------------------------------------------------------------------
(***************************************************************************)
(* What is saved.                                                          *)
(***************************************************************************)
\* The first n frames, each whole and once.
WholeFrames(n) ==
  [i \in 1..(n * FrameLen) |->
     <<((i - 1) \div FrameLen) + 1, ((i - 1) % FrameLen) + 1>>]

\* Frames the saver is through with.
FramesDone ==
  IF saver \in {"none", "open"} THEN 0
  ELSE encCount - left + (IF saver \in {"stats", "release"} THEN 1 ELSE 0)

WholeInv == ~spoilt => saved = WholeFrames(FramesDone)

\* A positive multiple of a length is at least that length.
LEMMA AtLeastOne ==
  ASSUME NEW a \in Nat, NEW b \in Nat, a >= 1 PROVE a * b >= b
<1>1. PICK c \in Nat : a = c + 1
  BY a - 1 \in Nat, a = (a - 1) + 1
<1>2. a * b = c * b + b /\ c * b \in Nat
  BY <1>1
<1> QED
  BY <1>2

\* Unit j of frame n + 1 is unit n * f + j of the file.
LEMMA UnitOfFrame ==
  ASSUME NEW f \in Nat \ {0}, NEW n \in Nat, NEW j \in 0..(f - 1)
  PROVE  (n * f + j) \div f = n /\ (n * f + j) % f = j
<1> DEFINE m == n * f + j
           q == m \div f
           r == m % f
<1>1. m \in Nat /\ n * f \in Nat
  OBVIOUS
<1>2. q \in Nat /\ r \in 0..(f - 1) /\ m = f * q + r
  BY <1>1
<1>3. ~(q < n)
  <2> SUFFICES ASSUME q < n PROVE FALSE
    OBVIOUS
  <2>1. n - q \in Nat /\ n - q >= 1
    BY <1>2
  <2>2. (n - q) * f >= f
    BY <2>1, AtLeastOne
  <2>3. (n - q) * f = n * f - f * q
    BY <1>2
  <2> QED
    BY <1>1, <1>2, <2>2, <2>3
<1>4. ~(q > n)
  <2> SUFFICES ASSUME q > n PROVE FALSE
    OBVIOUS
  <2>1. q - n \in Nat /\ q - n >= 1
    BY <1>2
  <2>2. (q - n) * f >= f
    BY <2>1, AtLeastOne
  <2>3. (q - n) * f = f * q - n * f
    BY <1>2
  <2> QED
    BY <1>1, <1>2, <2>2, <2>3
<1>5. q = n
  BY <1>2, <1>3, <1>4
<1>6. r = j
  BY <1>1, <1>2, <1>5
<1> QED
  BY <1>5, <1>6

\* A sequence that starts with s and goes on with t is s \o t.
LEMMA Concatenation ==
  ASSUME NEW S, NEW s \in Seq(S), NEW t \in Seq(S), NEW both \in Seq(S),
         Len(both) = Len(s) + Len(t),
         \A i \in 1..Len(s) : both[i] = s[i],
         \A k \in 1..Len(t) : both[Len(s) + k] = t[k]
  PROVE  s \o t = both
<1>1. s \o t \in Seq(S) /\ Len(s \o t) = Len(both)
  OBVIOUS
<1>2. ASSUME NEW i \in 1..Len(both) PROVE (s \o t)[i] = both[i]
  <2>1. CASE i <= Len(s)
    BY <2>1
  <2>2. CASE i > Len(s)
    <3>1. i - Len(s) \in 1..Len(t) /\ i = Len(s) + (i - Len(s))
      BY <2>2
    <3>2. (s \o t)[i] = t[i - Len(s)]
      BY <2>2, <3>1
    <3> QED
      BY <3>1, <3>2
  <2> QED
    BY <2>1, <2>2
<1>3. Len(s \o t) = Len(both) /\ \A i \in 1..Len(s \o t) : (s \o t)[i] = both[i]
  BY <1>1, <1>2, Zenon
<1> QED
  BY <1>1, <1>3, SeqEqual, Zenon

\* Nothing is no frame.
LEMMA NoFrames == WholeFrames(0) = <<>>
BY ConstantsAssumption DEF ConstantsAssumption, WholeFrames

\* How long n frames are.
LEMMA WholeLength ==
  ASSUME NEW n \in Nat
  PROVE  /\ n * FrameLen \in Nat
         /\ WholeFrames(n) \in Seq(Nat \X Nat)
         /\ Len(WholeFrames(n)) = n * FrameLen
<1>1. n * FrameLen \in Nat
  BY ConstantsAssumption DEF ConstantsAssumption
<1>2. \A i \in 1..(n * FrameLen) :
        <<((i - 1) \div FrameLen) + 1, ((i - 1) % FrameLen) + 1>> \in Nat \X Nat
  <2> SUFFICES ASSUME NEW i \in 1..(n * FrameLen)
               PROVE  /\ (i - 1) \div FrameLen \in Nat
                      /\ (i - 1) % FrameLen \in Nat
    OBVIOUS
  <2>1. i - 1 \in Nat /\ FrameLen \in Nat \ {0}
    BY <1>1, ConstantsAssumption DEF ConstantsAssumption
  <2> QED
    BY <2>1
<1> QED
  BY <1>1, <1>2 DEF WholeFrames

\* One frame more.
LEMMA WholeNext ==
  ASSUME NEW n \in Nat
  PROVE  WholeFrames(n) \o [i \in 1..FrameLen |-> <<n + 1, i>>] = WholeFrames(n + 1)
<1> DEFINE old  == WholeFrames(n)
           new  == [i \in 1..FrameLen |-> <<n + 1, i>>]
           both == WholeFrames(n + 1)
<1>1. FrameLen \in Nat \ {0}
  BY ConstantsAssumption DEF ConstantsAssumption
<1>2. (n + 1) * FrameLen = n * FrameLen + FrameLen
  BY <1>1
<1>3. old \in Seq(Nat \X Nat) /\ Len(old) = n * FrameLen /\ n * FrameLen \in Nat
  BY WholeLength
<1>4. both \in Seq(Nat \X Nat) /\ Len(both) = n * FrameLen + FrameLen
  BY <1>2, WholeLength, n + 1 \in Nat
<1>5. new \in Seq(Nat \X Nat) /\ Len(new) = FrameLen
  BY <1>1
<1>6. \A i \in 1..Len(old) : both[i] = old[i]
  <2> SUFFICES ASSUME NEW i \in 1..(n * FrameLen) PROVE both[i] = old[i]
    BY <1>3
  <2>1. i \in 1..((n + 1) * FrameLen)
    BY <1>1, <1>2, <1>3
  <2> QED
    BY <2>1 DEF WholeFrames
<1>7. \A k \in 1..Len(new) : both[Len(old) + k] = new[k]
  <2> SUFFICES ASSUME NEW k \in 1..FrameLen
               PROVE  both[n * FrameLen + k] = <<n + 1, k>>
    BY <1>3, <1>5
  <2>1. n * FrameLen + k \in 1..((n + 1) * FrameLen)
    BY <1>1, <1>2, <1>3
  <2>2. (n * FrameLen + k) - 1 = n * FrameLen + (k - 1) /\ k - 1 \in 0..(FrameLen - 1)
    BY <1>1, <1>3
  <2>3. /\ (n * FrameLen + (k - 1)) \div FrameLen = n
        /\ (n * FrameLen + (k - 1)) % FrameLen = k - 1
    BY <1>1, <2>2, UnitOfFrame
  <2> QED
    BY <1>1, <2>1, <2>2, <2>3 DEF WholeFrames
<1>8. Len(both) = Len(old) + Len(new)
  BY <1>3, <1>4, <1>5
<1> HIDE DEF old, new, both
<1>9. old \o new = both
  BY <1>3, <1>4, <1>5, <1>6, <1>7, <1>8, Concatenation
<1> QED
  BY <1>9 DEF old, new, both

\* main and the tracker save nothing, and the frames counted stay.
LEMMA OthersSave ==
  SafeInv /\ WholeInv /\ (MainStep \/ TrackerStep \/ Signal \/ UNCHANGED vars)
    => WholeInv'
<1> SUFFICES ASSUME SafeInv, WholeInv,
                    MainStep \/ TrackerStep \/ Signal \/ UNCHANGED vars
             PROVE  WholeInv'
  OBVIOUS
<1>1. UNCHANGED <<data, encCount>>
  BY DEF MainStep, InitVi, Capture, StartStream, CreateSaver, LoadWork,
         StoreWork, Wait, CloseVi, MtInit, CreateTracker, MtExit, JoinTracker,
         Open, Try, Close, NoThread, TrackerStep, Signal, vars, params
<1>2. saver' = saver \/ (saver = "none" /\ saver' \in {"none", "open"})
  BY DEF MainStep, InitVi, Capture, StartStream, CreateSaver, LoadWork,
         StoreWork, Wait, CloseVi, MtInit, CreateTracker, MtExit, JoinTracker,
         Open, Try, Close, NoThread, TrackerStep, Signal, vars, Goes, SafeInv,
         HandleInv, WorkInv, BeforeSaver
<1>3. FramesDone' = FramesDone
  BY <1>1, <1>2 DEF FramesDone, data
<1> QED
  BY <1>1, <1>3 DEF WholeInv, data, WholeFrames

\* The saver appends one whole frame, or the file is spoilt.
LEMMA SaverSaves == SafeInv /\ WholeInv /\ SaverStep => WholeInv'
<1> SUFFICES ASSUME SafeInv, WholeInv, SaverStep, ~spoilt'
             PROVE  saved' = WholeFrames(FramesDone')
  BY DEF WholeInv, WholeFrames, FramesDone
<1> USE DEF SafeInv, LoopInv, TypeOK, FramesDone, Moves, Then, Venc, WithFrame,
            WithFile
<1>1. CASE OpenFile
  <2>1. ~spoilt /\ saved' = saved /\ FramesDone = 0 /\ FramesDone' = 0
    BY <1>1 DEF OpenFile, params
  <2> QED
    BY <2>1 DEF WholeInv
<1>2. ASSUME NEW k \in 1..rest, Fwrite(k)
      PROVE  saved' = WholeFrames(FramesDone')
  <2>1. k = rest /\ ~spoilt
    BY <1>2 DEF Fwrite
  <2>2. k = FrameLen
    BY <1>2, <2>1 DEF Fwrite
  <2>3. /\ FramesDone \in Nat
        /\ FramesDone = encCount - left
        /\ FramesDone' = FramesDone + 1
    BY <1>2, <2>1 DEF Fwrite, params
  <2>4. saved' = saved \o [i \in 1..FrameLen |-> <<FramesDone + 1, i>>]
    BY <1>2, <2>2, <2>3 DEF Fwrite
  <2> HIDE DEF FramesDone
  <2>5. saved = WholeFrames(FramesDone)
    BY <2>1 DEF WholeInv
  <2> QED
    BY <2>3, <2>4, <2>5, WholeNext
<1>3. ~NoFile
  BY DEF NoFile, HandleInv, FileHandles, data
<1>4. CASE ReleaseStream
  <2>1. ~spoilt /\ saved' = saved /\ FramesDone' = FramesDone
    BY <1>4 DEF ReleaseStream, params
  <2> QED
    BY <2>1 DEF WholeInv
<1>5. CASE \/ OpenFw \/ GetStream \/ DiskFull \/ WriteStats \/ CloseFiles
           \/ StopStream \/ WorkDone
  <2>1. ~spoilt /\ saved' = saved /\ UNCHANGED <<left, encCount>>
    BY <1>5 DEF OpenFw, GetStream, DiskFull, WriteStats, CloseFiles,
                StopStream, WorkDone, SaverCrashes, data, params
  <2>2. /\ saver \in {"stats", "release"} <=> saver' \in {"stats", "release"}
        /\ saver \in {"none", "open"} <=> saver' \in {"none", "open"}
    BY <1>5 DEF OpenFw, GetStream, DiskFull, WriteStats, CloseFiles,
                StopStream, WorkDone, SaverCrashes, AfterFiles
  <2>3. FramesDone' = FramesDone
    BY <2>1, <2>2
  <2> QED
    BY <2>1, <2>3 DEF WholeInv
<1> QED
  BY <1>1, <1>2, <1>3, <1>4, <1>5 DEF SaverStep

\* The file is whole throughout.
LEMMA AlwaysWhole == Spec => []WholeInv
<1>1. Init => WholeInv
  BY NoFrames DEF Init, WholeInv, FramesDone
<1>2. SafeInv /\ WholeInv /\ [Next]_vars => WholeInv'
  BY OthersSave, SaverSaves DEF Next
<1> QED
  BY <1>1, <1>2, AlwaysSafe, PTL DEF Spec

\* The stream file holds whole frames in order, as many as were asked for
\* when it is closed, unless it could not be opened or a write was short.
THEOREM FramesSavedWhole == Spec => []SavedWhole
<1>1. SafeInv /\ WholeInv => SavedWhole
  <2> SUFFICES ASSUME SafeInv, WholeInv, ~spoilt
               PROVE  LET whole == Len(saved) \div FrameLen
                      IN /\ saved = WholeFrames(whole)
                         /\ saver \notin {"none", "open"} =>
                              whole \in {encCount - left, encCount - left + 1}
                         /\ saver \in {"closeFw", "join", "cancel", "closeEnc",
                                       "load", "store", "done"} =>
                              whole = encCount
    BY DEF SavedWhole, WholeFrames
  <2>1. FramesDone \in Nat
    BY DEF SafeInv, TypeOK, LoopInv, FramesDone, WithFrame, WithFile
  <2>2. Len(saved) = FramesDone * FrameLen
    BY <2>1, WholeLength DEF WholeInv
  <2>3. FrameLen \in Nat \ {0} /\ 0 \in 0..(FrameLen - 1)
    BY ConstantsAssumption DEF ConstantsAssumption
  <2>4. (FramesDone * FrameLen + 0) \div FrameLen = FramesDone
    BY <2>1, <2>3, UnitOfFrame
  <2>5. FramesDone * FrameLen \in Nat
    BY <2>1, WholeLength
  <2>6. Len(saved) \div FrameLen = FramesDone
    BY <2>2, <2>4, <2>5
  <2>7. saver \notin {"none", "open"} =>
          FramesDone \in {encCount - left, encCount - left + 1}
    BY DEF SafeInv, TypeOK, FramesDone
  <2>8. saver \in {"closeFw", "join", "cancel", "closeEnc", "load", "store",
                   "done"} => FramesDone = encCount
    BY DEF SafeInv, TypeOK, LoopInv, FramesDone, WithFile, WithFrame
  <2> QED
    BY <2>6, <2>7, <2>8 DEF WholeInv
<1> QED
  BY <1>1, AlwaysSafe, AlwaysWhole, PTL

-----------------------------------------------------------------------------
(***************************************************************************)
(* The demos keep the discipline of Handles, their threads included.       *)
(***************************************************************************)
HandleStep == [H!Next]_InUse

\* Who uses what.
LEMMA Users ==
  /\ Handle = {"ipc", "vi", "capture", "ptz", "mt", "venc", "stream", "frame",
               "fp", "fw", "saver", "tracker"}
  /\ Needs["ipc"] = {} /\ Needs["vi"] = {} /\ Needs["capture"] = {"vi"}
  /\ Needs["ptz"] = {} /\ Needs["mt"] = {} /\ Needs["venc"] = {}
  /\ Needs["stream"] = {"vi", "venc"} /\ Needs["frame"] = {"stream"}
  /\ Needs["fp"] = {} /\ Needs["fw"] = {} /\ Needs["saver"] = {"stream"}
  /\ Needs["tracker"] = {"vi", "mt", "ptz"}
BY DEF Handle, Needs

\* What opens one handle opens it.
LEMMA OpensOne ==
  ASSUME NEW h \in Handle, Needs[h] \subseteq InUse,
         h \notin InUse, InUse' = InUse \cup {h}
  PROVE  HandleStep
BY DEF HandleStep, H!Next, H!Open

\* What closes one handle, if it was open, closes it.
LEMMA ClosesOne ==
  ASSUME NEW h \in Handle, \A user \in InUse : h \notin Needs[user],
         InUse' = InUse \ {h}
  PROVE  HandleStep
<1>1. CASE h \in InUse
  BY <1>1 DEF HandleStep, H!Next, H!Close
<1>2. CASE h \notin InUse
  BY <1>2 DEF HandleStep
<1> QED
  BY <1>1, <1>2

\* A program that ends leaves nothing open.
LEMMA ClosesAll == ASSUME InUse' = {} PROVE HandleStep
BY DEF HandleStep, H!Next, H!End

\* The threads that hold on to something.
Threads ==
  (IF Runs /\ saver \in Saving THEN {"saver"} ELSE {})
    \cup (IF Runs /\ tracker \notin {"none", "done"} THEN {"tracker"} ELSE {})

\* What is in use is what is open and what the threads are.
LEMMA InUseIs == InUse = open \cup Threads /\ Threads \subseteq {"saver", "tracker"}
BY DEF InUse, Threads

\* A call that changes no handle.
LEMMA ChangesNone ==
  ASSUME open' = open, Threads' = Threads PROVE HandleStep
BY InUseIs DEF HandleStep, InUse, Threads

\* A call of main or of the saver that opens h.
LEMMA CallOpens ==
  ASSUME NEW h \in Handle \ {"saver", "tracker"}, Needs[h] \subseteq open,
         h \notin open, open' = open \cup {h}, Threads' = Threads
  PROVE  HandleStep
<1>1. h \notin InUse /\ Needs[h] \subseteq InUse
  BY InUseIs
<1>2. InUse' = InUse \cup {h}
  BY DEF InUse, Threads
<1> QED
  BY <1>1, <1>2, OpensOne

\* A call that closes h.
LEMMA CallCloses ==
  ASSUME NEW h \in Handle \ {"saver", "tracker"},
         \A user \in InUse : h \notin Needs[user],
         open' = open \ {h}, Threads' = Threads
  PROVE  HandleStep
<1>1. InUse' = InUse \ {h}
  BY DEF InUse, Threads
<1> QED
  BY <1>1, ClosesOne

\* When nobody uses a handle.
LEMMA NobodyUses ==
  ASSUME TypeOK
  PROVE  /\ \A h \in {"ipc", "capture", "frame", "fp", "fw"} :
              \A user \in InUse : h \notin Needs[user]
         /\ "capture" \notin open /\ "stream" \notin open /\ "tracker" \notin Threads
              => \A user \in InUse : "vi" \notin Needs[user]
         /\ "stream" \notin open => \A user \in InUse : "venc" \notin Needs[user]
         /\ "frame" \notin open /\ "saver" \notin Threads
              => \A user \in InUse : "stream" \notin Needs[user]
         /\ "tracker" \notin Threads
              => \A user \in InUse : "mt" \notin Needs[user] /\ "ptz" \notin Needs[user]
<1>1. InUse \subseteq Handle
  BY InUseIs, Users DEF TypeOK
<1>2. \A user \in {"capture", "stream", "frame", "saver", "tracker"} :
        user \in InUse => user \in open \/ user \in Threads
  BY InUseIs
<1>3. /\ "capture" \notin Threads /\ "stream" \notin Threads /\ "frame" \notin Threads
      /\ "saver" \notin open /\ "tracker" \notin open
  BY InUseIs DEF TypeOK
<1> QED
  BY <1>1, <1>2, <1>3, Users

\* main starts threads in two places, and outlives those it waited for.
LEMMA MainThreads ==
  ASSUME SafeInv, MainStep, ~CreateSaver, ~CreateTracker, main' # "crashed"
  PROVE  Threads' = Threads
<1>1. saver' = saver /\ tracker' = tracker
  BY DEF MainStep, InitVi, Capture, StartStream, LoadWork, StoreWork, Wait,
         CloseVi, MtInit, MtExit, JoinTracker, Open, Try, Close, NoThread
<1>2. Runs
  BY DEF Runs, MainStep, InitVi, Capture, StartStream, LoadWork, StoreWork,
         Wait, CloseVi, MtInit, MtExit, JoinTracker, Open, Try, Close, Goes
<1>3. CASE main' = "return"
  <2>1. main \in {"dir", "args", "match", "vi", "attr", "capture", "closeVi",
                  "unregister"}
    BY <1>3 DEF MainStep, InitVi, Capture, StartStream, LoadWork, StoreWork,
         Wait, CloseVi, MtInit, MtExit, JoinTracker, Open, Try, Close, Goes,
         Then, Dies
  <2>2. saver \in {"none", "done"} /\ tracker \in {"none", "done"}
    BY <2>1 DEF SafeInv, HandleInv, WorkInv, TrackerHandles, BeforeSaver,
                Leaving
  <2> QED
    BY <1>1, <2>2 DEF Threads, Saving
<1>4. CASE main' # "return"
  <2>1. Runs'
    BY <1>4 DEF Runs, MainStep, InitVi, Capture, StartStream, LoadWork,
         StoreWork, Wait, CloseVi, MtInit, MtExit, JoinTracker, Open, Try,
         Close, Goes, Then, Dies
  <2> QED
    BY <1>1, <1>2, <2>1 DEF Threads
<1> QED
  BY <1>3, <1>4

\* main opens what it needs first and closes what nobody uses.
LEMMA MainHandlesWell == SafeInv /\ MainStep => HandleStep
<1> SUFFICES ASSUME SafeInv, MainStep PROVE HandleStep
  OBVIOUS
<1>1. CASE CreateSaver
  <2>1. main = "create" /\ open' = open /\ saver = "none" /\ "stream" \in open
    BY <1>1 DEF CreateSaver, Goes, SafeInv, HandleInv, WorkInv, StreamHandles,
                BeforeSaver
  <2>2. InUse' = InUse \/ (InUse' = InUse \cup {"saver"} /\ "saver" \notin InUse)
    BY <1>1, <2>1 DEF CreateSaver, Goes, InUse, Runs, Saving, SafeInv, TypeOK
  <2>3. Needs["saver"] \subseteq InUse /\ "saver" \in Handle
    BY <2>1, Users DEF InUse
  <2> QED
    BY <2>2, <2>3, OpensOne DEF HandleStep
<1>2. CASE CreateTracker
  <2>1. /\ main = "tracker" /\ open' = open /\ tracker = "none"
        /\ {"vi", "mt", "ptz"} \subseteq open
    BY <1>2 DEF CreateTracker, Goes, SafeInv, HandleInv, MainHandles, WithVi,
                TrackerHandles, BeforeSaver
  <2>2. InUse' = InUse \/ (InUse' = InUse \cup {"tracker"} /\ "tracker" \notin InUse)
    BY <1>2, <2>1 DEF CreateTracker, Goes, InUse, Runs, SafeInv, TypeOK
  <2>3. Needs["tracker"] \subseteq InUse /\ "tracker" \in Handle
    BY <2>1, Users DEF InUse
  <2> QED
    BY <2>2, <2>3, OpensOne DEF HandleStep
<1>3. CASE main' = "crashed"
  <2>1. InUse' = {}
    BY <1>3 DEF MainStep, InitVi, Capture, StartStream, CreateSaver, LoadWork,
         StoreWork, Wait, CloseVi, MtInit, CreateTracker, MtExit, JoinTracker,
         Open, Try, Close, Goes, Then, Dies, InUse, Runs
  <2> QED
    BY <2>1, ClosesAll
<1> SUFFICES ASSUME ~CreateSaver, ~CreateTracker, main' # "crashed"
             PROVE  HandleStep
  BY <1>1, <1>2, <1>3
<1>4. Threads' = Threads
  BY MainThreads
<1> USE DEF SafeInv, HandleInv, MainHandles, Goes, Then
<1>5. CASE InitVi
  <2>1. CASE Venc /\ Open("ipc", "ipc", "dir", "dir")
    <3>1. "ipc" \notin open
      BY <2>1 DEF Open
    <3> QED
      BY <1>4, <2>1, <3>1, Users, CallOpens, ChangesNone DEF Open
  <2>2. CASE Open("vi", "vi", "attr", "return")
    <3>1. "vi" \notin open
      BY <2>2 DEF Open, WithVi, BeforeSaver, Leaving
    <3> QED
      BY <1>4, <2>2, <3>1, Users, CallOpens, ChangesNone DEF Open
  <2>3. CASE main = "attr" /\ open' = ViClosed
    <3>1. "capture" \notin open /\ "stream" \notin open
      BY <2>3 DEF WorkInv, StreamHandles, BeforeSaver, Saving
    <3>2. "tracker" \notin Threads
      BY <2>3 DEF TrackerHandles, BeforeSaver, Threads
    <3> QED
      BY <1>4, <2>3, <3>1, <3>2, NobodyUses, Users, CallCloses DEF ViClosed
  <2>4. CASE open' = open
    BY <1>4, <2>4, ChangesNone
  <2> QED
    BY <1>5, <2>1, <2>2, <2>3, <2>4 DEF InitVi, Try
<1>6. CASE Capture
  <2>1. "capture" \notin open /\ "stream" \notin open /\ "tracker" \notin Threads
    BY <1>6 DEF Capture, Open, WorkInv, StreamHandles, TrackerHandles,
                BeforeSaver, Saving, Threads, Venc
  <2>2. "vi" \in open
    BY <1>6 DEF Capture, Open, WithVi, BeforeSaver
  <2>3. CASE open' = open \cup {"capture"}
    BY <1>4, <2>1, <2>2, <2>3, Users, CallOpens
  <2>4. CASE open' = open
    BY <1>4, <2>4, ChangesNone
  <2>5. CASE open' = open \ {"vi"}
    BY <1>4, <2>1, <2>5, NobodyUses, Users, CallCloses
  <2> QED
    BY <1>6, <2>3, <2>4, <2>5 DEF Capture, Open, ViClosed
<1>7. CASE StartStream
  <2>1. CASE main = "encoder" /\ open' = open \cup {"venc"}
    <3>1. "venc" \notin open
      BY <2>1 DEF StreamHandles, BeforeSaver
    <3> QED
      BY <1>4, <2>1, <3>1, Users, CallOpens
  <2>2. CASE main = "stream" /\ open' = open \cup {"stream"}
    <3>1. "stream" \notin open /\ "venc" \in open
      BY <2>2 DEF WorkInv, StreamHandles, BeforeSaver, Saving
    <3>2. "vi" \in open
      BY <2>2 DEF WithVi, BeforeSaver
    <3> QED
      BY <1>4, <2>2, <3>1, <3>2, Users, CallOpens
  <2>3. CASE open' = open
    BY <1>4, <2>3, ChangesNone
  <2> QED
    BY <1>7, <2>1, <2>2, <2>3 DEF StartStream, Open
<1>8. CASE LoadWork \/ StoreWork \/ Wait
  BY <1>4, <1>8, ChangesNone DEF LoadWork, StoreWork, Wait
<1>9. CASE CloseVi
  <2>1. CASE main = "off" /\ open' = open \ {"capture"}
    BY <1>4, <2>1, NobodyUses, Users, CallCloses
  <2>2. CASE main = "closeVi" /\ open' = open \ {"vi"}
    <3>1. "capture" \notin open /\ "stream" \notin open
      BY <2>2 DEF WorkInv, StreamHandles, Leaving, Saving
    <3>2. "tracker" \notin Threads
      BY <2>2 DEF TrackerHandles, Threads
    <3> QED
      BY <1>4, <2>2, <3>1, <3>2, NobodyUses, Users, CallCloses
  <2>3. CASE main = "unregister" /\ open' = open \ {"ipc"}
    BY <1>4, <2>3, NobodyUses, Users, CallCloses
  <2> QED
    BY <1>9, <2>1, <2>2, <2>3 DEF CloseVi, Close
<1>10. CASE MtInit
  <2>1. CASE main = "ptz" /\ open' = open \cup {"ptz"}
    <3>1. "ptz" \notin open
      BY <2>1
    <3> QED
      BY <1>4, <2>1, <3>1, Users, CallOpens
  <2>2. CASE main = "mt" /\ open' = open \cup {"mt"}
    <3>1. "mt" \notin open
      BY <2>2
    <3> QED
      BY <1>4, <2>2, <3>1, Users, CallOpens
  <2>3. CASE open' = open
    BY <1>4, <2>3, ChangesNone
  <2> QED
    BY <1>10, <2>1, <2>2, <2>3 DEF MtInit, Open
<1>11. CASE MtExit
  <2>1. CASE main \in {"destroy", "closePtz"}
    <3>1. "tracker" \notin Threads
      BY <2>1 DEF TrackerHandles, Threads
    <3>2. open' = open \ {"mt"} \/ open' = open \ {"ptz"}
      BY <1>11, <2>1 DEF MtExit, Close
    <3> QED
      BY <1>4, <3>1, <3>2, NobodyUses, Users, CallCloses
  <2>2. CASE open' = open
    BY <1>4, <2>2, ChangesNone
  <2> QED
    BY <1>11, <2>1, <2>2 DEF MtExit, Close
<1>12. CASE JoinTracker
  BY <1>4, <1>12, ChangesNone DEF JoinTracker, Dies
<1> QED
  BY <1>5, <1>6, <1>7, <1>8, <1>9, <1>10, <1>11, <1>12 DEF MainStep

\* The saver's thread holds on to its stream until it is through with it.
LEMMA SaverThreads ==
  ASSUME SafeInv, SaverStep, main' # "crashed", ~StopStream
  PROVE  Threads' = Threads
<1>1. /\ UNCHANGED <<main, tracker>> /\ Runs
      /\ saver \in Saving <=> saver' \in Saving
  BY DEF SafeInv, HandleInv, StreamHandles, SaverStep, OpenFile, OpenFw,
         GetStream, DiskFull, NoFile, Fwrite, WriteStats, ReleaseStream,
         CloseFiles, WorkDone, SaverCrashes, Dies, Moves, Then, AfterFiles,
         Saving
<1> QED
  BY <1>1 DEF Threads, Runs

\* The saver opens what it needs first and closes what nobody uses.
LEMMA SaverHandlesWell == SafeInv /\ SaverStep => HandleStep
<1> SUFFICES ASSUME SafeInv, SaverStep PROVE HandleStep
  OBVIOUS
<1> USE DEF SafeInv, HandleInv, StreamHandles, FileHandles
<1>1. CASE main' = "crashed"
  <2>1. ~Runs'
    BY <1>1 DEF Runs
  <2>2. open' = {}
    BY <1>1 DEF SaverStep, OpenFile, OpenFw,
         GetStream, DiskFull, NoFile, Fwrite, WriteStats, ReleaseStream,
         CloseFiles, StopStream, WorkDone, SaverCrashes, Dies, Moves, Runs
  <2>3. InUse' = {}
    BY <2>1, <2>2 DEF InUse
  <2> QED
    BY <2>3, ClosesAll
<1>2. CASE StopStream
  <2>1. CASE Moves("join", "cancel") /\ open' = open
    <3>1. InUse' = InUse \ {"saver"}
      BY <1>2, <2>1 DEF StopStream, Moves, InUse, Runs, Saving, TypeOK
    <3>2. \A user \in InUse : "saver" \notin Needs[user]
      BY InUseIs, Users DEF TypeOK
    <3> QED
      BY <3>1, <3>2, ClosesOne, Users
  <2>2. CASE saver # "join" /\ saver' # "join"
    <3>1. Threads' = Threads /\ "saver" \notin Threads
      BY <1>2, <2>2 DEF StopStream, Moves, Threads, Runs, Saving
    <3>2. CASE saver = "cancel" /\ open' = open \ {"stream"}
      <4>1. "frame" \notin open
        BY <3>2 DEF WithFrame
      <4> QED
        BY <3>1, <3>2, <4>1, NobodyUses, Users, CallCloses
    <3>3. CASE saver = "closeEnc" /\ open' = open \ {"venc"}
      <4>1. "stream" \notin open
        BY <3>3 DEF Saving
      <4> QED
        BY <3>1, <3>3, <4>1, NobodyUses, Users, CallCloses
    <3> QED
      BY <1>2, <2>2, <3>2, <3>3 DEF StopStream, Moves
  <2> QED
    BY <1>2, <2>1, <2>2 DEF StopStream, Moves
<1> SUFFICES ASSUME main' # "crashed", ~StopStream PROVE HandleStep
  BY <1>1, <1>2
<1>3. Threads' = Threads
  BY SaverThreads
<1>4. CASE OpenFile
  <2>1. "fp" \notin open
    BY <1>4 DEF OpenFile, Moves, WithFile, WithFrame
  <2> QED
    BY <1>3, <1>4, <2>1, Users, CallOpens, ChangesNone DEF OpenFile
<1>5. CASE OpenFw
  <2>1. "fw" \notin open
    BY <1>5 DEF OpenFw, Moves
  <2> QED
    BY <1>3, <1>5, <2>1, Users, CallOpens, ChangesNone DEF OpenFw
<1>6. CASE GetStream
  <2>1. "frame" \notin open /\ "stream" \in open
    BY <1>6 DEF GetStream, Moves, WithFrame, Saving
  <2> QED
    BY <1>3, <1>6, <2>1, Users, CallOpens DEF GetStream
<1>7. CASE ReleaseStream
  BY <1>3, <1>7, NobodyUses, Users, CallCloses DEF ReleaseStream
<1>8. CASE CloseFiles
  BY <1>3, <1>8, NobodyUses, Users, CallCloses
     DEF CloseFiles, SaverCrashes, Dies
<1>9. CASE \/ DiskFull \/ NoFile \/ WriteStats \/ WorkDone
           \/ \E k \in 1..rest : Fwrite(k)
  BY <1>3, <1>9, ChangesNone
     DEF DiskFull, NoFile, WriteStats, WorkDone, Fwrite, SaverCrashes, Dies
<1> QED
  BY <1>4, <1>5, <1>6, <1>7, <1>8, <1>9 DEF SaverStep

\* The tracker lets go of everything at once.
LEMMA TrackerHandlesWell == SafeInv /\ TrackerStep => HandleStep
<1> SUFFICES ASSUME SafeInv, TrackerStep PROVE HandleStep
  OBVIOUS
<1>1. CASE tracker' = "done"
  <2>1. InUse' = InUse \ {"tracker"}
    BY <1>1 DEF TrackerStep, InUse, Runs, SafeInv, TypeOK
  <2>2. \A user \in InUse : "tracker" \notin Needs[user]
    BY InUseIs, Users DEF SafeInv, TypeOK
  <2> QED
    BY <2>1, <2>2, ClosesOne, Users
<1>2. CASE tracker' # "done"
  <2>1. Threads' = Threads /\ open' = open
    BY <1>2 DEF TrackerStep, Threads, Runs
  <2> QED
    BY <2>1, ChangesNone
<1> QED
  BY <1>1, <1>2

\* Every step is a step of Handles, or changes no handle.
LEMMA NextHandlesWell == SafeInv /\ [Next]_vars => HandleStep
<1>1. Signal => HandleStep
  <2>1. Signal => InUse' = {}
    BY DEF Signal, Dies, InUse, Runs
  <2> QED
    BY <2>1, ClosesAll
<1>2. UNCHANGED vars => HandleStep
  BY ChangesNone DEF vars, Threads, Runs
<1> QED
  BY <1>1, <1>2, MainHandlesWell, SaverHandlesWell, TrackerHandlesWell DEF Next

\* No handle is opened twice or closed under a handle or a thread that uses
\* it, whatever fails and however the three threads interleave.
THEOREM HandlesKept == Spec => HandleSpec
<1>1. Init => H!Init
  BY DEF Init, H!Init, InUse, Saving
<1> QED
  BY <1>1, NextHandlesWell, AlwaysSafe, PTL DEF Spec, HandleSpec, H!Spec, HandleStep

\* So at no time does a handle or a thread go on working on something that was
\* given back.
THEOREM NothingDangles == Spec => [](\A h \in InUse : Needs[h] \subseteq InUse)
<1> DEFINE Sound == \A h \in InUse : Needs[h] \subseteq InUse
<1>1. H!Init => Sound
  BY DEF H!Init
<1>2. Sound /\ [H!Next]_InUse => Sound'
  <2> SUFFICES ASSUME Sound, [H!Next]_InUse PROVE Sound'
    OBVIOUS
  <2>1. CASE \E h \in Handle : H!Open(h)
    BY <2>1 DEF H!Open
  <2>2. CASE \E h \in Handle : H!Close(h)
    BY <2>2 DEF H!Close
  <2>3. CASE H!End
    BY <2>3 DEF H!End
  <2> QED
    BY <2>1, <2>2, <2>3 DEF H!Next
<1> QED
  BY <1>1, <1>2, HandlesKept, PTL DEF HandleSpec, H!Spec
=============================================================================
