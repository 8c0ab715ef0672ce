-------------------------- MODULE MediaProgramProofs --------------------------
(***************************************************************************)
(* For any set of calls that fail, any number of frames, any length of the *)
(* file and of a block: the one-threaded programs of the media libraries   *)
(* close no handle that something is made from, give everything back, and  *)
(* neither reorder nor repeat what they record and play, nor drop what no  *)
(* call that failed has cost them.                                         *)
(***************************************************************************)
EXTENDS MediaProgram, SequenceTheorems, TLAPS

(***************************************************************************)
(* Where the programs hold what: each set is the labels of main between    *)
(* the call that opens a handle and the one that closes it.  They are      *)
(* nested, since the cascades close in the opposite order.                 *)
(***************************************************************************)
EncStream  == {"record", "write", "cancel"}
EncAenc    == EncStream \cup {"request", "closeEnc"}
EncCapture == EncAenc \cup {"aenc", "stopAi"}
EncAi      == EncCapture \cup {"capture", "closeAi"}
EncFile    == EncAi \cup {"ipc", "ai", "closeFile"}

\* ak_aencode.  The command server and the capture are optional.
EncHandles ==
  /\ pc \in EncFile \cup {"start", "unregister", "return", "killed"}
  /\ open \subseteq {"file", "ipc", "ai", "aiCapture", "aenc", "aencStream"}
  /\ "file" \in open <=> pc \in EncFile
  /\ "ipc" \in open => pc \in (EncFile \ {"ipc"}) \cup {"unregister"}
  /\ "ai" \in open <=> pc \in EncAi
  /\ "aiCapture" \in open => pc \in EncCapture
  /\ "aenc" \in open <=> pc \in EncAenc
  /\ "aencStream" \in open <=> pc \in EncStream

DecStream  == {"head", "read", "send", "notice", "cancel"}
DecAdec    == DecStream \cup {"request", "closeDec"}
DecSpeaker == DecAdec \cup {"adec", "speakerOff"}
DecAo      == DecSpeaker \cup {"speaker", "closeAo"}
DecFile    == DecAo \cup {"ipc", "ao", "closeFile"}

\* ak_adec_demo.  The command server and the amplifier are optional.
DecHandles ==
  /\ pc \in DecFile \cup {"start", "unregister", "return", "killed"}
  /\ open \subseteq {"file", "ipc", "ao", "speaker", "adec", "adecStream"}
  /\ "file" \in open <=> pc \in DecFile
  /\ "ipc" \in open => pc \in (DecFile \ {"ipc"}) \cup {"unregister"}
  /\ "ao" \in open <=> pc \in DecAo
  /\ "speaker" \in open => pc \in DecSpeaker
  /\ "adec" \in open <=> pc \in DecAdec
  /\ "adecStream" \in open <=> pc \in DecStream

DetectMd      == {"setup", "detect", "clock", "destroy"}
DetectCapture == DetectMd \cup {"md", "stopVi"}
DetectVi      == DetectCapture \cup {"attr", "capture", "closeVi"}

\* ak_md_demo.
DetectHandles ==
  /\ pc \in DetectVi \cup {"start", "vi", "return", "killed"}
  /\ open \subseteq {"vi", "viCapture", "md"}
  /\ "vi" \in open <=> pc \in DetectVi
  /\ "viCapture" \in open <=> pc \in DetectCapture
  /\ "md" \in open <=> pc \in DetectMd

OsdFrame   == {"flush", "save"}
OsdCapture == OsdFrame \cup {"font", "osd", "draw", "destroy", "stopVi"}
OsdVi      == OsdCapture \cup {"capture", "closeVi"}

\* ak_osd_demo.  The command server and the display may outlive the rest.
OsdHandles ==
  /\ pc \in OsdVi \cup {"start", "match", "vi", "unregister", "return", "killed"}
  /\ open \subseteq {"ipc", "vi", "viCapture", "osd", "frame"}
  /\ "ipc" \in open => pc \notin {"start", "killed"}
  /\ "vi" \in open <=> pc \in OsdVi
  /\ "viCapture" \in open => pc \in OsdCapture
  /\ "frame" \in open => pc \in OsdFrame
  /\ "osd" \in open => pc \notin {"start", "match", "vi", "capture", "font", "osd"}
  /\ count \in 0..4
  /\ pc = "save" => count \in 0..1

HandleInv ==
  /\ program \in Programs
  /\ program = "enc" => EncHandles
  /\ program = "dec" => DecHandles
  /\ program = "detect" => DetectHandles
  /\ program = "osd" => OsdHandles
  /\ program # "osd" => count = 0

-----------------------------------------------------------------------------
(***************************************************************************)
(* The handles.                                                            *)
(***************************************************************************)
\* At the start nothing is open.
LEMMA InitHandles == Init => HandleInv
  BY DEF Init, HandleInv, Programs, EncHandles, DecHandles, DetectHandles,
         OsdHandles, EncFile, EncAi, EncCapture, EncAenc, EncStream, DecFile,
         DecAo, DecSpeaker, DecAdec, DecStream, DetectVi, DetectCapture, DetectMd,
         OsdVi, OsdCapture, OsdFrame

\* ak_aencode opens and closes in the order of its labels.
LEMMA EncKeepsHandles ==
  ASSUME HandleInv, EncStep PROVE EncHandles' /\ UNCHANGED <<program, amr, count>>
  <1> USE DEF EncHandles, EncFile, EncAi, EncCapture, EncAenc, EncStream
  <1>1. EncHandles /\ program = "enc"
    BY DEF HandleInv, EncStep
  <1>2. CASE EncOpen
    BY <1>1, <1>2 DEF EncOpen, CreateRecordFile, Open, Goes, AencFailed
  <1>3. CASE RecordTimeUp \/ EncGetStream
    BY <1>1, <1>3 DEF RecordTimeUp, EncGetStream, Goes, AfterRecording
  <1>4. CASE EncWriteEntry
    BY <1>1, <1>4 DEF EncWriteEntry
  <1>5. CASE EncClose
    BY <1>1, <1>5 DEF EncClose, Close, Goes
  <1> QED
    BY <1>2, <1>3, <1>4, <1>5 DEF EncStep, CreateRecordFile, EncOpen, Open,
       RecordTimeUp, EncGetStream, EncWriteEntry, EncClose, Close

\* So does ak_adec_demo.
LEMMA DecKeepsHandles ==
  ASSUME HandleInv, DecStep \/ DecWaits
  PROVE  DecHandles' /\ UNCHANGED <<program, amr, count>>
  <1> USE DEF DecHandles, DecFile, DecAo, DecSpeaker, DecAdec, DecStream
  <1>1. DecHandles /\ program = "dec"
    BY DEF HandleInv, DecStep, DecWaits
  <1>2. CASE DecOpen
    BY <1>1, <1>2 DEF DecOpen, Open, Goes
  <1>3. CASE SkipHead
    BY <1>1, <1>3 DEF SkipHead, Goes
  <1>4. CASE ReadBlock
    BY <1>1, <1>4 DEF ReadBlock, AtEof
  <1>5. CASE SendStream
    BY <1>1, <1>5 DEF SendStream
  <1>6. CASE DecClose
    BY <1>1, <1>6 DEF DecClose, Close, Goes
  <1>7. CASE NoticeEnd
    BY <1>1, <1>7 DEF NoticeEnd, Goes
  <1> QED
    BY <1>2, <1>3, <1>4, <1>5, <1>6, <1>7 DEF DecStep, DecWaits, DecOpen, Open,
       SkipHead, ReadBlock, SendStream, NoticeEnd, DecClose, Close

\* And ak_md_demo.
LEMMA DetectKeepsHandles ==
  ASSUME HandleInv, DetectStep \/ DetectWaits
  PROVE  DetectHandles' /\ UNCHANGED <<program, amr, count>>
  <1> USE DEF DetectHandles, DetectVi, DetectCapture, DetectMd
  <1>1. DetectHandles /\ program = "detect"
    BY DEF HandleInv, DetectStep, DetectWaits
  <1>2. CASE DetectOpen
    BY <1>1, <1>2 DEF DetectOpen, Open, Try, FailAndClose, Close, Goes
  <1>3. CASE GetResult \/ DetectTimeUp \/ DetectAgain
    BY <1>1, <1>3 DEF GetResult, DetectTimeUp, DetectAgain, Goes
  <1>4. CASE DetectClose
    BY <1>1, <1>4 DEF DetectClose, Close, Goes
  <1> QED
    BY <1>2, <1>3, <1>4 DEF DetectStep, DetectWaits, DetectOpen, Open, Try,
       FailAndClose, Close, GetResult, DetectTimeUp, DetectAgain, DetectClose

\* And ak_osd_demo, which releases each frame before it takes the next.
LEMMA OsdKeepsHandles ==
  ASSUME HandleInv, OsdStep PROVE OsdHandles' /\ UNCHANGED <<program, amr>>
  <1> USE DEF OsdHandles, OsdVi, OsdCapture, OsdFrame
  <1>1. OsdHandles /\ program = "osd"
    BY DEF HandleInv, OsdStep
  <1>2. CASE OsdOpen
    BY <1>1, <1>2 DEF OsdOpen, Open, Try, Goes
  <1>3. CASE FlushFrame
    <2>1. CASE open' = open \cup {"frame"}
      BY <1>1, <1>3, <2>1 DEF FlushFrame
    <2>2. CASE open' = open \ {"frame"} /\ count = 4
      BY <1>1, <1>3, <2>2 DEF FlushFrame
    <2>3. CASE open' = open \ {"frame"} /\ count # 4
      <3>1. pc = "flush" /\ pc' = "flush"
        BY <1>1, <1>3, <2>3 DEF FlushFrame
      <3>2. count' \in 0..4
        BY <1>1, <1>3, <2>3 DEF FlushFrame
      <3> QED
        BY <1>1, <1>3, <2>3, <3>1, <3>2 DEF FlushFrame
    <2> QED
      BY <1>3, <2>1, <2>2, <2>3 DEF FlushFrame
  <1>4. CASE GetYuv
    BY <1>1, <1>4 DEF GetYuv
  <1>5. CASE ReleaseYuv
    BY <1>1, <1>5 DEF ReleaseYuv
  <1>6. CASE OsdClose
    BY <1>1, <1>6 DEF OsdClose, Close, Goes
  <1> QED
    BY <1>2, <1>3, <1>4, <1>5, <1>6, Zenon DEF OsdStep

\* A program that was killed holds nothing.
LEMMA SignalKeepsHandles == HandleInv /\ Signal => HandleInv'
  BY DEF HandleInv, Signal, EncHandles, DecHandles, DetectHandles,
         OsdHandles, EncFile, EncAi, EncCapture, EncAenc, EncStream, DecFile,
         DecAo, DecSpeaker, DecAdec, DecStream, DetectVi, DetectCapture, DetectMd,
         OsdVi, OsdCapture, OsdFrame

\* So every step keeps the handles of all four programs.
LEMMA NextKeepsHandles == HandleInv /\ [Next]_vars => HandleInv'
  <1> SUFFICES ASSUME HandleInv, [Next]_vars PROVE HandleInv'
    OBVIOUS
  <1>1. CASE EncStep
    BY <1>1, EncKeepsHandles DEF HandleInv, EncStep
  <1>2. CASE DecStep \/ DecWaits
    BY <1>2, DecKeepsHandles DEF HandleInv, DecStep, DecWaits
  <1>3. CASE DetectStep \/ DetectWaits
    BY <1>3, DetectKeepsHandles DEF HandleInv, DetectStep, DetectWaits
  <1>4. CASE OsdStep
    BY <1>4, OsdKeepsHandles DEF HandleInv, OsdStep
  <1>5. CASE UNCHANGED vars
    BY <1>5 DEF vars, HandleInv, EncHandles, DecHandles, DetectHandles, OsdHandles
  <1> QED
    BY <1>1, <1>2, <1>3, <1>4, <1>5, SignalKeepsHandles DEF Next, Step, Waits

\* It always holds.
LEMMA AlwaysHandles == Spec => []HandleInv
  BY InitHandles, NextKeepsHandles, PTL DEF Spec

\* A program that returns has given everything back, whichever call failed;
\* ak_osd_demo may leave the command server and the display (main's cascades).
THEOREM EverythingGivenBack == Spec => []NothingLeft
  <1>1. HandleInv => NothingLeft
    BY DEF HandleInv, Programs, NothingLeft, EncHandles, DecHandles, DetectHandles,
         OsdHandles, EncFile, EncAi, EncCapture, EncAenc, EncStream, DecFile,
         DecAo, DecSpeaker, DecAdec, DecStream, DetectVi, DetectCapture, DetectMd,
         OsdVi, OsdCapture, OsdFrame
  <1> QED
    BY <1>1, AlwaysHandles, PTL

-----------------------------------------------------------------------------
(***************************************************************************)
(* Every step as a step of Handles.                                        *)
(***************************************************************************)
HandleStep == [H!Next]_open

\* What the handles are.
LEMMA Handles15 ==
  Handle = {"file", "ipc", "ai", "aiCapture", "aenc", "aencStream", "ao", "speaker",
            "adec", "adecStream", "vi", "viCapture", "md", "osd", "frame"}
  BY DEF Handle, Needs

\* And what each is made from.
LEMMA Users ==
  \A user \in Handle, h \in Handle : h \in Needs[user] =>
    \/ h = "ai" /\ user \in {"aiCapture", "aencStream"}
    \/ h = "aenc" /\ user = "aencStream"
    \/ h = "ao" /\ user \in {"speaker", "adecStream"}
    \/ h = "adec" /\ user = "adecStream"
    \/ h = "vi" /\ user \in {"viCapture", "md", "frame"}
  BY DEF Handle, Needs

\* What has to be open when a handle is opened.
LEMMA NeedsAre ==
  /\ \A h \in {"file", "ipc", "ai", "aenc", "ao", "adec", "vi", "osd"} : Needs[h] = {}
  /\ Needs["aiCapture"] = {"ai"} /\ Needs["aencStream"] = {"ai", "aenc"}
  /\ Needs["speaker"] = {"ao"} /\ Needs["adecStream"] = {"ao", "adec"}
  /\ \A h \in {"viCapture", "md", "frame"} : Needs[h] = {"vi"}
  BY DEF Needs

\* A call that opens h where h is closed and what it needs is open.
LEMMA OpenHandles ==
  \A h \in Handle : \A from, to, failed :
    /\ Open(h, from, to, failed)
    /\ pc = from => h \notin open /\ Needs[h] \subseteq open
    => HandleStep
  BY DEF Open, Goes, HandleStep, H!Next, H!Open

\* A call that opens nothing.
LEMMA TryHandles ==
  \A call, from, to, failed : Try(call, from, to, failed) => HandleStep
  BY DEF Try, HandleStep

\* A call that closes h where nothing that is open uses h.
LEMMA CloseHandles ==
  \A h \in Handle : \A from, to :
    /\ Close(h, from, to)
    /\ pc = from => \A user \in open : h \notin Needs[user]
    => HandleStep
  <1> SUFFICES ASSUME NEW h \in Handle, NEW from, NEW to, Close(h, from, to),
                      pc = from => \A user \in open : h \notin Needs[user]
               PROVE  HandleStep
    OBVIOUS
  <1>1. CASE h \in open
    BY <1>1 DEF Close, Goes, HandleStep, H!Next, H!Close
  <1>2. CASE h \notin open
    BY <1>2 DEF Close, HandleStep
  <1> QED
    BY <1>1, <1>2

\* ak_aencode keeps the discipline: what a stream or a capture is made from
\* is open from a call before it to a call after it.
LEMMA EncHandlesWell == ASSUME HandleInv, EncStep PROVE HandleStep
  <1> USE DEF EncFile, EncAi, EncCapture, EncAenc, EncStream
  <1>1. EncHandles /\ open \subseteq Handle
    BY Handles15 DEF HandleInv, EncStep, EncHandles
  <1>2. CASE EncOpen
    <2>1. CASE CreateRecordFile
      BY <1>1, <2>1, NeedsAre, Handles15
         DEF EncHandles, CreateRecordFile, Goes, HandleStep, H!Next, H!Open
    <2>2. CASE ~CreateRecordFile
      BY <1>1, <1>2, <2>2, OpenHandles, NeedsAre, Handles15 DEF EncHandles, EncOpen
    <2> QED
      BY <2>1, <2>2
  <1>3. CASE RecordTimeUp \/ EncGetStream \/ EncWriteEntry
    BY <1>3 DEF RecordTimeUp, EncGetStream, EncWriteEntry, HandleStep
  <1>4. CASE EncClose
    BY <1>1, <1>4, CloseHandles, Users, Handles15 DEF EncHandles, EncClose
  <1> QED
    BY <1>2, <1>3, <1>4 DEF EncStep

\* So does ak_adec_demo.
LEMMA DecHandlesWell ==
  ASSUME HandleInv, DecStep \/ DecWaits PROVE HandleStep
  <1> USE DEF DecFile, DecAo, DecSpeaker, DecAdec, DecStream
  <1>1. DecHandles /\ open \subseteq Handle
    BY Handles15 DEF HandleInv, DecStep, DecWaits, DecHandles
  <1>2. CASE DecOpen
    BY <1>1, <1>2, OpenHandles, NeedsAre, Handles15 DEF DecHandles, DecOpen
  <1>3. CASE SkipHead \/ ReadBlock \/ SendStream \/ NoticeEnd
    BY <1>3 DEF SkipHead, ReadBlock, SendStream, NoticeEnd, HandleStep
  <1>4. CASE DecClose
    BY <1>1, <1>4, CloseHandles, Users, Handles15 DEF DecHandles, DecClose
  <1> QED
    BY <1>2, <1>3, <1>4 DEF DecStep, DecWaits

\* And ak_md_demo.
LEMMA DetectHandlesWell ==
  ASSUME HandleInv, DetectStep \/ DetectWaits PROVE HandleStep
  <1> USE DEF DetectVi, DetectCapture, DetectMd
  <1>1. DetectHandles /\ open \subseteq Handle
    BY Handles15 DEF HandleInv, DetectStep, DetectWaits, DetectHandles
  <1>2. CASE DetectOpen
    <2>1. CASE FailAndClose("attr", "vi", "attr")
      BY <1>1, <2>1, CloseHandles, Users, Handles15 DEF DetectHandles, FailAndClose
    <2>2. CASE /\ Goes("attr", "capture")
               /\ UNCHANGED <<program, amr, fileVars, open, dataVars, count>>
      BY <2>2 DEF HandleStep
    <2>3. CASE \/ Try("match", "start", "vi", "return")
               \/ Try("md_setup", "setup", "detect", "destroy")
      BY <2>3, TryHandles, Zenon
    <2>4. CASE \/ Open("vi", "vi", "attr", "return")
               \/ Open("viCapture", "capture", "md", "closeVi")
               \/ Open("md", "md", "setup", "stopVi")
      BY <1>1, <2>4, OpenHandles, NeedsAre, Handles15 DEF DetectHandles
    <2> QED
      BY <1>2, <2>1, <2>2, <2>3, <2>4, Zenon DEF DetectOpen
  <1>3. CASE GetResult \/ DetectTimeUp \/ DetectAgain
    BY <1>3 DEF GetResult, DetectTimeUp, DetectAgain, HandleStep
  <1>4. CASE DetectClose
    <2>1. CASE Close("md", "destroy", "stopVi")
      BY <1>1, <2>1, CloseHandles, Users, Handles15 DEF DetectHandles
    <2>2. CASE Close("viCapture", "stopVi", "closeVi")
      BY <1>1, <2>2, CloseHandles, Users, Handles15 DEF DetectHandles
    <2>3. CASE Close("vi", "closeVi", "return")
      BY <1>1, <2>3, CloseHandles, Users, Handles15 DEF DetectHandles
    <2> QED
      BY <1>4, <2>1, <2>2, <2>3 DEF DetectClose
  <1> QED
    BY <1>2, <1>3, <1>4 DEF DetectStep, DetectWaits

\* And ak_osd_demo, whose camera is open as long as it fetches frames.
LEMMA OsdHandlesWell == ASSUME HandleInv, OsdStep PROVE HandleStep
  <1> USE DEF OsdVi, OsdCapture, OsdFrame
  <1>1. OsdHandles /\ open \subseteq Handle
    BY Handles15 DEF HandleInv, OsdStep, OsdHandles
  <1>2. CASE OsdOpen
    BY <1>1, <1>2, OpenHandles, TryHandles, NeedsAre, Handles15 DEF OsdHandles, OsdOpen
  <1>3. CASE FlushFrame \/ GetYuv \/ ReleaseYuv
    <2>1. pc \in OsdFrame /\ "vi" \in open
      BY <1>1, <1>3 DEF OsdHandles, FlushFrame, GetYuv, ReleaseYuv
    <2>2. CASE "frame" \notin open /\ open' = open \cup {"frame"}
      BY <2>1, <2>2, NeedsAre, Handles15 DEF HandleStep, H!Next, H!Open
    <2>3. CASE "frame" \in open /\ open' = open \ {"frame"}
      BY <1>1, <2>3, Users, Handles15 DEF HandleStep, H!Next, H!Close
    <2>4. CASE "frame" \notin open /\ open' = open \ {"frame"}
      BY <2>4 DEF HandleStep
    <2> QED
      BY <1>3, <2>2, <2>3, <2>4 DEF FlushFrame, GetYuv, ReleaseYuv
  <1>4. CASE OsdClose
    BY <1>1, <1>4, CloseHandles, Users, Handles15 DEF OsdHandles, OsdClose
  <1> QED
    BY <1>2, <1>3, <1>4 DEF OsdStep

\* Every step is a step of Handles, or changes no handle.
LEMMA NextHandlesWell == HandleInv /\ [Next]_vars => HandleStep
  <1>1. Signal => HandleStep
    BY DEF Signal, HandleStep, H!Next, H!End
  <1>2. UNCHANGED vars => HandleStep
    BY DEF vars, HandleStep
  <1> QED
    BY <1>1, <1>2, EncHandlesWell, DecHandlesWell, DetectHandlesWell, OsdHandlesWell
       DEF Next, Step, Waits

\* No handle is opened twice, made from one that is not open, or closed under
\* a stream, a capture or a frame that uses it, on any path through the
\* cascades of the four programs.
THEOREM HandlesKept == Spec => HandleSpec
  <1>1. Init => H!Init
    BY DEF Init, H!Init
  <1> QED
    BY <1>1, NextHandlesWell, AlwaysHandles, PTL DEF Spec, HandleSpec, H!Spec, HandleStep

\* So at no time is a stream, a capture or a frame open whose camera, encoder,
\* decoder or output is not.
THEOREM NothingDangles == Spec => [](\A h \in open : Needs[h] \subseteq open)
  <1> DEFINE Sound == \A h \in open : Needs[h] \subseteq open
  <1>1. H!Init => Sound
    BY DEF H!Init
  <1>2. Sound /\ [H!Next]_open => Sound'
    <2> SUFFICES ASSUME Sound, [H!Next]_open PROVE Sound'
      OBVIOUS
    <2>1. CASE \E h \in Handle : H!Open(h)
      BY <2>1 DEF H!Open
    <2>2. CASE \E h \in Handle : H!Close(h)
      BY <2>2 DEF H!Close
    <2>3. CASE H!End
      BY <2>3 DEF H!End
    <2> QED
      BY <2>1, <2>2, <2>3 DEF H!Next
  <1> QED
    BY <1>1, <1>2, HandlesKept, PTL DEF HandleSpec, H!Spec

-----------------------------------------------------------------------------
(***************************************************************************)
(* The data.  Before the first unit is taken nothing is there; the list of *)
(* the encoder and data[] of the decoder are empty but while they are      *)
(* worked on; the decoder leaves its loop at the end of the file, or when  *)
(* a read failed; the head of an AMR file was read, unless that failed.    *)
(***************************************************************************)
Limit == IF program = "dec" THEN FileLen ELSE MaxFrames

NoData == pos = 0 /\ buf = <<>> /\ out = <<>> /\ lost = {} /\ headLost = FALSE

BeforeRead == {"start", "ipc", "ao", "speaker", "adec", "request", "head"}

DataInv ==
  /\ amr \in BOOLEAN
  /\ headLost \in BOOLEAN /\ ferror \in BOOLEAN /\ noticed \in BOOLEAN
  /\ pos \in 0..Limit
  /\ buf \in Seq(1..pos) /\ out \in Seq(0..pos) /\ lost \subseteq 1..pos
  /\ pc = "start" \/ (program = "dec" /\ pc \in BeforeRead) => NoData
  /\ pc \notin {"write", "send", "killed"} => buf = <<>>
  /\ program = "dec" /\ amr /\ ~headLost /\ pc \in {"read", "send"} =>
       pos >= 1 \/ FileLen = 0
  /\ program = "dec" /\ pc \in {"notice", "cancel"} => pos = FileLen \/ ferror

\* The smaller of two numbers.
LEMMA MinOfTwo == \A a, b \in Int : Min({a, b}) = IF a <= b THEN a ELSE b
  <1> SUFFICES ASSUME NEW a \in Int, NEW b \in Int
               PROVE  Min({a, b}) = IF a <= b THEN a ELSE b
    OBVIOUS
  <1>1. \E x \in {a, b} : \A y \in {a, b} : x <= y
    <2>1. CASE a <= b
      BY <2>1
    <2>2. CASE b <= a
      BY <2>2
    <2> QED
      BY <2>1, <2>2
  <1>2. Min({a, b}) \in {a, b} /\ \A y \in {a, b} : Min({a, b}) <= y
    BY <1>1, Zenon DEF Min
  <1> QED
    BY <1>2

\* How far it is from one number to another.
LEMMA Distance ==
  \A q \in Nat : \A p \in Nat : \A r \in p..q : r - p \in Nat /\ r = p + (r - p)
  OBVIOUS

\* fread stops at the end of a block, or at the end of the file, and brings
\* nothing only there.
LEMMA BlockEnds ==
  pos \in 0..FileLen => BlockEnd \in pos..FileLen /\ (BlockEnd = pos => pos = FileLen)
  BY MinOfTwo, ConstantsAssumption DEF BlockEnd

\* A read that fails may stop before, and brings nothing only then or at the
\* end of the file.
LEMMA ReadStops ==
  pos \in 0..FileLen /\ ReadBlock =>
    pos' \in pos..FileLen /\ (pos' = pos => pos = FileLen \/ ferror')
  <1> SUFFICES ASSUME pos \in 0..FileLen, ReadBlock
               PROVE  pos' \in pos..FileLen /\ (pos' = pos => pos = FileLen \/ ferror')
    OBVIOUS
  <1>1. BlockEnd \in pos..FileLen /\ (BlockEnd = pos => pos = FileLen)
    BY BlockEnds
  <1>2. CASE pos' = BlockEnd
    BY <1>1, <1>2
  <1>3. CASE pos' \in pos..BlockEnd /\ ferror' = TRUE
    BY <1>1, <1>3, ConstantsAssumption
  <1> QED
    BY <1>2, <1>3 DEF ReadBlock

\* What has one type has it when more is known of the file.
LEMMA MoreUnits ==
  \A p, q \in Nat : p <= q =>
    /\ \A s \in Seq(1..p) : s \in Seq(1..q)
    /\ \A s \in Seq(0..p) : s \in Seq(0..q)
    /\ \A L : L \subseteq 1..p => L \subseteq 1..q
  <1> SUFFICES ASSUME NEW p \in Nat, NEW q \in Nat, p <= q
               PROVE  /\ \A s \in Seq(1..p) : s \in Seq(1..q)
                      /\ \A s \in Seq(0..p) : s \in Seq(0..q)
                      /\ \A L : L \subseteq 1..p => L \subseteq 1..q
    OBVIOUS
  <1>1. 1..p \subseteq 1..q /\ 0..p \subseteq 0..q
    OBVIOUS
  <1> QED
    BY <1>1, SeqMonotonic, Zenon

\* Units are numbers.
LEMMA UnitsAreNats ==
  \A p \in Nat : /\ \A s \in Seq(1..p) : s \in Seq(0..p)
                /\ \A s \in Seq(0..p) : s \in Seq(Nat)
  <1> SUFFICES ASSUME NEW p \in Nat
               PROVE  /\ \A s \in Seq(1..p) : s \in Seq(0..p)
                      /\ \A s \in Seq(0..p) : s \in Seq(Nat)
    OBVIOUS
  <1>1. 1..p \subseteq 0..p /\ 0..p \subseteq Nat
    OBVIOUS
  <1> QED
    BY <1>1, SeqMonotonic, Zenon

\* The head of a list that has types, and what is behind it.
LEMMA HeadAndTail ==
  \A p \in Nat : \A s \in Seq(1..p) : s # <<>> => Head(s) \in 1..p /\ Tail(s) \in Seq(1..p)
  BY HeadTailProperties, Zenon

\* The next n units, as fread or the encoder numbers them.
LEMMA NextUnits ==
  \A p, n \in Nat : /\ [i \in 1..n |-> p + i] \in Seq(1..(p + n))
                   /\ Len([i \in 1..n |-> p + i]) = n
  OBVIOUS

\* The units a call of the decoder takes, and those it leaves.
LEMMA Taken ==
  \A p \in Nat : \A s \in Seq(1..p) : \A k \in 1..Len(s) :
    /\ SubSeq(s, 1, k) \in Seq(1..p) /\ Len(SubSeq(s, 1, k)) = k
    /\ SubSeq(s, k + 1, Len(s)) \in Seq(1..p)
    /\ Len(SubSeq(s, k + 1, Len(s))) = Len(s) - k
    /\ s = SubSeq(s, 1, k) \o SubSeq(s, k + 1, Len(s))
  OBVIOUS

\* Nothing is there at first.
LEMMA InitData == Init => DataInv
  <1> SUFFICES ASSUME Init PROVE DataInv
    OBVIOUS
  <1>1. amr \in BOOLEAN /\ headLost \in BOOLEAN /\ ferror \in BOOLEAN
        /\ noticed \in BOOLEAN
    BY Zenon DEF Init
  <1>2. pos \in 0..Limit /\ lost \subseteq 1..pos
    BY ConstantsAssumption DEF Init, Limit
  <1>3. buf \in Seq(1..pos) /\ out \in Seq(0..pos)
    BY EmptySeq DEF Init
  <1>4. NoData /\ buf = <<>> /\ pc = "start"
    BY DEF Init, NoData
  <1> QED
    BY <1>1, <1>2, <1>3, <1>4 DEF DataInv

\* ak_aencode: the list is empty again before the clock is looked at.
LEMMA EncKeepsData == ASSUME HandleInv, DataInv, EncStep PROVE DataInv'
  <1>1. program = "enc" /\ program' = program /\ amr' = amr
    BY EncKeepsHandles DEF EncStep
  <1>2. pos \in 0..MaxFrames /\ pos \in Nat /\ MaxFrames \in Nat
    BY <1>1, ConstantsAssumption DEF DataInv, Limit
  <1>3. CASE CreateRecordFile
    <2>1. NoData /\ pc = "start" /\ pc' \in {"ipc", "return"}
          /\ headLost' \in BOOLEAN /\ ferror' = ferror /\ noticed' = noticed
      BY <1>3 DEF CreateRecordFile, Goes, DataInv
    <2>2. out' \in {<<>>, <<0>>} /\ pos' = 0 /\ buf' = <<>> /\ lost' = {}
      BY <1>3, <2>1 DEF CreateRecordFile, NoData
    <2>3. out' \in Seq(0..0)
      <3>1. <<>> \in Seq(0..0) /\ <<0>> \in Seq(0..0)
        OBVIOUS
      <3> QED
        BY <2>2, <3>1
    <2> QED
      BY <1>1, <1>2, <2>1, <2>2, <2>3, EmptySeq DEF DataInv, Limit
  <1>4. CASE EncGetStream
    <2> PICK n \in 1..(MaxFrames - pos) :
          pos' = pos + n /\ buf' = buf \o [i \in 1..n |-> pos + i]
      BY <1>4 DEF EncGetStream
    <2>1. pos' \in Nat /\ pos <= pos' /\ pos' \in 0..MaxFrames
      BY <1>2
    <2>2. buf \in Seq(1..pos') /\ out \in Seq(0..pos') /\ lost \subseteq 1..pos'
      BY <1>2, <2>1, MoreUnits DEF DataInv
    <2>3. buf' \in Seq(1..pos')
      BY <1>2, <2>2, NextUnits, ConcatProperties
    <2>4. out' = out /\ lost' = lost /\ pc' = "write" /\ UNCHANGED fileVars
      BY <1>4 DEF EncGetStream, Goes
    <2> QED
      BY <1>1, <2>1, <2>2, <2>3, <2>4 DEF DataInv, Limit, fileVars
  <1>5. CASE EncWriteEntry
    <2>1. pc = "write" /\ buf # <<>> /\ pos' = pos /\ buf' = Tail(buf)
          /\ UNCHANGED fileVars
          /\ pc' = (IF buf' = <<>> THEN "record" ELSE "write")
      BY <1>5 DEF EncWriteEntry
    <2>2. Head(buf) \in 1..pos /\ Tail(buf) \in Seq(1..pos)
      BY <1>2, <2>1, HeadAndTail DEF DataInv
    <2>3. Append(out, Head(buf)) \in Seq(0..pos)
      BY <1>2, <2>2, AppendProperties DEF DataInv
    <2>4. out' \in Seq(0..pos) /\ lost' \subseteq 1..pos
      BY <1>5, <2>2, <2>3 DEF EncWriteEntry, DataInv
    <2> QED
      BY <1>1, <1>2, <2>1, <2>2, <2>4 DEF DataInv, Limit, fileVars
  <1>6. CASE ~CreateRecordFile /\ ~EncGetStream /\ ~EncWriteEntry
    <2>1. UNCHANGED <<dataVars, fileVars>> /\ pc' # "start"
          /\ pc \notin {"write", "send", "killed"}
      BY <1>6 DEF EncStep, EncOpen, Open, RecordTimeUp, EncClose, Close, Goes,
                  AencFailed, AfterRecording
    <2> QED
      BY <1>1, <2>1 DEF DataInv, dataVars, fileVars, Limit
  <1> QED
    BY <1>3, <1>4, <1>5, <1>6

\* What a call of the decoder does to data[]: k units are sent.
LEMMA SendTakes ==
  ASSUME pos \in Nat, buf \in Seq(1..pos), NEW k \in 1..Len(buf)
  PROVE  /\ Unsent(k) \in Seq(1..pos)
         /\ Len(Unsent(k)) = Len(buf) - k
         /\ SubSeq(buf, 1, Len(buf) - Len(Unsent(k))) = SubSeq(buf, 1, k)
         /\ SubSeq(buf, 1, k) \in Seq(1..pos)
         /\ buf = SubSeq(buf, 1, k) \o Unsent(k)
  BY Taken DEF Unsent

\* ak_adec_demo: data[] is empty when the next block is read, and the loop
\* ends where nothing is left to read, or a read failed.
LEMMA DecKeepsData ==
  ASSUME HandleInv, DataInv, DecStep \/ DecWaits PROVE DataInv'
  <1>1. program = "dec" /\ program' = program /\ amr' = amr
    BY DecKeepsHandles DEF DecStep, DecWaits
  <1>2. pos \in 0..FileLen /\ pos \in Nat /\ FileLen \in Nat
    BY <1>1, ConstantsAssumption DEF DataInv, Limit
  <1>3. CASE SkipHead
    <2>1. NoData /\ pc' = "read" /\ UNCHANGED <<buf, out, lost, ferror, noticed>>
          /\ headLost' \in BOOLEAN
      BY <1>1, <1>3 DEF SkipHead, Goes, DataInv, BeforeRead
    <2>2. pos' \in 0..FileLen /\ (amr /\ ~headLost' => pos' >= 1 \/ FileLen = 0)
      BY <1>2, <1>3, <2>1, MinOfTwo DEF SkipHead, NoData
    <2> QED
      BY <1>1, <2>1, <2>2, EmptySeq DEF DataInv, Limit, NoData, BeforeRead
  <1>4. CASE ReadBlock
    <2>1. pc = "read" /\ UNCHANGED <<out, lost, headLost, noticed>>
          /\ buf' = [i \in 1..(pos' - pos) |-> pos + i]
          /\ pc' = (IF pos' > pos THEN "send" ELSE "notice")
          /\ ferror' \in BOOLEAN
      BY <1>4 DEF ReadBlock, AtEof, DataInv
    <2>2. pos' \in pos..FileLen /\ pos' \in Nat
          /\ (pos' = pos => pos = FileLen \/ ferror')
      BY <1>2, <1>4, ReadStops
    <2>3. out \in Seq(0..pos') /\ lost \subseteq 1..pos'
      BY <1>2, <2>2, MoreUnits DEF DataInv
    <2>4. buf' \in Seq(1..pos') /\ Len(buf') = pos' - pos
      <3>1. pos' - pos \in Nat /\ pos + (pos' - pos) = pos'
        BY <1>2, <2>2, Distance, Zenon
      <3>2. [i \in 1..(pos' - pos) |-> pos + i] \in Seq(1..(pos + (pos' - pos)))
            /\ Len([i \in 1..(pos' - pos) |-> pos + i]) = pos' - pos
        BY <1>2, <3>1, NextUnits, Zenon
      <3> QED
        BY <2>1, <3>1, <3>2, Zenon
    <2>5. pc' # "send" => pos' = pos /\ buf' = <<>>
      <3>1. pc' # "send" => ~(pos' > pos)
        BY <2>1
      <3>2. ~(pos' > pos) => pos' = pos
        BY <1>2, <2>2
      <3>3. pos' = pos => buf' = <<>>
        BY <1>2, <2>4, EmptySeq
      <3> QED
        BY <3>1, <3>2, <3>3
    <2>6. pc' \in {"send", "notice"} /\ (pc' = "notice" => pos' = FileLen \/ ferror')
      BY <2>1, <2>2, <2>5
    <2>7. amr /\ ~headLost' => pos' >= 1 \/ FileLen = 0
      BY <1>1, <1>2, <2>1, <2>2 DEF DataInv
    <2>8. amr' \in BOOLEAN /\ headLost' \in BOOLEAN /\ ferror' \in BOOLEAN
          /\ noticed' \in BOOLEAN
      BY <1>1, <2>1, Zenon DEF DataInv
    <2>9. pos' \in 0..Limit'
      BY <1>1, <1>2, <2>2 DEF Limit
    <2> QED
      BY <1>1, <2>1, <2>3, <2>4, <2>5, <2>6, <2>7, <2>8, <2>9 DEF DataInv, BeforeRead
  <1>5. CASE SendStream
    <2>1. pc = "send" /\ pos' = pos /\ pc' = (IF buf' = <<>> THEN "read" ELSE "send")
          /\ UNCHANGED fileVars
      BY <1>5 DEF SendStream
    <2>2. buf' \in Seq(1..pos) /\ out' \in Seq(0..pos) /\ lost' \subseteq 1..pos
      <3>1. CASE \E k \in 1..Len(buf) :
                   /\ out' = out \o SubSeq(buf, 1, Len(buf) - Len(Unsent(k)))
                   /\ buf' = Unsent(k) /\ lost' = lost
        <4> PICK k \in 1..Len(buf) :
              /\ out' = out \o SubSeq(buf, 1, Len(buf) - Len(Unsent(k)))
              /\ buf' = Unsent(k) /\ lost' = lost
          BY <3>1
        <4>1. buf' \in Seq(1..pos) /\ out' = out \o SubSeq(buf, 1, k)
              /\ SubSeq(buf, 1, k) \in Seq(1..pos)
          BY <1>2, SendTakes DEF DataInv
        <4>2. SubSeq(buf, 1, k) \in Seq(0..pos) /\ out \in Seq(0..pos)
          BY <1>2, <4>1, UnitsAreNats DEF DataInv
        <4> QED
          BY <4>1, <4>2, ConcatProperties DEF DataInv
      <3>2. CASE lost' = lost \cup ToSet(buf) /\ buf' = <<>> /\ out' = out
        <4>1. ToSet(buf) \subseteq 1..pos
          BY DEF ToSet, DataInv
        <4> QED
          BY <3>2, <4>1, EmptySeq DEF DataInv
      <3> QED
        BY <1>5, <3>1, <3>2 DEF SendStream
    <2> QED
      BY <1>1, <1>2, <2>1, <2>2 DEF DataInv, Limit, BeforeRead, fileVars
  <1>6. CASE DecOpen \/ DecClose
    <2>1. UNCHANGED <<dataVars, fileVars>> /\ pc' # "start"
          /\ pc \notin {"write", "send", "killed"}
          /\ pc' \notin {"read", "send", "notice", "cancel"}
          /\ (pc' \in BeforeRead => pc \in BeforeRead)
      BY <1>6 DEF DecOpen, Open, DecClose, Close, Goes, BeforeRead
    <2> QED
      BY <1>1, <2>1 DEF DataInv, dataVars, fileVars, Limit, NoData
  <1>7. CASE NoticeEnd
    <2>1. UNCHANGED <<dataVars, headLost, ferror>> /\ noticed' \in BOOLEAN
          /\ pc = "notice" /\ pc' = "cancel"
      BY <1>7 DEF NoticeEnd, Goes, DataInv
    <2> QED
      BY <1>1, <2>1 DEF DataInv, dataVars, Limit, BeforeRead
  <1> QED
    BY <1>3, <1>4, <1>5, <1>6, <1>7 DEF DecStep, DecWaits

\* The other two programs have no data, and a signal leaves them as they are.
LEMMA OthersKeepData ==
  ASSUME HandleInv, DataInv,
         DetectStep \/ DetectWaits \/ OsdStep \/ Signal \/ UNCHANGED vars
  PROVE  DataInv'
  <1>1. CASE DetectStep \/ DetectWaits
    <2>1. program = "detect" /\ UNCHANGED <<program, amr>>
      BY <1>1, DetectKeepsHandles DEF DetectStep, DetectWaits
    <2>2. UNCHANGED <<dataVars, fileVars>> /\ pc' # "start"
          /\ pc \notin {"write", "send", "killed"}
      BY <1>1 DEF DetectStep, DetectWaits, DetectOpen, GetResult, DetectTimeUp,
                  DetectAgain, DetectClose, Open, Try, FailAndClose, Close, Goes
    <2> QED
      BY <2>1, <2>2 DEF DataInv, dataVars, fileVars, Limit
  <1>2. CASE OsdStep
    <2>1. program = "osd" /\ UNCHANGED <<program, amr>>
      BY <1>2, OsdKeepsHandles DEF OsdStep
    <2>2. UNCHANGED <<dataVars, fileVars>> /\ pc' # "start"
          /\ pc \notin {"write", "send", "killed"}
      BY <1>2 DEF OsdStep, OsdOpen, FlushFrame, GetYuv, ReleaseYuv, OsdClose, Open,
                  Try, Close, Goes
    <2> QED
      BY <2>1, <2>2 DEF DataInv, dataVars, fileVars, Limit
  <1>3. CASE Signal
    BY <1>3 DEF Signal, DataInv, dataVars, fileVars, Limit, BeforeRead
  <1>4. CASE UNCHANGED vars
    BY <1>4 DEF vars, DataInv, dataVars, fileVars, Limit, NoData
  <1> QED
    BY <1>1, <1>2, <1>3, <1>4

\* So what is known of the data always holds.
LEMMA AlwaysData == Spec => [](HandleInv /\ DataInv)
  <1>1. HandleInv /\ DataInv /\ [Next]_vars => DataInv'
    BY EncKeepsData, DecKeepsData, OthersKeepData
       DEF Next, Step, Waits
  <1> QED
    BY <1>1, InitData, AlwaysHandles, PTL DEF Spec

\* Every variable keeps its type, whatever fails: no frame is numbered beyond
\* the recording, and no block reaches beyond the end of the file (ReadBlock).
THEOREM TypeCorrect == Spec => []TypeOK
  <1>1. HandleInv /\ DataInv => TypeOK
    <2> SUFFICES ASSUME HandleInv, DataInv PROVE TypeOK
      OBVIOUS
    <2>1. open \subseteq Handle /\ count \in 0..4
      BY Handles15 DEF HandleInv, Programs, EncHandles, DecHandles, DetectHandles,
                       OsdHandles
    <2> QED
      BY <2>1 DEF TypeOK, HandleInv, DataInv, Limit
  <1> QED
    BY <1>1, AlwaysData, PTL

-----------------------------------------------------------------------------
(***************************************************************************)
(* The order of the data.  What was written or sent and what is still to   *)
(* be are one sequence: writing and sending move units inside it, reading  *)
(* appends to it, a failure takes units out of it.                         *)
(***************************************************************************)
Rising(s) == \A i, j \in DOMAIN s : i < j => s[i] < s[j]

First == CASE program = "enc" /\ amr /\ ~headLost -> 0
           [] program = "dec" /\ amr /\ ~headLost -> 2
           [] OTHER -> 1

OrderInv ==
  program \in {"enc", "dec"} /\ "file" \in open =>
    Rising(out \o buf) /\ ToSet(out \o buf) = (First..pos) \ lost

\* The entries of two sequences that are put together.
LEMMA Joined ==
  \A s, t \in Seq(Nat) :
    /\ s \o t \in Seq(Nat)
    /\ DOMAIN (s \o t) = 1..(Len(s) + Len(t))
    /\ DOMAIN s = 1..Len(s) /\ DOMAIN t = 1..Len(t) /\ Len(s) \in Nat /\ Len(t) \in Nat
    /\ \A i \in 1..Len(s) : (s \o t)[i] = s[i] /\ s[i] \in Nat
    /\ \A i \in 1..Len(t) : (s \o t)[Len(s) + i] = t[i] /\ t[i] \in Nat
  <1> SUFFICES ASSUME NEW s \in Seq(Nat), NEW t \in Seq(Nat)
      PROVE /\ s \o t \in Seq(Nat)
            /\ DOMAIN (s \o t) = 1..(Len(s) + Len(t))
            /\ DOMAIN s = 1..Len(s) /\ DOMAIN t = 1..Len(t)
            /\ Len(s) \in Nat /\ Len(t) \in Nat
            /\ \A i \in 1..Len(s) : (s \o t)[i] = s[i] /\ s[i] \in Nat
            /\ \A i \in 1..Len(t) : (s \o t)[Len(s) + i] = t[i] /\ t[i] \in Nat
    OBVIOUS
  <1>1. s \o t \in Seq(Nat) /\ Len(s \o t) = Len(s) + Len(t)
    BY ConcatProperties
  <1> QED
    BY <1>1

\* Every entry of two sequences put together is one of the first or of the
\* second.
LEMMA JoinedIndex ==
  \A s, t \in Seq(Nat) : \A i \in 1..(Len(s) + Len(t)) :
    \/ i \in 1..Len(s)
    \/ i - Len(s) \in 1..Len(t) /\ i = Len(s) + (i - Len(s))
  BY Joined

\* Its entries are those of both.
LEMMA JoinedSet == \A s, t \in Seq(Nat) : ToSet(s \o t) = ToSet(s) \cup ToSet(t)
  <1> SUFFICES ASSUME NEW s \in Seq(Nat), NEW t \in Seq(Nat)
               PROVE  ToSet(s \o t) = ToSet(s) \cup ToSet(t)
    OBVIOUS
  <1>1. ASSUME NEW x \in ToSet(s \o t) PROVE x \in ToSet(s) \cup ToSet(t)
    <2> PICK i \in 1..(Len(s) + Len(t)) : x = (s \o t)[i]
      BY <1>1, Joined DEF ToSet
    <2>1. CASE i \in 1..Len(s)
      BY <2>1, Joined DEF ToSet
    <2>2. CASE i \notin 1..Len(s)
      <3>1. i - Len(s) \in 1..Len(t) /\ i = Len(s) + (i - Len(s))
        BY <2>2, JoinedIndex
      <3>2. x = t[i - Len(s)]
        BY <3>1, Joined
      <3> QED
        BY <3>1, <3>2, Joined DEF ToSet
    <2> QED
      BY <2>1, <2>2
  <1>2. ASSUME NEW i \in 1..Len(s) PROVE s[i] \in ToSet(s \o t)
    BY Joined DEF ToSet
  <1>3. ASSUME NEW i \in 1..Len(t) PROVE t[i] \in ToSet(s \o t)
    <2>1. Len(s) + i \in DOMAIN (s \o t) /\ (s \o t)[Len(s) + i] = t[i]
      BY Joined
    <2> QED
      BY <2>1 DEF ToSet
  <1>4. ToSet(s) \subseteq ToSet(s \o t) /\ ToSet(t) \subseteq ToSet(s \o t)
    <2>1. \A x \in ToSet(s) : \E i \in 1..Len(s) : x = s[i]
      BY Joined DEF ToSet
    <2>2. \A x \in ToSet(t) : \E i \in 1..Len(t) : x = t[i]
      BY Joined DEF ToSet
    <2> QED
      BY <1>2, <1>3, <2>1, <2>2, Zenon
  <1> QED
    BY <1>1, <1>4

\* They rise when those of both do, and all of the first come before all of
\* the second.
LEMMA JoinedRises ==
  \A s, t \in Seq(Nat) :
    Rising(s \o t) <=>
      /\ Rising(s) /\ Rising(t)
      /\ \A x \in ToSet(s), y \in ToSet(t) : x < y
  <1> SUFFICES ASSUME NEW s \in Seq(Nat), NEW t \in Seq(Nat)
               PROVE  Rising(s \o t) <=>
                        /\ Rising(s) /\ Rising(t)
                        /\ \A x \in ToSet(s), y \in ToSet(t) : x < y
    OBVIOUS
  <1>1. ASSUME Rising(s \o t) PROVE Rising(s)
    <2> SUFFICES ASSUME NEW i \in 1..Len(s), NEW j \in 1..Len(s), i < j
                 PROVE  s[i] < s[j]
      BY Joined DEF Rising
    <2>1. /\ i \in DOMAIN (s \o t) /\ j \in DOMAIN (s \o t)
          /\ (s \o t)[i] = s[i] /\ (s \o t)[j] = s[j]
      BY Joined
    <2> QED
      BY <1>1, <2>1, Zenon DEF Rising
  <1>2. ASSUME Rising(s \o t) PROVE Rising(t)
    <2> SUFFICES ASSUME NEW i \in 1..Len(t), NEW j \in 1..Len(t), i < j
                 PROVE  t[i] < t[j]
      BY Joined DEF Rising
    <2>1. /\ Len(s) + i \in DOMAIN (s \o t) /\ Len(s) + j \in DOMAIN (s \o t)
          /\ Len(s) + i < Len(s) + j
          /\ (s \o t)[Len(s) + i] = t[i] /\ (s \o t)[Len(s) + j] = t[j]
      BY Joined
    <2> QED
      BY <1>2, <2>1, Zenon DEF Rising
  <1>3. ASSUME Rising(s \o t) PROVE \A x \in ToSet(s), y \in ToSet(t) : x < y
    <2> SUFFICES ASSUME NEW x \in ToSet(s), NEW y \in ToSet(t) PROVE x < y
      OBVIOUS
    <2> PICK i \in 1..Len(s) : x = s[i]
      BY Joined DEF ToSet
    <2> PICK j \in 1..Len(t) : y = t[j]
      BY Joined DEF ToSet
    <2>1. /\ i \in DOMAIN (s \o t) /\ Len(s) + j \in DOMAIN (s \o t)
          /\ i < Len(s) + j
          /\ (s \o t)[i] = s[i] /\ (s \o t)[Len(s) + j] = t[j]
      BY Joined
    <2> QED
      BY <1>3, <2>1, Zenon DEF Rising
  <1>4. ASSUME Rising(s), Rising(t), \A x \in ToSet(s), y \in ToSet(t) : x < y
        PROVE  Rising(s \o t)
    <2> SUFFICES ASSUME NEW i \in 1..(Len(s) + Len(t)), NEW j \in 1..(Len(s) + Len(t)), i < j
                 PROVE  (s \o t)[i] < (s \o t)[j]
      BY Joined DEF Rising
    <2>1. CASE j \in 1..Len(s)
      BY <1>4, <2>1, Joined DEF Rising
    <2>2. CASE j \notin 1..Len(s)
      <3>1. j - Len(s) \in 1..Len(t) /\ (s \o t)[j] = t[j - Len(s)]
        BY <2>2, Joined, JoinedIndex
      <3>2. CASE i \in 1..Len(s)
        BY <1>4, <3>1, <3>2, Joined DEF ToSet
      <3>3. CASE i \notin 1..Len(s)
        <4>1. i - Len(s) \in 1..Len(t) /\ (s \o t)[i] = t[i - Len(s)]
              /\ i - Len(s) < j - Len(s)
          BY <3>3, Joined, JoinedIndex
        <4> QED
          BY <1>4, <3>1, <4>1, Joined, Zenon DEF Rising
      <3> QED
        BY <3>2, <3>3
    <2> QED
      BY <2>1, <2>2
  <1> QED
    BY <1>1, <1>2, <1>3, <1>4

\* Entries are numbers.
LEMMA EntriesAreNats == \A s \in Seq(Nat) : ToSet(s) \subseteq Nat
  BY DEF ToSet

\* The next n units rise, and are those from p + 1 to p + n.
LEMMA NextUnitsRise ==
  \A p, n \in Nat : /\ [i \in 1..n |-> p + i] \in Seq(Nat)
                   /\ Rising([i \in 1..n |-> p + i])
                   /\ ToSet([i \in 1..n |-> p + i]) = (p + 1)..(p + n)
  <1> SUFFICES ASSUME NEW p \in Nat, NEW n \in Nat
               PROVE  /\ [i \in 1..n |-> p + i] \in Seq(Nat)
                      /\ Rising([i \in 1..n |-> p + i])
                      /\ ToSet([i \in 1..n |-> p + i]) = (p + 1)..(p + n)
    OBVIOUS
  <1>1. [i \in 1..n |-> p + i] \in Seq(Nat)
    OBVIOUS
  <1>2. Rising([i \in 1..n |-> p + i])
    BY DEF Rising
  <1>3. ASSUME NEW x \in (p + 1)..(p + n) PROVE x \in ToSet([i \in 1..n |-> p + i])
    <2>1. x - p \in 1..n /\ p + (x - p) = x
      OBVIOUS
    <2> QED
      BY <2>1 DEF ToSet
  <1>4. ToSet([i \in 1..n |-> p + i]) \subseteq (p + 1)..(p + n)
    BY DEF ToSet
  <1> QED
    BY <1>1, <1>2, <1>3, <1>4

\* Units that are sent or written move inside the sequence.
LEMMA Moved ==
  \A o, a, c \in Seq(Nat) : (o \o a) \o c = o \o (a \o c)
  BY ConcatAssociative

\* Units that are lost are taken out of it.
LEMMA TakenOut ==
  \A o, a, c \in Seq(Nat) :
    Rising(o \o (a \o c)) =>
      /\ Rising(o \o c)
      /\ ToSet(o \o c) = ToSet(o \o (a \o c)) \ ToSet(a)
  <1> SUFFICES ASSUME NEW o \in Seq(Nat), NEW a \in Seq(Nat), NEW c \in Seq(Nat),
                      Rising(o \o (a \o c))
               PROVE  /\ Rising(o \o c)
                      /\ ToSet(o \o c) = ToSet(o \o (a \o c)) \ ToSet(a)
    OBVIOUS
  <1>1. a \o c \in Seq(Nat)
    BY Joined
  <1>2. ToSet(a \o c) = ToSet(a) \cup ToSet(c) /\ ToSet(o \o c) = ToSet(o) \cup ToSet(c)
        /\ ToSet(o \o (a \o c)) = ToSet(o) \cup ToSet(a \o c)
    BY <1>1, JoinedSet
  <1>3. Rising(o) /\ Rising(a \o c)
        /\ \A x \in ToSet(o), y \in ToSet(a \o c) : x < y
    BY <1>1, JoinedRises, Zenon
  <1>4. Rising(c) /\ \A x \in ToSet(a), y \in ToSet(c) : x < y
    BY <1>3, JoinedRises, Zenon
  <1>5. Rising(o \o c)
    <2>1. \A x \in ToSet(o), y \in ToSet(c) : x < y
      BY <1>2, <1>3
    <2> QED
      BY <1>3, <1>4, <2>1, JoinedRises, Zenon
  <1>6. ToSet(a) \cap ToSet(o) = {} /\ ToSet(a) \cap ToSet(c) = {}
    BY <1>2, <1>3, <1>4, EntriesAreNats
  <1> QED
    BY <1>2, <1>5, <1>6

\* What is known of the data says that they are sequences of numbers.
LEMMA DataAreNats ==
  DataInv => /\ pos \in Nat /\ buf \in Seq(Nat) /\ out \in Seq(Nat)
             /\ out \o buf \in Seq(Nat) /\ lost \in SUBSET (1..pos)
  <1> SUFFICES ASSUME DataInv
               PROVE  /\ pos \in Nat /\ buf \in Seq(Nat) /\ out \in Seq(Nat)
                      /\ out \o buf \in Seq(Nat) /\ lost \in SUBSET (1..pos)
    OBVIOUS
  <1>1. pos \in Nat /\ buf \in Seq(1..pos) /\ out \in Seq(0..pos) /\ lost \subseteq 1..pos
    BY ConstantsAssumption DEF DataInv, Limit
  <1>2. buf \in Seq(Nat) /\ out \in Seq(Nat)
    BY <1>1, UnitsAreNats
  <1> QED
    BY <1>1, <1>2, Joined

\* The first unit that is kept.
LEMMA FirstIs ==
  /\ program = "enc" => First = IF amr /\ ~headLost THEN 0 ELSE 1
  /\ program = "dec" => First = IF amr /\ ~headLost THEN 2 ELSE 1
  BY DEF First

\* Where there is no data, nothing was kept.
LEMMA NothingKept ==
  /\ Rising(<<>> \o <<>>) /\ ToSet(<<>> \o <<>>) = {}
  /\ Rising(<<0>> \o <<>>) /\ ToSet(<<0>> \o <<>>) = {0}
  <1>1. <<>> \in Seq(Nat) /\ <<0>> \in Seq(Nat)
    OBVIOUS
  <1>2. <<>> \o <<>> = <<>> /\ <<0>> \o <<>> = <<0>>
    BY <1>1, ConcatEmptySeq
  <1>3. Rising(<<>>) /\ Rising(<<0>>)
    BY DEF Rising
  <1>4. ToSet(<<>>) = {} /\ ToSet(<<0>>) = {0}
    BY DEF ToSet
  <1> QED
    BY <1>2, <1>3, <1>4

\* A step that works on the head of what is to be written or sent: it moves
\* it to the others, or loses it.
LEMMA HeadGoes ==
  ASSUME DataInv, NEW f, NEW a \in Seq(Nat), NEW c \in Seq(Nat), buf = a \o c,
         Rising(out \o buf), ToSet(out \o buf) = (f..pos) \ lost,
         buf' = c,
         \/ out' = out \o a /\ lost' = lost
         \/ out' = out /\ lost' = lost \cup ToSet(a)
  PROVE  Rising(out' \o buf') /\ ToSet(out' \o buf') = (f..pos) \ lost'
  <1>1. out \in Seq(Nat)
    BY DataAreNats
  <1>2. CASE out' = out \o a /\ lost' = lost
    <2>1. out' \o buf' = out \o buf
      BY <1>1, <1>2, Moved
    <2> QED
      BY <1>2, <2>1
  <1>3. CASE out' = out /\ lost' = lost \cup ToSet(a)
    <2>1. Rising(out \o c) /\ ToSet(out \o c) = ToSet(out \o buf) \ ToSet(a)
      BY <1>1, TakenOut
    <2> QED
      BY <1>3, <2>1
  <1> QED
    BY <1>2, <1>3

\* A step that takes n more units behind what there is.
LEMMA MoreRead ==
  ASSUME DataInv, NEW f \in 0..2, NEW n \in Nat, f <= pos + 1,
         Rising(out \o buf), ToSet(out \o buf) = (f..pos) \ lost,
         buf' = buf \o [i \in 1..n |-> pos + i], out' = out, lost' = lost,
         pos' = pos + n
  PROVE  Rising(out' \o buf') /\ ToSet(out' \o buf') = (f..pos') \ lost'
  <1> DEFINE u == [i \in 1..n |-> pos + i]
  <1>1. pos \in Nat /\ lost \in SUBSET (1..pos) /\ out \o buf \in Seq(Nat)
        /\ out \in Seq(Nat) /\ buf \in Seq(Nat)
    BY DataAreNats
  <1>2. u \in Seq(Nat)
    BY <1>1, NextUnitsRise
  <1>3. out' \o buf' = (out \o buf) \o u
    BY <1>1, <1>2, Moved
  <1>4. Rising(u) /\ ToSet(u) = (pos + 1)..(pos + n)
    BY <1>1, NextUnitsRise
  <1> HIDE DEF u
  <1>5. \A x \in ToSet(out \o buf), y \in ToSet(u) : x < y
    <2>1. \A x \in (f..pos) \ lost, y \in (pos + 1)..(pos + n) : x < y
      BY <1>1
    <2> QED
      BY <1>4, <2>1, Zenon
  <1>6. Rising((out \o buf) \o u)
    BY <1>1, <1>2, <1>4, <1>5, JoinedRises, Zenon
  <1>7. ToSet((out \o buf) \o u) = ((f..pos) \ lost) \cup ((pos + 1)..(pos + n))
    <2>1. ToSet((out \o buf) \o u) = ToSet(out \o buf) \cup ToSet(u)
      BY <1>1, <1>2, JoinedSet, Zenon
    <2> QED
      BY <1>4, <2>1, Zenon
  <1>8. ((f..pos) \ lost) \cup ((pos + 1)..(pos + n)) = (f..(pos + n)) \ lost
    BY <1>1
  <1> QED
    BY <1>3, <1>6, <1>7, <1>8

\* A step that leaves the data alone and opens no file.
LEMMA DataUntouched ==
  ASSUME OrderInv, UNCHANGED <<program, amr, headLost, dataVars>>,
         "file" \in open' => "file" \in open
  PROVE  OrderInv'
  <1>1. First' = First
    BY DEF First
  <1> QED
    BY <1>1 DEF OrderInv, dataVars, Rising

\* What was taken out of the list of ak_aencode goes to the file, or is lost.
LEMMA EncKeepsOrder == ASSUME HandleInv, DataInv, OrderInv, EncStep PROVE OrderInv'
  <1>1. program = "enc" /\ program' = program /\ amr' = amr /\ EncHandles
    BY EncKeepsHandles DEF EncStep, HandleInv
  <1>2. First \in 0..2 /\ First <= 1 /\ pos \in Nat
        /\ (headLost' = headLost => First' = First)
    BY <1>1, FirstIs, DataAreNats DEF First
  <1>3. CASE CreateRecordFile
    <2>1. NoData /\ "file" \notin open
      BY <1>1, <1>3 DEF CreateRecordFile, Goes, DataInv, EncHandles, EncFile, EncAi,
                        EncCapture, EncAenc, EncStream
    <2>2. CASE "file" \in open'
      <3>1. /\ out' = (IF amr /\ ~headLost' THEN <<0>> ELSE <<>>)
            /\ UNCHANGED <<pos, buf, lost>> /\ headLost = FALSE
        BY <1>3, <2>1, <2>2 DEF CreateRecordFile, NoData, DataInv
      <3>2. Rising(out' \o buf')
            /\ ToSet(out' \o buf') = IF amr /\ ~headLost' THEN {0} ELSE {}
        BY <2>1, <3>1, NothingKept DEF NoData
      <3>3. (First'..0) \ {} = IF amr /\ ~headLost' THEN {0} ELSE {}
        <4>1. First' = IF amr /\ ~headLost' THEN 0 ELSE 1
          BY <1>1 DEF First
        <4> QED
          BY <4>1
      <3> QED
        BY <2>1, <3>1, <3>2, <3>3 DEF OrderInv, NoData
    <2>3. CASE "file" \notin open'
      BY <2>3 DEF OrderInv
    <2> QED
      BY <2>2, <2>3
  <1>4. CASE EncGetStream
    <2>1. open' = open /\ "file" \in open /\ First' = First
      BY <1>1, <1>2, <1>4 DEF EncGetStream, Goes, EncHandles, EncFile, EncAi,
                        EncCapture, EncAenc, EncStream, fileVars
    <2> PICK n \in 1..(MaxFrames - pos) :
          pos' = pos + n /\ buf' = buf \o [i \in 1..n |-> pos + i]
      BY <1>4 DEF EncGetStream
    <2>2. n \in Nat /\ out' = out /\ lost' = lost /\ First <= pos + 1
      BY <1>2, <1>4 DEF EncGetStream
    <2>3. Rising(out \o buf) /\ ToSet(out \o buf) = (First..pos) \ lost
      BY <1>1, <2>1 DEF OrderInv
    <2>4. Rising(out' \o buf') /\ ToSet(out' \o buf') = (First..pos') \ lost'
      BY <1>2, <2>2, <2>3, MoreRead
    <2> QED
      BY <2>1, <2>4 DEF OrderInv
  <1>5. CASE EncWriteEntry
    <2>1. /\ open' = open /\ "file" \in open /\ buf # <<>> /\ pos' = pos
          /\ buf' = Tail(buf) /\ First' = First
      BY <1>1, <1>2, <1>5 DEF EncWriteEntry, EncHandles, EncFile, EncAi, EncCapture,
                        EncAenc, EncStream, fileVars
    <2>2. Rising(out \o buf) /\ ToSet(out \o buf) = (First..pos) \ lost
      BY <1>1, <2>1 DEF OrderInv
    <2>3. Head(buf) \in Nat /\ Tail(buf) \in Seq(Nat) /\ buf = <<Head(buf)>> \o Tail(buf)
          /\ Append(out, Head(buf)) = out \o <<Head(buf)>>
      <3>1. buf \in Seq(Nat) /\ out \in Seq(Nat)
        BY DataAreNats
      <3>2. Head(buf) \in Nat /\ Tail(buf) \in Seq(Nat)
        BY <2>1, <3>1, HeadTailProperties
      <3> QED
        BY <2>1, <3>1, <3>2, AppendIsConcat
    <2>4. <<Head(buf)>> \in Seq(Nat) /\ ToSet(<<Head(buf)>>) = {Head(buf)}
      BY <2>3 DEF ToSet
    <2>5. \/ out' = out \o <<Head(buf)>> /\ lost' = lost
          \/ out' = out /\ lost' = lost \cup ToSet(<<Head(buf)>>)
      BY <1>5, <2>3, <2>4 DEF EncWriteEntry
    <2>6. Rising(out' \o buf') /\ ToSet(out' \o buf') = (First..pos) \ lost'
      BY <2>1, <2>2, <2>3, <2>4, <2>5, HeadGoes
    <2> QED
      BY <2>1, <2>6 DEF OrderInv
  <1>6. CASE ~CreateRecordFile /\ ~EncGetStream /\ ~EncWriteEntry
    <2>1. UNCHANGED <<headLost, dataVars>> /\ ("file" \in open' => "file" \in open)
      BY <1>6 DEF EncStep, EncOpen, Open, RecordTimeUp, EncClose, Close, fileVars
    <2> QED
      BY <1>1, <2>1, DataUntouched
  <1> QED
    BY <1>3, <1>4, <1>5, <1>6

\* What was taken out of data[] was sent, or is lost; the head of an AMR file
\* is neither.
LEMMA DecKeepsOrder ==
  ASSUME HandleInv, DataInv, OrderInv, DecStep \/ DecWaits PROVE OrderInv'
  <1>1. program = "dec" /\ program' = program /\ amr' = amr /\ DecHandles
    BY DecKeepsHandles DEF DecStep, DecWaits, HandleInv
  <1>2. First = (IF amr /\ ~headLost THEN 2 ELSE 1) /\ pos \in Nat
        /\ pos \in 0..FileLen /\ FileLen \in Nat
        /\ (headLost' = headLost => First' = First)
    BY <1>1, FirstIs, DataAreNats, ConstantsAssumption DEF First, DataInv, Limit
  <1>3. CASE Open("file", "start", "ipc", "return")
    <2>1. NoData /\ UNCHANGED dataVars /\ First' = First
      BY <1>2, <1>3 DEF Open, Goes, DataInv, fileVars
    <2>2. Rising(out \o buf) /\ ToSet(out \o buf) = {}
      BY <2>1, NothingKept DEF NoData
    <2>3. (First..0) \ {} = {}
      BY <1>2
    <2> QED
      BY <2>1, <2>2, <2>3 DEF OrderInv, NoData, dataVars, Rising
  <1>4. CASE SkipHead
    <2>1. NoData /\ UNCHANGED <<buf, out, lost>>
      BY <1>1, <1>4 DEF SkipHead, Goes, DataInv, BeforeRead
    <2>2. pos' \in 0..1 /\ (~amr \/ headLost' => pos' = 0)
          /\ First' = (IF amr /\ ~headLost' THEN 2 ELSE 1)
      <3>1. First' = (IF amr /\ ~headLost' THEN 2 ELSE 1)
        BY <1>1 DEF First
      <3>2. CASE pos' = (IF amr THEN Min({1, FileLen}) ELSE pos) /\ headLost' = headLost
        BY <1>2, <2>1, <3>1, <3>2, MinOfTwo DEF NoData
      <3>3. CASE headLost' = TRUE /\ pos' = pos
        BY <2>1, <3>1, <3>3 DEF NoData
      <3> QED
        BY <1>4, <3>2, <3>3 DEF SkipHead
    <2>3. Rising(out \o buf) /\ ToSet(out \o buf) = {}
      BY <2>1, NothingKept DEF NoData
    <2>4. (First'..pos') \ {} = {}
      BY <2>2
    <2> QED
      BY <2>1, <2>3, <2>4 DEF OrderInv, NoData, Rising
  <1>5. CASE ReadBlock
    <2>1. pc = "read" /\ UNCHANGED <<open, out, lost>> /\ First' = First
          /\ buf' = [i \in 1..(pos' - pos) |-> pos + i]
      BY <1>2, <1>5 DEF ReadBlock
    <2>2. "file" \in open /\ buf = <<>>
      BY <1>1, <2>1 DEF DecHandles, DecFile, DecAo, DecSpeaker, DecAdec, DecStream,
                        DataInv
    <2>3. Rising(out \o buf) /\ ToSet(out \o buf) = (First..pos) \ lost
      BY <1>1, <2>2 DEF OrderInv
    <2>4. pos' \in pos..FileLen
      BY <1>2, <1>5, ReadStops
    <2> DEFINE n == pos' - pos
    <2>5. n \in Nat /\ pos' = pos + n
      BY <1>2, <2>4, Distance, Zenon
    <2>6. First \in 0..2 /\ (First <= pos + 1 \/ pos' = pos)
      <3>1. amr /\ ~headLost => pos >= 1 \/ FileLen = 0
        BY <1>1, <2>1 DEF DataInv
      <3> QED
        BY <1>2, <2>4, <3>1
    <2>7. buf' = buf \o [i \in 1..n |-> pos + i]
      BY <1>2, <2>1, <2>2, <2>5, NextUnitsRise, ConcatEmptySeq
    <2>8. Rising(out' \o buf') /\ ToSet(out' \o buf') = (First..pos') \ lost'
      <3>1. CASE First <= pos + 1
        <4> HIDE DEF n
        <4> QED
          BY <2>1, <2>3, <2>5, <2>6, <2>7, <3>1, MoreRead
      <3>2. CASE pos' = pos
        <4>1. buf' = <<>>
          BY <1>2, <2>1, <3>2
        <4> QED
          BY <2>1, <2>2, <2>3, <3>2, <4>1
      <3> QED
        BY <2>6, <3>1, <3>2
    <2> QED
      BY <2>1, <2>8 DEF OrderInv
  <1>6. CASE SendStream
    <2>1. pc = "send" /\ open' = open /\ pos' = pos /\ First' = First
      BY <1>2, <1>6 DEF SendStream, fileVars
    <2>2. "file" \in open
      BY <1>1, <2>1 DEF DecHandles, DecFile, DecAo, DecSpeaker, DecAdec, DecStream
    <2>3. Rising(out \o buf) /\ ToSet(out \o buf) = (First..pos) \ lost
      BY <1>1, <2>2 DEF OrderInv
    <2>4. Rising(out' \o buf') /\ ToSet(out' \o buf') = (First..pos) \ lost'
      <3>1. CASE \E k \in 1..Len(buf) :
                   /\ out' = out \o SubSeq(buf, 1, Len(buf) - Len(Unsent(k)))
                   /\ buf' = Unsent(k) /\ lost' = lost
        <4> PICK k \in 1..Len(buf) :
              /\ out' = out \o SubSeq(buf, 1, Len(buf) - Len(Unsent(k)))
              /\ buf' = Unsent(k) /\ lost' = lost
          BY <3>1
        <4>1. /\ Unsent(k) \in Seq(1..pos) /\ SubSeq(buf, 1, k) \in Seq(1..pos)
              /\ buf = SubSeq(buf, 1, k) \o Unsent(k)
              /\ out' = out \o SubSeq(buf, 1, k)
          BY <1>2, SendTakes DEF DataInv
        <4>2. Unsent(k) \in Seq(Nat) /\ SubSeq(buf, 1, k) \in Seq(Nat)
          BY <1>2, <4>1, UnitsAreNats
        <4> QED
          BY <2>3, <4>1, <4>2, HeadGoes
      <3>2. CASE lost' = lost \cup ToSet(buf) /\ buf' = <<>> /\ out' = out
        <4>1. buf \in Seq(Nat) /\ <<>> \in Seq(Nat) /\ buf = buf \o <<>>
          BY DataAreNats, ConcatEmptySeq
        <4> QED
          BY <2>3, <3>2, <4>1, HeadGoes
      <3> QED
        BY <1>6, <3>1, <3>2 DEF SendStream
    <2> QED
      BY <2>1, <2>4 DEF OrderInv
  <1>7. CASE \/ DecOpen /\ ~Open("file", "start", "ipc", "return")
             \/ NoticeEnd \/ DecClose
    <2>1. UNCHANGED <<headLost, dataVars>> /\ ("file" \in open' => "file" \in open)
      BY <1>7 DEF DecOpen, Open, NoticeEnd, DecClose, Close, fileVars
    <2> QED
      BY <1>1, <2>1, DataUntouched
  <1> QED
    BY <1>3, <1>4, <1>5, <1>6, <1>7 DEF DecStep, DecWaits

\* A step of the other programs, or a signal.
LEMMA OthersKeepOrder ==
  ASSUME HandleInv, OrderInv,
         DetectStep \/ DetectWaits \/ OsdStep \/ Signal \/ UNCHANGED vars
  PROVE  OrderInv'
  <1>1. CASE DetectStep \/ DetectWaits
    BY <1>1, DetectKeepsHandles DEF DetectStep, DetectWaits, OrderInv
  <1>2. CASE OsdStep
    BY <1>2, OsdKeepsHandles DEF OsdStep, OrderInv
  <1>3. CASE Signal
    BY <1>3 DEF Signal, OrderInv
  <1>4. CASE UNCHANGED vars
    BY <1>4, DataUntouched DEF vars, fileVars
  <1> QED
    BY <1>1, <1>2, <1>3, <1>4

\* So the order always holds.
LEMMA AlwaysOrder == Spec => [](HandleInv /\ DataInv /\ OrderInv)
  <1>1. Init => OrderInv
    BY DEF Init, OrderInv
  <1>2. HandleInv /\ DataInv /\ OrderInv /\ [Next]_vars => OrderInv'
    BY EncKeepsOrder, DecKeepsOrder, OthersKeepOrder
       DEF Next, Step, Waits
  <1> QED
    BY <1>1, <1>2, AlwaysData, PTL DEF Spec

\* What ak_aencode records and ak_adec_demo plays is what it took, each frame
\* and unit once and in order, without those the library refused, and with the
\* head that an AMR file needs unless that could not be written or read:
\* nothing is left in the list or in data[] when the stream is cancelled, and
\* the file was read to its end, unless a read failed (write_stream_to_file,
\* ak_adec_send_stream's loop).
THEOREM OrderKept == Spec => []InOrder
  <1>1. HandleInv /\ DataInv /\ OrderInv => InOrder
    <2> SUFFICES ASSUME HandleInv, DataInv, OrderInv PROVE InOrder
      OBVIOUS
    <2>1. pc = "cancel" =>
            buf = <<>> /\ (program = "dec" => pos = FileLen \/ ferror)
      BY DEF DataInv
    <2> QED
      BY <2>1 DEF InOrder, OrderInv, Rising, First
  <1> QED
    BY <1>1, AlwaysOrder, PTL
=============================================================================
