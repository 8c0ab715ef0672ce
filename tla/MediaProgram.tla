----------------------------- MODULE MediaProgram -----------------------------
(***************************************************************************)
(* The programs that use the media libraries from one thread: ak_aencode   *)
(* (apps/ak_arecord_aenc, the SDK's ak_aenc_demo adapted to this camera)   *)
(* and the SDK's demos of the audio decoder, of motion detection and of    *)
(* the on-screen display.  Each opens handles one after the other, moves   *)
(* data, and gives everything back in a cascade that a failure enters half *)
(* way.                                                                    *)
(*                                                                         *)
(* The state of a handle is whether it is in open.  Data are numbered: the *)
(* frames of the encoder in the order they come, the units of the file     *)
(* that is decoded; unit 0 is the head of an AMR file that is written.     *)
(***************************************************************************)
EXTENDS Integers, Sequences, SequencesExt, FiniteSetsExt

CONSTANTS
  Faults,      \* calls that may fail
  MaxFrames,   \* frames the encoder delivers at most: bounds a recording
  FileLen,     \* units in the file that is decoded
  Block        \* units one fread brings at most, RECORD_READ_LEN

Programs == {"enc", "dec", "detect", "osd"}

\* What a handle is made from or bound to.  osd is the exception: osd_demo
\* closes the camera under the display when a drawing call failed, so no
\* promise is made of it.
Needs ==
  [file |-> {}, ipc |-> {}, ai |-> {}, aiCapture |-> {"ai"}, aenc |-> {},
   aencStream |-> {"ai", "aenc"}, ao |-> {}, speaker |-> {"ao"}, adec |-> {},
   adecStream |-> {"ao", "adec"}, vi |-> {}, viCapture |-> {"vi"},
   md |-> {"vi"}, osd |-> {}, frame |-> {"vi"}]

Handle == DOMAIN Needs

FaultKinds == Handle \cup {"match", "attr", "md_setup", "font", "draw",
                           "read", "write", "send", "notice", "flush"}

ASSUME ConstantsAssumption ==
  /\ Faults \subseteq FaultKinds
  /\ MaxFrames \in Nat /\ FileLen \in Nat /\ Block \in Nat \ {0}

VARIABLES
  program,   \* which of the four this is
  amr,       \* the audio type is AMR
  pc,        \* where main is
  open,      \* the handles that are open
  pos,       \* frames taken from the encoder, units read from the file
  buf,       \* stream_head, or what is left of data[] to send
  out,       \* the recorded file, or what the decoder was sent
  lost,      \* frames not written, units not sent
  headLost,  \* the head of an AMR file could not be written or read
  ferror,    \* a read of the file failed
  noticed,   \* ak_adec_notice_stream_end succeeded
  count      \* frames fetched by osd_demo's two loops

fileVars == <<headLost, ferror, noticed>>
dataVars == <<pos, buf, out, lost>>
vars     == <<program, amr, pc, open, fileVars, dataVars, count>>

(***************************************************************************)
(* Slips: plausible mistakes in a definition below; none is used here.     *)
(***************************************************************************)
WholeBlock          == pos + Block       \* the length fread returns ignored
CancelForgotten     == "closeEnc"             \* no ak_aenc_cancel_stream
GotoFpEnd           == "closeFile"            \* the wrong label of the cascade
SendsTheStart(k)    == SubSeq(buf, 1, Len(buf) - k)   \* &data[0] sent again
NoBreakAtEof        == "read"                 \* while without break

-----------------------------------------------------------------------------
Runs == pc \notin {"return", "killed"}

Goes(from, to) == pc = from /\ pc' = to

\* A call that opens h; where main goes when it does and when it does not.
Open(h, from, to, failed) ==
  /\ \/ Goes(from, to) /\ open' = open \cup {h}
     \/ h \in Faults /\ Goes(from, failed) /\ open' = open
  /\ UNCHANGED <<program, amr, fileVars, dataVars, count>>

\* A call that opens nothing, and may fail.
Try(call, from, to, failed) ==
  /\ \/ Goes(from, to)
     \/ call \in Faults /\ Goes(from, failed)
  /\ UNCHANGED <<program, amr, fileVars, open, dataVars, count>>

\* Giving back what was not opened has no effect.
Close(h, from, to) ==
  /\ Goes(from, to)
  /\ open' = open \ {h}
  /\ UNCHANGED <<program, amr, fileVars, dataVars, count>>

\* A call that failed, after which main closes h and leaves.
FailAndClose(call, h, from) ==
  /\ call \in Faults
  /\ Close(h, from, "return")

(***************************************************************************)
(* ak_aencode.  The arguments are checked before anything is opened.       *)
(***************************************************************************)
CreateRecordFile ==
  /\ \/ /\ Goes("start", "ipc")
        /\ open' = open \cup {"file"}
        /\ \/ out' = (IF amr THEN <<0>> ELSE out) /\ headLost' = headLost
           \/ amr /\ "write" \in Faults /\ headLost' = TRUE /\ out' = out
     \/ /\ "file" \in Faults /\ Goes("start", "return")
        /\ UNCHANGED <<open, out, headLost>>
  /\ UNCHANGED <<program, amr, ferror, noticed, pos, buf, lost, count>>

AencFailed == "stopAi"    \* goto ai_end
AfterRecording == "cancel"

EncOpen ==
  \/ CreateRecordFile
  \/ Open("ipc", "ipc", "ai", "ai")
  \/ Open("ai", "ai", "capture", "closeFile")
  \/ Open("aiCapture", "capture", "aenc", "aenc")
  \/ Open("aenc", "aenc", "request", AencFailed)
  \/ Open("aencStream", "request", "record", "closeEnc")

\* One turn of write_record_file's loop: the clock, then the list.  There
\* may be any number of new entries, which go to its tail.
RecordTimeUp ==
  /\ Goes("record", AfterRecording)
  /\ UNCHANGED <<program, amr, fileVars, open, dataVars, count>>

EncGetStream ==
  /\ Goes("record", "write")
  /\ \E n \in 1..(MaxFrames - pos) :
       /\ pos' = pos + n
       /\ buf' = buf \o [i \in 1..n |-> pos + i]
  /\ UNCHANGED <<program, amr, fileVars, open, out, lost, count>>

\* One entry of write_stream_to_file: written or not, it is released.  The
\* result of fwrite is compared with a negative number and never is one.
EncWriteEntry ==
  /\ pc = "write" /\ buf # <<>>
  /\ \/ out' = Append(out, Head(buf)) /\ lost' = lost
     \/ "write" \in Faults /\ lost' = lost \cup {Head(buf)} /\ out' = out
  /\ buf' = Tail(buf)
  /\ pc' = IF buf' = <<>> THEN "record" ELSE "write"
  /\ UNCHANGED <<program, amr, fileVars, open, pos, count>>

EncClose ==
  \/ Close("aencStream", "cancel", "closeEnc")
  \/ Close("aenc", "closeEnc", "stopAi")
  \/ Close("aiCapture", "stopAi", "closeAi")
  \/ Close("ai", "closeAi", "closeFile")
  \/ Close("file", "closeFile", "unregister")
  \/ Close("ipc", "unregister", "return")

EncStep ==
  /\ program = "enc"
  /\ EncOpen \/ RecordTimeUp \/ EncGetStream \/ EncWriteEntry \/ EncClose

(***************************************************************************)
(* ak_adec_demo.                                                           *)
(***************************************************************************)
DecOpen ==
  \/ Open("file", "start", "ipc", "return")
  \/ Open("ipc", "ipc", "ao", "ao")
  \/ Open("ao", "ao", "speaker", "closeFile")
  \/ Open("speaker", "speaker", "adec", "adec")
  \/ Open("adec", "adec", "request", "speakerOff")
  \/ Open("adecStream", "request", "head", "closeDec")

\* The head of an AMR file is read and not sent.  Nobody looks whether it was.
SkipHead ==
  /\ Goes("head", "read")
  /\ \/ /\ pos' = IF amr THEN Min({1, FileLen}) ELSE pos
        /\ headLost' = headLost
     \/ amr /\ "read" \in Faults /\ headLost' = TRUE /\ pos' = pos
  /\ UNCHANGED <<program, amr, open, ferror, noticed, buf, out, lost, count>>

\* Where fread stops, unless it fails.
BlockEnd == Min({pos + Block, FileLen})
AtEof    == "notice"

\* A read that fails brings less, and ends the loop when it brings nothing.
ReadBlock ==
  /\ pc = "read"
  /\ \/ pos' = BlockEnd /\ ferror' = ferror
     \/ "read" \in Faults /\ pos' \in pos..BlockEnd /\ ferror' = TRUE
  /\ buf' = [i \in 1..(pos' - pos) |-> pos + i]
  /\ pc' = IF pos' > pos THEN "send" ELSE AtEof
  /\ UNCHANGED <<program, amr, open, headLost, noticed, out, lost, count>>

\* What is left when the decoder has taken k units: &data[send_len].
Unsent(k) == SubSeq(buf, k + 1, Len(buf))

\* ak_adec_send_stream takes part of the data, or refuses them: then the
\* rest of the block is dropped and the next block is read.  As long as it
\* takes nothing it is asked again, and nothing changes.
SendStream ==
  /\ pc = "send"
  /\ \/ \E k \in 1..Len(buf) :
          /\ out' = out \o SubSeq(buf, 1, Len(buf) - Len(Unsent(k)))
          /\ buf' = Unsent(k) /\ lost' = lost
     \/ /\ "send" \in Faults
        /\ lost' = lost \cup ToSet(buf)
        /\ buf' = <<>> /\ out' = out
  /\ pc' = IF buf' = <<>> THEN "read" ELSE "send"
  /\ UNCHANGED <<program, amr, fileVars, open, pos, count>>

\* Nobody looks at what ak_adec_notice_stream_end returns.
NoticeEnd ==
  /\ Goes("notice", "cancel")
  /\ \/ noticed' = TRUE
     \/ "notice" \in Faults /\ noticed' = noticed
  /\ UNCHANGED <<program, amr, open, headLost, ferror, dataVars, count>>

\* ak_adec_cancel_stream waits for the end of the stream.
DecClose ==
  \/ noticed /\ Close("adecStream", "cancel", "closeDec")
  \/ Close("adec", "closeDec", "speakerOff")
  \/ Close("speaker", "speakerOff", "closeAo")
  \/ Close("ao", "closeAo", "closeFile")
  \/ Close("file", "closeFile", "unregister")
  \/ Close("ipc", "unregister", "return")

DecStep ==
  /\ program = "dec"
  /\ DecOpen \/ SkipHead \/ ReadBlock \/ NoticeEnd \/ DecClose

DecWaits == program = "dec" /\ SendStream

(***************************************************************************)
(* ak_md_demo.  It detects in area mode until ten seconds have passed, but *)
(* looks at the clock only when ak_md_get_result has returned, which waits *)
(* for motion without a limit.                                             *)
(***************************************************************************)
DetectOpen ==
  \/ Try("match", "start", "vi", "return")
  \/ Open("vi", "vi", "attr", "return")
  \/ /\ Goes("attr", "capture")
     /\ UNCHANGED <<program, amr, fileVars, open, dataVars, count>>
  \/ FailAndClose("attr", "vi", "attr")
  \/ Open("viCapture", "capture", "md", "closeVi")
  \/ Open("md", "md", "setup", "stopVi")
  \/ Try("md_setup", "setup", "detect", "destroy")

\* Something moved, or the call failed.
GetResult ==
  /\ Goes("detect", "clock")
  /\ UNCHANGED <<program, amr, fileVars, open, dataVars, count>>

DetectTimeUp ==
  /\ Goes("clock", "destroy")
  /\ UNCHANGED <<program, amr, fileVars, open, dataVars, count>>

DetectAgain ==
  /\ Goes("clock", "detect")
  /\ UNCHANGED <<program, amr, fileVars, open, dataVars, count>>

DetectClose ==
  \/ Close("md", "destroy", "stopVi")
  \/ Close("viCapture", "stopVi", "closeVi")
  \/ Close("vi", "closeVi", "return")

DetectStep ==
  /\ program = "detect"
  /\ DetectOpen \/ DetectTimeUp \/ DetectAgain \/ DetectClose

DetectWaits == program = "detect" /\ GetResult

(***************************************************************************)
(* ak_osd_demo.  The results of ak_vi_set_channel_attr and                 *)
(* ak_vi_capture_on are ignored.                                           *)
(***************************************************************************)
OsdOpen ==
  \/ Open("ipc", "start", "match", "match")
  \/ Try("match", "match", "vi", "return")
  \/ Open("vi", "vi", "capture", "return")
  \/ Open("viCapture", "capture", "font", "font")
  \/ Try("font", "font", "osd", "stopVi")
  \/ Open("osd", "osd", "draw", "stopVi")
  \/ Try("draw", "draw", "flush", "stopVi")

\* Five rounds that throw old frames away, if there are any.
FlushFrame ==
  \/ /\ pc = "flush" /\ "frame" \notin open /\ "viCapture" \in open
     /\ open' = open \cup {"frame"}
     /\ UNCHANGED <<program, amr, fileVars, pc, dataVars, count>>
  \/ /\ pc = "flush"
     /\ "frame" \in open \/ "viCapture" \notin open \/ "flush" \in Faults
     /\ open' = open \ {"frame"}
     /\ pc' = IF count = 4 THEN "save" ELSE "flush"
     /\ count' = IF count = 4 THEN 0 ELSE count + 1
     /\ UNCHANGED <<program, amr, fileVars, dataVars>>

\* Two frames are saved, however long it takes until they come.
GetYuv ==
  /\ pc = "save" /\ count < 2 /\ "viCapture" \in open
  /\ "frame" \notin open
  /\ open' = open \cup {"frame"}
  /\ UNCHANGED <<program, amr, fileVars, pc, dataVars, count>>

ReleaseYuv ==
  /\ "frame" \in open
  /\ pc = "save"
  /\ open' = open \ {"frame"}
  /\ count' = count + 1
  /\ pc' = IF count' = 2 THEN "destroy" ELSE "save"
  /\ UNCHANGED <<program, amr, fileVars, dataVars>>

OsdClose ==
  \/ Close("osd", "destroy", "stopVi")
  \/ Close("viCapture", "stopVi", "closeVi")
  \/ Close("vi", "closeVi", "unregister")
  \/ Close("ipc", "unregister", "return")

OsdStep ==
  /\ program = "osd"
  /\ OsdOpen \/ FlushFrame \/ GetYuv \/ ReleaseYuv \/ OsdClose

-----------------------------------------------------------------------------
\* process_signal exits; the two demos without a handler are killed.
Signal ==
  /\ Runs
  /\ pc' = "killed" /\ open' = {}
  /\ UNCHANGED <<program, amr, fileVars, dataVars, count>>

Init ==
  /\ program \in Programs
  /\ amr \in BOOLEAN /\ (program \notin {"enc", "dec"} => ~amr)
  /\ pc = "start" /\ open = {}
  /\ pos = 0 /\ buf = <<>> /\ out = <<>> /\ lost = {} /\ count = 0
  /\ headLost = FALSE /\ ferror = FALSE /\ noticed = FALSE

Step == EncStep \/ DecStep \/ DetectStep \/ OsdStep

\* Calls that return when the decoder has room, or when something moves.
Waits == DecWaits \/ DetectWaits

Next == Step \/ Waits \/ Signal

\* The program runs; the clock is past the time at one of the looks main takes
\* at it; a camera that captures has a frame in the end.  Nothing is assumed of
\* Waits: the decoder may take nothing more, and nothing may move.
Fairness ==
  /\ WF_vars(Step)
  /\ SF_vars(EncStep /\ RecordTimeUp) /\ SF_vars(DetectStep /\ DetectTimeUp)
  /\ SF_vars(OsdStep /\ GetYuv)

Spec     == Init /\ [][Next]_vars
FairSpec == Spec /\ Fairness

-----------------------------------------------------------------------------
\* Every variable keeps its type, and what was read stays inside the file.
TypeOK ==
  /\ program \in Programs /\ amr \in BOOLEAN
  /\ open \subseteq Handle
  /\ pos \in 0..(IF program = "dec" THEN FileLen ELSE MaxFrames)
  /\ buf \in Seq(1..pos) /\ out \in Seq(0..pos)
  /\ lost \subseteq 1..pos
  /\ headLost \in BOOLEAN /\ ferror \in BOOLEAN /\ noticed \in BOOLEAN
  /\ count \in 0..4

\* All four keep the discipline of Handles: nothing is closed under a stream,
\* a capture or a frame that uses it, on any path through the cascades.
H == INSTANCE Handles
HandleSpec == H!Spec

\* A program that returns has given everything back, whichever call failed.
\* osd_demo alone does not: it leaves the command server registered when it
\* finds no sensor or camera, and the display up when it could not draw.
NothingLeft ==
  pc = "return" =>
    open \subseteq (IF program = "osd" THEN {"ipc", "osd"} ELSE {})

\* What is still to be written or sent follows what was, and together they
\* are the frames or units taken so far, each once and in order, without
\* those that were refused; an AMR file gets a head, and its head is never
\* decoded, unless writing or reading it failed.  When the stream is cancelled,
\* the list is empty and the file was read to its end, unless a read failed.
InOrder ==
  LET first == CASE program = "enc" /\ amr /\ ~headLost -> 0
                 [] program = "dec" /\ amr /\ ~headLost -> 2
                 [] OTHER -> 1
      kept  == out \o buf
  IN /\ program \in {"enc", "dec"} /\ "file" \in open =>
          /\ \A i, j \in DOMAIN kept : i < j => kept[i] < kept[j]
          /\ ToSet(kept) = (first..pos) \ lost
     /\ pc = "cancel" => buf = <<>>
     /\ pc = "cancel" /\ program = "dec" => pos = FileLen \/ ferror

\* The program waits for what need not come: motion, room in the decoder, the
\* end of a stream whose end was not noticed, or frames of a camera that does
\* not capture.
WaitsInVain ==
  \/ program = "detect" /\ pc = "detect"
  \/ program = "dec" /\ pc = "send"
  \/ program = "dec" /\ pc = "cancel" /\ ~noticed
  \/ program = "osd" /\ pc = "save" /\ "viCapture" \notin open

\* Every program ends, unless one of these four waits lasts for ever: nothing
\* else that fails, and no other loop, keeps it.
Ends == <>~Runs \/ <>[]WaitsInVain
=============================================================================
