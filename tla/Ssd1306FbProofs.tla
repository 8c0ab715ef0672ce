--------------------------- MODULE Ssd1306FbProofs ---------------------------
(***************************************************************************)
(* For every number of chunks, every set of writers and all faults: the    *)
(* driver's types, and that the panel shows the video memory at rest.      *)
(***************************************************************************)
EXTENDS Ssd1306Fb, TLAPS

Flags == /\ stale \in BOOLEAN /\ oops \in BOOLEAN
         /\ pending \in BOOLEAN /\ clean \in BOOLEAN

\* Types, to begin with.
LEMMA InitTyped == Init => TypeOK
  <1> SUFFICES ASSUME Init PROVE TypeOK
    OBVIOUS
  <1>1. Flags
    BY Zenon DEF Init, Flags
  <1> QED
    BY <1>1, ConstantsAssumption, SMT
    DEF ConstantsAssumption, Init, TypeOK, Flags, Chunks, Memory, Arrays, Jobs,
        NoJob

\* The Boolean variables stay Boolean.
LEMMA FlagsTyped == TypeOK /\ [Next]_vars => Flags'
  <1> SUFFICES ASSUME TypeOK, [Next]_vars PROVE Flags'
    OBVIOUS
  <1>0. Flags
    BY Zenon DEF TypeOK, Flags
  <1> USE <1>0 DEF Flags, devVars, userVars, workVars, panelVars
  <1>1. CASE UNCHANGED vars
    BY <1>1, Zenon DEF vars
  <1>2. CASE Allocate
    BY <1>2, Zenon DEF Allocate
  <1>3. CASE InitPanel
    BY <1>3, Zenon DEF InitPanel, Scheduled
  <1>4. CASE Register \/ Release \/ Unregister \/ FreeArrays
    BY <1>4, Zenon DEF Register, Release, Unregister, FreeArrays
  <1>5. ASSUME NEW w \in Writers, BeginWrite(w) \/ CopyChunk(w) \/ CopyFails(w)
        PROVE Flags'
    BY <1>5, Zenon DEF BeginWrite, CopyChunk, CopyFails
  <1>6. ASSUME NEW w \in Writers, EndWrite(w) PROVE Flags'
    BY <1>6, Zenon DEF EndWrite, Scheduled
  <1>7. CASE StartUpdate
    BY <1>7, Zenon DEF StartUpdate
  <1>8. CASE SetAddress
    BY <1>8, Zenon DEF SetAddress
  <1>9. CASE CopyToArray
    BY <1>9, Zenon DEF CopyToArray
  <1>10. CASE SendChunk
    BY <1>10, Zenon DEF SendChunk
  <1>11. CASE Oops
    BY <1>11, Zenon DEF Oops
  <1> QED
    BY <1>1, <1>2, <1>3, <1>4, <1>5, <1>6, <1>7, <1>8, <1>9, <1>10, <1>11
    DEF Next, DriverStep, WorkerStep, WriterStep, InitOops, UpdateOops, WriteOops

\* A writer's steps keep the types of what they touch.
LEMMA WriterTyped ==
  ASSUME TypeOK, Flags', NEW w \in Writers, WriterStep(w) PROVE TypeOK'
  <1>0. job[w] \in Jobs
    BY DEF TypeOK
  <1>1. CASE BeginWrite(w)
    <2>1. PICK p \in Chunks, n \in 1..NChunks, pixels \in Values :
            job' = [job EXCEPT ![w] =
                      [from |-> p, at |-> p, pixels |-> pixels,
                       to |-> IF n + p > NChunks THEN NChunks ELSE n + p]]
      BY <1>1, Zenon DEF BeginWrite
    <2> DEFINE new == [from |-> p, at |-> p, pixels |-> pixels,
                       to |-> IF n + p > NChunks THEN NChunks ELSE n + p]
    <2>2. new \in Jobs
      BY ConstantsAssumption, SMT DEF ConstantsAssumption, Chunks, Jobs
    <2>3. job' \in [Writers -> Jobs]
      BY <2>1, <2>2, SMT DEF TypeOK
    <2> QED
      BY <1>1, <2>3, ConstantsAssumption, SMT
      DEF ConstantsAssumption, BeginWrite, TypeOK, Flags, devVars, workVars, panelVars
  <1>2. CASE CopyChunk(w)
    <2>1. job[w].at \in Chunks /\ job[w].at + 1 \in 0..NChunks
      BY <1>0, <1>2, ConstantsAssumption, SMT
      DEF ConstantsAssumption, CopyChunk, Jobs, Chunks
    <2>2. [job[w] EXCEPT !.at = @ + 1] \in Jobs
      BY <1>0, <2>1, SMT DEF Jobs
    <2>3. job' \in [Writers -> Jobs]
      BY <1>2, <2>2, SMT DEF TypeOK, Flags, CopyChunk
    <2>4. vmem' \in [Chunks -> Values]
      BY <1>0, <1>2, <2>1, SMT DEF TypeOK, Flags, CopyChunk, Jobs
    <2> QED
      BY <1>2, <2>3, <2>4, SMT
      DEF CopyChunk, TypeOK, Flags, devVars, workVars, panelVars
  <1>3. CASE CopyFails(w) \/ EndWrite(w)
    <2>1. NoJob \in Jobs
      BY ConstantsAssumption, SMT DEF ConstantsAssumption, NoJob, Jobs
    <2> QED
      BY <1>3, <2>1, SMT
      DEF CopyFails, EndWrite, Scheduled, Copied, TypeOK, Flags, devVars, workVars,
          panelVars
  <1>4. CASE WriteOops(w)
    BY <1>4, SMT
    DEF WriteOops, Oops, TypeOK, Flags, devVars, userVars, workVars, panelVars
  <1> QED
    BY <1>1, <1>2, <1>3, <1>4 DEF WriterStep

\* The driver and the worker keep their types; the update counts within the
\* video memory.
LEMMA DeviceTyped ==
  ASSUME TypeOK, Flags', DriverStep \/ FreeArrays \/ WorkerStep PROVE TypeOK'
  <1>1. CASE Allocate
    <2>1. /\ live' \subseteq Memory
          /\ driver' \in {"unbound", "init", "register", "bound", "fail",
                          "unregister", "release"}
      BY <1>1, Zenon DEF Allocate, TypeOK, Memory, Arrays
    <2> QED
      BY <1>1, <2>1, ConstantsAssumption, SMT
      DEF ConstantsAssumption, Allocate, TypeOK, Flags, panelVars
  <1>2. CASE InitPanel
    BY <1>2, ConstantsAssumption, SMT
    DEF ConstantsAssumption, InitPanel, Scheduled, TypeOK, Flags, Chunks, userVars,
        workVars
  <1>3. CASE InitOops \/ UpdateOops
    BY <1>3, SMT
    DEF InitOops, UpdateOops, Oops, TypeOK, Flags, devVars, userVars, workVars,
        panelVars
  <1>4. CASE Register \/ Unregister \/ FreeArrays
    BY <1>4, SMT
    DEF Register, Unregister, FreeArrays, TypeOK, Flags, userVars, workVars, panelVars
  <1>5. CASE Release
    BY <1>5, SMT DEF Release, TypeOK, Flags, userVars, workVars, panelVars
  <1>6. CASE StartUpdate
    BY <1>6, SMT DEF StartUpdate, TypeOK, Flags, devVars, panelVars
  <1>7. CASE SetAddress
    BY <1>7, ConstantsAssumption, SMT
    DEF ConstantsAssumption, SetAddress, AddressSet, TypeOK, Flags, Chunks, devVars,
        userVars
  <1>8. CASE CopyToArray
    BY <1>8, SMT DEF CopyToArray, TypeOK, Flags, devVars, userVars, panelVars
  <1>9. CASE SendChunk
    <2>1. NextCursor \in Chunks
      BY ConstantsAssumption, SMT
      DEF ConstantsAssumption, NextCursor, TypeOK, Flags, Chunks
    <2>2. worker' \in {"idle", "copy"} /\ chunk' \in Chunks
      BY <1>9, ConstantsAssumption, SMT
      DEF ConstantsAssumption, SendChunk, LastChunk, TypeOK, Flags, Chunks
    <2>3. panel' \in [Chunks -> Values] /\ cursor' \in Chunks
      BY <1>9, <2>1, SMT DEF SendChunk, TypeOK
    <2> QED
      BY <1>9, <2>2, <2>3, SMT DEF SendChunk, TypeOK, Flags, devVars, userVars
  <1> QED
    BY <1>1, <1>2, <1>3, <1>4, <1>5, <1>6, <1>7, <1>8, <1>9
    DEF DriverStep, WorkerStep

\* Every step keeps the types.
LEMMA StepTyped == TypeOK /\ [Next]_vars => TypeOK'
  <1>1. TypeOK /\ UNCHANGED vars => TypeOK'
    BY SMT DEF TypeOK, Flags, vars, devVars, userVars, workVars, panelVars
  <1> QED
    BY <1>1, FlagsTyped, WriterTyped, DeviceTyped DEF Next

\* Every variable keeps its type for all constants, and i never leaves the
\* video memory.
THEOREM TypeCorrect == Spec => []TypeOK
  BY InitTyped, StepTyped, PTL DEF Spec

-----------------------------------------------------------------------------
(***************************************************************************)
(* The panel mirrors the video memory.                                     *)
(***************************************************************************)
\* An update that starts later will send chunk c, or nobody promised one.
Excused(c) == pending \/ c \in skipped \/ \E w \in Writers : c \in Copied(w)
Good(c)    == panel[c] = vmem[c] \/ Excused(c)

\* How far a clean update has got: everything before the chunk it is at is
\* good, and so is the copy it is about to send to just that chunk.
Progress ==
  /\ worker = "idle" => \A c \in Chunks : Good(c)
  /\ worker \in {"copy", "send"} =>
       cursor = chunk /\ \A c \in Chunks : c < chunk => Good(c)
  /\ worker = "send" => data16 = vmem[chunk] \/ Excused(chunk)

Ordered == \A w \in Writers : job[w].from <= job[w].at

\* Before the display is initialised nothing runs, unless it is stale.
Quiet ==
  /\ driver = "unbound" => live = {} /\ (stale \/ (~pending /\ worker = "idle"))
  /\ driver = "init" =>
       worker = "idle" /\ ~pending /\ \A w \in Writers : job[w] = NoJob

MirrorInv == TypeOK /\ Ordered /\ Quiet /\ (Ready /\ clean => Progress)

\* A panel nobody drives promises nothing.
LEMMA InitMirror == Init => MirrorInv
  BY InitTyped DEF MirrorInv, Init, Ready, Ordered, Quiet, NoJob

\* A writer's copying goes forward from where it began.
LEMMA StepOrdered == MirrorInv /\ TypeOK' /\ [Next]_vars => Ordered'
  <1> SUFFICES ASSUME MirrorInv, TypeOK', [Next]_vars PROVE Ordered'
    OBVIOUS
  <1>0. Ordered /\ TypeOK
    BY DEF MirrorInv
  <1>1. CASE UNCHANGED job
    BY <1>0, <1>1 DEF Ordered
  <1>2. ASSUME NEW w \in Writers, job'[w].from <= job'[w].at,
               \A v \in Writers : v # w => job'[v] = job[v]
        PROVE Ordered'
    BY <1>0, <1>2 DEF Ordered
  <1>3. ASSUME NEW w \in Writers, BeginWrite(w) PROVE Ordered'
    <2>1. PICK p \in Chunks, n \in 1..NChunks, pixels \in Values :
            job' = [job EXCEPT ![w] =
                      [from |-> p, at |-> p, pixels |-> pixels,
                       to |-> IF n + p > NChunks THEN NChunks ELSE n + p]]
      BY <1>3, Zenon DEF BeginWrite
    <2>2. job'[w].from = p /\ job'[w].at = p
      BY <1>0, <2>1 DEF TypeOK
    <2>3. \A v \in Writers : v # w => job'[v] = job[v]
      BY <1>0, <2>1 DEF TypeOK
    <2> QED
      BY <1>2, <2>2, <2>3 DEF Chunks
  <1>4. ASSUME NEW w \in Writers, CopyChunk(w) PROVE Ordered'
    <2>1. /\ job'[w] = [job[w] EXCEPT !.at = @ + 1]
          /\ \A v \in Writers : v # w => job'[v] = job[v]
      BY <1>0, <1>4, Zenon DEF CopyChunk, TypeOK
    <2>2. job'[w].from = job[w].from /\ job'[w].at = job[w].at + 1
      BY <1>0, <2>1 DEF Jobs, TypeOK
    <2>3. job[w].from \in Int /\ job[w].at \in Int
      BY <1>0 DEF TypeOK, Jobs
    <2>4. job'[w].from <= job'[w].at
      BY <1>0, <2>2, <2>3 DEF Ordered
    <2> QED
      BY <1>2, <2>1, <2>4
  <1>5. ASSUME NEW w \in Writers, CopyFails(w) \/ EndWrite(w) PROVE Ordered'
    <2>1. job' = [job EXCEPT ![w] = NoJob]
      BY <1>5 DEF CopyFails, EndWrite
    <2>2. job'[w] = NoJob /\ \A v \in Writers : v # w => job'[v] = job[v]
      BY <1>0, <2>1 DEF TypeOK
    <2> QED
      BY <1>2, <2>2 DEF NoJob
  <1>6. UNCHANGED job \/ \E w \in Writers :
          BeginWrite(w) \/ CopyChunk(w) \/ CopyFails(w) \/ EndWrite(w)
    BY DEF Next, DriverStep, WorkerStep, WriterStep, Allocate, InitPanel,
           InitOops, Register, Release, FreeArrays, Unregister, WriteOops,
           StartUpdate, SetAddress, CopyToArray, SendChunk, UpdateOops, Oops,
           vars, userVars
  <1> QED
    BY <1>1, <1>3, <1>4, <1>5, <1>6

\* Nothing runs before the display is initialised.
LEMMA StepQuiet == MirrorInv /\ [Next]_vars => Quiet'
  <1> SUFFICES ASSUME MirrorInv, [Next]_vars PROVE Quiet'
    OBVIOUS
  <1> USE DEF MirrorInv, Quiet, devVars, userVars, workVars, panelVars
  <1>1. CASE UNCHANGED vars
    BY <1>1 DEF vars
  <1>2. CASE Allocate
    BY <1>2, Zenon DEF Allocate
  <1>3. CASE InitPanel \/ Register \/ FreeArrays \/ Unregister
    BY <1>3 DEF InitPanel, Register, FreeArrays, Unregister
  <1>4. CASE Release
    <2>1. stale' \/ (~pending' /\ worker' = "idle")
      BY <1>4, Zenon DEF Release
    <2>2. driver' = "unbound" /\ live' = {}
      BY <1>4 DEF Release
    <2> QED
      BY <2>1, <2>2, Zenon
  <1>5. CASE InitOops \/ UpdateOops
    BY <1>5 DEF InitOops, UpdateOops, Oops
  <1>6. ASSUME NEW w \in Writers, WriterStep(w) PROVE Quiet'
    <2>1. driver \notin {"unbound", "init"}
          \/ UNCHANGED <<pending, worker, live, job, stale, driver>>
      BY <1>6 DEF WriterStep, BeginWrite, CopyChunk, CopyFails, EndWrite,
         WriteOops, Oops, Registered, NoJob
    <2> QED
      BY <1>6, <2>1 DEF WriterStep, BeginWrite, CopyChunk, CopyFails,
         EndWrite, WriteOops, Oops
  <1>7. CASE StartUpdate \/ SetAddress \/ CopyToArray \/ SendChunk
    BY <1>7 DEF StartUpdate, SetAddress, CopyToArray, SendChunk
  <1> QED
    BY <1>1, <1>2, <1>3, <1>4, <1>5, <1>6, <1>7 DEF Next, DriverStep, WorkerStep

\* A chunk a writer changes is excused; its other steps excuse no chunk less.
LEMMA WriterMirror ==
  ASSUME MirrorInv, TypeOK', Ordered', Quiet', NEW w \in Writers, WriterStep(w)
  PROVE  MirrorInv'
  <1> SUFFICES ASSUME Ready, clean PROVE Progress'
    BY DEF MirrorInv, WriterStep, BeginWrite, CopyChunk, CopyFails, EndWrite,
           WriteOops, Oops, Ready, devVars, workVars
  <1>0. Progress /\ TypeOK /\ job[w] \in Jobs
    BY DEF MirrorInv, TypeOK
  <1>a. UNCHANGED <<worker, chunk, data16, panel, cursor>>
    BY DEF WriterStep, BeginWrite, CopyChunk, CopyFails, EndWrite, WriteOops,
           Oops, workVars, panelVars
  <1>1. ASSUME \A c \in Chunks : vmem'[c] = vmem[c] \/ Excused(c)',
               \A c \in Chunks : Excused(c) => Excused(c)'
        PROVE Progress'
    BY <1>0, <1>a, <1>1 DEF Progress, Good, TypeOK
  <1>2. CASE BeginWrite(w)
    <2>1. UNCHANGED <<vmem, pending, skipped>>
      BY <1>2 DEF BeginWrite
    <2>2. \A v \in Writers, c \in Chunks : c \in Copied(v) => v # w
      BY <1>2 DEF BeginWrite, Copied, NoJob, Chunks
    <2>3. \A v \in Writers : v # w => job'[v] = job[v]
      BY <1>0, <1>2, Zenon DEF BeginWrite, TypeOK
    <2>4. \A c \in Chunks : Excused(c) => Excused(c)'
      BY <2>1, <2>2, <2>3 DEF Excused, Copied
    <2> QED
      BY <1>1, <2>1, <2>4
  <1>3. CASE CopyChunk(w)
    <2> DEFINE at == job[w].at
    <2>1. at \in Chunks /\ UNCHANGED <<pending, skipped>>
      BY <1>0, <1>3, ConstantsAssumption
      DEF CopyChunk, Jobs, Chunks, ConstantsAssumption
    <2>2. \A c \in Chunks : c # at => vmem'[c] = vmem[c]
      BY <1>0, <1>3 DEF CopyChunk, TypeOK
    <2>3. /\ job'[w] = [job[w] EXCEPT !.at = @ + 1]
          /\ \A v \in Writers : v # w => job'[v] = job[v]
      BY <1>0, <1>3, Zenon DEF CopyChunk, TypeOK
    <2>4. job'[w].from = job[w].from /\ job'[w].at = at + 1
      BY <1>0, <2>3 DEF Jobs
    <2>5. \A v \in Writers, c \in Chunks : c \in Copied(v) => c \in Copied(v)'
      BY <1>0, <2>1, <2>3, <2>4 DEF Copied, Chunks, Jobs
    <2>6. \A c \in Chunks : Excused(c) => Excused(c)'
      BY <2>1, <2>5 DEF Excused
    <2>7. at \in Copied(w)'
      BY <1>0, <2>1, <2>4 DEF Copied, MirrorInv, Ordered, Chunks, Jobs
    <2> QED
      BY <1>1, <2>2, <2>6, <2>7 DEF Excused
  <1>4. CASE CopyFails(w)
    <2>1. UNCHANGED <<vmem, pending>> /\ skipped' = skipped \cup Copied(w)
      BY <1>4 DEF CopyFails
    <2>2. \A v \in Writers : v # w => job'[v] = job[v]
      BY <1>0, <1>4 DEF CopyFails, TypeOK
    <2>3. \A c \in Chunks : Excused(c) => Excused(c)'
      BY <2>1, <2>2 DEF Excused, Copied
    <2> QED
      BY <1>1, <2>1, <2>3
  <1>5. CASE EndWrite(w)
    <2>1. pending' /\ vmem' = vmem
      BY <1>5 DEF EndWrite, Scheduled
    <2> QED
      BY <1>1, <2>1 DEF Excused
  <1>6. CASE WriteOops(w)
    BY <1>0, <1>6 DEF WriteOops, Oops, Progress, Good, Excused, Copied, userVars,
       workVars, panelVars
  <1> QED
    BY <1>2, <1>3, <1>4, <1>5, <1>6 DEF WriterStep

\* While the device is ready an update makes good one chunk after the other.
LEMMA WorkerMirror ==
  ASSUME MirrorInv, TypeOK', WorkerStep PROVE Ready' /\ clean' => Progress'
  <1> SUFFICES ASSUME Ready', clean' PROVE Progress'
    OBVIOUS
  <1>0. TypeOK /\ (clean => Progress)
    BY DEF MirrorInv, WorkerStep, StartUpdate, SetAddress, CopyToArray,
           SendChunk, UpdateOops, Oops, Ready, devVars
  <1>1. CASE StartUpdate
    BY <1>1 DEF StartUpdate, Progress
  <1>2. CASE SetAddress
    BY <1>0, <1>2 DEF SetAddress, AddressSet, Progress, Chunks
  <1>3. CASE CopyToArray
    BY <1>0, <1>3
    DEF CopyToArray, Progress, Good, Excused, Copied, userVars, panelVars
  <1>4. CASE SendChunk
    <2>1. Progress /\ UNCHANGED <<vmem, job, skipped, pending>>
      BY <1>0, <1>4 DEF SendChunk, userVars
    <2>2. \A c \in Chunks : Excused(c)' <=> Excused(c)
      BY <2>1 DEF Excused, Copied
    <2>3. /\ cursor = chunk /\ panel' = [panel EXCEPT ![chunk] = data16]
          /\ cursor' = NextCursor
      BY <1>0, <1>4, <2>1 DEF SendChunk, Progress
    <2>4. \A c \in Chunks : c <= chunk => Good(c)'
      BY <1>0, <1>4, <2>1, <2>2, <2>3
      DEF Good, Progress, SendChunk, TypeOK, Chunks
    <2>5. CASE chunk = LastChunk
      BY <1>0, <1>4, <2>4, <2>5, ConstantsAssumption
      DEF SendChunk, Progress, LastChunk, Chunks, ConstantsAssumption
    <2>6. CASE chunk # LastChunk
      BY <1>0, <1>4, <2>3, <2>4, <2>6, ConstantsAssumption
      DEF SendChunk, Progress, LastChunk, NextCursor, Chunks, TypeOK,
          ConstantsAssumption
    <2> QED
      BY <2>5, <2>6
  <1>5. CASE UpdateOops
    BY <1>0, <1>5 DEF UpdateOops, Oops, Progress, Good, Excused, Copied, userVars,
       workVars, panelVars
  <1> QED
    BY <1>1, <1>2, <1>3, <1>4, <1>5 DEF WorkerStep

\* Probe makes the device ready with an update queued; remove ends it.
LEMMA DriverMirror ==
  ASSUME MirrorInv, DriverStep \/ FreeArrays PROVE Ready' /\ clean' => Progress'
  <1>1. CASE Allocate \/ Release \/ FreeArrays \/ Unregister
    BY <1>1, Zenon DEF Allocate, Release, FreeArrays, Unregister, Ready, Memory
  <1>2. CASE InitOops
    BY <1>2 DEF InitOops, Oops, Ready, devVars
  <1>3. CASE Register
    BY <1>3 DEF Register, Ready, MirrorInv, Progress, Good, Excused, Copied,
       userVars, workVars, panelVars
  <1>4. CASE InitPanel
    BY <1>4 DEF InitPanel, Scheduled, Ready, MirrorInv, Quiet, Progress, Good,
       Excused, workVars
  <1> QED
    BY <1>1, <1>2, <1>3, <1>4 DEF DriverStep

\* Every step keeps the invariant.
LEMMA StepMirror == MirrorInv /\ [Next]_vars => MirrorInv'
  <1> SUFFICES ASSUME MirrorInv, [Next]_vars PROVE MirrorInv'
    OBVIOUS
  <1>1. TypeOK'
    BY StepTyped DEF MirrorInv
  <1>2. Ordered' /\ Quiet'
    BY <1>1, StepOrdered, StepQuiet
  <1>3. CASE UNCHANGED vars
    BY <1>1, <1>2, <1>3
    DEF MirrorInv, Progress, Good, Excused, Copied, Ready, vars, devVars,
        userVars, workVars, panelVars
  <1>4. ASSUME NEW w \in Writers, WriterStep(w) PROVE MirrorInv'
    BY <1>1, <1>2, <1>4, WriterMirror
  <1>5. CASE DriverStep \/ FreeArrays \/ WorkerStep
    BY <1>1, <1>2, <1>5, DriverMirror, WorkerMirror DEF MirrorInv
  <1> QED
    BY <1>3, <1>4, <1>5 DEF Next

\* At rest the panel shows the video memory, chunk by chunk, for every size
\* of the display, every set of writers and all faults.
THEOREM PanelMirrors == Spec => []PanelCurrent
  <1>1. MirrorInv => PanelCurrent
    BY DEF MirrorInv, PanelCurrent, Progress, Good, Excused
  <1> QED
    BY <1>1, InitMirror, StepMirror, PTL DEF Spec
=============================================================================
