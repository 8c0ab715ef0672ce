------------------------------ MODULE Ssd1306Fb ------------------------------
(***************************************************************************)
(* The frame buffer driver of the SSD1306 display.  Writers change the     *)
(* video memory and schedule a work item; the kernel's worker copies the   *)
(* memory to the panel over I2C in chunks of sixteen bytes.  Probe and     *)
(* remove build the device up and tear it down while that goes on.         *)
(*                                                                         *)
(* Using memory that was freed or never allocated is undefined; the model  *)
(* stops there (oops).                                                     *)
(***************************************************************************)
EXTENDS Integers, FiniteSets

CONSTANTS
  NChunks,    \* 64: 128 * 64 / 8 bytes of video memory in chunks of 16
  Values,     \* what a chunk of pixels can hold
  Blank,      \* the value kzalloc leaves
  Writers,    \* processes that write the frame buffer, or draw on it
  Faults,     \* what may fail
  MaxWrites,  \* bound: writes and drawings
  MaxProbes   \* bound: how often the driver is bound to the device

\* info, vmem, array: that allocation; nak: an I2C transfer; register:
\* register_framebuffer; user: copy_from_user stops half way.
FaultKinds == {"info", "vmem", "array", "nak", "register", "user"}

ASSUME ConstantsAssumption ==
  /\ NChunks \in Nat \ {0} /\ MaxWrites \in Nat /\ MaxProbes \in Nat
  /\ Blank \in Values
  /\ Faults \subseteq FaultKinds

Chunks == 0..(NChunks - 1)
Arrays == {"data16", "cmd1"}   \* ssd1306fb_alloc_array
Memory == {"info", "vmem"} \cup Arrays

VARIABLES
  driver,    \* where probe or remove is
  live,      \* the allocations of the device that can be used
  stale,     \* the work item lies in memory that was freed
  oops,      \* the kernel used memory it may not use
  probes,    \* times probed
  vmem,      \* video memory, by chunks
  job,       \* what each writer is doing
  writes,    \* writes begun
  pending,   \* the work item is queued
  worker,    \* where the update is, or "idle"
  chunk,     \* i in ssd1306fb_update_display
  data16,    \* the chunk about to be sent
  panel,     \* the panel's own memory
  cursor,    \* the chunk the panel's address registers point at
  clean,     \* no transfer of the last update failed
  skipped    \* chunks changed by a write that failed and scheduled nothing

devVars   == <<driver, live, stale, probes>>
userVars  == <<vmem, job, writes, skipped>>
workVars  == <<worker, chunk, data16, clean>>
panelVars == <<panel, cursor>>
vars == <<devVars, oops, userVars, pending, workVars, panelVars>>

NoJob == [from |-> 0, at |-> 0, to |-> 0, pixels |-> Blank]
Jobs  == [from : 0..NChunks, at : 0..NChunks, to : 0..NChunks, pixels : Values]

\* The chunks writer w has changed and not yet scheduled an update for.
Copied(w) == {c \in Chunks : job[w].from <= c /\ c < job[w].at}

(***************************************************************************)
(* Slips: plausible mistakes in a definition below; none is used here.     *)
(***************************************************************************)
ScheduleForgotten == pending                     \* no schedule_work
OneChunkShort     == NChunks - 2                 \* i < 63
OneChunkMore      == NChunks                     \* i <= 64
AddressNotSet     == cursor                      \* COLUMNADDR dropped

-----------------------------------------------------------------------------
Oops ==
  /\ oops' = TRUE
  /\ UNCHANGED <<devVars, userVars, pending, workVars, panelVars>>

(***************************************************************************)
(* Probe and remove.                                                       *)
(***************************************************************************)
\* Nobody else knows the device yet, so its allocations are one step.  The
\* arrays may be null: nothing looks.  A device that was given back while
\* something still used it is not probed again: the next use ends the model.
Allocate ==
  /\ ~oops /\ driver = "unbound" /\ ~stale /\ \A w \in Writers : job[w] = NoJob
  /\ probes < MaxProbes
  /\ probes' = probes + 1
  /\ \/ /\ "info" \in Faults
        /\ UNCHANGED <<driver, live>>
     \/ \E missing \in SUBSET Arrays :
          /\ missing # {} => "array" \in Faults
          /\ \/ driver' = "init" /\ live' = Memory \ missing
             \/ /\ "vmem" \in Faults
                /\ driver' = "fail" /\ live' = Memory \ (missing \cup {"vmem"})
  /\ vmem' = [c \in Chunks |-> Blank]
  /\ pending' = FALSE
  /\ clean' = TRUE /\ skipped' = {}
  /\ UNCHANGED <<stale, oops, job, writes, worker, chunk, data16, panelVars>>

\* What schedule_work leaves in the queue: an item that is queued already is
\* not queued twice, one that is running is queued again.
Scheduled == TRUE

\* The init commands end with the panel at the first chunk, and the first
\* update is scheduled.
InitPanel ==
  /\ ~oops /\ driver = "init" /\ "cmd1" \in live
  /\ \/ driver' = "register" /\ pending' = Scheduled /\ cursor' = 0
     \/ /\ "nak" \in Faults
        /\ driver' = "fail"
        /\ UNCHANGED <<pending, cursor>>
  /\ UNCHANGED <<live, stale, oops, probes, userVars, workVars, panel>>

InitOops == ~oops /\ driver = "init" /\ "cmd1" \notin live /\ Oops

Register ==
  /\ ~oops /\ driver = "register"
  /\ \/ driver' = "bound"
     \/ "register" \in Faults /\ driver' = "fail"
  /\ UNCHANGED <<live, stale, oops, probes, userVars, pending, workVars,
                 panelVars>>

\* framebuffer_release, and the kernel's release of the managed video
\* memory.  After a failed probe the arrays are left allocated.
Release ==
  /\ ~oops /\ driver \in {"fail", "release"}
  /\ driver' = "unbound" /\ live' = {}
  /\ stale' = (pending \/ worker # "idle")
  /\ UNCHANGED <<oops, probes, userVars, pending, workVars, panelVars>>

\* remove frees the arrays before anything else and never cancels the work.
FreeArrays ==
  /\ ~oops /\ driver = "bound"
  /\ driver' = "unregister" /\ live' = live \ Arrays
  /\ UNCHANGED <<stale, oops, probes, userVars, pending, workVars, panelVars>>

Unregister ==
  /\ ~oops /\ driver = "unregister"
  /\ driver' = "release"
  /\ UNCHANGED <<live, stale, oops, probes, userVars, pending, workVars,
                 panelVars>>

-----------------------------------------------------------------------------
(***************************************************************************)
(* The file operations: write, and the three drawing operations, which     *)
(* change any chunks and then schedule as well.                            *)
(***************************************************************************)
Registered == driver \in {"bound", "unregister"}

\* A write that starts behind the end or is empty returns EINVAL; one that
\* reaches past the end is cut there.
BeginWrite(w) ==
  /\ ~oops /\ Registered /\ job[w] = NoJob
  /\ writes < MaxWrites
  /\ \E p \in Chunks, n \in 1..NChunks, pixels \in Values :
       job' = [job EXCEPT ![w] =
                 [from |-> p, at |-> p, pixels |-> pixels,
                  to |-> IF n + p > NChunks THEN NChunks ELSE n + p]]
  /\ writes' = writes + 1
  /\ UNCHANGED <<devVars, oops, vmem, skipped, pending, workVars, panelVars>>

CopyChunk(w) ==
  /\ ~oops /\ job[w].at < job[w].to /\ "vmem" \in live
  /\ vmem' = [vmem EXCEPT ![job[w].at] = job[w].pixels]
  /\ job' = [job EXCEPT ![w].at = @ + 1]
  /\ UNCHANGED <<devVars, oops, writes, skipped, pending, workVars, panelVars>>

\* -EFAULT: what was copied stays, and no update is scheduled.
CopyFails(w) ==
  /\ ~oops /\ "user" \in Faults /\ job[w].at < job[w].to /\ "vmem" \in live
  /\ job' = [job EXCEPT ![w] = NoJob]
  /\ skipped' = skipped \cup Copied(w)
  /\ UNCHANGED <<devVars, oops, vmem, writes, pending, workVars, panelVars>>

EndWrite(w) ==
  /\ ~oops /\ job[w] # NoJob /\ job[w].at = job[w].to /\ "info" \in live
  /\ pending' = Scheduled
  /\ job' = [job EXCEPT ![w] = NoJob]
  /\ UNCHANGED <<devVars, oops, vmem, writes, skipped, workVars, panelVars>>

\* Nothing holds remove back until the writers are out.
WriteOops(w) == ~oops /\ job[w] # NoJob /\ "info" \notin live /\ Oops

WriterStep(w) ==
  BeginWrite(w) \/ CopyChunk(w) \/ CopyFails(w) \/ EndWrite(w) \/ WriteOops(w)

-----------------------------------------------------------------------------
(***************************************************************************)
(* The work item: ssd1306fb_update_task.  The kernel takes it off the      *)
(* queue before it runs it, and never runs it twice at a time.             *)
(***************************************************************************)
StartUpdate ==
  /\ ~oops /\ ~stale /\ pending /\ worker = "idle"
  /\ pending' = FALSE
  /\ worker' = "address" /\ clean' = TRUE /\ skipped' = {}
  /\ UNCHANGED <<devVars, oops, vmem, job, writes, chunk, data16, panelVars>>

\* Where COLUMNADDR and PAGEADDR make the panel continue.
AddressSet == 0

\* Nine commands through cmd1; results are not looked at.  A command the
\* panel does not get leaves it anywhere.
SetAddress ==
  /\ ~oops /\ ~stale /\ worker = "address" /\ "cmd1" \in live
  /\ \/ cursor' = AddressSet /\ clean' = clean
     \/ "nak" \in Faults /\ cursor' \in Chunks /\ clean' = FALSE
  /\ worker' = "copy" /\ chunk' = 0
  /\ UNCHANGED <<devVars, oops, userVars, pending, data16, panel>>

CopyToArray ==
  /\ ~oops /\ ~stale /\ worker = "copy" /\ "data16" \in live
  /\ data16' = vmem[chunk]
  /\ worker' = "send"
  /\ UNCHANGED <<devVars, oops, userVars, pending, chunk, clean, panelVars>>

LastChunk  == NChunks - 1
NextCursor == IF cursor = NChunks - 1 THEN 0 ELSE cursor + 1

\* A transfer that fails may or may not have moved the panel on.
SendChunk ==
  /\ ~oops /\ ~stale /\ worker = "send" /\ "data16" \in live
  /\ \/ /\ panel' = [panel EXCEPT ![cursor] = data16]
        /\ cursor' = NextCursor /\ clean' = clean
     \/ /\ "nak" \in Faults
        /\ cursor' \in {cursor, NextCursor} /\ clean' = FALSE
        /\ panel' = panel
  /\ IF chunk = LastChunk
     THEN worker' = "idle" /\ chunk' = 0
     ELSE worker' = "copy" /\ chunk' = chunk + 1
  /\ UNCHANGED <<devVars, oops, userVars, pending, data16>>

\* The update runs into memory that remove, or a failed probe, gave back.
UpdateOops ==
  /\ ~oops
  /\ \/ stale
     \/ worker = "address" /\ "cmd1" \notin live
     \/ worker \in {"copy", "send"} /\ "data16" \notin live
  /\ Oops

WorkerStep ==
  StartUpdate \/ SetAddress \/ CopyToArray \/ SendChunk \/ UpdateOops

-----------------------------------------------------------------------------
Init ==
  /\ driver = "unbound" /\ live = {} /\ stale = FALSE /\ oops = FALSE
  /\ probes = 0 /\ writes = 0
  /\ vmem = [c \in Chunks |-> Blank] /\ job = [w \in Writers |-> NoJob]
  /\ pending = FALSE /\ worker = "idle" /\ chunk = 0 /\ data16 = Blank
  /\ panel \in [Chunks -> Values] /\ cursor \in Chunks
  /\ clean = TRUE /\ skipped = {}

DriverStep ==
  Allocate \/ InitPanel \/ InitOops \/ Register \/ Release \/ Unregister

Next ==
  \/ DriverStep
  \/ FreeArrays
  \/ \E w \in Writers : WriterStep(w)
  \/ WorkerStep

\* Probe and remove run to their end once begun, a write that was begun goes
\* on, and the kernel's worker runs what is queued.  Nobody has to write, or
\* to remove the device.
Fairness ==
  /\ WF_vars(InitPanel \/ InitOops \/ Register \/ Release \/ Unregister)
  /\ \A w \in Writers :
       WF_vars(CopyChunk(w) \/ CopyFails(w) \/ EndWrite(w) \/ WriteOops(w))
  /\ WF_vars(WorkerStep)

Spec     == Init /\ [][Next]_vars
FairSpec == Spec /\ Fairness

-----------------------------------------------------------------------------
\* Every variable keeps its type; the update never leaves the video memory.
TypeOK ==
  /\ driver \in {"unbound", "init", "register", "bound", "fail",
                 "unregister", "release"}
  /\ live \subseteq Memory /\ stale \in BOOLEAN /\ oops \in BOOLEAN
  /\ probes \in 0..MaxProbes /\ writes \in 0..MaxWrites
  /\ vmem \in [Chunks -> Values] /\ job \in [Writers -> Jobs]
  /\ pending \in BOOLEAN /\ chunk \in Chunks /\ data16 \in Values
  /\ worker \in {"idle", "address", "copy", "send"}
  /\ panel \in [Chunks -> Values] /\ cursor \in Chunks
  /\ clean \in BOOLEAN /\ skipped \subseteq Chunks

Ready == driver \in {"register", "bound"}

\* Whenever the driver rests, the panel shows the video memory: of every
\* change made while an update was on its way, a later update is queued or
\* the writer is about to queue it.  Exempt are chunks changed by a write
\* that failed with EFAULT, and updates in which a transfer failed.
PanelCurrent ==
  Ready /\ ~pending /\ worker = "idle" /\ clean =>
    \A c \in Chunks :
      panel[c] = vmem[c] \/ c \in skipped \/ \E w \in Writers : c \in Copied(w)

\* The panel catches up with the video memory again and again, however the
\* writers and the worker interleave, while the device is there and its
\* transfers work.
Shown ==
  []<>( \/ ~Ready \/ oops \/ ~clean
        \/ \A c \in Chunks : panel[c] = vmem[c] \/ c \in skipped )

\* "use a work queue to blit data to the display": the work uses only memory
\* the device has.
NoUseAfterFree == ~oops
=============================================================================
