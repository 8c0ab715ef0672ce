# A verification development for the V380 / Anyka IP camera experiments

The repository collects programs, kernel modules and scripts that turn a cheap
V380 camera (Anyka AK3918 SoC) into a device its owner controls. Most of its 926
files are vendored (FFmpeg and Node binaries, the vendor's SDK headers and
libraries, root file system images). This directory models the programs that were
written or adapted for the project, beginning with the one the README of the
repository leads with: taking pictures over HTTP.

## 1. Inventory

| component | where | state it keeps | who it talks to |
|---|---|---|---|
| capture loop | `apps/ak_snapshot/src/main.c`, `apps/ak_record/src/main.c` | `stop`, `vi_handle`, the held frame, `snapshot_ref` | camera library, web server thread, signal handler |
| web server thread | `apps/ak_*/src/http_server.h` | `server_fd`, `http_clientfd`, `file_fd`, `fstr`, `hit` | clients, capture loop through `snapshot_ref` |
| image conversion | `apps/ak_*/src/convert.c` (the same file twice) | none; pixel arithmetic and `/tmp/preview.bmp` | capture loop |
| SSD1306 frame buffer driver | `kernel/i2c_ssd1306_fb/ssd1306fb/ssd1306fb.c` | `struct ssd1306fb_par`, video memory, a work item | frame buffer core, work queue, I2C bus |
| bit-banged I2C adapter | `kernel/i2c_soft/i2c-gpio.c` | two GPIO lines, the adapter | I2C core, display driver |
| audio playback | `apps/ak_aplay/ak_aplay.c` | `run_flag`, DA handle, writer thread | audio library, SIGTERM |
| audio recording | `apps/ak_arecord/ak_arecord.c` | `run_flag`, AD handle, reader thread | audio library, SIGINT |
| encoded recording | `apps/ak_arecord_aenc/ak_aencode.c` | three handles released by a `goto` cascade | audio library, AENC library, file |
| SDK demos | `akv300-extract/libmpi/demo` | handles of the media libraries; `work_nr`, `mt_ctrl`, the threads of a stream and of the tracker | vendor libraries |
| telnet patch | `patch_telnet` | the boot configuration and its backup | the boot scripts |
| GPIO, blink, display tests | `ak_blink`, `apps/ak_gpio_set`, `ak_test_*` | files under `/sys` | kernel |
| node bindings, network scripts, root file system | `nodejs`, `scripts`, `rootfs` | none of their own | boot |

How the parts meet: one process holds a capture thread (`main`) and one server
thread (`accept_thread`). They share `snapshot_ref`, the flag `stop` and the file
`/tmp/preview.bmp`. A request for a `.bmp` raises `capture`; the capture thread
tests it once per frame, writes the file, counts it, lowers `capture`, and
announces the image; the server thread then opens and sends the file. The two
programs differ only in the announcement: `ak_record` polls the byte `ready`,
`ak_snapshot` waits on a condition variable. A display is driven through another
chain: the frame buffer core calls the driver, which schedules work, which sends
sixty-four chunks over the I2C adapter. The audio programs have a main thread, one
worker thread and a signal handler that share `run_flag`. The programs of the media
libraries hold up to nine handles that are made from each other (a stream from a
camera and an encoder, a frame from a stream); the two video demos do so from two or
three threads that meet in `work_nr` and `run_flag`.

What is hard: the shared flags and the file are covered by no mutex; a condition wait is
called without a predicate; a signal may land on either thread and ends the process
while the other one writes; the file outlives the process; the results of the
initialisation, the conversion, `open`, `write` and of the I2C transfers are ignored in
many places; calls that wait without a limit, for a client, for a device or for motion;
calls that take a part of what they are given; descriptors are not closed; the driver's
work item may run while the device goes away; `work_nr` is counted by two threads
without a lock; cascades of labels give back what a half-done start had opened.

What makes each part correct:

- capture loop and web server: no file is sent while it is written; what a client gets
  is of the image taken for its own connection, and all of it unless the program or the
  client ends first; no frame is saved twice; every frame is given back before the next
  one and before the camera is switched off; every connection is served to the end, as
  long as clients send and read;
- image conversion: every pixel is read at the place the format puts it and inside
  the buffer; a reader finds a bitmap's pixels by its header;
- display driver: after the last write the panel shows the video memory; nothing
  touches memory that was freed;
- audio programs: the thread stops when it is told to and nothing is closed under it;
  what is played and recorded is in order and nothing is missing that no failure took;
- programs of the media libraries: no handle is closed while something made from it, or
  a thread, uses it; whatever fails, what was opened is given back; the data arrive
  in order and without gaps that no failure made; every program ends, unless it waits
  for something that never comes.

## 2. Modules

| module | models |
|---|---|
| `SnapshotService` | the promise: a request makes the camera take one new image and the answer carries that image or none |
| `CameraHttp` | what the two programs share: the capture thread, the server thread outside its wait, clients, SIGINT, restarts, faults |
| `AkRecord` | `CameraHttp` with the polled flag; `SnapshotService` as `ServiceSpec` |
| `AkSnapshot` | `CameraHttp` with the condition variable; the same `SnapshotService` |
| `CameraHttpProofs` | lemmas about the threads of `CameraHttp`, for both programs |
| `AkRecordProofs` | the theorems about `AkRecord` |
| `AkSnapshotProofs` | the theorems about `AkSnapshot` |
| `Ssd1306Fb` | the display driver: probe and remove, writers, the work item, the panel |
| `Ssd1306FbProofs` | the theorems about `Ssd1306Fb` |
| `AudioProgram` | `ak_aplay` and `ak_arecord`: main, the thread, the signal handler, the device |
| `AudioProgramProofs` | the theorems about `AudioProgram` |
| `Convert` | `convert.c`: where every function reads and writes, the colours, the packed formats, the headers |
| `ConvertProofs` | the theorems about `Convert` |
| `Handles` | the promise: handles that are made from each other are opened and closed in order |
| `MediaProgram` | `ak_aencode`, and the SDK's demos of the decoder, of motion detection and of the on-screen display; `Handles` as `HandleSpec` |
| `MediaProgramProofs` | the theorems about `MediaProgram` |
| `StreamDemo` | the SDK's `ak_venc_demo` and `ak_mt_demo`: main, saver and tracker; `Handles` as `HandleSpec` |
| `StreamDemoProofs` | the theorems about `StreamDemo` |

`AkRecord` and `AkSnapshot` EXTEND `CameraHttp` and add their own variables, so an
action of `CameraHttp` says nothing about these and is used as
`CapStep /\ UNCHANGED ready`.

### State of the camera programs

| variable | code |
|---|---|
| `proc`, `runs` | the process and how often it was started; `runs` is bounded by `MaxRuns` |
| `stop`, `handler` | the flag `my_handler` sets, and the thread it runs on; that thread does nothing else until `exit(1)` |
| `cap` | the statement of the capture thread: `init` (capture_init), `server` (start_server), `test` and `get` (capture_loop), `debug`, `write`, `fill`, `count`, `clear`, `announce` (debug_capture), `release`, `off`, `close`, `return` |
| `vi` | the camera handle: null, opened and on, off, closed |
| `frame` | the frame that is held, named by how many images had been taken when it was fetched |
| `capture`, `count`, `ready` / `waiting`, `lock` | `snapshot_ref` and its mutex; `waiting` is membership in the condition's wait set |
| `img` | `/tmp/preview.bmp`: absent, torn or whole. Three ghost fields say which image it is: its number, its frame, the connection it was taken for |
| `acc` | the statement of the server thread, from `accept` to `drain` |
| `listening`, `reqs`, `hit` | the listening socket, the connections of this run and how many were accepted |
| `want`, `opened`, `fds` | `fstr`, `file_fd`, the descriptors in use |
| `reply`, `sent` | the status lines that were written to the client, and the 8 KB blocks of the file, each with what the file was when the block was read |
| `gone`, `idle` | the client hung up; the next `read` or `write` on its connection waits for it |

A step is a statement, or a run of statements that touch nothing the other thread reads.
The loop that sends a file is one step for each block (`SendBlock`) and one for the
`read` that finds its end (`EndOfFile`), so `exit`, SIGPIPE and a client that stops
reading can cut an answer short between any two blocks; an image has `Blocks` of them.
`web`'s first `read` and each block wait for the client: `ClientActs` lets them go on,
and no fairness makes it happen. `BrokenPipe` is SIGPIPE, at the header, at a block and
at the 403 and 404 pages. Faults are `FaultKinds`, a failing `pthread_create` among
them, which leaves a program without a server thread. Requests are six kinds (`Kinds`);
the text of a request is not modelled, only which branch of `web` it takes. A request
that could not be read goes on with an empty buffer and compares the bytes in front of
it with the table of extensions: the model lets it take any of the branches.

### State of the display driver (`Ssd1306Fb`)

| variable | code |
|---|---|
| `driver` | the statement of `ssd1306fb_probe` (`init`, `register`, `fail`) or `ssd1306fb_remove` (`unregister`, `release`); `bound` in between |
| `live`, `stale`, `oops` | which of `info`, the video memory, `data16` and `cmd1` can be used; the work item lies in released memory; such memory was used, which is where the model stops |
| `vmem`, `job`, `writes` | the video memory by chunks of 16 bytes; what each writer is doing, `from..at` being what it has changed so far |
| `pending`, `worker`, `chunk`, `data16` | the queued bit of `work`; where `ssd1306fb_update_task` is; `i`; the chunk in the transfer buffer |
| `panel`, `cursor` | the SSD1306's own memory and address registers |
| `clean`, `skipped` | ghosts: no transfer of this update failed; chunks changed by a `write` that returned `-EFAULT` |

`schedule_work` sets `pending`; the kernel clears it before it runs the item, so a
write during an update queues another one. A drawing operation is a write of any
chunks. The arrays may be null after `probe`, because nothing looks.

### State of the audio programs (`AudioProgram`)

| variable | code |
|---|---|
| `program` | which of the two programs this is |
| `main`, `closings` | the statement of `main`; calls of `close_audio` still to come (two when `ak_ao_open` fails) |
| `runFlag`, `tid`, `fp`, `handle` | the fields of `pcm_out` or `pcm_in` |
| `thread`, `readLen`, `pos`, `held` | the statement of `write_da_thread` or `read_ad_thread`, whether the last `fread` brought something, reads or frames so far, a frame that was not released |
| `ferror` | a read failed, which the thread takes for the end of the file |
| `queue`, `played`, `dropped` | what the audio device holds, has played and had no room for, in parts of a read (`Parts`); external |
| `noticed`, `capturing` | whether `ak_ao_notice_frame_end` and `ak_ai_start_capture` succeeded; nobody looks at either |
| `saved`, `signalled`, `late`, `broken` | ghosts: the recorded frames, the signal, frames saved after it, undefined behaviour |

`ak_ao_send_frame` is called with `ms` 0: it does not wait, and returns how much it took
(`Room`). The code compares that with a negative number only, so the rest is lost. A
device whose capture was not started answers every request for a frame with nothing.

### State of the conversion (`Convert`)

A byte of an image is the sample it holds (plane, column, row), so that where a
function reads can be told from what it should have read. `Camera` builds an image
from the definition of its layout, as concatenated or alternating planes; the
functions of the code are the offsets they compute. `values` and `pixel` carry real
bytes for one pixel, for the arithmetic. `planes` are the files of `saveYUV_NV21` and
`saveY_UV_NV21`. A call that cannot allocate or open its first file changes nothing, and
`saveRGB` leaves one, two or three files (`RawFile`); of one image one thing is saved,
which is a bound. A bitmap is its header's sizes and where the calls of `fwrite` put the
pixels: `Placed` is where the loops leave a pixel, without filling up rows, and `Sought`
where a reader of bitmaps looks for it by the header. Writes that stop early are
not modelled here but in `CameraHttp` (`ShortWrite`), for the one file that is served.

### State of the programs with one thread (`MediaProgram`)

| variable | code |
|---|---|
| `program`, `amr` | which of the four programs this is; whether `argv` asks for AMR |
| `pc` | the statement of `main`, named after what it opens or closes |
| `open` | the handles and files that are not null: `aenc.fp`, `ai_handle`, `aenc_handle`, `stream_handle`, `vi_handle` and so on, whether the input captures and the speaker is on, and a frame that was fetched |
| `pos`, `buf`, `out` | `ak_aencode`: frames the encoder gave, `stream_head`, the file; `ak_adec_demo`: units read, what is left of `data[]` from `send_len` on, what the decoder took |
| `lost`, `headLost` | ghosts: frames that were not written, units the decoder refused; the head of an AMR file that could not be written or read |
| `ferror`, `noticed` | a read failed, which brings less or nothing; `ak_adec_notice_stream_end` succeeded |
| `count` | `i` in the two loops of `get_yuv_file` |

`Open`, `Try` and `Close` are the three kinds of call; a program is the list of its
calls with the label each one goes to when it fails. `ak_ao_close` and its like are
only called with a handle that is open, or under a test for null, so closing what is not
open has no effect.

Two steps stand apart from the others (`Waits`): `SendStream`, since a decoder that is
sent data with `ms` 0 may take nothing and is then asked again, and `GetResult`, since
`ak_md_get_result` is called with -1, its block mode, and returns when something moves.
`ak_md_demo` looks at its clock only after that. `ak_adec_cancel_stream` waits for the
end of the stream, which comes when its notice succeeded.

### State of the video demos (`StreamDemo`)

| variable | code |
|---|---|
| `program`, `encCount` | which demo this is; `enc_count` |
| `main`, `saver`, `tracker` | the statements of `main`, of `venc_save_stream_thread` and of `mt_ctrl_thread` |
| `open` | as above; `fp` and `fw` are the stream file and ak_mt_demo's statistics |
| `workNr`, `mainRead`, `saverRead` | `work_nr`, and what main and saver read of it: `++` and `--` are a load and a store |
| `runFlag` | `mt_ctrl.run_flag` |
| `left`, `rest`, `shorts` | `looptimes`; `ret` of `venc_save_data`; short writes so far, bounded by `MaxShorts` |
| `saved`, `spoilt` | the stream file as units of frames; a ghost: it was not opened, or a write was short |

`venc_stop_stream` is called by the saver itself, so its `ak_thread_join` joins the
calling thread; the library refuses that at once, which is why `StopStream` passes it.
It would return early, with the stream open, if `ak_venc_tid` were still 0; the model takes
it that `ak_thread_create` has stored the identifier by the time the new thread gets there,
as C libraries do before they start it.
Joining the tracker that could not be created either fails or crashes.

Names that stand at the head of a module under "Slips" (`NoFrameUnchecked`,
`EndWaitEarly` and so on) are plausible mistakes in the definition of the same
kind. No specification uses them; they exist so that each property can be tried
against a program that has the mistake.

## 3. Runs

Every run stops the world when the program exits and nobody starts it again, hence
`CHECK_DEADLOCK FALSE` everywhere.

| run | bounds | shows |
|---|---|---|
| `record_handshake` | 2 connections, 2 runs of the program, kinds bmp, file and closed, images of 2 blocks, clients that hang up or do nothing | `NoConcurrentWrite`, `FreshReply`, `EveryImageANewFrame`, `FrameDiscipline`, `CountsOnlyWanted`, refinement of `SnapshotService`, and under fairness `Served` |
| `record_bad_init` | one failing initialisation | violation of `FrameDiscipline`: `main` tests `if(status)`, which holds of -1 |
| `snapshot_handshake` | 3 connections, 2 runs, kinds bmp and missing, 2 blocks, the same clients | the same promises for the condition variable, `SignalStillToCome` and `WaiterServed` |
| `snapshot_faults` | 3 connections, 2 runs, 3 descriptors, all seven faults | `EveryImageANewFrame` also with spurious wakeups |
| `snapshot_lost_wakeup` | 2 connections | violation of `Served`: the signal is sent before the server waits |
| `snapshot_unknown_type` | 1 run | violation of `ServerSurvives`: a null pointer is compared |
| `display_update` | 2 chunks of 2 values, 2 writers, 2 writes, 2 probes, every fault | `PanelCurrent` (no change is left without an update) and, under fairness, `Shown` |
| `display_removed` | 1 writer, no faults | violation of `NoUseAfterFree`: `remove` frees what the queued update uses |
| `audio_programs` | both programs, 3 reads of 2 parts, 3 frames, every fault, a signal at any step | `SafeShutdown`, `PlayedWhole`, `RecordedOnce`, `StopObeyed`, and under fairness `Ends` |
| `convert_images` | 12 layouts, 6 sizes, 3 repackings in any order, 4 outputs, files of planes, 64 colours | `ReadsInside`, `OwnSamples`, `GreyStaysGrey`, `FieldsKept`, `HeaderTellsSize` |
| `media_programs` | four programs, 4 encoded frames in lists of any length, a file of 5 units in blocks of 2, every failure, a signal at any step | refinement of `Handles`, `NothingLeft`, `InOrder`, and under fairness `Ends` |
| `stream_demos` | both demos, 0 to 2 frames of 2 units, one short write, every failure, a signal at any step | refinement of `Handles`, `GivenBack`, `SavedWhole`, and under fairness `MainReturns` |

Why the bounds are enough: the protocol's memory from one request to the next is two
flags and a file, and from one run of the program to the next the file alone. Two
connections show every leftover of a first request to a second one, two runs every
leftover of a first run. Two blocks let an answer end before, between and after them.
The descriptor limit of `snapshot_faults` is 3, so that it is met. Two parts of a read
let the device take none, some or all of it. Widths of 2, 4 and 6 include rows that do
not fill whole words. The theorems below hold without any of these bounds. In
`media_programs` the file's last block is a short one and a block can be taken in two
parts; four frames can come as one list or as several. In `stream_demos` a second frame
is what a wrong loop bound or a frame that was not released would disturb,
`frame_number` 0 lets the saver end before main has counted it, and one short write
spoils a file for good.

Fairness (`FairSpec`): weak fairness of each thread, because the scheduler runs
both; strong fairness of `GetFrame`, because the camera delivers 25 frames a second
however often the loop finds none ready; weak fairness of the handler's end, because
`usleep(200)` returns. Clients, signals, faults and restarts are never assumed to
happen: a server thread that is blocked in `accept`, in a wait, or in a `read` or `write`
that waits for its client is not enabled and owes nothing. So `Served` has a premise:
it is about clients that, again and again, do what the server waits for (`[]<>(~idle)`).
Without it the property is false, since the one server thread never leaves a client that
connects and stays silent. In the display driver: probe, remove and a write that was
begun go on, and the kernel's worker runs what is queued; nobody has to write or to
remove the device. In the audio programs: both threads run, the device plays what it
took, and a microphone that was started has a frame in the end (strong fairness of
`GetFrame`, which a device that was not started never enables). In `MediaProgram`: the
program runs, one of the looks it takes at the clock is past the time (strong fairness of
`RecordTimeUp` and of `DetectTimeUp`), and a camera that captures has a frame in the end
(strong fairness of `GetYuv`); nothing is assumed of `Waits`. In `StreamDemo`: the
scheduler runs all three threads; the encoder's next frame and the motors' arrival are
steps of saver and tracker, so this includes that they come.

What the runs exempt, they reach. `Ends` of `AudioProgram` allows two endless waits
(`WaitsInVain`), each for what an ignored failure keeps from coming: frames of a device
whose capture was not started, and the end of a sound whose end was not noticed. `Ends` of
`MediaProgram` allows four: motion that never comes, a decoder that takes nothing, the
end of a stream whose end was not noticed, and frames of a camera that does not capture.
The code does wait there, and TLC refutes `Ends` when any one of them is left out; what
it says is that there are no others. `PlayedWhole` and `InOrder` say that what is missing is
what the device or the decoder did not take and what could not be read or written.
`MainReturns` starts from a saver that has not yet counted itself out: a saver that runs to
its end between the load and the store of `work_nr++`, or a thread that could not be
created, leaves main waiting for ever. `SavedWhole` leaves out files with a short write,
since `venc_save_data` then starts again at the first byte.

These hazards are in the models, are met by the runs, and are caught by no property,
because the code has them and what is stated must hold beside them: a wait that ends
without a signal (`NoConcurrentWrite` is stated without), silent clients, descriptors that
run out, transfers whose failure is ignored, a signal that closes `ak_arecord`'s device
under its thread or comes before the flag, a join of a thread that was not created,
`ak_osd_demo`'s display and its capture, the two demos' endless waits, the lost decrement of
`work_nr` and the short write of `venc_save_data`. `PROJECT.json` lists each with the
reason. What does contradict a comment or a header of the repository is one of the four
runs that end in a violation.

## 4. Proofs

Every safety invariant and every refinement that a passing run checks is also a
theorem, for every value of the constants. The theorems assume `ConstantsAssumption`
of their module, and beyond it only what the table says, each a condition on the set
of faults that may be empty or full of other things.

| theorem | assumes | without it |
|---|---|---|
| `RepliesAreFresh` of `AkRecordProofs` and `AkSnapshotProofs` | `WritesSucceed`: neither `convert` nor `short` | `YUVToBMP`'s result is ignored, and the image before it, or a torn one, is sent |
| `ImplementsService` of both | `ConvertSucceeds`: not `convert` | the image before it is sent; a torn one is an answer without an image, which the service allows |
| `CameraDiscipline` of `AkRecordProofs` | `InitSucceeds`: not `init` | `record_bad_init` refutes it |
| `FileExclusion`, `SignalToCome`, `RepliesAreFresh`, `ImplementsService` of `AkSnapshotProofs` | `NoSpurious` besides: a wait ends only by a signal | the wait tests no predicate, so the server goes on while the file is written |

Each of these is needed: with the fault in question alone added, TLC finds the
property violated on the bounds of the handshake runs.

### The camera programs

`CameraHttpProofs` holds what the two programs share: the capture thread, the server
thread and their surroundings keep the types (`CameraInv`: one connection at a time,
no server thread before `start_server`), and each statement of the capture thread keeps
`Frames`, which relates `frame`, `count` and the image in the file at that statement.

`AkRecordProofs` proves, for every set of requests and faults and every bound:

- `TypeCorrect`: `TypeOK`;
- `FileExclusion`: `NoConcurrentWrite`, with no assumption on faults. `TypeOK` and
  the property are not inductive. The strengthening, `Handshake`, relates the two
  threads: while the capture thread is writing, the server thread is at `poll`,
  `capture` is up and `ready` is down; while it announces, the server is still at
  `poll`. So the server can only leave `poll` after the file is closed;
- `OnlyWantedCounted`: `CountsOnlyWanted`, from the same invariant;
- `FramesAreNew`: `EveryImageANewFrame`, and `CameraDiscipline`: `FrameDiscipline`,
  from `Frames`; the second needs that the camera is on inside the loop;
- `RepliesAreFresh`: `FreshReply`, which speaks of each block that was sent: it is of the
  complete image written for this connection and of the same one as the first block, and
  a connection that `web` closes got every block. It follows from two invariants.
  `Delivery`: from the moment the file is complete until it is sent it is the image of the
  connection the server works for, or what a short write left of it. `Answers`: while the
  body is being sent, every block so far is what the file is now; this needs
  `Handshake`, since between two blocks the capture thread may do anything but write;
- `ImplementsService`: `ServiceSpec`, by one step per action of the program: each maps
  to one action of the service or to a stutter. A block is a `Send` of the service, and
  the last one makes the answer complete.

`AkSnapshotProofs` proves the same of the condition variable. `Handshake` has to say
more here, because the server thread raises `capture` before it waits: while `capture`
is up, and from then until the signal, it is on its way into the wait or in the wait set
(`AwaitsSignal`), and the capture thread works on an image only while `capture` is up.
That is also why a lost signal, which `snapshot_lost_wakeup` shows, costs an answer and
never sends a wrong one: a server that missed its signal stays in the wait.
`FramesAreNew` and `TypeCorrect` need no assumption.

### The display driver

`Ssd1306FbProofs` proves, for every number of chunks, every set of writers and every
set of faults:

- `TypeCorrect`: `TypeOK`, of which the hard part is that an update ends with the
  last chunk;
- `PanelMirrors`: `PanelCurrent`. The property speaks of a driver at rest and is not
  inductive. `MirrorInv` says what is true on the way: while an update whose
  transfers work is at chunk `i`, the panel's cursor is at `i` too, and every chunk
  before `i` is on the panel already, or was changed since and is either queued for
  another update, or still in the hands of a writer who will queue one, or was
  skipped (`Progress`). `Ordered` bounds the writers' positions and `Quiet` says that
  nobody is writing while the device is built up.

### The audio programs

`AudioProgramProofs` proves every invariant of `AudioProgram` for every length of the
file and of the recording and every set of faults: `TypeCorrect` (`TypeOK`),
`ShutdownIsSafe` (`SafeShutdown`), `EverythingPlayed` (`PlayedWhole`),
`NothingRecordedTwice` (`RecordedOnce`) and `SignalStops` (`StopObeyed`). They follow
from one inductive invariant, `AudioInv`, whose parts build on each other: `Places` says
where main and thread can be together and that `run_flag` stays up unless a signal
stopped `ak_arecord`; so main waits and everything is open while the thread works
(`Waits`); `Recording`, `Stopping` and `Playing` count frames from there. `Playing` is
what `EverythingPlayed` rests on: of every read that was sent, each part is in the
device, was played, or was dropped because there was no room, and the thread stops
reading only at the end of the file or after a read that failed.

### The conversion

`ConvertProofs` proves every invariant of `Convert` for images of every even width and
height, every layout and every order of repackings:

- `NoReadOutside`: `ReadsInside`. The image is as long as its layout says, whether it
  came from the camera or from a repacking (`SizeInv`), and an offset is a place in
  a table of known size (`InTable`, `PlaneSizes`), which makes the rest linear;
- `SamplesBelong`: `OwnSamples`. The invariant, `ImageInv`, says that the function for
  the layout the image now has finds at every pixel that pixel's own samples. It
  holds of what the camera delivers, for each of the twelve layouts, and each
  repacking takes samples from where the old layout has them to where the new one
  wants them. The arithmetic of the offsets is reduced to multiples of the number of
  samples in a plane of 4:2:0 (`Counts`), since nothing non-linear is decided;
- `ColoursArePacked`: `FieldsKept`, from the ranges of the fields;
- `GreyIsKept`: `GreyStaysGrey`, for all 256 levels, from the fixed-point
  coefficients; `TypeCorrect`: `TypeOK`;
- `HeadersAreRight`: `HeaderTellsSize`. It compares where the code puts a pixel with
  where a reader looks for it, and says exactly when they agree: when a row fills whole
  words, which every even width does but for 24 bits, where it has to be a multiple of
  four (`Rows`, `PixelsFound`). Of `biSizeImage` it says what the code makes of it, the
  rounded size of the file; that is not what the field is for, and readers tolerate it since
  it is never too small.

### The programs of the media libraries

`MediaProgramProofs` proves every safety property of `MediaProgram`, for every set of
calls that fail and every length of recording, file and block:

- `EverythingGivenBack`: `NothingLeft`. `HandleInv` says for each program which labels
  of `main` have which handle open; the sets of labels are nested (`EncStream` inside
  `EncAenc` inside `EncCapture` and so on), because a cascade closes in the opposite
  order. Handles whose failure is ignored have only the one direction: open only
  there;
- `HandlesKept`: `HandleSpec`. With `HandleInv`, an opening call finds its handle closed
  and what it needs open, and a closing call finds no user open (`OpenHandles`,
  `CloseHandles`); `NothingDangles` draws the conclusion from `Handles` alone: what an
  open handle is made from is open;
- `TypeCorrect`: `TypeOK`, and `OrderKept`: `InOrder`. `DataInv` says when there is
  nothing in the list or in `data[]`, and that the decoder's loop ends only at the end
  of the file. `OrderInv` looks at `out \o buf`, what was written and what is still to
  be, as one sequence: writing and sending only move the border inside it (`Moved`),
  reading appends the next numbers, however few of them a failing read brings, and a
  failure takes a piece out of its middle (`TakenOut`); where the sequence starts
  depends on whether the head of an AMR file was written or read (`headLost`). Stated of
  `out` and `buf` apart it would not be inductive.

`StreamDemoProofs` proves every safety property of `StreamDemo`, for every number and
length of frames, every set of faults and every interleaving of the three threads:

- `TypeCorrect`: `TypeOK`, with `work_nr` between -1 and 1, and `EverythingGivenBack`:
  `GivenBack`. `WorkInv` says what `work_nr` tells main about the saver although `++` and
  `--` are no single steps: main gets past its wait only when there is no saver or it
  is done. From there `MainHandles`, `TrackerHandles`, `StreamHandles` and `FileHandles`
  say who has opened what where;
- `FramesSavedWhole`: `SavedWhole`. `WholeInv` says that the file consists of as many
  whole frames as the saver is through with (`FramesDone`, from `enc_count`,
  `looptimes` and the statement it is at). A file of frames is given by index, so that
  no induction is needed to add one;
- `HandlesKept`: `HandleSpec`, where a thread counts as a user of the handles it works
  on, and again `NothingDangles`.

### What is only model-checked

Liveness under fairness: `Served`, `WaiterServed`, `Shown`, `Ends` of both modules,
`MainReturns`. The proof system reaches neither `ENABLED` nor the fairness it
defines. What the runs refute (`Served` of `ak_snapshot`, `ServerSurvives`,
`FrameDiscipline` where the initialisation fails, `NoUseAfterFree`) has no theorem, of
course.

## 5. Not modelled, and why

Option parsing, log messages and page texts change no state the properties see. The
FIFO `debug_capture` might write to is never opened by anyone. The vendor's libraries
are binary: they are modelled by what the callers use of them. Settings of the media
libraries (volume, frame rate, angles, sensitivity) are values no step of a program
reads again.

- `fwrite` that stops early is modelled where a property depends on it: the image that is
  served, the stream file of `ak_venc_demo`, and, as a frame that is not written at all,
  the files of `ak_arecord` and `ak_aencode`. The raw and planar files of `convert.c` and
  `get_yuv_file` are written once and never read by these programs. A `malloc` or `fopen`
  that fails in `convert.c` leaves by an early return that changes nothing else.
- An `ak_thread_create` that starts the new thread before it stores the identifier
  (section 2, `StreamDemo`).
- `venc_switch_resulution` and `venc_test_picture` of `ak_venc_demo` are never
  called: the first hangs on a local variable that is 0, the second on a macro that is
  0. So is the half of `test_osd` under `#if 0`.
- The bit-banged I2C adapter moves two lines for one caller at a time. `Ssd1306Fb` has
  its transfers as steps that work or fail. What goes wrong at its start and end
  can be read off the functions and is listed as a hazard.
- The telnet patch is four lines of shell between two programs of the vendor's updater
  and boot scripts whose sources are not here. That a power cut during its half minute
  leaves no configuration is listed as a hazard.
- The GPIO, blink and display tests, the OpenCV demo and the node binding are one call or
  one fixed picture each; the scripts run on the developer's machine.

Most of the repository's lines are not its own: the headers of FFmpeg, Node, V8,
OpenSSL and libuv, the SDK's headers and the root file system. They declare what is
elsewhere, so the share of all lines that is modelled stays small however
much of the programs is.

## 6. Plan

Done: the snapshot handshake and the service it implements, the display driver,
the audio programs, the conversion, encoded recording and the SDK's demos; proofs of
every safety property and refinement the runs check.

Next, in this order:

1. What `NoSpurious` leaves open: which of `ak_snapshot`'s promises survive spurious
   wakeups in part (an image is never sent for a connection that did not ask for one).
2. `Ssd1306Fb` without `remove`: that no update touches released memory as long as the
   device stays, so that the violation of `NoUseAfterFree` is tied to that one path.
3. `SnapshotService` and `Handles` as modules to be used: consequences of the
   promises that a client program can rely on, proved once for both programs.
