# A TLA+ model of lc3-fast

lc3-fast sends stereo PCM from a USB host over a 2.4 GHz radio link to a receiver
that plays it: an nRF52840 encodes 2.5 ms frames with a modified LC3 codec, the
network core of an nRF5340 receives them and its application core decodes and
plays them through I2S.  The repository holds the firmware of the three cores,
the codec changes, and scripts that fetch and generate the codec's sources, run
and record benchmarks, and make and verify a listening set.  This directory
models the control of the firmware (buffers, queues, threads, callbacks, runs,
errors, timeouts), the integer arithmetic of the codec, and the scripts'
handling of files: what they leave behind when they fail or are run again.
Paths below are relative to `src/firmware/benchmark/` unless they begin with
`tools/`.

## 1. The system

| Component | State | Operations | Talks to |
|---|---|---|---|
| USB endpoint, `src/usb_pcm.c` | marker match, header; frame pool (18), queue (16), partial frame, run and its owner flag, counters | terminal and data callbacks; wait, get, release, finish | host (bytes), frame loop (queue, semaphore, IRQ lock) |
| Frame loop, `src/main_usb.c` | copy of the run, frame index, counters | warm-up, encode, submit, drain, report | endpoint, codec, radio |
| Radio transmitter, `src/radio_async.c`, `src/radio.c` | packet pool (5), queue (4), pending count, one semaphore and one outcome | acquire, commit, cancel, reset, drain; worker; ESB event | frame loop, ESB |
| CUSTOM codec, `src/custom_spec.inc`, `src/custom_sns.inc`, `src/lc3_custom.c`, `src/codec.c`, tables of `tools/prepare-lc3-custom.py` | byte reservoir of each channel; generated tables | encode a channel of a frame; gather energies, apply the shape | frame loop |
| Network core, `src/main.c` (RX), `src/rx_ipc.c` | active run, frame being reassembled, last status, its semaphore | START, DATA, END, VOLUME packets; send to and wait for the other core | ESB, application core |
| Application core, `app_core/src/main.c` | mailbox (8), run, next sequence, I2S slab (8), counters | IPC callback; START, FRAME, END, VOLUME messages; DMA release | network core, I2S, I2C |
| Clock servo, `app_core/src/main.c` | observation window, integral, register offset | observe (callback), update (main) | IPC callback, DMA interrupt, main |
| Benchmark transmitter, `src/main.c` (TX) | run parameters, statistics | fixed suite of runs | codec, radio |
| Log reader, `tools/rtt-memory.py` | control block and data of a poll, line begun, capture file | poll, append, consume, match; restart | the running target, `tools/run-usb-optimization.ps1` |
| Source scripts, `tools/fetch-*.py`, `tools/prepare-lc3-*.py` | cached archive, tree | download, check, extract; copy, patch, write | servers, each other's trees, the build |
| Listening sources, `tools/fetch-listening-sources.py` | cached downloads, audio copied out of them, `downloads.json` | download, copy, record hashes | servers, the listening set |
| Listening set, `tools/make-` and `verify-lc3-listening-set.py` | packet archives, WAVs, archived binary, manifests | encode, archive, decode, save; verify | the host build of the codec |
| Evidence, `tools/archive-*.py`, `validate-*.py`, `summarize-*.py` | folders of logs, images, sources; manifests of hashes | archive, validate, summarise | bench logs, builds |

What is hard here: the USB thread preempts the frame loop between any two of
its steps, and the radio worker preempts it inside a queue operation; blocks of
memory change owner between them without a lock; runs may end early at many
places, and the next one must find everything in order; the host, the radio and
the other core may fall silent at any point; the counters that report all this
are the bench's evidence, so they must not miss a loss.  The scripts read a
target that does not stop for them, are killed in the middle of a file, and run
again over what earlier runs, other builds or another upstream left: what they
finally accept is what the reports quote.  `PROJECT.json` lists each hazard at
its line with the property that covers it.

What makes each component correct:

* endpoint and loop: no command is missed; every block has one owner; frames are
  aligned and numbered; runs do not mix; the endpoint always comes back;
* radio: the pending count is exact; a packet has one owner; the drain is in time
  and leaves nothing behind;
* application core: each sequence number is output once and in order; the status
  accounts for the whole run; an underrun does not outlive its run;
* network core: only whole frames, in order, one report for each run, its own;
* servo: windows of unbroken observations, a register in its band, a limited slew;
* codec: the targets add up to the bit rate, nothing is spent that was not
  granted, every field is in its range; tables and groupings are upstream's;
* scripts: a capture is the log; a finished tree, set or archive is whole and of
  one origin, and a failed script left nothing that makes the next one fail.

## 2. Modules

| Module | Models |
|---|---|
| `UsbPcm` | endpoint and frame loop |
| `CommandMatcher` | how the endpoint finds a command, byte by byte |
| `PcmFeed` | abstract: what the endpoint promises, a lossy feed in order with bounded memory |
| `RadioTx` | radio transmitter with the frame loop as its client |
| `AppPlayback` | application core, with the network core and the I2S driver as environment |
| `NetReceiver` | network core: receive queue, reassembly, exchange with the application core |
| `ClockServo` | audio clock servo of the application core |
| `RateControl` | targets, reservoir, payload lengths and gain index |
| `ShapeTables` | generated shape tables and their use, grouping of the energies |
| `RttReader` | log reader against a running target |
| `SourceTrees` | fetch scripts of the codecs and generator of the codec |
| `ListeningSources` | fetch script of the listening set |
| `ListeningStream` | one excerpt of the listening set, from source to verification |
| `ListeningSet` | the files of the set, builds, runs and the verifier's verdict |
| `Evidence` | archiving, validating and summarising results |
| `UsbPcmProofs` | theorems of `UsbPcm`, its refinement of `PcmFeed`, and of `CommandMatcher` |
| `RadioTxProofs`, `AppPlaybackProofs`, `NetReceiverProofs`, `ClockServoProofs` | theorems of the module each is named after |
| `CodecProofs` | theorems of `RateControl`, `ShapeTables`, `SourceTrees` |
| `BenchProofs` | theorems of `RttReader` and `Evidence` |
| `ListeningProofs` | theorems of `ListeningStream`, `ListeningSet` and `ListeningSources` |
| `MC...` | constants for TLC, and the modules a run takes together |

### UsbPcm

One action per callback outcome and per step of the loop.  `ReceiveCommand` is
`inspect_byte` on the last byte of a valid command (`CommandMatcher` shows the
bytes before); `ReceivePart` and
`ReceiveLast` are `received` with a packet that does or does not complete the
frame, with the allocation for the frame that follows in the same packet;
`TerminalDisabled` is `terminal_cb`.  Bytes are counted in units: a frame is
`FrameUnits` of them and a packet brings fewer than a frame, because a packet has
at most 304 bytes and a frame 720, so a callback completes at most one frame.
The queue hands a frame directly to a blocked reader, as Zephyr's `k_msgq` does.
The loop's steps are `WaitRun`, `Get`/`Block`/`GetTimeout`, `Work` (check, encode,
submit, release), `WorkFails` (no packet, or an impossible size), `Reset`, `Drain`,
`Finish` (all of `usb_pcm_finish`: it holds the IRQ lock) and `SendEnd`.
The outcome of the radio calls is arbitrary here; `RadioTx` models them.
`generation` and `received` are history variables.

### RadioTx

The OPT_TRANSPORT build.  The worker's priority is above main's, so main's actions
have the guard `~WorkerReady` (`MainMay`); the ESB event may come at any time.
`CommitCounts` and `CommitPuts` are the two halves of `radio_async_commit`.
Time is a tick counter: `age` for each `radio_send`, `drain_clock` for the drain.
The threads' own work takes no time, which is right for the drain bound because
the worker needs some tens of microseconds per packet and the drain has 100 ms
of slack over five timeouts (the module asks only for
`(QueueSize + 1) * SendTimeout <= DrainBudget`).  ESB is external: it refuses a
payload, reports within `AirTime`, or never.

### AppPlayback

`TakeStart`, `TakeFrame`, `TakeEnd` are `process_message`; `ConcealGap`, `PlayFrame`
and `ConcealTail` are one `output_one_frame` each, so that the callback and the
DMA come between any two of them; `Stop` and `Report` are the rest of `finish_run`.
The network core skips any frames and may start a run without having ended the
last, because `control` of the transmitter gives up after three tries.
The I2S driver is modelled by what this code calls: START is accepted only when
READY, DRAIN only when RUNNING, PREPARE in ERROR; an underrun frees its blocks.
After `Stop` main sleeps for 20 ms, whatever the driver does, and goes on: `sleep`
counts the blocks of 2.5 ms that go by (`DrainPeriod` plays one, `SleepPeriod`
has none to play), and `SleepOver` asks for nothing else.  So `StreamRecovers`
rests on the sleep being as long as the slab, eight blocks in the code
(`SleepAssumption`), and fails with a sleep that is shorter by a block.

### NetReceiver

`TakeStart`, `TakeData`, `TakeEnd`, `TakeOther` are the branches of the loop for the
packet at the head of `rx_queue`; an END goes on with `SendEnd`, the wait
(`WaitStatus`, `CopyStatus` or `WaitTimeout`) and the report.  `Receive` is the ESB
event.  The transmitter's data packets come in order, any of them missing; its
control packets may come several times, as `control` repeats one whose
acknowledgement was lost.  Of the application core only the answer to END is kept.
`late` remembers whose status was still owed when `rx_ipc_send_end` reset the
semaphore: the code cannot tell such a status from the one it asked for, so
`StatusIsOwn` allows it and nothing else.

### ClockServo

`Observe` is `clock_observe`, called by the IPC callback for every frame; `Calibrate`
and `Update` are the two ways through `clock_update`, which takes the window under the
IRQ lock and computes with variables only main touches; `ResetRun` is the part of
`reset_run` that concerns the servo.  The callback is ahead of main: between
`StartArrives` and `ResetRun` it measures frames of a run that main has not begun
(`ahead`), and a START that is dropped never gets there. A frame may follow any gap,
in time or not, with a fresh DMA position or not, and the lead is any value: no model
of the oscillators is assumed.  The history `streak`, `least`, `greatest` begins anew
with a frame that does not follow the last one, comes late, or finds the DMA's
position stale, and `WindowUnbroken` bounds both the count and the sum of a window by
it.  A break among the first `SkipFrames` frames leaves the window alone; that the
property holds nevertheless rests on the reset and on frames coming in order.  Taking
sum and count is one step because of the IRQ lock: that the lock is needed is not
checked.

### CommandMatcher

`Scan` is `inspect_byte` before a marker is complete, `ReadHeader` after it; both
take one byte, so packets may end anywhere.  After a byte that does not continue
the match the code looks at that byte once more, as the marker's first
(`Restart`), and never goes back.  That is right for this marker, which repeats
one word three times: wherever its first byte occurs again, the marker goes on
from there as from its beginning (`Recurs`, an assumption of the module that TLC
evaluates for the real 48 bytes too).  `heard` is history.  `MatchIsLongest` ends
with the marker: a fourth word between marker and header shifts the header, and
the code takes it for an invalid command.

### RateControl and ShapeTables

`EncodeChannel` is `custom_spec_analyze` as called through `lc3_custom_encode` and
`codec_encode_usb`.  What the signal asks for (`wanted`, the searched gain and the
correction) is arbitrary; the gain offset is any monotone table that fits.

`GenerateRow` is one row of the table that `tools/prepare-lc3-custom.py` writes:
44 bands, each with two of sixteen factors and their weights, or an assertion that
fails.  `Gather` is one coarse energy of the direct path of `custom_sns_analyze`,
`ShapeBand` the look-up of one band's gain.  Upstream's 64-position
interpolation, merging and padding are written independently of the code, as the
reference (`Interpolated`, `Upstream`, `Padded`); the properties compare the two.
Floating-point values are left out: both sides are linear in the factors.

### RttReader

Every access through the J-Link is a step of its own, and the target writes, wraps
or is reset between any two of them.  `Poll` reads the control block, `Read` and
`ReadWrapped` the bytes, `AppendData` writes the capture, `Consume` writes RdOff,
`Match` looks for the marker.  `Abort` ends a session anywhere, `Start` begins one
on the same file.  A byte is the number of its write, so that `CaptureIsStream` can
say which bytes are missing, repeated or out of order.  A poll that a reset of the
target falls into (`torn`) is excepted: the firmware does not reset itself there,
the operator does.

### SourceTrees

Each of the four scripts that fetch a codec, and the generator of the CUSTOM codec, is
the sequence of its steps (`Program`): cache, hash check, extraction file by file,
header patch; copies and patches (`LitePatches`, `CustomPatches`) of the generator in
the order of the code.  `Kill` comes between any two steps and in the middle of a file,
the server may send another archive than the pinned one where a hash would show it
(Google's archive is named by a commit and has no hash; it is taken to be what it is
named), upstream of the generator may drift at any patched place.  A text is the
sequence of patches it has got; whether a place is there once follows from that
sequence and from which patches consume their place.  The C text is left out.
`FinishedTreeIsWhole`: a script that says it is done left every file, patched once at
every place, from the pinned archive.  `OnlyInputsFail`: it fails only for the archive
or the drift, never for what an earlier run left.

### ListeningSources

The downloads of the listening set have no hash.  `EndBody` gives a download its
name whatever came, since `copyfileobj` takes a connection that is cut for the end
of the body, and `FoundInCache` never looks at it again.  A truncated file is
therefore kept, and a truncated archive makes this run and every later one raise
(`OpenArchive`).  What holds all the same: `RecordNamesTheFiles`, whatever
`downloads.json` exists names the bytes that are on disk, so that the maker's check
of the hashes refuses an audio file a later run has torn; and `OnlyBodiesRaise`,
the script raises only for what was sent, never for what a run that was killed
left.  That the bytes are the publisher's neither says.

### ListeningStream and ListeningSet

`ListeningStream` follows one excerpt: `Cut`, `EncodeFrame`, `Save` of the maker,
`StartVerify`, `ParseFrame`, `Compare` of the verifier.  A sample is its channel and
place in the source, the codec a delay, a packet the bytes the verifier checks, 22 to
102 of them. `Compare` ends with the verifier's search for a residual lag over the
second second of the excerpt (`Lags`).  There the reference always has a second of
samples, or what is left of them, and the shifted WAV may have fewer: for excerpts
that are longer than a second, and not longer than two by more than the largest lag,
numpy is handed slices of different lengths and raises, although every sample is right
(`"raised"`).  The maker refuses an excerpt of a second or less.  `ArchiveVerifies` says
that no excerpt fails an assertion and none of two seconds and a lag or more raises;
those of the published set are of 40 to 60 seconds.

`ListeningSet` is the same tools from the outside: files, each reduced to the
build of the codec it was made with (editions are told apart by what they
encode, and decode each other's packets), in the order of the code, with
`Kill` anywhere, one-track runs, and `Build` and `EditSources` between or during
runs.  Resampling, gain, dither and the quality measures are left out.

### Evidence

A tool is the sequence of its checks, copies and seals for one of four result
trees; any step may raise (`Raises`) and leaves what was written.  Between
tools the operator edits, builds, flashes and runs the bench.  `Build` may fail to
compile: `CMakeCache.txt` then names the new mask, and the image is the old one.  An
image is the mask and the revision of the sources it was compiled from; a log names
the mask alone, in its payload rows, and only a run that logged them can be
archived.  The archiver compares that mask with the cache's and copies image and
cache, which are one file of the model; the validator looks only whether an image is
there.  What follows is `ValidatedMaskIsTheLogs`.  It also needs that
`tools/run-usb-optimization.ps1` refuses a folder that exists (`Fresh`), without
which a second measurement would be archived beside the first one's image.  That the
image is the one measured does not follow (`ValidatedImageMadeTheLog`, Findings).
`west` may build again before it flashes, which is a `Build` before `Flash`.
The archivers are run on the folders of an experiment, never on the root, whose
manifest would then leave out those of the folders.  A single file is written at once:
these tools are not killed while writing in any documented workflow, they raise.

## 3. Runs

| Run | Instance | Shows |
|---|---|---|
| `usb_feed` | 4 blocks, queue of 2, frames of 3 units in packets of 1 or 2, 1 warm-up frame, 2 commands; a marker of three words of two bytes, 9 bytes between markers | `ExclusiveOwnership`, `PoolSuffices`, `ByteAlignment`, `CompleteRunIsClean`, `MatchIsLongest`; that `UsbPcm` implements `PcmFeed`; `EndpointReturns` |
| `radio_tx` | 4 packets, queue of 3, timeout of 2 ticks, 2 tries, 5 commits | `PendingExact`, `PacketOwnership`, `DrainInTime`, `DrainedIsComplete`, and that every run ends |
| `app_playback` | mailbox of 2, slab of 3, sleep of 3 blocks, prefill of 2, runs of 2 or 3 frames, 2 runs | `OncePerSequence`, `StatusComplete`, `StreamRecovers`, and that `tools/summarize-rx-playback.py` passes only what was played (`PassedRunWasPlayed`) |
| `app_restart` | the same | expected violation: see Findings |
| `net_receiver` | queues of 2, frames of 2 packets, runs of 2 frames, 2 tries, 2 runs | `WholeFramesForwarded`, `ForwardedInOrder`, `OneReportPerRun`, `StatusIsOwn` |
| `clock_servo` | windows of 2, limits of 15 and 20 ppm, real gains, runs of 7 frames, 2 runs | `RegisterInBand`, `WindowUnbroken`, `SlewLimited` |
| `custom_codec` | 330 kbit/s (alternating targets of 51 and 52 bytes), real gain offsets, 4 frames; all 44 bands, 16 energies and pairs of codes | `RateNeverExceeded`, `PayloadInRange`; `CollapseExact`, `GridInTable`, `GroupsExact` |
| `source_trees` | archives of 3 files, all files and patches of the generator, 3 runs, 2 drifts | `FinishedTreeIsWhole`, `OnlyInputsFail` |
| `listening` | frames of 3, delay of 4, second of 6 samples, lags of 1, 60 excerpts, 3 patterns of packet lengths; 2 tracks, 2 rates, 2 editions, 3 runs; downloads of an archive and two audio files, 3 runs | `ExcerptAligned`, `ArchiveVerifies`; `VerifiedSetIsOneBuild`, `FinishedSetVerifies`; `RecordNamesTheFiles`, `OnlyBodiesRaise` |
| `listening_reuse` | the same | expected violation: see Findings |
| `bench` | ring of 3, 5 bytes of three letters, a marker of 2, 2 sessions, 1 reset; 4 trees, 2 masks (symmetric), 4 tools, 4 steps of the operator | `CaptureIsStream`, `StopsAtMarker`; `ManifestsHold`, `ValidatedMaskIsTheLogs` |
| `evidence_images` | the same | expected violation: see Findings |

`usb_feed`, `custom_codec` and `bench` each take two modules, `listening` three: the
first step of a behaviour chooses the one whose steps it takes.  They share no variable
and no property speaks of two, so a joint behaviour would show nothing more.

The bounds let every limit be met: the queues, pools and mailbox fill up, a run
overtakes or follows another, a frame spans two packets and a packet two frames, the
reservoir reaches its limit and bursts are cut, the servo saturates, the ring wraps
within one poll, a file is torn and written again, frames and codec delay do not
divide each other, excerpts are refused, raise and verify.  Two runs are enough for the
properties that relate a run to the one before it, since no state but that of the last
run survives; the scripts get a third, over the remains of two, as files of both
survive.  `CHECK_DEADLOCK FALSE` appears where the bound on runs or frames lets the
system stop.

Fairness: `usb_feed` (`WF_vars(MainStep)`) and `radio_tx` assume that a thread that
can run does, and that time passes; nothing of the host or of ESB.  The other runs
check safety only: what playback, servo, codec and scripts promise is about what they
leave, and a script that is killed owes nothing.

Each property of a passing run has a mutant: a plausible mistake in one
definition (the operators named `...Mutant`) with which TLC finds the property
violated.

## 4. Proofs

Every invariant and action property of the passing runs is proved, and the
refinement of `PcmFeed`, for every value of the constants that satisfies the named
assumptions; the bounds (`MaxRuns`, `MaxBytes`, ...) are among the constants.  TLC
checked each inductive invariant on the run's instance before it was proved.
Each proof has one lemma for the initial states, one for each action or group of
actions that changes the same state, and a theorem for each property.

* `UsbPcmProofs`, ownership.  `TypeOK` needs `WorkHasFrame` (main has a frame
  exactly when it works on one), since `Work` puts `input.buf` back in the pool.
  `OwnershipInv`: pool, queue, partial block and main's block partition the pool;
  `Transfers` shows once that moving a block between two owners keeps it.
  `PoolSuffices` counts: the queue holds at most `QueueSize` blocks, main one, so a
  pool of `QueueSize + 2` has one left.
* `UsbPcmProofs`, the frames of a run: `ByteAlignment`, `CompleteRunIsClean` and
  `UsbImplementsFeed`.  `FrameInv` relates what the endpoint produced to what main
  took: `RunInv` and `ProducedInv` place the producer in its run, `CountInv` says
  that the frames taken, queued, in work and counted as overflows are the frames
  produced, `OrderInv` that without an overflow what is queued is contiguous,
  `LoopInv` that main leaves the loop early only with a timeout.  Without `CountInv`
  `CompleteRunIsClean` is not inductive: only the sum shows that an overflow makes the
  run too short.  The refinement maps queue and main's frame to the frames held
  (`StreamOf`); each action is then a step of the feed or leaves it alone.
  Assumptions of both parts: `PoolAssumption`, `SizeAssumption`.
* `UsbPcmProofs`, the marker: `MatchIsLongest`.  Suppose the next
  byte breaks the match and ends another of two bytes or more.  That one begins
  within the broken match, with the marker's first byte, so by `Recurs` both wait
  for the same byte, and it did not come.  Hence only a match of one byte can
  be left, which `Restart` looks for.
  Assumptions: `MarkerAssumption`, `HeaderAssumption`.
* `RadioTxProofs`: all four invariants.  `RadioInv` says that the packets are
  partitioned, that `pending` is what is queued, with the worker, or between its two
  halves of a commit (`PendingExact`), that completed, queued and sent packets
  are the accepted ones (`Accounted`), that nothing of a run is left when the next
  begins (`Quiet`), and that the drain's clock, the age of the packet on its
  way and one timeout for each packet behind it stay within the budget
  (`TimeLeft`), which is where `TimeAssumption` enters.
  Assumptions: `PacketAssumption`, `TimeAssumption`.
* `AppPlaybackProofs`: all four invariants.  `SentInv` says what the mailbox can
  hold of runs gone by and of the one that is sent, in which order; `PlaceInv`
  where main is in its run; `CountInv` sums up frames decoded, concealed, written
  and counted as underruns; `DriverInv` what state the I2S driver can be in at each
  place; `StreamInv` that what was heard, followed by what is in the slab, ends
  with the run's blocks.  `PassedRunWasPlayed` needs `StreamInv` for runs without an
  error only (`Clean`), which is what the summary asks for.  While main sleeps in a
  drain, the slab holds no more blocks than the sleep has left.
  Assumptions: `PlaybackAssumption`, `SleepAssumption`.
* `NetReceiverProofs`: all four invariants.  `QueueInv` orders the packets of the
  queue by run, kind and number (`Precedes`, `Ordered`) and puts them behind what the
  loop took; `FrameInv` says that the frame being reassembled is the last of which
  packets were taken, its first `have` and not the next; `ForwardInv` and `ReportInv` count; `StatusInv` follows
  each status from the message that asked for it to the semaphore, and to one of the
  two copies that may be mixed.  Assumption: `ReceiverAssumption`.
* `ClockServoProofs`: all three properties.  `WindowUnbroken` is inductive
  only with `Skipped`: a window that is not empty belongs to a run whose next
  frame comes after `SkipFrames`, so that any break discards it; its sum is
  bounded by the count times the least and the greatest lead of the streak, which
  is no shorter.  `WantedBound`
  and `StepBound` carry the limits through C's truncating division.
  Assumptions: `ServoAssumption`, `BandAssumption` (met by 39845, 60 and 30 steps
  in a 16-bit register).
* `CodecProofs`, `RateControl`: all invariants, that the targets add up to the bit
  rate, and that the reservoir is bounded.  `QuotientGap` bounds the
  difference of two rounded quotients, from which `TargetBounds` (no target is
  refused) and `TargetCeiling` follow; everything else is linear.
  Assumptions: `LengthAssumption`, `GainAssumption`, `SignalAssumption`.
* `CodecProofs`, `ShapeTables`: all invariants, and `RowIsUpstream`: a row is
  upstream's for any sixteen factors, where TLC compares it for each unit
  vector.  The key and weight
  of a position are those of the line through its segment's two factors, the ends
  extrapolate, and merged positions have one of three pairs of weights.
  No assumptions.
* `CodecProofs`, `SourceTrees`: both invariants.  `ScriptShape` settles, script by
  script, that the kinds of steps follow each other as `Follows` says, that the first patches of a
  file are those of LITE and the later those of CUSTOM, and that no step is left
  out.  Then `PatchInv` is inductive: each file, and the text in memory, is a
  beginning of the file's patches, whose length the step and the place give.
  `PlaceIsThere` turns that into `OnlyInputsFail`: all patches of a file differ and
  `bits` comes before `custom_bits`, so a place that is not there has drifted.
  Assumption: `TreeAssumption`.
* `BenchProofs`, `RttReader`: both invariants.  `RingInv` says that the bytes between
  the offsets are the last ones written, `FileInv` and `OrderInv` that the capture has all
  before them, in order since the session began, `PollInv` what a poll holds while the
  target goes on writing; all only while no reset fell into a poll (`torn`).
  `LineInv` says where the line begun starts and that no marker lies before it.  That
  the last line feed exists is the one well-founded argument (`GreatestMember`).
  Assumption: `ReaderAssumption`.
* `BenchProofs`, `Evidence`: both invariants.  `SealInv`: while a tool runs, each
  folder of its scope has a seal still to come that nothing follows, or is
  sealed and touched by nothing left to do.  `OriginInv`: a log with rows and the
  archived cache name one mask, from the first file of an archive to the validator's
  look at it, and a log that passes has rows (`CleanHasRows`).
  Assumption: `EvidenceAssumption`.
* `ListeningProofs`, `ListeningStream`: both invariants.  The
  samples encoded and decoded are those of the frames so far (`EncodedInv`,
  `DecodedInv`), and some function gives where the record of each frame begins in the
  archive (`ArchiveInv`), so that the parser is always at one of its values.  When
  all is decoded, `SecondFacts` and `VerdictOf` compute the verifier's verdict from the
  excerpt's length.  Assumption: `StreamAssumption` (packets of 22 to 102 bytes, as
  maker and verifier ask; a second is of whole frames and a frame is longer than a
  lag, as 48000, 120 and 8 are).
* `ListeningProofs`, `ListeningSet`: both invariants.  `WrittenInv`: of the tracks
  before the one a run is at, archives and WAVs are its edition's; `ManifestInv`: a
  manifest names one edition for all.  Assumption: `SetAssumption`.
* `ListeningProofs`, `ListeningSources`: both invariants, from `SourcesInv`: a run
  has noted, of every item behind it, the bytes that are there, and changes no
  download that is in a record.  Assumption: `ItemsAssumption`.

Only model-checked: the liveness properties `EndpointReturns` and `RunEnds`, as
fairness and ENABLED are beyond the prover, and the three
properties the code does not have (Findings).  What these modules compute by
folds over data is avoided or stated as an invariant, since induction over data
is beyond it too.

## 5. Findings

* `app_restart`: `reset_run` (`app_core/src/main.c:458`) clears `i2s_started`
  when a START arrives while a run is active, without stopping the stream.  At the
  third block START is triggered on a stream that runs, fails, and is not tried
  again because the test is for equality (line 493).  `i2s_stop` then returns
  early at the end of the run, and a stream that underran meanwhile stays in error
  for the next run too.  `app_core/README.md:15` says the stream starts after three
  decoded blocks were queued.  It takes a lost END to get there.
* `listening_reuse`: with `--dll` naming the binary archived in `reproducibility/`,
  `tools/make-lc3-listening-set.py:230` copies that file onto itself,
  which raises `SameFileError` after every track was rewritten and before the
  manifest is.  The set's README
  (`src/firmware/listening/lc3-fast-2026-09-20/README.md:139`) says the
  generator accepts `--dll` to reuse that binary.

* `evidence_images`: `tools/archive-usb-bench.py:44` compares the mask of the log
  with that of `CMakeCache.txt` and copies the image that lies in the build
  directory.  Sources edited after the flash and built with the same mask put another image beside the
  log than the one that made it.
  `src/firmware/results/2026-09-20-usb-optimizations/REPORT.md:155-157` says that the
  archives "contain exact images".

## 6. Not modelled

* Volume and I2C work: the latest of two variables wins; no test or document
  promises more than a count of updates.
* The benchmark transmitter and the host player: environments of `NetReceiver`,
  `UsbPcm` and `CommandMatcher`, where they may do anything they could.
* Signal processing, the other codecs' adapters, the checksum: pure functions of
  numbers or bytes the models do not represent.
* Statistics of timing, the USB receive buffers; ESB, the I2S driver and the J-Link
  beyond their interface.
* `codec_init` failing at `src/main_usb.c:75`, which would return without
  `usb_pcm_finish`: the header's check of the bitrate leaves it no argument that
  `lc3_setup_encoder` refuses.
* Host tests of the codecs, and scripts that only start compilers and the bench.
  `make-lc3-listening-set.py` in `firmware/listening/.../reproducibility` is a copy
  of the tool that `ListeningStream` and `ListeningSet` model.
* The numbers of the listening tools (resampling, loudness, masking measures) and
  of the summaries.

Hazards without a property: a report of ESB later than 20 ms, which would be taken for
the next packet's (`RadioTx` assumes `AirTime < SendTimeout`, as four transmissions at
600 us are over long before); the WavPack build's queue of sixteen packets, whose
timeouts exceed the drain (`RadioTx` is the other build, its assumption names the
relation this one breaks); a transmitter restarted in the middle of a run with the
same run number, which the receiver takes for the same run (`NetReceiver` numbers runs
upwards).

## 7. Plan

1. The two hazards without a property: a `RadioTx` of the WavPack build, whose
   assumption on times fails, and a transmitter in `NetReceiver` that restarts with
   the same run number.
2. An abstract playback (each sequence number once, played or concealed) that
   `AppPlayback` implements, and an abstract channel for `NetReceiver`, so that
   the three cores can be composed from what each promises.
3. The benchmark transmitter's suite of runs (`src/main.c`), which asks for less
   than the environments of `NetReceiver` allow.
