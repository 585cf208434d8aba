# Verification of the RS NFC reader

This directory holds TLA+ models of the NFC reader in `src/nfc_reader` of the repository,
the TLC configurations that check them, and TLAPS proofs about them. The code is a
FreeRTOS component in C: an application starts a `Read()`, on its own task or on a worker
task; the reader sleeps until the PTX105R chip raises an interrupt, activates the card,
reads its NDEF data and reports it; another task may ask it to stop. What is hard is the
meeting of these parties: the reader task, the tasks that call `Stop()` or another
`Read()`, the interrupt handler, the kernel's tick, and a chip behind an SPI link that can
fail at any call.

Paths below are short: `rs_nfc_reader.c`, `rs_ndef_read.c` and `rs_nfc_ptx105r.c` ("the
adapter") are in `src/nfc_reader/src`.

## Inventory

| Component | State | Operations | Hard part |
|---|---|---|---|
| Adapter wait, `rs_nfc_ptx_wait_for_card`, `ptx105r_irq_wake_cb` | `g_waiting_task`, the callback on the IRQ, the task's notification count, the locals of the wait | publish, arm, flush, sleep, disarm, look, decide, rearm, leave | wake-ups lost or left over; who owns the interrupt; arithmetic of the timeout |
| Stop request, `rs_nfc_reader_Stop`, `rs_nfc_ptx_wake_waiting_task` | `g_stop_requested`, `g_reader_active` | test, set, wake | two tests and a set that are not atomic; a handle read once and used later |
| Read session, `rs_nfc_read_blocking` | `g_ptx_opened`, the status to return | open, start discovery, body, deactivate, close | closing on each failing path |
| Event loop, `run_event_loop` | `state`, `elapsed_ms` | stop test, health, RF warning, wait, card, deactivate, error | faults and stops between any two steps; accounting of the timeout |
| Single shot, `rs_nfc_reader_try_once`, `_retry`, `_detect_wait` | the 8-bit attempt counter, the result | wait, activate, retry | which status each outcome leads to; the counter's limit |
| Public API, `rs_nfc_reader_Read`, worker `rs_nfc_async_worker` | `g_async_ctx.active`, both flags, one static TCB and stack | guard, claim, create, undo; body, callback, clear, delete | order of the epilogue against the next `Read()`; no guard on the blocking path |
| Configuration validation, `rs_nfc_reader_validate`, `_validate_deps` | none | accept or refuse | a check of the adapter that nothing has opened yet |
| Adapter life cycle, `rs_nfc_ptx_open`, `rs_nfc_ptx_close` | `g_start_temp_calibration`, `g_ptx_opened`, `g_active_reg` | four peripherals, SDK, a retried SDK, close | opening that fails half-way; flags consumed too early |
| Card classification, `map_card_type`, `choose_protocol`, `extract_uid`, `rs_nfc_ptx_activate_card` | the card registry, the result | activate | two decisions that must agree; byte orders |
| NDEF dispatch, `rs_ndef_read_card_info`, T3T/T4T/T5T readers, adapter `ndef_*_open/close` | the result's NDEF fields, three SDK components that share buffers | open, check, read, close, decode | failing paths; fields that survive from the last card |
| Type 2 reader, `read_t2t_ndef` | the data buffer, block and position | READ blocks, TLV walk | boundaries: area, buffer, block number, length forms, short answers |
| Record decoder, `rs_ndef_decode_message` | position, records, `truncated` | one record per pass | 32-bit lengths added to a position; cut messages; the record limit |
| Raw exchange, `rs_nfc_reader_raw_exchange`, `rs_nfc_ptx_data_exchange` | two static buffers shared by all cards | build a frame, exchange | an answer or identifier of an earlier card |
| Card summary | none | formatting | none that a model would show |
| Demo application, `app_nfc_reader_init`, `app_nfc_reader_stop`, callbacks | statistics | launch, bail out, stop, callbacks | a bail-out stops somebody else's read |
| Application log | none | output | |

They interact by calls (API → session → body → wait → chip), by the two `volatile` flags,
by the published task handle with FreeRTOS task notifications, by the interrupt callback
that wait and SDK hand to each other, and by the application's two callbacks.
`PROJECT.json` lists the components with their status and the hazards with the line where
each one bites.

What makes each component correct: a sleeping reader can be woken, and the SDK gets its
interrupt back (wait); a stop that is heard stays heard and ends the read (stop); open and
close pair up on every path (session); each card is reported, and errors are (loop);
success means a card, attempts are bounded (single shot); one worker, one TCB, one read at
a time, no flag stuck (API); the result speaks of this card only (NDEF, card event); the
bytes reported are the message written (Type 2); the records are those of the message, and
point into it (decoder); open means ready, and closed leaves nothing behind (adapter).

## Modules

| Module | Models | Builds on |
|---|---|---|
| `PtxWait` | the wait of the adapter, the interrupt, the chip, the link and the tick | |
| `StopRequest` | `rs_nfc_reader_Stop` by any number of tasks | `PtxWait` |
| `Session` | `rs_nfc_read_blocking` around its body | `StopRequest` |
| `EventLoop` | a blocking `Read()` with `on_card_event`; specification and properties | `Session` |
| `SingleShot` | a blocking `Read()` without it, with and without retries | `Session` |
| `AdapterLife` | validation, `rs_nfc_ptx_open` call by call, close; implements `Session` | `Session` (refinement) |
| `ReadApi` | `Read()` and `Stop()` as several tasks call them, and the worker | |
| `AbstractReader` | what `rs_nfc_reader.h` promises of a non-blocking read | |
| `Client` | the application's tasks and the callbacks on the worker, as users of the API | `ReadApi` |
| `CardInfo` | `rs_ndef_read_card_info` and the SDK components, card after card | |
| `CardEvent` | one pass of `LOOP_DATA_EVENT`: activation, NDEF read, raw exchange, event | `CardInfo` |
| `Layout` | bytes written piece by piece, for the two formats below | |
| `NdefDecode` | `rs_ndef_decode_message`, record by record | `Layout` |
| `T2tRead` | `read_t2t_ndef`, byte by byte | `Layout` |
| `WaitProofs` | lemmas about the wait, for both bodies | `StopRequest` |
| `EventLoopProofs`, `SingleShotProofs`, `ReadApiProofs`, `CardProofs`, `NdefDecodeProofs`, `AdapterProofs`, `T2tReadProofs` | theorems about `EventLoop`; `SingleShot`; `ReadApi` and `Client`; `CardInfo` and `CardEvent`; and so on | the module they are about |
| `MC*` | instances for TLC | one each |

**Steps.** In `PtxWait` and `StopRequest` each access to something an interrupt or another
task sees is an action of its own, in the order of the code: `WaitPublish` is line 394 of
the adapter, `WaitArm` 396, `WaitFlush` 398, `WaitTake` 404, and so on. `wpc` and `spc[s]`
say where the reader and each stopper are. The locals of the wait are cleared by
`WaitReturn`. `pc` says where the reading task is in the session or in its body; while the
wait runs it is `"waiting"`. Handlers that nobody else can observe halfway are one action:
the whole of `LOOP_DATA_EVENT`, for example, with the application's callback, which may
itself call `Stop()`; `CardEvent` has the steps inside.

**Time.** `elapsed` is the tick count minus `start_tick`; the tick (1000 Hz, so that
`pdMS_TO_TICKS` is the identity) may come between any two steps. `MaxTick` stands for
`UINT32_MAX`, which is also `portMAX_DELAY`: a delay of `MaxTick` does not expire
(`INCLUDE_vTaskSuspend` is set). `blockTicks` counts a finite delay down while the task
sleeps.

**Environment.** The chip's status, its interrupt (with any status of `ChipEvents`,
"nothing new" included), the SPI link and the system health change at any time. A call to
the SDK fails when the link is down and, where the code distinguishes it, for no visible
reason.

**Scheduling in `ReadApi`.** With `Preemptive` any two steps of two tasks interleave.
Without it a task keeps the processor until it blocks; this is the configuration of the
repository (worker and application both at priority 1, `configUSE_TIME_SLICING` 0).
`IdleRuns` adds that the idle task gets to run between a read's end and the next `Read()`;
only then does FreeRTOS release the TCB of a deleted task. Creating a task on a TCB in use
has no defined outcome: the model records `tcbReused` and stops, which is why the runs
that can reach it do not check for deadlock.

The callbacks are a caller of their own in `Client`, `CallbackTask`: it calls only while
the worker is in its body or in the completion callback, and the worker goes on only when
that call has returned. The application's other tasks launch reads, and call `Stop()` when
they like and after a launch that failed (`bailing`).

**The promise in `AbstractReader`** is translated from `rs_nfc_reader.h:283-301`: a read is
accepted, runs, may be asked once to stop, completes or not ("Set to UINT32_MAX to loop
forever"), and then calls back once. It is the one module that states what a header says
instead of what the code does; `ReadApi` and `Client` are compared with it.

**Adapter in `AdapterLife`.** `up` holds the peripherals that this `rs_nfc_ptx_open` has
brought up; each call of it is a step that succeeds or fails. What the reader does between
open and close is a step with any status, and there is one reader: blocking reads of
several tasks are in `ReadApi`. `calibrations` counts the opens that ask the SDK for the
calibration. `RefinesSession` maps all places inside the
opening to `Session`'s `"open"`. The board's configuration (`configuration.xml`) enables
the calibration.

**Data in `CardInfo` and `CardEvent`.** A field of the result is the card it was filled
from, or `None`; lengths are small numbers. In `CardEvent` a card is its technology, its
identifier and the protocols it announces, since classification and addressing depend on
these; an identifier is a sequence of distinct numbers, so that its order shows. The raw
frame is its length and the identifier in it. `CardEvent` uses `CardInfo`'s actions for
the NDEF read and adds the steps around it.

**Bytes in `NdefDecode`.** A byte is a number below `Base` with the three header bits the
decoder looks at; the long payload length has four bytes as in the code, and positions
wrap at `Base^4`, as `uint32_t` does. A pass of the loop is one step. `Encode` writes a
record as the format has it; the decoder is compared with what was written.

**Bytes in `T2tRead`.** Base, block length, unit of the area, last block and buffer size
are constants (256, 4, 8, 255 and 280 in the code). A tag is a sequence of TLVs and the
memory that holds their encoding, written from the format; the walk must find what was
encoded.

**What was written.** A tag and a message of known records carry, beside their bytes, the
pieces they were written from and where each piece lies (`at`). `LaidOut` says that the
bytes hold the pieces one behind another, up to the place where they are cut. The models
assume it of their inputs (`T2tAssumption`, `FormatAssumption`) and TLC checks it for the
instances, which join the pieces with `FlattenSeq`. `FormatAssumption` also says that the
three header bits are different bits of a byte and that a whole message is shorter than
2^32; `T2tAssumption` that a TLV's length fits its two bytes. Messages of arbitrary bytes
(`written` empty) are under neither.

## Runs

Passing runs:

| Run | Bounds | Shows |
|---|---|---|
| `LoopForever` | 2 ticks, endless timeout, one stopper, all chip events | who owns the interrupt, that the sleeper can be woken, errors reported, at most one card after a stop; a stop that the loop still tests for is kept, acted on and ends the `Read()`; a card that woke the sleeper stays on its way and is reported |
| `LoopFinite` | timeout 2 of 3 ticks, one stopper, all chip events | a finite `Read()` ends once chip and link stay well |
| `Retry` | `retry_count` 0, 1 and the counter's limit (2); timeout 1 | `RS_OK` only with a card or a stop; a card ends the attempts; their number below the limit; the `Read()` ends; at the limit, where the counter wraps for ever, a stop still ends it |
| `AsyncCooperative` | two application tasks and the callbacks, the repository's schedule | TCB never reused, a read in progress is announced, a bail-out stops what is in flight, the API implements `AbstractReader`, whose liveness is that a read that has ended calls back |
| `AnySchedule` | three callers (symmetric), all interleavings, blocking reads too | neither `active` nor `g_reader_active` left set with nobody to clear it |
| `AdapterLife` | every configuration of small ranges, every call free to fail | open means ready; no stale registry; the calibration asked for by at most one open, and missing only after a failed one; refinement of `Session` |
| `CardEvent` | eight cards, one per technology and protocol, identifiers of every length, messages up to 2 bytes | components closed; no stale field anywhere in the event; length and presence agree; the raw frame addresses this card; tag type and protocol agree |
| `NdefDecode` | messages of up to three records of five forms cut at every byte, all byte strings up to four, long records with lengths near 0 and near the wrap | the complete records are recovered; what is stored lies inside the message; the loop ends |
| `T2tRead` | all tags of up to three TLVs out of six, three area sizes, two limits, short answers | the buffer is never overrun and holds the tag's memory in order; the reported bytes are a prefix of the message; a message within reach is reported whole |

Runs that TLC must refute, each against a sentence of the repository (`PROJECT.json`,
"findings", quotes it):

| Run | Property | What happens |
|---|---|---|
| `StopLost` | `StopEndsRead` | the wait never looks at the flag: a sleeper that `Stop()` wakes without a card sleeps again, and a stop between the loop's test and the flush of line 398 wakes nobody |
| `CardDropped` | `DetectedCardIsReported` | with a finite timeout the wait that finds a card uses all of it up |
| `NdefPayload` | `PayloadInside` | a payload length near 2^32 wraps the position: the record is stored with a payload that ends far outside the message |

The runs do not repeat the type invariants that the proofs establish for every value of
the constants, except where a run's instance is what shows the bounds at work
(`EventTypeOK`, the buffer of `T2tRead`).

### Known deviations

The following contradict texts of the repository or what they suggest, or are places where
the code does less than a reader expects. Most are states the models reach. Only the first
has a run of its own; the properties above are worded so as not to hide the others.

- `rs_nfc_ptx_wait_for_card` never looks at `g_stop_requested`. In an endless read, a
  `Stop()` that wakes the sleeper while the chip reports no card only makes it rearm the
  interrupt and sleep again, for what is left of 2^32 ms (49 days), or with no limit if no
  tick has passed; the read ends when something else ends the wait, a card for instance.
  A finite wait hears the stop at its timeout. A `Stop()` between the loop's test and the
  publication of the handle, as from the callback of the RF warning
  (`rs_nfc_reader.c:340`), wakes nobody, and one that notifies before the flush is
  discarded (`rs_nfc_ptx105r.c:394`, `:398`). `StopLost` refutes `StopEndsRead` in these
  ways; `StopBeforeWaitEnds` is therefore about a stop that the loop still tests for.
  (`rs_nfc_ptx105r.c:402-422`; `rs_nfc_reader.c:686-688`: "so it can observe the stop flag
  immediately")
- A second `Stop()` for the same read returns `RS_ERR_INTERNAL`, and one with nothing in
  flight `RS_ERR_DEPENDENCY`. (`rs_nfc_reader.c:671-683`; `rs_nfc_reader.h:299`, the
  repository's `README.md:696` and `app_nfc_reader.c:200`: `RS_OK` always)
- After a wake without a card, the time since the entry is compared with a remaining delay
  that was already reduced by it (`WaitDecide`): the wait can give up before its timeout.
  (`rs_nfc_ptx105r.c:417`; `rs_nfc_reader.c:349-351`: "or the full remaining timeout
  expires")
- `for (uint8_t attempt = 0; attempt <= max_retries; ...)` does not end by itself for
  `max_retries` 255: `AttemptsBounded` is stated below that limit. (`rs_nfc_reader.c:266`,
  `:259`: "up to (max_retries + 1) times")
- After `vTaskDelete(NULL)` the static TCB stays in the kernel's hands until the idle task
  has run, and nothing waits for that; `NoTcbReuse` assumes it (`IdleRuns`).
  (`rs_nfc_reader.c:636`; `rs_nfc_reader.h:284-287`)
- Under preemption a `Stop()` that has passed its tests can set the flag after its read
  has ended: it stops nothing and stands until the next `Read()` clears it, or it is set
  after that and stops the wrong read. No property excludes it: under the repository's
  schedule no other task runs between test and set.
  (`rs_nfc_reader.c:669-685`)
- A `Stop()` that comes when the body of an asynchronous read has already ended, from the
  completion callback for instance, returns `RS_OK` and stops nothing.
- With `validate_dependencies` and `cfg_valid_check_en`, a `Read()` is refused whenever no
  other read has the adapter open: the adapter it asks about is opened later. Beside
  another task's blocking read, which nothing excludes, the check passes and says nothing
  of the new read. (`rs_nfc_reader.c:291`; the comment at `:285` and the repository's
  `README.md:644`, `:860` offer the option as a check that the stack is ready)
- The calibration flag is consumed before the peripherals are opened; after a first open
  that fails the sensor stays uncalibrated until the next power cycle. The recovery of a
  failed `ptxIoTRd_Init` repeats the same parameters, so that one open may calibrate
  twice. (`rs_nfc_ptx105r.c:265-281`, `:309`; `:265`: "only performed once per power
  cycle")
- A message cut by `max_ndef_bytes` loses its last records with `truncated` false; only
  the record limit sets it. `type_len` keeps the full length where `type` holds 32 bytes.
- The repository's `README.md` says at lines 813 and 870 that Type 3 NDEF is not read, and
  at 862 that a status for an overflowing buffer is returned; the code reads Type 3 tags
  and never returns that status.
- The interrupt of a card that comes between `WaitArm` and `WaitFlush` is discarded, and
  the status is not read before the sleep: the reader sleeps on an active card.
  `WakeReportsCard` and `CardStaysOnItsWay` therefore start from a notified sleeper. (`rs_nfc_reader.c:349`)
- A wait that fails is not charged to a finite timeout, and a failed health check counts
  as healthy: while the link fails there, the loop goes on. `FiniteReadEnds` therefore
  assumes a link that recovers. (`rs_nfc_reader.h:281`)
- Under preemption two `Stop()` calls can both pass `StopFlag` before either sets the
  flag, and a second `Read()` can pass `ReadGuard` between `WorkerClearActive` and
  `WorkerDelete`. (`rs_nfc_reader.c:677`, `rs_nfc_reader.h:286`)
- The blocking path has no guard: it runs beside a worker, and whichever ends first clears
  `g_reader_active`, so that `Stop()` is refused for the other. (`rs_nfc_reader.c:52`,
  `:72`)
- After a READ answered with fewer than 16 bytes the Type 2 reader goes on four blocks
  further: bytes of the wrong blocks can be reported. `OnlyTheMessage` therefore assumes
  full answers. (`rs_ndef_read.c:202`)

**Why the bounds are enough.** Two ticks give a time before, at and after every deadline,
three let a wait that was woken once time out early. One stopper can call `Stop()` at any
moment and again while the first request is pending; that more of them change nothing for
safety is proved. Two application tasks and the callbacks give a read in flight, a second
reader that bails out and a stop from the worker itself at the same time. The cards of
`CardEvent` are one for each outcome of the classification, and any of them may follow any
other. In `NdefDecode` two records are the limit and three are written; a record's long
length is taken to both ends of its range, which with a base of 8 is 4096. In
`AdapterLife` each field of the configuration has a value that is refused and one, at its
limit, that is accepted. In `T2tRead` a byte below 8 makes the long form of a length start
at 7, so that both forms, the terminator and the NULL TLV all fit; three TLVs put
something before and after the message; 18, 15 and 6 bytes of area, 15 of buffer and the
last block at 19 put a cut at every place. `attempts` is counted to `MaxU8 + 2` and
`cardsAfterStop` to 2, where their properties are already decided.

**Fairness.** Weak for the reader, for each stopper that has begun its call and for the
tick: these tasks are ready, and the kernel runs them. The chip, cards, link and the
decision to call anything get none. A blocked reader (`WaitTake` without a notification)
is disabled, not unfair. In `Client` it is strong, for the worker and for each caller
inside a call, because without preemption a task is held up whenever another is inside a
call; callers block between calls, and then it gets to run. The worker has none for its
body (`worker = "reading"`): a read with an endless timeout need not end, and when one
does is the matter of `EventLoop` and `SingleShot`. That the completion callback returns
is an assumption on the application.
`NdefDecode` is one function: weak fairness of its step says that it is executed.

## Proofs

All theorems hold for every value of the constants that satisfies the assumptions in the
modules; `PROJECT.json` lists those a reader should know of.

`WaitProofs` has what the steps of the wait preserve, whoever waits: where the interrupt
is armed and the handle published (`WaitInv`: exactly on two ranges of `wpc`), and that a
wait's remaining delay never exceeds its timeout. Both bodies of a `Read()` use it.

`EventLoopProofs` proves the types of `EventLoop` and the safety properties of
`LoopForever`, and that the adapter is open exactly while a read runs (`AdapterClosed`).
The properties are not inductive as they stand. `IInv` adds to `WaitInv` that the reader
is inside the wait exactly when `pc = "waiting"`, and that a card reported after a stop is
followed by the stop test before another (`LateCards`). The proof has one lemma for the
steps of the wait, one for its return, one for steps outside it, and one per actor.
`StopStaysHeard` and `CardKeepsItsWay` prove `HeardStopIsKept` and `CardStaysOnItsWay`, the
safety halves of two liveness properties. The latter assumes that the timeout is endless,
which is the demo's configuration: with a finite one the loop leaves a card pending, as
`CardDropped` shows.

`SingleShotProofs` proves the three safety properties of `Retry`. Its invariant says what
each place of an attempt knows: whether a card was read or a stop requested, given the
status it will return (`Outcome`), and how the 8-bit counter and the number of attempts
relate while the counter has not wrapped (`Counting`).

`ReadApiProofs` has two invariants. `OwnersInv` holds under every schedule and with any
mix of calls: a flag that is set has somebody on the way to clearing it. `CoopInv` is for
the repository's schedule (`Cooperative`: no preemption, non-blocking reads only, idle
time between reads): at most one caller is inside a call, and then the worker is at a
place where it blocks, with what each place implies for the flags. From it follow that the
TCB is never reused, that a read in progress can be stopped, that a granted stop is kept
while the read is in progress, and that every step is one of `AbstractReader` or stutters
(`KeepsPromiseSafely`). Each of the three assumptions is needed; the deviations listed
above show what happens without them. `ClientUsesApi` shows that the application with its
callbacks is one of the API's users, so that these theorems hold of it; a further
invariant (`ClientInv`: a call made on the worker's task finds the worker in its body or
its completion callback) gives `BailOut` and `CallbackRefused`.

`CardProofs` proves the properties of `CardEvent`. `InfoInv` says which component is open
at each place of the NDEF read (`ComponentPhase`) and from which card each field comes
(`FieldsOfCard`); `EventInv` adds what the event loop's own places know of the result and
the raw buffers. `EventRefinesRead` shows that the event loop calls the NDEF read only in
ways `CardInfo` allows, so that what is proved of `CardInfo` with any caller holds there.

`NdefDecodeProofs` proves of every message that positions stay in 32 bits, that at most
`MaxRecords` records are stored, and that their types, payload starts and short payloads
lie inside it; and of every message written in the format, cut anywhere, that exactly its
complete records are decoded (`Recovers`). The invariant for the latter, `Recovering`,
says that after so many passes the decoder has the first so many records and stands where
the next one begins, and why it stopped. A pass is one of three: there is no room, the
record does not fit, or it does, and then its header, in each of the four forms, is read
as it was written (the four digits of a long length included) and the position does not
wrap.

`T2tReadProofs` proves that no index leaves the buffer of the Type 2 reader; that the
buffer holds the tag's memory address by address, since while answers are full the number
of bytes read and the block number advance together; that what is reported is the
beginning of the message (`OnlyMessageReported`); and that a message within reach is
reported whole (`MessageReported`). The invariant `Walked` says that the position is where
a TLV of the tag begins, with no message and no terminator before it (`AtTlv`), and that a
data area read to its end has all the bytes that can be read (`AllRead`).

The recursion of the formats is in `LaidOut`, which gives the place of each piece; so an
invariant over steps is enough, and the one induction needed, that places ascend
(`Ascending`), is by well-foundedness of the natural numbers.

`AdapterProofs` proves the properties of `AdapterLife`, the refinement of `Session`
included.

Model-checked only is everything under fairness (`FiniteReadEnds`, `StopBeforeWaitEnds`,
`WakeReportsCard`, `ReadEnds`, `StopEndsRead`, `DecodeEnds`, and of `KeepsPromise` that a
read that has ended calls back), since the prover does not handle liveness and `ENABLED`. Of four of
these, and of the end of the Type 2 reader, the safety half is proved, and what remains is
that enabled steps are executed. No step clears a stop that the loop still tests for or
takes the loop back into a wait (`StopStaysHeard`); a stopped single shot only goes
forward to its end, even where the retries never run out (`StopGoesForward`); in an
endless loop no step loses a card on its way from the wake-up to its report, unless it
goes, link or chip fail, or a stop comes (`CardKeepsItsWay`); each pass of the decoder
ends it or stores one of at most `MaxRecords` records (`PassesAreCounted`); and each step
of the Type 2 reader goes on to a later phase, block or byte (`ReaderAdvances`).

## Not modelled

- The card summary: it formats into a buffer of 128 characters texts of at most 64, so the
  tests of its bound never act, and nothing depends on the text.
- `rs_nfc_ptx_stop_discovery` and `rs_nfc_ptx_sleep`: nothing calls them.
  `rs_nfc_ptx_get_card_type` and `rs_nfc_ptx_get_uid` are not called either and change
  nothing.
- The application's callbacks beyond the API calls they may make (LEDs, statistics,
  printing) and its log: output. The log reads `type_len` bytes of a `type` that may hold
  fewer; that `type_len` is not clamped is in `NdefDecode`.
- The tests and mocks, which are placeholders, and the generated build and board
  configuration, which is read for the kernel's settings and the calibration only.
- The PTX SDK, FSP drivers and FreeRTOS are not in the repository and appear only as the
  code uses them. A system fault during an endless sleep has no interrupt in this code and
  no promise to compare with; a `Stop()` from an interrupt handler, which a comment
  recommends (`app_nfc_reader.c:193`), is outside the contract of the FreeRTOS call it
  makes and has no defined step.
- `RS_ERR_INVALID_CFG` of `rs_nfc_ptx_start_discovery`: it is for a board with no poll type
  enabled, and `configuration.xml:258-261` enables all four.
- The branch of the wait for a scheduler that is not running cannot be reached: every
  caller is a task.

## Possible extensions

The worker's body is one step in `ReadApi`, and `EventLoop` has one reader: putting
`EventLoop` in the place of that step would show the wait and the API's flags together
under preemption. `CardEvent` takes the bytes of a message as the card they came from: joining
it with `T2tRead` and `NdefDecode` would follow them from the tag to the records.
