# Verification of open-speech

open-speech is a speech server: OpenAI-compatible text-to-speech (TTS) and
speech-to-text (STT) over HTTP, three WebSocket protocols (the Live Reader,
Realtime, streaming transcription), batch transcription, a Wyoming port for
Home Assistant and a web reader. This directory specifies it in TLA+, checks it with
TLC on small instances and proves the properties that matter most with TLAPS,
for every value of the constants.

The specifications are written from the code. Paths below are relative to the
Python package (`src/src/` in the maps of `PROJECT.json`) unless they say
otherwise.

Contents

1. [The system](#1-the-system)
2. [Modules and their code](#2-modules-and-their-code)
3. [Runs](#3-runs)
4. [Proofs](#4-proofs)
5. [Fairness](#5-fairness)
6. [What the models showed about the code](#6-what-the-models-showed-about-the-code)
7. [Not modelled](#7-not-modelled)
8. [Plan](#8-plan)

## 1. The system

One Python process: an asyncio event loop (FastAPI), thread pools for
inference, two SQLite files (`storage.py`, `batch/store.py`), and optional
worker processes over HTTP for TTS engines (`providers/`).

| component | state | operations | hard behaviour | what makes it correct |
|---|---|---|---|---|
| **Live Reader** `live_tts/server.py`, `segmenter.py` | generation, input and segment queues, open response, playback window, worker future, admission tokens | `input_text.append/commit/cancel`, `playback.ack/pause/resume`, `session.update`, shutdown | three coroutines and a thread per session, one executor thread for all sessions, timers, stale generations, wake-ups through one event, teardown at any await | text is spoken once and in order; nothing sounds after a cancellation or past the window; commits are answered; slots are neither lost nor given twice |
| **Realtime** `realtime/` | response task, synthesis thread, barge-in (pending, gate, timer), send lock, speech buffer | `response.create/cancel`, audio append/commit, `session.update` | `task.cancel()` at any await, a timer that races the transcript, state changed across awaits | held audio is always decided about; a reply's events are in order; a cancelled reply falls silent; every reply ends |
| **Batch** `batch/`, `services/batch.py` | job rows (SQLite), tasks, semaphore, uploads in memory | submit, delete, list, recover at start, shutdown | crash and restart, cancelled tasks that still write | no job is left unfinished behind; verdicts stand; limits hold |
| **Model manager and lifecycle** `model_manager.py`, `lifecycle.py`, `services/models.py` | loaded models, last use, download state | load (evicts and restores), unload, download, delete, TTL and LRU passes | API lock not taken by eviction and by loads on first use | a model in use stays loaded; a failed load restores what was evicted; limits are respected |
| **TTS routing, external providers** `tts/router.py`, `tts/external.py`, `tts/backends/` | backends, locks, manifest cache, active requests | synthesize, load, unload, status | request counting against eviction, cached manifests | a busy model is not idle |
| **STT routing** `router.py`, `backends/` | models by backend | transcribe, load, unload | load on first use in a thread | as above |
| **TTS service** `services/tts.py`, `tts/pipeline.py` | stream worker, queue of eight, cancel event | speech request, streamed response | thread and generator end independently | no deadlock and no leaked thread when the client leaves |
| **TTS cache** `cache/tts_cache.py` | files and index, size | get, set, evict | eviction beside reads | size limit; what is read is what was written |
| **Streaming STT** `streaming.py` | utterance buffer, VAD window, confirmed words | audio, flush, stop | utterances cut by silence or length, hypotheses that change | audio is transcribed once; finals do not change |
| **STT service** `services/stt.py` | none | upload, transcribe, format | sequential | - |
| **Web Reader** `reader/`, `routes/reader.py` | documents and parts (SQLite and files), one render thread, outline cache | import, request, skip, delete, prune, stop | replacement of a job under way, deletion during a rendering, restart of the thread | a part in the store has its file; nothing of a deleted document stays; the part asked for gets rendered |
| **Wyoming** `wyoming/` | audio of a connection | transcribe, synthesize, describe | protocol order only | one transcript per utterance |
| **VAD, audio, effects** `vad/`, `audio/`, `effects/`, `diarization/` | none that changes | numerical | boundaries of windows | - |
| **Pronunciation** `pronunciation/` | table read at start | apply | replacement templates | - |
| **Studio** `history.py`, `conversation.py`, `composer.py`, `profiles.py`, `voice_*.py` | SQLite rows | record keeping | one transaction per request | - |
| **Middleware** `middleware.py` | token buckets | authenticate, limit | arithmetic of the bucket | rate is not exceeded |
| **Application** `main.py`, `config.py`, routes | settings | start, shutdown | order of shutdown | - |
| **Clients, web interface** `client/`, `src/client-js/`, `static/` | a socket each | protocol clients | reconnection | - |
| **Provider workers** `src/providers/` | one model, one operation lock, queue of two | synthesize, load, unload | producer blocked on its queue when the request is gone | lock is released |

How they interact. The routes call the services; these call the model manager,
which loads through the two routers and the backends. The Live Reader and
Realtime sessions synthesize through `tts/pipeline.py` in threads and hand
audio to their coroutines through queues; they run on one event loop, so what
lies between two awaits is atomic and everything else interleaves. The batch
worker calls the STT router in the executor and writes through its store. The
lifecycle pass runs in a thread every 30 seconds beside all of it. The reader's
render thread uses the TTS service and the reader's store.

The hazards that follow, one by one with the line where each bites, are listed
under `hazards` in `PROJECT.json`.

## 2. Modules and their code

A step of a model is what one coroutine or thread runs between two awaits
(or two points where another thread can see a difference). Where a
function has several awaits, it is several actions and a program counter.

### LiveAdmission
`LiveTTSAdmission` (server.py 39-71) and, of the session, what decides over
slots and the executor thread: admission or refusal, submission of a worker,
`shutdown()` that ends in time, does not, or raises what the synthesis task died
of (`ShutdownRaises`; the slot is then lost), the done-callback that releases a
late slot. Variables: `slot` is `_states`, `task` the endpoint,
`worker` the session's `_worker_future`, `queue` the executor's queue. It is
the abstract specification of teardown; LiveReader implements it.

### LiveSpeech
What the events of a Live Reader connection promise a client, over what it has
heard only: responses follow one another, take up the text in order, number
their frames without a gap; nothing starts or sounds for a generation after its
`response.cancelled`, nor between `playback.paused` and `playback.resumed`;
`input_text.done` is heard only with nothing in progress. Two weaknesses of the
code are written into it: `response.done` may follow the `response.cancelled` of
its generation (section 6), and of the segments that the cue for a code block is
cut into each has the whole fence as its source, so at such a position (`Cues`)
a response may take up what the last one took up.

### LiveReader
A whole session: `LiveTTSSession` and `live_tts_endpoint`.

| code | model |
|---|---|
| `run`, `_handle_*`, `shutdown` | the reader: `rpc`, actions `Connect`, `Handle*`, `GaveUp`, `StopSegmenter`, `HandOver`, `JoinTimeout`, `ShutdownRaises` |
| `playback.pause`, `playback.resume` | `HandlePause`, `HandleResume`: unguarded like the code, so both may come at any time and any number of times; a resume also restarts the timer of a synthesizer that waits |
| `_segment_input_loop`, `LiveTextSegmenter` | the segmenter: `SegRead` (one item, cut into any segments the rules allow), `SegPut` (the await of a full queue) |
| `_synthesis_loop`, `_synthesize_segment`, `_wait_for_flow` | the synthesizer: `spc`, one action per await; the dictionary may raise in `Begin`, which leaves the task dead (`spc = "dead"`) |
| `_synthesize_worker` | the worker: `WorkerStarts`, `WorkerEmits`, `WorkerReports`, `WorkerEnds` |
| `_send` with its lock | `sendQ`, `Call`, `Transmit`, `Sent`: sends end in the order they were called; a broken socket runs the `except` of `_send` |
| `_generation`, `_buffered_input_chars`, `_accepted_chars`, `_playback`, ... | the variable of that name |

Text is a sequence of character classes (a word, a code block's fence, markup
that cleans to nothing, white space), a position is an index into it. Where
exactly the segmenter cuts depends on punctuation and lengths and is left open;
`Cuts` says what every cut respects (ranges in order and apart, no word left
out, flush at a commit, nothing said for white space). For a fence the
segmenter reads `CODE_BLOCK_CUE`, all of whose characters have the fence as
source (segmenter.py 150-152, 176), so a cue can be cut into up to `CueParts`
segments that share it, also over several reads (`Follows`, `Rests`). Audio is
counted in frames. Timers may fire whenever they are armed.

### BatchJobs
`submit_batch_transcription`, `delete_batch_job`, `BatchWorker`,
`BatchJobStore` and startup and shutdown (main.py). `row` and `results` are
the table and survive; `task`, `line` (the semaphore's waiters), `progress`
are the process and do not. `Cancelled` is `task.cancel()`; a task in line and
one past the semaphore take it differently, because the former never runs
`_process_job`. `End` is the process ending (also a crash: `server = "up"`);
`Start`, `Recover`, `Serve` are `recover_on_startup`, row by row.

### RealtimeSession
`RealtimeSession` of realtime/server.py: the receive loop (`loop`), the
response task (`task`, one value per await), the barge-in timer (`timer`,
`interrupter`), the synthesis thread (`worker`), the send lock (`lock`, `say`).
`cancelling` is the interval between `task.cancel()` and the `CancelledError`
at the await the task stands at; a task cancelled before its first step runs
nothing of its own (`task = "dead"`), as asyncio does it. `heard` is what the
client heard of the reply in progress, `leak` the audio it heard since it spoke over it.

### ModelLifecycle
What is in memory, and who changes it.

| code | model |
|---|---|
| `ModelProgressService` and its `model_operation_lock` | `line`, whose first entry holds the lock, `progress`; `Ask`, `Begin`, `Finish` |
| `ModelManager.load`, `_restore_models` | `RefuseLoad`, `OpScan`, `EvictOther`, `EvictDone`, `LoadModel`, `Restore`, `RestoreDone` |
| `download`, `unload`, `delete_artifacts` | `Check`, `LoadModel`, `UnloadModel`, `Settle`, `Restore`; `UnloadModel`; `Status`, `DeleteArtifacts` |
| `ModelLifecycleManager`, `check_ttl`, `evict_lru` | `pass`: `StartPass`, `PassScan`, `EvictIdle`, `TtlDone`, `EvictLru`, `LruDone` |
| `TTSRouter.synthesize`, `FasterWhisperBackend._run_inference`, `ExternalTTSBackend._in_use` | `BeginUse`, `EndUse`: the lock of the provider is held in between (`Held`) |
| the backends, and the worker behind a URL | `Load`, `FailLoad`, `Unload`, `FailUnload`; a worker holds one model (`Mates`), refuses to unload another, and may have given its model up for one that fails |

Each listing visits the providers one by one (`scan`, `found`) and is old when
it is used. It leaves out a worker that does not answer (`Unanswered`, one of the
failures that `MaxFailures` counts), and the listing after a failed load may show
what a worker had loaded a second ago (`op.stale`). Times are reduced to `old`,
the models whose last use is `os_model_ttl` ago. `op.taken` and `op.misread` are
history for `GivenBack`: what the operation took out of memory, and what its
listings were wrong about.

### ProviderWorker
A worker process of `src/providers/`, any of the three: `engine` is chosen at
the start. `lock` and `line` are `operation_lock`, `job[r]` is the handler of
a request with the body of its response, `made[r]` the producer and its queue.

| code | model |
|---|---|
| `load_model`, `unload_model`, `synthesize` | `Arrive`, `TakeLock`, then `Begin` and what the thread does: `EndLoad`, `EndUnload`, `Generated`, `FirstMade` |
| qwen3's `produce`, `put_unless_closed`, `force_terminal` | `EndGenerate`, `Put`, `PutError`, `PutEnd`, `GiveUp`, `Displace` |
| its response and `close_consumer` | `FirstItem`, `NextItem`, `JoinProducer`, `CloseConsumer` |
| cosyvoice's `generate`, `close_stream`, `_next_chunk` | `AskChunk`, `Chunk`, `LastChunk`, `ChunkFailed`, `CloseStream`, `EndStraggler` |
| chatterbox's pieces, `_schedule_restart`, `_restart_when_idle` | `EndPiece`, `Release`, `ScheduleRestart`, `WakeRestart`, `RestartWhenIdle` |
| lost CUDA context, `os._exit`, SIGTERM | `ContextLost`, `LoadBroken`, `doom`, `Exit` |

The gateway at the other end reads or goes away at any time (`Read`, `Leave`).

### ProviderRouting
The gateway's side: `TTSRouter`, the backends in its process and the
`ExternalTTSBackend` of each worker. A request is a thread on a `Path`, which
names the stages of its operation in the order of the code (wait for the
router's lock, choose the backend, check the voice, wait for the provider's
synthesis lock, read the manifest, speak; and so on). `manifests` and `health`
are what the gateway remembers of a worker; what is remembered may be too old
at any time, except that an error is never used again after a timeout, since
its age counts from before the request. `list` and `status` are the parts of
`ModelManager.list_all` and `status` that depend on a worker. `worker` is the
environment: a worker breaks, hangs, or comes back with other models.
Which model is in the worker's memory is ModelLifecycle's.

### Providers
Composes the two sides for one run. Each knows of the other only what it is
sent, which either module leaves free, so a behaviour is of one side.

### SpeechService
Speech requests over HTTP (streamed, whole, cloned) and from Wyoming to one
provider, and `TTSCache`.

| code | model |
|---|---|
| `synthesize_speech_response`, `clone_speech_response` | `AskStream`, `AskCached`, `AskThread`, `AskClone`: everything up to the first wait |
| `_streaming_synthesis_worker` and its queue | `work[r]`: `TakeSynthesis`, `Synthesize`, `PutChunk`, `PutError`, `PutEnd`, `ForceEnd`, each put a step that may find the queue full or the request cancelled |
| the response and its reads in pool threads | `req[r]`: `getter`, `TakeItem`, `Begin`, `Read`, `EndBody`, `Leave` |
| `StreamingFFmpegEncoder`, `process_tts_chunks` | `EndEncoding`, `EncoderFails`, `EndSynthesis` |
| `TTSCache.get`, `set`, `evict_if_needed` | `Hit`, `WriteTemp`, `Rename`, `List`, `Measure`, `RemoveOldest` under the lock of its own object (`inst`): HTTP and Wyoming have one each over the same directory |
| the cleanup task of `lifespan` | `StartCleanup`, `cleanup`, which an exception kills |

The rate of PCM is kept beside each file, because nothing in the file says it.
`req[r].getter` is the pool thread in `queue.get`, which may outlive its request;
`work[r].unmarked` says that its worker ended without the end marker, as a
cancellation between the two looks of `_finish_stream` makes it do.

### StreamingTranscript, StreamClient, Recognition, Transcription
`StreamingTranscript` is the task of one WebSocket session
(`StreamingSession`): packets into chunks, chunks into windows, windows into
utterances, `LocalAgreement2`, the final transcript, the flush. Audio is
numbered units, so that what an utterance holds can be compared with what was
received; what the recognizer says is any of `Hypotheses`. `StreamClient` is
`async_stream_transcribe` of the Python client with its reconnections and the
sender task it cancels. `Recognition` is a recording that is transcribed as a
whole: uploads read in pieces up to the limit, and Wyoming's audio up to
`AudioStop`, of which `SileroVAD.get_speech_segments` keeps
the speech; that function is written as a fold of `JudgeWindow` over the
windows. A time of the VAD, which hears the audio at 16 kHz, is where it should
be at the client's rate (`EndOf`), or where the handler cuts, by `rate // 1000`
samples to a millisecond (`CutAt`). `Transcription` composes the three; they share only the recognizer.

### ReaderRenderer
The Web Reader: documents and rendered parts (`doc`, `rows`, `files`, `tmp`
survive a crash), the renderer's memory (`outlines`, `job`, `errors`, `stop`),
its thread (`renderer`) and the pool threads of the HTTP handlers (`handler`).
`Walk` is `plan`, which cuts the document into parts from a block on, using
the parts that are rendered; `Pick`, `Speak`, `LastLook`, `WriteTemp`,
`Replace`, `SavePart`, `PruneRows`, `PruneFiles` are the thread between two
uses of the database, the condition or the file system; `SweepRows` and
`SweepFiles` its start. Pruning takes any number of old parts, as sizes vary.
Whatever removes files may leave some of them (`Unlink`), up to `MaxStuck` at a
time, as `_remove`, the routes' clean-up and an aborted sweep do; so may a write
or a replacement that fails. `stuckFiles` and `stuckTmp` are history: what the
file system failed on when it was last tried.

### MC and proof modules
`MC<Module>` gives constants to TLC; `<Module>Proofs` holds the theorems about
`<Module>` and, where it composes others, about its parts: `ProvidersProofs`
about ProviderWorker and ProviderRouting, `TranscriptionProofs` about
StreamingTranscript, StreamClient and Recognition, `ReadersProofs` about
LiveAdmission and ReaderRenderer. In each module an operator that stands before
another of nearly the same name, and that no specification uses, is that
operator with a plausible bug; `PROJECT.json` pairs each with the property that
catches it.

## 3. Runs

| run | module, configuration | distinct states | shows |
|---|---|---|---|
| live_admission | MCLiveAdmission | 469 | no slot is given twice or given up under a busy worker, none is lost but by a synthesis task that died; draining slots come back |
| live_reader_speech | LiveReaderSpeech.cfg | 2,163,168 | the character gauge is exact; LiveSpeech is implemented: text is taken up in order and, but for a cue, once, nothing stale sounds |
| live_reader_flow | LiveReaderFlow.cfg | 394,334 | window and wake-ups across pause, resume, cancellation, idle flush; every commit is answered unless the client sends resume for ever or the dictionary raises |
| live_reader_teardown | LiveReaderTeardown.cfg | 128,195 | every way to end; LiveAdmission is implemented, the slot comes back unless the dictionary raised |
| batch_jobs | BatchJobs.cfg | 8,480 | no zombie rows, verdicts stand, every job is decided or deleted |
| realtime_session | RealtimeSession.cfg | 486,621 | held audio is decided about, at most one chunk leaks, replies in order, cancelled replies silent, every reply ends |
| model_lifecycle | ModelLifecycle.cfg | 695,284 | nothing in use is unloaded, files and progress agree with memory, what an operation took out of memory it tries to bring back unless its listing was wrong about it; operations are answered, idle models go |
| providers | Providers.cfg | 494,372 | one thread at a time in the model of a worker, its lock comes back, clean ends are whole but for one documented loss; no model a worker offers becomes unknown, and no lock of the gateway blocks for ever |
| speech_service | SpeechService.cfg | 337,326 | a clean stream is whole, no worker is left behind, whoever waits for an item gets it but for the pool thread whose end marker was cancelled; the cache comes back under its limit |
| pcm_rate | PcmRate.cfg | violation | PCM of another rate comes out of the shared cache |
| transcription | Transcription.cfg | 54,102 | no speech is lost or transcribed twice; the client drops nothing but the rest of an asynchronous generator it closed, and its call ends; long speech is heard up to where its segment is cut |
| reader | ReaderRenderer.cfg | 99,506 | a recorded part has its file, nothing of a deleted document stays but what the file system would not remove, what was asked for last is rendered or shown to have failed |

Bounds, and why they are enough.

- *LiveAdmission*: three connections, two slots. A third connection is what it
  takes to be refused beside one draining and one active; workers of two
  sessions queue for the one thread. The theorems hold for all values.
- *LiveReader* is run three times, because the full product (texts of four
  classes, cancellations, commits, window, timers, every teardown) does not
  fit. `Uses` names the optional behaviours of a run. One segment fits the
  segment queue (`MaxSegments = 1`), so the segmenter blocks with one segment
  queued and one in synthesis. The window of one frame closes at the first
  frame. One cancellation gives text of two generations in the queues at once;
  a second adds nothing that a stale generation is not already. Two commits
  give a marker that overtakes nothing and one that is answered at an empty
  text. The text of the first run is a fence and markup; its cue falls into two
  segments (`CueParts = 2`), in one read or in two. `MaxFrames = 2` lets a frame
  be stopped at the window behind one that was sent. Pauses and resumes are not
  bounded.
- *BatchJobs*: three jobs, one at work, one in line, one refused or recovered;
  two files, so a deletion falls between two; one restart.
- *RealtimeSession*: two replies, as what one leaves behind is what the next
  one trips over; two chunks, so one is on its way when the user speaks; two
  turns, so a barge-in meets an old one; one change of settings, to a session
  without turn detection or without transcription.
- *ModelLifecycle*: a model of each kind of provider (a local one for
  transcription, a Piper voice, and a worker with two models, so that one is
  given up for the other), one of them loaded at the start; one request that
  may use any of them; two operations, so that one is asked for while the other
  runs; one failure, of a load, an unload or a question to the worker. `os_max_loaded_models` is one, so the pass also evicts by
  count.
- *Providers*: two requests to a worker, as one holds the lock, the model or
  what is left of a stream while the other comes; three parts fill the queue
  of two, so that the producer waits and gives up. Two requests to the
  gateway and one change of the worker: the second finds what the first
  remembered, from before or after the change. A backend in the process and
  one worker, since what a request to either blocks is the router's lock.
- *SpeechService*: two requests of any kinds, so that a cache file is read and
  evicted at once; the queue of eight is scaled to one, which fills as it does;
  a cache for one file, so every second file evicts; one crash.
- *Transcription*: chunks of three, windows of two and packets of one, two and
  seven do not divide each other; fifteen units are two utterances of the
  maximum of six and a rest. The client has four chunks and loses three
  connections, one more than it retries. An upload is up to five bytes against
  a limit of three and reads of two, so it is cut off in the middle of a read.
  Eight windows hold two segments of speech with the silence that parts them.
  A window is one millisecond and a "second" is two: at a rate of two the cuts
  are where they should be, at three each millisecond is a sample short.
- *ReaderRenderer*: one document of a heading and two paragraphs, so two parts
  or, from the middle, another cut of them; a folder for one file, so each part
  may prune another; two pool threads, so any two handlers interleave with the
  worker; one restart, by stop or crash; one file at a time that the file system
  fails on, which is enough to leave any one of them behind.

No state constraint is used; each bound is a constant in the guard it limits.
`CHECK_DEADLOCK` is off where a bounded number of requests comes to an end and
nothing is left to do (`Providers`, `SpeechService`, `Transcription`,
`ReaderRenderer`, `PcmRate`); the others stutter at the end by an explicit
action (`Stop`, `Served`, `Rest`).

## 4. Proofs

All theorems hold for every value of the constants under the ASSUMEs of the
module, which TLC evaluates in the runs.

**ReadersProofs.** About LiveAdmission: `IInv` = types, capacity, `SlotCoversWorker`,
`QueueMatches` and `SlotMatchesTask` (the endpoint's place in its code
determines its token). Without the last one capacity is not inductive: a
release by the endpoint and one by the callback could both take the same
token. Theorems `TypeCorrect`, `CapacityRespected`, `WorkersAreCovered`.

About ReaderRenderer, the other reader: the renderer waits while a slot of the
first is held (`busy`; `live_session_active`, main.py:125), and nothing else
passes between the two. `PartsHaveFiles` is `RowHasFile`
for every document, cache size, number of requests and of restarts. Rows and
files are changed in separate steps by several threads, so `ReaderInv` says what
each may rely on in between: a recorded part belongs to a document that is
stored; a handler that is to delete files does so for a document that is
deleted for good; the renderer at "save" has its file unless the document is
deleted, and what it is to unlink is not recorded any more; from reading the
blocks on, its part is one of a document that was there, for which it is needed
that every part planned for a document is a part of that document
(`PlannedParts`, by induction over the rounds of the walk; `NewPartEnds`: a new
part ends). `WithoutDrops` is the induction for the removal of rows.
`DeletedInHand` is the safety side of `DeletedGone`: an audio file of a deleted
document that is still in the cache folder, and that the file system did
not fail on when it was last to be removed, is in somebody's hands, the deleting
handler's, the renderer's that has just put it there and is to look at the
document again, or the next renderer's sweep. It rests on `ReaderInv` (the sweep
keeps what is recorded, and nothing of a deleted document is). That they get to
it is liveness and stays with TLC.

**LiveReaderProofs.** `ReaderShape` relates the places of reader, synthesizer,
worker and slot. `RefinesAdmission`: Init implies the abstract Init, and
`ReaderShape /\ [Next]_vars` implies an abstract step or a stutter; one lemma
per group of actions names the abstract action. The step in which `shutdown`
raises what the synthesis task died of loses the slot in both. Fairness is not part of the
theorem (TLC checks `SlotFreed`). `SlotOutlivesWorker` follows from the shape.
`NoLostWakeUp` needs only `ClosingStops` (closing sets the worker's cancel
event) beside itself: each action that opens the window, ends the pause,
cancels or stops also sets `_flow_changed`, and the synthesizer clears
it only in the step in which it finds the window shut.

`GaugeExact` and `WindowHeld` are about sums: of the lengths of the appends in
a queue, and of what each response has sent and the client has not
acknowledged. Lemmas on sums come first (what an element adds, that a
renumbered or changed element changes the sum by the difference), by induction
over finite sets (`Induct`: a set of naturals without a least element is
empty). `GaugeInv` adds to `BufferExact` that the queue holds what the protocol
admits and that what was appended is longer than what is pending, since the
gauge is lowered by a difference that must not go below zero. `WindowInv` has
`Tracked` (every response acknowledged at most what it sent) and `InLine`: the
worker's queue, the frame in the synthesizer's hand and the one being sent are
numbered one after another, so that each frame is charged once, in the step in
which the window was found open for it.

`RefinesSpeech` is the refinement of LiveSpeech. The mapping is the identity on
the variables that record what the client has heard, so all the work is in
`SpeechInv`: what the session's own state has to do with what the client knows.
It is claimed while the client can still hear; `Deaf` (closed, disconnected, or
the reader past its loop) is final and nothing is heard in it.

- `CallsInLine`: the line at the send lock holds at most one event by the reader
  and one by the synthesizer, each from a place in its code that sends.
- `ReaderHonest`: the reader announces a cancellation or a pause in the step that
  makes it, so the client is behind by that one event and no more.
- `SynHonest`: what the synthesizer is about to say fits what the client will
  believe once the reader's event ahead of it in the line is heard
  (`CutThen`, `PosThen`, `QuietThen`). This is the part that orders two
  activities: an event of an old generation must not be in line behind the
  `response.cancelled` of that generation. `response.done` is excepted, the one
  weakness LiveSpeech allows.
- `FramesInLine`: the worker's queue continues at the next frame of the response
  that the client has open.
- `TextInOrder`: the items in the segmenter's hand and its queue are in order
  between the text that has been announced (`Reached`) and the text not yet cut.
  That begins at `pending.lo`, or, when words of a cue are left, one position
  later than what is pending does (`CutTo`), for the rest of the cue has the same
  source as what was cut from it.
- `InputInOrder`: what was accepted is what has been cut and what waits, and
  every commit stands where its text ends. The gauge (`GaugeInv`) is needed for it.

There is one lemma per event that can be heard, and one per group of actions that
say nothing.

**BatchJobsProofs.** `IInv` ties rows, tasks, the semaphore's line and the
requests together: a row that is unfinished while the server answers has a task
that is alive; a task in line is in the line once; a task exists only after
its row. `NoZombies` is a part of it. `VerdictsStand` is an action property
that follows step by step, because a task that writes is past the semaphore
and its row is then either unfinished or gone. `LeaveLineKeeps` is about the
removal of a waiter from the middle of the line.

**RealtimeSessionProofs.** `HoldHasDecider` is inductive as it stands: whoever
shuts the gate arms the timer in the same step, and whoever disarms the timer
without opening the gate is the receive loop on its way to the transcript.
`CancelledFallsSilent` needs `Silenced`: a reply that is marked has been told
to cancel or is already past its last cancellable await (`MarkedEnds`), the
only event that the task can then still be waiting to send is its end
(`EndIsLast`), and senders hold the lock as they should (`SayTyped`).

`OneChunkLeaks` counts what is past the gate when it shuts: a chunk that is
being sent (`DeltaSends`) is the only one, because the task returns to the gate
after each, and one that the gate let through just before it shut again is
still before its send (`OnePasses`). `RepliesInOrder` is an action property:
what the task waits to send is what follows the last event that was heard
(`SaysItsOwn`, `HeardSoFar`), in each place of its code and whether or not it
was cancelled before its first step (`CancelInTime`).

**ModelLifecycleProofs.** The invariant is the types together with
`InUseLoaded`, `OnePerWorker`, `PiperOnDisk` and `InFlight`, which is inductive.
`MemoryInv` is its part about memory, `ApiInv` that about the operations.
Memory changes only through `Load`, `FailLoad`, `Unload` and `FailUnload`, and
`LoadKeeps`, `FailLoadKeeps`, `UnloadKeeps` show that each keeps `Memory` while
nobody holds the provider's lock: what it removes is at the same provider, what
is in use is at another. `MemoryOK` of `LoadKeeps` needs `OnePerWorker` (a model
that is loaded has no mate to give up). `FinishFacts` shifts the line for
`InFlight`. Theorems `TypeCorrect`, `UsedModelsStay`, `WorkersHoldOne`,
`VoicesOnDisk`, `ProgressEnds`, from the assumptions that models are finitely
many and what is preloaded fits its workers.

`TakenGivenBack` needs more (`TakenInv`), for each place of an operation: only
operations load into a worker, one at a time, so what is loaded at a worker is
what the operation's listing found there, its own model, or what it has brought
back (`Listed`); and no two of the models to bring back share a worker
(`Apart`), so that bringing one back does not take out another. Models that a
listing was wrong about are excepted (`op.misread`): it missed a worker that did
not answer, or showed what a worker had loaded before. It assumes that
transcription models are local, as they are (`ProviderAssumption`).

**ProvidersProofs.** A step is of one side and leaves the variables of the
other, so `WorkerInv /\ RoutingInv` is kept by keeping each. `RoutingInv`: what
the gateway remembers of a worker was once its catalog and so has every model
that the worker always offers, or is empty and is not looked at
(`CatalogsHoldKept`, `ManifestsHoldKept`, `ReadersHoldKept`). `KeptStaysKnown`
follows. `WorkerInv` holds for each request: where it is in its handler
(`Begun`), that it has the lock while it has a thread, a producer or a body
(`HoldsLock`, from which `EngineAlone`), and `Streaming`: parts heard, in hand and
in the queue add up to the parts made, except for qwen3's displaced queue, of
which `EndsClean` counts the least that is then missing (`CleanEnd`). The sums
need what a queue holds: audio only, then at most one end or error
(`AllAudio`).

**TranscriptionProofs.** Three parts that share no variable. `SessionInv`:
what is received lies without a gap in the chunk, the window and what was
judged (`Pipeline`, `Places`), the utterances and the one in progress are in
order and behind what was judged (`InOrder`), and every unit judged speech is in
one of them, the one in progress included (`SpeechGathered`); `SpeechOnce`
follows. `ClientInv`: what the source has given is sent off or pending
(`NothingLost`), and a source that is spent has given all, or it raised, or it is
an asynchronous generator and the client has closed it by cancelling the wait for
its next chunk (`SourceSpent`); `NothingSkipped` follows. So a call that returns
without an error has sent what it took, which is not all there was of a
generator it closed (section 6). `HeardInv` is
`UploadRead`, about uploads, and `WindowsHeard`, about Wyoming. For the latter
the VAD's fold is unrolled into steps (`JudgesExists`, `JudgedSteps`; by
induction over the windows, `Induct`) and `Judging` says what is known after each
step: the open segment is one piece of speech with its silence at the end
(`Opened`), nothing before its edge belongs together with anything after
(`PartedAt`), and what of that counts has been kept (`KeptTo`). One lemma for
each thing that a window does (`SpeechOpens`, `SpeechGoesOn`, `PauseBegins`,
`PauseParts`, `NothingSaid`) leads to `SegmentsHoldSpeech`: the speech in the
segments is exactly the speech that is long enough, and they begin with speech and
end where a long silence does (`Bordered`). What the recognizer gets of the
segments is cut by `rate // 1000`, so a place is cut early, by more the later it
is (`WindowsCut`, `TimesKeeps`). Long speech is heard up to the cut of the end of
its segment (`PiecesHeard`), short speech is not heard before the cut of the
beginning of a later one (`PiecesUnheard`); at a rate of whole thousands that is
all of the one and none of the other.

**SpeechServiceProofs.** `Fine` states for each request what its queue, its hand
and its response can hold: while it flows (`Flows`), sent, in hand and in queue
add up to what the worker has put; once the end is in the queue (`EndsWell`)
they are all there is; after an error or a cancellation (`EndsBadly`) there is no
way back to a clean end. `CleanStreamEnd` alone is not inductive, as an end
may be in the queue long before it is read. `Keeps` says that whoever holds the
lock of a cache object is a request that writes a file; without it a stream
could be moved by the cache's actions.

What stays with TLC, and why:

- liveness (`DrainEnds`, `SlotFreed`, `CommitAnswered`, `Decided`, `ReplyEnds`,
  `RequestsAnswered`, `IdleGoes`, `LockReturns`, `AllAnswered`, `WorkersStop`,
  `WaitersServed`, `CacheTrimmed`, `ClientEnds`, `DeletedGone`, `WantedServed`)
  and the fairness of `AdmissionContract`: temporal reasoning with fairness and
  ENABLED is outside what the installed prover does. Every other property of
  a passing run, invariant or action property, is stated by a theorem.

## 5. Fairness

- Coroutines that are ready run (the event loop is fair): weak fairness of
  `ReaderNext`, `SegmenterNext`, `SynthesizerNext`, of `Loop`, `Response`.
- Sends end: either the socket drains or it breaks, in which case `_send`
  fails. Slow is allowed, forever is not.
- A synthesis ends. The backends are libraries; one that hung would
  hold the one executor thread of the Live Reader for good, and no
  property of liveness would hold. The same for a transcription.
- Timers that are armed expire: `JoinTimeout`, `TimerFires`, and `FlowTimeout`,
  whose limits differ. That of a pause counts from its beginning, so a client that
  stays paused is cut off whatever it sends. The one for missing acknowledgements
  restarts at every wake-up (server.py 842-861), so it need expire only if none
  comes (`~flowChanged /\ FlowTimeout`), and a client that sends
  `playback.resume` for ever holds it off: `CommitAnswered` is about the others.
- A socket that is closed holds finitely many messages, so the reader gets to
  the disconnection: strong fairness of `NoticeDisconnect`.
- The client owes nothing else: it need not acknowledge, resume, commit or leave.
- The threads of the API's operations and of the pass go on (`OpNext`,
  `PassNext`), the loop starts a pass every 30 seconds (`StartPass`), and a use
  of a model ends (`EndUse`). Users need not come, models need not age. A
  provider's lock is not contended for ever: a request is used once, so weak
  fairness is enough.
- Workers: the lock is handed to the first in line, what a thread of the model
  began ends, the response and the producer go on (`RequestStep`), the restart
  wakes and an exit that is scheduled happens. A gateway that stopped reading
  owes nothing: `LockReturns` says that the lock is then at its mercy
  (`AtReadersMercy`), for cosyvoice and chatterbox have no timeout on a reader.
- Gateway: threads run on and no call to a worker outlives its timeout
  (`RoutingFairness`); a worker need not come back.
- Speech: handlers, workers and sweeps go on. `WriteTemp` is strongly fair: the
  two cache objects may take turns removing what the other writes, but not
  for ever.
- Transcription: the client's tasks go on and the server of a connection that
  is up sends `session.end` after a stop; nothing is owed by a connection.
- Reader: the thread goes on (strongly fair, as it waits while a Live Reader
  session speaks, which may happen again and again) and so do handlers.
- The process may end at any time and is then started again (`Start`).

## 6. What the models showed about the code

One finding has a run of its own:

- `pcm_rate`: `TTSCache.make_key` (cache/tts_cache.py 37) calls every PCM entry
  `pcm_24000`. HTTP brings PCM to 24 kHz before it stores it; the Wyoming
  handler stores PCM at the model's own rate under the same key in the same
  directory (wyoming/tts_handler.py 33, 98-110). HTTP then serves it as 24 kHz,
  against README.md 292 of the repository.

Disagreements met while modelling that no run of this project shows:

- Batch: the pending test (services/batch.py 29-34) precedes the awaits of the
  uploads, the task is made after them (98-99); submissions that read their
  uploads at the same time exceed `OS_BATCH_MAX_PENDING`, against config.py 114
  and README.md 717.
- Live Reader: `input_text.done` is sent although a response of the text failed
  (server.py 692-700), against README.md 344-345.
- Models: `check_ttl` (model_manager.py 696-705) goes by one listing, and both
  the rest of the listing and each unload wait for providers at work; a model
  used in between is unloaded all the same, against .env.example 75.
- qwen3: a reader too slow to leave room for the end marker loses a full queue
  and gets a clean end of a stream that is cut short (app.py 893), where
  tests/test_qwen_worker_contract.py 62 expects "stopped reading".
- Streaming transcription: words confirmed as final can be replaced when two
  later hypotheses agree on another prefix (streaming.py 132-134), against the
  docstring at 104-105.

Behaviour worth knowing that the models contain as it is:

- Gateway: the router's lock is held while the backend is chosen and the voice
  checked, and both may ask a worker for its manifest; one that hangs holds up
  the requests of every provider for up to three seconds (router.py 260-271
  beside the comment at 273-275). `now` is read before the request
  (external.py 184, 274), so what is remembered of an error, for two seconds and
  for one, is too old to be used after a timeout. After a failed refresh the
  old manifests are used for another thirty seconds.
- Speech: a cancellation between the two looks at the cancel event in
  `_finish_stream` drops the end (services/tts.py 480-482); the pool thread that
  waits in `get` (709) for a request that is gone then waits for good. The eviction's `stat`
  of a file that another process removed kills the cleanup task, and at shutdown
  `await cleanup_task` re-raises (main.py 236-241), so what comes after is
  skipped. PCM of a clone is not brought to 24 kHz. A streamed request is in
  the history before it is synthesized.
- Streaming transcription: without a VAD the times of an utterance are wrong for
  packets of several chunks (315). Audio that stops in the middle of speech is
  not finalized until the flush.
- Client: with an asynchronous generator as source the rest of the audio is
  dropped after a reconnection, without an error (client/__init__.py 214-224;
  `NothingSkipped` excepts it);
  a source that raises leaves the call waiting (200). A connection that is lost
  after everything was sent ends the call without an error, and lines 225-226
  are not reached.
- Wyoming: an exception of the noise reduction and ffmpeg's timeout are not
  handled (stt_handler.py 139). The VAD's times become samples by `rate // 1000`
  (93): at 44,100, 22,050 or 11,025 Hz every cut is early, and a recording that
  ends in speech loses its tail (about 136 ms after a minute at 44,100 Hz, a
  place cut 0.23 percent early). ffmpeg blocks the event loop for up to 30 seconds
  (services/stt.py 82).
- Reader: an outline read before a document is deleted is put into the cache
  after it (renderer.py 199-205), so the deleted document is answered with 200
  and parts in error. `plan` forgets a part whose file is missing (120-122); one
  rendered again in between keeps its file without a row until the next sweep.
  A part just told to be ready may be pruned; it is rendered again when asked for.
  A request that comes while the server stops and the thread still renders is not
  served. A file that cannot be deleted stays, and nobody is told: `_remove`
  (renderer.py 386-391) and the clean-up of a deletion (routes/reader.py 128-131)
  pass over the error, and a sweep that meets one leaves the rest (264-267). Audio
  of a deleted document can so be in the folder until the next start.
- Live Reader: `response.done` can follow the `response.cancelled` of its
  generation, as the generation is tested (810) before the await of the event
  in front (812). A failed response's `error` (765) is sent without a test of the
  generation. `session.update` is refused as busy for a moment after a
  cancellation (444-449).
- Live Reader: a pronunciation replacement that is no valid template raises
  outside the response's `try` (720, dictionary.py 36); the synthesis task dies
  unnoticed, `shutdown` re-raises it (398), and the token is never released
  (976-986). `SlotFreed`, `DrainEnds` and `CommitAnswered` name it as their
  exception.
- Live Reader: a `playback.resume` that resumes nothing still wakes the
  synthesizer and restarts its wait for acknowledgements (614-617, 842-861), so a
  client that repeats it is never cut off as stalled.
- Realtime: a reply cancelled before its task's first step runs none of its
  handlers, so the barge-in, the shut gate and the armed timer survive into the
  next reply, which the timer then ends. A cancellation while the task waits to
  send `response.created` leads to `response.done` without it. A manual commit
  resolves a barge-in, and the rest of the same speech starts no new one.
- Realtime: the chunk whose task has passed the gate is still heard
  (`HeldAudioStays` allows one).
- Batch: a cancelled job gives up its semaphore slot while its file is still
  being transcribed in the executor.
- Models: a listing passes over a worker that does not answer (tts/router.py
  235-243) and may be up to a second old (external.py 274-290). A model that is
  missed so is not brought back when the load that took its place fails
  (model_manager.py 293-318), without a word in the answer.
- Models: a request that finds its local model gone loads it again, also beside
  others of its type: only a load through the API unloads those first
  (model_manager.py 212). A progress entry `ready` or `downloaded` stays when
  the model is unloaded or deleted. A local backend notes the time of a use when
  it begins, so a use longer than `OS_MODEL_TTL` leaves an idle model.

## 7. Not modelled

Whole components: see the notes in `PROJECT.json`. Audio processing and
effects are numerical; the pronunciation dictionary, the studio's records and
the middleware change state in one statement or one step of the event loop
each; the JavaScript client, the web interface, scripts and examples are users
of the protocols that the models leave free.

Within the modelled components: encodings and formats of audio, wording of
errors and of status events, validation of single fields, the connection limit
of Realtime, the thread that continues a cancelled transcription, the
synchronous twin of the client's streaming call, reading positions, signed
media links and parts of an older render version in the reader, prompts kept of
reference audio in qwen3, parsing of the workers' URLs. In streaming
transcription neither an exception of the VAD nor resampling and the trimming of
odd bytes (streaming.py 261-266, 282-283); of Wyoming's audio not the last window
that is not full and what is shorter than a millisecond; in the reader no error of
SQLite, which would end the worker's thread. A worker's answer of a second ago is
shown to the operation that changed the worker since, not to the next one.
Acoustic decisions (when
speech starts, what was said, whether a transcript is a mere acknowledgement)
are nondeterministic choices.

## 8. Plan

In order of what is at stake:

1. *Done*: LiveAdmission, LiveSpeech, LiveReader; BatchJobs; RealtimeSession;
   ModelLifecycle; ProviderWorker, ProviderRouting; SpeechService;
   StreamingTranscript, StreamClient, Recognition; ReaderRenderer.
2. Proofs. *Done*: the safety properties of section 4, which are all those of
   the passing runs. Left: the properties of the models that no run asks for
   yet (what a deletion leaves in the outline cache, the limit on pending
   batch jobs).
3. Larger instances, where a proof is out of reach: two documents in the
   reader, two workers at the gateway.
