# gmrender-resurrect in TLA+

gmrender-resurrect is a UPnP media renderer: control points on the network set
the URI of a stream, play, pause and stop it, and are told by events what the
renderer does. The modules here specify the program: the events (`LastChange`),
subscriptions, action requests and their answers, the three services
(AVTransport, RenderingControl, ConnectionManager), the GStreamer output with
its threads, what is shown of the track, the web server of descriptions, and
the program's way from `main` to its exit. TLC checks them on small instances, TLAPS proves
the main results for every instance. All paths below are relative to `src/src/`
unless they say otherwise.

## 1. The program: inventory

| Component | State it keeps | Operations | Talks to |
|---|---|---|---|
| Variable container (`variable-container.c`) | an array of values, a list of listeners | get, change (listeners are called when the value differs), register | called by the services and by the collector |
| LastChange builder and collector (`variable-container.c`) | the document being built, `open_transactions`, set of ignored variables | create, ignore, start, finish, notify; listener on the container | `upnp_device_notify`, and writes the variable `LastChange` |
| UPnP device (`upnp_device.c`) | the libupnp handle, `device_mutex` | action dispatch, subscription, query of one variable, start, shutdown, response helpers | libupnp's worker threads call it; it calls the handlers of the services and the collector |
| AVTransport (`upnp_transport.c`) | state variables, `transport_state_`, `transport_mutex` | SetAVTransportURI, SetNextAVTransportURI, Play, Pause, Stop, Seek, the Get actions; report of the output; metadata of the stream | calls the output while it holds the mutex; the output calls back |
| Track time thread (`upnp_transport.c:674`) | last duration and position it wrote | every 500 ms asks the output and writes two variables | AVTransport's mutex, the output |
| RenderingControl (`upnp_control.c`) | volume, decibels, mute, presets, `control_mutex` | get and set of each | output volume and mute |
| ConnectionManager (`upnp_connmgr.c`) | the list of mime types, filtered once | three Get actions | output registers mime types |
| Output abstraction (`output.c`) | the chosen module | dispatch | AVTransport, RenderingControl |
| GStreamer output (`output_gstreamer.c`) | `gsuri_`, `gs_next_uri_`, `play_trans_callback_`, the playbin, `song_meta_` | play, stop, pause, seek, URIs, volume, position; bus callback; about-to-finish callback | playbin; reports to AVTransport |
| Web server (`webserver.c`) | table of virtual files, open files | get_info, open, read, seek, close | libupnp |
| Song metadata (`song-meta-data.c`) | nothing of its own (`song_meta_` is the output's) | clear, write over a DIDL document | called on the main loop |
| Main program (`main.c`, `upnp_renderer.c`) | options, the main loop | start in order, loop, signal, shutdown | everything |
| Descriptors, XML, logging | constants, or nothing | text | |

**Threads.** libupnp runs each request on a worker thread. The track time thread
runs for ever. The GLib main loop (`output_loop`) runs `my_bus_callback`. The
streaming thread of the playbin runs `prepare_next_stream`. One mutex per service
protects its variables; `device_mutex` serialises subscriptions; the two URIs of the
output are protected by nothing.

**What is hard.** Transactions of several threads nest on one counter, and the event
goes out at the outermost finish. A subscription's snapshot is taken under one lock
and used under another. Requests are served before the collectors exist. The output
changes streams on threads that get `transport_mutex` only later, so what is shown
trails what is played, with requests in between; messages on the bus are older than
what was done since. Handlers wait for the playbin with `transport_mutex` held. The
full list, with lines and the properties that watch each item, is under `hazards` in
`PROJECT.json`.

**What makes each part correct.**
- Collector: no change is lost; no event before the outermost finish; starts and
  finishes balance on every path; every change is told in the end.
- Subscription: snapshot and events together give the new control point what others know.
- Start: no transaction is left open however the collector's publication falls.
- AVTransport: the derived variables (current track, number of tracks) agree with URI and
  state. The list of actions on offer mostly does; where it does not is in 6.
- Output: what AVTransport shows is what is queued, running and heard; a finished
  track moves on.
- Requests: a control point gets the answer that the description promises, or the error.
- Track time and metadata: what is shown belongs to the track that is shown.
- RenderingControl: level, decibels, mute and the output tell one story, through all roundings.
- Program: whatever is described is served; every step may fail and nothing is left behind;
  a signal ends it, as far as requests end. Web server: reads stay inside the file.

## 2. Modules

| Module | Models | Kind |
|---|---|---|
| `Announcer` | what the collector promises, with no machinery | abstract specification |
| `LastChange` | container, builder, collector, service locks and action dispatch | component |
| `Subscription` | `LastChange` composed with the subscription handler and delivery of events | composition |
| `Startup` | creation of the collector while requests already come | component, and the abstract specification of `Lifecycle` as far as the service goes |
| `WebServer` | virtual files: registration, open, read, seek, close | component |
| `ConnectionManager` | media types, `--mime-filter`, action tables | operators |
| `Lifecycle` | `main` from the output's start to its return, composed with `Startup`, `WebServer` and `ConnectionManager` | composition |
| `AVTransport` | all handlers that change URI, state and track variables, over *any* output | component, and the abstract specification of the renderer |
| `GstRenderer` | AVTransport with the GStreamer output and its threads | composition |
| `RenderingControl` | volume, decibels, mute, and the volume of the output | component |
| `ActionRequest` | one request inside `upnp_device.c`: status, error, answer | operators |
| `TransportActions`, `ControlActions` | what two services describe and what their handlers answer | tables |
| `ServiceRequests` | a request to any action of the three services while others go on; uses the four above, `AVTransport` and `ConnectionManager` | composition |
| `TrackTime` | the track time thread, Play, Pause, Stop, Seek and the clock of the stream | component |
| `StreamMeta` | tags of the stream, song metadata, DIDL, over `AVTransport` | composition |
| `TrackInfo` | `TrackTime` and `StreamMeta` side by side | composition |
| `MC...` | values of the constants for TLC | instances |
| `...Proofs` | theorems and their proofs | TLAPS |

Definitions marked `Faulty:` in the modules are not part of any specification. Each is
an existing definition with a plausible bug, and stands before the one it varies; with
it, the property named in `PROJECT.json` under `mutants` is violated. They show that the
property can fail.

### LastChange
`values` is the variable container, `doc` the builder's document as a sequence of
entries (`<<>>`: no document), `lastChange` the variable of that name,
`openTransactions` the counter, `mutex` the service mutex, `inAction` the requests
between the two critical sections of `handle_action_request`. `view` is a history: what
a control point knows that applied every event.

The two critical sections of `handle_action_request` (start; finish and notify) are one
step each, `BeginAction` and `EndAction`. Inside a handler or a background thread
`ServiceLock`, any number of `Change` and `ServiceUnlock` are steps of their own. A
`Change` runs the listener too, so it is the whole of `VariableContainer_change`
down to the event. What handlers write is left open: any variable, any value.
XML is abstracted to the list of entries: two documents are equal exactly when the lists are.

### Subscription
Adds per control point `phase` and `known`, and `device_mutex`. Every step of `LastChange`
delivers its event to the *active* subscriptions in the same step (`ServiceStep`):
`UpnpNotify` is called with the service mutex held, and libupnp gives events only to
subscriptions that were accepted. `quiet` and `missed` are histories that the properties use.

### Startup
The main thread runs `UPnPLastChangeCollector_new` variable by variable and then
publishes `service->last_change`; requests run in between and test the pointer for
themselves in `handle_action_request` (twice), `service_lock` and `service_unlock`.
It starts when `upnp_device_init` (`main.c:307`) has returned. The document is one entry per
variable here, as its order does not matter.

### AVTransport
One record `sv` of state variables. Each handler holds `transport_mutex` throughout, so it
is one step, written as a function on records (`AfterPlay`, ...) that `GstRenderer` uses
again. In `AVTransport` a command to the output may succeed or fail (failure leaves `sv`
alone) and reports come at any time.

### GstRenderer
`player` is the playbin as far as the output can tell: its state, the state asked for, the
property `uri`, the stream inside and what was signalled about it. `bus` is the queue of messages.

`gsuri_` and `gs_next_uri_` have no lock of their own, so every access of a thread to them or to the
pipeline is a step, and the steps interleave. `handler` is the action whose handler holds
`transport_mutex`, `handlerPc` what it does next; `streamPc` and `loopPc` are the same for the streaming
thread and the main loop.
- SetAVTransportURI is `HandleSetURI` (up to the write of `gsuri_`), `CheckPlaying`, and when the pipeline
  plays the steps of `output_gstreamer_play`: `PlayReadsState`, `PlayToReady`, `PlayLoads`, `PlayStarts`.
  Play is `HandlePlay` and the same four. Stop is `HandleStop` and `StopFinishes`. Pause and
  SetNextAVTransportURI have one access each and are one step.
- `prepare_next_stream` is `AboutToFinish` (the swap), `PassNextStream` (it reads `gsuri_` again) and
  `StreamReports` (the callback, once it has the mutex).
- `my_bus_callback` at end-of-stream is `OnEosNext`, `LoopSwaps`, `LoopToReady`, `LoopLoads`,
  `LoopStarts` and `LoopReports`, or `OnEosStopped` and `LoopReports`.

Only the two assignments of a swap are one step together (see 7). A change to READY has to wait
while the streaming thread is in its callback; a handler that waits there holds the mutex.
`crossed` is a history: a swap came between another thread's write of `gsuri_` and the read that follows.

`usage` says how the renderer is used and never changes: in which states URIs are set, which
streams are sent, whether tracks are queued, whether metadata is left out, empty URIs are sent, Pause is used and buffering
is on. Properties that need a condition name it there, and one run checks all uses at once.

External facts about the playbin that are assumed (GStreamer is not part of the repository):
a change to READY drops the stream and waits for the streaming thread; it does not flush
messages that are already on the bus; a change to PLAYING without a URI fails; end-of-stream
leaves the state PLAYING, and is posted again when the pipeline is paused and resumed.

### RenderingControl and ServiceRequests
`RenderingControl` counts decibels in 1/2560 dB, so that the levels (0.8 and 0.4 dB apart) and the unit
of `VolumeDB` (1/256 dB) are integers. Floats are modelled by what they can do: a value that is no
multiple of 1/256 dB may come out just below its level and is then truncated to the one before
(`LevelsOf` has both). `ReadOutputVolume`, `WriteFirstLevel` and `WriteFirstDecibel` are
`upnp_control_init`, which holds no mutex.

`ServiceRequests` follows one request of one service: `MissingArgument` and `UnknownAction` are the
early returns, `BeginAnswer`, `AppendVariable` and `EndAnswer` a Get action (the mutex is taken once per
variable), `Request...` the handlers that change something, `QueryVariable` is `handle_var_request`.
`Others` are the other requests and reports, which go on all the time. The tables keep apart what the
`arguments_...` arrays describe (the SCPD is made of them) and what the handlers answer.

### TrackTime, StreamMeta, TrackInfo
`Tick` is one round of `thread_update_track_time`: `cached` are its two local variables, `known` is
`last_known_time_`, `PositionAnswers` what `output_gstreamer_get_position` may answer. The clock counts
seconds; below a second nothing is shown. `fresh`, `seen` and `moved` record what the thread can have
seen. Handlers are one step in both modules: how they meet the other threads over `gsuri_` is the
subject of `GstRenderer`. In `StreamMeta`, `OnTags` is `my_bus_callback` up to the point where `update_meta_from_stream`
waits for `transport_mutex` with its document ready (`writing`), `WriteMeta` the rest. A document is the
set of its elements with, for each, whose text it holds. The two share no variable but what
`AVTransport` shows of itself, so a behaviour of `TrackInfo` follows one of them (`followed`).

### WebServer and Lifecycle
`Lifecycle` follows `main` (variable `main`): `output_init`, the check of the port, `upnp_renderer_init`
with the media types, the files, the six calls of `initialize_device` (`SetUp`, each may fail, the first
is repeated), the collector (`Startup`'s steps), the signal handlers, the loop and `UpnpFinish`. Requests
(`Startup`) and files (`WebServer`) are served from the call that offers them on. One service is started
instead of two: the second does the same on variables of its own. A signal before the handlers are
installed and `--dump-devicedesc` stop the process on the spot; nothing follows, so they have no step.
The signal handler calls `g_main_loop_quit`, which takes the lock of the loop's context; the comment at
`output.c:115` says that this is not safe to do. `ExitLoopSighandler` therefore either quits the loop or
leaves the main thread waiting for a lock that it holds itself (`hung`). One signal is considered.

A media type is a sequence of pieces of text, cut so that one string begins with another, character
by character, exactly when its pieces do: `SameRoot` compares like `strncmp` up to the shorter of the two.

## 3. Runs

`CHECK_DEADLOCK FALSE` is set in `MCStartup*` (the program ends) and in
every `MCGstRenderer*` but `MCGstRendererAfterEnd` (a handler that waits for READY may wait for good).

| Run | Bounds | Shows |
|---|---|---|
| `last_change` | 2 evented variables and 1 ignored, 2 values, 2 requests at a time and 3 in all, 1 background thread, documents of up to 4 entries | `TransactionsBalanced`, `PendingOrKnown`, `RepeatIsHarmless`, `AtRestInSync`, refinement of `Announcer`, and `EventuallyTold` |
| `subscription` | 2 control points, 2 variables, 1 request and 1 background thread, documents of 2 entries | `QuietSubscriberKnowsAll`, `EverySubscriptionAnswered` |
| `subscription_gap` | 1 control point, 1 variable | `SubscriberKnowsAll` fails, see 6 |
| `startup` | 2 variables, 2 requests, any number of changes; 2 retries of 60; an icon that may be missing or empty, a description of 2 bytes, buffers of 1 and 3 bytes; no filter, one with a root that ends inside a word, one that leaves nothing | `NeverSilenced`, `LateRequestsAreSafe`, `DescribedIsServed`, `ReturnsFinished`, `ReadsGiveTheFile`, `SignalEnds`, `StartCompletes` |
| `startup_assert` | the same | `FinishAssertion` fails |
| `av_transport_pairs` | 2 streams, each with its metadata or none, the empty URI | `UriComesWithItsMeta` fails |
| `renderer` | 2 streams, bus of 2 messages, five uses; those that queue or buffer send 1 stream | refinement of `AVTransport`, `NextIsQueued`, `PlayingMeansRunning`, `PausedIsSilent`, `NamedTrackIsHeard`, `FinishedTrackStops` |
| `renderer_race` | 2 streams, URIs set and Pause used in any state | `PlaybinGetsTheURI` fails |
| `renderer_stuck` | controllers that queue | `FinishedTrackEnds` fails |
| `renderer_after_end` | controllers that set a URI while STOPPED, play and stop | `CurrentSetWhenItPlays` fails |
| `service_requests` | all 37 actions with all arguments or one missing; 1 stream and the empty URI; 8 levels, 9 decibels and 4 first volumes around every place where the conversion changes | `AnswersAsDescribed`, `ErrorsAreReported`, `VolumeDBNamesVolume`, `HeardIsShown`; over any output, `PlayingShowsTransportURI` |
| `track_info` | 4 positions, 2 durations, 2 Seek targets, queries that may fail or not; 2 streams and the empty URI, one document with elements and one without, 2 kinds of tag messages, 1 message on the bus | `OldTimeStaysHidden`, `ThreadRests`, `ShownTimeFollows`, `StreamFieldsAreOwn`, `TitleIsShown`, `PlayingShowsTransportURI` |

Why the bounds are enough. Two values make a change, a change back and a repeated
document; two requests and a thread make every overlap of transactions, and the counter reaches 3.
Four entries let a variable occur twice in a document and two documents be equal. One
request in `subscription` is enough for events between any two steps of a subscription,
because the background thread changes variables without bound; two control points compete for
`device_mutex`. Two streams tell the shown from the heard; a third would only rename one. In `renderer` the uses that queue
tracks send a single stream: what is asked of them is whether a next track is there and what the pipeline was
told, not which stream it is; all safety properties are theorems for any streams. Two
messages on the bus are a stale one and a fresh one. The AVTransport module has no bound at all
apart from its constants. In `startup` two retries are a failure after a failure, and the read buffers
are shorter and longer than a file. The levels and decibels of `service_requests` are the ends of the
scale, the middle where the slope changes, one exact and one inexact float, and values on either side of
each; `LevelThereAndBack` proves the conversion for all levels. The positions of `track_info`
are on both sides of a minute and an hour; one tag message on the bus and one being written are two
of different age. The theorems lift these bounds for the properties they cover.

**Fairness.** `LastChange`: a thread in a critical section leaves it (weak), and a request
that has come back from its handler gets the mutex (strong): the mutex is free again and again,
since the background threads sleep 500 ms between their sections. Strong fairness is what a POSIX
mutex gives in practice and not what POSIX promises. Nobody is obliged to begin a request or
to change a variable. `Subscription`: the same for the two mutexes of the handler,
and libupnp answers `UpnpAcceptSubscription`. `GstRenderer`: a
handler goes on, the playbin prerolls, plays on and its streaming thread goes on, the main loop goes on
(`g_main_loop_run` in `output_loop`; all weak). End-of-stream is strongly fair because Pause interrupts it, and
so are the two reports, which wait for a mutex that is free again and again unless a handler is stuck. No
request is fair. `Lifecycle`: only the main thread goes on (weak). Nothing is assumed of requests or of the
reading of files, because `renderer_stuck` shows a request that never ends; `UpnpFinish` waits for them, so
`SignalEnds` names their end (`RequestsEnd`) as a premise. `StartCompletes` needs no such premise.
`StreamMeta`: the main loop takes messages and its thread gets
`transport_mutex` (weak; handlers hold it for one step here).

## 4. Proofs

All theorems hold for any sets of variables, values, requests, threads, control points, streams and
uses; the assumptions are the named `ASSUME`s on the constants.

- `LastChangeProofs`. The inductive invariant `Inv` adds to the properties that a variable
  with an entry in the document has a last one (`DocComplete`), and that nothing is pending with no
  transaction open (`PendingOnlyWhileOpen`). `AppendEntry` and `ReceivedValues` are the facts about
  documents: an appended entry counts and disturbs no other variable; applying a document gives
  the last values. The test that drops equal documents needs `RepeatIsHarmless`: what the last
  document said is still known, since all later documents were applied too. Results:
  `TypeCorrect`, `Balance`, `NothingLost`, `RepeatsHarmless`, `RestInSync`, and `Refinement`
  (`Announcer` is implemented: each step of the collector is a step of its own there or none).
- `SubscriptionProofs`. `Follows`: a control point with a quiet snapshot that missed nothing knows
  what `view` knows. With `Inv` that gives `QuietSubscriber`. `SubscriptionsDisturbNothing`: the collector
  keeps its promises, and implements `Announcer`, while control points come and go.
- `AVTransportProofs`. `TracksCounted` makes the invariant inductive: Play copies the URI but counts
  the tracks anew. Results: `TransportTypes`, `SameTrackShown`.
- `GstRendererProofs`. `RendererImplementsTransport`: every step is a step of `AVTransport` or leaves
  its variables alone, so the two results above hold of the renderer (`RendererShowsSameTrack`). The step
  of Play or Stop that writes the variables comes long after the one that looked at the state;
  `HeldState` says that the state is still the same, as all that change it need the mutex.
  `RendererInv` adds `CallbackInstalled` (the playbin has a URI, and messages, only after a Play has
  set the callback, so no switch goes unreported) and `NextTracked` (a next URI that is shown is
  queued, or a switch that clears it is under way). They give `RendererTypes` and `ShownNextIsQueued`.
  `PlayingIsRunning` needs `NoBufferMessages` besides (without buffering only end-of-stream waits on the
  bus, so the main loop never pauses the playbin), and what holds in the middle of a start: a thread that
  is about to read `gsuri_` finds a URI (`UriIsThere`), then there is something to start, or the other
  thread is about to load it (`StartsWithUri`), and outside of starts the playbin was told to play
  (`ToldToPlay`), each as long as no swap has crossed a start.
  `PausedMeansSilent` adds `Unqueued` (in a use without queued tracks nothing is ever in `gs_next_uri_` and
  the main loop never restarts the pipeline) and `PausedStays`: a Play that fails in PAUSED_PLAYBACK may
  leave the pipeline in READY, so what is kept is not that it is paused, but that it neither plays nor is
  about to. `HeardIsNamed` rests on `SimpleInv`: in its use nothing ever pauses the pipeline; `gsuri_` is the
  transport's URI or was taken (`UrisAgree`); the streaming thread finds a URI after its own swap only when
  a handler has just written one, and that handler drops the stream (`SetWhileSwapped`); a start begins
  from READY with what was loaded (`StartsFresh`); and while PLAYING the playbin was given the track that is
  named (`NamedIsLoaded`).
- `ServiceRequestsProofs`. `LevelThereAndBack` is the arithmetic: a level between 0 and 100 is found
  again from its decibels and from what `VolumeDB` shows of them. The invariant `ControlInv` adds
  `Progress`, how far `upnp_control_init` has come with the volume it read. Results:
  `ControlTypeCorrect`, `VolumesAgree`, `VolumeIsHeard`. `RequestsDriveServices`: every step of a request
  is a step of `AVTransport` and of `RenderingControl` or leaves them alone, so these results and those of
  `AVTransportProofs` hold for requests (`RequestsKeepServicesRight`). `RequestInv` says how an answer grows (`AnswerGrows`): what is
  left to append is the rest of the handler's table, what is appended has the names of its beginning,
  with the values of the variables as long as nothing has changed; this needs that no table has a name
  twice (`Distinct`: `upnp_add_response` would overwrite). When the table is at its end it is compared with
  the description (`TablesAgree`, for each action of each service but the divergent ones). Results:
  `AnswersAreDescribed`, `ErrorsReachControlPoints`.
- `StartupProofs`. `StartupInv` has three parts: types; `Counted` (no more transactions are open than
  finishes are still to come, and none before the collector is published); `Orderly` (without an early
  request: both numbers are equal, and what is told or pending of each variable is its value).
  Results: `StartNeverSilences`, `OnlyEarlyRequestsHarm`.
- `LifecycleProofs`. `ImplementsStartup`: every step of the program is a step of `Startup` or none, so
  `ProgramNeverSilences`. `LifeInv` says at which place of `main` which set-up calls have succeeded and
  which files are registered, and that requests and open files exist only while libupnp serves them.
  `FileInv` says that what was read since the last seek ends at the position; a read appends what
  follows (`ReadOn`), a seek starts again. Results: `DescriptionsAreServed` (service descriptions,
  callbacks, directory, and a list of media types that no filter can empty), `NothingIsLeftRunning`,
  `ReadsStayInside`.
- `TrackInfoProofs`. `TimeThereAndBack`: a printed time parses to the same second. `TimeInv` relates
  the thread's cache, the output's last known time and the display: the cache is what is known, what
  the thread has seen is in the cache, what is cached is shown unless Play or Seek wrote since, and a
  fresh Play shows zero. Results: `TimeTypeCorrect`, `OldTimeIsHidden`, `ThreadIsQuiet`,
  `PositionIsShown`, the last two from the invariant and one step.
  `TextsAreOfTheStream` follows a text all the way it takes: after a URI that was set at rest, and before a
  queued track, the stream in
  the pipeline is the transport's (`StreamIsOwn`), so are the tags on the bus, of which the end of
  the stream is the last (`MessagesAreOwn`), and so are `song_meta_`, the document that waits for the mutex
  and the one on display (`TextsAreOwn`). Each of the three is needed for the next. `SameTrackWithItsTexts`:
  writing the document keeps what `AVTransport` shows. `InfoIsTimeAndMetadata` lets all of this be
  used of both together.

Assumptions on constants that the proofs use and TLC evaluates: the streams and documents that controllers
send are not the values for "none" (`TransportAssumption`, `MetaAssumption`); numbers are integers
(`ControlAssumption`, `TimeAssumption`); a filter is a sequence of tokens, each a sign and a text
(`LifecycleAssumption`); a document of a controller has elements that it has sent or left empty
(`MetaAssumption`). No assumption restricts what a handler does.

Only model-checked: `EventuallyTold`, `EverySubscriptionAnswered`, `FinishedTrackStops`, `SignalEnds`,
`StartCompletes`, `TitleIsShown`. They are liveness properties, which are outside the prover's reach.
Every invariant and every action property of a passing run is a theorem.

## 5. Conditions in the properties

Some properties hold only under a condition. What happens without it, each seen in a behaviour
of the model:
- `QuietSubscriberKnowsAll`: a snapshot taken between two changes of one transaction stays behind
  when the transaction ends in the document sent last, because that is not sent again.
- `LateRequestsAreSafe`: a change between the collecting loop and the registration of the listener
  (`variable-container.c:291`) is in no document.
- `PlayingMeansRunning`: a swap that takes `gsuri_` between a handler's write and its read
  (`output_gstreamer.c:201` and `154`), or between the main loop's (`286` and `289`), starts the playbin
  without a URI and nobody looks, so the transport stays in PLAYING over a pipeline in READY (`crossed`;
  `renderer_race`). An empty URI set while PLAYING does the same (`output_gstreamer.c:206` ignores the
  failure). With buffering on, a message of less than 100 percent pauses the playbin
  (`output_gstreamer.c:347`).
- `PausedIsSilent`: a buffering message of 100 percent starts a paused stream
  (`output_gstreamer.c:347`); an end-of-stream that was on the bus at the Pause starts the next track.
- `NamedTrackIsHeard`: a URI set while PAUSED is shown after Play while the old stream is resumed
  (`output_gstreamer.c:148`); one set while PLAYING before the playbin has prerolled is shown but
  never given to it; an end-of-stream of a stopped stream stops the transport while the next stream
  plays on; a next URI set between the swap and its report is named instead of the one that plays.
- `VolumeDBNamesVolume`, `HeardIsShown`: a SetVolume between the steps of `upnp_control_init`
  (`upnp_control.c:787`) leaves level, decibels and output apart until the next one.
- `AnswersAsDescribed`: a change between two variables of one answer (`upnp_transport.c:448`) gives an
  answer of two moments. `Divergent` and `OtherValue` name the answers listed in 6.
- `OldTimeStaysHidden`, `ShownTimeFollows`: when a query of the pipeline fails (radio streams), the thread
  writes the time later, possibly after Play has reset it. A stream that is changed within half a second
  of a Seek keeps the target on display while its position is the cached one.
- `ThreadRests`: the thread's first round of all writes zero over the target of a Seek.
- `StreamFieldsAreOwn`: fields of the last track stay when a queued track begins (`song_meta_` is kept,
  `output_gstreamer.c:479`), when tags were on the bus or being written at SetAVTransportURI
  (`upnp_transport.c:542`), or when the old stream is only paused; the composer stays always
  (`song-meta-data.c:47` frees the other four only).
- `SignalEnds`: a signal between `signal()` and `g_main_loop_run` (`output.c:125`) is forgotten; one that
  interrupts the main thread inside a lock of the loop may hang it (`output.c:115`); a request that never
  ends (`renderer_stuck`) keeps `UpnpFinish` waiting.
- `FinishedTrackStops`: not when a handler and the streaming thread wait for each other
  (`renderer_stuck`), and not with buffering on, where messages about the buffer may pause the stream
  for good.
- `ErrorsAreReported`: SetAVTransportURI, Stop and Seek answer success when the output has failed
  (`Swallowing`).
- `DescribedIsServed`: an icon that cannot be read is described and not served
  (`upnp_device.c:512` ignores the result). A filter that leaves no type announces the default `audio/mpeg`
  (`upnp_connmgr.c:334`), so the list is not empty, but is not what the filter asks for either.

Assumed of requests: SetMute, SetVolume, SetVolumeDB, the metadata of SetAVTransportURI and `Unit` and
`Target` of Seek come with the argument. The handlers use these without a test for NULL, so what
happens without them is undefined. `update_meta_from_stream` also follows a pointer into the variable
container without the lock; the model reads the text in one step.

## 6. Where code and text disagree

- NEWS:26 "Subscription of a new client syncs all available variables": an event between
  snapshot and acceptance is lost (`subscription_gap`, `upnp_device.c:212`).
- `variable-container.c:307` `assert(object->open_transactions >= 1)`: fails for a request that
  began before `last_change` was published (`startup_assert`).
- `upnp_transport.c:473` "Transport uri always comes in uri/meta pairs": SetNextAVTransportURI
  without metadata sets the URI and then fails (`av_transport_pairs`).
- NEWS:35 "When we're finished with the current track, we go back to STOPPED": a Stop or Play that
  falls between the swap and its report waits for the streaming thread, which waits for
  `transport_mutex` (`renderer_stuck`).
- `upnp_transport.c:565` "current URI/Meta when it starts playing": after end-of-stream the playbin is
  still in PLAYING, so the next SetAVTransportURI starts to play while STOPPED (`renderer_after_end`).
- `output_gstreamer.c:205` "If already playing, update the playbin's URI": `prepare_next_stream` may take
  `gsuri_` away after `output_gstreamer_set_uri` has written it and before `output_gstreamer_play` reads it;
  the playbin is left without the URI (`renderer_race`, `output_gstreamer.c:485`).

Further differences the modules carry as they are, without a run of their own:
- GetVolumeDB is described with the argument `CurrentVolume` and answers `CurrentVolumeDB`
  (`upnp_control.c:646`); GetMediaInfo's `PlayMedium` is described as `PlaybackStorageMedium` and answers
  `PossibleRecordStorageMedia` (`upnp_transport.c:457`); GetDeviceCapabilities and GetTransportSettings
  answer nothing.
- GetCurrentConnectionIDs answers and returns -1 (`upnp_connmgr.c:363`), which by itself is no error.
- SetVolumeDB takes its number as decibels while the described range is in 1/256 dB, and leaves
  Mute alone (`upnp_control.c:609`); SetVolume stores a number outside 0..100 as it came.
- Seek answers success although the output failed (`upnp_transport.c:881`), Stop does not look at the
  output's answer, and SetAVTransportURI not at that of a pipeline that is to start again.
- The list of actions on offer is made anew only when the state changes. Stopped, it is to be `PLAY,SEEK`
  with a URI and `PLAY` without (`upnp_transport.c:512-516`), but a URI that is set while STOPPED leaves the
  list as it was.
- `output.c:115` itself says that the signal handler's call is not safe.

## 7. Not modelled, and why

- Logging, XML escaping, the XML wrapper and the names of libupnp's versions are text without state; so is
  the XML of the descriptions, of which only the promised arguments matter here.
- Command-line options, daemon mode and the dump options come before anything is started.
- Errors on the bus: the code logs them and does nothing, see the hazards.
- The two assignments of the unlocked swap of `gsuri_` and `gs_next_uri_` are one step, and so are `free` and
  assignment in the handlers: a race inside them frees memory twice or uses it after, and nothing can be
  said of the program after that. Everything between them is interleaved.
- The text of DIDL documents: `replace_range` looks for tags as strings; the model has elements.
- `SongMetaData_parse_DIDL` is called by nothing.

What could follow: `GstRenderer` composed with
`TrackTime` and `StreamMeta` on one pipeline instead of one each; both services in `Lifecycle`.

Order so far: events first, since every other part is observed through them; then AVTransport,
which is what controllers use; then the output, where the threads meet; then what is shown of track and
volume; last the requests as a whole and the program around them.
