# A verification project for the Gujarat CCTV platform ("Sentinel", "Drishti AI")

TLA+ modules that model the concurrent and failure-prone core of the platform,
TLC configurations that check them on small instances, and TLAPS proofs of the
theorems that hold for every instance. Paths below are relative to `src/`; `BA`
stands for `backend/app`.

    tlasany M.tla                          parse a module
    tlc -workers 2 -config X.cfg MCM.tla   check an instance
    tlapm MProofs.tla                      check the proofs

## 1. The system

One **API process** (`BA/main.py`, FastAPI) serves dashboards. Its endpoints are
plain `def` functions, so each request runs in a worker thread of a pool; only the
start-up, the HLS proxy, the broadcast and the WebSocket handler run on the event
loop. Nothing in the process is locked: every service is a module of dictionaries
that all threads share.

One **pipeline process** per camera (`scripts/start_stream.py <camera>`) has a
thread that grabs frames, detects vehicles, reads plates, raises alerts and records
sightings. Pipelines and the API share nothing but the SQL database (PostgreSQL,
or SQLite where no server is configured).

    camera --RTSP/HLS--> StreamManager --frame--> VehicleDetector --> ANPRPipeline
                                                                         | plate read
             watchlist (memory or table) <--lookup-- AlertEngine <-------+
                                                        | alert id       |
                                                        v                v
                              table alerts        JourneyCorrelator.add_sighting
                                   |                     |
                                   |         tables vehicle_journeys, journey_segments
                                   v                     v
    API process:  _alert_store, incidents, journeys, users, watchlist, caches
                                   |
                       dashboards: HTTP polling, WebSocket /ws/alerts

### Components

| Component | State | Operations | What makes it hard | What makes it right |
|---|---|---|---|---|
| Journey correlation, `BA/services/tracking/journey_correlator.py` | per process: segments and journeys of each plate; shared: tables `vehicle_journeys`, `journey_segments` | `add_sighting`, `_persist` (SELECT, then INSERT or UPDATE, commit), `get_journey`, seeding at import | pipelines race on the row of a plate; a transaction fails after memory changed; restarts forget the dedup window; the clock steps | no repetition inside the window; summary = segments; at most one row per pipeline and plate; a row covers its segments |
| Stream ingestion, `BA/services/streaming/stream_manager.py` | stop event, thread, `info.state`, reconnect count, delay generator, silence timer | `start`, `stop`, `run`, `_open_capture`, `_read_frames`, `_backoff_delays` | two threads, a join that times out, blocking opens and grabs, a dead stream | one late frame at most, the documented delays, honest state, stops honoured, retries go on |
| Incidents and alerts of the API, `BA/services/alerting/incident_detector.py`, store of `alert_engine.py`, `seed_sample_alerts.py` | `_active_incidents`, `_incident_cooldowns`, `_alert_store`; table `alerts` | report, dispatch, acknowledge, list/get (which load rows), broadcast, start-up load | unlocked check-then-act in many threads; lazy loads; restarts | cooldown per camera, dispatch visible in the alert, acknowledgements not lost |
| Alert engine, watchlist, `on_frame`, `alert_engine.py`, `watchlist_service.py`, `scripts/start_stream.py` | per process: chosen provider, `_recent_alerts`, one database session for three users | `process`, `_persist_alert`, `lookup`, `get_watchlist_provider`, `add`/`remove` | a failed statement poisons the session; ids of one table used in another; two lists that never meet | alert spacing; every sighting stored; no alert without a sighting; repair of the session |
| HLS proxy, `BA/services/streaming/hls_proxy.py` | upstream cookie, playlist/key/segment caches with TTL, HTTP client | `get_playlist`, `get_key`, `stream_segment`, `refresh_sentinel_cookie` | coroutines interleave at every `await`; a failed fetch may overwrite a good entry; cache limits | a real playlist is not hidden by the template; answers are as fresh as their time to live says; a camera is shown another's footage only for lack of its own; the cache is bounded |
| Incident analysis, `BA/services/detection/incident_analyzer.py` | tracks and pair counters of the one analyser of the process | `update_tracks`, `analyze_incidents`, driven by `POST /incidents/analyze-stream` | counters outlive the encounter they counted; two calls share the analyser; presentation time starts over with every call | a lone simulated collision is reported, in the frame its evidence is complete |
| Vehicle detection, `BA/services/detection/vehicle_detector.py` | frame counter, tracker | `detect` with frame skipping, fallback without names | frames lost to an error; names handed on | every n-th frame is examined, one box per name |
| Plate reading, `BA/services/anpr/*`, `BA/models/anpr.py` | `_track_cache`, `_track_attempts` | `process`, OCR, `compute_final_confidence`, `normalise_plate` | a reading kept for a name; correction by position; fragments lost | the plate answered is that of the vehicle; a track's answer stays |
| Users, roles, login, `BA/main.py:191-229, 295-633`, `BA/core/security.py` | `_users`, table `users`, tokens | `register`, `login`, `get_current_user`, seeding | registrations race around a slow hash; an INSERT fails; restarts forget the dictionary | an account answered as created can be used; a token has the role of the password verified |
| Camera cache and catalogue, `BA/main.py:651-913`, `BA/services/camera/catalogue.py`, `_get_cached_cameras` of analytics | two caches, each a list and a time stamp | `_get_cameras`, `sync_cameras`, `fetch_catalogue`, `_get_cached_cameras` | list and stamp are stored apart in many threads; a refresh races a sync; upstream fails | what a cache serves is not older than its time to live and one request |
| WebSocket hub, `BA/main.py:87-122, 1396-1411` | active connections | `connect`, `disconnect`, `broadcast` | the list changes while a broadcast awaits | every live connection gets every message |
| Audit, `BA/services/audit/audit_service.py` | list in memory | `log`, `get_logs` | never given a session; a restart loses it | every action is logged once |
| Analytics, `BA/services/analytics/*` | table `detection_events` | seeding at the start, summary, events, export | two commits that fail apart, at any of many starts; two codings of one filter; buckets by label | figures agree with the events and the calendar; nothing is seeded twice |
| Routing, `BA/services/routing/routing_service.py` | none | `infer`, polyline decoding | upstream failure | fallback route |
| Database sessions, `BA/db/session.py` | engine | `get_db`, `init_db` | fallback to SQLite | sessions closed |
| Frontend, `frontend/app.js` | view state, socket, polling timers, players | reconnect, load, acknowledge, dispatch | reconnect timers, out-of-order replies | shows what the API says |

## 2. Modules

| Module | Models | Used by |
|---|---|---|
| `JourneyCorrelator` | `journey_correlator.py` in all processes, with the journey tables | `CameraPipeline` (INSTANCE), `MCJourneyCorrelator` |
| `JourneyCorrelatorProofs` | its theorems | `CameraPipelineProofs` (INSTANCE) |
| `StreamManager` | `stream_manager.py`: the worker, the caller of `start` and `stop`, time | `MCStreamManager` |
| `StreamLifecycle` | what a user of a stream may rely on (abstract) | `StreamManager` (INSTANCE, as `Life`) |
| `StreamManagerProofs` | its theorems, the refinement of `StreamLifecycle` included | |
| `AlertDesk` | `incident_detector.py`, the store of `alert_engine.py`, the alert endpoints, `seed_sample_alerts.py` | `MCAlertDesk` |
| `AlertDeskProofs` | its theorems | |
| `CameraPipeline` | `on_frame` of `start_stream.py`, `alert_engine.py`, `watchlist_service.py`, over the correlator | `MCCameraPipeline` |
| `CameraPipelineProofs` | its theorems; instantiates `JourneyCorrelatorProofs`, so that what is proved of the correlator holds in the pipeline | |
| `HlsProxy` | `hls_proxy.py` with its endpoints | `MCHlsProxy` |
| `HlsProxyProofs` | its theorems | |
| `PlateReader` | `vehicle_detector.py`, `services/anpr/*`, `models/anpr.py`: from a frame to the plates of its vehicles | `MCPlateReader` |
| `IncidentAnalyzer` | `incident_analyzer.py` on the frames of its only caller | `MCIncidentAnalyzer` |
| `VisionProofs` | the theorems of these two | |
| `Accounts` | registration, login, calls with a token, seeding of users, their audit entries | `MCAccounts` |
| `AccountsProofs` | its theorems | |
| `CameraDirectory` | `catalogue.py` and the two caches in front of it | `MCCameraDirectory` |
| `Analytics` | `seed_events.py`, `analytics_service.py` | `MCAnalytics` |
| `ReportingProofs` | the theorems of these two | |

`IncidentAnalyzer` and `Analytics` carry their name in their specification, initial states
and steps (`AnalyzerSpec`, `AnalyticsSpec`), since a module of theorems extends each beside
another component.

How they fit together: `PlateReader` says what a read handed to `on_frame` may be and
`CameraPipeline` what becomes of it, over the tables of `JourneyCorrelator`. The finding
of `IncidentAnalyzer` is a report of `AlertDesk`. The list `CameraDirectory` serves is
one of the `Lists` of `Analytics`. Only `CameraPipeline` with `JourneyCorrelator` share
state that both write, and only they are composed as modules.

### How state and actions correspond to the code

**JourneyCorrelator.** `segments[c]`, `journeys[c]` are `_segments`, `_journeys` of
the pipeline of camera `c`; `api`, `apiRow` those of the API process and the row a
`get_journey` in progress has read; `rows`, `segRows` the two tables. `AddSighting`
is everything up to the call of `_persist` (a duplicate changes nothing and is no
step); `PersistQuery` is the SELECT, `PersistCommit` flush and commit, which write
only *changed* columns (`Column`, as SQLAlchemy's UPDATE does); `PersistFail` is the
`except` with its rollback. The seeding at import goes through `add_sighting` too and
is the initial content of every process (`Seeds`). Times are one clock's readings in
any order: `datetime.now` of different calls may step back.

**StreamManager.** `worker` is the place of the thread in `run`, `_open_capture` and
`_read_frames`; `ctl` that of the caller in `start`/`stop`. They interleave at every
access to the stop event and `info.state`. OpenCV's capture is external: opening,
grabbing and decoding succeed or fail at will. `silence` is the frame timer in ticks.

**AlertDesk.** A request runs in a thread `t` with program counter `pc[t]`. Each
action runs from one access to shared state to the next; `target[t]` and `call[t]`
hold what the code keeps in locals. `Load`/`LoadStore` are one turn of the loop of
`get_all_alerts`, or a `get_alert`. Restart keeps only the table.

**CameraPipeline.** `stage[c]` is the place in `on_frame`. `session[c]` says whether
the SQLAlchemy session needs a rollback. A statement may fail while `faults` is below
its bound; a failed session fails everything until `StoreFails` rolls back.
`RaiseStored`, `RaiseUnread`, `RaiseUnstored` are the three ways through
`_persist_alert`. `apiList` is the watchlist that `POST`/`DELETE /watchlist` edit;
`provider[c]` what `get_watchlist_provider` chose when the process began.

**HlsProxy.** `task[t]` is a coroutine that awaits the video site: what it took along
(`now`, the entry it found), which fetch it waits for (`get`, `login`, `retry`) and
the reply. Between two awaits the code runs alone, so an action runs from one reply to
the next await or to the answer. `playlists`, `key` (with `_KEY_LAST_FETCH`),
`segments` (a dictionary, hence a sequence in the order of insertion) and `cookie` are
the module's globals. The site is external: it may change what it serves
(`SiteChanges`, counted by `version`), refuse a session or fail. A reply carries the
version of the moment it was made, and `versionAt` remembers which version each clock
reading began with, so that the age of an answer can be stated. The template playlist
and the built-in key are `Own`. A segment's data is the camera whose footage it is: the
fallback files are footage of the camera `First`, also when they are stored and answered
under another.

**PlateReader.** `frames` is `_frame_counter`, `todo` the detections of the frame that
`on_frame` has still to hand to `process`; `cache[t]` and `attempts[t]` are
`_track_cache` and `_track_attempts`. Tracker and OCR are libraries: the tracker may give
a name it used before to another vehicle, or raise, whereupon the fallback detection has
no names and so neither cache nor throttle; the OCR may see a text whole or in two
fragments, a blank one beside them, with any of the confidences, and may take a character
for any other of `Confusions`, an unreadable one (`?`) among them. `TakenBack` says which
misreadings a table of `normalise_plate` leads back from. The texts are kept as characters,
since what the positional correction makes of them is the question; the score is the one of
`compute_final_confidence`, in hundredths of a percent. `owners` is history.

**Accounts.** `users` is `_users`, `table` the table. A request of thread `t` keeps in
`req[t]` what the code keeps in locals; hashing and database calls separate its steps:
`RegisterCheck` (name free, id chosen), `RegisterKeep`, `RegisterInsert`,
`RegisterReport`; a login looks the name up, perhaps selects and caches the row, then
verifies the password *of the account it found*. A fault makes a database call count as
"no row" or as a failed INSERT that is only logged. `known`, `created`, `contested`,
`unstored` are history.

**CameraDirectory.** Every access to a global is a step: a sync empties the list and then
the stamp; a look of main reads the stamp twice, one of analytics the list and then the
stamp; a fetch waits for the site; the list is stored
first and the stamp, read before the fetch, after it. The endpoint of main answers with
its own list, analytics with whatever is in the cache by then. Order and duplicates of a
list are abstracted: it is the set of its ids, with the (history) time the site gave it.

**Analytics.** `rows` is the table; only a start of the process writes it, by the two
commits of `seed_events.py`, each of which may fail. Times are half hours, so that an
event can lie inside a bucket of an hour. `Summary` is `get_analytics_summary`, the count
of alerts included (`AlertTables`: whatever `AlertDesk` and the pipelines stored), and
`DrillDown` the endpoint behind a click, which builds its filter anew. A date that does not
parse is `Garbled`; the label of a day has no year, so it comes back after `YearDays`. The sum of a
column is stated without recursion: `Total(f)` is the number of pairs of a label and a
number from one to the label's count.

**IncidentAnalyzer.** A thread runs one call after another. A call takes a frame into the
tracks (`Update`) and then analyses it (`Analyze`); calls interleave between the halves.
`alone` and `carried` are history: whether any call ran beside a thread's latest one, and
what counts of overlap and standstill that call found. Both boxes are 50 by 50 at one
height, so a box is its left edge. The update of both tracks is one step: the interleaving
of two calls between the first and the second track is abstracted.

## 3. Runs

| Run | Instance | Shows |
|---|---|---|
| `journey_safety` | 2 pipelines, 2 plates, one with seeds, window 1, 3 times, 2 sightings per process, 2 stored, 1 restart each | dedup, summaries, one row per pipeline, rows cover segments, repetitions only across restarts |
| `stream_manager` | limit 6, HLS, failing decoder, timeout 2, fair | safety of a connection; implements `StreamLifecycle`; stops honoured; retries; dead streams left unless frames go on failing to decode |
| `alert_desk` | 2 threads, 1 camera, 2 incidents, 1 sample row, 1 pipeline row, clock 0..2, cooldown 2, 1 restart | cooldown, dispatch, acknowledgement |
| `camera_pipeline` | 1 pipeline, 2 plates, 1 fault, 2 alerts, 1 restart, foreign keys on | alerts, what a missing sighting takes, repair of the session |
| `pipeline_missed` | both plates in the table | VIOLATION: a failed look at the list makes the next listed plate unlisted |
| `pipeline_lost` | one plate on the demo list, foreign keys on | VIOLATION: the sighting of an alerted plate is refused by the database |
| `hls_proxy` | 2 requests at once, 3 in all, 2 cameras, 2 names, clock 0..2, times to live 1 and 0, cache of 2, 1 version change, an empty or a filled cache directory | freshness, template against real playlist, when footage is borrowed, growth of the cache |
| `plate_reader` | 2 vehicles with plates of 9 and 10 characters, a D among them, six confusions that the correction takes back or not, blank fragments, 2 names, every 2nd frame, 2 tries, confidences on either side of both thresholds, 6 frames | whose plate an answer is; what the cache of a track keeps |
| `accounts` | 2 threads, 2 names, one of them the default administrator's, 2 passwords, 3 profiles of which one has no valid role, 5 requests, 1 restart, 2 faults | created accounts can be used; tokens fit the password |
| `camera_directory` | 2 threads, 3 requests, time to live 3, requests of at most 2, clock 0..5; a catalogue that fails, is empty or has an odd entry | age of what is served |
| `analytics` | 2 drawings of the ground truth, 2 samples, starts at night or in the afternoon, 3 restarts, 3 failed commits; a year of three days; seven queries over every kind of window and filter, with dates that do not parse | figures, chart, drill-down and calendar agree; seeding is not repeated |
| `incident_analyzer` | 2 threads, any number of calls of sixteen frames that begin on counts of at most 20 | a lone call is reported, and between which frames |

**Why the bounds suffice.** The races need two processes (or threads), one plate they
both touch and one they do not; two sightings per process let the second meet what the
first left behind; a window of 1 on the times 0..2 has times inside, on and outside
the boundary; one restart separates two incarnations. Backoff saturates at the fifth
failure, hence a limit of 6. A cooldown of 2 on the clock 0..2 has both sides of its
boundary. One fault is the interesting number in a pipeline: the question is what it
does to *later* statements. In the proxy two requests overlap and a third, begun
after one of them ended, sees what they left; clock 0..2 has an entry of age 0, 1 and
2 against a time to live of 1; a cache of two segments is full with one of each camera. In
`camera_directory` the time to live exceeds the time of a request, as it
does in the code, and the clock goes on after an entry expired. That a request takes
at most `FetchTime` from its look to its answer is an assumption (15 seconds are the
timeout of httpx, which bounds each wait of a fetch and not their sum): `ServedAge` is
stated relative to it. A fifth request meets what two
overlapping registrations, a login and a restart left. In the analyser `MaxCount` bounds the
counts a call may begin on, not the calls: a pair needs ten frames of overlap and a stalled
vehicle eighteen of standstill, so with 20 a lone call meets every count below, at and above
both. With 18 the case of a lone call that is found before the vehicles meet would not
happen. In the plate reader two tries
are used up and cached on either side of one another within the three frames examined of
six. A year of three days lets the labels of days come back within the window of a query.

Symmetry is used in `alert_desk`, `accounts`, `camera_directory`, `incident_analyzer`
(threads) and `hls_proxy` (requests), whose properties are safety properties and treat
these alike. `CHECK_DEADLOCK FALSE` is set where the bounds stop the system (`alert_desk`,
`hls_proxy`, `accounts`, `camera_directory`, `analytics`, `plate_reader`,
`incident_analyzer`: the clock, the tables, the requests, the restarts, the frames or the
counts a call may begin on end); the others can always take a step.

**Fairness** is used in `stream_manager` alone. `WF_vars(Worker)`: the operating
system schedules the thread, and the blocking calls of OpenCV return (FFmpeg is given
open and read timeouts). `WF_vars(Tick)`: time passes. The third conjunct: a call of
`stop()` proceeds, since its join has a timeout. Nobody is obliged to call `start` or
`stop`, and no open, grab or decode is obliged to succeed.

## 4. What the code does not keep

`pipeline_missed` and `pipeline_lost` are the violation runs; their findings in
`PROJECT.json` quote what they refute. In the first, the query of the watchlist fails
(`watchlist_service.py:230` catches that and answers "not on the list"), the sighting of
that read is a repetition, which never reaches the rollback of `_persist`, and the query for
the next plate is refused by the session that nobody repaired. In the second the id of an
alert goes into `journey_segments.detection_event_id`, a foreign key to a table the pipeline
never writes. Further statements one might expect, false of the code as the modules
have it, and therefore not stated as properties:

Journeys and streams

- Two pipelines that read an empty table both insert, so one plate may have two journey
  rows (`OneRowPerPipeline` is what remains). The API serves a journey as it first read
  it for the life of the process, whatever is committed later.
- `camera_count` and the ends of a journey row are those of *one* pipeline, not of the
  union; two updates that race may leave `first_seen` of one and `last_seen` of the other.
- A repetition right after a restart is stored, and a plate is alerted again.
- `stop()` may return while the worker still runs, and the time a callback takes counts
  as silence of the stream. A stream whose frames never decode is never dropped, although
  `config.py:178` has a stream treated as dead after that many seconds without a new frame:
  a failed *grab* looks at the timer, a failed decode goes on without
  (`stream_manager.py:405-422`). `DeadStreamLeft` therefore speaks of the streams whose
  decoder does not fail for ever.
- `start()` while the previous worker drains logs a warning and starts nothing, although
  its docstring says it "starts the stream ingestion loop".

Proxy

- The segment cache is emptied in the order of insertion, not of use ("LRU",
  `hls_proxy.py:188`), and storing a fallback does not look at its limit. How long it
  can get depends on the number of cameras: the run's
  `FullCacheGrowsByFallback` and the theorem `OneFallbackHolds` say by what it grows.
- `stream_segment` "never borrows or returns segments from another camera"
  (`hls_proxy.py:375`), but the fallback files are the first camera's (208, 449-456), and
  are cached under the camera that asked: `BorrowedOnlyForLack` says what is left, that
  footage of its own, where the cache has any, is preferred.
- A camera whose first fetch fails serves the template for a whole time to live, and the
  newest *reply* of the key or of a playlist may be overwritten by an older one:
  `FreshAnswers` bounds its age.

Alerts and pipelines

- An acknowledgement lives in memory and is lost when the API restarts. A `get_alert`
  that found the store empty stores the row it read over an acknowledgement made
  meanwhile; `IncidentAckKept` is about alerts of incidents, which are never loaded.
- No alert is ever pushed to a dashboard: alerts are raised in worker threads, which have
  no event loop, so `_alert_broadcast_callback` (`main.py:118`) drops every broadcast; and
  the callbacks of a pipeline's process are not the API's.
- A plate registered through `POST /watchlist` (`main.py:1286`) reaches no pipeline: the
  list lives in the memory of the API process.
- Where the database checks foreign keys, the sighting of an alerted plate is stored
  only if `detection_events` happens to have a row of the alert's id
  (`scripts/start_stream.py:100`): otherwise it is rolled back (`pipeline_lost`). Where it
  has one, the sighting names an event that has nothing to do with it.
  `LostOnlyByFaultOrKey` says that a sighting is lost in no third way.

Plate reading and incidents

- A name the tracker hands to another vehicle comes with that vehicle's plate, for good.
  `OwnPlate` names this, a text of another length and a misreading that no table takes back
  as the only sources of a wrong plate. The third is real for plates of the repository's
  own watchlist: a D or a Q read as 0, or an L read as 1, comes back from `anpr.py:70-71` as
  O or I, in a plate of a valid format. Nine of the ten characters of a plate may be a valid
  plate of the other format.
- A fragment of blanks is kept as an empty text, since it is tested before it is stripped
  (`ocr_engine.py:206`), and its confidence counts.
- The pipeline is not "stateless", as its docstring has it: tries count whatever became
  of them, crops too small to read included. Detections of the fallback have no name and
  hence neither cache nor limit.
- The confidence of a text is the *average* over its fragments (`ocr_engine.py:216`), not
  the minimum its docstring names (189-190).
- Two `simulate_collision` calls that overlap may leave one of them without an incident,
  although the endpoint is documented as deterministic (`main.py:1115`). A later lone call
  may need fewer overlap frames than the ten of the analyser's third rule
  (`incident_analyzer.py:11-12`), since the counter outlives the encounter.
  `LoneCallReports` permits this and does not require it: it would hold of an analyser that
  counted each encounter from zero. So does the standstill of
  a track: once overlapping calls have left seventeen slow frames or more, a lone call may be
  answered with a stalled vehicle before the two have met, and the collision never simulated.
  The eviction of tracks is never reached on these frames.

Accounts, cameras, analytics

- Two registrations of one name that overlap are both answered "created", and the later
  overwrites the earlier in memory while the table keeps the first, so either password
  may be the one that counts, before and after a restart. An account whose INSERT failed is
  gone after a restart. `CreatedIsUsable` says that of a name answered as created an account
  stays that one of its registrations brought, and that it is the answered one where
  registrations did not overlap; of names whose INSERT failed it says nothing.
- The ids of the dictionary and of the table diverge, so the "DB ID of the user" in the
  audit log (`audit_service.py:49`) may name another account. The log is in memory only.
  The `max` over `_users.values()` (`main.py:526`) may meet an insertion of another thread
  and raise; the model takes it as one step.
- A look that finds a stamp which a sync removes before it is read again fails
  (`main.py:661`), and a look between the two assignments of a sync answers an empty list.
  A sync does not "Force refresh" (`main.py:899`) what others see: a fetch begun before it
  may be stored after it. A readable answer without a camera is served as an empty list
  for a time to live.
- In the 24-hour window the bucket of the present hour also holds yesterday's. The chart
  counts every class but persons as vehicles, the figure does not. `alerts_generated`
  ignores the department and the type that all other figures are filtered by
  (`analytics_service.py:173-177`). Labels of days have no year (220, 225): in a window of
  more than a year the events of two days share a bucket.
- If the commit of the ground truth fails and that of the samples does not, the table is
  no longer empty and the ground truth is never seeded (`seed_events.py:80`).

## 5. Proofs

The theorems are in modules apart from the components and hold for all cameras, plates,
vehicles, names, threads, windows, times to live, cooldowns, rows, queries and bounds,
under the named assumptions of the modules (`ConstantsOK`, `SeedsSpaced`,
`StreamConstants`, `DeskConstants`, `PipelineConstants`, `CorrelatorConstants`,
`ProxyConstants`, `ReaderConstants`, `AccountConstants`, `DirectoryConstants`,
`AnalyzerConstants`, `AnalyticsConstants`), which the runs evaluate. Every invariant and
every action property of the passing runs is proved.

- **JourneyCorrelatorProofs**: `TypeCorrect`, `SpacingHolds`,
  `OneRowPerPipelineHolds`, `RepeatsOnlyAcrossRestartsHolds`. The invariant `IInv` adds
  to them what a call in progress holds (`CallInv`: the pending segment is the last of
  the list, a loaded row exists), that an empty query result means this pipeline has no
  row of the plate (`InsertInv`), and that what the present incarnation committed is in
  its memory, put there by an earlier call (`MemoryInv`), which is what turns the dedup
  check on memory into a fact about the table. `SummaryMatchesSegmentsHolds` shows that
  the incremental summary is the summary of the segments, from the way a sighting extends
  both ends. `SoleWriterRowCoversHolds` adds `RowInv`: a row a pipeline loaded is still
  what it was as long as nobody else has written under it (`Sole`), so that an UPDATE of
  the changed columns alone leaves the whole of the new summary in the row, and what is
  stored under it is in the writer's memory.
- **StreamManagerProofs**: `TypeCorrect`, `AtMostOneLateFrameHolds`, `BackoffLawHolds`,
  `StateTruthfulHolds`, `EndsStoppedHolds`, `WithinLimitHolds`, and
  `ImplementsLifecycle`: initial states map to initial states of `StreamLifecycle`,
  every step to a step or a stutter. The strengthening ties the delay generator to the
  number of failures and the reconnect count to the attempts. `StopDescends` and
  `DeadStreamDescends` are the part of `StopHonoured` and `DeadStreamLeft` that is safety:
  a measure of the worker's place (`ToStop`, `ToNotice`) that each of its steps lowers and
  that no step of the controller or the clock changes. With the fairness of the worker,
  which TLC adds, they give a bound of six and of four steps.
- **AlertDeskProofs**: `TypeCorrect`, `SequentialCooldownHolds`, `DispatchShownHolds`,
  `IncidentAckKeptHolds`. The invariant says where a key may be in progress: a thread
  that is about to store the alert of an incident is the only one, and the store has no
  alert under that key yet; a thread that loads holds a key of a row, never an
  incident's; the cooldown of a camera is the time of its last incident unless reports
  of it overlapped.
- **CameraPipelineProofs**: all invariants of `CameraPipeline`, and that it implements
  `JourneyCorrelator` (`ImplementsCorrelator`: each step of the pipeline is a step of
  the correlator or leaves its variables alone), so that the correlator's theorems
  carry over (`PipelineSpacing`, `PipelineJourneys`), and what is true of the refuted
  `MatchAlerts`: a listed plate is missed only after a statement failed
  (`MissedOnlyByFaultHolds`, with `MissInv`: a session is broken only by a fault, and an
  answer that the plate is listed is heeded). So with the refuted `SightingsStored`:
  `LostOnlyByFaultOrKeyHolds` shows that no recorded sighting is missing in the table
  while no statement failed and every alert's id has its event (`LostInv`: then every
  session is in order, and what memory has beyond the sighting in hand is stored). `IInv` takes the correlator's invariant and adds,
  camera by camera: a read is in hand while it is worked on and the segment being
  stored is of that read (`Placed`); `_recent_alerts` knows the latest alert of each
  plate, and an alert is under way only with its cooldown over (`Cooled`); and an alert
  without a sighting is the last one, of the plate in hand, with its sighting still to
  come (`Awaited`, `Seen`). Without `Awaited` a repetition could not be shown to
  concern the plate alerted. Assumed: `CorrelatorConstants` and `PipelineConstants`.

- **HlsProxyProofs**: all six properties. `IInv` adds that what the site served never
  gets older (`History`), that every entry is at least as new as its stamp says
  (`Honest`), the built-in key gone once a key was fetched (`KeyHonest`), that a reply
  in hand is at least as new as the beginning of its request (`Pending`), which is why
  stamping an entry with the time *before* the await is right, that a segment is stored
  under its own camera or is the first camera's (`SegmentsLocal`), and that of the segments
  of a camera the borrowed ones are the oldest (`BorrowedOldest`): an answer after a failed
  fetch is the newest, so a borrowed one only where there is no other. Assumed: `ProxyConstants`.

- **VisionProofs**, `PlateReader`: `TypeCorrect`, `OwnPlateHolds`, `AnswersStayHolds`. The first
  part is about texts: a misreading that is taken back (`TakenBack`) is corrected to the
  character of the plate, for letters and digits of every plate of either format; fragments
  of a plate's length join to the text, blank ones among them; so a look whose text has the
  length of the plate and whose misreadings are all taken back yields the plate. No plate
  and no misreading is excluded. The invariant then says that what a name has in the cache, and the last answer, came from a vehicle
  that had the name.
- **VisionProofs**, `IncidentAnalyzer`: `LoneCallReportsHolds`. The invariant follows a
  lone call frame by frame. On its way (`OnItsWay`) the call has both tracks where the
  simulation drove them in the last frame, at the speed that gives, with the highest speed
  seen and the slow frames bounded by what was found; the count of the pair is what it found
  less one for each frame apart, then one more for each frame of overlap. From this the
  frame in which the count reaches ten is computed (`CollisionFrame`), which of this code is
  even exactly `Due` (`DueReports`), and that no track
  stalls before it unless its standstill was seventeen (`NoStallBefore`). `AnalyzerTypes`
  says that whatever overlapping calls leave is a track with counts that are naturals: it is
  all that may be assumed of them. Assumed: `AnalyzerConstants`.
- **AccountsProofs**: `TypeCorrect`, `TokenFitsSecretHolds`, `CreatedIsUsableHolds`.
  `KnownInv` says that every account in memory, in the table or in the hands of a request
  is one its name was given; `CreatedInv` follows a created account through every place
  it may be at while it is neither contested nor unstored, a request's copy included,
  since a login writes its copy back to the dictionary; `Stored` says that any name that was
  answered, overlapping registrations or not, has its row, unless the database failed it.
- **ReportingProofs**, `CameraDirectory`: `TypeCorrect`, `ServedAgeHolds`. List and stamp of a cache
  may come from two requests. The invariant does not tie them to one another: whoever
  stores a list stores one the site gave less than a request's time ago, so no stamp
  anyone holds or has stored is further ahead of the cached list than that (`Behind`).

- **ReportingProofs**, `Analytics`: `SeededOnceHolds`, `ReportAgreesHolds`. `Seeded` is
  inductive by itself: the ground truth holds no sample (its classes are others), a start
  adds only samples the table lacks, and no sample stands for another. A report is the
  summary of the table as it stands (`Reported`), so the rest is about `Summary`: the
  drill-down of a figure finds the rows found that are of its type (`TypedQuery`); counted by
  a label, the elements of a set add up to their number (`CountsAddUp`, by a bijection
  between the pairs of `Total` and the set); and the buckets of today are the hours of today,
  by the arithmetic of the window (`TodayWindow`, `TodaySeries`). Assumed:
  `AnalyticsConstants`, whose claims about the seeds are those of the lists in
  `seed_events.py`: the ground truth draws from `VEHICLE_DISTRIBUTION`, which has no class of
  `SAMPLE_CRASH_EVENTS`, and no two of these events agree in camera, class and plate.

Only model-checked: liveness (`StopHonoured`, `KeepsTrying`, `DeadStreamLeft`, and the
fairness part of `Lifecycle`), which needs ENABLED; and the refutations `pipeline_missed`
and `pipeline_lost`, each a behaviour of one instance.

## 6. Not modelled, and why

- Image processing, OCR, the tracker, password hashing, signatures of tokens, the external
  site and the databases are libraries and services: what they may answer is
  nondeterministic in the modules.
- *WebSocket hub*: no broadcast is ever scheduled (section 4), so the list of connections
  has no reader. *Routing*: one request and a fallback, no state. *Legacy watchlist
  matcher*: called by nothing. *Dashboard*: one reconnecting socket and polling, no state
  the API depends on. *Diagnostics and discovery*: tools run by hand; the diagnostic has a
  copy of the stream manager. *Database sessions, configuration, serverless entry point*:
  settings; what a failed statement does to a session is in the modules that use one.
- Within modelled components: the five-signal branch of the plate scorer and its plate
  history (reached by tests only); `is_active` of users (set to False by nothing); audit
  entries other than those of registration and login; `live_only` (every camera of the
  catalogue is live); limit, offset and `watchlist_only` of event queries, rankings and
  the layout of the CSV; `record_detection_event`, `fetch_catalogue_async`,
  `DatabaseWatchlistProvider.add` and `remove`, `IncidentAnalyzer.clear` (no callers).

## 7. Plan

Done: the modules of section 2 and the proofs of section 5. The project keeps to a dozen
runs and to the properties that say most. What would come next:

1. `AlertDesk` and `CameraPipeline` composed over the table `alerts`, which so far each has
   with the other as an environment (rows of pipelines there, ids of incidents here).
2. `PlateReader` composed with `CameraPipeline`: a wrong plate of section 4 followed into
   alerts and journeys.
3. The two steps of `IncidentAnalyzer.update_tracks` for the two tracks, apart.
4. `Dashboard`: socket, polling and out-of-order replies of `frontend/app.js` against the
   answers of `AlertDesk`.
