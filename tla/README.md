# Verification of the gate node firmware

The gate node is an ESP32 that moves a gate lock with a linear actuator. After
power-up it scans the Wi-Fi channels for its home node (ESP-NOW), then opens an
access point, takes OPEN, CLOSE and STATUS commands from the home node, and
serves web pages for logging in and uploading firmware. This directory holds
TLA+ models of the parts of it that have state, the TLC configurations that
check them on small instances, and TLAPS proofs of their safety properties and
refinements for every value of the constants.

Paths below are relative to `src/`.

## 1. Inventory

| Part | Source | State it keeps | Operations | What must hold |
|---|---|---|---|---|
| Linear actuator lock | `components/linear-actuator-lock/linear_actuator.c` | `lock_state`: status, speed, increment, direction, current command; command queue (10); one-shot timer (100 ms) | `set_motor_open/close`, `get_lock_status`, `lock_task`, timer callback | motor never driven both ways, never left running; every movement ends; a status answer is at most one step of the task old |
| Motor bridge | `.../priv_src/lock_drive.c` | duty of two PWM channels | `lock_drive`, `lock_drive_idle`, `lock_drive_init` | one channel at a time, although `lock_drive` writes only one |
| HTTP upload | `components/http-server/http_server.c` | pool of 3 buffers of 1 KiB, registered events | `file_upload_handler`, `get_chunk_buffer_from_pool`, `http_server_return_chunk_buffer`, `http_server_init` | a buffer has one owner |
| HTTP sessions | same | one session slot: active, token, last activity | `/auth`, `/check-auth`, `/logout` | expiry is exact on a wrapping clock; what is over stays over |
| Web pages | `components/http-server/page/*.js` | page, token in the tab's storage, update button, status line | login, logout, check of the token, upload, finalisation | a page stays open only if let in; no bouncing between pages |
| OTA service | `components/ota-service/ota_service.c` | message queue (3), IDLE/ACTIVE, header flag, flash handle | `ota_service_data_event`, `ota_task` | chunks in order, boots only a whole newer image, no handle leak |
| Image slots | same, `partitions_esp32.csv`, bootloader with rollback | version and state of two slots, the running one | `ota_service_init`, `ota_set_valid`, the bootloader's choice | there is always a confirmed image to go back to |
| Routine events | `main/routine_event_handler.c` | static channel, delegate queue (4) | the handlers of four event bases, `delegate_run_task` | the scan goes on and does not split |
| Start-up and main loop | `main/gate-node.c` | progress of `app_main`, millisecond clock, time of the last discovery | `app_main` and its main loop | finds the home node, serves, looks again in time |
| Access point | `components/softap-service/softap_service.c` | interfaces, mode, channel | `wifi_station_init`, `wifi_set_channel`, `wifi_stop`, `wifi_init_softap` | comes up where the scan found the home node |
| Display | `components/gui-component` | event queue (10), job queue (16), text or state of each child, screen | `gui_inform`, `gui_op_task`, `ui_worker_task`, the setters of two screens | shows what it was told last |

Interactions: components post events to one event loop; `routine_event_handler`
dispatches them and calls into other components (an upload chunk becomes an OTA
message, a used buffer goes back to the HTTP pool, a command goes to the lock,
a discovery result becomes a job of the delegate task, a pending validation
becomes `ota_set_valid`). `app_main` waits for `SYNC_EVENT_DISCOVERY_COMPLETE`.
Browsers talk to the single HTTP server task. Everything else is FreeRTOS
queues: most are written with `portMAX_DELAY` (they block),
`ota_service_data_event` and `ui_worker_process_job` with 0 and `gui_inform`
with 50 ms (they drop). A panic, a power loss and an installed update restart
the node through the bootloader; only the image slots survive.

Hard parts: two tasks and the timer daemon around the lock; buffers passed by
pointer through two queues while messages can be lost; a scan that is one
thread of control spread over four tasks; failing flash and Wi-Fi calls in the
middle of a sequence; a restart at any point of a firmware trial; clocks in a
`uint32_t`; children of a screen written and read without a lock; browsers that
act on answers which a reload, a broken connection or a restart of the node has
overtaken. `PROJECT.json` lists them as hazards, each at its line.

## 2. Modules

Models:

* `LinearLock` - the lock with its bridge. `task`, `timer`, `timer_queue` and
  `daemon` are the program counters of `lock_task` and of the FreeRTOS timer
  daemon. Each arm of the switch in `lock_task` is an action (`StartMovement`,
  `PublishMovement`, `ReverseMovement`, `RampPeak`, `RampEnd`, `RampHold`,
  `RampStep`), written once for both directions since the arms are symmetric
  except for the deceleration and the hold. A start from rest is two actions, because the arm
  calls `lock_drive` before it writes the status (lines 367-368 and 385-386) and
  the status is read by another task: between them `task = "publish"`, the motor
  runs and a query still answers OPEN or CLOSE. The other arms
  switch the motor off before they write the status or do not write it, and a
  query answers UNDEFINED on both sides of a reversal, so one action shows all a
  query could see. `xTimerStart` is a step of its own because it can block on
  the daemon's queue. `TimerExpires` is the moment the callback reads
  `current_command`, `lock_timer_callback_handler` the moment it gets room in
  `command_queue`. The field `from` of a queue entry and `sent` are history.
* `GateActuator` - what the lock promises the rest of the node: position and
  motor, no queues, timers or ramps. A movement is powered (`Begin`) before it
  is reported (`Depart`). `LinearLock` implements it
  (`ImplementsActuator`).
* `OtaUpload` - `http_server_init`'s event registrations, `file_upload_handler`,
  the two event handlers and `ota_task` composed. The server already runs while
  the events are registered one after the other, so an event of an early upload
  may reach nobody (`EventUnhandled`). A buffer is a model value and an event or
  message carries it by name; `memory` says what it holds. `lost` is history: it
  collects buffers that nobody will ever return. It implements the steps of
  `ImageSlots` (`ImplementsImageSlots`): the slots are taken at the outcome of
  an update, so the spare one holds the rolled-back image until an update that
  began to write has ended.
* `ImageSlots` - the two partitions: the bootloader's choice, `ota_set_valid`,
  and what an update that fails or succeeds does to the spare slot. `SpoilSpare`
  has no guard on a version: after a lost first packet a later one is taken for
  the header, and bytes from the middle of a file may pass the check and reach
  `esp_ota_begin`. Versions are numbers in the order in which
  `is_firmware_updated` takes them for newer. The code decides that by `strcmp`
  of the version strings (`ota_service.c:145`), so it is the order of strings:
  "1.10.0" comes before "1.9.0" and would be refused as an update of it. The
  models and proofs need a total order only; "newer" and "older" below are in
  that order, not in that of release numbers.
* `MainLoop` - the main loop's clock with its overflow before the division.
  Time passes tick by tick (`Tick`); `Iteration` is one look at the clock, and
  at most `Period` ticks (the 200 ms of `vTaskDelay`) lie between two looks.
  `previous_time` is read before the services are started, so `Period` bounds
  the time to the first look as well: `ota_service_init` and `http_server_init`
  are taken to be done within a sleep of the loop.
* `NodeBoot` (extends both) - `app_main`, the discovery events, the delegate
  task, the access point and restarts. `main` is how far `app_main` is; each
  step of the set-up that checks a result can fail the check and abort
  (`CheckFails`): NVS, GUI and event loops with `esp_flash_init`, the calls of
  `wifi_station_init`, the display and `esp_now_transport_init` with it, and the
  queue and task of the lock. An error of `esp_now_transport_init` other than
  `ESP_FAIL` leaves the node without a transport. In the scan the results of
  `wifi_set_channel`, `esp_now_transport_init` and `start_discovery` are
  ignored, and any set of the three may fail; so may `start_discovery` in
  `app_main` and in the main loop. All of these are paid from `budget.faults`.
  `silent` is history: a scan was ended by a failed `start_discovery`.
  Discovery and home node are external: a discovery on the home node's channel
  finds it, or misses it at the price of one of `budget.losses`. An upload is
  one event here (refused, spoilt or installed, as `ImageSlots` has it) and
  needs a node that is `Serving`; `OtaUpload` has its steps. `PowerUp` is what a
  restart resets; an image in `Broken` crashes before it has found the home
  node.
* `UpdateContract` - what the node promises about firmware: a confirmed
  version, at most one on trial. `NodeBoot` implements it
  (`ImplementsUpdateContract`).
* `HttpSessions` - the slots, `validate_token` inside `/check-auth` and
  `/logout`, and the tick clock modulo `Word`. Tokens are numbers; `used` and
  `ended` are history.
* `SessionService` - the sessions as clients know them: a set of open tokens.
  `HttpSessions` implements it (`ImplementsSessionService`), `WebConsole` uses it.
* `WebConsole` - browsers with the scripts of the three pages, the network, and
  the handlers of the server's one task. `requests` and `answers` are sets:
  every request has a connection of its own, so they overtake each other.
  Leaving a page drops its answers and turns its requests into orphans which
  the server may still handle. One `load` request stands for a page and its
  script. The upload handler is reduced to the buffer it costs (`OtaUpload` has
  the rest). `authorised` is history.
* `GuiPipeline` - the two queues and tasks of the display. Writing a text is
  two steps with `"torn"` between them, so `ui_worker_task` can read it half
  written; the icon job stores its state and reads it back in two steps.

Proofs: `LinearLockProofs`, `OtaUploadProofs`, `HttpSessionsProofs`,
`NodeBootProofs`, `WebConsoleProofs`, `GuiPipelineProofs`, each about the module
of that name; `ClockArithmetic` (differences of readings of a wrapping clock)
and `QueueCounting` (how many entries of a queue lie in a set) hold the lemmas
they share.

External behaviour modelled from its use: the FreeRTOS timer daemon, the event
loop (posting waits for room), the flash driver (`esp_ota_*`), the bootloader,
ESP-NOW and the discovery service, the browser's navigation and `fetch`.
`esp_ota_end` is taken to accept exactly the complete, ordered contents of one
version.

## 3. Runs

Every run checks the module itself. Distinct states of the two largest
safety runs: `LinearLock_safety` 20,163, `NodeBoot_safety` 588,716.
`CHECK_DEADLOCK FALSE` everywhere: commands, uploads, logins, clicks and
announcements are bounded, and the system may be idle.

| Run | Question and bounds |
|---|---|
| `LinearLock_safety` | Safety and refinement under `Spec`, where the timer may expire at any time relative to the tasks. Queues of 2, 7 commands: enough to fill both queues and both tasks (2+2+2) and send one more, so the circular wait is reachable and `NoEarlyCircularWait` is tight. Liveness is checked in the same run under `FairSpec`, with reversals, repeats, commands during the hold and any backlog of late ticks. |
| `LinearLock_stale_tick` | Finding: a tick turns the lock around. |
| `OtaUpload_safety` | Three uploads, versions older, newer and rolled back, two buffers, queues of 2 so that messages are dropped, one flash failure, uploads during the registration. `Chunks = 2` distinguishes the header packet from a later one. The buffer pool runs dry within the bound. Also the refinement of `ImageSlots`, which connects this module with `NodeBoot`. |
| `OtaUpload_buffer_leak` | Finding, with the pool of 3 of the source: the fourth upload never gets a buffer. |
| `OtaUpload_retry` | Finding: a failed update cannot be repeated. Two uploads of a good file in one packet each, one flash failure, no message lost. |
| `NodeBoot_safety` | Four channels, the home node on each of them (the first, those in the middle and the last one, after which the scan starts over), queues of 2, one missed peer, one step of the set-up or the scan in which calls fail, one command, one power loss, two uploads of versions 1 to 3, of which 2 is broken. The clock has 2 ticks per second of 4 ms, a word of 14, just above what `ClockAssumption` asks, and an interval of 2 ms; the loop is entered at tick 3 and followed to tick 6, which includes a wrap, a rediscovery that is early because of it, and one that is as late as it can be. |
| `NodeBoot_rediscovery` | Finding: rediscovery aborts the node. Three channels and no other cause of an abort. |
| `NodeBoot_first_channel` | Finding: the access point gets channel 0. Three channels, nothing fails, nothing is missed. |
| `HttpSessions_safety` | Two slots (the code is written for `MAX_USERS` of them), a clock that wraps twice (`Word = 5`, 11 ms), three logins. |
| `HttpSessions_stuck_slot` | Finding, with one slot as in the source. |
| `WebConsole_safety` | Two browsers on one session slot and one upload buffer, two connections each, two logins, two clicks, two uploads, and one broken connection or restart: enough for a login that finds the slot taken, a double submit, a page left in the middle of a check or a logout, and an upload that blocks the server. |
| `GuiPipeline_safety` | Queues of 2 and 3, so that events and jobs are dropped in some behaviours and not in others; one search. |

Every property of a passing run has a mutant (`PROJECT.json`, "mutants"): a
plausible bug of the mapped code under which the same run finds the property
violated. The mutant operators stand before the definition they replace.

### Fairness

* `LinearLock`: weak fairness of the lock task and the daemon (the scheduler
  runs ready tasks; both block only on queues). Nothing is assumed about the
  clients. Without timing the lock need not settle: ticks may overtake each
  other for ever and reverse the lock back and forth. On the target the period
  is 100 ms and the work of the tasks takes microseconds, so the timer expires
  only once the daemon has no request left and `lock_task` waits for a command
  or sits in the 5000 ms hold (`CaughtUp`). `Settles` assumes this from some
  time on only (`PunctualAtLast`), so whatever late ticks have left behind is
  covered; its other outcome, the circular wait of the two tasks, is real (see
  below) and named in the property. `UndisturbedCommandSucceeds` needs no
  timing. `PunctualSpec` is used only by `LinearLock_stale_tick`, to show that
  the finding does not depend on late ticks.
* `OtaUpload`: weak fairness of the three tasks, not of the registration; the
  upload handler's includes that `httpd_req_recv` returns, which its receive
  timeout guarantees. No fairness of starting uploads.
* `NodeBoot`: weak fairness of `app_main` up to its main loop (so a step whose
  check keeps failing is excluded by the bound on faults), the event loop,
  the delegate task, of a running discovery to complete (it is a timer of
  6000 ms), of a broken image to crash, and of the restart after a panic. None
  for commands, uploads, power losses, ticks and rediscoveries. The bound on
  losses is an assumption too: a home node in range is missed finitely often.
* `WebConsole`: weak fairness, per browser and connection, of the server
  handling a request while it is free, and of the page taking an answer. None
  for the user.
* `GuiPipeline`: weak fairness of the two tasks (the LVGL lock is held for
  bounded times).

### What the findings show

1. `linear_actuator.c:182` - the callback re-queues the command it read. A tick
   queued behind a reversing command is taken for a command in the old
   direction and turns the lock back. In the same way a repeated command that
   completes the ramp leaves the timer active, and its tick starts the finished
   movement again. It takes a second command: `LoneTickOnlyAdvances` is proved.
2. `http_server.c:388` - the handler keeps the buffer it took last, both at the
   end of a file and on a receive error. `UploadsAreLimited` is the consequence:
   until a restart no upload receives a byte once there have been as many as
   there are buffers.
3. `softap_service.c:112` - the second successful discovery creates the default
   interfaces again, which aborts: a node near its home node restarts at every
   rediscovery. `AbortsOnlyForACause` puts this beside the other aborts that are
   modelled: a broken image that has not found the home node, a command before
   the lock exists, a failing call of the set-up or the Wi-Fi.
4. `http_server.c:230` - an expired session frees its slot only when its own
   token is presented again.
5. `ota_service.c:224` - `image_header_was_checked` is set by the first header
   and never reset. After an update that failed past its header no later one is
   checked, gets a handle or can succeed until a restart, although the state's
   comment (`:37-39`) and the page (`ota.js:121-125`, which enables its button
   again) treat a failed update as one that may be repeated.
   `FailedUpdateIsFinal`, proved for every value of the constants, is the
   extent of it: nothing is written or booted any more. This is also what makes
   `BootsOnlyNewerWholeImage` hold: later uploads are not checked, but they have
   no handle either. A repair has to reset the flag and the check together.
6. `routine_event_handler.c:168` - the channel handed to the access point is the
   counter of failed discoveries, which is 0 until one fails, although
   `softap_service.c:131` says that it is the channel the peer was found on.
   What the driver does with 0 is its own affair (the model lets it choose).
   `ZeroStandsForOne` is the extent of it: as long as no call fails, 0 is handed
   over only with the home node on channel 1, where the radio started.

Seen while modelling, visible in the models, without a run of their own:

* `linear_actuator.c:367-368`, `385-386`: the motor is powered before the status
  says so, where the comment of the status has "Lock is fully closed and idle"
  (`:80`). A query in between is answered as of before the start; nothing else
  is ever read from it (`StatusIsSettled`).
* `page/ota.js:130`: `/ota/complete` is not registered, so every upload that was
  received ends with an error message, whatever became of the image
  (`Finalized` in `WebConsole`).
* `routine_event_handler.c:63`, `gate-node.c:247`: the result of
  `start_discovery` is ignored; if it fails, nobody continues the scan and
  `app_main` sleeps until the next power loss (`ScanDied`). In the same way a
  failing `esp_wifi_set_config` leaves a node with its Wi-Fi stopped for good
  (`ApFailed`).
* `routine_event_handler.c:53`: after a `wifi_set_channel` that failed the
  counter and the radio disagree, and the access point may come up on a channel
  the home node is not on.
* `routine_event_handler.c:217`: a failed transfer is only logged; `ota_task`
  goes on with the chunks of the next upload.
* `gate-node.c:275`: the millisecond clock falls back to 0 every 2^32 / 1000
  ticks; the difference taken then is huge and one rediscovery comes early.
  None does between wraps (`EarlyOnlyAfterWrap`).
* `gate-node.c:229`: commands can arrive before the lock exists and abort the
  node (`ServesAgain` shows that it recovers).
* `login.js`: a login submitted twice can store the token that was not saved
  and leave the slot to a token nobody has.
* The upload URI asks for no token; `style.css` is requested by the pages but
  not registered; the update button stays disabled after a failed finalisation.
* The ramp peaks at 60 % where the header comment says 50 %
  (`linear_actuator.c:13`, `:271`); after a reversal the motor starts at 40 %
  (`:219`, `:258`); lock task and timer daemon can wait for each other once both
  queues are full (`:183`; `NoEarlyCircularWait` says how many commands it
  takes).
* The running version is compared uninitialised if it cannot be read
  (`ota_service.c:210`, hence the constant `DescriptionReadable`); the Wi-Fi
  icon ignores the state it is asked for (`home_screen.c:148`).

### What the properties leave out

Each of these is a state the code really gets into and does nothing about; a
property that did not exempt it would fail.

* `AccessPointNearPeer` holds as long as no call has failed, and is about the
  channels the scan has moved to (0 is finding 6).
* `ScanIsOneThread`, `TrialsEnd` and `ServesAgain` exempt a scan that a failed
  `start_discovery` has ended, `ServesAgain` also a driver that a failed
  `esp_wifi_set_config` has stopped. Both are named, and nothing else is
  exempt: `Serving` asks for a driver that runs, an access point, a node that is
  up and services that are started.
* `Settles` exempts the circular wait of lock task and daemon.
* `ScreenCatchesUp` exempts a child whose last update was dropped, and
  `EndsOnHomeScreen` behaviours with a drop.
* `PagesComeToRest` exempts a server that waits for an upload buffer (finding
  2). `AnsweredLogoutEndsSession` says nothing of a logout request that is lost,
  `OpenPageIsAuthorised` nothing of a page whose check is still pending, nor of
  sessions that a restart has forgotten after the page was let in.

## 4. Proofs

All theorems hold for every value of the constants that satisfies the named
assumptions, which TLC evaluates in the runs: `LockAssumption`,
`UploadAssumption`, `SessionAssumption` (the timeout is shorter than a turn of
the clock), `ImageAssumption` (the shipped image works), `ClockAssumption`
(`Word > (Interval + 2) * HZ + Period * MS`, which 2^32, 1000000 ms, 100 Hz and
1000 satisfy), `BootAssumption`, `ConsoleAssumption`, `GuiAssumption`. Every
safety property and refinement the runs check is proved.

* **LinearLock.** `MotionInv` is the invariant behind the motor properties.
  `NoShootThrough` is not inductive: a step that drives forward must know that
  the reverse channel is off, which follows from the direction being that of
  the status (`MovementInv`) or, in the moment before the status is written,
  from the motor having been off (`StartInv`); `SpeedNeverWraps` needs
  the exact (speed, increment) pairs a ramp passes through (`Ramp`). `WorkInv` counts pending
  work (entries, start requests, active timer, blocked callback, task on its
  way to the timer) and gives `MotorNeverStranded`, `WorkIsBounded` and
  `NoEarlyCircularWait` (a powered motor belongs to a lock that is moving or
  about to say so, `MoverHasWork`). `Refinement` is the step simulation of
  `GateActuator` under both. For `LoneTickOnlyAdvances`, `SoloInv` says that whatever the only
  command has left anywhere (entry, request, active timer, blocked callback)
  belongs to the movement under way; that it is in one place at a time is the
  count of `WorkInv`.
* **OtaUpload.** `UploadInv` (types), `FlashInv` (a handle is open exactly as
  long as there is an update that has begun to write), then `BootInv`, which
  needs that the running description is readable: whatever is written was
  checked in its header. `BuffersConserved` follows from counting: for each
  buffer the number of places it is in (pool, hand, events, messages, `used`,
  `lost`) is 1 and every step keeps it; the queues' shares are handled by
  `QueueCounting`. `ChunksInOrder` is `OrderInv`: what is written comes before
  what is queued, before what has arrived, before what is still to be received,
  and reading through the buffer is sound because of the counting.
  `UploadsImplementSlots` (with a readable running description) is the step
  simulation of `ImageSlots` under `FlashInv` and `BootInv`. `LeakInv`, each
  finished upload has cost a buffer, gives `UploadsAreLimited`;
  `StalledWithoutBuffers`, from the counting, is the safety half of
  `WaitsOnlyForLostBuffers`: no interleaving leaves the handler waiting with
  nothing else to do and a buffer not lost.
* **HttpSessions.** `SessionInv` is the conjunction of the types, the history
  (`HistoryInv`: uses lie in the past, tokens that are not issued are in no
  slot) and the properties. `ExpiryIsExact` uses `UnsignedDifference`: modulo W
  the difference of two readings less than W apart is the real one. The
  refinement maps `open` to the tokens of the active slots; `OneSlotPerToken`
  turns numbers of slots into numbers of tokens.
* **NodeBoot.** `ClockInv`: `previous_time` is the reading at `last`, and at the
  loop's last look, `slept` ticks ago, the interval was not over
  (`RediscoveryOnTime` follows with at most `Period` ticks since). The step shows
  that two readings differ by what has passed or, once the clock has wrapped
  between them, by more than the interval; the first half also gives
  `EarlyOnlyAfterWrap`. The steps of `app_main` have a few shapes, stated once
  (`AppMainCases`). `SlotInv` says which slot states are
  reachable and gives the simulation of `UpdateContract`. `EventInv`: an image
  on trial has its validation queued ahead of any upload from the moment the
  HTTP server runs. `ScanInv` counts the steps of the scan under way, none once
  `silent` is set.
  `NearInv`: as long as there are no interfaces and no call has failed, radio,
  running discovery, job and counter agree on the channel, a counter of 0
  standing for the channel 1 the radio starts on, so the one that succeeds names
  the home node's (`AccessPointNearPeer`) or is 0 (`ZeroStandsForOne`).
  `CauseInv` adds that the interfaces exist only once the discovery has
  been signalled, so only a rediscovery can create them again, and gives
  `AbortsOnlyForACause`. `ConfirmedWorks` and `ConfirmedOnlyRises` are proved of
  `UpdateContract` and carried over by the refinement.
* **WebConsole.** `ConsoleInv`: types in parts (session, view, net, issued
  tokens, server). The steps fall into a few shapes (`Responds`, `Reacts`,
  `Leaves`, `Sends`, `Quiet`), and each invariant is shown once per shape: a
  page's connection carries one request or answer, and a logout request carries
  the token of its page, as a token changes only when the page is left.
  `StartingInv` says that a page which loads or checks has its request or answer
  under way (a broken connection is an answer too); with
  `OpenPageIsAuthorised` it gives `RestIsSettled`, the safety half of
  `PagesComeToRest`.
* **GuiPipeline.** `PipelineInv` (types); `ScreenCatchesUp` is inductive.
  `BootOrder` follows the announcements of `app_main` through both queues: what
  belongs to the boot screen is ahead of the home screen, and the provisional
  name of the access point ahead of the final one, in the queue of events, in
  the calls of the event under way and, by a job still to come, on the screen.
  With nothing dropped and nothing left it gives `HomeScreenAtRest`, the safety
  half of `EndsOnHomeScreen`.

Model-checked only, being liveness: `Settles`, `UndisturbedCommandSucceeds`,
`WaitsOnlyForLostBuffers`, `TrialsEnd`, `ServesAgain`, `EndsOnHomeScreen`,
`PagesComeToRest`. What is proved of three of them is that the system
never comes to rest in a state they exclude; that it comes to rest is left to
TLC.

## 5. Not modelled

`lcd_device.c` (straight-line driver set-up beyond its aborts),
`lock_interface` (a header), `gate-system-common` (accessors nobody calls), `servo-lock` (not built),
`exception_handler.c` (empty), build files, and the component tests, which only
start components. The tokens' randomness, the parsing of requests, the wording
and progress bar of pages, and their checks of a file's name and size are data
no property depends on.

Failures of the set-up that are not modelled: heap exhaustion where the result
is used without a check (`linear_lock_create` returns NULL without an interface
when its timer cannot be created, the peer registry is used before it is
compared with NULL, a delegate queue or task that was not created), the results
of `discovery_service_init` and `message_codec_init`, and the services'
`ota_service_init` and `http_server_init`, whose failures `app_main` ignores. The
checks of the display's driver and the GUI's queues are not steps of their own:
their aborts are those of the steps of `app_main` they fall into. The set-up of
addresses and DHCP in `wifi_init_softap`, which may end early with the radio on,
counts as done.

## 6. Plan

Order chosen by what hurts most when it goes wrong: lock, upload, start-up,
sessions and display first; then image slots and restarts, the main loop's
clock, the web console, and the proofs (all done). What remains would add
little: a composition of `LinearLock` with `NodeBoot` through the command
handler multiplies two state spaces that meet in one event (a command before
the lock exists is in `NodeBoot`), as would one of `OtaUpload` with
`NodeBoot`: they meet in `ImageSlots`, whose steps both use and `OtaUpload` is
proved to implement.
