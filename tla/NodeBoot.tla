------------------------------- MODULE NodeBoot -------------------------------
(***************************************************************************)
(* The node from power-up to serving and back to power-up: app_main of     *)
(* gate-node.c, the event handlers and the delegate task of                *)
(* routine_event_handler.c, the Wi-Fi set-up of softap_service.c and the   *)
(* start of ota_service.c, with the main loop's clock (MainLoop) and the   *)
(* image slots (ImageSlots).  The discovery service is external: a         *)
(* discovery ends with the number of peers it found on its channel.        *)
(*                                                                         *)
(* app_main starts a discovery and sleeps.  The event loop reacts to every *)
(* result by handing a job to the delegate task: the next channel if no    *)
(* peer answered, the access point if one did.  Once the access point is   *)
(* up, app_main starts the services, the image counts as good, and the     *)
(* discovery is repeated now and then.  A panic, a power loss and an       *)
(* installed update restart the node through the bootloader.               *)
(***************************************************************************)
EXTENDS Integers, Sequences, FiniteSets, ImageSlots, MainLoop

CONSTANTS
    MAX_WIFI_CHANNEL,        \* 13 in the source
    DELEGATE_QUEUE_LENGTH,   \* 4 in the source
    EVENT_QUEUE_LENGTH,      \* queue of the event loop
    MaxLosses,               \* bound: discoveries that miss a peer in range
    MaxFaults,               \* bound: steps in which calls of the set-up or the Wi-Fi fail
    MaxCommands,             \* bound: lock commands received
    MaxUploads,              \* bound: firmware uploads
    MaxPowerLosses           \* bound: power losses

ASSUME BootAssumption ==
    /\ {MAX_WIFI_CHANNEL, DELEGATE_QUEUE_LENGTH, EVENT_QUEUE_LENGTH} \subseteq Nat \ {0}
    /\ {MaxLosses, MaxFaults, MaxCommands, MaxUploads, MaxPowerLosses} \subseteq Nat

VARIABLES
    main,            \* how far app_main is
    home,            \* channel of the home node
    radio,           \* channel of the Wi-Fi driver, 0 while it is stopped
    transport,       \* ESP-NOW transport: "up" or "down"
    discovering,     \* a discovery is running
    silent,          \* history: a scan ended because start_discovery failed
    events,          \* queue of the event loop
    channel,         \* static channel of routine_discovery_events_handler
    delegate_queue,  \* jobs for the delegate task
    delegate,        \* the job it is in the middle of, or Idle
    netifs,          \* the default interfaces have been created
    ap,              \* channel the access point was configured with, or Off
    signalled,       \* SYNC_EVENT_DISCOVERY_COMPLETE
    node,            \* "up", or "aborted" by an assertion or a null call
    budget           \* what is left of each bound

jobs == <<channel, delegate_queue, delegate>>
wifi == <<radio, transport, netifs, ap>>
scan == <<discovering, silent>>
volatile == <<main, scan, events, jobs, wifi, signalled, node, clock>>
vars == <<volatile, images, home, budget>>
steady == <<main, clock, images, home>>     \* what most handlers leave alone

ScanChannels == 1..MAX_WIFI_CHANNEL
Off == -1
Idle == [func |-> "none", channel |-> 0]
Jobs == [func : {"restart_discovery", "restart_wifi_apsta"}, channel : 0..MAX_WIFI_CHANNEL]
EventKinds == {"found", "nobody", "command", "validate", "upload"}
Phases == <<"power", "flash", "station", "transport", "codec", "lock_created", "lock_ready",
            "waiting", "found", "ota_ready", "serving">>
Reached(p) == \E i, j \in DOMAIN Phases : i <= j /\ Phases[i] = p /\ Phases[j] = main

Spend(what) ==
    /\ budget[what] > 0
    /\ budget' = [budget EXCEPT ![what] = @ - 1]

Post(e) == Len(events) < EVENT_QUEUE_LENGTH /\ events' = Append(events, e)

(* What a restart finds. *)
PowerUp ==
    /\ main' = "power"
    /\ radio' = 0
    /\ transport' = "down"
    /\ discovering' = FALSE
    /\ silent' = FALSE
    /\ events' = <<>>
    /\ channel' = 0
    /\ delegate_queue' = <<>>
    /\ delegate' = Idle
    /\ netifs' = FALSE
    /\ ap' = Off
    /\ signalled' = FALSE
    /\ node' = "up"
    /\ ClockReset

-----------------------------------------------------------------------------
(***************************************************************************)
(* app_main.                                                               *)
(***************************************************************************)
Proceed(p, q) ==
    /\ main = p
    /\ main' = q
    /\ UNCHANGED <<jobs, netifs, ap, node, images, home>>

(* A step that does nothing the rest of the model sees. *)
Pass(p, q) ==
    Proceed(p, q) /\ UNCHANGED <<radio, transport, scan, events, signalled, clock, budget>>

(* ESP_ERROR_CHECK of a call of the set-up that failed. *)
CheckFails(p) ==
    /\ main = p
    /\ Spend("faults")
    /\ node' = "aborted"
    /\ UNCHANGED <<steady, scan, events, jobs, wifi, signalled>>

(* Flash, GUI and event loops. *)
esp_flash_init == Pass("power", "flash") \/ CheckFails("power")

(* The radio starts as a station on channel 1. *)
wifi_station_init ==
    \/ /\ Proceed("flash", "station")
       /\ radio' = 1
       /\ UNCHANGED <<transport, scan, events, signalled, clock, budget>>
    \/ CheckFails("flash")

(* Only ESP_FAIL is noticed; after another error app_main goes on without  *)
(* a transport.                                                            *)
esp_now_transport_init ==
    \/ /\ Proceed("station", "transport")
       /\ \/ transport' = "up" /\ UNCHANGED budget
          \/ transport' = "down" /\ Spend("faults")
       /\ UNCHANGED <<radio, scan, events, signalled, clock>>
    \/ CheckFails("station")

message_codec_init == Pass("transport", "codec")

(* linear_lock_create up to the publication of the interface. *)
linear_lock_create == Pass("codec", "lock_created") \/ CheckFails("codec")

lock_drive_init == Pass("lock_created", "lock_ready")

(* start_discovery, whose result is not looked at. *)
start_first_discovery ==
    /\ Proceed("lock_ready", "waiting")
    /\ \/ discovering' = TRUE /\ UNCHANGED <<silent, budget>>
       \/ silent' = TRUE /\ Spend("faults") /\ UNCHANGED discovering
    /\ UNCHANGED <<radio, transport, events, signalled, clock>>

(* sync_manager_signal_wait, which clears the bit, and the first reading   *)
(* of the clock.  A broken image does not get this far.                    *)
discovery_awaited ==
    /\ Proceed("waiting", "found")
    /\ Version \notin Broken
    /\ signalled
    /\ signalled' = FALSE
    /\ LoopEntered
    /\ UNCHANGED <<radio, transport, scan, events, budget>>

(* Mutant: an image on trial is not reported. *)
ota_service_init_silent == Pass("found", "ota_ready")

(* An image on trial asks to be validated. *)
ota_service_init ==
    /\ Proceed("found", "ota_ready")
    /\ IF OnTrial THEN Post("validate") ELSE UNCHANGED events
    /\ UNCHANGED <<radio, transport, scan, signalled, clock, budget>>

http_server_init == Pass("ota_ready", "serving")

app_main ==
    \/ esp_flash_init \/ wifi_station_init \/ esp_now_transport_init
    \/ message_codec_init \/ linear_lock_create \/ lock_drive_init
    \/ start_first_discovery \/ discovery_awaited
    \/ ota_service_init \/ http_server_init

(* A tick of the clock app_main reads once it has been woken. *)
TimePasses ==
    /\ Reached("found")
    /\ ticks < MaxTicks
    /\ Tick
    /\ UNCHANGED <<main, scan, events, jobs, wifi, signalled, node, images, home, budget>>

(* An iteration of the main loop: when it is time, start_discovery, which  *)
(* may fail unnoticed.                                                     *)
main_loop ==
    /\ main = "serving"
    /\ Iteration
    /\ \/ /\ discovering' = (discovering \/ rediscoveries' # rediscoveries)
          /\ UNCHANGED budget
       \/ /\ rediscoveries' # rediscoveries
          /\ Spend("faults")
          /\ UNCHANGED discovering
    /\ UNCHANGED <<main, silent, events, jobs, wifi, signalled, node, images, home>>

-----------------------------------------------------------------------------
(***************************************************************************)
(* The discovery service and the home node (external).                     *)
(***************************************************************************)
InRange == transport = "up" /\ radio = home

DiscoveryFinds ==
    /\ discovering /\ InRange
    /\ Post("found")
    /\ discovering' = FALSE
    /\ UNCHANGED <<silent, steady, wifi, jobs, signalled, node, budget>>

DiscoveryFindsNobody ==
    /\ discovering
    /\ IF InRange THEN Spend("losses") ELSE UNCHANGED budget
    /\ Post("nobody")
    /\ discovering' = FALSE
    /\ UNCHANGED <<silent, steady, wifi, jobs, signalled, node>>

DiscoveryCompletes == DiscoveryFinds \/ DiscoveryFindsNobody

(* A command of the home node, decoded once message_codec_init has run. *)
CommandArrives ==
    /\ Reached("codec")
    /\ InRange
    /\ Spend("commands")
    /\ Post("command")
    /\ UNCHANGED <<steady, wifi, scan, jobs, signalled, node>>

(* The web console can be reached. *)
Serving == main = "serving" /\ node = "up" /\ ap # Off /\ radio # 0

(* A firmware upload; its events and what the OTA task does with them step *)
(* by step are the subject of OtaUpload, here they are one event.          *)
UploadArrives ==
    /\ Serving
    /\ Spend("uploads")
    /\ Post("upload")
    /\ UNCHANGED <<steady, wifi, scan, jobs, signalled, node>>

-----------------------------------------------------------------------------
(***************************************************************************)
(* The event loop.                                                         *)
(***************************************************************************)
delegate_post(func, c) ==
    /\ Len(delegate_queue) < DELEGATE_QUEUE_LENGTH
    /\ delegate_queue' = Append(delegate_queue, [func |-> func, channel |-> c])

(* Mutant: the scan goes one channel too far. *)
NextChannelOffByOne == IF channel > MAX_WIFI_CHANNEL THEN 1 ELSE channel + 1

(* Mutant: the scan stops at the last channel instead of starting over. *)
NextChannelStops == IF channel + 1 > MAX_WIFI_CHANNEL THEN MAX_WIFI_CHANNEL ELSE channel + 1

NextChannel == IF channel + 1 > MAX_WIFI_CHANNEL THEN 1 ELSE channel + 1

(* Mutant: the job is dropped after the last channel. *)
NoPeerGivesUp ==
    /\ Head(events) = "nobody"
    /\ channel' = NextChannel
    /\ IF channel < MAX_WIFI_CHANNEL
       THEN delegate_post("restart_discovery", channel')
       ELSE UNCHANGED delegate_queue

NoPeer ==
    /\ Head(events) = "nobody"
    /\ channel' = NextChannel
    /\ delegate_post("restart_discovery", channel')

(* Mutant: the access point is configured for the channel after this one. *)
PeerFoundNextChannel ==
    /\ Head(events) = "found"
    /\ delegate_post("restart_wifi_apsta", NextChannel)
    /\ UNCHANGED channel

PeerFound ==
    /\ Head(events) = "found"
    /\ delegate_post("restart_wifi_apsta", channel)
    /\ UNCHANGED channel

routine_discovery_events_handler ==
    /\ events # <<>>
    /\ NoPeer \/ PeerFound
    /\ events' = Tail(events)
    /\ UNCHANGED <<steady, wifi, scan, delegate, signalled, node, budget>>

(* lock_interface->set_lock_open(), a null pointer before the lock exists. *)
routine_message_codec_events_handler ==
    /\ events # <<>>
    /\ Head(events) = "command"
    /\ events' = Tail(events)
    /\ node' = IF Reached("lock_created") THEN "up" ELSE "aborted"
    /\ UNCHANGED <<steady, wifi, scan, jobs, signalled, budget>>

(* The upload is refused, fails after it began to write, or succeeds.  A   *)
(* successful one restarts the node into the new image.                    *)
routine_http_server_events_handler ==
    /\ events # <<>>
    /\ Head(events) = "upload"
    /\ \/ /\ UNCHANGED images \/ SpoilSpare
          /\ events' = Tail(events)
          /\ UNCHANGED <<main, clock, wifi, scan, jobs, signalled, node>>
       \/ /\ \E v \in Versions : Install(v)
          /\ PowerUp
    /\ UNCHANGED <<home, budget>>

routine_ota_service_events_handler ==
    /\ events # <<>>
    /\ Head(events) = "validate"
    /\ events' = Tail(events)
    /\ ota_set_valid
    /\ UNCHANGED <<main, clock, home, wifi, scan, jobs, signalled, node, budget>>

routine_event_handler ==
    \/ routine_discovery_events_handler
    \/ routine_message_codec_events_handler
    \/ routine_ota_service_events_handler
    \/ routine_http_server_events_handler

-----------------------------------------------------------------------------
(***************************************************************************)
(* The delegate task: each job takes its first step at once and the rest   *)
(* after its delays.                                                       *)
(***************************************************************************)
delegate_run_task ==
    /\ delegate = Idle
    /\ delegate_queue # <<>>
    /\ delegate' = Head(delegate_queue)
    /\ delegate_queue' = Tail(delegate_queue)
    /\ \/ /\ delegate'.func = "restart_discovery"     \* esp_now_transport_deinit
          /\ transport' = "down"
          /\ UNCHANGED radio
       \/ /\ delegate'.func = "restart_wifi_apsta"    \* wifi_stop
          /\ radio' = 0
          /\ UNCHANGED transport
    /\ UNCHANGED <<steady, netifs, ap, scan, events, channel, signalled, node, budget>>

(* None of the results of wifi_set_channel, esp_now_transport_init and     *)
(* start_discovery is acted on, so any of the calls may fail unnoticed; a  *)
(* driver that is stopped has no channel to set.                           *)
delegated_to_task_restart_discovery_on_new_channel ==
    /\ delegate.func = "restart_discovery"
    /\ \E failing \in SUBSET {"channel", "transport", "start"} :
          /\ IF failing = {} THEN UNCHANGED budget ELSE Spend("faults")
          /\ radio' = IF radio = 0 \/ "channel" \in failing THEN radio ELSE delegate.channel
          /\ transport' = IF "transport" \in failing THEN "down" ELSE "up"
          /\ discovering' = (discovering \/ "start" \notin failing)
          /\ silent' = (silent \/ "start" \in failing)
    /\ delegate' = Idle
    /\ UNCHANGED <<steady, netifs, ap, events, channel, delegate_queue, signalled, node>>

(* wifi_init_softap: creating the default interfaces a second time fails   *)
(* its assertion, a failing esp_wifi_set_mode or esp_wifi_start aborts as  *)
(* well, and a failing esp_wifi_set_config leaves the driver stopped.  The *)
(* set-up of addresses and DHCP that follows may end early, with the radio *)
(* on.                                                                     *)
wifi_init_softap(c) ==
    \/ /\ netifs
       /\ node' = "aborted"
       /\ UNCHANGED <<netifs, ap, radio, budget>>
    \/ /\ ~netifs
       /\ netifs' = TRUE
       /\ \/ /\ ap' = c
             /\ radio' \in IF c = 0 THEN ScanChannels ELSE {c}
             /\ UNCHANGED <<node, budget>>
          \/ Spend("faults") /\ UNCHANGED <<ap, radio, node>>
          \/ Spend("faults") /\ node' = "aborted" /\ UNCHANGED <<ap, radio>>

(* The event is signalled whatever wifi_init_softap returns. *)
delegated_to_task_restart_wifi_apsta ==
    /\ delegate.func = "restart_wifi_apsta"
    /\ wifi_init_softap(delegate.channel)
    /\ signalled' = (signalled \/ node' = "up")
    /\ delegate' = Idle
    /\ UNCHANGED <<steady, transport, scan, events, channel, delegate_queue>>

DelegateTask ==
    \/ delegate_run_task
    \/ delegated_to_task_restart_discovery_on_new_channel
    \/ delegated_to_task_restart_wifi_apsta

-----------------------------------------------------------------------------
(***************************************************************************)
(* Restarts.                                                               *)
(***************************************************************************)
(* An image that does not get as far as finding the home node. *)
BrokenImageCrashes ==
    /\ Version \in Broken
    /\ ~Reached("found")
    /\ node' = "aborted"
    /\ UNCHANGED <<steady, scan, events, jobs, wifi, signalled, budget>>

(* A panic restarts the node. *)
Restart ==
    /\ Bootload
    /\ PowerUp
    /\ UNCHANGED <<home, budget>>

PowerLoss ==
    /\ Spend("power")
    /\ Bootload
    /\ PowerUp
    /\ UNCHANGED home

-----------------------------------------------------------------------------
(* The home node is on any channel. *)
Init ==
    /\ main = "power"
    /\ radio = 0
    /\ transport = "down"
    /\ discovering = FALSE
    /\ silent = FALSE
    /\ events = <<>>
    /\ channel = 0
    /\ delegate_queue = <<>>
    /\ delegate = Idle
    /\ netifs = FALSE
    /\ ap = Off
    /\ signalled = FALSE
    /\ node = "up"
    /\ ClockInit
    /\ Shipped
    /\ home \in ScanChannels
    /\ budget = [losses |-> MaxLosses, faults |-> MaxFaults, commands |-> MaxCommands,
                 uploads |-> MaxUploads, power |-> MaxPowerLosses]

Operation ==
    \/ app_main \/ TimePasses \/ main_loop \/ BrokenImageCrashes
    \/ DiscoveryCompletes \/ CommandArrives \/ UploadArrives
    \/ routine_event_handler \/ DelegateTask

Next ==
    \/ node = "up" /\ Operation
    \/ node = "aborted" /\ Restart
    \/ PowerLoss

Spec == Init /\ [][Next]_vars

(* The tasks are scheduled, every discovery ends and a peer that answers   *)
(* is counted, a broken image crashes and a panic restarts; nothing makes  *)
(* commands, uploads or power losses happen, nor the clock tick or the     *)
(* main loop start another discovery.                                      *)
Fairness ==
    /\ WF_vars(node = "up" /\ app_main)
    /\ WF_vars(node = "up" /\ BrokenImageCrashes)
    /\ WF_vars(node = "up" /\ DiscoveryCompletes)
    /\ WF_vars(node = "up" /\ routine_event_handler)
    /\ WF_vars(node = "up" /\ DelegateTask)
    /\ WF_vars(node = "aborted" /\ Restart)

FairSpec == Spec /\ Fairness

-----------------------------------------------------------------------------
(* Every variable holds a value its writers allow; no queue outgrows its   *)
(* capacity.                                                               *)
TypeOK ==
    /\ \E i \in DOMAIN Phases : main = Phases[i]
    /\ home \in ScanChannels
    /\ radio \in 0..MAX_WIFI_CHANNEL
    /\ transport \in {"up", "down"}
    /\ {discovering, silent, netifs, signalled} \subseteq BOOLEAN
    /\ events \in Seq(EventKinds) /\ Len(events) <= EVENT_QUEUE_LENGTH
    /\ channel \in 0..MAX_WIFI_CHANNEL
    /\ delegate_queue \in Seq(Jobs) /\ Len(delegate_queue) <= DELEGATE_QUEUE_LENGTH
    /\ delegate \in Jobs \cup {Idle}
    /\ ap = Off \/ ap \in 0..MAX_WIFI_CHANNEL
    /\ node \in {"up", "aborted"}
    /\ budget \in [{"losses", "faults", "commands", "uploads", "power"} -> Nat]
    /\ slots \in [{0, 1} -> Images]
    /\ running \in {0, 1}
    /\ {ticks, previous_time, last, rediscoveries} \subseteq Nat
    /\ slept \in 0..Period

(* The steps of the scan that are under way: a running discovery, a result *)
(* in the event queue, a job waiting or being done.                        *)
One(b) == IF b THEN 1 ELSE 0
Results == {i \in DOMAIN events : events[i] \in {"found", "nobody"}}
InFlight == One(discovering) + Cardinality(Results) + Len(delegate_queue) + One(delegate # Idle)

(* The scan is one thread of control handed from task to task: while       *)
(* app_main sleeps exactly one step is under way until it is woken, so the *)
(* scan neither splits nor dies, whatever is missed and whatever fails     *)
(* other than start_discovery itself, which nobody looks at; later each    *)
(* step under way stems from a rediscovery of its own.                     *)
ScanIsOneThread ==
    node = "up" =>
        IF Reached("found")
        THEN InFlight <= rediscoveries
        ELSE InFlight = One(main = "waiting" /\ ~signalled /\ ~silent)

(* A channel the scan has moved to is handed on to the access point only   *)
(* if the peer was found there: through two queues and two tasks the       *)
(* static counter stays the channel the radio is tuned to, unless a call   *)
(* failed on the way.  (Of the channel before the first move, 0, see       *)
(* AccessPointOnPeersChannel.)                                             *)
AccessPointNearPeer ==
    ap \in ScanChannels /\ budget["faults"] = MaxFaults => ap = home

(* By the time an upload is looked at, the image that runs has proved      *)
(* itself (its validation was posted before the HTTP server was started):  *)
(* the slot an update overwrites is never the one the node may have to go  *)
(* back to.                                                                *)
UpdatesFromConfirmedImage == events # <<>> /\ Head(events) = "upload" => ~OnTrial

(* The version that has proved itself, and the one on trial. *)
Confirmed == IF OnTrial THEN slots[Spare].version ELSE Version
Trial == IF OnTrial THEN Version ELSE 0

(* Over any number of updates, failures and restarts the slots keep to     *)
(* UpdateContract: the slot that is not on trial is the confirmed image.   *)
Contract == INSTANCE UpdateContract WITH confirmed <- Confirmed, trial <- Trial
ImplementsUpdateContract == Contract!Spec

(* What no task gets the node out of: a failed esp_wifi_set_config leaves  *)
(* the driver stopped, a failed start_discovery leaves app_main asleep.    *)
ApFailed == netifs /\ ap = Off /\ node = "up"
ScanDied == silent /\ main = "waiting" /\ node = "up"

(* Every trial ends: an image either proves itself or is rolled back,      *)
(* unless its scan died.                                                   *)
TrialsEnd == (Trial # 0) ~> (Trial = 0 \/ ScanDied)

(* Wherever the home node is, whatever is missed, fails, arrives too early *)
(* or crashes (a command before there is a lock, a second access point, a  *)
(* broken image), the node gets back to where its web console can be       *)
(* reached, unless one of the two failures above has stopped it.           *)
ServesAgain == []<>(Serving \/ ApFailed \/ ScanDied)

-----------------------------------------------------------------------------
(* What an assertion and a comment say and the code does not do.           *)

(* assert(softap_netifs.sta_netif && softap_netifs.ap_netif): creating the *)
(* interfaces never fails.  (Nothing else aborts the node in this run: no  *)
(* commands, no faults, no broken image.)                                  *)
InterfacesCreated == node = "up"

(* "Passed as parameter, got after finding the peer at this channel": the  *)
(* access point is given the peer's channel.  (No call fails in this run.) *)
AccessPointOnPeersChannel == ap # Off => ap = home
===============================================================================
