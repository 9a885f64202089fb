------------------------------- MODULE OtaUpload -------------------------------
(***************************************************************************)
(* A firmware upload on its way through the node: file_upload_handler of   *)
(* http_server.c fills buffers from a pool and posts events, the routine   *)
(* event loop (routine_event_handler.c) turns them into messages for the   *)
(* OTA queue, and ota_task of ota_service.c checks the header, writes the  *)
(* flash and restarts the node, posting every used buffer back.            *)
(*                                                                         *)
(* A buffer travels by reference: an event or a message names the buffer,  *)
(* and what ota_task writes is what the buffer holds at that moment.       *)
(* Posting an event blocks while the event loop's queue is full;           *)
(* ota_service_data_event does not wait, so a message to a full OTA queue  *)
(* is lost, with its buffer.                                               *)
(***************************************************************************)
EXTENDS Integers, Sequences, FiniteSets

CONSTANTS
    Buffers,               \* the pool (TOTAL_CHUNK_BUFFERS = 3 in the source)
    OTA_QUEUE_LENGTH,      \* 3 in the source
    EVENT_QUEUE_LENGTH,    \* queue of the event loop
    Chunks,                \* chunks of a firmware file
    Versions,              \* versions a file may carry, in the order of strcmp
    RunningVersion,        \* version of the running image
    LastInvalid,           \* version of the last image that was rolled back
    DescriptionReadable,   \* the running image's description can be read
    MaxUploads,            \* bound: uploads in one behaviour
    MaxFaults              \* bound: failing flash operations in one behaviour

ASSUME UploadAssumption ==
    /\ IsFiniteSet(Buffers) /\ Buffers # {} /\ "none" \notin Buffers
    /\ {OTA_QUEUE_LENGTH, EVENT_QUEUE_LENGTH, Chunks} \subseteq Nat \ {0}
    /\ Versions \subseteq Nat /\ {RunningVersion, LastInvalid} \subseteq Nat
    /\ DescriptionReadable \in BOOLEAN
    /\ {MaxUploads, MaxFaults} \subseteq Nat

VARIABLES
    pool,        \* http_server.buffer_queue, as a set
    memory,      \* http_server.recv_buf: what each buffer holds
    lost,        \* history: buffers nobody will ever return
    registered,  \* how many of Registrations http_server_init has made
    httpd,       \* the upload handler: "idle", "get" or "recv"
    held,        \* the buffer it has taken from the pool, or "none"
    upload,      \* the file being received: [id, version, next]
    events,      \* queue of the routine event loop
    ota_queue,   \* ota_service_state.ota_queue
    state,       \* ota_service_state.state
    image_header_was_checked,
    handle,      \* the OTA handle in the flash driver: "none" or "open"
    written,     \* chunks written through the open handle
    used,        \* buffer ota_task is about to post back, or "none"
    boot,        \* contents selected for the next boot, or <<>>
    faults       \* flash operations that have failed

http == <<httpd, held, upload, memory>>
ota == <<state, image_header_was_checked, handle, written, used, boot, faults>>
vars == <<pool, lost, registered, http, events, ota_queue, ota>>

Chunk == [upload : 1..MaxUploads, version : Versions, index : 1..Chunks, whole : BOOLEAN]
Garbage == [upload |-> 0, version |-> 0, index |-> 0, whole |-> FALSE]

Event(id, b) == [id |-> id, buffer |-> b]
EventIds == {"STARTED", "CHUNK", "FAILED", "COMPLETE", "BUFFER_USED"}
MessageIds == {"STARTING", "PACKET", "COMPLETION"}

Registrations == <<"STARTED", "CHUNK", "FAILED", "COMPLETE">>
Registered(id) == \E i \in 1..registered : Registrations[i] = id

Running == boot = <<>>       \* esp_restart ends everything

Post(e) == Len(events) < EVENT_QUEUE_LENGTH /\ events' = Append(events, e)

-----------------------------------------------------------------------------
(* http_server_init has started the server and registered the URIs before  *)
(* it registers the events the handler posts.                              *)
http_server_init ==
    /\ registered < Len(Registrations)
    /\ registered' = registered + 1
    /\ UNCHANGED <<pool, lost, http, events, ota_queue, ota>>

-----------------------------------------------------------------------------
(***************************************************************************)
(* file_upload_handler.                                                    *)
(***************************************************************************)
UploadStarts(v) ==
    /\ httpd = "idle"
    /\ upload.id < MaxUploads
    /\ Post(Event("STARTED", "none"))
    /\ upload' = [id |-> upload.id + 1, version |-> v, next |-> 1]
    /\ httpd' = "get"
    /\ UNCHANGED <<pool, lost, registered, held, memory, ota_queue, ota>>

(* Mutant: the buffer stays in the pool while it is being filled. *)
get_chunk_buffer_shared ==
    /\ httpd = "get"
    /\ \E b \in pool : pool' = pool /\ held' = b
    /\ httpd' = "recv"
    /\ UNCHANGED <<lost, registered, upload, memory, events, ota_queue, ota>>

(* Waits for a buffer without a time limit. *)
get_chunk_buffer_from_pool ==
    /\ httpd = "get"
    /\ \E b \in pool : pool' = pool \ {b} /\ held' = b
    /\ httpd' = "recv"
    /\ UNCHANGED <<lost, registered, upload, memory, events, ota_queue, ota>>

(* httpd_req_recv returned data; it may be less than a whole buffer. *)
ChunkReceived(whole) ==
    /\ httpd = "recv"
    /\ upload.next <= Chunks
    /\ memory' = [memory EXCEPT ![held] =
           [upload |-> upload.id, version |-> upload.version,
            index |-> upload.next, whole |-> whole]]
    /\ Post(Event("CHUNK", held))
    /\ upload' = [upload EXCEPT !.next = @ + 1]
    /\ held' = "none"
    /\ httpd' = "get"
    /\ UNCHANGED <<pool, lost, registered, ota_queue, ota>>

(* The handler is left with a buffer in hand, and keeps it. *)
HandlerReturns(id) ==
    /\ httpd = "recv"
    /\ Post(Event(id, "none"))
    /\ lost' = lost \cup {held}
    /\ held' = "none"
    /\ httpd' = "idle"
    /\ UNCHANGED <<pool, registered, upload, ota_queue, ota>>

(* httpd_req_recv failed (the buffer may have been written to). *)
ReceiveFailed ==
    /\ HandlerReturns("FAILED")
    /\ memory' = [memory EXCEPT ![held] = Garbage]

(* httpd_req_recv returned 0: the end of the file, or a closed connection. *)
ReceiveComplete ==
    /\ HandlerReturns("COMPLETE")
    /\ UNCHANGED memory

file_upload_handler ==
    \/ get_chunk_buffer_from_pool
    \/ \E whole \in BOOLEAN : ChunkReceived(whole)
    \/ ReceiveFailed
    \/ ReceiveComplete

-----------------------------------------------------------------------------
(***************************************************************************)
(* The routine event loop, one event at a time.                            *)
(***************************************************************************)
(* Mutant: a message is queued whether there is room or not. *)
ota_service_data_event_unbounded(id, b) ==
    ota_queue' = Append(ota_queue, Event(id, b)) /\ UNCHANGED lost

(* Mutant: a message that does not fit replaces the newest one. *)
ota_service_data_event_overwrites(id, b) ==
    IF Len(ota_queue) < OTA_QUEUE_LENGTH
    THEN ota_queue' = Append(ota_queue, Event(id, b)) /\ UNCHANGED lost
    ELSE /\ ota_queue' = [ota_queue EXCEPT ![Len(ota_queue)] = Event(id, b)]
         /\ UNCHANGED lost

(* xQueueSend with no waiting; the caller ignores the result. *)
ota_service_data_event(id, b) ==
    IF Len(ota_queue) < OTA_QUEUE_LENGTH
    THEN ota_queue' = Append(ota_queue, Event(id, b)) /\ UNCHANGED lost
    ELSE ota_queue' = ota_queue /\ lost' = lost \cup ({b} \ {"none"})

(* An event that nobody is registered for is dropped, with its buffer. *)
EventUnhandled ==
    LET e == Head(events) IN
    /\ e.id # "BUFFER_USED" /\ ~Registered(e.id)
    /\ lost' = lost \cup ({e.buffer} \ {"none"})
    /\ UNCHANGED <<pool, ota_queue>>

routine_http_server_events_handler ==
    LET e == Head(events) IN
    /\ Registered(e.id)
    /\ \/ e.id = "STARTED" /\ ota_service_data_event("STARTING", "none")
       \/ e.id = "CHUNK" /\ ota_service_data_event("PACKET", e.buffer)
       \/ e.id = "FAILED" /\ UNCHANGED <<ota_queue, lost>>
       \/ e.id = "COMPLETE" /\ ota_service_data_event("COMPLETION", "none")
    /\ UNCHANGED pool

(* Mutant: the buffer is not given back to the pool. *)
routine_ota_keeps_buffer ==
    /\ Head(events).id = "BUFFER_USED"
    /\ UNCHANGED <<pool, ota_queue, lost>>

(* BUFFER_USED: http_server_return_chunk_buffer. *)
routine_ota_service_events_handler ==
    /\ Head(events).id = "BUFFER_USED"
    /\ pool' = pool \cup {Head(events).buffer}
    /\ UNCHANGED <<ota_queue, lost>>

routine_event_handler ==
    /\ events # <<>>
    /\ events' = Tail(events)
    /\ \/ EventUnhandled
       \/ routine_http_server_events_handler
       \/ routine_ota_service_events_handler
    /\ UNCHANGED <<registered, http, ota>>

-----------------------------------------------------------------------------
(***************************************************************************)
(* The flash driver, as ota_task sees it.  A failing operation is drawn    *)
(* from a budget.                                                          *)
(***************************************************************************)
Works == UNCHANGED faults
Fails == faults < MaxFaults /\ faults' = faults + 1

WholeImage(w) ==
    /\ Len(w) = Chunks
    /\ \A i \in 1..Chunks : w[i].index = i /\ w[i].version = w[1].version

(* esp_ota_write refuses a handle that is not open. *)
WriteSucceeds(b) ==
    /\ handle' = "open"
    /\ written' = Append(written, memory[b])

WriteFails ==       \* esp_ota_abort frees the handle
    /\ handle' = "none"
    /\ written' = <<>>

-----------------------------------------------------------------------------
(***************************************************************************)
(* ota_task: one message per step, then the used buffer is posted back.    *)
(***************************************************************************)
(* strcmp(running, new) < 0.  A version is numbered by its place in the    *)
(* order of strcmp: what is newer here is a string that sorts later, so    *)
(* "1.10.0" is older than "1.9.0".                                         *)
is_firmware_updated(new_version) == new_version > RunningVersion

(* Mutant: the version that was rolled back is not recognised. *)
is_it_last_invalid_app_never(new_version) == FALSE

is_it_last_invalid_app(new_version) == new_version = LastInvalid

(* Mutant: any other version than the invalid one is accepted. *)
HeaderVerdictsAnyVersion(chunk) ==
    IF ~chunk.whole THEN {FALSE}
    ELSE {~is_it_last_invalid_app(chunk.version)}

(* What the header check may say of a first packet: it compares with an    *)
(* uninitialised buffer when the running description cannot be read, and   *)
(* takes whatever bytes it finds for a header when the packet is not the   *)
(* start of a file.                                                        *)
HeaderVerdicts(chunk) ==
    IF ~chunk.whole THEN {FALSE}
    ELSE IF chunk.index # 1 THEN BOOLEAN
    ELSE {newer /\ ~is_it_last_invalid_app(chunk.version) :
            newer \in IF DescriptionReadable
                      THEN {is_firmware_updated(chunk.version)} ELSE BOOLEAN}

OtaReceive(id) ==
    /\ used = "none"
    /\ ota_queue # <<>>
    /\ Head(ota_queue).id = id
    /\ ota_queue' = Tail(ota_queue)
    /\ UNCHANGED <<pool, lost, registered, http, events>>

(* IDLE waits for the start of a transfer and for nothing else. *)
IdleStarts ==
    /\ state = "IDLE"
    /\ OtaReceive("STARTING")
    /\ \/ Works /\ state' = "ACTIVE"      \* esp_ota_get_next_update_partition
       \/ Fails /\ state' = "IDLE"
    /\ UNCHANGED <<image_header_was_checked, handle, written, used, boot>>

(* A message that means nothing in the present state. *)
Ignored ==
    \/ /\ state = "IDLE"
       /\ OtaReceive("COMPLETION")
       /\ UNCHANGED ota
    \/ /\ state = "ACTIVE"
       /\ OtaReceive("STARTING")
       /\ UNCHANGED ota
    \/ /\ state = "IDLE"
       /\ OtaReceive("PACKET")
       /\ used' = Head(ota_queue).buffer
       /\ UNCHANGED <<state, image_header_was_checked, handle, written, boot, faults>>

(* The first packet: header check, esp_ota_begin and the first write. *)
PacketWithHeader ==
    /\ state = "ACTIVE"
    /\ ~image_header_was_checked
    /\ OtaReceive("PACKET")
    /\ used' = Head(ota_queue).buffer
    /\ LET b == Head(ota_queue).buffer IN
       \/ /\ FALSE \in HeaderVerdicts(memory[b])
          /\ state' = "IDLE"
          /\ Works
          /\ UNCHANGED <<image_header_was_checked, handle, written>>
       \/ /\ TRUE \in HeaderVerdicts(memory[b])
          /\ image_header_was_checked' = TRUE
          /\ \/ Works /\ state' = "ACTIVE" /\ WriteSucceeds(b)
             \/ Fails /\ state' = "IDLE" /\ WriteFails      \* begin or write
             \/ /\ memory[b].index # 1                      \* no image magic
                /\ Works /\ state' = "IDLE" /\ WriteFails
    /\ UNCHANGED boot

(* Mutant: a failed write leaves the task active and the handle open. *)
PacketKeepsHandle ==
    /\ state = "ACTIVE"
    /\ image_header_was_checked
    /\ OtaReceive("PACKET")
    /\ used' = Head(ota_queue).buffer
    /\ LET b == Head(ota_queue).buffer IN
       \/ handle = "open" /\ Works /\ WriteSucceeds(b) /\ UNCHANGED state
       \/ handle = "open" /\ Fails /\ state' = "IDLE" /\ UNCHANGED <<handle, written>>
       \/ handle = "none" /\ Works /\ WriteFails /\ state' = "IDLE"
    /\ UNCHANGED <<image_header_was_checked, boot>>

(* A later packet is written as it comes. *)
Packet ==
    /\ state = "ACTIVE"
    /\ image_header_was_checked
    /\ OtaReceive("PACKET")
    /\ used' = Head(ota_queue).buffer
    /\ LET b == Head(ota_queue).buffer IN
       \/ handle = "open" /\ Works /\ WriteSucceeds(b) /\ UNCHANGED state
       \/ handle = "open" /\ Fails /\ WriteFails /\ state' = "IDLE"
       \/ handle = "none" /\ Works /\ WriteFails /\ state' = "IDLE"
    /\ UNCHANGED <<image_header_was_checked, boot>>

(* esp_ota_end frees the handle and validates the image; a whole one is    *)
(* selected for the next boot and the node restarts.                       *)
Completion ==
    /\ state = "ACTIVE"
    /\ OtaReceive("COMPLETION")
    /\ \/ /\ handle = "open" /\ WholeImage(written)
          /\ Works
          /\ boot' = written
          /\ UNCHANGED state
       \/ /\ handle = "open" /\ WholeImage(written)      \* end or set_boot_partition
          /\ Fails
          /\ state' = "IDLE"
          /\ UNCHANGED boot
       \/ /\ ~(handle = "open" /\ WholeImage(written))
          /\ Works
          /\ state' = "IDLE"
          /\ UNCHANGED boot
    /\ handle' = "none"
    /\ written' = <<>>
    /\ UNCHANGED <<image_header_was_checked, used>>

PostBufferUsed ==
    /\ used # "none"
    /\ Post(Event("BUFFER_USED", used))
    /\ used' = "none"
    /\ UNCHANGED <<pool, lost, registered, http, ota_queue, state, image_header_was_checked, handle,
                   written, boot, faults>>

ota_task ==
    IdleStarts \/ Ignored \/ PacketWithHeader \/ Packet \/ Completion \/ PostBufferUsed

-----------------------------------------------------------------------------
(* http_server_init has filled the pool and started the server,            *)
(* ota_service_init made the queue and registered its events.              *)
Init ==
    /\ pool = Buffers
    /\ memory = [b \in Buffers |-> Garbage]
    /\ lost = {}
    /\ registered = 0
    /\ httpd = "idle"
    /\ held = "none"
    /\ upload = [id |-> 0, version |-> RunningVersion, next |-> 1]
    /\ events = <<>>
    /\ ota_queue = <<>>
    /\ state = "IDLE"
    /\ image_header_was_checked = FALSE
    /\ handle = "none"
    /\ written = <<>>
    /\ used = "none"
    /\ boot = <<>>
    /\ faults = 0

Next ==
    /\ Running
    /\ \/ http_server_init
       \/ \E v \in Versions : UploadStarts(v)
       \/ file_upload_handler
       \/ routine_event_handler
       \/ ota_task

Spec == Init /\ [][Next]_vars

(* Every task the scheduler can run goes on, and httpd_req_recv returns in *)
(* the end (data, end of file, or its receive timeout).                    *)
Fairness ==
    /\ WF_vars(Running /\ file_upload_handler)
    /\ WF_vars(Running /\ routine_event_handler)
    /\ WF_vars(Running /\ ota_task)

FairSpec == Spec /\ Fairness

-----------------------------------------------------------------------------
(* Every variable holds a value its C type and its writers allow; neither  *)
(* queue outgrows its capacity.                                            *)
TypeOK ==
    /\ pool \subseteq Buffers /\ lost \subseteq Buffers
    /\ registered \in 0..Len(Registrations)
    /\ memory \in [Buffers -> Chunk \cup {Garbage}]
    /\ httpd \in {"idle", "get", "recv"}
    /\ held \in Buffers \cup {"none"}
    /\ upload \in [id : 0..MaxUploads, version : Versions \cup {RunningVersion},
                   next : 1..Chunks + 1]
    /\ events \in Seq([id : EventIds, buffer : Buffers \cup {"none"}])
    /\ Len(events) <= EVENT_QUEUE_LENGTH
    /\ ota_queue \in Seq([id : MessageIds, buffer : Buffers \cup {"none"}])
    /\ Len(ota_queue) <= OTA_QUEUE_LENGTH
    /\ state \in {"IDLE", "ACTIVE"}
    /\ image_header_was_checked \in BOOLEAN
    /\ handle \in {"none", "open"}
    /\ written \in Seq(Chunk)
    /\ used \in Buffers \cup {"none"}
    /\ boot \in Seq(Chunk)
    /\ faults \in 0..MaxFaults

(* The places a buffer can be in, each with the number of times it is there. *)
Places(b) ==
    LET in(q) == Cardinality({i \in DOMAIN q : q[i].buffer = b})
        is(x) == IF x THEN 1 ELSE 0
    IN is(b \in pool) + is(b \in lost) + is(held = b) + is(used = b)
         + in(events) + in(ota_queue)

(* Passing buffers by reference is safe: each one is in exactly one place  *)
(* (pool, upload handler, an event, a message, ota_task, lost), so none is *)
(* refilled while it waits to be written, returned twice or forgotten.     *)
BuffersConserved == \A b \in Buffers : Places(b) = 1

(* The chunks of one upload reach the flash in the order they were         *)
(* received, each at most once.                                            *)
ChunksInOrder ==
    \A i, j \in DOMAIN written :
        i < j /\ written[i].upload = written[j].upload => written[i].index < written[j].index

(* The node restarts only into a whole image of one version, newer than    *)
(* the running one (in the order of strcmp) and not the one that was       *)
(* rolled back, although a header is checked once and later uploads go     *)
(* unchecked.                                                              *)
BootsOnlyNewerWholeImage ==
    boot # <<>> =>
        /\ WholeImage(boot)
        /\ is_firmware_updated(boot[1].version)
        /\ ~is_it_last_invalid_app(boot[1].version)

(* Every way back to IDLE has freed the handle esp_ota_begin opened.       *)
IdleHoldsNoHandle == state = "IDLE" => handle = "none"

(* The slots as ImageSlots knows them, taken at the outcome of an update:  *)
(* the running image has proved itself, the spare one holds the image that *)
(* was rolled back until an update ends that esp_ota_begin was called for. *)
SpareVersion == IF image_header_was_checked /\ handle = "none" THEN 0 ELSE LastInvalid
SlotsNow ==
    [s \in {0, 1} |->
        IF s = 0 THEN [version |-> RunningVersion, state |-> "VALID"]
        ELSE IF Running THEN [version |-> SpareVersion, state |-> "ABORTED"]
        ELSE [version |-> boot[1].version, state |-> "PENDING_VERIFY"]]

Slots == INSTANCE ImageSlots
    WITH ShippedVersion <- RunningVersion, Broken <- {},
         slots <- SlotsNow, running <- IF Running THEN 0 ELSE 1

(* An upload, message by message and with everything that can go wrong on  *)
(* its way, does to the slots what ImageSlots and NodeBoot say in one      *)
(* step: nothing, or it spoils the spare slot, or installs a newer version *)
(* and restarts.                                                           *)
ImplementsImageSlots ==
    [][Slots!SpoilSpare \/ \E v \in Versions : Slots!Install(v)]_(Slots!images)

(* The upload handler waits for a buffer for ever only when every buffer   *)
(* has been lost: the hand-over between handler, event loop and ota_task   *)
(* never stalls by itself.                                                 *)
WaitsOnlyForLostBuffers ==
    (httpd = "get") ~> (httpd # "get" \/ ~Running \/ lost = Buffers)

-----------------------------------------------------------------------------
(* What the comments say and the code does not do.                         *)

(* "the first buffer will always be retereived so no risk". *)
UploadGetsABuffer == (httpd = "get") ~> (httpd # "get" \/ ~Running)

(* "When data arrival message comes it tries to get handle and then goes   *)
(* to active [...] on any failure in active state, it comes back here":    *)
(* an update that failed can be repeated, as the page offers.  When a      *)
(* transfer has been announced and its first packet starts a good file,    *)
(* an update that has no handle yet gets one, unless the flash fails.      *)
StartsUpdate(chunk) ==
    /\ chunk.index = 1 /\ chunk.whole
    /\ is_firmware_updated(chunk.version)
    /\ ~is_it_last_invalid_app(chunk.version)

FailedUpdateCanBeRepeated ==
    [][/\ state = "ACTIVE" /\ handle = "none"
       /\ used = "none" /\ used' # "none" /\ StartsUpdate(memory[used'])
       /\ faults' = faults
       => handle' = "open"]_vars
===============================================================================
