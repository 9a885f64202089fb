---------------------------- MODULE OtaUploadProofs ----------------------------
(***************************************************************************)
(* Proofs about OtaUpload: buffers are conserved, chunks reach the flash   *)
(* in order, only a newer whole image is booted, an upload implements the  *)
(* step of ImageSlots, and what the loss of buffers comes to, for pools,   *)
(* queues and files of any size and any number of uploads and faults.      *)
(***************************************************************************)
EXTENDS OtaUpload, QueueCounting, SequenceTheorems

EventType ==
    [id : {"CHUNK", "BUFFER_USED"}, buffer : Buffers]
        \cup [id : {"STARTED", "FAILED", "COMPLETE"}, buffer : {"none"}]
MessageType ==
    [id : {"PACKET"}, buffer : Buffers]
        \cup [id : {"STARTING", "COMPLETION"}, buffer : {"none"}]
Cell == Chunk \cup {Garbage}

(* The parts of the type invariant that no other invariant is needed for;  *)
(* what an event or a message carries follows from its id.                 *)
UploadInv ==
    /\ pool \subseteq Buffers /\ lost \subseteq Buffers
    /\ registered \in 0..4
    /\ memory \in [Buffers -> Cell]
    /\ httpd \in {"idle", "get", "recv"}
    /\ held \in Buffers \cup {"none"}
    /\ httpd = "recv" <=> held # "none"
    /\ upload \in [id : 0..MaxUploads, version : Versions \cup {RunningVersion},
                   next : 1..Chunks + 1]
    /\ httpd # "idle" => upload.id # 0 /\ upload.version \in Versions
    /\ events \in Seq(EventType) /\ Len(events) <= EVENT_QUEUE_LENGTH
    /\ ota_queue \in Seq(MessageType) /\ Len(ota_queue) <= OTA_QUEUE_LENGTH
    /\ state \in {"IDLE", "ACTIVE"}
    /\ image_header_was_checked \in BOOLEAN
    /\ handle \in {"none", "open"}
    /\ used \in Buffers \cup {"none"}
    /\ faults \in 0..MaxFaults

LEMMA ConstantFacts ==
    /\ "none" \notin Buffers
    /\ OTA_QUEUE_LENGTH \in Nat \ {0} /\ EVENT_QUEUE_LENGTH \in Nat \ {0}
    /\ Chunks \in Nat \ {0} /\ MaxUploads \in Nat /\ MaxFaults \in Nat
    /\ Versions \subseteq Nat /\ RunningVersion \in Nat /\ LastInvalid \in Nat
BY UploadAssumption DEF UploadAssumption

LEMMA RegistrationFacts ==
    /\ Len(Registrations) = 4
    /\ registered \in 0..4 =>
          \A id : Registered(id) => id \in {"STARTED", "CHUNK", "FAILED", "COMPLETE"}
<1>1. Len(Registrations) = 4
  BY DEF Registrations
<1>2. \A i \in 1..4 : Registrations[i] \in {"STARTED", "CHUNK", "FAILED", "COMPLETE"}
  BY DEF Registrations
<1> QED
  BY <1>1, <1>2 DEF Registered

-----------------------------------------------------------------------------
(***************************************************************************)
(* The two queues, by what a step does to one of them.                     *)
(***************************************************************************)
Carry(b) == {e \in EventType \cup MessageType : e.buffer = b}

LEMMA PostFacts ==
    ASSUME UploadInv, NEW e \in EventType, Post(e)
    PROVE  /\ events' = Append(events, e)
           /\ events' \in Seq(EventType) /\ Len(events') <= EVENT_QUEUE_LENGTH
           /\ \A b : Count(events', Carry(b))
                        = Count(events, Carry(b)) + (IF e.buffer = b THEN 1 ELSE 0)
<1>1. events \in Seq(EventType) /\ events' = Append(events, e)
  BY DEF UploadInv, Post
<1>2. events' \in Seq(EventType) /\ Len(events') <= EVENT_QUEUE_LENGTH
  BY <1>1, ConstantFacts DEF Post
<1>3. ASSUME NEW b
      PROVE  Count(events', Carry(b)) = Count(events, Carry(b)) + (IF e.buffer = b THEN 1 ELSE 0)
  <2>1. e \in Carry(b) <=> e.buffer = b
    BY DEF Carry
  <2>2. Count(Append(events, e), Carry(b))
          = Count(events, Carry(b)) + (IF e \in Carry(b) THEN 1 ELSE 0)
    BY <1>1, CountAppend
  <2> QED
    BY <1>1, <2>1, <2>2
<1> QED
  BY <1>1, <1>2, <1>3

LEMMA EventTaken ==
    ASSUME UploadInv, events # <<>>, events' = Tail(events)
    PROVE  /\ Head(events) \in EventType
           /\ events' \in Seq(EventType) /\ Len(events') <= EVENT_QUEUE_LENGTH
           /\ \A b : Count(events', Carry(b))
                        = Count(events, Carry(b)) - (IF Head(events).buffer = b THEN 1 ELSE 0)
<1>1. events \in Seq(EventType)
  BY DEF UploadInv
<1>2. Head(events) \in EventType /\ events' \in Seq(EventType)
  BY <1>1
<1>3. Len(events') <= EVENT_QUEUE_LENGTH
  BY <1>1, ConstantFacts DEF UploadInv
<1>4. ASSUME NEW b
      PROVE  Count(events', Carry(b))
               = Count(events, Carry(b)) - (IF Head(events).buffer = b THEN 1 ELSE 0)
  <2>1. Head(events) \in Carry(b) <=> Head(events).buffer = b
    BY <1>2 DEF Carry
  <2>2. Count(Tail(events), Carry(b))
          = Count(events, Carry(b)) - (IF Head(events) \in Carry(b) THEN 1 ELSE 0)
    BY <1>1, CountTail
  <2> QED
    BY <2>1, <2>2
<1> QED
  BY <1>2, <1>3, <1>4

LEMMA MessageSent ==
    ASSUME UploadInv, NEW id, NEW x, Event(id, x) \in MessageType, ota_service_data_event(id, x)
    PROVE  /\ ota_queue' \in Seq(MessageType) /\ Len(ota_queue') <= OTA_QUEUE_LENGTH
           /\ lost' \subseteq Buffers
           /\ \/ /\ ota_queue' = Append(ota_queue, Event(id, x)) /\ UNCHANGED lost
                 /\ \A b : Count(ota_queue', Carry(b))
                              = Count(ota_queue, Carry(b)) + (IF x = b THEN 1 ELSE 0)
              \/ /\ UNCHANGED ota_queue
                 /\ lost' = lost \cup ({x} \ {"none"})
<1> DEFINE m == Event(id, x)
<1>0. m.buffer = x /\ m \in MessageType
  BY DEF Event
<1>1. ota_queue \in Seq(MessageType) /\ Len(ota_queue) <= OTA_QUEUE_LENGTH
  BY DEF UploadInv
<1>2. CASE Len(ota_queue) < OTA_QUEUE_LENGTH
  <2>1. ota_queue' = Append(ota_queue, m) /\ UNCHANGED lost
    BY <1>2 DEF ota_service_data_event
  <2> HIDE DEF m
  <2>2. ota_queue' \in Seq(MessageType) /\ Len(ota_queue') <= OTA_QUEUE_LENGTH
    BY <1>0, <1>1, <1>2, <2>1, ConstantFacts
  <2>3. ASSUME NEW b
        PROVE  Count(ota_queue', Carry(b)) = Count(ota_queue, Carry(b)) + (IF x = b THEN 1 ELSE 0)
    <3>1. m \in Carry(b) <=> x = b
      BY <1>0 DEF Carry
    <3>2. Count(Append(ota_queue, m), Carry(b))
            = Count(ota_queue, Carry(b)) + (IF m \in Carry(b) THEN 1 ELSE 0)
      BY <1>0, <1>1, CountAppend
    <3> QED
      BY <2>1, <3>1, <3>2
  <2> QED
    BY <2>1, <2>2, <2>3 DEF UploadInv, m
<1>3. CASE ~(Len(ota_queue) < OTA_QUEUE_LENGTH)
  <2>1. UNCHANGED ota_queue /\ lost' = lost \cup ({x} \ {"none"})
    BY <1>3 DEF ota_service_data_event
  <2>2. x \in Buffers \cup {"none"}
    BY <1>0 DEF MessageType
  <2> QED
    BY <1>1, <2>1, <2>2 DEF UploadInv
<1> QED
  BY <1>2, <1>3

LEMMA MessageTaken ==
    ASSUME UploadInv, NEW id, OtaReceive(id)
    PROVE  /\ Head(ota_queue) \in MessageType /\ ota_queue' \in Seq(MessageType)
           /\ Len(ota_queue') <= OTA_QUEUE_LENGTH
           /\ \A b : Count(ota_queue', Carry(b))
                        = Count(ota_queue, Carry(b)) - (IF Head(ota_queue).buffer = b THEN 1 ELSE 0)
<1>1. ota_queue \in Seq(MessageType) /\ ota_queue # <<>> /\ ota_queue' = Tail(ota_queue)
  BY DEF UploadInv, OtaReceive
<1>2. Head(ota_queue) \in MessageType /\ ota_queue' \in Seq(MessageType)
  BY <1>1
<1>3. Len(ota_queue') <= OTA_QUEUE_LENGTH
  BY <1>1, ConstantFacts DEF UploadInv
<1>4. ASSUME NEW b
      PROVE  Count(ota_queue', Carry(b))
               = Count(ota_queue, Carry(b)) - (IF Head(ota_queue).buffer = b THEN 1 ELSE 0)
  <2>1. Head(ota_queue) \in Carry(b) <=> Head(ota_queue).buffer = b
    BY <1>2 DEF Carry
  <2>2. Count(Tail(ota_queue), Carry(b))
          = Count(ota_queue, Carry(b)) - (IF Head(ota_queue) \in Carry(b) THEN 1 ELSE 0)
    BY <1>1, CountTail
  <2> QED
    BY <1>1, <2>1, <2>2
<1> QED
  BY <1>2, <1>3, <1>4

-----------------------------------------------------------------------------
(***************************************************************************)
(* Types.                                                                  *)
(***************************************************************************)
LEMMA UploadInitial == Init => UploadInv
<1>1. <<>> \in Seq(EventType) /\ <<>> \in Seq(MessageType) /\ Len(<<>>) = 0
  BY EmptySeq
<1>2. 0 <= EVENT_QUEUE_LENGTH /\ 0 <= OTA_QUEUE_LENGTH /\ 1 \in 1..Chunks + 1
      /\ 0 \in 0..MaxUploads /\ 0 \in 0..MaxFaults
  BY ConstantFacts
<1>3. SUFFICES ASSUME Init PROVE UploadInv
  OBVIOUS
<1>4. /\ events \in Seq(EventType) /\ Len(events) <= EVENT_QUEUE_LENGTH
      /\ ota_queue \in Seq(MessageType) /\ Len(ota_queue) <= OTA_QUEUE_LENGTH
  BY <1>1, <1>2, <1>3 DEF Init
<1>5. upload \in [id : 0..MaxUploads, version : Versions \cup {RunningVersion},
                  next : 1..Chunks + 1]
  BY <1>2, <1>3 DEF Init
<1>6. memory \in [Buffers -> Cell]
  BY <1>3 DEF Init, Cell
<1>7. /\ pool = Buffers /\ lost = {} /\ registered = 0 /\ httpd = "idle" /\ held = "none"
      /\ state = "IDLE" /\ image_header_was_checked = FALSE /\ handle = "none"
      /\ used = "none" /\ faults = 0
  BY <1>3 DEF Init
<1>8. 0 \in 0..4
  OBVIOUS
<1> QED
  BY <1>2, <1>4, <1>5, <1>6, <1>7, <1>8 DEF UploadInv

LEMMA HandlerStep ==
    ASSUME UploadInv, file_upload_handler \/ \E v \in Versions : UploadStarts(v)
    PROVE  UploadInv'
<1> USE DEF UploadInv
<1>1. CASE \E v \in Versions : UploadStarts(v)
  <2>1. PICK v \in Versions : UploadStarts(v)
    BY <1>1
  <2>2. Event("STARTED", "none") \in EventType
    BY DEF Event, EventType
  <2>3. events' \in Seq(EventType) /\ Len(events') <= EVENT_QUEUE_LENGTH
    BY <2>1, <2>2, PostFacts DEF UploadStarts
  <2> QED
    BY <2>1, <2>3, ConstantFacts DEF UploadStarts, ota
<1>2. CASE get_chunk_buffer_from_pool
  BY <1>2, ConstantFacts DEF get_chunk_buffer_from_pool, ota
<1>3. CASE \E whole \in BOOLEAN : ChunkReceived(whole)
  <2>1. PICK whole \in BOOLEAN : ChunkReceived(whole)
    BY <1>3
  <2>2. held \in Buffers
    BY <2>1 DEF ChunkReceived
  <2>3. Event("CHUNK", held) \in EventType
    BY <2>2 DEF Event, EventType
  <2>4. events' \in Seq(EventType) /\ Len(events') <= EVENT_QUEUE_LENGTH
    BY <2>1, <2>3, PostFacts DEF ChunkReceived
  <2>5. [upload |-> upload.id, version |-> upload.version,
         index |-> upload.next, whole |-> whole] \in Chunk
    BY <2>1, ConstantFacts DEF ChunkReceived, Chunk
  <2>6. memory' \in [Buffers -> Cell]
    BY <2>1, <2>5 DEF ChunkReceived, Cell
  <2>7. upload' \in [id : 0..MaxUploads, version : Versions \cup {RunningVersion},
                     next : 1..Chunks + 1]
        /\ upload'.id = upload.id /\ upload'.version = upload.version
    <3>1. upload.next \in 1..Chunks + 1 /\ upload.next <= Chunks
      BY <2>1 DEF ChunkReceived
    <3>2. upload.next + 1 \in 1..Chunks + 1
      BY <3>1, ConstantFacts
    <3>3. upload' = [upload EXCEPT !.next = upload.next + 1]
      BY <2>1 DEF ChunkReceived
    <3> QED
      BY <3>2, <3>3
  <2> QED
    BY <2>1, <2>4, <2>6, <2>7 DEF ChunkReceived, ota
<1>4. ASSUME NEW id \in {"FAILED", "COMPLETE"}, HandlerReturns(id),
             memory' \in [Buffers -> Cell]
      PROVE  UploadInv'
  <2>1. Event(id, "none") \in EventType
    BY DEF Event, EventType
  <2>2. events' \in Seq(EventType) /\ Len(events') <= EVENT_QUEUE_LENGTH
    BY <1>4, <2>1, PostFacts DEF HandlerReturns
  <2>3. held \in Buffers
    BY <1>4 DEF HandlerReturns
  <2> QED
    BY <1>4, <2>2, <2>3 DEF HandlerReturns, ota
<1>5. CASE ReceiveFailed
  BY <1>4, <1>5 DEF ReceiveFailed, Cell
<1>6. CASE ReceiveComplete
  BY <1>4, <1>6 DEF ReceiveComplete
<1> QED
  BY <1>1, <1>2, <1>3, <1>5, <1>6 DEF file_upload_handler

LEMMA EventStep ==
    ASSUME UploadInv, routine_event_handler
    PROVE  /\ UploadInv'
           /\ Head(events).id = "BUFFER_USED" => Head(events).buffer \in Buffers
<1> DEFINE e == Head(events)
<1>1. /\ e \in EventType
      /\ events' \in Seq(EventType) /\ Len(events') <= EVENT_QUEUE_LENGTH
  BY EventTaken DEF routine_event_handler
<1>2. e.buffer \in Buffers \cup {"none"}
  BY <1>1 DEF EventType
<1>3. /\ ota_queue' \in Seq(MessageType) /\ Len(ota_queue') <= OTA_QUEUE_LENGTH
      /\ lost' \subseteq Buffers /\ pool' \subseteq Buffers
  <2>1. CASE EventUnhandled
    BY <1>2, <2>1 DEF EventUnhandled, UploadInv
  <2>2. CASE routine_http_server_events_handler
    <3>1. CASE e.id = "STARTED" /\ ota_service_data_event("STARTING", "none")
      <4>1. Event("STARTING", "none") \in MessageType
        BY DEF Event, MessageType
      <4> QED
        BY <2>2, <3>1, <4>1, MessageSent DEF routine_http_server_events_handler, UploadInv
    <3>2. CASE e.id = "CHUNK" /\ ota_service_data_event("PACKET", e.buffer)
      <4>1. Event("PACKET", e.buffer) \in MessageType
        BY <1>1, <3>2 DEF Event, MessageType, EventType
      <4> QED
        BY <2>2, <3>2, <4>1, MessageSent DEF routine_http_server_events_handler, UploadInv
    <3>3. CASE UNCHANGED <<ota_queue, lost>>
      BY <2>2, <3>3 DEF routine_http_server_events_handler, UploadInv
    <3>4. CASE e.id = "COMPLETE" /\ ota_service_data_event("COMPLETION", "none")
      <4>1. Event("COMPLETION", "none") \in MessageType
        BY DEF Event, MessageType
      <4> QED
        BY <2>2, <3>4, <4>1, MessageSent DEF routine_http_server_events_handler, UploadInv
    <3> QED
      BY <2>2, <3>1, <3>2, <3>3, <3>4 DEF routine_http_server_events_handler
  <2>3. CASE routine_ota_service_events_handler
    BY <1>1, <2>3 DEF routine_ota_service_events_handler, UploadInv, EventType
  <2> QED
    BY <2>1, <2>2, <2>3 DEF routine_event_handler
<1>4. UNCHANGED <<registered, http, ota>>
  BY DEF routine_event_handler
<1>5. Head(events).id = "BUFFER_USED" => Head(events).buffer \in Buffers
  BY <1>1 DEF EventType
<1> QED
  BY <1>1, <1>3, <1>4, <1>5 DEF UploadInv, http, ota

(* What ota_task does: it takes a message, whose buffer it then has in     *)
(* hand, or it posts that buffer.                                          *)
LEMMA TaskCases ==
    ASSUME UploadInv, ota_task
    PROVE  \/ /\ PostBufferUsed /\ used \in Buffers
           \/ /\ \E id \in {"STARTING", "COMPLETION"} : OtaReceive(id)
              /\ used' = used
           \/ /\ OtaReceive("PACKET")
              /\ used' = Head(ota_queue).buffer /\ used' \in Buffers
<1>1. CASE IdleStarts \/ Completion
  BY <1>1 DEF IdleStarts, Completion
<1>2. ASSUME OtaReceive("PACKET") PROVE Head(ota_queue).buffer \in Buffers
  BY <1>2, MessageTaken DEF OtaReceive, MessageType
<1>3. CASE Ignored
  BY <1>2, <1>3 DEF Ignored, ota
<1>4. CASE PacketWithHeader \/ Packet
  BY <1>2, <1>4 DEF PacketWithHeader, Packet
<1>5. CASE PostBufferUsed
  BY <1>5 DEF PostBufferUsed, UploadInv
<1> QED
  BY <1>1, <1>3, <1>4, <1>5 DEF ota_task

LEMMA TaskStep ==
    ASSUME UploadInv, ota_task
    PROVE  UploadInv'
<1>1. /\ state' \in {"IDLE", "ACTIVE"} /\ handle' \in {"none", "open"}
      /\ image_header_was_checked' \in BOOLEAN /\ faults' \in 0..MaxFaults
  <2>1. (Works \/ Fails \/ UNCHANGED faults) => faults' \in 0..MaxFaults
    BY ConstantFacts DEF Works, Fails, UploadInv
  <2>2. CASE IdleStarts
    BY <2>1, <2>2 DEF IdleStarts, UploadInv
  <2>3. CASE Ignored
    BY <2>3 DEF Ignored, UploadInv, ota
  <2>4. CASE PacketWithHeader
    BY <2>1, <2>4 DEF PacketWithHeader, WriteSucceeds, WriteFails, UploadInv
  <2>5. CASE Packet
    BY <2>1, <2>5 DEF Packet, WriteSucceeds, WriteFails, UploadInv
  <2>6. CASE Completion
    BY <2>1, <2>6 DEF Completion, UploadInv
  <2>7. CASE PostBufferUsed
    BY <2>7 DEF PostBufferUsed, UploadInv
  <2> QED
    BY <2>2, <2>3, <2>4, <2>5, <2>6, <2>7 DEF ota_task
<1>2. CASE PostBufferUsed /\ used \in Buffers
  <2>1. Event("BUFFER_USED", used) \in EventType
    BY <1>2 DEF Event, EventType
  <2>2. events' \in Seq(EventType) /\ Len(events') <= EVENT_QUEUE_LENGTH
    BY <1>2, <2>1, PostFacts DEF PostBufferUsed
  <2> QED
    BY <1>2, <2>2 DEF PostBufferUsed, UploadInv, http
<1>3. ASSUME NEW id, OtaReceive(id), used' \in Buffers \cup {"none"} PROVE UploadInv'
  <2>1. ota_queue' \in Seq(MessageType) /\ Len(ota_queue') <= OTA_QUEUE_LENGTH
    BY <1>3, MessageTaken
  <2> QED
    BY <1>1, <1>3, <2>1 DEF OtaReceive, UploadInv, http
<1>4. used \in Buffers \cup {"none"}
  BY DEF UploadInv
<1> QED
  BY <1>2, <1>3, <1>4, TaskCases

LEMMA UploadStep ==
    ASSUME UploadInv, [Next]_vars
    PROVE  UploadInv'
<1>1. CASE http_server_init
  BY <1>1, RegistrationFacts DEF http_server_init, UploadInv, http, ota
<1>2. CASE UNCHANGED vars
  BY <1>2 DEF vars, http, ota, UploadInv
<1> QED
  BY <1>1, <1>2, HandlerStep, EventStep, TaskStep DEF Next

LEMMA UploadInvariant == Spec => []UploadInv
BY UploadInitial, UploadStep, PTL DEF Spec

-----------------------------------------------------------------------------
(***************************************************************************)
(* The flash.                                                              *)
(***************************************************************************)
(* A handle is open only while an update is active whose header has been   *)
(* checked, and it is the one something has been written through.          *)
FlashInv ==
    /\ written \in Seq(Cell)
    /\ handle = "none" <=> written = <<>>
    /\ state = "IDLE" => handle = "none"
    /\ ~image_header_was_checked => handle = "none"

LEMMA OutsideFlash ==
    ASSUME [Next]_vars, ~ota_task
    PROVE  UNCHANGED <<state, image_header_was_checked, handle, written, boot>>
BY DEF Next, http_server_init, UploadStarts, file_upload_handler, get_chunk_buffer_from_pool,
   ChunkReceived, ReceiveFailed, ReceiveComplete, HandlerReturns, routine_event_handler, ota, vars

(* The steps of ota_task that touch the flash or its state.                *)
LEMMA FlashCases ==
    ASSUME UploadInv, ota_task
    PROVE  \/ UNCHANGED <<state, image_header_was_checked, handle, written, boot>>
           \/ IdleStarts \/ PacketWithHeader \/ Packet \/ Completion
BY DEF ota_task, Ignored, PostBufferUsed, ota

LEMMA PacketHeld ==
    ASSUME UploadInv, OtaReceive("PACKET")
    PROVE  Head(ota_queue).buffer \in Buffers /\ memory[Head(ota_queue).buffer] \in Cell
<1>1. Head(ota_queue).buffer \in Buffers
  BY MessageTaken DEF OtaReceive, MessageType
<1> QED
  BY <1>1 DEF UploadInv

LEMMA FlashStep ==
    ASSUME UploadInv, FlashInv, [Next]_vars
    PROVE  FlashInv'
<1>1. CASE UNCHANGED <<state, image_header_was_checked, handle, written, boot>>
  BY <1>1 DEF FlashInv
<1>2. CASE IdleStarts
  BY <1>2 DEF IdleStarts, FlashInv
<1>3. CASE PacketWithHeader
  <2>1. memory[Head(ota_queue).buffer] \in Cell
    BY <1>3, PacketHeld DEF PacketWithHeader
  <2>2. /\ <<>> \in Seq(Cell)
        /\ Append(written, memory[Head(ota_queue).buffer]) \in Seq(Cell) \ {<<>>}
    BY <2>1 DEF FlashInv
  <2> QED
    BY <1>3, <2>2 DEF PacketWithHeader, WriteSucceeds, WriteFails, FlashInv
<1>4. CASE Packet
  <2>1. memory[Head(ota_queue).buffer] \in Cell
    BY <1>4, PacketHeld DEF Packet
  <2>2. /\ <<>> \in Seq(Cell)
        /\ Append(written, memory[Head(ota_queue).buffer]) \in Seq(Cell) \ {<<>>}
    BY <2>1 DEF FlashInv
  <2> QED
    BY <1>4, <2>2 DEF Packet, WriteSucceeds, WriteFails, FlashInv
<1>5. CASE Completion
  <2>1. <<>> \in Seq(Cell)
    OBVIOUS
  <2> QED
    BY <1>5, <2>1 DEF Completion, FlashInv
<1> QED
  BY <1>1, <1>2, <1>3, <1>4, <1>5, OutsideFlash, FlashCases

LEMMA FlashInvariant == Spec => []FlashInv
<1>1. Init => FlashInv
  BY DEF Init, FlashInv
<1> QED
  BY <1>1, FlashStep, UploadInvariant, PTL DEF Spec

(* Every way back to IDLE has freed the handle esp_ota_begin opened: the   *)
(* error paths of ota_task leave nothing behind that would make the next   *)
(* esp_ota_begin fail.                                                     *)
THEOREM IdleHoldsNoHandleHolds == Spec => []IdleHoldsNoHandle
BY FlashInvariant, PTL DEF FlashInv, IdleHoldsNoHandle

(* How far the defect goes that FailedUpdateCanBeRepeated shows: once an   *)
(* update has failed past its header check, no upload of the same run of   *)
(* the node gets a handle or changes the boot partition.                   *)
FailedUpdateIsFinal ==
    [][image_header_was_checked /\ handle = "none" => handle' = "none" /\ boot' = boot]_vars

(* No update succeeds after one that failed past its header check, until   *)
(* the node restarts (ota_service.c:224 is the only write of the flag).    *)
THEOREM FailedUpdateIsFinalHolds == Spec => FailedUpdateIsFinal
<1>1. ASSUME UploadInv, [Next]_vars, image_header_was_checked, handle = "none"
      PROVE  handle' = "none" /\ boot' = boot
  <2>1. CASE UNCHANGED <<state, image_header_was_checked, handle, written, boot>>
    BY <1>1, <2>1
  <2>2. CASE IdleStarts
    BY <1>1, <2>2 DEF IdleStarts
  <2>3. CASE PacketWithHeader
    BY <1>1, <2>3 DEF PacketWithHeader
  <2>4. CASE Packet
    BY <1>1, <2>4 DEF Packet, WriteFails
  <2>5. CASE Completion
    BY <1>1, <2>5 DEF Completion
  <2> QED
    BY <1>1, <2>1, <2>2, <2>3, <2>4, <2>5, OutsideFlash, FlashCases
<1>2. ASSUME UploadInv, [Next]_vars
      PROVE  [image_header_was_checked /\ handle = "none" => handle' = "none" /\ boot' = boot]_vars
  BY <1>1, <1>2
<1> QED
  BY <1>2, UploadInvariant, PTL DEF Spec, FailedUpdateIsFinal

(* What has been written and starts as an image does passed the check.     *)
BootInv ==
    /\ written # <<>> /\ written[1].index = 1 =>
          /\ is_firmware_updated(written[1].version)
          /\ ~is_it_last_invalid_app(written[1].version)
    /\ BootsOnlyNewerWholeImage

LEMMA HeaderAccepted ==
    ASSUME DescriptionReadable, NEW chunk \in Cell, chunk.index = 1,
           TRUE \in HeaderVerdicts(chunk)
    PROVE  is_firmware_updated(chunk.version) /\ ~is_it_last_invalid_app(chunk.version)
BY DEF HeaderVerdicts

LEMMA BootStep ==
    ASSUME DescriptionReadable, UploadInv, FlashInv, BootInv, [Next]_vars
    PROVE  BootInv'
<1> DEFINE chunk == memory[Head(ota_queue).buffer]
<1>0. BootsOnlyNewerWholeImage /\ boot' = boot => BootsOnlyNewerWholeImage'
  BY DEF BootsOnlyNewerWholeImage, WholeImage
<1>1. CASE UNCHANGED <<state, image_header_was_checked, handle, written, boot>>
  BY <1>0, <1>1 DEF BootInv
<1>2. CASE IdleStarts
  BY <1>0, <1>2 DEF IdleStarts, BootInv
<1>3. CASE PacketWithHeader
  <2>1. chunk \in Cell /\ written = <<>> /\ boot' = boot
    BY <1>3, PacketHeld DEF PacketWithHeader, FlashInv
  <2>2. Append(<<>>, chunk)[1] = chunk
    BY <2>1
  <2>3. \/ written' = written \/ written' = <<>>
        \/ written' = Append(<<>>, chunk) /\ TRUE \in HeaderVerdicts(chunk)
    BY <1>3, <2>1 DEF PacketWithHeader, WriteSucceeds, WriteFails
  <2> HIDE DEF chunk
  <2> QED
    BY <1>0, <2>1, <2>2, <2>3, HeaderAccepted DEF BootInv
<1>4. CASE Packet
  <2>1. chunk \in Cell /\ boot' = boot
    BY <1>4, PacketHeld DEF Packet
  <2>2. \/ written' = <<>>
        \/ written' = Append(written, chunk) /\ handle = "open" /\ image_header_was_checked
    BY <1>4 DEF Packet, WriteSucceeds, WriteFails
  <2>3. handle = "open" => written # <<>> /\ Append(written, chunk)[1] = written[1]
    BY <2>1 DEF FlashInv
  <2> QED
    BY <1>0, <2>1, <2>2, <2>3 DEF BootInv
<1>5. CASE Completion
  <2>1. written' = <<>>
    BY <1>5 DEF Completion
  <2>2. CASE boot' = boot
    BY <1>0, <2>1, <2>2 DEF BootInv
  <2>3. CASE boot' = written /\ WholeImage(written)
    <3>1. written # <<>> /\ written[1].index = 1
      BY <2>3, ConstantFacts DEF WholeImage, FlashInv
    <3> QED
      BY <2>1, <2>3, <3>1 DEF BootInv, BootsOnlyNewerWholeImage, WholeImage
  <2> QED
    BY <1>5, <2>2, <2>3 DEF Completion
<1> QED
  BY <1>1, <1>2, <1>3, <1>4, <1>5, OutsideFlash, FlashCases

LEMMA BootInvariant == DescriptionReadable => (Spec => []BootInv)
<1> SUFFICES ASSUME DescriptionReadable PROVE Spec => []BootInv
  OBVIOUS
<1>1. Init => BootInv
  BY DEF Init, BootInv, BootsOnlyNewerWholeImage
<1>2. UploadInv /\ FlashInv /\ BootInv /\ [Next]_vars => BootInv'
  BY BootStep
<1> QED
  BY <1>1, <1>2, UploadInvariant, FlashInvariant, PTL DEF Spec

(* The node restarts only into a whole image of one version, newer than    *)
(* the running one and not the one that was rolled back, provided that the *)
(* running image's description can be read.                                *)
THEOREM BootsOnlyNewerWholeImageHolds ==
    DescriptionReadable => (Spec => []BootsOnlyNewerWholeImage)
<1>1. BootInv => BootsOnlyNewerWholeImage
  BY DEF BootInv
<1> QED
  BY <1>1, BootInvariant, PTL

-----------------------------------------------------------------------------
(***************************************************************************)
(* The buffers: a step takes a buffer from one place and puts it into      *)
(* another, so that the count over all places stays.                       *)
(***************************************************************************)
One(x) == IF x THEN 1 ELSE 0
Waiting(b) == Count(events, Carry(b)) + Count(ota_queue, Carry(b))
Sum(b) == One(b \in pool) + One(b \in lost) + One(held = b) + One(used = b) + Waiting(b)
Conserved == \A b \in Buffers : Sum(b) = 1

LEMMA CountsAreNat ==
    ASSUME UploadInv, NEW b
    PROVE  Count(events, Carry(b)) \in Nat /\ Count(ota_queue, Carry(b)) \in Nat
<1>1. events \in Seq(EventType) /\ ota_queue \in Seq(MessageType)
  BY DEF UploadInv
<1> QED
  BY <1>1, HitsFinite

LEMMA PlacesAreCounted ==
    ASSUME UploadInv, NEW b
    PROVE  Places(b) = Sum(b)
<1>1. events \in Seq(EventType) /\ ota_queue \in Seq(MessageType)
  BY DEF UploadInv
<1>2. /\ \A i \in DOMAIN events : events[i] \in EventType
      /\ \A i \in DOMAIN ota_queue : ota_queue[i] \in MessageType
  BY <1>1
<1>3. {i \in DOMAIN events : events[i].buffer = b} = Hits(events, Carry(b))
  BY <1>2 DEF Hits, Carry
<1>4. {i \in DOMAIN ota_queue : ota_queue[i].buffer = b} = Hits(ota_queue, Carry(b))
  BY <1>2 DEF Hits, Carry
<1>5. Count(events, Carry(b)) \in Nat /\ Count(ota_queue, Carry(b)) \in Nat
  BY CountsAreNat
<1>6. Places(b) = One(b \in pool) + One(b \in lost) + One(held = b) + One(used = b)
                      + Cardinality({i \in DOMAIN events : events[i].buffer = b})
                      + Cardinality({i \in DOMAIN ota_queue : ota_queue[i].buffer = b})
  BY DEF Places, One
<1>7. /\ One(b \in pool) \in Nat /\ One(b \in lost) \in Nat
      /\ One(held = b) \in Nat /\ One(used = b) \in Nat
  BY DEF One
<1>8. Places(b) = One(b \in pool) + One(b \in lost) + One(held = b) + One(used = b)
                      + Count(events, Carry(b)) + Count(ota_queue, Carry(b))
  BY <1>3, <1>4, <1>6 DEF Count
<1> QED
  BY <1>5, <1>7, <1>8 DEF Sum, Waiting

LEMMA HandlerConserves ==
    ASSUME UploadInv, file_upload_handler \/ \E v \in Versions : UploadStarts(v),
           NEW b \in Buffers, Sum(b) = 1
    PROVE  Sum(b)' = 1
<1>0. Count(events, Carry(b)) \in Nat /\ Count(ota_queue, Carry(b)) \in Nat /\ b # "none"
  BY CountsAreNat, ConstantFacts
<1>1. CASE \E v \in Versions : UploadStarts(v)
  <2>1. Event("STARTED", "none") \in EventType /\ Event("STARTED", "none").buffer = "none"
    BY DEF Event, EventType
  <2>2. UNCHANGED <<pool, lost, held, used, ota_queue>> /\ Post(Event("STARTED", "none"))
    BY <1>1 DEF UploadStarts, ota
  <2>3. Count(events', Carry(b)) = Count(events, Carry(b)) + 0
    BY <1>0, <2>1, <2>2, PostFacts
  <2> QED
    BY <1>0, <2>2, <2>3 DEF Sum, Waiting
<1>2. CASE get_chunk_buffer_from_pool
  <2>1. PICK x \in pool : pool' = pool \ {x} /\ held' = x
    BY <1>2 DEF get_chunk_buffer_from_pool
  <2>2. UNCHANGED <<lost, used, events, ota_queue>> /\ held = "none"
    BY <1>2 DEF get_chunk_buffer_from_pool, ota, UploadInv
  <2>3. One(b \in pool) + One(held = b) = One(b \in pool') + One(held' = b)
    BY <1>0, <2>1, <2>2 DEF One
  <2>4. Waiting(b)' = Waiting(b) /\ Waiting(b) \in Nat
    BY <1>0, <2>2 DEF Waiting
  <2> QED
    BY <2>2, <2>3, <2>4 DEF Sum, One
<1>3. CASE \E whole \in BOOLEAN : ChunkReceived(whole)
  <2>1. held \in Buffers /\ held' = "none" /\ Post(Event("CHUNK", held))
        /\ UNCHANGED <<pool, lost, used, ota_queue>>
    BY <1>3 DEF ChunkReceived, UploadInv, ota
  <2>2. Event("CHUNK", held) \in EventType /\ Event("CHUNK", held).buffer = held
    BY <2>1 DEF Event, EventType
  <2>3. Count(events', Carry(b)) = Count(events, Carry(b)) + One(held = b)
    BY <2>1, <2>2, PostFacts DEF One
  <2> QED
    BY <1>0, <2>1, <2>3 DEF Sum, Waiting, One
<1>4. ASSUME NEW id \in {"FAILED", "COMPLETE"}, HandlerReturns(id)
      PROVE  Sum(b)' = 1
  <2>1. Event(id, "none") \in EventType /\ Event(id, "none").buffer = "none"
    BY DEF Event, EventType
  <2>2. /\ Post(Event(id, "none")) /\ UNCHANGED <<pool, used, ota_queue>>
        /\ lost' = lost \cup {held} /\ held' = "none"
    BY <1>4 DEF HandlerReturns, ota
  <2>3. Count(events', Carry(b)) = Count(events, Carry(b)) + 0
    BY <1>0, <2>1, <2>2, PostFacts
  <2>4. One(b \in lost) + One(held = b) = One(b \in lost') + One(held' = b)
    BY <1>0, <2>2 DEF One, Sum, Waiting
  <2>5. Waiting(b)' = Waiting(b) /\ Waiting(b) \in Nat
    BY <1>0, <2>2, <2>3 DEF Waiting
  <2> QED
    BY <2>2, <2>4, <2>5 DEF Sum, One
<1> QED
  BY <1>1, <1>2, <1>3, <1>4 DEF file_upload_handler, ReceiveFailed, ReceiveComplete

(* An event's buffer goes on to the OTA queue, to the pool, or is lost.    *)
LEMMA EventConserves ==
    ASSUME UploadInv, routine_event_handler, NEW b \in Buffers, Sum(b) = 1
    PROVE  Sum(b)' = 1
<1> DEFINE e == Head(events)
<1>0. Count(events, Carry(b)) \in Nat /\ Count(ota_queue, Carry(b)) \in Nat /\ b # "none"
  BY CountsAreNat, ConstantFacts
<1>1. /\ e \in EventType /\ UNCHANGED <<held, used>>
      /\ Count(events', Carry(b)) = Count(events, Carry(b)) - One(e.buffer = b)
  BY EventTaken DEF routine_event_handler, http, ota, One
<1>2. ASSUME UNCHANGED <<pool, ota_queue>>, lost' = lost \cup ({e.buffer} \ {"none"})
      PROVE  Sum(b)' = 1
  <2>1. One(b \in lost') = One(b \in lost) + One(e.buffer = b)
    <3>1. CASE e.buffer = b
      <4>1. Count(events', Carry(b)) \in Nat
        <5>1. events' \in Seq(EventType)
          BY EventTaken DEF routine_event_handler
        <5> QED
          BY <5>1, HitsFinite
      <4>2. b \notin lost
        BY <1>0, <1>1, <3>1, <4>1 DEF Sum, Waiting, One
      <4> QED
        BY <1>0, <1>2, <3>1, <4>2 DEF One
    <3>2. CASE e.buffer # b
      BY <1>2, <3>2 DEF One
    <3> QED
      BY <3>1, <3>2
  <2> QED
    BY <1>0, <1>1, <1>2, <2>1 DEF Sum, Waiting, One
<1>3. ASSUME UNCHANGED <<pool, lost>>,
             Count(ota_queue', Carry(b)) = Count(ota_queue, Carry(b)) + One(e.buffer = b)
      PROVE  Sum(b)' = 1
  BY <1>0, <1>1, <1>3 DEF Sum, Waiting, One
<1>4. ASSUME NEW id, Event(id, e.buffer) \in MessageType, UNCHANGED pool,
             ota_service_data_event(id, e.buffer)
      PROVE  Sum(b)' = 1
  <2>1. \/ /\ UNCHANGED lost
           /\ Count(ota_queue', Carry(b)) = Count(ota_queue, Carry(b)) + One(e.buffer = b)
        \/ UNCHANGED ota_queue /\ lost' = lost \cup ({e.buffer} \ {"none"})
    BY <1>4, MessageSent DEF One
  <2> QED
    BY <1>2, <1>3, <1>4, <2>1
<1>5. CASE EventUnhandled
  BY <1>2, <1>5 DEF EventUnhandled
<1>6. CASE routine_http_server_events_handler
  <2>1. e.id \in {"STARTED", "COMPLETE", "FAILED"} => e.buffer = "none"
    BY <1>1 DEF EventType
  <2>2. CASE e.id = "STARTED" /\ ota_service_data_event("STARTING", "none")
    <3>1. Event("STARTING", e.buffer) \in MessageType
      BY <2>1, <2>2 DEF Event, MessageType
    <3> QED
      BY <1>4, <1>6, <2>1, <2>2, <3>1 DEF routine_http_server_events_handler
  <2>3. CASE e.id = "CHUNK" /\ ota_service_data_event("PACKET", e.buffer)
    <3>1. Event("PACKET", e.buffer) \in MessageType
      BY <1>1, <2>3 DEF Event, MessageType, EventType
    <3> QED
      BY <1>4, <1>6, <2>3, <3>1 DEF routine_http_server_events_handler
  <2>4. CASE e.id = "FAILED" /\ UNCHANGED <<ota_queue, lost>>
    <3>1. Count(ota_queue', Carry(b)) = Count(ota_queue, Carry(b)) + One(e.buffer = b)
      BY <1>0, <2>1, <2>4 DEF One
    <3> QED
      BY <1>3, <1>6, <2>4, <3>1 DEF routine_http_server_events_handler
  <2>5. CASE e.id = "COMPLETE" /\ ota_service_data_event("COMPLETION", "none")
    <3>1. Event("COMPLETION", e.buffer) \in MessageType
      BY <2>1, <2>5 DEF Event, MessageType
    <3> QED
      BY <1>4, <1>6, <2>1, <2>5, <3>1 DEF routine_http_server_events_handler
  <2> QED
    BY <1>6, <2>2, <2>3, <2>4, <2>5 DEF routine_http_server_events_handler
<1>7. CASE routine_ota_service_events_handler
  <2>1. pool' = pool \cup {e.buffer} /\ UNCHANGED <<ota_queue, lost>>
    BY <1>7 DEF routine_ota_service_events_handler
  <2>2. One(b \in pool') = One(b \in pool) + One(e.buffer = b)
    <3>1. CASE e.buffer = b
      <4>1. events' \in Seq(EventType)
        BY EventTaken DEF routine_event_handler
      <4>2. Count(events', Carry(b)) \in Nat
        BY <4>1, HitsFinite
      <4>3. b \notin pool
        BY <1>0, <1>1, <3>1, <4>2 DEF Sum, Waiting, One
      <4> QED
        BY <2>1, <3>1, <4>3 DEF One
    <3>2. CASE e.buffer # b
      BY <2>1, <3>2 DEF One
    <3> QED
      BY <3>1, <3>2
  <2> QED
    BY <1>0, <1>1, <2>1, <2>2 DEF Sum, Waiting, One
<1> QED
  BY <1>5, <1>6, <1>7 DEF routine_event_handler

LEMMA TaskConserves ==
    ASSUME UploadInv, ota_task, NEW b \in Buffers, Sum(b) = 1
    PROVE  Sum(b)' = 1
<1>0. Count(events, Carry(b)) \in Nat /\ Count(ota_queue, Carry(b)) \in Nat /\ b # "none"
  BY CountsAreNat, ConstantFacts
<1>1. CASE PostBufferUsed /\ used \in Buffers
  <2>1. Event("BUFFER_USED", used) \in EventType /\ Event("BUFFER_USED", used).buffer = used
    BY <1>1 DEF Event, EventType
  <2>2. UNCHANGED <<pool, lost, held, ota_queue>> /\ used' = "none"
    BY <1>1 DEF PostBufferUsed, http
  <2>3. Count(events', Carry(b)) = Count(events, Carry(b)) + One(used = b)
    BY <1>1, <2>1, PostFacts DEF PostBufferUsed, One
  <2> QED
    BY <1>0, <2>2, <2>3 DEF Sum, Waiting, One
<1>2. ASSUME NEW id, OtaReceive(id), used' = used \/ used' = Head(ota_queue).buffer,
             id # "PACKET" => used' = used,
             id = "PACKET" => used' = Head(ota_queue).buffer
      PROVE  Sum(b)' = 1
  <2>1. UNCHANGED <<pool, lost, held, events>> /\ used = "none" /\ Head(ota_queue).id = id
    BY <1>2 DEF OtaReceive, http
  <2>2. /\ Head(ota_queue) \in MessageType
        /\ Count(ota_queue', Carry(b))
              = Count(ota_queue, Carry(b)) - One(Head(ota_queue).buffer = b)
    BY <1>2, MessageTaken DEF One
  <2>3. id # "PACKET" => Head(ota_queue).buffer = "none"
    BY <2>1, <2>2 DEF MessageType
  <2>4. One(used' = b) = One(used = b) + One(Head(ota_queue).buffer = b)
    BY <1>0, <1>2, <2>1, <2>3 DEF One
  <2> QED
    BY <1>0, <2>1, <2>2, <2>4 DEF Sum, Waiting, One
<1> QED
  BY <1>1, <1>2, TaskCases

LEMMA ConservedStep ==
    ASSUME UploadInv, Conserved, [Next]_vars
    PROVE  Conserved'
<1> SUFFICES ASSUME NEW b \in Buffers PROVE Sum(b)' = 1
  BY DEF Conserved
<1>1. Sum(b) = 1
  BY DEF Conserved
<1>2. CASE UNCHANGED vars \/ http_server_init
  BY <1>1, <1>2 DEF vars, http, ota, http_server_init, Sum, Waiting
<1> QED
  BY <1>1, <1>2, HandlerConserves, EventConserves, TaskConserves DEF Next

LEMMA ConservedInvariant == Spec => []Conserved
<1>1. Init => Conserved
  <2>1. \A b : Count(<<>>, Carry(b)) = 0
    BY CountEmpty
  <2> QED
    BY <2>1, ConstantFacts DEF Init, Conserved, Sum, Waiting, One
<1> QED
  BY <1>1, ConservedStep, UploadInvariant, PTL DEF Spec

(* Passing buffers by reference is safe: each is in exactly one place of   *)
(* handler, pool, events, messages and ota_task, or lost, so none is       *)
(* refilled while it waits to be written and none is returned twice.       *)
THEOREM BuffersConservedHolds == Spec => []BuffersConserved
<1>1. UploadInv /\ Conserved => BuffersConserved
  BY PlacesAreCounted DEF Conserved, BuffersConserved
<1> QED
  BY <1>1, ConservedInvariant, UploadInvariant, PTL

-----------------------------------------------------------------------------
(***************************************************************************)
(* The order of the chunks, from the file to the flash: what has been      *)
(* written comes before what is queued, that before what is in an event,   *)
(* and that before what is still to be received.                           *)
(***************************************************************************)
Earlier(c, d) == c.upload < d.upload \/ (c.upload = d.upload /\ c.index < d.index)

Received(c) ==
    /\ c \in Chunk
    /\ c.upload < upload.id \/ (c.upload = upload.id /\ c.index < upload.next)

Packets == {i \in DOMAIN ota_queue : ota_queue[i].id = "PACKET"}
Queued(i) == memory[ota_queue[i].buffer]
Arrivals == {i \in DOMAIN events : events[i].id = "CHUNK"}
Arrived(i) == memory[events[i].buffer]

WrittenInv ==
    /\ written \in Seq(Chunk)
    /\ \A i \in DOMAIN written : Received(written[i])
    /\ \A i, j \in DOMAIN written : i < j => Earlier(written[i], written[j])

QueuedInv ==
    /\ \A i \in Packets : Received(Queued(i))
    /\ \A i, j \in Packets : i < j => Earlier(Queued(i), Queued(j))
    /\ \A i \in DOMAIN written, j \in Packets : Earlier(written[i], Queued(j))

ArrivedInv ==
    /\ \A i \in Arrivals : Received(Arrived(i))
    /\ \A i, j \in Arrivals : i < j => Earlier(Arrived(i), Arrived(j))
    /\ \A i \in DOMAIN written, j \in Arrivals : Earlier(written[i], Arrived(j))
    /\ \A i \in Packets, j \in Arrivals : Earlier(Queued(i), Arrived(j))

OrderInv == boot \in Seq(Chunk) /\ WrittenInv /\ QueuedInv /\ ArrivedInv

LEMMA QueuesAre ==
    ASSUME UploadInv
    PROVE  /\ events \in Seq(EventType) /\ Len(events) \in Nat
           /\ DOMAIN events = 1..Len(events)
           /\ \A i \in DOMAIN events : events[i] \in EventType
           /\ ota_queue \in Seq(MessageType) /\ Len(ota_queue) \in Nat
           /\ DOMAIN ota_queue = 1..Len(ota_queue)
           /\ \A i \in DOMAIN ota_queue : ota_queue[i] \in MessageType
BY DEF UploadInv

(* The buffer the upload handler fills is in no queue.                     *)
LEMMA HeldIsNotWaiting ==
    ASSUME UploadInv, Conserved, httpd = "recv"
    PROVE  /\ held \in Buffers
           /\ \A i \in DOMAIN events : events[i].buffer # held
           /\ \A i \in DOMAIN ota_queue : ota_queue[i].buffer # held
<1>1. held \in Buffers
  BY DEF UploadInv
<1>2. Count(events, Carry(held)) \in Nat /\ Count(ota_queue, Carry(held)) \in Nat
  BY CountsAreNat
<1>3. Sum(held) = 1
  BY <1>1 DEF Conserved
<1>4. Count(events, Carry(held)) = 0 /\ Count(ota_queue, Carry(held)) = 0
  BY <1>2, <1>3 DEF Sum, Waiting, One
<1>5. IsFiniteSet(Hits(events, Carry(held))) /\ IsFiniteSet(Hits(ota_queue, Carry(held)))
  BY HitsFinite, QueuesAre
<1>6. Hits(events, Carry(held)) = {} /\ Hits(ota_queue, Carry(held)) = {}
  BY <1>4, <1>5, FS_EmptySet DEF Count
<1> QED
  BY <1>1, <1>6, QueuesAre DEF Hits, Carry

LEMMA BuffersOfQueues ==
    ASSUME UploadInv
    PROVE  /\ \A i \in Packets : ota_queue[i].buffer \in Buffers
           /\ \A i \in Arrivals : events[i].buffer \in Buffers
BY QueuesAre DEF Packets, Arrivals, EventType, MessageType

(* A step of the handler that posts no chunk.                              *)
LEMMA OrderKept ==
    ASSUME UploadInv, OrderInv,
           NEW e \in EventType, e.id # "CHUNK",
           UNCHANGED events \/ events' = Append(events, e),
           UNCHANGED <<ota_queue, written, boot>>,
           \A i \in Packets : memory'[ota_queue[i].buffer] = Queued(i),
           \A i \in Arrivals : memory'[events[i].buffer] = Arrived(i),
           \A c \in Chunk : Received(c) => Received(c)'
    PROVE  OrderInv'
<1>1. Packets' = Packets /\ \A i \in Packets : Queued(i)' = Queued(i)
  BY DEF Packets, Queued
<1>2. \A i \in 1..Len(events) : events'[i] = events[i]
  BY QueuesAre
<1>3. Arrivals' = Arrivals
  <2>1. CASE UNCHANGED events
    BY <2>1 DEF Arrivals
  <2>2. CASE events' = Append(events, e)
    <3>1. DOMAIN events' = 1..(Len(events) + 1) /\ events'[Len(events) + 1] = e
      BY <2>2, QueuesAre
    <3> QED
      BY <1>2, <3>1, QueuesAre DEF Arrivals
  <2> QED
    BY <2>1, <2>2
<1>4. \A i \in Arrivals : Arrived(i)' = Arrived(i)
  <2>1. \A i \in Arrivals : events'[i] = events[i]
    BY <1>2, QueuesAre DEF Arrivals
  <2> QED
    BY <2>1 DEF Arrived
<1>5. \A c : Received(c) => Received(c)'
  BY DEF Received
<1>6. WrittenInv'
  BY <1>5 DEF OrderInv, WrittenInv
<1>7. QueuedInv'
  BY <1>1, <1>5 DEF OrderInv, QueuedInv
<1>8. ArrivedInv'
  BY <1>1, <1>3, <1>4, <1>5 DEF OrderInv, ArrivedInv
<1> QED
  BY <1>6, <1>7, <1>8 DEF OrderInv

LEMMA ChunkReceivedOrder ==
    ASSUME UploadInv, Conserved, OrderInv, NEW whole \in BOOLEAN, ChunkReceived(whole)
    PROVE  OrderInv'
<1>0. [upload |-> upload.id, version |-> upload.version,
       index |-> upload.next, whole |-> whole] \in Chunk
  BY ConstantFacts DEF ChunkReceived, UploadInv, Chunk
<1>01. PICK c \in Chunk : c = [upload |-> upload.id, version |-> upload.version,
                              index |-> upload.next, whole |-> whole]
  BY <1>0
<1>02. PICK n \in Nat : n = Len(events) + 1
  BY QueuesAre
<1>1. /\ c \in Chunk /\ upload.id \in Nat /\ upload.next \in Nat
      /\ upload' = [upload EXCEPT !.next = upload.next + 1]
      /\ memory' = [memory EXCEPT ![held] = c]
      /\ UNCHANGED <<ota_queue, written, boot>>
  BY <1>01, ConstantFacts DEF ChunkReceived, UploadInv, ota
<1>2. Event("CHUNK", held) \in EventType /\ held \in Buffers
  BY HeldIsNotWaiting DEF ChunkReceived, Event, EventType
<1>3. events' = Append(events, Event("CHUNK", held))
  BY <1>2, PostFacts DEF ChunkReceived
<1>4. /\ DOMAIN events' = 1..n /\ events'[n] = Event("CHUNK", held)
      /\ n \notin DOMAIN events /\ n \in Nat
      /\ DOMAIN events = 1..(n - 1)
      /\ \A i \in DOMAIN events : events'[i] = events[i]
  BY <1>2, <1>3, <1>02, QueuesAre
<1>5. Packets' = Packets /\ \A i \in Packets : Queued(i)' = Queued(i)
  <2>1. \A i \in Packets : ota_queue[i].buffer # held /\ ota_queue[i].buffer \in Buffers
    BY HeldIsNotWaiting, BuffersOfQueues DEF Packets, ChunkReceived
  <2> QED
    BY <1>1, <2>1 DEF Packets, Queued, UploadInv
<1>6. Arrivals' = Arrivals \cup {n} /\ n \notin Arrivals /\ \A i \in Arrivals : i < n
  <2>1. events'[n].id = "CHUNK"
    BY <1>4 DEF Event
  <2>2. DOMAIN events' = DOMAIN events \cup {n} /\ \A i \in DOMAIN events : i < n
    <3>1. n >= 1
      BY <1>02, QueuesAre
    <3> QED
      BY <1>4, <3>1
  <2> QED
    BY <1>4, <2>1, <2>2, Zenon DEF Arrivals
<1>7. \A i \in Arrivals : Arrived(i)' = Arrived(i)
  <2>1. \A i \in Arrivals : /\ events[i].buffer # held /\ events[i].buffer \in Buffers
                             /\ events'[i] = events[i]
    BY <1>4, HeldIsNotWaiting, BuffersOfQueues DEF Arrivals, ChunkReceived
  <2> QED
    BY <1>1, <2>1 DEF Arrived, UploadInv
<1>8. Arrived(n)' = c
  BY <1>1, <1>2, <1>4 DEF Arrived, Event, UploadInv
<1>9. c.upload = upload.id /\ c.index = upload.next
  BY <1>01
<1>10. upload'.id = upload.id /\ upload'.next = upload.next + 1
  BY <1>1 DEF UploadInv
<1>11. \A d : Received(d) => Received(d)' /\ Earlier(d, c)
  BY <1>1, <1>9, <1>10 DEF Received, Earlier, Chunk
<1>12. Received(c)'
  BY <1>1, <1>9, <1>10 DEF Received
<1>13. WrittenInv'
  BY <1>1, <1>11 DEF OrderInv, WrittenInv
<1>14. QueuedInv'
  BY <1>1, <1>5, <1>11 DEF OrderInv, QueuedInv
<1>15. ArrivedInv'
  <2>1. \A i \in Arrivals' : Received(Arrived(i))'
    BY <1>6, <1>7, <1>8, <1>11, <1>12 DEF OrderInv, ArrivedInv
  <2>2. \A i, j \in Arrivals' : i < j => Earlier(Arrived(i)', Arrived(j)')
    <3>1. \A i \in Arrivals : ~(n < i) /\ Earlier(Arrived(i), c)
      <4>1. \A i \in Arrivals : i \in Nat /\ i < n
        BY <1>4, <1>6 DEF Arrivals
      <4> QED
        BY <1>4, <1>11, <4>1 DEF OrderInv, ArrivedInv
    <3>2. ~(n < n)
      BY <1>4
    <3> QED
      BY <1>6, <1>7, <1>8, <3>1, <3>2 DEF OrderInv, ArrivedInv
  <2>3. \A i \in DOMAIN written', j \in Arrivals' : Earlier(written'[i], Arrived(j)')
    BY <1>1, <1>6, <1>7, <1>8, <1>11 DEF OrderInv, ArrivedInv, WrittenInv
  <2>4. \A i \in Packets', j \in Arrivals' : Earlier(Queued(i)', Arrived(j)')
    BY <1>1, <1>5, <1>6, <1>7, <1>8, <1>11 DEF OrderInv, ArrivedInv, QueuedInv
  <2> QED
    BY <2>1, <2>2, <2>3, <2>4 DEF ArrivedInv
<1> QED
  BY <1>1, <1>13, <1>14, <1>15 DEF OrderInv

(* The first event is taken off; a chunk goes to the OTA queue or is lost. *)
LEMMA EventOrder ==
    ASSUME UploadInv, OrderInv, routine_event_handler
    PROVE  OrderInv'
<1> DEFINE e == Head(events)
<1>1. /\ events' = Tail(events) /\ events # <<>> /\ UNCHANGED <<memory, upload, written, boot>>
      /\ e = events[1] /\ e \in EventType /\ 1 \in DOMAIN events
      /\ \A i \in DOMAIN events' : /\ i + 1 \in DOMAIN events
                                    /\ events'[i] = events[i + 1] /\ i \in Nat /\ i > 0
  <2>1. events' = Tail(events) /\ events # <<>> /\ UNCHANGED <<memory, upload, written, boot>>
    BY DEF routine_event_handler, http, ota
  <2> QED
    BY <2>1, QueuesAre
<1>2. \A i \in Arrivals' : i + 1 \in Arrivals /\ Arrived(i)' = Arrived(i + 1) /\ i \in Nat /\ i > 0
  BY <1>1 DEF Arrivals, Arrived
<1>3. \A c : Received(c) => Received(c)'
  BY <1>1 DEF Received
<1>4. WrittenInv'
  BY <1>1, <1>3 DEF OrderInv, WrittenInv
<1>5. /\ \A i \in Arrivals' : Received(Arrived(i))'
      /\ \A i, j \in Arrivals' : i < j => Earlier(Arrived(i), Arrived(j))'
      /\ \A i \in DOMAIN written', j \in Arrivals' : Earlier(written[i], Arrived(j))'
  <2>1. \A i, j \in Arrivals' : i < j => i + 1 < j + 1
    BY <1>2
  <2> QED
    BY <1>1, <1>2, <1>3, <2>1 DEF OrderInv, ArrivedInv
<1>6. CASE /\ Packets' = Packets /\ \A i \in Packets : Queued(i)' = Queued(i)
  BY <1>1, <1>2, <1>3, <1>4, <1>5, <1>6 DEF OrderInv, QueuedInv, ArrivedInv
<1>7. CASE UNCHANGED ota_queue
  BY <1>1, <1>6, <1>7 DEF Packets, Queued
<1>8. ASSUME NEW m \in MessageType, ota_queue' = Append(ota_queue, m)
      PROVE  /\ \A i \in Packets : i \in Packets' /\ Queued(i)' = Queued(i)
             /\ m.id # "PACKET" => Packets' = Packets
             /\ m.id = "PACKET" =>
                   \E n \in Nat : /\ Packets' = Packets \cup {n} /\ \A i \in Packets : i < n
                                  /\ ota_queue'[n] = m
  <2>1. PICK n \in Nat : n = Len(ota_queue) + 1
    BY QueuesAre
  <2>2. /\ DOMAIN ota_queue' = DOMAIN ota_queue \cup {n} /\ ota_queue'[n] = m
        /\ \A i \in DOMAIN ota_queue : ota_queue'[i] = ota_queue[i] /\ i < n
    BY <1>8, <2>1, QueuesAre
  <2>3. \A i \in Packets : i \in Packets' /\ Queued(i)' = Queued(i)
    BY <1>1, <2>2 DEF Packets, Queued
  <2>4. m.id # "PACKET" => Packets' = Packets
    BY <2>2 DEF Packets
  <2>5. m.id = "PACKET" => Packets' = Packets \cup {n} /\ \A i \in Packets : i < n
    BY <2>2 DEF Packets
  <2> QED
    BY <2>2, <2>3, <2>4, <2>5
<1>9. CASE e.id = "CHUNK" /\ ota_queue' = Append(ota_queue, Event("PACKET", e.buffer))
  <2>1. Event("PACKET", e.buffer) \in MessageType
    BY <1>1, <1>9 DEF Event, MessageType, EventType
  <2>2. /\ Event("PACKET", e.buffer).id = "PACKET"
        /\ Event("PACKET", e.buffer).buffer = events[1].buffer
    BY <1>1 DEF Event
  <2>31. PICK m \in MessageType : m = Event("PACKET", e.buffer)
    BY <2>1
  <2>32. ota_queue' = Append(ota_queue, m) /\ m.id = "PACKET" /\ m.buffer = events[1].buffer
    BY <1>9, <2>2, <2>31
  <2>3. /\ \A i \in Packets : Queued(i)' = Queued(i)
        /\ \E n \in Nat : /\ Packets' = Packets \cup {n} /\ \A i \in Packets : i < n
                          /\ ota_queue'[n] = m
    BY <1>8, <2>32
  <2>33. PICK n \in Nat : /\ Packets' = Packets \cup {n} /\ \A i \in Packets : i < n
                         /\ ota_queue'[n] = m
    BY <2>3
  <2>4. PICK c : c = Arrived(1)
    OBVIOUS
  <2>5. memory'[ota_queue'[n].buffer] = c
    BY <1>1, <2>32, <2>33, <2>4 DEF Arrived
  <2>6. 1 \in Arrivals
    BY <1>1, <1>9 DEF Arrivals
  <2>7. /\ Received(c)
        /\ \A i \in DOMAIN written : Earlier(written[i], c)
        /\ \A i \in Packets : Earlier(Queued(i), c)
        /\ \A j \in Arrivals' : Earlier(c, Arrived(j)')
    <3>1. \A j \in Arrivals' : 1 < j + 1
      BY <1>2
    <3> QED
      BY <1>2, <2>4, <2>6, <3>1 DEF OrderInv, ArrivedInv
  <2>8. /\ \A i \in Packets : Queued(i)' = Queued(i) /\ i \in Nat /\ i < n
        /\ Queued(n)' = c
        /\ Packets' = Packets \cup {n}
    <3>1. \A i \in Packets : i \in Nat
      BY QueuesAre DEF Packets
    <3>2. Queued(n)' = c
      BY <2>5 DEF Queued
    <3> QED
      BY <2>3, <2>33, <3>1, <3>2
  <2>9. \A i \in Packets' : Received(Queued(i))'
    <3>1. \A i \in Packets' : Received(Queued(i)')
      BY <2>7, <2>8 DEF OrderInv, QueuedInv
    <3> QED
      BY <1>1, <3>1 DEF Received
  <2>10. \A i, j \in Packets' : i < j => Earlier(Queued(i)', Queued(j)')
    <3>1. ~(n < n) /\ \A i \in Packets : ~(n < i)
      BY <2>8
    <3> QED
      BY <2>7, <2>8, <3>1 DEF OrderInv, QueuedInv
  <2>11. \A i \in DOMAIN written', j \in Packets' : Earlier(written'[i], Queued(j)')
    BY <1>1, <2>7, <2>8 DEF OrderInv, QueuedInv
  <2>12. \A i \in Packets', j \in Arrivals' : Earlier(Queued(i)', Arrived(j)')
    BY <1>2, <2>7, <2>8 DEF OrderInv, ArrivedInv
  <2>13. QueuedInv'
    BY <2>9, <2>10, <2>11 DEF QueuedInv
  <2>14. ArrivedInv'
    BY <1>5, <2>12 DEF ArrivedInv
  <2> QED
    BY <1>1, <1>4, <2>13, <2>14 DEF OrderInv
<1>10. ASSUME NEW id \in {"STARTING", "COMPLETION"}, ota_service_data_event(id, "none")
       PROVE  OrderInv'
  <2>1. Event(id, "none") \in MessageType /\ Event(id, "none").id # "PACKET"
    BY DEF Event, MessageType
  <2>2. ota_queue' = Append(ota_queue, Event(id, "none")) \/ UNCHANGED ota_queue
    BY <1>10, <2>1, MessageSent
  <2> QED
    BY <1>6, <1>7, <1>8, <2>1, <2>2
<1>11. CASE e.id = "CHUNK" /\ ota_service_data_event("PACKET", e.buffer)
  <2>1. Event("PACKET", e.buffer) \in MessageType
    BY <1>1, <1>11 DEF Event, MessageType, EventType
  <2>2. ota_queue' = Append(ota_queue, Event("PACKET", e.buffer)) \/ UNCHANGED ota_queue
    BY <1>11, <2>1, MessageSent
  <2> QED
    BY <1>7, <1>9, <1>11, <2>2
<1> QED
  BY <1>7, <1>10, <1>11 DEF routine_event_handler, EventUnhandled,
     routine_http_server_events_handler, routine_ota_service_events_handler

(* Losing the queue's first entry, or what has been written, orders less.  *)
LEMMA FirstPacketGone ==
    ASSUME UploadInv, OrderInv, NEW id, OtaReceive(id),
           written' = written \/ written' = <<>>, boot' = boot \/ boot' = written
    PROVE  OrderInv'
<1>1. /\ UNCHANGED <<memory, upload, events>>
      /\ \A i \in DOMAIN ota_queue' : /\ i + 1 \in DOMAIN ota_queue
                                       /\ ota_queue'[i] = ota_queue[i + 1] /\ i \in Nat
  <2>1. ota_queue' = Tail(ota_queue) /\ ota_queue # <<>> /\ UNCHANGED <<memory, upload, events>>
    BY DEF OtaReceive, http
  <2> QED
    BY <2>1, QueuesAre
<1>2. \A i \in Packets' : i + 1 \in Packets /\ Queued(i)' = Queued(i + 1) /\ i \in Nat
  BY <1>1 DEF Packets, Queued
<1>3. \A c : Received(c) => Received(c)'
  BY <1>1 DEF Received
<1>4. Arrivals' = Arrivals /\ \A i \in Arrivals : Arrived(i)' = Arrived(i)
  BY <1>1 DEF Arrivals, Arrived
<1>5. /\ written' \in Seq(Chunk) /\ boot' \in Seq(Chunk)
      /\ \A i \in DOMAIN written' : i \in DOMAIN written /\ written'[i] = written[i]
  <2>1. <<>> \in Seq(Chunk) /\ DOMAIN <<>> = {}
    OBVIOUS
  <2> QED
    BY <2>1 DEF OrderInv, WrittenInv
<1>6. WrittenInv'
  BY <1>3, <1>5 DEF OrderInv, WrittenInv
<1>7. QueuedInv'
  <2>1. \A i, j \in Packets' : i < j => i + 1 < j + 1
    BY <1>2
  <2> QED
    BY <1>2, <1>3, <1>5, <2>1 DEF OrderInv, QueuedInv
<1>8. ArrivedInv'
  BY <1>2, <1>3, <1>4, <1>5 DEF OrderInv, ArrivedInv
<1> QED
  BY <1>5, <1>6, <1>7, <1>8 DEF OrderInv

(* The first packet of the queue is written.                               *)
LEMMA FirstPacketWritten ==
    ASSUME UploadInv, OrderInv, OtaReceive("PACKET"), UNCHANGED boot,
           written' = Append(written, memory[Head(ota_queue).buffer])
    PROVE  OrderInv'
<1>1. /\ UNCHANGED <<memory, upload, events>>
      /\ 1 \in DOMAIN ota_queue /\ ota_queue[1] = Head(ota_queue) /\ Head(ota_queue).id = "PACKET"
      /\ \A i \in DOMAIN ota_queue' : /\ i + 1 \in DOMAIN ota_queue /\ 1 < i + 1
                                       /\ ota_queue'[i] = ota_queue[i + 1] /\ i \in Nat
  <2>1. /\ ota_queue' = Tail(ota_queue) /\ ota_queue # <<>> /\ Head(ota_queue).id = "PACKET"
        /\ UNCHANGED <<memory, upload, events>>
    BY DEF OtaReceive, http
  <2> QED
    BY <2>1, QueuesAre
<1>2. \A i \in Packets' : i + 1 \in Packets /\ Queued(i)' = Queued(i + 1) /\ i \in Nat /\ 1 < i + 1
  BY <1>1 DEF Packets, Queued
<1>3. \A c : Received(c) => Received(c)'
  BY <1>1 DEF Received
<1>4. Arrivals' = Arrivals /\ \A i \in Arrivals : Arrived(i)' = Arrived(i)
  BY <1>1 DEF Arrivals, Arrived
<1>5. 1 \in Packets
  BY <1>1 DEF Packets
<1>6. PICK c : c = Queued(1)
  OBVIOUS
<1>7. /\ Received(c) /\ c \in Chunk
      /\ \A i \in DOMAIN written : Earlier(written[i], c)
      /\ \A j \in Packets' : Earlier(c, Queued(j)')
      /\ \A j \in Arrivals : Earlier(c, Arrived(j))
  BY <1>2, <1>5, <1>6 DEF OrderInv, QueuedInv, ArrivedInv, Received
<1>8. PICK n \in Nat : n = Len(written) + 1
  BY DEF OrderInv, WrittenInv
<1>9. /\ written' \in Seq(Chunk) /\ written'[n] = c
      /\ DOMAIN written' = DOMAIN written \cup {n}
      /\ \A i \in DOMAIN written : written'[i] = written[i] /\ i \in Nat /\ i < n
  <2>1. written' = Append(written, c) /\ written \in Seq(Chunk)
    BY <1>1, <1>6 DEF Queued, OrderInv, WrittenInv
  <2> QED
    BY <1>7, <1>8, <2>1
<1>10. WrittenInv'
  <2>1. \A i \in DOMAIN written' : Received(written'[i])
    BY <1>7, <1>9 DEF OrderInv, WrittenInv
  <2>2. \A i \in DOMAIN written' : Received(written[i])'
    BY <1>1, <2>1 DEF Received
  <2>3. \A i, j \in DOMAIN written' : i < j => Earlier(written'[i], written'[j])
    <3>1. ~(n < n) /\ \A i \in DOMAIN written : ~(n < i)
      BY <1>9
    <3> QED
      BY <1>7, <1>9, <3>1 DEF OrderInv, WrittenInv
  <2> QED
    BY <1>9, <2>2, <2>3 DEF WrittenInv
<1>11. QueuedInv'
  <2>1. \A i, j \in Packets' : i < j => i + 1 < j + 1
    BY <1>2
  <2>2. \A i \in DOMAIN written', j \in Packets' : Earlier(written'[i], Queued(j)')
    BY <1>2, <1>7, <1>9 DEF OrderInv, QueuedInv
  <2> QED
    BY <1>2, <1>3, <2>1, <2>2 DEF OrderInv, QueuedInv
<1>12. ArrivedInv'
  <2>1. \A i \in DOMAIN written', j \in Arrivals : Earlier(written'[i], Arrived(j))
    BY <1>7, <1>9 DEF OrderInv, ArrivedInv
  <2> QED
    BY <1>2, <1>3, <1>4, <2>1 DEF OrderInv, ArrivedInv
<1> QED
  BY <1>10, <1>11, <1>12 DEF OrderInv

LEMMA TaskOrder ==
    ASSUME UploadInv, OrderInv, ota_task
    PROVE  OrderInv'
<1>1. CASE PostBufferUsed
  <2>1. used \in Buffers
    BY <1>1 DEF PostBufferUsed, UploadInv
  <2>2. PICK e \in EventType : e = Event("BUFFER_USED", used)
    BY <2>1 DEF Event, EventType
  <2>3. /\ e.id # "CHUNK" /\ events' = Append(events, e)
        /\ UNCHANGED <<memory, upload, ota_queue, written, boot>>
    BY <1>1, <2>2, PostFacts DEF PostBufferUsed, http, Event
  <2>4. /\ \A i \in Packets : memory'[ota_queue[i].buffer] = Queued(i)
        /\ \A i \in Arrivals : memory'[events[i].buffer] = Arrived(i)
        /\ \A c \in Chunk : Received(c) => Received(c)'
    BY <2>3 DEF Queued, Arrived, Received
  <2> QED
    BY <2>3, <2>4, OrderKept
<1>2. CASE IdleStarts \/ Ignored
  <2>1. written' = written /\ boot' = boot
    BY <1>2 DEF IdleStarts, Ignored, ota
  <2>2. \E id : OtaReceive(id)
    BY <1>2 DEF IdleStarts, Ignored
  <2> QED
    BY <2>1, <2>2, FirstPacketGone
<1>3. CASE PacketWithHeader \/ Packet
  <2>1. OtaReceive("PACKET") /\ boot' = boot
    BY <1>3 DEF PacketWithHeader, Packet
  <2>2. \/ written' = written \/ written' = <<>>
        \/ written' = Append(written, memory[Head(ota_queue).buffer])
    BY <1>3 DEF PacketWithHeader, Packet, WriteSucceeds, WriteFails
  <2> QED
    BY <2>1, <2>2, FirstPacketGone, FirstPacketWritten
<1>4. CASE Completion
  <2>1. OtaReceive("COMPLETION") /\ written' = <<>> /\ (boot' = boot \/ boot' = written)
    BY <1>4 DEF Completion
  <2> QED
    BY <2>1, FirstPacketGone
<1> QED
  BY <1>1, <1>2, <1>3, <1>4 DEF ota_task

LEMMA HandlerOrder ==
    ASSUME UploadInv, Conserved, OrderInv,
           file_upload_handler \/ \E v \in Versions : UploadStarts(v)
    PROVE  OrderInv'
<1>1. ASSUME UNCHANGED memory
      PROVE  /\ \A i \in Packets : memory'[ota_queue[i].buffer] = Queued(i)
             /\ \A i \in Arrivals : memory'[events[i].buffer] = Arrived(i)
  BY <1>1 DEF Queued, Arrived
<1>2. CASE \E v \in Versions : UploadStarts(v)
  <2>1. PICK e \in EventType : e = Event("STARTED", "none")
    BY DEF Event, EventType
  <2>2. PICK v \in Versions : UploadStarts(v)
    BY <1>2
  <2>3. /\ e.id # "CHUNK" /\ events' = Append(events, e)
        /\ UNCHANGED <<memory, ota_queue, written, boot>> /\ upload'.id = upload.id + 1
    BY <2>1, <2>2, PostFacts DEF UploadStarts, ota, Event
  <2>4. \A c \in Chunk : Received(c) => Received(c)'
    BY <2>3 DEF Received, UploadInv, Chunk
  <2> QED
    BY <1>1, <2>3, <2>4, OrderKept
<1>3. CASE get_chunk_buffer_from_pool
  <2>1. PICK e \in EventType : e = Event("STARTED", "none")
    BY DEF Event, EventType
  <2>2. e.id # "CHUNK" /\ UNCHANGED <<memory, upload, events, ota_queue, written, boot>>
    BY <1>3, <2>1 DEF get_chunk_buffer_from_pool, ota, Event
  <2>3. \A c \in Chunk : Received(c) => Received(c)'
    BY <2>2 DEF Received
  <2> QED
    BY <1>1, <2>2, <2>3, OrderKept
<1>4. ASSUME NEW id \in {"FAILED", "COMPLETE"}, HandlerReturns(id),
             UNCHANGED memory \/ memory' = [memory EXCEPT ![held] = Garbage]
      PROVE  OrderInv'
  <2>1. PICK e \in EventType : e = Event(id, "none")
    BY DEF Event, EventType
  <2>2. /\ e.id # "CHUNK" /\ events' = Append(events, e)
        /\ UNCHANGED <<upload, ota_queue, written, boot>>
    BY <1>4, <2>1, PostFacts DEF HandlerReturns, ota, Event
  <2>3. /\ \A i \in Packets : memory'[ota_queue[i].buffer] = Queued(i)
        /\ \A i \in Arrivals : memory'[events[i].buffer] = Arrived(i)
    <3>1. /\ \A i \in Packets : ota_queue[i].buffer # held
          /\ \A i \in Arrivals : events[i].buffer # held
      BY <1>4, HeldIsNotWaiting DEF HandlerReturns, Packets, Arrivals
    <3> QED
      BY <1>1, <1>4, <3>1, BuffersOfQueues DEF UploadInv, Queued, Arrived
  <2>4. \A c \in Chunk : Received(c) => Received(c)'
    BY <2>2 DEF Received
  <2> QED
    BY <2>2, <2>3, <2>4, OrderKept
<1> QED
  BY <1>2, <1>3, <1>4, ChunkReceivedOrder
     DEF file_upload_handler, ReceiveFailed, ReceiveComplete

LEMMA OrderStep ==
    ASSUME UploadInv, Conserved, OrderInv, [Next]_vars
    PROVE  OrderInv'
<1>1. CASE UNCHANGED vars \/ http_server_init
  BY <1>1 DEF vars, http, ota, http_server_init, OrderInv, WrittenInv, QueuedInv, ArrivedInv,
     Packets, Queued, Arrivals, Arrived, Received
<1> QED
  BY <1>1, HandlerOrder, EventOrder, TaskOrder DEF Next

LEMMA OrderInvariant == Spec => []OrderInv
<1>1. Init => OrderInv
  <2> SUFFICES ASSUME Init PROVE OrderInv
    OBVIOUS
  <2>1. written = <<>> /\ boot = <<>> /\ Packets = {} /\ Arrivals = {} /\ DOMAIN written = {}
    BY DEF Init, Packets, Arrivals
  <2>2. <<>> \in Seq(Chunk)
    OBVIOUS
  <2> QED
    BY <2>1, <2>2 DEF OrderInv, WrittenInv, QueuedInv, ArrivedInv
<1> QED
  BY <1>1, OrderStep, ConservedInvariant, UploadInvariant, PTL DEF Spec

(* The chunks of one upload reach the flash in the order in which they     *)
(* were received, each at most once, whatever messages are dropped.        *)
THEOREM ChunksInOrderHolds == Spec => []ChunksInOrder
<1>1. OrderInv => ChunksInOrder
  <2> SUFFICES ASSUME OrderInv PROVE ChunksInOrder
    OBVIOUS
  <2>1. \A i \in DOMAIN written : written[i] \in Chunk /\ written[i].upload \in Nat
    <3>1. \A c \in Chunk : c.upload \in Nat
      BY ConstantFacts DEF Chunk
    <3>2. \A i \in DOMAIN written : written[i] \in Chunk
      BY DEF OrderInv, WrittenInv
    <3> QED
      BY <3>1, <3>2
  <2> QED
    BY <2>1 DEF OrderInv, WrittenInv, ChunksInOrder, Earlier
<1> QED
  BY <1>1, OrderInvariant, PTL

(* Every variable holds a value its writers allow and neither queue        *)
(* outgrows its capacity; what ota_task writes is always a received chunk. *)
THEOREM TypeCorrect == Spec => []TypeOK
<1>1. UploadInv /\ OrderInv => TypeOK
  <2> SUFFICES ASSUME UploadInv, OrderInv PROVE TypeOK
    OBVIOUS
  <2>1. /\ EventType \subseteq [id : EventIds, buffer : Buffers \cup {"none"}]
        /\ MessageType \subseteq [id : MessageIds, buffer : Buffers \cup {"none"}]
    BY DEF EventType, MessageType, EventIds, MessageIds
  <2>2. /\ events \in Seq([id : EventIds, buffer : Buffers \cup {"none"}])
        /\ ota_queue \in Seq([id : MessageIds, buffer : Buffers \cup {"none"}])
    <3>1. ASSUME NEW S, NEW T, S \subseteq T, NEW q \in Seq(S) PROVE q \in Seq(T)
      BY <3>1
    <3> QED
      BY <2>1, <3>1, QueuesAre
  <2> QED
    BY <2>2, RegistrationFacts DEF UploadInv, OrderInv, WrittenInv, TypeOK, Cell
<1> QED
  BY <1>1, OrderInvariant, UploadInvariant, PTL

-----------------------------------------------------------------------------
(***************************************************************************)
(* The slots.  Only two things ever happen to them: the outcome of an      *)
(* update spoils the spare one, or installs into it.                       *)
(***************************************************************************)
LEMMA SpareStep ==
    ASSUME UploadInv, Running, [Next]_vars
    PROVE  SpareVersion' \in {SpareVersion, 0}
<1>1. CASE UNCHANGED <<state, image_header_was_checked, handle, written, boot>>
  BY <1>1 DEF SpareVersion
<1>2. CASE IdleStarts
  BY <1>2 DEF IdleStarts, SpareVersion
<1>3. CASE PacketWithHeader
  BY <1>3 DEF PacketWithHeader, WriteSucceeds, WriteFails, SpareVersion
<1>4. CASE Packet
  BY <1>4 DEF Packet, WriteSucceeds, WriteFails, SpareVersion
<1>5. CASE Completion
  BY <1>5 DEF Completion, SpareVersion
<1> QED
  BY <1>1, <1>2, <1>3, <1>4, <1>5, OutsideFlash, FlashCases

(* Only a completion selects an image, one that was written in full under  *)
(* an open handle.                                                         *)
LEMMA BootSelected ==
    ASSUME UploadInv, Running, [Next]_vars
    PROVE  boot' = boot \/ (handle = "open" /\ WholeImage(written) /\ boot' = written)
BY OutsideFlash, FlashCases DEF IdleStarts, PacketWithHeader, Packet, Completion

LEMMA SlotStep ==
    ASSUME DescriptionReadable, UploadInv, FlashInv, BootInv, OrderInv, [Next]_vars
    PROVE  [Slots!SpoilSpare \/ \E v \in Versions : Slots!Install(v)]_(Slots!images)
<1>1. CASE UNCHANGED vars
  BY <1>1 DEF vars, ota, Slots!images, SlotsNow, SpareVersion, Running
<1>2. CASE Running /\ boot' = boot
  <2>1. Running' /\ SlotsNow \in [{0, 1} -> [version : Nat, state : {"VALID", "ABORTED"}]]
    BY <1>2, ConstantFacts DEF Running, SlotsNow, SpareVersion
  <2>2. /\ SlotsNow[1] = [version |-> SpareVersion, state |-> "ABORTED"]
        /\ SlotsNow'[1] = [version |-> SpareVersion', state |-> "ABORTED"]
        /\ SlotsNow[0] = [version |-> RunningVersion, state |-> "VALID"]
        /\ SlotsNow'[0] = SlotsNow[0]
    BY <1>2, <2>1 DEF SlotsNow
  <2>3. CASE SpareVersion' = SpareVersion
    BY <1>2, <2>1, <2>3 DEF Slots!images, SlotsNow
  <2>4. CASE SpareVersion' = 0
    <3>1. SlotsNow' = [SlotsNow EXCEPT ![1].version = 0]
      BY <2>1, <2>2, <2>4 DEF SlotsNow
    <3>2. ~Slots!OnTrial /\ Slots!Spare = 1
      BY <1>2, <2>2 DEF Slots!OnTrial, Slots!Spare
    <3> QED
      BY <1>2, <2>1, <3>1, <3>2 DEF Slots!SpoilSpare
  <2> QED
    BY <1>2, <2>3, <2>4, SpareStep
<1>3. CASE Running /\ boot' = written /\ handle = "open" /\ WholeImage(written)
  <2> DEFINE v == written[1].version
  <2>1. /\ written \in Seq(Chunk) /\ written # <<>> /\ written[1] \in Chunk
        /\ written[1].index = 1
    BY <1>3, ConstantFacts DEF OrderInv, WrittenInv, FlashInv, WholeImage
  <2>2. v \in Versions /\ is_firmware_updated(v) /\ ~is_it_last_invalid_app(v)
    BY <2>1 DEF Chunk, BootInv
  <2>3. /\ ~Running' /\ SpareVersion = LastInvalid
        /\ SlotsNow[0] = [version |-> RunningVersion, state |-> "VALID"]
        /\ SlotsNow[1] = [version |-> LastInvalid, state |-> "ABORTED"]
        /\ SlotsNow' = [SlotsNow EXCEPT ![1] = [version |-> v, state |-> "PENDING_VERIFY"]]
    BY <1>3, <2>1 DEF Running, SlotsNow, SpareVersion
  <2>4. Slots!MayInstall(v)
    BY <1>3, <2>2, <2>3 DEF Slots!MayInstall, Slots!is_firmware_updated, is_firmware_updated,
       Slots!is_it_last_invalid_app, is_it_last_invalid_app, Slots!OnTrial, Slots!Version,
       Slots!Spare
  <2>5. Slots!Install(v)
    BY <1>3, <2>3, <2>4 DEF Slots!Install, Slots!Spare
  <2> QED
    BY <2>2, <2>5
<1> QED
  BY <1>1, <1>2, <1>3, BootSelected DEF Next

(* An upload implements the step that ImageSlots and NodeBoot take it for, *)
(* whatever is lost or fails on its way, provided that the running image's *)
(* description can be read.                                                *)
THEOREM UploadsImplementSlots ==
    DescriptionReadable => (Spec => ImplementsImageSlots)
<1> SUFFICES ASSUME DescriptionReadable PROVE Spec => ImplementsImageSlots
  OBVIOUS
<1>1. Spec => []BootInv
  BY BootInvariant
<1>2. ASSUME UploadInv, FlashInv, BootInv, OrderInv, [Next]_vars
      PROVE  [Slots!SpoilSpare \/ \E v \in Versions : Slots!Install(v)]_(Slots!images)
  BY <1>2, SlotStep
<1> QED
  BY <1>1, <1>2, UploadInvariant, FlashInvariant, OrderInvariant, PTL
  DEF Spec, ImplementsImageSlots

-----------------------------------------------------------------------------
(***************************************************************************)
(* What the leak of buffers comes to.                                      *)
(***************************************************************************)
(* When nothing is left to do but to wait for a buffer, all of them have   *)
(* been lost: no interleaving of handler, event loop and ota_task strands  *)
(* one anywhere else.                                                      *)
StalledWithoutBuffers ==
    httpd = "get" /\ pool = {} /\ events = <<>> /\ ota_queue = <<>> /\ used = "none"
        => lost = Buffers

(* Every upload that is over has cost a buffer.                            *)
LeakInv == upload.id <= Cardinality(lost) + One(httpd # "idle")

(* No upload gets a byte through that comes after as many as there are     *)
(* buffers, and at most one more is ever taken up.                         *)
UploadsAreLimited ==
    /\ httpd = "recv" => upload.id <= Cardinality(Buffers)
    /\ upload.id <= Cardinality(Buffers) + 1

LEMMA StalledWithoutBuffersFollows ==
    ASSUME UploadInv, Conserved
    PROVE  StalledWithoutBuffers
<1> SUFFICES ASSUME httpd = "get", pool = {}, events = <<>>, ota_queue = <<>>, used = "none",
                    NEW b \in Buffers
             PROVE  b \in lost
  BY DEF StalledWithoutBuffers, UploadInv
<1>1. held = "none" /\ b # "none" /\ b \notin pool
  BY ConstantFacts DEF UploadInv
<1>2. Waiting(b) = 0
  BY CountEmpty DEF Waiting
<1>3. Sum(b) = 1
  BY DEF Conserved
<1> QED
  BY <1>1, <1>2, <1>3 DEF Sum, One

LEMMA FinishedUploads ==
    ASSUME UploadInv, [Next]_vars
    PROVE  /\ lost \subseteq lost'
           /\ \/ \E v \in Versions : UploadStarts(v)
              \/ \E id : HandlerReturns(id)
              \/ upload'.id = upload.id /\ (httpd' = "idle" <=> httpd = "idle")
<1>1. CASE UNCHANGED vars \/ http_server_init
  BY <1>1 DEF vars, http, http_server_init
<1>2. CASE \E v \in Versions : UploadStarts(v)
  BY <1>2 DEF UploadStarts
<1>3. CASE file_upload_handler
  BY <1>3 DEF file_upload_handler, get_chunk_buffer_from_pool, ChunkReceived, ReceiveFailed,
     ReceiveComplete, HandlerReturns, UploadInv
<1>4. CASE routine_event_handler
  BY <1>4 DEF routine_event_handler, EventUnhandled, routine_http_server_events_handler,
     routine_ota_service_events_handler, ota_service_data_event, http
<1>5. CASE ota_task
  BY <1>5 DEF ota_task, IdleStarts, Ignored, PacketWithHeader, Packet, Completion,
     PostBufferUsed, OtaReceive, http
<1> QED
  BY <1>1, <1>2, <1>3, <1>4, <1>5 DEF Next

LEMMA LostIsFinite ==
    ASSUME UploadInv
    PROVE  /\ IsFiniteSet(lost) /\ Cardinality(lost) \in Nat
           /\ IsFiniteSet(Buffers) /\ Cardinality(Buffers) \in Nat
           /\ Cardinality(lost) <= Cardinality(Buffers)
<1>1. IsFiniteSet(Buffers) /\ lost \in SUBSET Buffers
  BY UploadAssumption DEF UploadAssumption, UploadInv
<1> QED
  BY <1>1, FS_Subset, FS_CardinalityType

(* The buffer in the handler's hand is not among the lost ones.            *)
LEMMA HeldIsNotLost ==
    ASSUME UploadInv, Conserved, httpd = "recv"
    PROVE  held \in Buffers /\ held \notin lost
<1>1. held \in Buffers /\ Sum(held) = 1
  BY DEF UploadInv, Conserved
<1>2. Count(events, Carry(held)) \in Nat /\ Count(ota_queue, Carry(held)) \in Nat
  BY CountsAreNat
<1> QED
  BY <1>1, <1>2 DEF Sum, Waiting, One

LEMMA LeakStep ==
    ASSUME UploadInv, Conserved, LeakInv, [Next]_vars
    PROVE  LeakInv'
<1>1. UploadInv'
  BY UploadStep
<1>2. /\ Cardinality(lost) \in Nat /\ Cardinality(lost') \in Nat
      /\ IsFiniteSet(lost) /\ IsFiniteSet(lost')
  BY <1>1, LostIsFinite, UploadAssumption, FS_Subset, FS_CardinalityType
  DEF UploadInv, UploadAssumption
<1>3. upload.id \in Nat
  BY ConstantFacts DEF UploadInv
<1>4. Cardinality(lost) <= Cardinality(lost')
  <2>1. lost \in SUBSET lost'
    BY FinishedUploads
  <2> QED
    BY <1>2, <2>1, FS_Subset
<1>5. CASE \E v \in Versions : UploadStarts(v)
  <2>1. httpd = "idle" /\ httpd' = "get" /\ upload'.id = upload.id + 1
    BY <1>5 DEF UploadStarts
  <2> QED
    BY <1>2, <1>3, <1>4, <2>1 DEF LeakInv, One
<1>6. CASE \E id : HandlerReturns(id)
  <2>1. httpd = "recv" /\ httpd' = "idle" /\ upload' = upload /\ lost' = lost \cup {held}
    BY <1>6 DEF HandlerReturns
  <2>2. Cardinality(lost') = Cardinality(lost) + 1
    BY <1>2, <2>1, HeldIsNotLost, FS_AddElement
  <2> QED
    BY <1>2, <1>3, <2>1, <2>2 DEF LeakInv, One
<1>7. CASE upload'.id = upload.id /\ (httpd' = "idle" <=> httpd = "idle")
  BY <1>2, <1>3, <1>4, <1>7 DEF LeakInv, One
<1> QED
  BY <1>5, <1>6, <1>7, FinishedUploads

(* The upload handler can be left with nothing but waiting only when every *)
(* buffer has been lost (what WaitsOnlyForLostBuffers rests on).           *)
THEOREM StalledWithoutBuffersHolds == Spec => []StalledWithoutBuffers
BY StalledWithoutBuffersFollows, UploadInvariant, ConservedInvariant, PTL

(* A node that is not restarted receives no more uploads than it has       *)
(* buffers, three in the source, however they end.                         *)
THEOREM UploadsAreLimitedHolds == Spec => []UploadsAreLimited
<1>1. Init => LeakInv
  <2> SUFFICES ASSUME Init PROVE LeakInv
    OBVIOUS
  <2>1. upload.id = 0 /\ lost = {} /\ httpd = "idle"
    BY DEF Init
  <2> QED
    BY <2>1, FS_EmptySet DEF LeakInv, One
<1>2. ASSUME UploadInv, Conserved, LeakInv PROVE UploadsAreLimited
  <2>1. /\ Cardinality(lost) \in Nat /\ Cardinality(Buffers) \in Nat /\ upload.id \in Nat
        /\ Cardinality(lost) <= Cardinality(Buffers)
    BY <1>2, LostIsFinite, ConstantFacts DEF UploadInv
  <2>2. CASE httpd = "recv"
    <3>1. lost # Buffers /\ lost \in SUBSET Buffers
      BY <1>2, <2>2, HeldIsNotLost DEF UploadInv
    <3>2. Cardinality(lost) # Cardinality(Buffers)
      BY <1>2, <3>1, LostIsFinite, FS_Subset
    <3> QED
      BY <1>2, <2>1, <2>2, <3>2 DEF LeakInv, One, UploadsAreLimited
  <2> QED
    BY <1>2, <2>1, <2>2 DEF LeakInv, One, UploadsAreLimited
<1> QED
  BY <1>1, <1>2, LeakStep, UploadInvariant, ConservedInvariant, PTL DEF Spec
===============================================================================
