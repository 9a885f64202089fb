--------------------------- MODULE GuiPipelineProofs ---------------------------
(***************************************************************************)
(* Proofs about GuiPipeline, for queues of any length, any channels and    *)
(* any number of searches: types, that the screen catches up with the      *)
(* children that two tasks share without a lock, and that a display at     *)
(* rest shows the home screen.                                             *)
(***************************************************************************)
EXTENDS GuiPipeline, SequenceTheorems, TLAPS

Call ==
    [do : {"load"}, what : Screens, value : {Blank}]
        \cup [do : {"set"}, what : Labels, value : Texts]
        \cup [do : {"set"}, what : {"icon"}, value : WifiStates]

PipelineInv ==
    /\ TypeOK
    /\ calls \in Seq(Call)

LEMMA ConstantFacts ==
    /\ GUI_OP_QUEUE_LENGTH \in Nat \ {0} /\ NOTIFY_QUEUE_LENGTH \in Nat \ {0}
    /\ MaxSearches \in Nat
BY GuiAssumption DEF GuiAssumption

LEMMA QueueAppend ==
    ASSUME NEW T, NEW q \in Seq(T), NEW e \in T, NEW n \in Nat, Len(q) < n
    PROVE  Append(q, e) \in Seq(T) /\ Len(Append(q, e)) <= n
OBVIOUS

LEMMA QueueTake ==
    ASSUME NEW T, NEW q \in Seq(T), q # <<>>, NEW n \in Nat, Len(q) <= n
    PROVE  /\ Head(q) \in T /\ Tail(q) \in Seq(T) /\ Len(Tail(q)) <= n
OBVIOUS

(* The calls of an event are calls on children that exist, with values     *)
(* these can have.                                                         *)
LEMMA CallsType == ASSUME NEW e \in Events PROVE Calls(e) \in Seq(Call)
<1>1. /\ \A s \in Screens : Load(s) \in Call
      /\ \A x \in Labels, t \in Texts : Set(x, t) \in Call
      /\ SetWifiState \in Call
  BY DEF Load, Set, SetWifiState, Call, WifiStates
<1>2. /\ {"boot", "home"} \subseteq Screens
      /\ {"boot_main", "boot_channel", "boot_discovery", "home_main", "home_ssid"} \subseteq Labels
      /\ {"booting", "....", "Searching Home", "Welcome", "starting", "ESP32_Config"}
            \subseteq Texts
  BY DEF Screens, Labels, Texts
<1>3. CASE e.event = "BOOTING"
  <2>1. Calls(e) = <<Load("boot"), Set("boot_main", "booting"), Set("boot_channel", "...."),
                     Set("boot_discovery", "....")>>
    BY <1>3 DEF Calls
  <2>2. /\ Load("boot") \in Call /\ Set("boot_main", "booting") \in Call
        /\ Set("boot_channel", "....") \in Call /\ Set("boot_discovery", "....") \in Call
    BY <1>1, <1>2
  <2> QED
    BY <2>1, <2>2
<1>4. CASE e.event = "SEARCHING"
  <2>1. Calls(e) = <<Set("boot_main", "Searching Home"), Set("boot_channel", e.channel)>>
    BY <1>4 DEF Calls
  <2>2. e.channel \in Texts
    BY <1>4 DEF Events, Texts
  <2>3. Set("boot_main", "Searching Home") \in Call /\ Set("boot_channel", e.channel) \in Call
    BY <1>1, <1>2, <2>2
  <2>4. \A a, b \in Call : <<a, b>> \in Seq(Call)
    OBVIOUS
  <2> QED
    BY <2>1, <2>3, <2>4
<1>5. CASE e.event = "BOOT_DONE"
  <2>1. Calls(e) = <<Load("home"), Set("home_main", "Welcome"), Set("home_ssid", "starting"),
                     SetWifiState>>
    BY <1>5 DEF Calls
  <2>2. /\ Load("home") \in Call /\ Set("home_main", "Welcome") \in Call
        /\ Set("home_ssid", "starting") \in Call
    BY <1>1, <1>2
  <2> QED
    BY <1>1, <2>1, <2>2
<1>6. CASE e.event = "AP_INIT"
  <2>1. Calls(e) = <<Set("home_ssid", "ESP32_Config"), SetWifiState>>
    BY <1>6 DEF Calls
  <2>2. Set("home_ssid", "ESP32_Config") \in Call
    BY <1>1, <1>2
  <2> QED
    BY <1>1, <2>1, <2>2
<1>7. e.event \in {"BOOTING", "SEARCHING", "BOOT_DONE", "AP_INIT"}
  BY DEF Events
<1> QED
  BY <1>3, <1>4, <1>5, <1>6, <1>7

LEMMA HeadCall ==
    ASSUME PipelineInv, calls # <<>>
    PROVE  Head(calls) \in Call /\ Tail(calls) \in Seq(Call) /\ JobOf(Head(calls)) \in Jobs
           /\ JobOf(Head(calls)).what = Head(calls).what
           /\ Head(calls).what \in Children \cup Screens
<1>1. Head(calls) \in Call /\ Tail(calls) \in Seq(Call)
  BY DEF PipelineInv
<1>2. ASSUME NEW c \in Call PROVE JobOf(c) \in Jobs /\ JobOf(c).what = c.what
                                  /\ c.what \in Children \cup Screens
  <2>1. CASE c \in [do : {"load"}, what : Screens, value : {Blank}]
    BY <2>1 DEF JobOf, Jobs
  <2>2. CASE c \in [do : {"set"}, what : Labels, value : Texts]
    BY <2>2 DEF JobOf, Jobs, Labels, Children
  <2>3. CASE c \in [do : {"set"}, what : {"icon"}, value : WifiStates]
    BY <2>3 DEF JobOf, Jobs, Children
  <2> QED
    BY <1>2, <2>1, <2>2, <2>3 DEF Call
<1> QED
  BY <1>1, <1>2

LEMMA JobNames ==
    ASSUME NEW j \in Jobs \cup {NoJob}
    PROVE  /\ j.do = "load" => j.what \in Screens
           /\ j.do = "state" => j.what = "icon"
           /\ j.do = "draw" => j.what \in Children
           /\ "none" \notin Children
           /\ Screens \cap Children = {}
BY DEF Jobs, NoJob, Children, Labels, Screens

LEMMA InformType ==
    ASSUME PipelineInv, NEW event, NEW channel,
           [event |-> event, channel |-> channel] \in Events, gui_inform(event, channel)
    PROVE  /\ gui_op_queue' \in Seq(Events) /\ Len(gui_op_queue') <= GUI_OP_QUEUE_LENGTH
           /\ dropped' \in BOOLEAN
<1> DEFINE e == [event |-> event, channel |-> channel]
<1>1. gui_op_queue \in Seq(Events) /\ Len(gui_op_queue) <= GUI_OP_QUEUE_LENGTH /\ dropped \in BOOLEAN
  BY DEF PipelineInv, TypeOK
<1>2. CASE Len(gui_op_queue) < GUI_OP_QUEUE_LENGTH
  <2>1. Append(gui_op_queue, e) \in Seq(Events) /\ Len(Append(gui_op_queue, e)) <= GUI_OP_QUEUE_LENGTH
    BY <1>1, <1>2, ConstantFacts, QueueAppend
  <2> QED
    BY <1>1, <1>2, <2>1 DEF gui_inform
<1>3. CASE ~(Len(gui_op_queue) < GUI_OP_QUEUE_LENGTH)
  BY <1>1, <1>3 DEF gui_inform
<1> QED
  BY <1>2, <1>3

LEMMA PipelineStep ==
    ASSUME PipelineInv, [Next]_vars
    PROVE  PipelineInv'
<1> USE DEF PipelineInv
<1>1. CASE NodeInforms
  <2>1. /\ gui_op_queue' \in Seq(Events) /\ Len(gui_op_queue') <= GUI_OP_QUEUE_LENGTH
        /\ dropped' \in BOOLEAN
    <3>1. /\ \A x \in {"BOOTING", "BOOT_DONE", "AP_INIT"} : [event |-> x, channel |-> "none"] \in Events
          /\ \A c \in Channels : [event |-> "SEARCHING", channel |-> c] \in Events
      BY DEF Events
    <3> QED
      BY <1>1, <3>1, InformType DEF NodeInforms
  <2>2. searches' \in 0..MaxSearches /\ phase' \in {"boot", "search", "found", "serving"}
    BY <1>1, ConstantFacts DEF NodeInforms, TypeOK
  <2> QED
    BY <1>1, <2>1, <2>2 DEF NodeInforms, ui, TypeOK
<1>2. CASE ReceiveEvent
  <2>1. /\ Head(gui_op_queue) \in Events /\ gui_op_queue' \in Seq(Events)
        /\ Len(gui_op_queue') <= GUI_OP_QUEUE_LENGTH
    BY <1>2, ConstantFacts, QueueTake DEF ReceiveEvent, TypeOK
  <2>2. calls' \in Seq(Call)
    BY <1>2, <2>1, CallsType DEF ReceiveEvent
  <2> QED
    BY <1>2, <2>1, <2>2 DEF ReceiveEvent, node, ui, TypeOK
<1>3. CASE WriteContent
  <2>1. Head(calls).value \in Texts \cup WifiStates \cup {Blank, Torn}
    BY <1>3, HeadCall DEF WriteContent, Call
  <2>2. content' \in [Children -> Texts \cup WifiStates \cup {Blank, Torn}]
    BY <1>3, <2>1 DEF WriteContent, TypeOK
  <2> QED
    BY <1>3, <2>2 DEF WriteContent, node, ui, TypeOK
<1>4. CASE PostJob
  <2>1. JobOf(Head(calls)) \in Jobs /\ calls' \in Seq(Call)
        /\ JobOf(Head(calls)).what \in Children \cup Screens
    BY <1>4, HeadCall DEF PostJob
  <2>2. /\ notify_queue' \in Seq(Jobs) /\ Len(notify_queue') <= NOTIFY_QUEUE_LENGTH
        /\ covered' \subseteq Children \cup Screens /\ dropped' \in BOOLEAN
    <3>1. /\ notify_queue \in Seq(Jobs) /\ Len(notify_queue) <= NOTIFY_QUEUE_LENGTH
          /\ covered \subseteq Children \cup Screens /\ dropped \in BOOLEAN
      BY DEF TypeOK
    <3>2. CASE Len(notify_queue) < NOTIFY_QUEUE_LENGTH
      <4>1. /\ Append(notify_queue, JobOf(Head(calls))) \in Seq(Jobs)
            /\ Len(Append(notify_queue, JobOf(Head(calls)))) <= NOTIFY_QUEUE_LENGTH
        BY <2>1, <3>1, <3>2, ConstantFacts, QueueAppend
      <4> QED
        BY <1>4, <2>1, <3>1, <3>2, <4>1 DEF PostJob, ui_worker_process_job
    <3>3. CASE ~(Len(notify_queue) < NOTIFY_QUEUE_LENGTH)
      BY <1>4, <3>1, <3>3 DEF PostJob, ui_worker_process_job
    <3> QED
      BY <3>2, <3>3
  <2> QED
    BY <1>4, <2>1, <2>2 DEF PostJob, node, ui, TypeOK
<1>5. CASE ReceiveJob
  <2>1. /\ job' \in Jobs /\ notify_queue' \in Seq(Jobs)
        /\ Len(notify_queue') <= NOTIFY_QUEUE_LENGTH
    BY <1>5, ConstantFacts, QueueTake DEF ReceiveJob, TypeOK
  <2> QED
    BY <1>5, <2>1 DEF ReceiveJob, node, gui_op, TypeOK
<1>6. CASE LoadScreen
  BY <1>6, JobNames DEF LoadScreen, node, gui_op, TypeOK
<1>7. CASE SetIconState
  <2>1. job' \in Jobs /\ content' \in [Children -> Texts \cup WifiStates \cup {Blank, Torn}]
    BY <1>7 DEF SetIconState, Jobs, WifiStates, TypeOK
  <2> QED
    BY <1>7, <2>1 DEF SetIconState, node, gui_op, TypeOK
<1>8. CASE Draw
  <2>1. content[job.what] \in Texts \cup WifiStates \cup {Blank, Torn}
    BY <1>8, JobNames DEF Draw, TypeOK
  <2>2. shown' \in [Children -> Texts \cup WifiStates \cup {Blank, Torn}]
    BY <1>8, <2>1 DEF Draw, TypeOK
  <2> QED
    BY <1>8, <2>2 DEF Draw, node, gui_op, TypeOK
<1>9. CASE UNCHANGED vars
  BY <1>9 DEF vars, node, gui_op, ui, TypeOK
<1> QED
  BY <1>1, <1>2, <1>3, <1>4, <1>5, <1>6, <1>7, <1>8, <1>9
     DEF Next, gui_op_task, ui_worker_task

LEMMA PipelineInvariant == Spec => []PipelineInv
<1>1. Init => PipelineInv
  <2> SUFFICES ASSUME Init PROVE PipelineInv
    OBVIOUS
  <2>1. /\ <<>> \in Seq(Events) /\ <<>> \in Seq(Jobs) /\ <<>> \in Seq(Call) /\ Len(<<>>) = 0
        /\ 0 <= GUI_OP_QUEUE_LENGTH /\ 0 <= NOTIFY_QUEUE_LENGTH /\ 0 \in 0..MaxSearches
    BY ConstantFacts
  <2>2. content \in [Children -> Texts \cup WifiStates \cup {Blank, Torn}]
    BY DEF Init, WifiStates
  <2>3. shown \in [Children -> Texts \cup WifiStates \cup {Blank, Torn}]
    BY DEF Init
  <2> QED
    BY <2>1, <2>2, <2>3 DEF Init, PipelineInv, TypeOK
<1> QED
  BY <1>1, PipelineStep, PTL DEF Spec

(* Every variable holds a value its writers allow; no queue outgrows its   *)
(* capacity.                                                               *)
THEOREM TypeCorrect == Spec => []TypeOK
BY PipelineInvariant, PTL DEF PipelineInv

-----------------------------------------------------------------------------
(***************************************************************************)
(* The screen.  Only the task that has announced an update, by being in    *)
(* the middle of it or by a job, makes a child differ from what is shown.  *)
(***************************************************************************)
Queued(x) == \E i \in DOMAIN notify_queue : notify_queue[i].what = x

LEMMA QueueFacts ==
    ASSUME PipelineInv, NEW x
    PROVE  /\ \A j \in Jobs : notify_queue' = Append(notify_queue, j) =>
                 (Queued(x)' <=> Queued(x) \/ j.what = x)
           /\ notify_queue # <<>> /\ notify_queue' = Tail(notify_queue) =>
                 (Queued(x) <=> Queued(x)' \/ Head(notify_queue).what = x)
           /\ UNCHANGED notify_queue => (Queued(x)' <=> Queued(x))
<1>1. notify_queue \in Seq(Jobs)
  BY DEF PipelineInv, TypeOK
<1>2. ASSUME NEW j \in Jobs, notify_queue' = Append(notify_queue, j)
      PROVE  Queued(x)' <=> Queued(x) \/ j.what = x
  <2>1. /\ DOMAIN notify_queue' = DOMAIN notify_queue \cup {Len(notify_queue) + 1}
        /\ notify_queue'[Len(notify_queue) + 1] = j
        /\ \A i \in DOMAIN notify_queue : notify_queue'[i] = notify_queue[i]
    BY <1>1, <1>2
  <2> QED
    BY <2>1 DEF Queued
<1>3. ASSUME notify_queue # <<>>, notify_queue' = Tail(notify_queue)
      PROVE  Queued(x) <=> Queued(x)' \/ Head(notify_queue).what = x
  <2>1. /\ DOMAIN notify_queue = 1..Len(notify_queue) /\ Len(notify_queue) \in Nat \ {0}
        /\ DOMAIN notify_queue' = 1..(Len(notify_queue) - 1)
        /\ \A i \in DOMAIN notify_queue' : notify_queue'[i] = notify_queue[i + 1]
        /\ Head(notify_queue) = notify_queue[1]
    BY <1>1, <1>3
  <2>2. \A i \in DOMAIN notify_queue : i = 1 \/ i - 1 \in DOMAIN notify_queue'
    BY <2>1
  <2>3. \A i \in DOMAIN notify_queue' : i + 1 \in DOMAIN notify_queue
    BY <2>1
  <2>4. Queued(x)' => Queued(x)
    BY <2>1, <2>3 DEF Queued
  <2>5. Head(notify_queue).what = x => Queued(x)
    BY <2>1 DEF Queued
  <2>6. Queued(x) => Queued(x)' \/ Head(notify_queue).what = x
    <3> SUFFICES ASSUME NEW i \in DOMAIN notify_queue, notify_queue[i].what = x, i # 1
                 PROVE  Queued(x)'
      BY <2>1 DEF Queued
    <3>1. i - 1 \in DOMAIN notify_queue' /\ notify_queue'[i - 1] = notify_queue[i]
      BY <2>1, <2>2
    <3> QED
      BY <3>1 DEF Queued
  <2> QED
    BY <2>4, <2>5, <2>6
<1> QED
  BY <1>2, <1>3 DEF Queued

LEMMA ScreenStep ==
    ASSUME PipelineInv, ScreenCatchesUp, [Next]_vars
    PROVE  ScreenCatchesUp'
<1> SUFFICES ASSUME NEW x \in Children, x \in covered'
             PROVE  (shown[x] = content[x] \/ Pending(x))'
  BY DEF ScreenCatchesUp
<1>0. /\ job \in Jobs \cup {NoJob} /\ content \in [Children -> Texts \cup WifiStates \cup {Blank, Torn}]
      /\ shown \in [Children -> Texts \cup WifiStates \cup {Blank, Torn}]
  BY DEF PipelineInv, TypeOK
<1>1. /\ Pending(x) <=> \/ calls # <<>> /\ Head(calls).what = x /\ op # "call"
                        \/ job.what = x \/ Queued(x)
      /\ Pending(x)' <=> \/ calls' # <<>> /\ Head(calls').what = x /\ op' # "call"
                         \/ job'.what = x \/ Queued(x)'
      /\ x \in covered => shown[x] = content[x] \/ Pending(x)
  BY DEF Pending, Queued, ScreenCatchesUp
<1>2. CASE NodeInforms
  <2>1. UNCHANGED <<calls, op, notify_queue, job, shown, content, covered>>
    BY <1>2 DEF NodeInforms, ui
  <2> QED
    BY <1>1, <2>1, QueueFacts
<1>3. CASE ReceiveEvent
  <2>1. UNCHANGED <<op, notify_queue, job, shown, content, covered>> /\ calls = <<>>
    BY <1>3 DEF ReceiveEvent, ui
  <2> QED
    BY <1>1, <2>1, QueueFacts
<1>4. CASE WriteContent
  <2>1. /\ UNCHANGED <<calls, notify_queue, job, shown, covered>> /\ op' # "call" /\ calls # <<>>
        /\ Head(calls).what = x \/ content'[x] = content[x]
    BY <1>0, <1>4 DEF WriteContent, ui
  <2> QED
    BY <1>1, <2>1, QueueFacts
<1>5. CASE PostJob
  <2>1. UNCHANGED <<job, shown, content>> /\ calls # <<>>
    BY <1>5 DEF PostJob, ui
  <2>2. JobOf(Head(calls)) \in Jobs /\ JobOf(Head(calls)).what = Head(calls).what
    BY <2>1, HeadCall
  <2>3. CASE Head(calls).what = x
    <3>1. notify_queue' = Append(notify_queue, JobOf(Head(calls)))
      BY <1>5, <2>2, <2>3 DEF PostJob, ui_worker_process_job
    <3> QED
      BY <1>1, <2>2, <2>3, <3>1, QueueFacts
  <2>4. CASE Head(calls).what # x
    <3>1. x \in covered
      BY <1>5, <2>2, <2>4 DEF PostJob, ui_worker_process_job
    <3>2. Queued(x) => Queued(x)'
      BY <1>5, <2>2, QueueFacts DEF PostJob, ui_worker_process_job
    <3> QED
      BY <1>1, <2>1, <2>4, <3>1, <3>2
  <2> QED
    BY <2>3, <2>4
<1>6. CASE ReceiveJob
  <2>1. /\ UNCHANGED <<calls, op, shown, content, covered>> /\ job = NoJob
        /\ notify_queue # <<>> /\ notify_queue' = Tail(notify_queue)
        /\ job' = Head(notify_queue)
    BY <1>6 DEF ReceiveJob, gui_op
  <2>2. job.what # x
    BY <2>1, JobNames DEF NoJob
  <2> QED
    BY <1>1, <2>1, <2>2, QueueFacts
<1>7. CASE LoadScreen
  <2>1. UNCHANGED <<calls, op, notify_queue, shown, content, covered>> /\ job.what # x
    BY <1>0, <1>7, JobNames DEF LoadScreen, gui_op
  <2> QED
    BY <1>1, <2>1, QueueFacts
<1>8. CASE SetIconState
  <2>1. /\ UNCHANGED <<calls, op, notify_queue, shown, covered>> /\ job'.what = job.what
        /\ job.what = x \/ content'[x] = content[x]
    BY <1>0, <1>8, JobNames DEF SetIconState, gui_op
  <2> QED
    BY <1>1, <2>1, QueueFacts
<1>9. CASE Draw
  <2>1. /\ UNCHANGED <<calls, op, notify_queue, content, covered>>
        /\ shown'[x] = IF job.what = x THEN content[x] ELSE shown[x]
    BY <1>0, <1>9 DEF Draw, gui_op
  <2> QED
    BY <1>1, <2>1, QueueFacts
<1>10. CASE UNCHANGED vars
  <2>1. UNCHANGED <<calls, op, notify_queue, job, shown, content, covered>>
    BY <1>10 DEF vars, gui_op, ui
  <2> QED
    BY <1>1, <2>1, QueueFacts
<1> QED
  BY <1>2, <1>3, <1>4, <1>5, <1>6, <1>7, <1>8, <1>9, <1>10
     DEF Next, gui_op_task, ui_worker_task

(* Sharing the children without a lock is harmless in the end: whatever is *)
(* shown of a child is what the child holds, or an update of it is on its  *)
(* way, unless the queue was full when its last update was posted.         *)
THEOREM ScreenCatchesUpHolds == Spec => []ScreenCatchesUp
<1>1. Init => ScreenCatchesUp
  BY DEF Init, ScreenCatchesUp
<1> QED
  BY <1>1, ScreenStep, PipelineInvariant, PTL DEF Spec

-----------------------------------------------------------------------------
(***************************************************************************)
(* The end of the boot sequence.  EndsOnHomeScreen is a liveness property; *)
(* its safety half is that a pipeline with nothing left in it shows the    *)
(* right thing.  It rests on the order of three events on their way        *)
(* through two queues: nothing of BOOTING is ever behind anything else,    *)
(* and nothing of BOOT_DONE is behind something of AP_INIT.                *)
(***************************************************************************)
Announced(v) == \E i \in DOMAIN gui_op_queue : gui_op_queue[i].event = v
ToCall(c) == \E i \in DOMAIN calls : calls[i] = c
ToDo(j) == \E i \in DOMAIN notify_queue : notify_queue[i] = j

LoadJob(s) == [do |-> "load", what |-> s]
SsidStarting == Set("home_ssid", "starting")
SsidServing == Set("home_ssid", "ESP32_Config")

(* ui_worker_task has done nothing and has nothing to do. *)
NothingDrawn == notify_queue = <<>> /\ job = NoJob /\ screen = "none"

(* The load of the boot screen is the first thing in every stage. *)
BootFirst ==
    /\ phase = "boot" => gui_op_queue = <<>> /\ calls = <<>> /\ NothingDrawn
    /\ \A i \in DOMAIN gui_op_queue :
          gui_op_queue[i].event = "BOOTING" => i = 1 /\ calls = <<>> /\ NothingDrawn
    /\ \A i \in DOMAIN calls : calls[i] = Load("boot") => i = 1 /\ NothingDrawn
    /\ \A i \in DOMAIN notify_queue :
          notify_queue[i] = LoadJob("boot") => i = 1 /\ job = NoJob /\ screen = "none"
    /\ job = LoadJob("boot") => screen = "none"

(* Once the home node is found the home screen is loaded or on its way. *)
HomeAhead ==
    ~dropped /\ phase \in {"found", "serving"} =>
        \/ Announced("BOOT_DONE")
        \/ ToCall(Load("home"))
        \/ ToDo(LoadJob("home"))
        \/ job = LoadJob("home")
        \/ screen = "home"

(* The name of the access point has not reached the child. *)
SsidFresh == ~ToCall(SsidServing) /\ content["home_ssid"] # "ESP32_Config"

(* The provisional text never follows the name of the access point. *)
SsidOrder ==
    /\ phase # "serving" => ~Announced("AP_INIT") /\ SsidFresh
    /\ \A i \in DOMAIN gui_op_queue :
          gui_op_queue[i].event = "BOOT_DONE" =>
             /\ SsidFresh
             /\ \A k \in DOMAIN gui_op_queue : gui_op_queue[k].event = "AP_INIT" => k > i
    /\ ToCall(SsidStarting) => SsidFresh
    /\ \A i \in DOMAIN calls :
          calls[i].what = "home_ssid" => calls[i] \in {SsidStarting, SsidServing}

(* Once the node serves, the child holds the name or is going to. *)
SsidAhead ==
    ~dropped /\ phase = "serving" =>
        \/ Announced("AP_INIT")
        \/ ToCall(SsidServing)
        \/ content["home_ssid"] = "ESP32_Config"

(* What gui_op_task has done of the first call. *)
CallUnderWay ==
    /\ op # "call" => calls # <<>>
    /\ op = "post" /\ Head(calls).what \in Labels =>
          content[Head(calls).what] = Head(calls).value

(* A label that was written has a job, unless it is the one under way. *)
WrittenIsCovered ==
    ~dropped =>
        \A x \in Labels :
            content[x] = Blank \/ x \in covered \/ (calls # <<>> /\ Head(calls).what = x)

BootOrder ==
    /\ BootFirst /\ HomeAhead /\ SsidOrder /\ SsidAhead
    /\ CallUnderWay /\ WrittenIsCovered

(* A display that has nothing left to do for a node that serves, and had   *)
(* to drop nothing, shows the home screen with the name of its access      *)
(* point.                                                                  *)
HomeScreenAtRest ==
    /\ phase = "serving" /\ ~dropped
    /\ gui_op_queue = <<>> /\ calls = <<>> /\ notify_queue = <<>> /\ job = NoJob
    => screen = "home" /\ shown["home_ssid"] = "ESP32_Config"

(* What a queue holds after an append, and what it held before a removal. *)
LEMMA AfterAppend ==
    ASSUME NEW T, NEW q \in Seq(T), NEW e \in T, NEW r, r = Append(q, e)
    PROVE  /\ DOMAIN r = DOMAIN q \cup {Len(q) + 1} /\ r[Len(q) + 1] = e
           /\ \A i \in DOMAIN q : r[i] = q[i] /\ i < Len(q) + 1
           /\ q = <<>> => Len(q) + 1 = 1 /\ DOMAIN q = {}
<1>1. r \in Seq(T) /\ Len(r) = Len(q) + 1 /\ Len(q) \in Nat
  OBVIOUS
<1>2. DOMAIN r = 1..(Len(q) + 1) /\ DOMAIN q = 1..Len(q)
  BY <1>1
<1>3. \A i \in 1..(Len(q) + 1) : r[i] = IF i = Len(q) + 1 THEN e ELSE q[i]
  OBVIOUS
<1> QED
  BY <1>1, <1>2, <1>3

LEMMA AfterTail ==
    ASSUME NEW T, NEW q \in Seq(T), q # <<>>, NEW r, r = Tail(q)
    PROVE  /\ 1 \in DOMAIN q /\ q[1] = Head(q)
           /\ \A i \in DOMAIN r : i \in Nat \ {0} /\ i + 1 \in DOMAIN q /\ r[i] = q[i + 1]
           /\ \A i \in DOMAIN q : i \in Nat \ {0}
                                  /\ (i # 1 => i - 1 \in DOMAIN r /\ r[i - 1] = q[i])
<1>1. Len(q) \in Nat \ {0} /\ DOMAIN q = 1..Len(q) /\ q[1] = Head(q)
  OBVIOUS
<1>2. DOMAIN r = 1..(Len(q) - 1) /\ \A i \in 1..(Len(q) - 1) : r[i] = q[i + 1]
  BY <1>1
<1> QED
  BY <1>1, <1>2

(* An event announced by a step is announced in its phase; a queue that is *)
(* full drops it.                                                          *)
LEMMA InformFacts ==
    ASSUME PipelineInv, NodeInforms
    PROVE  /\ UNCHANGED <<calls, op, notify_queue, job, shown, screen, content, covered>>
           /\ phase' # "boot"
           /\ \E e \in Events :
                /\ \/ gui_op_queue' = Append(gui_op_queue, e) /\ UNCHANGED dropped
                   \/ UNCHANGED gui_op_queue /\ dropped'
                /\ e.event = "BOOTING" => phase = "boot"
                /\ e.event = "BOOT_DONE" => phase = "search"
                /\ e.event = "AP_INIT" => phase = "found" /\ phase' = "serving"
                /\ phase' \in {"found", "serving"} =>
                      phase \in {"found", "serving"} \/ e.event = "BOOT_DONE"
                /\ phase' = "serving" => phase = "serving" \/ e.event = "AP_INIT"
<1>1. /\ \A x \in {"BOOTING", "BOOT_DONE", "AP_INIT"} : [event |-> x, channel |-> "none"] \in Events
      /\ \A c \in Channels : [event |-> "SEARCHING", channel |-> c] \in Events
  BY DEF Events
<1>2. ASSUME NEW x, NEW c, gui_inform(x, c)
      PROVE  \/ gui_op_queue' = Append(gui_op_queue, [event |-> x, channel |-> c])
                /\ UNCHANGED dropped
             \/ UNCHANGED gui_op_queue /\ dropped'
  BY <1>2 DEF gui_inform
<1>3. UNCHANGED <<calls, op, notify_queue, job, shown, screen, content, covered>>
  BY DEF NodeInforms, ui
<1>4. CASE phase = "boot" /\ phase' = "search" /\ gui_inform("BOOTING", "none")
  BY <1>1, <1>2, <1>3, <1>4
<1>5. ASSUME phase \in {"search", "serving"}, UNCHANGED phase,
             NEW c \in Channels, gui_inform("SEARCHING", c)
      PROVE  /\ phase' # "boot"
             /\ \E e \in Events :
                  /\ \/ gui_op_queue' = Append(gui_op_queue, e) /\ UNCHANGED dropped
                     \/ UNCHANGED gui_op_queue /\ dropped'
                  /\ e.event = "SEARCHING"
  BY <1>1, <1>2, <1>5
<1>6. CASE phase = "search" /\ phase' = "found" /\ gui_inform("BOOT_DONE", "none")
  BY <1>1, <1>2, <1>3, <1>6
<1>7. CASE phase = "found" /\ phase' = "serving" /\ gui_inform("AP_INIT", "none")
  BY <1>1, <1>2, <1>3, <1>7
<1>8. CASE phase \in {"search", "serving"} /\ UNCHANGED phase
           /\ \E c \in Channels : gui_inform("SEARCHING", c)
  BY <1>3, <1>5, <1>8
<1> QED
  BY <1>4, <1>6, <1>7, <1>8 DEF NodeInforms

(* The calls that matter here, by the event they belong to. *)
LEMMA CallsFacts ==
    ASSUME NEW e \in Events
    PROVE  /\ \A i \in DOMAIN Calls(e) :
                /\ Calls(e)[i] = Load("boot") => i = 1 /\ e.event = "BOOTING"
                /\ Calls(e)[i] = SsidStarting => e.event = "BOOT_DONE"
                /\ Calls(e)[i] = SsidServing => e.event = "AP_INIT"
                /\ Calls(e)[i].what = "home_ssid" =>
                      Calls(e)[i] \in {SsidStarting, SsidServing}
           /\ e.event = "BOOT_DONE" => \E i \in DOMAIN Calls(e) : Calls(e)[i] = Load("home")
           /\ e.event = "AP_INIT" => \E i \in DOMAIN Calls(e) : Calls(e)[i] = SsidServing
<1> USE DEF Load, Set, SetWifiState, SsidStarting, SsidServing
<1>1. CASE e.event = "BOOTING"
  <2>1. Calls(e) = <<Load("boot"), Set("boot_main", "booting"), Set("boot_channel", "...."),
                     Set("boot_discovery", "....")>>
    BY <1>1 DEF Calls
  <2>2. DOMAIN Calls(e) = 1..4
    BY <2>1
  <2> QED
    BY <1>1, <2>1, <2>2
<1>2. CASE e.event = "SEARCHING"
  <2>1. PICK a, b : /\ a.what = "boot_main" /\ b.what = "boot_channel" /\ Calls(e) = <<a, b>>
    BY <1>2 DEF Calls
  <2>2. DOMAIN Calls(e) = 1..2 /\ Calls(e)[1] = a /\ Calls(e)[2] = b
    BY <2>1
  <2>3. \A i \in DOMAIN Calls(e) : Calls(e)[i].what \notin {"boot", "home_ssid"}
    BY <2>1, <2>2
  <2> QED
    BY <1>2, <2>3
<1>3. CASE e.event = "BOOT_DONE"
  <2>1. Calls(e) = <<Load("home"), Set("home_main", "Welcome"), Set("home_ssid", "starting"),
                     SetWifiState>>
    BY <1>3 DEF Calls
  <2>2. DOMAIN Calls(e) = 1..4 /\ Calls(e)[1] = Load("home")
    BY <2>1
  <2> QED
    BY <1>3, <2>1, <2>2
<1>4. CASE e.event = "AP_INIT"
  <2>1. Calls(e) = <<Set("home_ssid", "ESP32_Config"), SetWifiState>>
    BY <1>4 DEF Calls
  <2>2. DOMAIN Calls(e) = 1..2 /\ Calls(e)[1] = SsidServing
    BY <2>1
  <2> QED
    BY <1>4, <2>1, <2>2
<1>5. e.event \in {"BOOTING", "SEARCHING", "BOOT_DONE", "AP_INIT"}
  BY DEF Events
<1> QED
  BY <1>1, <1>2, <1>3, <1>4, <1>5

(* A step of ReceiveEvent, PostJob and ReceiveJob, seen in their queues. *)
LEMMA TakeEvent ==
    ASSUME PipelineInv, ReceiveEvent
    PROVE  /\ Head(gui_op_queue) \in Events /\ calls = <<>> /\ ~(\E i \in DOMAIN calls : TRUE)
           /\ calls' = Calls(Head(gui_op_queue))
           /\ 1 \in DOMAIN gui_op_queue /\ gui_op_queue[1] = Head(gui_op_queue)
           /\ \A i \in DOMAIN gui_op_queue' :
                 i \in Nat \ {0} /\ i + 1 \in DOMAIN gui_op_queue
                 /\ gui_op_queue'[i] = gui_op_queue[i + 1]
           /\ \A i \in DOMAIN gui_op_queue :
                 i \in Nat \ {0}
                 /\ (i # 1 => i - 1 \in DOMAIN gui_op_queue'
                              /\ gui_op_queue'[i - 1] = gui_op_queue[i])
           /\ UNCHANGED <<phase, op, notify_queue, job, shown, screen, content, covered, dropped>>
<1>1. gui_op_queue \in Seq(Events) /\ gui_op_queue # <<>> /\ gui_op_queue' = Tail(gui_op_queue)
  BY DEF PipelineInv, TypeOK, ReceiveEvent
<1>2. calls = <<>> /\ calls' = Calls(Head(gui_op_queue))
  BY DEF ReceiveEvent
<1>3. UNCHANGED <<phase, op, notify_queue, job, shown, screen, content, covered, dropped>>
  BY DEF ReceiveEvent, node, ui
<1>4. Head(gui_op_queue) \in Events
  BY <1>1
<1>5. DOMAIN calls = {}
  BY <1>2
<1> QED
  BY <1>1, <1>2, <1>3, <1>4, <1>5, AfterTail

LEMMA TakeCall ==
    ASSUME PipelineInv, PostJob
    PROVE  /\ calls # <<>> /\ 1 \in DOMAIN calls /\ calls[1] = Head(calls)
           /\ Head(calls) \in Call /\ JobOf(Head(calls)) \in Jobs
           /\ \A i \in DOMAIN calls' :
                 i \in Nat \ {0} /\ i + 1 \in DOMAIN calls /\ calls'[i] = calls[i + 1]
           /\ \A i \in DOMAIN calls :
                 i \in Nat \ {0} /\ (i # 1 => i - 1 \in DOMAIN calls' /\ calls'[i - 1] = calls[i])
           /\ op' = "call"
           /\ \/ /\ notify_queue' = Append(notify_queue, JobOf(Head(calls)))
                 /\ covered' = covered \cup {Head(calls).what} /\ UNCHANGED dropped
              \/ UNCHANGED notify_queue /\ dropped'
           /\ UNCHANGED <<phase, gui_op_queue, job, shown, screen, content>>
<1>1. calls \in Seq(Call) /\ calls # <<>> /\ calls' = Tail(calls) /\ op' = "call"
  BY DEF PipelineInv, PostJob
<1>2. /\ JobOf(Head(calls)) \in Jobs /\ JobOf(Head(calls)).what = Head(calls).what
      /\ Head(calls) \in Call
  BY <1>1, HeadCall
<1>3. \/ /\ notify_queue' = Append(notify_queue, JobOf(Head(calls)))
         /\ covered' = covered \cup {Head(calls).what} /\ UNCHANGED dropped
      \/ UNCHANGED notify_queue /\ dropped'
  BY <1>2 DEF PostJob, ui_worker_process_job
<1>4. UNCHANGED <<phase, gui_op_queue, job, shown, screen, content>>
  BY DEF PostJob, node, ui
<1> QED
  BY <1>1, <1>2, <1>3, <1>4, AfterTail

LEMMA TakeJob ==
    ASSUME PipelineInv, ReceiveJob
    PROVE  /\ notify_queue # <<>> /\ job = NoJob /\ job' = Head(notify_queue)
           /\ 1 \in DOMAIN notify_queue /\ notify_queue[1] = Head(notify_queue)
           /\ \A i \in DOMAIN notify_queue' :
                 i \in Nat \ {0} /\ i + 1 \in DOMAIN notify_queue
                 /\ notify_queue'[i] = notify_queue[i + 1]
           /\ \A i \in DOMAIN notify_queue :
                 i \in Nat \ {0}
                 /\ (i # 1 => i - 1 \in DOMAIN notify_queue'
                              /\ notify_queue'[i - 1] = notify_queue[i])
           /\ UNCHANGED <<phase, gui_op_queue, calls, op, shown, screen, content, covered, dropped>>
<1>1. /\ notify_queue \in Seq(Jobs) /\ notify_queue # <<>>
      /\ notify_queue' = Tail(notify_queue)
      /\ job = NoJob /\ job' = Head(notify_queue)
  BY DEF PipelineInv, TypeOK, ReceiveJob
<1>2. UNCHANGED <<phase, gui_op_queue, calls, op, shown, screen, content, covered, dropped>>
  BY DEF ReceiveJob, node, gui_op
<1> QED
  BY <1>1, <1>2, AfterTail

(* The loads are told apart from each other and from every other call. *)
LEMMA LoadNames ==
    /\ LoadJob("boot") # NoJob /\ LoadJob("home") # NoJob /\ LoadJob("boot") # LoadJob("home")
    /\ LoadJob("boot").do = "load" /\ LoadJob("boot").what = "boot"
    /\ LoadJob("home").do = "load" /\ LoadJob("home").what = "home"
    /\ JobOf(Load("boot")) = LoadJob("boot") /\ JobOf(Load("home")) = LoadJob("home")
    /\ \A c \in Call : JobOf(c) = LoadJob("boot") => c = Load("boot")
    /\ \A j \in Jobs \cup {NoJob} : j.do = "load" => j \in {LoadJob("boot"), LoadJob("home")}
<1>1. ASSUME NEW c \in Call, JobOf(c) = LoadJob("boot") PROVE c = Load("boot")
  <2>1. CASE c \in [do : {"load"}, what : Screens, value : {Blank}]
    BY <1>1, <2>1 DEF JobOf, LoadJob, Load
  <2>2. CASE c \in [do : {"set"}, what : Labels, value : Texts]
    BY <1>1, <2>2 DEF JobOf, LoadJob, Labels
  <2>3. CASE c \in [do : {"set"}, what : {"icon"}, value : WifiStates]
    BY <1>1, <2>3 DEF JobOf, LoadJob
  <2> QED
    BY <2>1, <2>2, <2>3 DEF Call
<1>2. ASSUME NEW j \in Jobs \cup {NoJob}, j.do = "load"
      PROVE  j \in {LoadJob("boot"), LoadJob("home")}
  BY <1>2 DEF Jobs, NoJob, LoadJob, Screens
<1> QED
  BY <1>1, <1>2 DEF LoadJob, NoJob, JobOf, Load

LEMMA BootFirstStep ==
    ASSUME PipelineInv, BootFirst, [Next]_vars
    PROVE  BootFirst'
<1> USE DEF BootFirst, NothingDrawn
<1>0. /\ gui_op_queue \in Seq(Events) /\ notify_queue \in Seq(Jobs)
      /\ job \in Jobs \cup {NoJob}
  BY DEF PipelineInv, TypeOK
<1>1. CASE NodeInforms
  <2>1. /\ UNCHANGED <<calls, notify_queue, job, screen>> /\ phase' # "boot"
        /\ \E e \in Events :
              /\ gui_op_queue' = Append(gui_op_queue, e) \/ UNCHANGED gui_op_queue
              /\ e.event = "BOOTING" => phase = "boot"
    BY <1>1, InformFacts
  <2>2. PICK e \in Events :
              /\ gui_op_queue' = Append(gui_op_queue, e) \/ UNCHANGED gui_op_queue
              /\ e.event = "BOOTING" => phase = "boot"
    BY <2>1
  <2>3. CASE gui_op_queue' = Append(gui_op_queue, e)
    <3>1. /\ DOMAIN gui_op_queue' = DOMAIN gui_op_queue \cup {Len(gui_op_queue) + 1}
          /\ gui_op_queue'[Len(gui_op_queue) + 1] = e
          /\ \A i \in DOMAIN gui_op_queue : gui_op_queue'[i] = gui_op_queue[i]
          /\ gui_op_queue = <<>> => Len(gui_op_queue) + 1 = 1
      BY <1>0, <2>3, AfterAppend
    <3> QED
      BY <2>1, <2>2, <3>1
  <2>4. CASE UNCHANGED gui_op_queue
    BY <2>1, <2>4
  <2> QED
    BY <2>2, <2>3, <2>4
<1>2. CASE ReceiveEvent
  <2> DEFINE e == Head(gui_op_queue)
  <2>1. /\ e \in Events /\ calls' = Calls(e)
        /\ 1 \in DOMAIN gui_op_queue /\ gui_op_queue[1] = e
        /\ UNCHANGED <<phase, notify_queue, job, screen>>
    BY <1>2, TakeEvent
  <2>2. \A i \in DOMAIN gui_op_queue' :
           i \in Nat \ {0} /\ i + 1 \in DOMAIN gui_op_queue
           /\ gui_op_queue'[i] = gui_op_queue[i + 1]
    BY <1>2, TakeEvent
  <2>3. phase # "boot"
    BY <1>2 DEF ReceiveEvent
  <2>4. \A i \in DOMAIN gui_op_queue' : gui_op_queue'[i].event # "BOOTING"
    BY <2>2
  <2>5. \A i \in DOMAIN calls' : calls'[i] = Load("boot") => i = 1 /\ e.event = "BOOTING"
    BY <2>1, CallsFacts
  <2> QED
    BY <2>1, <2>3, <2>4, <2>5
<1>3. CASE WriteContent
  BY <1>3 DEF WriteContent, node, ui
<1>4. CASE PostJob
  <2> DEFINE c == Head(calls)
  <2>1. /\ calls # <<>> /\ 1 \in DOMAIN calls /\ calls[1] = c
        /\ c \in Call /\ JobOf(c) \in Jobs
        /\ UNCHANGED <<phase, gui_op_queue, job, screen>>
        /\ notify_queue' = Append(notify_queue, JobOf(c)) \/ UNCHANGED notify_queue
    BY <1>4, TakeCall
  <2>2. \A i \in DOMAIN calls' :
           i \in Nat \ {0} /\ i + 1 \in DOMAIN calls /\ calls'[i] = calls[i + 1]
    BY <1>4, TakeCall
  <2>3. phase # "boot"
    BY <2>1
  <2>4. \A i \in DOMAIN calls' : calls'[i] # Load("boot")
    BY <2>2
  <2>5. \A i \in DOMAIN gui_op_queue' : gui_op_queue'[i].event # "BOOTING"
    BY <2>1
  <2>6. CASE notify_queue' = Append(notify_queue, JobOf(c))
    <3>1. /\ DOMAIN notify_queue' = DOMAIN notify_queue \cup {Len(notify_queue) + 1}
          /\ notify_queue'[Len(notify_queue) + 1] = JobOf(c)
          /\ \A i \in DOMAIN notify_queue : notify_queue'[i] = notify_queue[i]
          /\ notify_queue = <<>> => Len(notify_queue) + 1 = 1
      BY <1>0, <2>1, <2>6, AfterAppend
    <3>2. JobOf(c) = LoadJob("boot") => c = Load("boot")
      BY <2>1, LoadNames
    <3> QED
      BY <2>1, <2>3, <2>4, <2>5, <3>1, <3>2
  <2>7. CASE UNCHANGED notify_queue
    BY <2>1, <2>3, <2>4, <2>5, <2>7
  <2> QED
    BY <2>1, <2>6, <2>7
<1>5. CASE ReceiveJob
  <2>1. /\ notify_queue # <<>> /\ job' = Head(notify_queue)
        /\ 1 \in DOMAIN notify_queue /\ notify_queue[1] = Head(notify_queue)
        /\ UNCHANGED <<phase, gui_op_queue, calls, screen>>
    BY <1>5, TakeJob
  <2>2. \A i \in DOMAIN notify_queue' :
           i \in Nat \ {0} /\ i + 1 \in DOMAIN notify_queue
           /\ notify_queue'[i] = notify_queue[i + 1]
    BY <1>5, TakeJob
  <2>3. \A i \in DOMAIN notify_queue' : notify_queue'[i] # LoadJob("boot")
    BY <2>2
  <2>4. job' = LoadJob("boot") => screen' = "none"
    BY <2>1
  <2> QED
    BY <2>1, <2>3, <2>4
<1>6. CASE LoadScreen \/ SetIconState \/ Draw
  <2>1. /\ job # NoJob /\ job' # LoadJob("boot")
        /\ UNCHANGED <<phase, gui_op_queue, calls, notify_queue>>
    BY <1>6, LoadNames DEF LoadScreen, SetIconState, Draw, node, gui_op, NoJob, LoadJob
  <2> QED
    BY <2>1
<1>7. CASE UNCHANGED vars
  BY <1>7 DEF vars, node, gui_op, ui
<1> QED
  BY <1>1, <1>2, <1>3, <1>4, <1>5, <1>6, <1>7 DEF Next, gui_op_task, ui_worker_task

LEMMA HomeAheadStep ==
    ASSUME PipelineInv, BootFirst, HomeAhead, [Next]_vars
    PROVE  HomeAhead'
<1> SUFFICES ASSUME ~dropped', phase' \in {"found", "serving"}
             PROVE  \/ Announced("BOOT_DONE")'
                    \/ ToCall(Load("home"))'
                    \/ ToDo(LoadJob("home"))'
                    \/ job' = LoadJob("home")
                    \/ screen' = "home"
  BY DEF HomeAhead
<1> USE DEF Announced, ToCall, ToDo
<1>0. /\ gui_op_queue \in Seq(Events) /\ notify_queue \in Seq(Jobs)
      /\ job \in Jobs \cup {NoJob}
  BY DEF PipelineInv, TypeOK
<1>1. CASE NodeInforms
  <2>1. UNCHANGED <<calls, notify_queue, job, screen>>
    BY <1>1, InformFacts
  <2>2. PICK e \in Events :
           /\ gui_op_queue' = Append(gui_op_queue, e) /\ UNCHANGED dropped
           /\ phase \in {"found", "serving"} \/ e.event = "BOOT_DONE"
    BY <1>1, InformFacts
  <2>3. /\ DOMAIN gui_op_queue' = DOMAIN gui_op_queue \cup {Len(gui_op_queue) + 1}
        /\ gui_op_queue'[Len(gui_op_queue) + 1] = e
        /\ \A i \in DOMAIN gui_op_queue : gui_op_queue'[i] = gui_op_queue[i]
    BY <1>0, <2>2, AfterAppend
  <2> QED
    BY <2>1, <2>2, <2>3 DEF HomeAhead
<1>a. CASE ~NodeInforms
  <2>1. /\ \/ Announced("BOOT_DONE") \/ ToCall(Load("home")) \/ ToDo(LoadJob("home"))
           \/ job = LoadJob("home") \/ screen = "home"
    <3>1. phase' = phase
      BY <1>a DEF Next, gui_op_task, ui_worker_task, ReceiveEvent, WriteContent, PostJob,
         ReceiveJob, LoadScreen, SetIconState, Draw, node, vars
    <3>2. ~dropped
      BY <1>a, TakeCall DEF Next, gui_op_task, ui_worker_task, ReceiveEvent, WriteContent,
         ReceiveJob, LoadScreen, SetIconState, Draw, vars
    <3> QED
      BY <3>1, <3>2 DEF HomeAhead
  <2>2. CASE ReceiveEvent
    <3> DEFINE e == Head(gui_op_queue)
    <3>1. /\ e \in Events /\ calls' = Calls(e) /\ gui_op_queue[1] = e
          /\ ~(\E i \in DOMAIN calls : TRUE)
          /\ UNCHANGED <<notify_queue, job, screen>>
      BY <2>2, TakeEvent
    <3>2. \A i \in DOMAIN gui_op_queue :
             i # 1 => i - 1 \in DOMAIN gui_op_queue'
                      /\ gui_op_queue'[i - 1] = gui_op_queue[i]
      BY <2>2, TakeEvent
    <3>3. e.event = "BOOT_DONE" => \E i \in DOMAIN calls' : calls'[i] = Load("home")
      BY <3>1, CallsFacts
    <3> QED
      BY <2>1, <3>1, <3>2, <3>3
  <2>3. CASE WriteContent
    BY <2>1, <2>3 DEF WriteContent, ui
  <2>4. CASE PostJob
    <3> DEFINE c == Head(calls)
    <3>1. /\ calls[1] = c /\ JobOf(c) \in Jobs
          /\ notify_queue' = Append(notify_queue, JobOf(c))
          /\ UNCHANGED <<gui_op_queue, job, screen>>
      BY <2>4, TakeCall
    <3>2. \A i \in DOMAIN calls : i # 1 => i - 1 \in DOMAIN calls' /\ calls'[i - 1] = calls[i]
      BY <2>4, TakeCall
    <3>3. /\ DOMAIN notify_queue' = DOMAIN notify_queue \cup {Len(notify_queue) + 1}
          /\ notify_queue'[Len(notify_queue) + 1] = JobOf(c)
          /\ \A i \in DOMAIN notify_queue : notify_queue'[i] = notify_queue[i]
      BY <1>0, <3>1, AfterAppend
    <3> QED
      BY <2>1, <3>1, <3>2, <3>3, LoadNames
  <2>5. CASE ReceiveJob
    <3>1. /\ job = NoJob /\ job' = notify_queue[1]
          /\ UNCHANGED <<gui_op_queue, calls, screen>>
      BY <2>5, TakeJob
    <3>2. \A i \in DOMAIN notify_queue :
             i # 1 => i - 1 \in DOMAIN notify_queue'
                      /\ notify_queue'[i - 1] = notify_queue[i]
      BY <2>5, TakeJob
    <3> QED
      BY <2>1, <3>1, <3>2, LoadNames
  <2>6. CASE LoadScreen
    <3>1. /\ job \in {LoadJob("boot"), LoadJob("home")} /\ screen' = job.what
          /\ UNCHANGED <<gui_op_queue, calls, notify_queue>>
      BY <1>0, <2>6, LoadNames DEF LoadScreen, gui_op
    <3>2. job = LoadJob("home") \/ screen # "home"
      BY <3>1 DEF BootFirst
    <3> QED
      BY <2>1, <3>1, <3>2, LoadNames
  <2>7. CASE SetIconState \/ Draw
    <3>1. /\ job # LoadJob("home")
          /\ UNCHANGED <<gui_op_queue, calls, notify_queue, screen>>
      BY <2>7, LoadNames DEF SetIconState, Draw, gui_op
    <3> QED
      BY <2>1, <3>1
  <2>8. CASE UNCHANGED vars
    BY <2>1, <2>8 DEF vars, gui_op, ui
  <2> QED
    BY <1>a, <2>2, <2>3, <2>4, <2>5, <2>6, <2>7, <2>8 DEF Next, gui_op_task, ui_worker_task
<1> QED
  BY <1>1, <1>a

(* A call stores its own value, or a torn text, in its own child. *)
LEMMA WriteFacts ==
    ASSUME PipelineInv, WriteContent
    PROVE  /\ calls # <<>> /\ Head(calls) \in Call
           /\ 1 \in DOMAIN calls /\ calls[1] = Head(calls)
           /\ \A x \in Children : x # Head(calls).what => content'[x] = content[x]
           /\ Head(calls).what \in Labels =>
                 \/ op' = "writing" /\ content'[Head(calls).what] = Torn
                 \/ op' = "post" /\ content'[Head(calls).what] = Head(calls).value
           /\ UNCHANGED <<phase, gui_op_queue, calls, notify_queue, job, shown, screen, covered,
                          dropped>>
<1>1. calls \in Seq(Call) /\ calls # <<>>
  BY DEF PipelineInv, WriteContent
<1>2. Head(calls) \in Call /\ 1 \in DOMAIN calls /\ calls[1] = Head(calls)
  BY <1>1
<1>3. content \in [Children -> Texts \cup WifiStates \cup {Blank, Torn}]
  BY DEF PipelineInv, TypeOK
<1>4. Labels \subseteq Children /\ "icon" \notin Labels
  BY DEF Children, Labels
<1>5. UNCHANGED <<phase, gui_op_queue, calls, notify_queue, job, shown, screen, covered, dropped>>
  BY DEF WriteContent, node, ui
<1> QED
  BY <1>1, <1>2, <1>3, <1>4, <1>5 DEF WriteContent

(* The worker writes to no label. *)
LEMMA WorkerFacts ==
    ASSUME PipelineInv, ReceiveJob \/ LoadScreen \/ SetIconState \/ Draw
    PROVE  /\ \A x \in Labels : content'[x] = content[x]
           /\ UNCHANGED <<phase, gui_op_queue, calls, op, covered, dropped>>
<1>1. content \in [Children -> Texts \cup WifiStates \cup {Blank, Torn}]
  BY DEF PipelineInv, TypeOK
<1>2. Labels \subseteq Children /\ "icon" \notin Labels
  BY DEF Children, Labels
<1> QED
  BY <1>1, <1>2 DEF ReceiveJob, LoadScreen, SetIconState, Draw, node, gui_op

(* The texts of the two calls on the label of the access point. *)
LEMMA SsidNames ==
    /\ "home_ssid" \in Labels /\ "home_ssid" \in Children /\ Torn # "ESP32_Config"
    /\ "starting" # "ESP32_Config" /\ Blank # "ESP32_Config"
    /\ SsidServing.what = "home_ssid" /\ SsidServing.value = "ESP32_Config"
    /\ SsidServing.do = "set"
    /\ \A c \in Call : c.what = "home_ssid" /\ c.value = "ESP32_Config" => c = SsidServing
<1>1. ASSUME NEW c \in Call, c.what = "home_ssid", c.value = "ESP32_Config"
      PROVE  c = SsidServing
  BY <1>1 DEF Call, SsidServing, Set, Screens
<1> QED
  BY <1>1 DEF Labels, Children, Torn, Blank, SsidServing, Set

LEMMA SsidOrderStep ==
    ASSUME PipelineInv, SsidOrder, [Next]_vars
    PROVE  SsidOrder'
<1> USE DEF SsidOrder, SsidFresh, Announced, ToCall
<1>0. gui_op_queue \in Seq(Events)
  BY DEF PipelineInv, TypeOK
<1>1. CASE NodeInforms
  <2>1. UNCHANGED <<calls, content>>
    BY <1>1, InformFacts
  <2>2. PICK e \in Events :
           /\ gui_op_queue' = Append(gui_op_queue, e) \/ UNCHANGED gui_op_queue
           /\ e.event = "BOOT_DONE" => phase = "search"
           /\ e.event = "AP_INIT" => phase = "found" /\ phase' = "serving"
    BY <1>1, InformFacts
  <2>3. phase' # "serving" => phase # "serving"
    BY <1>1 DEF NodeInforms
  <2>4. CASE gui_op_queue' = Append(gui_op_queue, e)
    <3>1. /\ DOMAIN gui_op_queue' = DOMAIN gui_op_queue \cup {Len(gui_op_queue) + 1}
          /\ gui_op_queue'[Len(gui_op_queue) + 1] = e
          /\ \A i \in DOMAIN gui_op_queue :
                gui_op_queue'[i] = gui_op_queue[i] /\ i < Len(gui_op_queue) + 1
      BY <1>0, <2>2, <2>4, AfterAppend
    <3>2. phase' # "serving" => ~Announced("AP_INIT")' /\ SsidFresh'
      BY <2>1, <2>2, <2>3, <3>1
    <3>3. ASSUME NEW i \in DOMAIN gui_op_queue', gui_op_queue'[i].event = "BOOT_DONE"
          PROVE  /\ SsidFresh'
                 /\ \A k \in DOMAIN gui_op_queue' : gui_op_queue'[k].event = "AP_INIT" => k > i
      <4>1. CASE i \in DOMAIN gui_op_queue
        <5>1. SsidFresh /\ \A k \in DOMAIN gui_op_queue :
                              gui_op_queue[k].event = "AP_INIT" => k > i
          BY <3>1, <3>3, <4>1
        <5>2. i < Len(gui_op_queue) + 1 /\ i \in Nat /\ Len(gui_op_queue) \in Nat
          BY <1>0, <3>1, <4>1
        <5> QED
          BY <2>1, <3>1, <5>1, <5>2
      <4>2. CASE i = Len(gui_op_queue) + 1
        <5>1. e.event = "BOOT_DONE" /\ phase = "search"
          BY <2>2, <3>1, <3>3, <4>2
        <5>2. \A k \in DOMAIN gui_op_queue' : gui_op_queue'[k].event # "AP_INIT"
          BY <3>1, <5>1
        <5> QED
          BY <2>1, <5>1, <5>2
      <4> QED
        BY <3>1, <3>3, <4>1, <4>2
    <3> QED
      BY <2>1, <3>2, <3>3
  <2>5. CASE UNCHANGED gui_op_queue
    BY <2>1, <2>3, <2>5
  <2> QED
    BY <2>2, <2>4, <2>5
<1>2. CASE ReceiveEvent
  <2> DEFINE e == Head(gui_op_queue)
  <2>1. /\ e \in Events /\ calls' = Calls(e)
        /\ 1 \in DOMAIN gui_op_queue /\ gui_op_queue[1] = e
        /\ UNCHANGED <<phase, content>>
    BY <1>2, TakeEvent
  <2>2. \A i \in DOMAIN gui_op_queue' :
           i \in Nat \ {0} /\ i + 1 \in DOMAIN gui_op_queue
           /\ gui_op_queue'[i] = gui_op_queue[i + 1]
    BY <1>2, TakeEvent
  <2>3. \A i \in DOMAIN calls' :
           /\ calls'[i] = SsidStarting => e.event = "BOOT_DONE"
           /\ calls'[i] = SsidServing => e.event = "AP_INIT"
           /\ calls'[i].what = "home_ssid" => calls'[i] \in {SsidStarting, SsidServing}
    BY <2>1, CallsFacts
  <2>4. /\ e.event = "AP_INIT" => phase = "serving"
        /\ e.event = "BOOT_DONE" => SsidFresh
    BY <2>1
  <2>5. phase' # "serving" => ~Announced("AP_INIT")' /\ SsidFresh'
    <3>1. phase' # "serving" => e.event # "AP_INIT"
      BY <2>1, <2>4
    <3>2. phase' # "serving" => ~Announced("AP_INIT")'
      BY <2>1, <2>2
    <3>3. phase' # "serving" => content'["home_ssid"] # "ESP32_Config"
      BY <2>1
    <3> QED
      BY <2>3, <3>1, <3>2, <3>3
  <2>6. ASSUME NEW i \in DOMAIN gui_op_queue', gui_op_queue'[i].event = "BOOT_DONE"
        PROVE  /\ SsidFresh'
               /\ \A k \in DOMAIN gui_op_queue' : gui_op_queue'[k].event = "AP_INIT" => k > i
    <3>1. /\ i \in Nat \ {0} /\ i + 1 \in DOMAIN gui_op_queue
          /\ gui_op_queue[i + 1].event = "BOOT_DONE"
      BY <2>2, <2>6
    <3>2. /\ content["home_ssid"] # "ESP32_Config"
          /\ \A k \in DOMAIN gui_op_queue : gui_op_queue[k].event = "AP_INIT" => k > i + 1
      BY <3>1
    <3>3. e.event # "AP_INIT"
      BY <2>1, <3>1, <3>2
    <3>4. ASSUME NEW k \in DOMAIN gui_op_queue', gui_op_queue'[k].event = "AP_INIT"
          PROVE  k > i
      BY <2>2, <3>1, <3>2, <3>4
    <3> QED
      BY <2>1, <2>3, <3>2, <3>3, <3>4
  <2>7. ToCall(SsidStarting)' => SsidFresh'
    BY <2>1, <2>3, <2>4
  <2> QED
    BY <2>3, <2>5, <2>6, <2>7
<1>3. CASE WriteContent
  <2>1. SsidFresh => SsidFresh'
    <3>1. /\ Head(calls) \in Call /\ 1 \in DOMAIN calls /\ calls[1] = Head(calls)
          /\ \A x \in Children : x # Head(calls).what => content'[x] = content[x]
          /\ Head(calls).what \in Labels =>
                content'[Head(calls).what] \in {Torn, Head(calls).value}
          /\ UNCHANGED calls
      BY <1>3, WriteFacts
    <3> QED
      BY <3>1, SsidNames
  <2>2. UNCHANGED <<phase, gui_op_queue, calls>>
    BY <1>3, WriteFacts
  <2> QED
    BY <2>1, <2>2
<1>4. CASE PostJob
  <2>1. UNCHANGED <<phase, gui_op_queue, content>>
    BY <1>4, TakeCall
  <2>2. \A i \in DOMAIN calls' : i + 1 \in DOMAIN calls /\ calls'[i] = calls[i + 1]
    BY <1>4, TakeCall
  <2>3. ASSUME NEW c PROVE ToCall(c)' => ToCall(c)
    BY <2>2
  <2>4. SsidFresh => SsidFresh'
    BY <2>1, <2>3 DEF SsidFresh
  <2>5. \A i \in DOMAIN calls' :
           calls'[i].what = "home_ssid" => calls'[i] \in {SsidStarting, SsidServing}
    BY <2>2
  <2> QED
    BY <2>1, <2>3, <2>4, <2>5
<1>5. CASE ReceiveJob \/ LoadScreen \/ SetIconState \/ Draw
  <2>1. UNCHANGED <<phase, gui_op_queue, calls>> /\ content'["home_ssid"] = content["home_ssid"]
    BY <1>5, WorkerFacts, SsidNames
  <2> QED
    BY <2>1
<1>6. CASE UNCHANGED vars
  BY <1>6 DEF vars, node, gui_op
<1> QED
  BY <1>1, <1>2, <1>3, <1>4, <1>5, <1>6 DEF Next, gui_op_task, ui_worker_task

LEMMA CallStep ==
    ASSUME PipelineInv, CallUnderWay, [Next]_vars
    PROVE  CallUnderWay'
<1> USE DEF CallUnderWay
<1>1. CASE NodeInforms
  BY <1>1, InformFacts
<1>2. CASE ReceiveEvent
  BY <1>2, TakeEvent
<1>3. CASE WriteContent
  BY <1>3, WriteFacts
<1>4. CASE PostJob
  BY <1>4, TakeCall
<1>5. CASE ReceiveJob \/ LoadScreen \/ SetIconState \/ Draw
  BY <1>5, WorkerFacts
<1>6. CASE UNCHANGED vars
  BY <1>6 DEF vars, gui_op
<1> QED
  BY <1>1, <1>2, <1>3, <1>4, <1>5, <1>6 DEF Next, gui_op_task, ui_worker_task

LEMMA SsidAheadStep ==
    ASSUME PipelineInv, SsidOrder, CallUnderWay, SsidAhead, [Next]_vars
    PROVE  SsidAhead'
<1> SUFFICES ASSUME ~dropped', phase' = "serving"
             PROVE  \/ Announced("AP_INIT")'
                    \/ ToCall(SsidServing)'
                    \/ content'["home_ssid"] = "ESP32_Config"
  BY DEF SsidAhead
<1> USE DEF Announced, ToCall
<1>0. gui_op_queue \in Seq(Events)
  BY DEF PipelineInv, TypeOK
<1>1. CASE NodeInforms
  <2>1. UNCHANGED <<calls, content>>
    BY <1>1, InformFacts
  <2>2. PICK e \in Events :
           /\ gui_op_queue' = Append(gui_op_queue, e) /\ UNCHANGED dropped
           /\ phase = "serving" \/ e.event = "AP_INIT"
    BY <1>1, InformFacts
  <2>3. /\ DOMAIN gui_op_queue' = DOMAIN gui_op_queue \cup {Len(gui_op_queue) + 1}
        /\ gui_op_queue'[Len(gui_op_queue) + 1] = e
        /\ \A i \in DOMAIN gui_op_queue : gui_op_queue'[i] = gui_op_queue[i]
    BY <1>0, <2>2, AfterAppend
  <2> QED
    BY <2>1, <2>2, <2>3 DEF SsidAhead
<1>a. ASSUME ~dropped, phase = "serving"
      PROVE  \/ Announced("AP_INIT") \/ ToCall(SsidServing)
             \/ content["home_ssid"] = "ESP32_Config"
  BY <1>a DEF SsidAhead
<1>2. CASE ReceiveEvent
  <2> DEFINE e == Head(gui_op_queue)
  <2>1. /\ e \in Events /\ calls' = Calls(e) /\ gui_op_queue[1] = e
        /\ ~(\E i \in DOMAIN calls : TRUE)
        /\ UNCHANGED <<phase, content, dropped>>
    BY <1>2, TakeEvent
  <2>2. \A i \in DOMAIN gui_op_queue :
           i # 1 => i - 1 \in DOMAIN gui_op_queue' /\ gui_op_queue'[i - 1] = gui_op_queue[i]
    BY <1>2, TakeEvent
  <2>3. e.event = "AP_INIT" => \E i \in DOMAIN calls' : calls'[i] = SsidServing
    BY <2>1, CallsFacts
  <2> QED
    BY <1>a, <2>1, <2>2, <2>3
<1>3. CASE WriteContent
  <2>1. /\ Head(calls) \in Call /\ 1 \in DOMAIN calls /\ calls[1] = Head(calls)
        /\ \A x \in Children : x # Head(calls).what => content'[x] = content[x]
        /\ UNCHANGED <<phase, gui_op_queue, calls, dropped>>
    BY <1>3, WriteFacts
  <2>2. CASE content["home_ssid"] = "ESP32_Config" /\ Head(calls).what = "home_ssid"
    <3>1. ~ToCall(SsidStarting)
      BY <2>2 DEF SsidOrder, SsidFresh
    <3>2. Head(calls) \in {SsidStarting, SsidServing}
      BY <2>1, <2>2 DEF SsidOrder
    <3> QED
      BY <2>1, <3>1, <3>2
  <2> QED
    BY <1>a, <2>1, <2>2, SsidNames
<1>4. CASE PostJob
  <2>1. UNCHANGED <<phase, gui_op_queue, content, dropped>> /\ calls[1] = Head(calls)
    BY <1>4, TakeCall
  <2>2. \A i \in DOMAIN calls : i # 1 => i - 1 \in DOMAIN calls' /\ calls'[i - 1] = calls[i]
    BY <1>4, TakeCall
  <2>3. Head(calls) = SsidServing => content["home_ssid"] = "ESP32_Config"
    BY <1>4, SsidNames DEF PostJob, CallUnderWay
  <2> QED
    BY <1>a, <2>1, <2>2, <2>3
<1>5. CASE ReceiveJob \/ LoadScreen \/ SetIconState \/ Draw
  <2>1. /\ UNCHANGED <<phase, gui_op_queue, calls, dropped>>
        /\ content'["home_ssid"] = content["home_ssid"]
    BY <1>5, WorkerFacts, SsidNames
  <2> QED
    BY <1>a, <2>1
<1>6. CASE UNCHANGED vars
  BY <1>a, <1>6 DEF vars, node, gui_op
<1> QED
  BY <1>1, <1>2, <1>3, <1>4, <1>5, <1>6 DEF Next, gui_op_task, ui_worker_task

LEMMA CoveredStep ==
    ASSUME PipelineInv, CallUnderWay, WrittenIsCovered, [Next]_vars
    PROVE  WrittenIsCovered'
<1> SUFFICES ASSUME ~dropped', NEW x \in Labels
             PROVE  (content[x] = Blank \/ x \in covered
                       \/ (calls # <<>> /\ Head(calls).what = x))'
  BY DEF WrittenIsCovered
<1>a. x \in Children
  BY DEF Children
<1>b. ~dropped =>
        \/ content[x] = Blank \/ x \in covered
        \/ calls # <<>> /\ Head(calls).what = x
  BY DEF WrittenIsCovered
<1>1. CASE NodeInforms
  BY <1>1, <1>b, InformFacts
<1>2. CASE ReceiveEvent
  <2>1. calls = <<>> /\ UNCHANGED <<content, covered, dropped>>
    BY <1>2, TakeEvent
  <2> QED
    BY <1>b, <2>1
<1>3. CASE WriteContent
  <2>1. /\ calls # <<>> /\ x # Head(calls).what => content'[x] = content[x]
        /\ calls # <<>> /\ UNCHANGED <<calls, covered, dropped>>
    BY <1>3, <1>a, WriteFacts
  <2> QED
    BY <1>b, <2>1
<1>4. CASE PostJob
  BY <1>4, <1>b, TakeCall
<1>5. CASE ReceiveJob \/ LoadScreen \/ SetIconState \/ Draw
  BY <1>5, <1>b, WorkerFacts
<1>6. CASE UNCHANGED vars
  BY <1>6, <1>b DEF vars, gui_op
<1> QED
  BY <1>1, <1>2, <1>3, <1>4, <1>5, <1>6 DEF Next, gui_op_task, ui_worker_task

LEMMA BootOrderInvariant == Spec => []BootOrder
<1>1. Init => BootOrder
  <2> SUFFICES ASSUME Init PROVE BootOrder
    OBVIOUS
  <2>1. /\ phase = "boot" /\ gui_op_queue = <<>> /\ calls = <<>> /\ notify_queue = <<>>
        /\ job = NoJob /\ screen = "none" /\ op = "call" /\ job # LoadJob("boot")
    BY LoadNames DEF Init
  <2>2. \A x \in Labels : content[x] = Blank
    BY DEF Init, Labels, Children
  <2>3. content["home_ssid"] # "ESP32_Config"
    BY <2>2, SsidNames
  <2>4. BootFirst /\ HomeAhead
    BY <2>1 DEF BootFirst, NothingDrawn, HomeAhead
  <2>5. SsidOrder /\ SsidAhead
    BY <2>1, <2>3 DEF SsidOrder, SsidFresh, SsidAhead, Announced, ToCall
  <2>6. CallUnderWay /\ WrittenIsCovered
    BY <2>1, <2>2 DEF CallUnderWay, WrittenIsCovered
  <2> QED
    BY <2>4, <2>5, <2>6 DEF BootOrder
<1>2. PipelineInv /\ BootOrder /\ [Next]_vars => BootOrder'
  BY BootFirstStep, HomeAheadStep, SsidOrderStep, SsidAheadStep, CallStep, CoveredStep
     DEF BootOrder
<1> QED
  BY <1>1, <1>2, PipelineInvariant, PTL DEF Spec

(* The safety half of EndsOnHomeScreen: whatever the queues hold and in    *)
(* whatever order the two tasks run, a display of a serving node that has  *)
(* dropped nothing and has nothing left to do shows the home screen with   *)
(* the name of the access point; no provisional or torn text stays and no  *)
(* boot screen comes back.                                                 *)
THEOREM HomeScreenAtRestHolds == Spec => []HomeScreenAtRest
<1>1. PipelineInv /\ BootOrder /\ ScreenCatchesUp => HomeScreenAtRest
  <2> SUFFICES ASSUME PipelineInv, BootOrder, ScreenCatchesUp, phase = "serving", ~dropped,
                      gui_op_queue = <<>>, calls = <<>>, notify_queue = <<>>, job = NoJob
               PROVE  screen = "home" /\ shown["home_ssid"] = "ESP32_Config"
    BY DEF HomeScreenAtRest
  <2>1. /\ \A v : ~Announced(v)
        /\ \A c : ~ToCall(c)
        /\ \A j : ~ToDo(j)
    BY DEF Announced, ToCall, ToDo
  <2>2. screen = "home"
    BY <2>1, LoadNames DEF BootOrder, HomeAhead
  <2>3. content["home_ssid"] = "ESP32_Config"
    BY <2>1 DEF BootOrder, SsidAhead
  <2>4. "home_ssid" \in covered
    BY <2>3, SsidNames DEF BootOrder, WrittenIsCovered
  <2>5. ~Pending("home_ssid")
    BY DEF Pending, NoJob
  <2> QED
    BY <2>2, <2>3, <2>4, <2>5, SsidNames DEF ScreenCatchesUp
<1> QED
  BY <1>1, PipelineInvariant, BootOrderInvariant, ScreenCatchesUpHolds, PTL
===============================================================================
