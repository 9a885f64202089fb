----------------------------- MODULE GuiPipeline ------------------------------
(***************************************************************************)
(* The display: gui_op.c, ui_worker.c and the two screens.                 *)
(*                                                                         *)
(* Other tasks inform gui_op_task of system events through one queue (they *)
(* give up after 50 ms), it turns an event into calls of the screens, and  *)
(* a call stores its text or state in the child and posts a job to the     *)
(* queue of ui_worker_task (dropped when that is full), which draws under  *)
(* the LVGL lock what the child holds by then.  Child contents are written *)
(* by one task and read by the other with no lock: a text that is being    *)
(* written reads as Torn.                                                  *)
(*                                                                         *)
(* The state starts where lcd_init leaves it.                              *)
(***************************************************************************)
EXTENDS Integers, Sequences, FiniteSets

CONSTANTS
    GUI_OP_QUEUE_LENGTH,   \* 10 in the source
    NOTIFY_QUEUE_LENGTH,   \* 16 in the source
    Channels,              \* texts of the channels that are searched
    MaxSearches            \* bound: searches announced in one behaviour

ASSUME GuiAssumption ==
    /\ {GUI_OP_QUEUE_LENGTH, NOTIFY_QUEUE_LENGTH} \subseteq Nat \ {0}
    /\ Channels # {} /\ IsFiniteSet(Channels)
    /\ MaxSearches \in Nat

VARIABLES
    phase,          \* what the node informs the display of next
    searches,       \* searches announced
    gui_op_queue,   \* events for gui_op_task
    calls,          \* calls gui_op_task has left to make for its event
    op,             \* where it is in the first of them: "call", "writing" or "post"
    notify_queue,   \* jobs for ui_worker_task
    job,            \* the job it is doing, or NoJob
    content,        \* text or current_state of each child
    shown,          \* what LVGL shows for each child
    screen,         \* the loaded screen
    covered,        \* history: children whose last update got a job
    dropped         \* history: an event or a job has been dropped

node == <<phase, searches>>
gui_op == <<gui_op_queue, calls, op>>
ui == <<job, shown, screen>>
vars == <<node, gui_op, notify_queue, ui, content, covered, dropped>>

Labels == {"boot_main", "boot_channel", "boot_discovery", "home_main", "home_ssid"}
Children == Labels \cup {"icon"}
Screens == {"boot", "home"}
WifiStates == {"full", "two_bars", "one_bar", "dot", "disconnected"}   \* 0 to 4
Torn == "torn"
Blank == "blank"
Texts == {"booting", "....", "Searching Home", "Welcome", "starting", "ESP32_Config"}
             \cup Channels
NoJob == [do |-> "none", what |-> "none"]
Jobs == [do : {"load"}, what : Screens] \cup [do : {"draw"}, what : Labels]
            \cup [do : {"state", "draw"}, what : {"icon"}]
Events == [event : {"BOOTING", "BOOT_DONE", "AP_INIT"}, channel : {"none"}]
              \cup [event : {"SEARCHING"}, channel : Channels]

-----------------------------------------------------------------------------
(***************************************************************************)
(* The node: app_main, the delegate task and the event loop.               *)
(***************************************************************************)
(* xQueueSend with a time limit; the callers ignore the result. *)
gui_inform(event, channel) ==
    IF Len(gui_op_queue) < GUI_OP_QUEUE_LENGTH
    THEN /\ gui_op_queue' = Append(gui_op_queue, [event |-> event, channel |-> channel])
         /\ UNCHANGED dropped
    ELSE gui_op_queue' = gui_op_queue /\ dropped' = TRUE

(* The order the node goes through: boot, searches, home node found, and,  *)
(* once it serves, the searches of a rediscovery that finds nobody.        *)
NodeInforms ==
    /\ \/ phase = "boot" /\ phase' = "search" /\ gui_inform("BOOTING", "none")
          /\ UNCHANGED searches
       \/ /\ phase \in {"search", "serving"} /\ UNCHANGED phase
          /\ searches < MaxSearches /\ searches' = searches + 1
          /\ \E c \in Channels : gui_inform("SEARCHING", c)
       \/ phase = "search" /\ phase' = "found" /\ gui_inform("BOOT_DONE", "none")
          /\ UNCHANGED searches
       \/ phase = "found" /\ phase' = "serving" /\ gui_inform("AP_INIT", "none")
          /\ UNCHANGED searches
    /\ UNCHANGED <<calls, op, notify_queue, ui, content, covered>>

-----------------------------------------------------------------------------
(***************************************************************************)
(* gui_op_task.                                                            *)
(***************************************************************************)
Load(s) == [do |-> "load", what |-> s, value |-> Blank]
Set(child, value) == [do |-> "set", what |-> child, value |-> value]

(* ui_home_set_wifi_state stores state 0 whatever it is asked for. *)
SetWifiState == Set("icon", "full")

(* Mutant: the home screen is filled but not loaded. *)
CallsWithoutHomeScreen(e) ==
    CASE e.event = "BOOTING" ->
            <<Load("boot"), Set("boot_main", "booting"), Set("boot_channel", "...."),
              Set("boot_discovery", "....")>>
      [] e.event = "SEARCHING" ->
            <<Set("boot_main", "Searching Home"), Set("boot_channel", e.channel)>>
      [] e.event = "BOOT_DONE" ->
            <<Set("home_main", "Welcome"), Set("home_ssid", "starting"), SetWifiState>>
      [] e.event = "AP_INIT" -> <<Set("home_ssid", "ESP32_Config"), SetWifiState>>

(* The calls an event leads to. *)
Calls(e) ==
    CASE e.event = "BOOTING" ->
            <<Load("boot"), Set("boot_main", "booting"), Set("boot_channel", "...."),
              Set("boot_discovery", "....")>>
      [] e.event = "SEARCHING" ->
            <<Set("boot_main", "Searching Home"), Set("boot_channel", e.channel)>>
      [] e.event = "BOOT_DONE" ->
            <<Load("home"), Set("home_main", "Welcome"), Set("home_ssid", "starting"),
              SetWifiState>>
      [] e.event = "AP_INIT" -> <<Set("home_ssid", "ESP32_Config"), SetWifiState>>

ReceiveEvent ==
    /\ calls = <<>>
    /\ gui_op_queue # <<>>
    /\ calls' = Calls(Head(gui_op_queue))
    /\ gui_op_queue' = Tail(gui_op_queue)
    /\ UNCHANGED <<node, op, notify_queue, ui, content, covered, dropped>>

(* The child gets its new text (snprintf) or its state (one byte). *)
WriteContent ==
    /\ calls # <<>>
    /\ \/ /\ op = "call" /\ Head(calls).what \in Labels
          /\ content' = [content EXCEPT ![Head(calls).what] = Torn]
          /\ op' = "writing"
       \/ /\ op = "writing" \/ (op = "call" /\ Head(calls).what = "icon")
          /\ content' = [content EXCEPT ![Head(calls).what] = Head(calls).value]
          /\ op' = "post"
    /\ UNCHANGED <<node, gui_op_queue, calls, notify_queue, ui, covered, dropped>>

(* Mutant: a job is queued whether there is room or not. *)
ui_worker_process_job_unbounded(j) ==
    /\ notify_queue' = Append(notify_queue, j)
    /\ covered' = covered \cup {j.what}
    /\ UNCHANGED dropped

(* xQueueSend with no waiting; the callers ignore the result. *)
ui_worker_process_job(j) ==
    IF Len(notify_queue) < NOTIFY_QUEUE_LENGTH
    THEN /\ notify_queue' = Append(notify_queue, j)
         /\ covered' = covered \cup {j.what}
         /\ UNCHANGED dropped
    ELSE /\ covered' = covered \ {j.what}
         /\ dropped' = TRUE
         /\ UNCHANGED notify_queue

JobOf(call) ==
    [do |-> CASE call.do = "load" -> "load"
              [] call.what = "icon" -> "state"
              [] OTHER -> "draw",
     what |-> call.what]

PostJob ==
    /\ calls # <<>>
    /\ op = "post" \/ (op = "call" /\ Head(calls).do = "load")
    /\ ui_worker_process_job(JobOf(Head(calls)))
    /\ calls' = Tail(calls)
    /\ op' = "call"
    /\ UNCHANGED <<node, gui_op_queue, ui, content>>

gui_op_task == ReceiveEvent \/ WriteContent \/ PostJob

-----------------------------------------------------------------------------
(***************************************************************************)
(* ui_worker_task.                                                         *)
(***************************************************************************)
(* It receives a job and waits for the LVGL lock. *)
ReceiveJob ==
    /\ job = NoJob
    /\ notify_queue # <<>>
    /\ job' = Head(notify_queue)
    /\ notify_queue' = Tail(notify_queue)
    /\ UNCHANGED <<node, gui_op, shown, screen, content, covered, dropped>>

LoadScreen ==
    /\ job.do = "load"
    /\ screen' = job.what
    /\ job' = NoJob
    /\ UNCHANGED <<node, gui_op, notify_queue, shown, content, covered, dropped>>

(* ui_home_set_wifi_state_cb is always handed the state 2, stores it in    *)
(* the child and then reads it back.                                       *)
SetIconState ==
    /\ job.do = "state"
    /\ content' = [content EXCEPT !["icon"] = "one_bar"]
    /\ job' = [do |-> "draw", what |-> "icon"]
    /\ UNCHANGED <<node, gui_op, notify_queue, shown, screen, covered, dropped>>

(* Mutant: a child of a screen that is not loaded is not drawn. *)
DrawVisible ==
    /\ job.do = "draw"
    /\ LET home == job.what \in {"home_main", "home_ssid", "icon"} IN
       shown' = IF home = (screen = "home")
                THEN [shown EXCEPT ![job.what] = content[job.what]] ELSE shown
    /\ job' = NoJob
    /\ UNCHANGED <<node, gui_op, notify_queue, screen, content, covered, dropped>>

(* lv_label_set_text or lv_img_set_src, with what the child holds now. *)
Draw ==
    /\ job.do = "draw"
    /\ shown' = [shown EXCEPT ![job.what] = content[job.what]]
    /\ job' = NoJob
    /\ UNCHANGED <<node, gui_op, notify_queue, screen, content, covered, dropped>>

ui_worker_task == ReceiveJob \/ LoadScreen \/ SetIconState \/ Draw

-----------------------------------------------------------------------------
Init ==
    /\ phase = "boot"
    /\ searches = 0
    /\ gui_op_queue = <<>>
    /\ calls = <<>>
    /\ op = "call"
    /\ notify_queue = <<>>
    /\ job = NoJob
    /\ content = [x \in Children |-> IF x = "icon" THEN "full" ELSE Blank]
    /\ shown = [x \in Children |-> Blank]
    /\ screen = "none"
    /\ covered = {}
    /\ dropped = FALSE

Next == NodeInforms \/ gui_op_task \/ ui_worker_task

Spec == Init /\ [][Next]_vars

(* Both tasks are scheduled and the LVGL lock is free now and then.        *)
FairSpec == Spec /\ WF_vars(gui_op_task) /\ WF_vars(ui_worker_task)

-----------------------------------------------------------------------------
(* Every variable holds a value its writers allow; no queue outgrows its   *)
(* capacity.                                                               *)
TypeOK ==
    /\ phase \in {"boot", "search", "found", "serving"}
    /\ searches \in 0..MaxSearches
    /\ gui_op_queue \in Seq(Events) /\ Len(gui_op_queue) <= GUI_OP_QUEUE_LENGTH
    /\ op \in {"call", "writing", "post"}
    /\ notify_queue \in Seq(Jobs) /\ Len(notify_queue) <= NOTIFY_QUEUE_LENGTH
    /\ job \in Jobs \cup {NoJob}
    /\ content \in [Children -> Texts \cup WifiStates \cup {Blank, Torn}]
    /\ shown \in [Children -> Texts \cup WifiStates \cup {Blank, Torn}]
    /\ screen \in Screens \cup {"none"}
    /\ covered \subseteq Children \cup Screens
    /\ dropped \in BOOLEAN

Pending(x) ==
    \/ calls # <<>> /\ Head(calls).what = x /\ op # "call"
    \/ job.what = x
    \/ \E i \in DOMAIN notify_queue : notify_queue[i].what = x

(* Sharing the children without a lock is harmless in the end: whatever is *)
(* shown of a child is what the child holds, or an update of it is on its  *)
(* way; a torn text or a stale icon does not stay, unless the queue was    *)
(* full when its last update was posted.                                   *)
ScreenCatchesUp ==
    \A x \in covered \cap Children : shown[x] = content[x] \/ Pending(x)

(* When nothing had to be dropped, the display of a node that serves ends  *)
(* up, and stays, on the home screen with the name of its access point.    *)
EndsOnHomeScreen ==
    (phase = "serving") ~>
        [](dropped \/ (screen = "home" /\ shown["home_ssid"] = "ESP32_Config"))
===============================================================================
