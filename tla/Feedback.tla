------------------------------ MODULE Feedback --------------------------------
(***************************************************************************)
(* The running operations and their progress: FeedbackService of           *)
(* application/feedback.py, ProgressOverlay of                             *)
(* ui/feedback/progress_overlay.py and the panel of pages/activity.py.     *)
(*                                                                         *)
(* A method of the service changes its state under its lock and calls the  *)
(* overlay after giving it back, so what follows the lock is a list of     *)
(* calls still to be made.  A call of the page's own thread reaches the    *)
(* overlay at once, one of another thread is queued for it; the cycle that *)
(* each carries tells the overlay which came too late.                     *)
(***************************************************************************)
EXTENDS Integers, Sequences

CONSTANTS Threads,     \* threads that begin, update and finish operations
          UI,          \* the page's own
          Timer,       \* the one of the throttle
          MaxOps,      \* bound on the operations begun
          MaxUpdates   \* bound on the updates, toggles and returns to the panel

ASSUME FeedbackAssumption ==
    /\ UI \in Threads /\ Timer \notin Threads
    /\ {MaxOps, MaxUpdates} \subseteq Nat

VARIABLES
    ops,        \* _operations, and what becomes of each
    root,       \* _root_id, 0 if none
    revealed,   \* _progress_visible
    token,      \* _render_token
    pending,    \* _pending_render, with the timers that will flush it
    closing,    \* _closing
    calls,      \* each thread: the calls it still makes after the lock
    queue,      \* tasks of the page's loop, oldest first
    overlay,    \* ProgressOverlay
    panel,      \* ActivityPanel: whether it is shown, and its refresh loops
    overlapped, \* an end and another call were between their lock and the overlay
    updates

feedbackVars == <<ops, root, revealed, token, pending, closing, calls, queue, overlay,
                  panel, overlapped, updates>>

OpIds == 1..MaxOps
NoOp == [step |-> "none", child |-> FALSE, visible |-> FALSE]
Operation(child, visible) == [step |-> "running", child |-> child, visible |-> visible]
Begun == {o \in OpIds : ops[o].step # "none"}
Active == {o \in OpIds : ops[o].step = "running"}
Call == [what : {"start", "show", "render", "finalize", "hide"}, force : BOOLEAN, now : BOOLEAN]
Posted == [what : {"start", "render", "hide"}, force : BOOLEAN, cycle : Nat]
CallOf(what, force, now) == [what |-> what, force |-> force, now |-> now]

FeedbackTypeOK ==
    /\ ops \in [OpIds -> [step : {"none", "running", "finished", "gone"}, child : BOOLEAN,
                          visible : BOOLEAN]]
    /\ root \in {0} \cup OpIds
    /\ {revealed, closing, overlapped, pending.waits} \subseteq BOOLEAN
    /\ token \in Nat /\ pending.timers \subseteq 0..token
    /\ \A t \in Threads \cup {Timer} : \A i \in DOMAIN calls[t] : calls[t][i] \in Call
    /\ \A i \in DOMAIN queue : queue[i] \in Posted
    /\ overlay \in [cycle : Nat, shown : BOOLEAN, sheet : BOOLEAN, closed : BOOLEAN]
    /\ panel \in [active : BOOLEAN, loops : 0..MaxUpdates + 1]
    /\ updates \in 0..MaxUpdates

NewOverlay == [cycle |-> 0, shown |-> FALSE, sheet |-> FALSE, closed |-> FALSE]
NewPanel == [active |-> FALSE, loops |-> 0]

FeedbackInit ==
    /\ ops = [o \in OpIds |-> NoOp]
    /\ root = 0 /\ revealed = FALSE /\ token = 0 /\ closing = FALSE
    /\ pending = [waits |-> FALSE, timers |-> {}]
    /\ calls = [t \in Threads \cup {Timer} |-> <<>>]
    /\ queue = <<>>
    /\ overlay = NewOverlay
    /\ panel = NewPanel
    /\ overlapped = FALSE
    /\ updates = 0

-----------------------------------------------------------------------------
AtRest == queue = <<>> /\ \A t \in DOMAIN calls : calls[t] = <<>>
Overlap(someCalls) ==
    \E t, u \in DOMAIN someCalls :
        /\ t # u /\ someCalls[u] # <<>>
        /\ \E i \in DOMAIN someCalls[t] : someCalls[t][i].what \in {"finalize", "hide"}

\* What a thread does after the lock; a new cycle over a quiet overlay starts afresh.
Then(t, list) ==
    /\ calls' = [calls EXCEPT ![t] = list]
    /\ overlapped' = ((overlapped /\ ~(AtRest /\ list # <<>> /\ Head(list).what = "start"))
                        \/ Overlap(calls'))

\* _reveal_locked: the first to show something starts the cycle.
Reveal == IF revealed THEN <<>> ELSE <<CallOf("start", FALSE, FALSE)>>

\* _discard_pending_render_locked: the timers of older tokens find nothing.
Discard == token' = token + 1 /\ pending' = [pending EXCEPT !.waits = FALSE]

BeginOperation(t, visible) ==
    /\ calls[t] = <<>> /\ ~closing
    /\ \E o \in OpIds :
          /\ ops[o] = NoOp /\ \A p \in OpIds : p < o => ops[p] # NoOp
          /\ ops' = [ops EXCEPT ![o] = Operation(root # 0, visible)]
          /\ root' = IF root = 0 THEN o ELSE root
    /\ revealed' = (revealed \/ visible)
    /\ Then(t, IF visible THEN Reveal \o <<CallOf("show", root = 0, TRUE)>> ELSE <<>>)
    /\ UNCHANGED <<token, pending, closing, queue, overlay, panel, updates>>

\* update_operation of a handle whose operation is still there.
UpdateOperation(t, o) ==
    /\ calls[t] = <<>> /\ updates < MaxUpdates
    /\ o \in Active /\ ~closing
    /\ updates' = updates + 1
    /\ ops' = [ops EXCEPT ![o].visible = TRUE]
    /\ revealed' = TRUE
    /\ Then(t, Reveal \o <<CallOf("show", ~ops[o].visible, ~ops[o].visible)>>)
    /\ UNCHANGED <<root, token, pending, closing, queue, overlay, panel>>

\* _finalizable_root_locked, once the operation's own end is recorded.
Finalizable(steps) ==
    /\ root # 0 /\ steps[root].step = "finished"
    /\ \A o \in OpIds : steps[o].step # "running"

Cleared(steps) ==
    [o \in OpIds |-> IF o = root THEN [steps[o] EXCEPT !.step = "gone"] ELSE steps[o]]

\* finish_operation: a child makes room for its parent, a root waits for the
\* last child.
FinishOperation(t, o) ==
    /\ calls[t] = <<>>
    /\ o \in Active
    /\ LET ended == [ops EXCEPT ![o].step = IF ops[o].child THEN "gone" ELSE "finished"]
           parent == ended[root]
       IN /\ IF Finalizable(ended)
             THEN /\ ops' = Cleared(ended) /\ root' = 0
                  /\ Then(t, <<CallOf("finalize", FALSE, FALSE)>>)
             ELSE /\ ops' = ended /\ UNCHANGED root
                  /\ Then(t, IF ops[o].child /\ parent.step = "running" /\ parent.visible /\ revealed
                             THEN <<CallOf("show", FALSE, TRUE)>> ELSE <<>>)
          /\ IF ops[o].child THEN Discard ELSE UNCHANGED <<token, pending>>
    /\ UNCHANGED <<revealed, closing, queue, overlay, panel, updates>>

\* What a thread may do with the handle of an operation.
UseHandle(t) == \E o \in OpIds : UpdateOperation(t, o) \/ FinishOperation(t, o)

\* _finalize_progress takes the lock again.
FinalizeProgress(t) ==
    /\ calls[t] # <<>> /\ Head(calls[t]).what = "finalize"
    /\ Discard
    /\ revealed' = FALSE
    /\ Then(t, IF revealed THEN <<CallOf("hide", FALSE, FALSE)>> ELSE <<>>)
    /\ UNCHANGED <<ops, root, closing, queue, overlay, panel, updates>>

\* _show_progress takes the lock: it renders now, or leaves the newest state
\* to a timer when the last rendering is less than the interval ago.
ShowProgress(t) ==
    /\ calls[t] # <<>> /\ Head(calls[t]).what = "show"
    /\ LET call == Head(calls[t]) IN
       \/ /\ closing /\ Then(t, Tail(calls[t])) /\ UNCHANGED <<token, pending>>
       \/ /\ ~closing
          /\ Discard
          /\ Then(t, <<CallOf("render", call.force, FALSE)>>)
       \/ /\ ~closing /\ ~call.now
          /\ pending' = [waits |-> TRUE, timers |-> IF pending.waits THEN pending.timers
                                                    ELSE pending.timers \cup {token}]
          /\ Then(t, Tail(calls[t])) /\ UNCHANGED token
    /\ UNCHANGED <<ops, root, revealed, closing, queue, overlay, panel, updates>>

\* _flush_pending_render; a discarded rendering has another token.
FlushPendingRender(tk) ==
    /\ tk \in pending.timers /\ calls[Timer] = <<>>
    /\ LET due == ~closing /\ tk = token /\ pending.waits IN
       /\ pending' = [waits |-> pending.waits /\ ~due, timers |-> pending.timers \ {tk}]
       /\ Then(Timer, IF due THEN <<CallOf("render", FALSE, FALSE)>> ELSE <<>>)
    /\ UNCHANGED <<ops, root, revealed, token, closing, queue, overlay, panel, updates>>

\* shutdown, on the page's thread.
Shutdown ==
    /\ calls[UI] = <<>> /\ ~closing
    /\ closing' = TRUE
    /\ ops' = [o \in OpIds |-> IF o \in Begun THEN [ops[o] EXCEPT !.step = "gone"] ELSE ops[o]]
    /\ root' = 0 /\ revealed' = FALSE
    /\ Discard
    /\ Then(UI, IF revealed THEN <<CallOf("hide", FALSE, FALSE)>> ELSE <<>>)
    /\ UNCHANGED <<queue, overlay, panel, updates>>

-----------------------------------------------------------------------------
\* _start_cycle_impl, _hide_impl and _show_impl (auto_open is the rule).
Started(ov) == [ov EXCEPT !.shown = TRUE, !.closed = FALSE]
Hidden(ov) == [ov EXCEPT !.shown = FALSE, !.sheet = FALSE, !.closed = FALSE]
Rendered(ov, force) ==
    LET closed == ov.closed /\ ~force
    IN  [ov EXCEPT !.shown = TRUE, !.closed = closed, !.sheet = @ \/ ~closed]

Performed(ov, task) ==
    CASE task.what = "start"  -> Started(ov)
      [] task.what = "render" -> Rendered(ov, task.force)
      [] task.what = "hide"   -> Hidden(ov)

Applied_Late(ov, task) == Performed(ov, task)

\* A task of an older cycle comes too late.
Applied(ov, task) == IF task.cycle # ov.cycle THEN ov ELSE Performed(ov, task)

\* start_cycle, show and hide: the first and the last begin another cycle.
CallOverlay(t) ==
    /\ calls[t] # <<>> /\ Head(calls[t]).what \in {"start", "render", "hide"}
    /\ LET what == Head(calls[t]).what
           ov == IF what = "render" THEN overlay ELSE [overlay EXCEPT !.cycle = @ + 1]
           task == [what |-> what, force |-> Head(calls[t]).force, cycle |-> ov.cycle]
       IN IF t = UI THEN overlay' = Applied(ov, task) /\ UNCHANGED queue
                    ELSE overlay' = ov /\ queue' = Append(queue, task)
    /\ Then(t, Tail(calls[t]))
    /\ UNCHANGED <<ops, root, revealed, token, pending, closing, panel, updates>>

\* The page's loop takes a task between two of its own.
RunTask ==
    /\ queue # <<>> /\ calls[UI] = <<>>
    /\ overlay' = Applied(overlay, Head(queue))
    /\ queue' = Tail(queue)
    /\ UNCHANGED <<ops, root, revealed, token, pending, closing, calls, panel, overlapped, updates>>

\* The player taps the ring, or dismisses the sheet.
ToggleBottomSheet ==
    /\ calls[UI] = <<>> /\ overlay.shown /\ updates < MaxUpdates
    /\ updates' = updates + 1
    /\ overlay' = [overlay EXCEPT !.sheet = ~@, !.closed = overlay.sheet]
    /\ UNCHANGED <<ops, root, revealed, token, pending, closing, calls, queue, panel, overlapped>>

\* after_show and before_hide of the panel; each showing begins a loop, and one
\* that sleeps may wake up in the next showing.
PanelShown ==
    /\ ~panel.active /\ updates < MaxUpdates
    /\ updates' = updates + 1
    /\ panel' = [active |-> TRUE, loops |-> panel.loops + 1]
    /\ UNCHANGED <<ops, root, revealed, token, pending, closing, calls, queue, overlay, overlapped>>

PanelHidden ==
    /\ panel.active
    /\ panel' = [panel EXCEPT !.active = FALSE]
    /\ UNCHANGED <<ops, root, revealed, token, pending, closing, calls, queue, overlay, overlapped, updates>>

RefreshLoopEnds ==
    /\ ~panel.active /\ panel.loops > 0
    /\ panel' = [panel EXCEPT !.loops = @ - 1]
    /\ UNCHANGED <<ops, root, revealed, token, pending, closing, calls, queue, overlay, overlapped, updates>>

FeedbackNext ==
    \/ \E t \in Threads, visible \in BOOLEAN : BeginOperation(t, visible)
    \/ \E t \in Threads : UseHandle(t) \/ FinalizeProgress(t)
    \/ \E t \in Threads \cup {Timer} : ShowProgress(t) \/ CallOverlay(t)
    \/ \E tk \in pending.timers : FlushPendingRender(tk)
    \/ Shutdown \/ RunTask \/ ToggleBottomSheet \/ PanelShown \/ PanelHidden \/ RefreshLoopEnds

FeedbackSpec == FeedbackInit /\ [][FeedbackNext]_feedbackVars

-----------------------------------------------------------------------------
\* The launcher is busy exactly while an operation runs, those that outlive
\* the one they were begun under included (is_busy, _finalizable_root_locked).
BusyIsExact == root # 0 <=> Active # {}

\* When nothing is under way, the ring is there exactly while an operation that
\* showed itself runs, whatever order the calls of the threads came in: only an
\* end that overlaps another call between its lock and the overlay may leave it
\* wrong, and the next cycle repairs it (start_cycle, _show_impl, _hide_impl).
OverlayFollows ==
    AtRest /\ ~overlapped =>
        /\ overlay.shown <=> revealed
        /\ overlay.sheet => overlay.shown
        /\ revealed => root # 0
        /\ \A o \in Active : ops[o].visible => revealed

\* While the panel is shown some loop refreshes it (_refresh_loop).
PanelIsRefreshed == panel.active => panel.loops > 0

ProgressIsTrue == BusyIsExact /\ OverlayFollows /\ PanelIsRefreshed
=============================================================================
