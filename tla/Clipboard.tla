------------------------------- MODULE Clipboard -------------------------------
(***************************************************************************)
(* A credential on its way through the view and the system clipboard:      *)
(* CredentialRevealView, the delayed clear that each copy schedules, the   *)
(* registry of the flush to run on exit, and the hook on the window.       *)
(*                                                                         *)
(* The app has one item, so there is one secret to copy.  Each copy has a  *)
(* number; its timer, and the flush it arms, bear that number.  A call of  *)
(* the clipboard adapter takes effect in a step of its own, together with  *)
(* what awaits it, except writeText: between its effect and the rest of    *)
(* handleCopy the other callbacks can run.                                 *)
(***************************************************************************)
EXTENDS Naturals, Sequences

CONSTANTS
  MaxCopies,      \* bound: copies
  MaxViews        \* bound: views mounted, one for each time the vault is opened

ASSUME ClipboardAssumption == MaxCopies \in Nat /\ MaxViews \in Nat

VARIABLES
  clip,           \* what the system clipboard holds
  view,           \* the mounted view: its number (0 = none), is its password shown?
  views,          \* views mounted so far
  ref,            \* clearTimer of each view: the copy whose timer it holds, 0 = none
  copies,         \* handleCopy for each copy: the view it is of, how far it got
  timers,         \* the copies whose clear timer is set
  pendingFlush,   \* the copy whose flush is armed, 0 = none
  runs,           \* verifyThenClearClipboard in progress
  phase,          \* is the app open, being destroyed, gone?
  asked,          \* history: requests to close the window, 2 = more than one
  refused         \* history: did the platform refuse a read or a clear?

screen == <<view, views>>
vars   == <<clip, view, views, ref, copies, timers, pendingFlush, runs, phase, asked, refused>>

View == [inst : 0 .. MaxViews, shown : BOOLEAN, busy : BOOLEAN]
Copy == [inst : 1 .. MaxViews, stage : {"writing", "written", "done"}]
Run  == [copy : 1 .. MaxCopies, by : {"timer", "exit"}, stage : {"reading", "clearing"}]

TypeOK ==
  /\ clip \in {"empty", "other", "secret"}
  /\ view \in View /\ views \in 0 .. MaxViews /\ view.inst \in {0, views}
  /\ ref \in [1 .. MaxViews -> 0 .. Len(copies)]
  /\ copies \in Seq(Copy) /\ Len(copies) <= MaxCopies
  /\ timers \subseteq DOMAIN copies
  /\ pendingFlush \in 0 .. Len(copies)
  /\ runs \subseteq Run
  /\ phase \in {"open", "destroying", "closed", "killed"}
  /\ asked \in 0 .. 2 /\ refused \in BOOLEAN

Closed == [inst |-> 0, shown |-> FALSE, busy |-> FALSE]

Init ==
  /\ clip = "empty"
  /\ view = Closed /\ views = 0 /\ ref = [v \in 1 .. MaxViews |-> 0]
  /\ copies = << >> /\ timers = {} /\ pendingFlush = 0 /\ runs = {}
  /\ phase = "open" /\ asked = 0 /\ refused = FALSE

Running == phase \in {"open", "destroying"}

-------------------------------------------------------------------------------
\* CredentialRevealView.

Mount ==
  /\ Running /\ view.inst = 0 /\ views < MaxViews
  /\ views' = views + 1
  /\ view' = [Closed EXCEPT !.inst = views + 1]
  /\ UNCHANGED <<clip, ref, copies, timers, pendingFlush, runs, phase, asked, refused>>

\* Operators named Bug_ are faulty variants of the definition that follows them:
\* a slip the code could have, which a property must notice.  No action uses them.
\* Here: the flush is disarmed with the timer.
Bug_UnmountDisarms ==
  /\ Running /\ view.inst # 0
  /\ timers' = timers \ {ref[view.inst]} /\ pendingFlush' = 0
  /\ view' = Closed
  /\ UNCHANGED <<clip, views, ref, copies, runs, phase, asked, refused>>

\* The vault is locked: both timers of the view are cancelled, the flush stays armed.
\* A reveal still in flight has nothing to show its password in.
Unmount ==
  /\ Running /\ view.inst # 0
  /\ timers' = timers \ {ref[view.inst]}
  /\ view' = Closed
  /\ UNCHANGED <<clip, views, ref, copies, pendingFlush, runs, phase, asked, refused>>

Reveal ==
  /\ Running /\ view.inst # 0 /\ ~view.shown /\ ~view.busy
  /\ view' = [view EXCEPT !.busy = TRUE]
  /\ UNCHANGED <<clip, views, ref, copies, timers, pendingFlush, runs, phase, asked, refused>>

\* revealPassword() is answered, also where the view was blurred in the meantime.
Revealed ==
  /\ Running /\ view.busy
  /\ \E ok \in BOOLEAN : view' = [view EXCEPT !.busy = FALSE, !.shown = ok]
  /\ UNCHANGED <<clip, views, ref, copies, timers, pendingFlush, runs, phase, asked, refused>>

\* maskNow: focus leaves the view, or the mask timer fires, which is set exactly while a
\* password is shown.
MaskNow ==
  /\ Running /\ view.inst # 0
  /\ view' = [view EXCEPT !.shown = FALSE]
  /\ UNCHANGED <<clip, views, ref, copies, timers, pendingFlush, runs, phase, asked, refused>>

\* handleCopy, up to the call of writeText.
CopyPassword ==
  /\ Running /\ view.shown /\ Len(copies) < MaxCopies
  /\ copies' = Append(copies, [inst |-> view.inst, stage |-> "writing"])
  /\ UNCHANGED <<clip, screen, ref, timers, pendingFlush, runs, phase, asked, refused>>

At(i, stage)     == Running /\ copies[i].stage = stage
Reaches(i, next) == copies' = [copies EXCEPT ![i].stage = next]

Write(i) ==
  /\ At(i, "writing") /\ Reaches(i, "written")
  /\ clip' = "secret"
  /\ UNCHANGED <<screen, ref, timers, pendingFlush, runs, phase, asked, refused>>

WriteFails(i) ==
  /\ At(i, "writing") /\ Reaches(i, "done")
  /\ UNCHANGED <<clip, screen, ref, timers, pendingFlush, runs, phase, asked, refused>>

\* The timer to be cancelled is looked up after the new one was stored.
Bug_CancelsItsOwn(i) ==
  /\ At(i, "written") /\ Reaches(i, "done")
  /\ ref' = [ref EXCEPT ![copies[i].inst] = i]
  /\ pendingFlush' = i
  /\ UNCHANGED <<clip, screen, timers, runs, phase, asked, refused>>

\* The rest of handleCopy: the view's earlier timer is cancelled, scheduleClipboardAutoClear
\* arms the flush and sets a timer.
Copied(i) ==
  /\ At(i, "written") /\ Reaches(i, "done")
  /\ timers' = (timers \ {ref[copies[i].inst]}) \cup {i}
  /\ ref' = [ref EXCEPT ![copies[i].inst] = i]
  /\ pendingFlush' = i
  /\ UNCHANGED <<clip, screen, runs, phase, asked, refused>>

-------------------------------------------------------------------------------
\* The delayed clear, and the flush on exit.

Start(i, by) == runs' = runs \cup {[copy |-> i, by |-> by, stage |-> "reading"]}

\* Whichever flush is armed is disarmed, and the timer's own check starts.
TimerFires(i) ==
  /\ Running /\ i \in timers
  /\ timers' = timers \ {i} /\ pendingFlush' = 0
  /\ Start(i, "timer")
  /\ UNCHANGED <<clip, screen, ref, copies, phase, asked, refused>>

\* The null check is missing.
Bug_FlushUnchecked ==
  /\ Running
  /\ pendingFlush' = 0
  /\ Start(pendingFlush, "exit")
  /\ asked' = IF asked = 0 THEN 1 ELSE 2
  /\ UNCHANGED <<clip, screen, ref, copies, timers, phase, refused>>

\* The window is destroyed without waiting for the flush.
Bug_DestroysFirst ==
  /\ Running
  /\ phase' = "destroying"
  /\ pendingFlush' = 0
  /\ IF pendingFlush = 0 THEN UNCHANGED runs ELSE Start(pendingFlush, "exit")
  /\ asked' = IF asked = 0 THEN 1 ELSE 2
  /\ UNCHANGED <<clip, screen, ref, copies, timers, refused>>

\* The window is asked to close: it stays until the flush has run, or is destroyed at once
\* when none is armed.
CloseRequested ==
  /\ Running
  /\ pendingFlush' = 0
  /\ IF pendingFlush = 0
       THEN phase' = "destroying" /\ UNCHANGED runs
       ELSE Start(pendingFlush, "exit") /\ UNCHANGED phase
  /\ asked' = IF asked = 0 THEN 1 ELSE 2
  /\ UNCHANGED <<clip, screen, ref, copies, timers, refused>>

\* A check ends, done or failed; the hook goes on to destroy the window.
Ends(r) ==
  /\ runs' = runs \ {r}
  /\ phase' = IF r.by = "exit" THEN "destroying" ELSE phase

\* readText: null, which is taken for something else, where the platform refuses.
Read(r) ==
  /\ Running /\ r.stage = "reading"
  /\ \/ /\ clip = "secret"
        /\ runs' = (runs \ {r}) \cup {[r EXCEPT !.stage = "clearing"]}
        /\ UNCHANGED <<phase, refused>>
     \/ clip # "secret" /\ Ends(r) /\ UNCHANGED refused
     \/ Ends(r) /\ refused' = TRUE
  /\ UNCHANGED <<clip, screen, ref, copies, timers, pendingFlush, asked>>

\* clear, or its failure.
Clear(r) ==
  /\ Running /\ r.stage = "clearing" /\ Ends(r)
  /\ \/ clip' = "empty" /\ UNCHANGED refused
     \/ refused' = TRUE /\ UNCHANGED clip
  /\ UNCHANGED <<screen, ref, copies, timers, pendingFlush, asked>>

-------------------------------------------------------------------------------
\* The platform.

Destroyed ==
  /\ phase = "destroying" /\ phase' = "closed"
  /\ UNCHANGED <<clip, screen, ref, copies, timers, pendingFlush, runs, asked, refused>>

Killed ==
  /\ Running /\ phase' = "killed"
  /\ UNCHANGED <<clip, screen, ref, copies, timers, pendingFlush, runs, asked, refused>>

\* Something else is copied, in this app or another.
OtherCopied ==
  /\ clip' = "other"
  /\ UNCHANGED <<screen, ref, copies, timers, pendingFlush, runs, phase, asked, refused>>

-------------------------------------------------------------------------------
Check == \E r \in runs : Read(r) \/ Clear(r)

Next ==
  \/ Mount \/ Unmount \/ Reveal \/ Revealed \/ MaskNow \/ CopyPassword
  \/ \E i \in DOMAIN copies : Write(i) \/ WriteFails(i) \/ Copied(i)
  \/ \E i \in timers : TimerFires(i)
  \/ Check
  \/ CloseRequested \/ Destroyed \/ Killed \/ OtherCopied

\* Adapter calls are answered and timers fire while the app runs.
Fairness ==
  /\ WF_vars(Check)
  /\ WF_vars(\E i \in DOMAIN copies : Copied(i))
  /\ WF_vars(\E i \in timers : TimerFires(i))

Spec == Init /\ [][Next]_vars /\ Fairness

-------------------------------------------------------------------------------
\* The secret is never out with nobody left to take it back: while the app runs, a copied
\* secret has an armed flush, a check in progress or a handleCopy about to arm one, whatever
\* timers locks and later views cancel and whichever flush a foreign timer disarms
\* (pending-clipboard-clear.ts:14-20, schedule-clipboard-auto-clear.ts:42-53).
NothingForgotten ==
  Running /\ clip = "secret" /\ ~refused =>
    \/ pendingFlush # 0 \/ runs # {}
    \/ \E i \in DOMAIN copies : copies[i].stage = "written"

\* Closing the window leaves the secret behind only where the platform refused, or where
\* it overtook something: a check begun by a timer, a check begun by an earlier request to
\* close, or a copy (clear-on-exit.ts:41-57).
ExitClears ==
  phase = "closed" /\ clip = "secret" /\ ~refused =>
    \/ \E r \in runs : r.by = "timer" \/ asked = 2
    \/ pendingFlush # 0
    \/ \E i \in DOMAIN copies : copies[i].stage = "written"

\* A copy made in the view on screen is cleared in time, unless the vault is locked, the
\* app ends or the platform refuses first (schedule-clipboard-auto-clear.ts:42-53).
Due == \E i \in DOMAIN copies :
         \/ i \in timers
         \/ copies[i].stage = "written" /\ copies[i].inst = view.inst

AutoCleared ==
  clip = "secret" /\ Due ~> clip # "secret" \/ view.inst = 0 \/ ~Running \/ refused
===============================================================================
