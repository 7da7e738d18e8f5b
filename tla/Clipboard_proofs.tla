---------------------------- MODULE Clipboard_proofs ----------------------------
(***************************************************************************)
(* Proofs about Clipboard: for any number of copies and views, whatever    *)
(* the order of locks, timers and requests to close, something is left to  *)
(* take a copied secret back, and closing the window overtakes only what   *)
(* ExitClears names.                                                       *)
(***************************************************************************)
EXTENDS Clipboard, TLAPS

CopyUnderway == \E i \in DOMAIN copies : copies[i].stage = "written"

\* Clear timers are not needed: a flush stays armed until a check takes its place.
Covered ==
  Running /\ clip = "secret" /\ ~refused =>
    pendingFlush # 0 \/ runs # {} \/ CopyUnderway

\* A password that is shown, or on its way, has a view to be shown in.
ViewSound == view.shown \/ view.busy => view.inst # 0

ByExit(r) == r \in runs /\ r.by = "exit"

\* One request to close has at most one check, which ends as the window is destroyed.
OneExit ==
  /\ (\E r \in runs : ByExit(r)) => asked # 0
  /\ asked = 0 => phase \notin {"destroying", "closed"}
  /\ asked = 1 =>
       /\ phase \in {"destroying", "closed"} => ~\E r \in runs : ByExit(r)
       /\ \A q, r \in runs : ByExit(q) /\ ByExit(r) => q = r

\* What the end of the app may leave behind, from the moment it is decided.
Overtaken ==
  phase \in {"destroying", "closed"} /\ clip = "secret" /\ ~refused =>
    \/ \E r \in runs : r.by = "timer" \/ asked = 2
    \/ pendingFlush # 0 \/ CopyUnderway

IInv == TypeOK /\ ViewSound /\ Covered /\ OneExit /\ Overtaken

-------------------------------------------------------------------------------
\* A copy is a record, and getting it one stage further changes nothing else.
LEMMA OneCopy ==
  ASSUME TypeOK, NEW i \in DOMAIN copies
  PROVE  copies[i] \in Copy
<1>1. copies \in Seq(Copy)
  BY DEF TypeOK
<1> QED
  BY <1>1

LEMMA Reached ==
  ASSUME TypeOK, NEW i \in DOMAIN copies, NEW next \in {"written", "done"}, Reaches(i, next)
  PROVE  /\ copies' \in Seq(Copy) /\ Len(copies') = Len(copies)
         /\ DOMAIN copies' = DOMAIN copies
         /\ copies'[i].stage = next
         /\ \A j \in DOMAIN copies : j # i => copies'[j] = copies[j]
<1>1. copies \in Seq(Copy)
  BY DEF TypeOK
<1>2. copies[i] \in Copy
  BY OneCopy
<1> DEFINE further == [copies[i] EXCEPT !.stage = next]
<1>3. further \in Copy /\ further.stage = next
  BY <1>2 DEF Copy
<1>4. copies' = [copies EXCEPT ![i] = further]
  BY DEF Reaches
<1> HIDE DEF further
<1> QED
  BY <1>1, <1>3, <1>4

\* The initial state satisfies the invariant.
LEMMA Initially == Init => IInv
<1> SUFFICES ASSUME Init PROVE IInv
  OBVIOUS
<1> USE ClipboardAssumption
<1>1. /\ clip = "empty" /\ view = Closed /\ views = 0 /\ timers = {} /\ pendingFlush = 0
      /\ runs = {} /\ phase = "open" /\ asked = 0 /\ refused = FALSE
  BY DEF Init
<1>2. /\ copies \in Seq(Copy) /\ Len(copies) = 0
      /\ ref \in [1 .. MaxViews -> {0}] /\ 0 .. 0 = {0}
  BY DEF Init
<1>3. ref \in [1 .. MaxViews -> 0 .. Len(copies)] /\ Len(copies) <= MaxCopies
  BY <1>2
<1>4. view \in View /\ views \in 0 .. MaxViews /\ view.inst \in {0, views}
  BY <1>1 DEF View, Closed
<1>5. pendingFlush \in 0 .. Len(copies)
  BY <1>1, <1>2
<1>6. TypeOK
  <2>1. /\ clip \in {"empty", "other", "secret"}
        /\ phase \in {"open", "destroying", "closed", "killed"}
        /\ refused \in BOOLEAN
    BY <1>1, Zenon
  <2>2. timers \subseteq DOMAIN copies /\ runs \subseteq Run
    BY <1>1
  <2>3. copies \in Seq(Copy)
    BY <1>2
  <2>4. asked \in 0 .. 2
    BY <1>1
  <2> QED
    BY <2>1, <2>2, <2>3, <2>4, <1>3, <1>4, <1>5, Zenon DEF TypeOK
<1> QED
  BY <1>1, <1>6 DEF IInv, ViewSound, Covered, OneExit, Overtaken, Closed, ByExit

-------------------------------------------------------------------------------
\* What the view does with its password and its timers touches nothing that the
\* clipboard depends on.
LEMMA ViewStep ==
  ASSUME IInv, Mount \/ Unmount \/ Reveal \/ Revealed \/ MaskNow
  PROVE  IInv'
<1> USE ClipboardAssumption
<1>1. UNCHANGED <<clip, ref, copies, pendingFlush, runs, phase, asked, refused>>
  BY DEF Mount, Unmount, Reveal, Revealed, MaskNow
<1>2. TypeOK /\ ViewSound
  BY DEF IInv
<1>3. /\ view' \in View /\ views' \in 0 .. MaxViews /\ view'.inst \in {0, views'}
      /\ ViewSound'
      /\ timers' \subseteq timers
  <2> USE <1>2 DEF TypeOK, ViewSound, View
  <2>1. CASE Mount
    <3>1. view' = [inst |-> views + 1, shown |-> FALSE, busy |-> FALSE]
      BY <2>1 DEF Mount, Closed
    <3>2. views' = views + 1 /\ views' \in 1 .. MaxViews /\ timers' = timers
      BY <2>1 DEF Mount
    <3> QED
      BY <3>1, <3>2
  <2>2. CASE Unmount
    BY <2>2 DEF Unmount, Closed
  <2>3. CASE Reveal
    BY <2>3 DEF Reveal
  <2>4. CASE Revealed
    <3>1. PICK ok \in BOOLEAN :
            view' = [view EXCEPT !.busy = FALSE, !.shown = ok]
      BY <2>4 DEF Revealed
    <3>2. view.inst # 0 /\ views' = views /\ timers' = timers
      BY <2>4 DEF Revealed
    <3> QED
      BY <3>1, <3>2
  <2>5. CASE MaskNow
    BY <2>5 DEF MaskNow
  <2> QED
    BY <2>1, <2>2, <2>3, <2>4, <2>5
<1>4. TypeOK' /\ ViewSound'
  BY <1>1, <1>2, <1>3 DEF TypeOK
<1>5. Covered' /\ OneExit' /\ Overtaken'
  BY <1>1 DEF IInv, Covered, OneExit, Overtaken, ByExit, Running, CopyUnderway
<1> QED
  BY <1>4, <1>5 DEF IInv

\* A new copy is at its first stage; the others stay where they are.
LEMMA CopyPasswordStep ==
  ASSUME IInv, CopyPassword
  PROVE  IInv'
<1> USE ClipboardAssumption
<1>1. /\ UNCHANGED <<clip, view, views, ref, timers, pendingFlush, runs, phase, asked, refused>>
      /\ Len(copies) < MaxCopies
  BY DEF CopyPassword, screen
<1>2. TypeOK /\ ViewSound
  BY DEF IInv
<1> DEFINE copy == [inst |-> view.inst, stage |-> "writing"]
<1>3. copy \in Copy
  <2>1. view.inst # 0
    BY <1>2 DEF CopyPassword, TypeOK, ViewSound
  <2> QED
    BY <2>1, <1>2 DEF Copy, TypeOK, View
<1>4. /\ copies \in Seq(Copy) /\ copies' = Append(copies, copy)
  BY <1>2 DEF CopyPassword, TypeOK
<1> HIDE DEF copy
<1>5. /\ copies' \in Seq(Copy) /\ Len(copies') = Len(copies) + 1
      /\ \A i \in DOMAIN copies : i \in DOMAIN copies' /\ copies'[i] = copies[i]
  BY <1>3, <1>4
<1>6. TypeOK' /\ ViewSound'
  <2>1. Len(copies) \in Nat /\ Len(copies') <= MaxCopies
    BY <1>1, <1>4, <1>5
  <2>2. ref' \in [1 .. MaxViews -> 0 .. Len(copies')]
    BY <1>1, <1>2, <1>5, <2>1 DEF TypeOK
  <2> QED
    BY <1>1, <1>2, <1>5, <2>1, <2>2 DEF TypeOK, ViewSound
<1>7. CopyUnderway => CopyUnderway'
  BY <1>5 DEF CopyUnderway
<1>8. Covered' /\ OneExit' /\ Overtaken'
  BY <1>1, <1>7 DEF IInv, Covered, OneExit, Overtaken, ByExit, Running
<1> QED
  BY <1>6, <1>8 DEF IInv

-------------------------------------------------------------------------------
\* The rest of a copy.  Its effect on the clipboard is covered by the copy itself, and
\* from its end on by the flush that it arms.
LEMMA CopyStep ==
  ASSUME IInv, NEW i \in DOMAIN copies, Write(i) \/ WriteFails(i) \/ Copied(i)
  PROVE  IInv'
<1> USE ClipboardAssumption
<1>1. UNCHANGED <<view, views, runs, phase, asked, refused>>
  BY DEF Write, WriteFails, Copied, screen
<1>2. TypeOK /\ ViewSound
  BY DEF IInv
<1>3. /\ copies' \in Seq(Copy) /\ Len(copies') = Len(copies)
      /\ DOMAIN copies' = DOMAIN copies
      /\ \A j \in DOMAIN copies : j # i => copies'[j] = copies[j]
      /\ Write(i) => copies'[i].stage = "written"
  <2>1. CASE Write(i)
    BY <1>2, <2>1, Reached DEF Write
  <2>2. CASE WriteFails(i) \/ Copied(i)
    <3>1. Reaches(i, "done")
      BY <2>2 DEF WriteFails, Copied
    <3>2. ~Write(i)
      <4>1. Reaches(i, "done") => copies'[i].stage = "done"
        BY <1>2, Reached
      <4>2. Reaches(i, "written") => copies'[i].stage = "written"
        BY <1>2, Reached
      <4> QED
        BY <3>1, <4>1, <4>2 DEF Write
    <3> QED
      BY <1>2, <3>1, <3>2, Reached
  <2> QED
    BY <2>1, <2>2
<1>4. i \in 1 .. Len(copies) /\ Len(copies) \in Nat
  BY <1>2 DEF TypeOK
<1>5. TypeOK'
  <2>1. /\ clip' \in {"empty", "other", "secret"}
        /\ ref' \in [1 .. MaxViews -> 0 .. Len(copies)]
        /\ timers' \subseteq DOMAIN copies
        /\ pendingFlush' \in 0 .. Len(copies)
    <3> USE <1>2, <1>4 DEF TypeOK
    <3>1. CASE Write(i) \/ WriteFails(i)
      BY <3>1 DEF Write, WriteFails
    <3>2. CASE Copied(i)
      <4>1. /\ ref' = [ref EXCEPT ![copies[i].inst] = i] /\ pendingFlush' = i
            /\ timers' = (timers \ {ref[copies[i].inst]}) \cup {i} /\ clip' = clip
        BY <3>2 DEF Copied
      <4>2. i \in 0 .. Len(copies)
        OBVIOUS
      <4>3. ref' \in [1 .. MaxViews -> 0 .. Len(copies)]
        BY <4>1, <4>2
      <4> QED
        BY <4>1, <4>2, <4>3
    <3> QED
      BY <3>1, <3>2
  <2> QED
    BY <1>1, <1>2, <1>3, <2>1 DEF TypeOK
<1>6. ViewSound'
  BY <1>1, <1>2 DEF ViewSound
<1>7. CASE Write(i)
  <2>1. CopyUnderway'
    BY <1>3, <1>7 DEF CopyUnderway
  <2> QED
    BY <1>1, <1>5, <1>6, <2>1 DEF IInv, Covered, OneExit, Overtaken, ByExit
<1>8. CASE WriteFails(i)
  <2>1. copies[i].stage = "writing" /\ UNCHANGED <<clip, pendingFlush>>
    BY <1>8 DEF WriteFails, At
  <2>2. CopyUnderway => CopyUnderway'
    BY <1>3, <2>1 DEF CopyUnderway
  <2> QED
    BY <1>1, <1>5, <1>6, <2>1, <2>2 DEF IInv, Covered, OneExit, Overtaken, ByExit, Running
<1>9. CASE Copied(i)
  <2>1. pendingFlush' # 0
    BY <1>4, <1>9 DEF Copied
  <2> QED
    BY <1>1, <1>5, <1>6, <2>1 DEF IInv, Covered, OneExit, Overtaken, ByExit
<1> QED
  BY <1>7, <1>8, <1>9

\* A timer replaces the flush by its own check.
LEMMA TimerStep ==
  ASSUME IInv, NEW i \in timers, TimerFires(i)
  PROVE  IInv'
<1>1. /\ UNCHANGED <<clip, view, views, ref, copies, phase, asked, refused>>
      /\ timers' \subseteq timers /\ pendingFlush' = 0
  BY DEF TimerFires, screen
<1> DEFINE check == [copy |-> i, by |-> "timer", stage |-> "reading"]
<1>2. runs' = runs \cup {check}
  BY DEF TimerFires, Start
<1>3. check \in Run /\ check.by = "timer"
  BY ClipboardAssumption DEF IInv, TypeOK, Run
<1> HIDE DEF check
<1>4. TypeOK' /\ ViewSound'
  BY <1>1, <1>2, <1>3 DEF IInv, TypeOK, ViewSound
<1>5. Covered' /\ OneExit' /\ Overtaken'
  BY <1>1, <1>2, <1>3 DEF IInv, Covered, OneExit, Overtaken, ByExit
<1> QED
  BY <1>4, <1>5 DEF IInv

\* A request to close starts the check of the flush that is armed, or ends the app.
LEMMA CloseStep ==
  ASSUME IInv, CloseRequested
  PROVE  IInv'
<1>1. /\ UNCHANGED <<clip, view, views, ref, copies, timers, refused>>
      /\ pendingFlush' = 0 /\ phase \in {"open", "destroying"}
      /\ asked' = IF asked = 0 THEN 1 ELSE 2
  BY DEF CloseRequested, screen, Running
<1>2. TypeOK /\ Covered /\ OneExit /\ Overtaken /\ asked \in 0 .. 2
  BY DEF IInv, TypeOK
<1>3. CASE pendingFlush = 0
  <2>1. phase' = "destroying" /\ runs' = runs
    BY <1>3 DEF CloseRequested
  <2>2. TypeOK' /\ ViewSound'
    BY <1>1, <2>1 DEF IInv, TypeOK, ViewSound
  <2>3. asked = 0 => ~\E r \in runs : ByExit(r)
    BY <1>2 DEF OneExit
  <2>4. OneExit'
    BY <1>1, <1>2, <2>1, <2>3 DEF OneExit, ByExit
  <2>5. Covered'
    BY <1>1, <1>2, <1>3, <2>1 DEF Covered, Running, CopyUnderway
  <2>6. Overtaken'
    <3>1. SUFFICES ASSUME clip = "secret", ~refused, ~CopyUnderway
                   PROVE  \E r \in runs' : r.by = "timer" \/ asked' = 2
      BY <1>1, <2>1 DEF Overtaken, CopyUnderway
    <3>2. PICK r \in runs : TRUE
      BY <1>1, <1>2, <1>3, <3>1 DEF Covered, Running
    <3>3. r.by \in {"timer", "exit"}
      BY <1>2 DEF TypeOK, Run
    <3>4. CASE r.by = "exit"
      BY <1>1, <1>2, <2>1, <2>3, <3>4 DEF ByExit
    <3> QED
      BY <2>1, <3>3, <3>4
  <2> QED
    BY <2>2, <2>4, <2>5, <2>6 DEF IInv
<1>4. CASE pendingFlush # 0
  <2> DEFINE check == [copy |-> pendingFlush, by |-> "exit", stage |-> "reading"]
  <2>1. phase' = phase /\ runs' = runs \cup {check}
    BY <1>4 DEF CloseRequested, Start
  <2>2. check \in Run /\ check.by = "exit"
    <3>1. pendingFlush \in 1 .. MaxCopies
      BY <1>2, <1>4, ClipboardAssumption DEF TypeOK
    <3> QED
      BY <3>1 DEF Run
  <2> HIDE DEF check
  <2>3. TypeOK' /\ ViewSound'
    BY <1>1, <2>1, <2>2 DEF IInv, TypeOK, ViewSound
  <2>4. OneExit'
    BY <1>1, <1>2, <2>1, <2>2 DEF OneExit, ByExit
  <2>5. Covered'
    BY <2>1 DEF Covered
  <2>6. Overtaken'
    BY <1>1, <1>2, <2>1, <2>2 DEF Overtaken, OneExit
  <2> QED
    BY <2>3, <2>4, <2>5, <2>6 DEF IInv
<1> QED
  BY <1>3, <1>4

-------------------------------------------------------------------------------
\* A check that ends: where it was made for a request to close, the window goes.
LEMMA EndStep ==
  ASSUME IInv, NEW r \in runs, Ends(r), Running,
         UNCHANGED <<view, views, ref, copies, timers, pendingFlush, asked>>,
         clip' \in {"empty", "other", "secret"}, refused' \in BOOLEAN,
         clip' # "secret" \/ refused'
  PROVE  IInv'
<1>1. TypeOK /\ OneExit /\ r \in Run
  BY DEF IInv, TypeOK
<1>2. /\ runs' \subseteq runs /\ r \notin runs'
      /\ r.by = "exit" => phase' = "destroying"
      /\ r.by # "exit" => phase' = phase
  BY DEF Ends
<1>3. TypeOK' /\ ViewSound'
  BY <1>1, <1>2 DEF IInv, TypeOK, ViewSound
<1>4. OneExit'
  BY <1>1, <1>2 DEF OneExit, ByExit
<1>5. Covered' /\ Overtaken'
  BY DEF Covered, Overtaken
<1> QED
  BY <1>3, <1>4, <1>5 DEF IInv

\* Reading the clipboard and clearing it.
LEMMA CheckStep ==
  ASSUME IInv, NEW r \in runs, Read(r) \/ Clear(r)
  PROVE  IInv'
<1>1. TypeOK /\ OneExit /\ Overtaken /\ r \in Run /\ Running
  BY DEF IInv, TypeOK, Read, Clear
<1>2. UNCHANGED <<view, views, ref, copies, timers, pendingFlush, asked>>
  BY DEF Read, Clear, screen
<1>3. CASE Ends(r) /\ (clip' # "secret" \/ refused')
  <2>1. clip' \in {"empty", "other", "secret"} /\ refused' \in BOOLEAN
    BY <1>1 DEF Read, Clear, TypeOK
  <2> QED
    BY <1>1, <1>2, <1>3, <2>1, EndStep
<1>4. CASE ~(Ends(r) /\ (clip' # "secret" \/ refused'))
  <2> DEFINE further == [r EXCEPT !.stage = "clearing"]
  <2>1. runs' = (runs \ {r}) \cup {further} /\ UNCHANGED <<clip, phase, refused>>
    BY <1>4 DEF Read, Clear
  <2>2. further \in Run /\ further.by = r.by
    BY <1>1 DEF Run
  <2> HIDE DEF further
  <2>3. TypeOK' /\ ViewSound'
    BY <1>1, <1>2, <2>1, <2>2 DEF IInv, TypeOK, ViewSound
  <2>4. Covered'
    BY <2>1 DEF Covered
  <2>5. OneExit'
    BY <1>1, <1>2, <2>1, <2>2 DEF OneExit, ByExit
  <2>6. Overtaken'
    BY <1>1, <1>2, <2>1, <2>2 DEF Overtaken, CopyUnderway
  <2> QED
    BY <2>3, <2>4, <2>5, <2>6 DEF IInv
<1> QED
  BY <1>3, <1>4

\* The window goes, the app is killed, or another program copies something.
LEMMA PlatformStep ==
  ASSUME IInv, Destroyed \/ Killed \/ OtherCopied
  PROVE  IInv'
<1>1. /\ UNCHANGED <<view, views, ref, copies, timers, pendingFlush, runs, asked, refused>>
      /\ \/ phase = "destroying" /\ phase' = "closed" /\ clip' = clip
         \/ phase' = "killed" /\ clip' = clip
         \/ phase' = phase /\ clip' = "other"
  BY DEF Destroyed, Killed, OtherCopied, screen
<1>2. TypeOK' /\ ViewSound'
  BY <1>1 DEF IInv, TypeOK, ViewSound
<1>3. Covered' /\ OneExit' /\ Overtaken'
  BY <1>1 DEF IInv, Covered, OneExit, Overtaken, ByExit, Running, CopyUnderway
<1> QED
  BY <1>2, <1>3 DEF IInv

LEMMA Inductive == IInv /\ [Next]_vars => IInv'
<1> SUFFICES ASSUME IInv, [Next]_vars PROVE IInv'
  OBVIOUS
<1>1. CASE Mount \/ Unmount \/ Reveal \/ Revealed \/ MaskNow
  BY <1>1, ViewStep
<1>2. CASE CopyPassword
  BY <1>2, CopyPasswordStep
<1>3. ASSUME NEW i \in DOMAIN copies, Write(i) \/ WriteFails(i) \/ Copied(i)
      PROVE  IInv'
  BY <1>3, CopyStep
<1>4. ASSUME NEW i \in timers, TimerFires(i) PROVE IInv'
  BY <1>4, TimerStep
<1>5. CASE Check
  BY <1>5, CheckStep DEF Check
<1>6. CASE CloseRequested
  BY <1>6, CloseStep
<1>7. CASE Destroyed \/ Killed \/ OtherCopied
  BY <1>7, PlatformStep
<1>8. CASE UNCHANGED vars
  BY <1>8 DEF vars, IInv, TypeOK, ViewSound, Covered, OneExit, Overtaken, ByExit, Running,
              CopyUnderway
<1> QED
  BY <1>1, <1>2, <1>3, <1>4, <1>5, <1>6, <1>7, <1>8 DEF Next

LEMMA Invariant == Spec => []IInv
  BY Initially, Inductive, PTL DEF Spec

-------------------------------------------------------------------------------
\* The variables keep their types, for any number of copies and views.
THEOREM Typing == Spec => []TypeOK
<1>1. IInv => TypeOK
  BY DEF IInv
<1> QED
  BY <1>1, Invariant, PTL

\* Whatever timers are cancelled, a copied secret has an armed flush, a check or a
\* handleCopy to follow (pending-clipboard-clear.ts:14-20,
\* schedule-clipboard-auto-clear.ts:42-53).
THEOREM AlwaysCovered == Spec => []NothingForgotten
<1>1. IInv => NothingForgotten
  BY DEF IInv, Covered, CopyUnderway, NothingForgotten
<1> QED
  BY <1>1, Invariant, PTL

\* Closing the window leaves the secret only where it overtook a check or a copy, or
\* the platform refused (clear-on-exit.ts:41-57).
THEOREM ClosingClears == Spec => []ExitClears
<1>1. IInv => ExitClears
  BY DEF IInv, Overtaken, CopyUnderway, ExitClears
<1> QED
  BY <1>1, Invariant, PTL
===============================================================================
