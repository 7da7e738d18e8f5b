------------------------- MODULE DesktopSession_proofs -------------------------
(***************************************************************************)
(* Proofs about DesktopSession, for any number of engines, vaults and      *)
(* calls: typing, that keys live in the engine of the screen only, that an *)
(* open session has the key of the vault whose password was typed, and     *)
(* that a stored account is kept.                                          *)
(***************************************************************************)
EXTENDS DesktopSession, SequenceTheorems, TLAPS

\* Screens without an engine, with an attempt on its way, and with an engine that
\* succeeded.
Forms   == {"checking", "create", "unlock"}
Attempt == {"creating", "unlocking"}
Ready   == {"saving", "recovery-kit", "open"}

\* The engine of the screen runs, and no other.
OneEngine ==
  /\ live = IF screen.kind \in Forms THEN {} ELSE {screen.client}
  /\ screen.kind \notin Forms => screen.client \in Clients

\* What the screen says of a vault is true.
Known ==
  /\ screen.kind \notin Forms => screen.typed \in Passwords
  /\ screen.kind \in Ready \cup {"unlock", "unlocking"} => screen.vault \in DOMAIN vaults
  /\ screen.kind \in Ready => vaults[screen.vault] = screen.typed
  /\ demo # None => screen.kind = "open" /\ demo = screen.vault

\* An attempt is one call, and one answer once it is done; the answer tells the truth.
Expected == IF screen.kind = "creating" THEN "createNewVault" ELSE "unlockWithPassword"

Truthful(answer, c) ==
  LET vault == IF screen.kind = "creating" THEN answer.vault ELSE screen.vault IN
  /\ answer.id = 1
  /\ answer.ok => /\ kek[c] = FALSE /\ dek[c] = vault
                  /\ vault \in DOMAIN vaults /\ vaults[vault] = screen.typed

Trying(c) ==
  /\ Len(calls[c]) = 1
  /\ calls[c][1].waiting /\ calls[c][1].op = Expected
  /\ screen.kind = "unlocking" => calls[c][1].key = screen.vault
  /\ calls[c][1].stage # "done" => answers[c] = << >>
  /\ calls[c][1].stage = "done" => Len(answers[c]) = 1 /\ Truthful(answers[c][1], c)

\* An engine that succeeded: the first call is over and what follows are calls on items
\* and locks, which start in order; the key is there until a lock has started.
Begun(c) ==
  /\ 1 \in DOMAIN calls[c]
  /\ calls[c][1].stage = "done" /\ calls[c][1].waiting = FALSE
  /\ calls[c][1].op \in {"createNewVault", "unlockWithPassword"}
  /\ \A i \in DOMAIN calls[c] : i # 1 =>
       screen.kind = "open" /\ calls[c][i].op \in {"encryptItem", "decryptItem", "lock"}
InOrder(c) ==
  \A i, j \in DOMAIN calls[c] :
    i < j /\ calls[c][i].stage = "sent" => calls[c][j].stage = "sent"
Keyed(c) ==
  /\ kek[c] = FALSE
  /\ \/ dek[c] = screen.vault
     \/ /\ dek[c] = None
        /\ \E i \in DOMAIN calls[c] : calls[c][i].op = "lock" /\ calls[c][i].stage # "sent"
  /\ \A i \in DOMAIN calls[c] :
       calls[c][i].stage = "running" /\ calls[c][i].op = "encryptItem" =>
         calls[c][i].key = screen.vault
Replied(c) ==
  \A a \in DOMAIN answers[c] :
    /\ answers[c][a].id \in DOMAIN calls[c]
    /\ ~answers[c][a].ok =>
         \E j \in DOMAIN calls[c] : j < answers[c][a].id /\ calls[c][j].op = "lock"
    /\ answers[c][a].ok /\ calls[c][answers[c][a].id].op = "encryptItem" =>
         answers[c][a].vault = screen.vault
Holding(c) == Begun(c) /\ InOrder(c) /\ Keyed(c) /\ Replied(c)

\* A form that creates a vault is there for lack of an account, or of its record.
Kept ==
  screen.kind \in {"create", "creating", "saving"} /\ stored # None => screen.loadFailed

IInv ==
  /\ TypeOK /\ OneEngine /\ Known /\ Kept
  /\ screen.kind \in Attempt => Trying(screen.client)
  /\ screen.kind \in Ready => Holding(screen.client)
-------------------------------------------------------------------------------
\* Operations on the calls and the answers of an engine keep their types.
LEMMA Shapes ==
  /\ \A op \in Ops : \A key \in {None} \cup Vault : NewCall(op, key) \in Call
  /\ \A r \in Call : /\ [r EXCEPT !.stage = "done"] \in Call
                     /\ [r EXCEPT !.waiting = FALSE] \in Call
                     /\ \A key \in {None} \cup Vault :
                          [r EXCEPT !.stage = "running", !.key = key] \in Call
  BY DEF NewCall, Call

LEMMA Replaced ==
  ASSUME NEW S, NEW s \in Seq(S), NEW i \in DOMAIN s, NEW r \in S
  PROVE  /\ [s EXCEPT ![i] = r] \in Seq(S)
         /\ Len([s EXCEPT ![i] = r]) = Len(s)
         /\ DOMAIN [s EXCEPT ![i] = r] = DOMAIN s
         /\ [s EXCEPT ![i] = r][i] = r
         /\ \A j \in DOMAIN s : j # i => [s EXCEPT ![i] = r][j] = s[j]
  OBVIOUS

LEMMA Appended ==
  ASSUME NEW S, NEW s \in Seq(S), NEW r \in S
  PROVE  /\ Append(s, r) \in Seq(S)
         /\ Len(Append(s, r)) = Len(s) + 1
         /\ DOMAIN Append(s, r) = DOMAIN s \cup {Len(s) + 1}
         /\ Append(s, r)[Len(s) + 1] = r
         /\ \A j \in DOMAIN s : Append(s, r)[j] = s[j]
  OBVIOUS

LEMMA Dequeued ==
  ASSUME NEW S, NEW s \in Seq(S), s # << >>
  PROVE  /\ Tail(s) \in Seq(S) /\ Len(Tail(s)) = Len(s) - 1
         /\ 1 \in DOMAIN s /\ Head(s) = s[1] /\ Head(s) \in S
         /\ \A a \in DOMAIN Tail(s) : a + 1 \in DOMAIN s /\ Tail(s)[a] = s[a + 1]
  OBVIOUS

LEMMA Emptied ==
  ASSUME NEW S, NEW s \in Seq(S), Len(s) = 1
  PROVE  Tail(s) = << >>
<1>1. Tail(s) \in Seq(S) /\ Len(Tail(s)) = 0
  OBVIOUS
<1> QED
  BY <1>1, EmptySeq

\* The calls of one engine change to s.
LEMMA CallsOf ==
  ASSUME TypeOK, NEW c \in Clients, NEW s \in Seq(Call), Len(s) <= MaxCalls,
         calls' = [calls EXCEPT ![c] = s]
  PROVE  /\ calls' \in [Clients -> Seq(Call)] /\ \A d \in Clients : Len(calls'[d]) <= MaxCalls
         /\ calls'[c] = s
  BY DEF TypeOK

\* An answer to call i is posted.
Answered(c, i, ok, v) ==
  /\ calls' \in [Clients -> Seq(Call)] /\ \A d \in Clients : Len(calls'[d]) <= MaxCalls
  /\ answers' \in [Clients -> Seq(Answer)]
  /\ Len(calls'[c]) = Len(calls[c]) /\ DOMAIN calls'[c] = DOMAIN calls[c]
  /\ calls'[c][i] = [calls[c][i] EXCEPT !.stage = "done"]
  /\ \A j \in DOMAIN calls[c] : j # i => calls'[c][j] = calls[c][j]
  /\ answers'[c] = Append(answers[c], [id |-> i, ok |-> ok, vault |-> v])
  /\ [id |-> i, ok |-> ok, vault |-> v] \in Answer

LEMMA Posted ==
  ASSUME TypeOK, NEW c \in Clients, NEW i \in DOMAIN calls[c], NEW ok \in BOOLEAN,
         NEW v \in {None} \cup Vault, Post(c, i, ok, v)
  PROVE  Answered(c, i, ok, v)
<1> DEFINE r == [id |-> i, ok |-> ok, vault |-> v]
           done == [calls[c][i] EXCEPT !.stage = "done"]
           t == [calls[c] EXCEPT ![i] = done]
<1>1. calls[c] \in Seq(Call) /\ Len(calls[c]) <= MaxCalls /\ answers[c] \in Seq(Answer)
  BY DEF TypeOK
<1>2. i \in 1 .. Len(calls[c]) /\ i \in 1 .. MaxCalls
  BY <1>1, SessionAssumption
<1>3. r \in Answer
  BY <1>2 DEF Answer
<1>4. calls[c][i] \in Call
  BY <1>1, <1>2
<1>5. done \in Call
  BY <1>4, Shapes
<1>6. calls' = [calls EXCEPT ![c] = t] /\ answers' = [answers EXCEPT ![c] = Append(answers[c], r)]
  BY DEF Post
<1> HIDE DEF r, done
<1>7. /\ t \in Seq(Call) /\ Len(t) = Len(calls[c]) /\ DOMAIN t = DOMAIN calls[c]
      /\ t[i] = done /\ \A j \in DOMAIN calls[c] : j # i => t[j] = calls[c][j]
  BY <1>1, <1>5, Replaced
<1> HIDE DEF t
<1>8. /\ calls' \in [Clients -> Seq(Call)] /\ \A d \in Clients : Len(calls'[d]) <= MaxCalls
      /\ calls'[c] = t
  BY <1>1, <1>6, <1>7, CallsOf
<1>9. Append(answers[c], r) \in Seq(Answer)
  BY <1>1, <1>3, Appended
<1>10. answers' \in [Clients -> Seq(Answer)] /\ answers'[c] = Append(answers[c], r)
  BY <1>6, <1>9 DEF TypeOK
<1> QED
  BY <1>3, <1>7, <1>8, <1>10 DEF Answered, r, done

\* The engine ends: what is left of the types.
LEMMA Terminated ==
  ASSUME TypeOK, NEW c \in Clients, Terminate(c)
  PROVE  /\ live' = live \ {c} /\ live' \subseteq Clients
         /\ dek' \in [Clients -> {None} \cup Vault] /\ kek' \in [Clients -> BOOLEAN]
         /\ calls' \in [Clients -> Seq(Call)] /\ \A d \in Clients : Len(calls'[d]) <= MaxCalls
         /\ answers' \in [Clients -> Seq(Answer)]
<1>1. << >> \in Seq(Call) /\ Len(<< >>) <= MaxCalls /\ << >> \in Seq(Answer)
  BY SessionAssumption
<1>2. kek' \in [Clients -> BOOLEAN]
  BY DEF Terminate, TypeOK
<1>3. answers' \in [Clients -> Seq(Answer)]
  BY <1>1 DEF Terminate, TypeOK
<1>4. calls' \in [Clients -> Seq(Call)] /\ \A d \in Clients : Len(calls'[d]) <= MaxCalls
  BY <1>1 DEF Terminate, TypeOK
<1>5. live' = live \ {c} /\ live' \subseteq Clients /\ dek' \in [Clients -> {None} \cup Vault]
  BY DEF Terminate, TypeOK
<1> QED
  BY <1>2, <1>3, <1>4, <1>5

-------------------------------------------------------------------------------
\* A form is shown and no engine runs.
LEMMA ToForm ==
  ASSUME TypeOK', live' = {}, screen'.kind \in Forms, demo' = None,
         screen'.kind = "unlock" => screen'.vault \in DOMAIN vaults',
         screen'.kind = "create" /\ stored' # None => screen'.loadFailed
  PROVE  IInv'
<1>1. /\ screen'.kind \notin Attempt \cup Ready \cup {"unlocking", "creating", "saving", "open"}
      /\ screen'.kind \in Forms
  BY DEF Forms, Attempt, Ready
<1>2. OneEngine' /\ Known' /\ Kept'
  BY <1>1 DEF OneEngine, Known, Kept
<1> QED
  BY <1>1, <1>2 DEF IInv

LEMMA FormShown ==
  ASSUME TypeOK, NEW kind \in Kinds
  PROVE  /\ Form(kind) \in Screen /\ Form(kind).kind = kind
         /\ Form(kind).vault = screen.vault /\ Form(kind).loadFailed = screen.loadFailed
  BY DEF TypeOK, Form, Screen

\* An attempt that fails goes back to its form and leaves no engine.
LEMMA GivesUp ==
  ASSUME IInv, screen.kind \in Attempt \cup {"saving"}, Terminate(screen.client),
         screen' = Form(IF screen.kind = "unlocking" THEN "unlock" ELSE "create"),
         UNCHANGED <<demo, stored, vaults>>
  PROVE  IInv'
<1> DEFINE kind == IF screen.kind = "unlocking" THEN "unlock" ELSE "create"
<1>1. /\ TypeOK /\ screen.client \in Clients /\ live = {screen.client}
      /\ screen.kind \in {"creating", "saving", "unlocking"} /\ demo = None
  BY DEF IInv, OneEngine, Known, Forms, Attempt
<1>2. kind \in Kinds /\ kind \in Forms
  BY DEF Kinds, Forms
<1>3. /\ screen' \in Screen /\ screen'.kind = kind
      /\ screen'.vault = screen.vault /\ screen'.loadFailed = screen.loadFailed
  BY <1>1, <1>2, FormShown
<1>4. live' = {}
  BY <1>1, Terminated
<1>5. TypeOK'
  BY <1>1, <1>3, Terminated DEF TypeOK
<1>6. kind = "unlock" => screen.vault \in DOMAIN vaults
  BY DEF IInv, Known
<1>7. kind = "create" /\ stored # None => screen.loadFailed
  BY <1>1 DEF IInv, Kept
<1> HIDE DEF kind
<1> QED
  BY <1>1, <1>2, <1>3, <1>4, <1>5, <1>6, <1>7, ToForm

\* A form starts an engine with one call.
LEMMA Starts ==
  ASSUME IInv, NEW c \in Clients, NEW p \in Passwords, Create(c, p) \/ Unlock(c, p)
  PROVE  IInv'
<1> DEFINE op == IF screen.kind = "create" THEN "createNewVault" ELSE "unlockWithPassword"
           kind == IF screen.kind = "create" THEN "creating" ELSE "unlocking"
           key == IF screen.kind = "create" THEN None ELSE screen.vault
<1>1. /\ TypeOK /\ screen.kind \in {"create", "unlock"} /\ live = {} /\ demo = None
  BY DEF IInv, OneEngine, Known, Forms, Create, Unlock
<1>2. /\ Launch(c, op, key)
      /\ screen' = [screen EXCEPT !.kind = kind, !.client = c, !.typed = p]
      /\ UNCHANGED <<demo, stored, vaults>>
  BY DEF Create, Unlock
<1>3. /\ screen' \in Screen /\ screen'.kind = kind /\ screen'.client = c /\ screen'.typed = p
      /\ screen'.vault = screen.vault /\ screen'.loadFailed = screen.loadFailed
  BY <1>1, <1>2 DEF TypeOK, Screen, Kinds
<1>4. NewCall(op, key) \in Call
  <2>1. op \in Ops /\ key \in {None} \cup Vault
    BY <1>1 DEF Ops, TypeOK, Screen
  <2> HIDE DEF op, key
  <2> QED
    BY <2>1, Shapes
<1>5. <<NewCall(op, key)>> \in Seq(Call) /\ Len(<<NewCall(op, key)>>) = 1 /\ 1 <= MaxCalls
  BY <1>4, SessionAssumption
<1>6. /\ calls' = [calls EXCEPT ![c] = <<NewCall(op, key)>>]
      /\ answers' = [answers EXCEPT ![c] = << >>] /\ live' = {c}
      /\ dek' = [dek EXCEPT ![c] = None] /\ kek' = [kek EXCEPT ![c] = FALSE]
  BY <1>1, <1>2 DEF Launch
<1>7. /\ calls' \in [Clients -> Seq(Call)] /\ \A d \in Clients : Len(calls'[d]) <= MaxCalls
      /\ calls'[c] = <<NewCall(op, key)>>
  BY <1>1, <1>5, <1>6, CallsOf
<1>8. kek' \in [Clients -> BOOLEAN]
  BY <1>1, <1>6 DEF TypeOK
<1>9. answers' \in [Clients -> Seq(Answer)] /\ answers'[c] = << >>
  BY <1>1, <1>6 DEF TypeOK
<1>10. live' \subseteq Clients /\ dek' \in [Clients -> {None} \cup Vault]
  BY <1>1, <1>6 DEF TypeOK
<1>11. TypeOK'
  BY <1>1, <1>2, <1>3, <1>7, <1>8, <1>9, <1>10 DEF TypeOK
<1>12. kind \in Attempt /\ kind \notin Forms /\ kind \notin Ready
  BY DEF Attempt, Forms, Ready
<1>13. OneEngine'
  BY <1>3, <1>6, <1>12 DEF OneEngine
<1>14. Known'
  BY <1>1, <1>2, <1>3, <1>12 DEF IInv, Known
<1>15. Kept'
  BY <1>1, <1>2, <1>3 DEF IInv, Kept
<1>16. Trying(screen.client)'
  <2>1. /\ calls'[c][1].waiting /\ calls'[c][1].op = op /\ calls'[c][1].stage = "sent"
        /\ calls'[c][1].key = key /\ Len(calls'[c]) = 1
    BY <1>7 DEF NewCall
  <2>2. op = Expected' /\ (kind = "unlocking" => key = screen.vault)
    BY <1>1, <1>3 DEF Expected
  <2> QED
    BY <1>3, <1>9, <2>1, <2>2 DEF Trying
<1> QED
  BY <1>3, <1>11, <1>12, <1>13, <1>14, <1>15, <1>16 DEF IInv

-------------------------------------------------------------------------------
\* Where an engine runs, it is the one of the screen, with its first call over or not.
LEMMA Located ==
  ASSUME IInv, NEW c \in Clients, c \in live
  PROVE  /\ TypeOK /\ c = screen.client /\ screen.kind \in Attempt \cup Ready
         /\ screen.kind \in Attempt => Trying(c)
         /\ screen.kind \in Ready => Holding(c)
         /\ calls[c] \in Seq(Call) /\ answers[c] \in Seq(Answer)
         /\ screen.kind \in {"creating", "unlocking", "saving", "recovery-kit", "open"}
  BY DEF IInv, OneEngine, TypeOK, Screen, Kinds, Forms, Attempt, Ready

\* A step of the worker that ends the attempt's call.
LEMMA AttemptEnds ==
  ASSUME IInv, NEW c \in Clients, c \in live, screen.kind \in Attempt,
         calls[c][1].stage # "done",
         NEW ok \in BOOLEAN, NEW v \in {None} \cup Vault, Post(c, 1, ok, v),
         UNCHANGED <<screen, demo, stored, live>>,
         dek' \in [Clients -> {None} \cup Vault], kek' \in [Clients -> BOOLEAN],
         vaults' \in Seq(Passwords), Len(vaults') <= MaxVaults,
         DOMAIN vaults \subseteq DOMAIN vaults',
         LET vault == IF screen.kind = "creating" THEN v ELSE screen.vault IN
         ok => /\ kek'[c] = FALSE /\ dek'[c] = vault
               /\ vault \in DOMAIN vaults' /\ vaults'[vault] = screen.typed
  PROVE  IInv'
<1> DEFINE r == [id |-> 1, ok |-> ok, vault |-> v]
<1>1. TypeOK /\ c = screen.client /\ Trying(c) /\ answers[c] = << >>
  BY Located DEF Trying
<1>2. 1 \in DOMAIN calls[c] /\ calls[c][1] \in Call
  BY <1>1, Located DEF Trying
<1>3. /\ calls' \in [Clients -> Seq(Call)] /\ \A d \in Clients : Len(calls'[d]) <= MaxCalls
      /\ answers' \in [Clients -> Seq(Answer)]
      /\ Len(calls'[c]) = Len(calls[c])
      /\ calls'[c][1] = [calls[c][1] EXCEPT !.stage = "done"]
      /\ answers'[c] = Append(answers[c], r)
      /\ r \in Answer
  <2>1. Answered(c, 1, ok, v)
    BY <1>1, <1>2, Posted, Zenon
  <2> QED
    BY <2>1 DEF Answered
<1>4. TypeOK'
  BY <1>1, <1>3 DEF TypeOK
<1>5. /\ calls'[c][1].stage = "done" /\ calls'[c][1].op = calls[c][1].op
      /\ calls'[c][1].waiting = calls[c][1].waiting /\ calls'[c][1].key = calls[c][1].key
  BY <1>2, <1>3 DEF Call
<1>6. Len(answers'[c]) = 1 /\ answers'[c][1] = r
  BY <1>1, <1>3
<1>7. r.id = 1 /\ r.ok = ok /\ r.vault = v
  OBVIOUS
<1> HIDE DEF r
<1>8. Truthful(r, c)'
  BY <1>7 DEF Truthful
<1>9. Expected' = Expected
  BY DEF Expected
<1>10. Trying(c)'
  BY <1>1, <1>3, <1>5, <1>6, <1>8, <1>9 DEF Trying
<1>11. OneEngine' /\ Kept'
  BY <1>1 DEF IInv, OneEngine, Kept
<1>12. screen.kind \notin Ready
  BY DEF Attempt, Ready
<1>13. Known'
  BY <1>12 DEF IInv, Known
<1> QED
  BY <1>1, <1>4, <1>10, <1>11, <1>12, <1>13 DEF IInv

\* The worker during an attempt.
LEMMA AttemptWorks ==
  ASSUME IInv, NEW c \in Clients, screen.kind \in Attempt, Worker(c)
  PROVE  IInv'
<1>1. PICK i \in DOMAIN calls[c] :
        \/ Begin(c, i) \/ Lock(c, i)
        \/ CreateVault(c, i) \/ Unwrap(c, i) \/ DeriveFails(c, i) \/ Finish(c, i)
  BY DEF Worker
<1>2. c \in live
  BY <1>1 DEF Begin, Lock, NextSent, CreateVault, Unwrap, DeriveFails, Finish, Running
<1>3. /\ TypeOK /\ c = screen.client /\ Trying(c) /\ screen.kind \in {"creating", "unlocking"}
      /\ calls[c] \in Seq(Call)
  BY <1>2, Located DEF Attempt
<1>4. /\ i = 1 /\ calls[c][1] \in Call
      /\ calls[c][1].op = IF screen.kind = "creating" THEN "createNewVault"
                                                     ELSE "unlockWithPassword"
      /\ screen.typed \in Passwords
  BY <1>3 DEF Trying, Expected, IInv, Known, Forms
<1>5. CASE Begin(c, i)
  <2> DEFINE r == [calls[c][1] EXCEPT !.stage = "running", !.key = calls[c][1].key]
             t == [calls[c] EXCEPT ![1] = r]
  <2>1. calls[c][1].stage = "sent" /\ calls[c][1].op \notin {"encryptItem", "decryptItem", "lock"}
    BY <1>4, <1>5 DEF Begin, NextSent
  <2>2. /\ calls' = [calls EXCEPT ![c] = t] /\ answers' = answers
        /\ kek' = [kek EXCEPT ![c] = kek[c] \/ TRUE]
        /\ UNCHANGED <<screen, demo, stored, vaults, live, dek>>
    BY <1>4, <1>5, <2>1 DEF Begin
  <2>3. r \in Call /\ r.stage = "running" /\ r.op = calls[c][1].op /\ r.key = calls[c][1].key
        /\ r.waiting = calls[c][1].waiting
    BY <1>4 DEF Call
  <2> HIDE DEF r
  <2>4. t \in Seq(Call) /\ Len(t) = Len(calls[c]) /\ t[1] = r
    BY <1>3, <1>4, <2>3, Replaced
  <2> HIDE DEF t
  <2>5. /\ calls' \in [Clients -> Seq(Call)] /\ \A d \in Clients : Len(calls'[d]) <= MaxCalls
        /\ calls'[c] = t
    BY <1>3, <2>2, <2>4, CallsOf DEF TypeOK
  <2>6. kek' \in [Clients -> BOOLEAN]
    BY <1>3, <2>2 DEF TypeOK
  <2>7. TypeOK'
    BY <1>3, <2>2, <2>5, <2>6 DEF TypeOK
  <2>8. OneEngine' /\ Known' /\ Kept'
    BY <2>2 DEF IInv, OneEngine, Known, Kept
  <2>9. Trying(c)'
    BY <1>3, <2>1, <2>2, <2>3, <2>4, <2>5 DEF Trying, Expected
  <2> QED
    BY <1>3, <2>2, <2>7, <2>8, <2>9 DEF IInv, Attempt, Ready
<1>6. CASE CreateVault(c, i)
  <2> DEFINE n == Len(vaults) + 1
             v == Append(vaults, screen.typed)
  <2>1. /\ Post(c, 1, TRUE, n) /\ calls[c][1].stage # "done" /\ vaults' = v
        /\ dek' = [dek EXCEPT ![c] = n] /\ kek' = [kek EXCEPT ![c] = FALSE]
        /\ UNCHANGED <<screen, demo, stored, live>> /\ Len(vaults) < MaxVaults
        /\ screen.kind = "creating"
    BY <1>3, <1>4, <1>6 DEF CreateVault, Running
  <2>2. vaults \in Seq(Passwords) /\ Len(vaults) \in Nat /\ MaxVaults \in Nat
    BY <1>3, SessionAssumption DEF TypeOK
  <2>3. n \in Vault /\ n <= MaxVaults
    BY <2>1, <2>2 DEF Vault
  <2>4. /\ v \in Seq(Passwords) /\ Len(v) = n /\ DOMAIN v = DOMAIN vaults \cup {n}
        /\ v[n] = screen.typed
    BY <1>4, <2>2, Appended
  <2> HIDE DEF n, v
  <2>5. kek' \in [Clients -> BOOLEAN] /\ kek'[c] = FALSE
    BY <1>3, <2>1 DEF TypeOK
  <2>6. dek' \in [Clients -> {None} \cup Vault] /\ dek'[c] = n
    BY <1>3, <2>1, <2>3 DEF TypeOK
  <2> QED
    BY <1>2, <2>1, <2>3, <2>4, <2>5, <2>6, AttemptEnds
<1>7. CASE Unwrap(c, i)
  <2> DEFINE opens == screen.typed = vaults[calls[c][1].key]
  <2>1. /\ Post(c, 1, opens, None) /\ calls[c][1].stage # "done"
        /\ dek' = [dek EXCEPT ![c] = IF opens THEN calls[c][1].key ELSE dek[c]]
        /\ kek' = [kek EXCEPT ![c] = ~opens]
        /\ UNCHANGED <<screen, demo, stored, vaults, live>>
        /\ screen.kind = "unlocking"
    BY <1>3, <1>4, <1>7 DEF Unwrap, Running
  <2>2. calls[c][1].key = screen.vault /\ screen.vault \in DOMAIN vaults
    BY <1>3, <2>1 DEF Trying, IInv, Known
  <2>3. calls[c][1].key \in {None} \cup Vault
    BY <1>4 DEF Call
  <2>4. kek' \in [Clients -> BOOLEAN] /\ kek'[c] = ~opens
    BY <1>3, <2>1 DEF TypeOK
  <2>5. /\ dek' \in [Clients -> {None} \cup Vault]
        /\ dek'[c] = IF opens THEN calls[c][1].key ELSE dek[c]
    BY <1>3, <2>1, <2>3 DEF TypeOK
  <2>6. opens \in BOOLEAN /\ opens = (screen.typed = vaults[screen.vault])
    BY <2>2
  <2> HIDE DEF opens
  <2>7. opens => kek'[c] = FALSE /\ dek'[c] = screen.vault /\ vaults[screen.vault] = screen.typed
    BY <2>2, <2>4, <2>5, <2>6
  <2>8. vaults' \in Seq(Passwords) /\ Len(vaults') <= MaxVaults /\ vaults' = vaults
    BY <1>3, <2>1 DEF TypeOK
  <2> QED
    BY <1>2, <2>1, <2>2, <2>4, <2>5, <2>6, <2>7, <2>8, AttemptEnds
<1>8. CASE DeriveFails(c, i)
  <2>1. /\ Post(c, 1, FALSE, None) /\ calls[c][1].stage # "done"
        /\ UNCHANGED <<screen, demo, stored, vaults, live, dek, kek>>
    BY <1>4, <1>8 DEF DeriveFails, Running
  <2>2. /\ vaults' \in Seq(Passwords) /\ Len(vaults') <= MaxVaults /\ vaults' = vaults
        /\ dek' \in [Clients -> {None} \cup Vault] /\ kek' \in [Clients -> BOOLEAN]
    BY <1>3, <2>1 DEF TypeOK
  <2> QED
    BY <1>2, <2>1, <2>2, AttemptEnds
<1>9. ~Lock(c, i) /\ ~Finish(c, i)
  BY <1>4 DEF Lock, Finish, Running
<1> QED
  BY <1>1, <1>5, <1>6, <1>7, <1>8, <1>9

-------------------------------------------------------------------------------
\* A handler of an engine that succeeded goes on with call i, which has begun.
Moved(c, i) ==
  /\ i # 1 /\ DOMAIN calls'[c] = DOMAIN calls[c]
  /\ \A j \in DOMAIN calls[c] :
       /\ calls'[c][j].op = calls[c][j].op /\ calls'[c][j].waiting = calls[c][j].waiting
       /\ j # i => /\ calls'[c][j].stage = calls[c][j].stage
                   /\ calls'[c][j].key = calls[c][j].key
  /\ calls'[c][i].stage # "sent"
  /\ calls[c][i].stage = "sent" =>
       \A j \in DOMAIN calls[c] : calls[c][j].stage = "sent" => i <= j
  /\ calls'[c][i].stage = "running" /\ calls[c][i].op = "encryptItem" =>
       calls'[c][i].key = screen.vault
  /\ kek'[c] = FALSE
  /\ dek'[c] = dek[c] \/ (dek'[c] = None /\ calls[c][i].op = "lock")

LEMMA Moves ==
  ASSUME IInv, NEW c \in Clients, c \in live, screen.kind \in Ready, NEW i \in DOMAIN calls[c],
         Moved(c, i), UNCHANGED screen
  PROVE  Begun(c)' /\ InOrder(c)' /\ Keyed(c)'
<1>1. Begun(c) /\ InOrder(c) /\ Keyed(c) /\ calls[c] \in Seq(Call)
  BY Located DEF Holding
<1>2. DOMAIN calls[c] \subseteq Nat
  BY <1>1
<1>3. Begun(c)'
  BY <1>1 DEF Begun, Moved
<1>4. InOrder(c)'
  BY <1>1, <1>2 DEF InOrder, Moved
<1>5. dek'[c] = screen.vault
        \/ (dek'[c] = None /\ \E j \in DOMAIN calls'[c] :
                                 calls'[c][j].op = "lock" /\ calls'[c][j].stage # "sent")
  <2>1. CASE dek'[c] = dek[c]
    BY <1>1, <2>1 DEF Keyed, Moved
  <2>2. CASE dek'[c] = None /\ calls[c][i].op = "lock"
    BY <2>2 DEF Moved
  <2> QED
    BY <2>1, <2>2 DEF Moved
<1>6. Keyed(c)'
  BY <1>1, <1>5 DEF Keyed, Moved
<1> QED
  BY <1>3, <1>4, <1>6

\* An answer is posted to call i of an engine that succeeded.
LEMMA Answers ==
  ASSUME IInv, NEW c \in Clients, c \in live, screen.kind \in Ready, NEW i \in DOMAIN calls[c],
         NEW ok \in BOOLEAN, NEW v \in {None} \cup Vault, Post(c, i, ok, v), i # 1,
         UNCHANGED <<screen, demo, stored, vaults, live>>,
         dek' \in [Clients -> {None} \cup Vault], kek' \in [Clients -> BOOLEAN],
         calls[c][i].stage = "sent" =>
           \A j \in DOMAIN calls[c] : calls[c][j].stage = "sent" => i <= j,
         kek'[c] = FALSE,
         dek'[c] = dek[c] \/ (dek'[c] = None /\ calls[c][i].op = "lock"),
         ~ok => \E j \in DOMAIN calls[c] : j < i /\ calls[c][j].op = "lock",
         ok /\ calls[c][i].op = "encryptItem" => v = screen.vault
  PROVE  IInv'
<1> DEFINE r == [id |-> i, ok |-> ok, vault |-> v]
<1>1. TypeOK /\ c \in Clients /\ c = screen.client /\ Holding(c) /\ calls[c] \in Seq(Call)
      /\ answers[c] \in Seq(Answer)
  BY Located DEF TypeOK
<1>2. Answered(c, i, ok, v)
  BY <1>1, Posted, Zenon
<1>3. /\ calls' \in [Clients -> Seq(Call)] /\ \A d \in Clients : Len(calls'[d]) <= MaxCalls
      /\ answers' \in [Clients -> Seq(Answer)]
      /\ DOMAIN calls'[c] = DOMAIN calls[c]
      /\ calls'[c][i] = [calls[c][i] EXCEPT !.stage = "done"]
      /\ \A j \in DOMAIN calls[c] : j # i => calls'[c][j] = calls[c][j]
      /\ answers'[c] = Append(answers[c], r) /\ r \in Answer
  BY <1>2 DEF Answered
<1>4. TypeOK'
  BY <1>1, <1>3 DEF TypeOK
<1>5. /\ r.id = i /\ r.ok = ok /\ r.vault = v
      /\ calls[c][i] \in Call
  BY <1>1
<1> HIDE DEF r
<1>6. /\ calls'[c][i].stage = "done" /\ calls'[c][i].op = calls[c][i].op
      /\ calls'[c][i].waiting = calls[c][i].waiting /\ calls'[c][i].key = calls[c][i].key
  BY <1>3, <1>5 DEF Call
<1>7. Moved(c, i)
  BY <1>3, <1>6 DEF Moved
<1>8. Begun(c)' /\ InOrder(c)' /\ Keyed(c)'
  BY <1>7, Moves, Zenon
<1>9. /\ DOMAIN answers'[c] = DOMAIN answers[c] \cup {Len(answers[c]) + 1}
      /\ answers'[c][Len(answers[c]) + 1] = r
      /\ \A a \in DOMAIN answers[c] : answers'[c][a] = answers[c][a]
  BY <1>1, <1>3, Appended
<1>10. /\ DOMAIN calls'[c] = DOMAIN calls[c]
       /\ \A j \in DOMAIN calls[c] : calls'[c][j].op = calls[c][j].op
  BY <1>3, <1>6
<1>11. Replied(c)'
  <2> SUFFICES ASSUME NEW a \in DOMAIN answers'[c]
      PROVE  /\ answers'[c][a].id \in DOMAIN calls[c]
             /\ ~answers'[c][a].ok =>
                  \E j \in DOMAIN calls[c] : j < answers'[c][a].id /\ calls[c][j].op = "lock"
             /\ answers'[c][a].ok /\ calls[c][answers'[c][a].id].op = "encryptItem" =>
                  answers'[c][a].vault = screen.vault
    BY <1>10 DEF Replied
  <2>1. CASE a \in DOMAIN answers[c]
    <3>1. answers'[c][a] = answers[c][a]
      BY <1>9, <2>1
    <3>2. Replied(c)
      BY <1>1 DEF Holding
    <3> QED
      BY <2>1, <3>1, <3>2 DEF Replied
  <2>2. CASE a = Len(answers[c]) + 1
    BY <1>5, <1>9, <2>2
  <2> QED
    BY <1>9, <2>1, <2>2
<1>12. OneEngine' /\ Known' /\ Kept'
  BY DEF IInv, OneEngine, Known, Kept
<1>13. screen.kind \notin Attempt
  BY DEF Attempt, Ready
<1> QED
  BY <1>1, <1>4, <1>8, <1>11, <1>12, <1>13 DEF IInv, Holding

\* The worker of an engine that succeeded.
LEMMA ReadyWorks ==
  ASSUME IInv, NEW c \in Clients, screen.kind \in Ready, Worker(c)
  PROVE  IInv'
<1>1. PICK i \in DOMAIN calls[c] :
        \/ Begin(c, i) \/ Lock(c, i)
        \/ CreateVault(c, i) \/ Unwrap(c, i) \/ DeriveFails(c, i) \/ Finish(c, i)
  BY DEF Worker
<1>2. c \in live
  BY <1>1 DEF Begin, Lock, NextSent, CreateVault, Unwrap, DeriveFails, Finish, Running
<1>3. /\ TypeOK /\ c = screen.client /\ calls[c] \in Seq(Call)
      /\ Begun(c) /\ InOrder(c) /\ Keyed(c) /\ Known
  BY <1>2, Located DEF Holding, IInv
<1>4. calls[c][i].stage # "done" /\ i # 1
  BY <1>1, <1>3 DEF Begin, Lock, NextSent, CreateVault, Unwrap, DeriveFails, Finish, Running, Begun
<1>5. calls[c][i].op \in {"encryptItem", "decryptItem", "lock"} /\ screen.kind = "open"
  BY <1>3, <1>4 DEF Begun
<1>6. calls[c][i] \in Call /\ i \in Nat /\ calls[c][i].key \in {None} \cup Vault
  <2>1. calls[c][i] \in Call /\ i \in Nat
    BY <1>3
  <2> QED
    BY <2>1 DEF Call
<1>7. dek[c] \in {None} \cup Vault /\ kek[c] = FALSE /\ screen.vault # None
  BY <1>3, <1>5 DEF TypeOK, Keyed, Known, Ready, None
<1>8. CASE Begin(c, i) /\ dek[c] = None
  <2>1. /\ Post(c, i, FALSE, None) /\ kek' = [kek EXCEPT ![c] = kek[c] \/ FALSE]
        /\ UNCHANGED <<screen, demo, stored, vaults, live, dek>>
        /\ NextSent(c, i) /\ calls[c][i].op # "lock"
    BY <1>5, <1>8 DEF Begin
  <2>2. kek' \in [Clients -> BOOLEAN] /\ kek'[c] = FALSE
    BY <1>3, <1>7, <2>1 DEF TypeOK
  <2>3. calls[c][i].stage = "sent" => \A j \in DOMAIN calls[c] : calls[c][j].stage = "sent" => i <= j
    BY <2>1 DEF NextSent
  <2>4. \E j \in DOMAIN calls[c] : j < i /\ calls[c][j].op = "lock"
    <3>1. PICK j \in DOMAIN calls[c] : calls[c][j].op = "lock" /\ calls[c][j].stage # "sent"
      BY <1>7, <1>8, <1>3 DEF Keyed
    <3>2. j # i /\ j \in Nat /\ ~(i < j)
      BY <1>3, <2>1, <3>1 DEF InOrder, NextSent
    <3> QED
      BY <1>6, <3>1, <3>2
  <2>5. dek' \in [Clients -> {None} \cup Vault] /\ dek'[c] = dek[c]
    BY <1>3, <2>1 DEF TypeOK
  <2>6. None \in {None} \cup Vault /\ FALSE \in BOOLEAN
    OBVIOUS
  <2> QED
    BY <1>2, <1>4, <2>1, <2>2, <2>3, <2>4, <2>5, <2>6, Answers, Zenon
<1>9. CASE Begin(c, i) /\ dek[c] # None
  <2> DEFINE key == IF calls[c][i].op = "encryptItem" THEN dek[c] ELSE calls[c][i].key
             r == [calls[c][i] EXCEPT !.stage = "running", !.key = key]
             t == [calls[c] EXCEPT ![i] = r]
  <2>1. /\ calls' = [calls EXCEPT ![c] = t] /\ answers' = answers
        /\ kek' = [kek EXCEPT ![c] = kek[c] \/ ~(calls[c][i].op \in {"encryptItem", "decryptItem"})]
        /\ UNCHANGED <<screen, demo, stored, vaults, live, dek>>
        /\ NextSent(c, i) /\ calls[c][i].op # "lock"
    BY <1>9 DEF Begin
  <2>2. key \in {None} \cup Vault
    BY <1>6, <1>7
  <2>3. calls[c][i].op = "encryptItem" => key = screen.vault
    BY <1>3, <1>9 DEF Keyed
  <2> HIDE DEF key
  <2>4. r \in Call
    BY <1>6, <2>2, Shapes
  <2>5. /\ r.stage = "running" /\ r.op = calls[c][i].op /\ r.key = key
        /\ r.waiting = calls[c][i].waiting
    BY <1>6 DEF Call
  <2> HIDE DEF r
  <2>6. /\ t \in Seq(Call) /\ Len(t) = Len(calls[c]) /\ DOMAIN t = DOMAIN calls[c] /\ t[i] = r
        /\ \A j \in DOMAIN calls[c] : j # i => t[j] = calls[c][j]
    BY <1>3, <2>4, Replaced
  <2> HIDE DEF t
  <2>7. /\ calls' \in [Clients -> Seq(Call)] /\ \A d \in Clients : Len(calls'[d]) <= MaxCalls
        /\ calls'[c] = t
    BY <1>3, <2>1, <2>6, CallsOf DEF TypeOK
  <2>8. kek' \in [Clients -> BOOLEAN] /\ kek'[c] = FALSE
    BY <1>3, <1>5, <1>7, <2>1 DEF TypeOK
  <2>9. TypeOK'
    BY <1>3, <2>1, <2>7, <2>8 DEF TypeOK
  <2>10. Moved(c, i)
    BY <1>4, <2>1, <2>3, <2>5, <2>6, <2>7, <2>8 DEF Moved, NextSent
  <2>11. Begun(c)' /\ InOrder(c)' /\ Keyed(c)'
    BY <1>2, <2>1, <2>10, Moves, Zenon
  <2>12. /\ DOMAIN calls'[c] = DOMAIN calls[c]
         /\ \A j \in DOMAIN calls[c] : calls'[c][j].op = calls[c][j].op
    BY <2>5, <2>6, <2>7
  <2>13. Replied(c)'
    <3>1. Replied(c)
      BY <1>2, Located DEF Holding
    <3> QED
      BY <2>1, <2>12, <3>1 DEF Replied
  <2>14. OneEngine' /\ Known' /\ Kept'
    BY <2>1 DEF IInv, OneEngine, Known, Kept
  <2> QED
    BY <1>3, <1>5, <2>1, <2>9, <2>11, <2>13, <2>14 DEF IInv, Holding, Attempt
<1>10. CASE Lock(c, i)
  <2>1. /\ Post(c, i, TRUE, None) /\ dek' = [dek EXCEPT ![c] = None]
        /\ UNCHANGED <<screen, demo, stored, vaults, live, kek>>
        /\ NextSent(c, i) /\ calls[c][i].op = "lock"
    BY <1>10 DEF Lock
  <2>2. dek' \in [Clients -> {None} \cup Vault] /\ dek'[c] = None
    BY <1>3, <2>1 DEF TypeOK
  <2>3. calls[c][i].stage = "sent" => \A j \in DOMAIN calls[c] : calls[c][j].stage = "sent" => i <= j
    BY <2>1 DEF NextSent
  <2>4. kek' \in [Clients -> BOOLEAN] /\ kek'[c] = FALSE
    BY <1>3, <1>7, <2>1 DEF TypeOK
  <2>5. None \in {None} \cup Vault /\ TRUE \in BOOLEAN /\ calls[c][i].op # "encryptItem"
    BY <2>1
  <2> QED
    BY <1>2, <1>4, <2>1, <2>2, <2>3, <2>4, <2>5, Answers, Zenon
<1>11. CASE Finish(c, i)
  <2>1. /\ Post(c, i, TRUE, calls[c][i].key) /\ calls[c][i].stage = "running"
        /\ UNCHANGED <<screen, demo, stored, vaults, live, dek, kek>>
    BY <1>11 DEF Finish, Running
  <2>2. calls[c][i].op = "encryptItem" => calls[c][i].key = screen.vault
    BY <1>3, <2>1 DEF Keyed
  <2>3. /\ dek' \in [Clients -> {None} \cup Vault] /\ dek'[c] = dek[c]
        /\ kek' \in [Clients -> BOOLEAN] /\ kek'[c] = FALSE
    BY <1>3, <1>7, <2>1 DEF TypeOK
  <2>4. TRUE \in BOOLEAN /\ calls[c][i].stage # "sent"
    BY <2>1
  <2>5. UNCHANGED <<screen, demo, stored, vaults, live>>
    BY <2>1
  <2> QED
    BY <1>2, <1>4, <1>6, <2>1, <2>2, <2>3, <2>4, <2>5, Answers, Zenon
<1>12. ~CreateVault(c, i) /\ ~Unwrap(c, i) /\ ~DeriveFails(c, i)
  BY <1>5 DEF CreateVault, Unwrap, DeriveFails, Running
<1> QED
  BY <1>1, <1>8, <1>9, <1>10, <1>11, <1>12

-------------------------------------------------------------------------------
\* An attempt that succeeds leaves an engine whose first call is over.
LEMMA Succeeds ==
  ASSUME IInv, TypeOK', NEW c \in Clients, c = screen.client, c = screen'.client,
         screen'.kind \in {"saving", "open"}, screen'.typed = screen.typed,
         screen'.loadFailed = screen.loadFailed,
         screen'.kind = "saving" => screen.kind = "creating",
         screen.kind \in Attempt, live = {c}, UNCHANGED <<live, demo, stored, vaults, dek, kek>>,
         kek[c] = FALSE, dek[c] = screen'.vault,
         screen'.vault \in DOMAIN vaults, vaults[screen'.vault] = screen.typed,
         answers'[c] = << >>,
         1 \in DOMAIN calls'[c], calls'[c][1].stage = "done", calls'[c][1].waiting = FALSE,
         calls'[c][1].op \in {"createNewVault", "unlockWithPassword"},
         \A i \in DOMAIN calls'[c] : i # 1 =>
           /\ screen'.kind = "open" /\ calls'[c][i].op = "encryptItem"
           /\ calls'[c][i].stage = "sent" /\ i = 2
  PROVE  IInv'
<1>1. screen'.kind \in Ready /\ screen'.kind \notin Forms /\ screen'.kind \notin Attempt
  BY DEF Ready, Forms, Attempt
<1>2. demo = None /\ screen.typed \in Passwords /\ screen.kind \notin Forms
  BY DEF IInv, Known, Attempt, Forms
<1>3. OneEngine' /\ Known'
  BY <1>1, <1>2 DEF OneEngine, Known
<1>4. Kept'
  BY <1>2 DEF IInv, Kept
<1>5. Begun(c)'
  BY DEF Begun
<1>6. InOrder(c)'
  <2>1. \A i \in DOMAIN calls'[c] : i = 1 \/ (i = 2 /\ calls'[c][i].stage = "sent")
    OBVIOUS
  <2> QED
    BY <2>1 DEF InOrder
<1>7. Keyed(c)'
  BY DEF Keyed
<1>8. Replied(c)'
  BY DEF Replied
<1> QED
  BY <1>1, <1>3, <1>4, <1>5, <1>6, <1>7, <1>8 DEF IInv, Holding

\* An answer reaches an attempt.
LEMMA AttemptAnswered ==
  ASSUME IInv, NEW c \in Clients, screen.kind \in Attempt, Deliver(c)
  PROVE  IInv'
<1>1. c \in live /\ answers[c] # << >>
  BY DEF Deliver, CreateAnswered, UnlockAnswered, EncryptAnswered, DecryptAnswered,
         LockAnswered, Stale, Settles, Arrives
<1>2. /\ TypeOK /\ c = screen.client /\ Trying(c) /\ screen.kind \in {"creating", "unlocking"}
      /\ calls[c] \in Seq(Call) /\ answers[c] \in Seq(Answer) /\ live = {c}
  BY <1>1, Located DEF Attempt, IInv, OneEngine, Forms
<1>3. /\ Len(calls[c]) = 1 /\ Len(answers[c]) = 1 /\ calls[c][1].stage = "done"
      /\ calls[c][1].waiting /\ calls[c][1].op = Expected
      /\ Front(c) = answers[c][1] /\ Front(c).id = 1 /\ Truthful(answers[c][1], c)
      /\ Front(c) \in Answer
  <2>1. calls[c][1].stage = "done" /\ Len(answers[c]) = 1 /\ Truthful(answers[c][1], c)
    BY <1>1, <1>2 DEF Trying
  <2>2. Front(c) = answers[c][1] /\ Front(c) \in Answer
    BY <1>1, <1>2, Dequeued DEF Front
  <2> QED
    BY <1>2, <2>1, <2>2 DEF Trying, Truthful
<1>4. Tail(answers[c]) = << >> /\ Tail(answers[c]) \in Seq(Answer)
  BY <1>2, <1>3, Emptied, EmptySeq
<1>5. /\ ~Stale(c) /\ ~EncryptAnswered(c) /\ ~DecryptAnswered(c) /\ ~LockAnswered(c)
      /\ CreateAnswered(c) => screen.kind = "creating"
      /\ UnlockAnswered(c) => screen.kind = "unlocking"
  BY <1>2, <1>3 DEF Stale, EncryptAnswered, DecryptAnswered, LockAnswered, CreateAnswered,
                    UnlockAnswered, Settles, Expected
<1>6. CASE ~Front(c).ok
  <2>1. /\ Terminate(screen.client) /\ UNCHANGED <<demo, stored, vaults>>
        /\ screen' = Form(IF screen.kind = "unlocking" THEN "unlock" ELSE "create")
    BY <1>2, <1>5, <1>6 DEF Deliver, CreateAnswered, UnlockAnswered
  <2>2. screen.kind \in Attempt \cup {"saving"}
    OBVIOUS
  <2> QED
    BY <2>1, <2>2, GivesUp
<1>7. calls[c][1] \in Call /\ 1 \in DOMAIN calls[c] /\ DOMAIN calls[c] = {1}
  BY <1>2, <1>3
<1>8. Front(c).vault \in {None} \cup Vault /\ screen.typed \in Passwords
  BY <1>2, <1>3 DEF Answer, IInv, Known, Forms
<1>9. CASE Front(c).ok /\ CreateAnswered(c)
  <2> DEFINE r == [calls[c][1] EXCEPT !.waiting = FALSE]
             t == [calls[c] EXCEPT ![1] = r]
  <2>1. /\ screen' = [screen EXCEPT !.kind = "saving", !.vault = Front(c).vault]
        /\ calls' = [calls EXCEPT ![c] = t]
        /\ answers' = [answers EXCEPT ![c] = Tail(answers[c])]
        /\ UNCHANGED <<live, demo, stored, vaults, dek, kek>> /\ screen.kind = "creating"
    BY <1>3, <1>5, <1>9 DEF CreateAnswered, Settled
  <2>2. /\ r \in Call /\ r.waiting = FALSE /\ r.stage = "done" /\ r.op = "createNewVault"
    BY <1>3, <1>7, <2>1 DEF Call, Expected
  <2> HIDE DEF r
  <2>3. t \in Seq(Call) /\ Len(t) = 1 /\ DOMAIN t = {1} /\ t[1] = r
    BY <1>2, <1>3, <1>7, <2>2, Replaced
  <2> HIDE DEF t
  <2>4. /\ calls' \in [Clients -> Seq(Call)] /\ \A d \in Clients : Len(calls'[d]) <= MaxCalls
        /\ calls'[c] = t
    <3>1. Len(t) <= MaxCalls /\ t \in Seq(Call)
      BY <2>3, SessionAssumption
    <3> QED
      BY <1>2, <2>1, <2>3, <3>1, CallsOf, ZenonT(30)
  <2>5. answers' \in [Clients -> Seq(Answer)] /\ answers'[c] = << >>
    BY <1>2, <1>4, <2>1 DEF TypeOK
  <2>6. /\ screen' \in Screen /\ screen'.kind = "saving" /\ screen'.vault = Front(c).vault
        /\ screen'.client = c /\ screen'.typed = screen.typed
        /\ screen'.loadFailed = screen.loadFailed
    BY <1>2, <1>8, <2>1 DEF TypeOK, Screen, Kinds
  <2>7. TypeOK'
    BY <1>2, <2>1, <2>4, <2>5, <2>6 DEF TypeOK
  <2>8. /\ kek[c] = FALSE /\ dek[c] = screen'.vault /\ screen'.vault \in DOMAIN vaults
        /\ vaults[screen'.vault] = screen.typed
    BY <1>3, <1>9, <2>1, <2>6 DEF Truthful
  <2> QED
    BY <1>2, <2>1, <2>2, <2>3, <2>4, <2>5, <2>6, <2>7, <2>8, Succeeds
<1>10. CASE Front(c).ok /\ UnlockAnswered(c)
  <2> DEFINE r == [calls[c][1] EXCEPT !.waiting = FALSE]
             n == NewCall("encryptItem", None)
             t == <<r, n>>
  <2>1. /\ screen' = [screen EXCEPT !.kind = "open"]
        /\ calls' = [calls EXCEPT ![c] = t]
        /\ answers' = [answers EXCEPT ![c] = Tail(answers[c])]
        /\ UNCHANGED <<live, demo, stored, vaults, dek, kek>> /\ screen.kind = "unlocking"
    BY <1>3, <1>5, <1>10 DEF UnlockAnswered
  <2>2. /\ r \in Call /\ r.waiting = FALSE /\ r.stage = "done" /\ r.op = "unlockWithPassword"
    BY <1>3, <1>7, <2>1 DEF Call, Expected
  <2>3. n \in Call /\ n.op = "encryptItem" /\ n.stage = "sent"
    BY DEF NewCall, Call, Ops
  <2> HIDE DEF r, n
  <2>4. t \in Seq(Call) /\ Len(t) = 2 /\ DOMAIN t = {1, 2} /\ t[1] = r /\ t[2] = n
    BY <2>2, <2>3
  <2> HIDE DEF t
  <2>5. Len(t) <= MaxCalls /\ t \in Seq(Call)
    BY <2>4, SessionAssumption
  <2>6. /\ calls' \in [Clients -> Seq(Call)] /\ \A d \in Clients : Len(calls'[d]) <= MaxCalls
        /\ calls'[c] = t
    BY <1>2, <2>1, <2>5, CallsOf, ZenonT(30)
  <2>7. answers' \in [Clients -> Seq(Answer)] /\ answers'[c] = << >>
    BY <1>2, <1>4, <2>1 DEF TypeOK
  <2>8. /\ screen' \in Screen /\ screen'.kind = "open" /\ screen'.vault = screen.vault
        /\ screen'.client = c /\ screen'.typed = screen.typed
        /\ screen'.loadFailed = screen.loadFailed
    BY <1>2, <2>1 DEF TypeOK, Screen, Kinds
  <2>9. TypeOK'
    BY <1>2, <2>1, <2>6, <2>7, <2>8 DEF TypeOK
  <2>10. /\ kek[c] = FALSE /\ dek[c] = screen'.vault /\ screen'.vault \in DOMAIN vaults
         /\ vaults[screen'.vault] = screen.typed
    BY <1>3, <1>10, <2>1, <2>8 DEF Truthful
  <2> QED
    BY <1>2, <2>1, <2>2, <2>3, <2>4, <2>6, <2>7, <2>8, <2>9, <2>10, Succeeds
<1> QED
  BY <1>5, <1>6, <1>9, <1>10 DEF Deliver

-------------------------------------------------------------------------------
\* Calls of an engine that succeeded stop waiting, whichever they are, and answers in
\* front may be taken off.
Relieved(c) ==
  /\ DOMAIN calls'[c] = DOMAIN calls[c]
  /\ \A j \in DOMAIN calls[c] :
       /\ calls'[c][j].op = calls[c][j].op /\ calls'[c][j].stage = calls[c][j].stage
       /\ calls'[c][j].key = calls[c][j].key
       /\ calls'[c][j].waiting => calls[c][j].waiting
       /\ calls'[c][j].waiting \in BOOLEAN
  /\ \A a \in DOMAIN answers'[c] :
       \E b \in DOMAIN answers[c] : answers'[c][a] = answers[c][b]

LEMMA Relieves ==
  ASSUME IInv, TypeOK', NEW c \in Clients, c \in live, screen.kind \in Ready, Relieved(c),
         UNCHANGED <<screen, stored, vaults, live, dek, kek>>,
         demo' = demo \/ (screen.kind = "open" /\ demo' = screen.vault)
  PROVE  IInv'
<1>1. c = screen.client /\ Begun(c) /\ InOrder(c) /\ Keyed(c) /\ Replied(c)
  BY Located DEF Holding
<1>2. Begun(c)'
  <2>1. 1 \in DOMAIN calls'[c] /\ calls'[c][1].waiting \in BOOLEAN /\ ~calls'[c][1].waiting
    BY <1>1 DEF Begun, Relieved
  <2>2. calls'[c][1].waiting = FALSE
    BY <2>1, Zenon
  <2> QED
    BY <1>1, <2>1, <2>2 DEF Begun, Relieved
<1>3. InOrder(c)'
  BY <1>1 DEF InOrder, Relieved
<1>4. Keyed(c)'
  BY <1>1 DEF Keyed, Relieved
<1>5. Replied(c)'
  BY <1>1 DEF Replied, Relieved
<1>6. OneEngine' /\ Known' /\ Kept'
  BY DEF IInv, OneEngine, Known, Kept
<1>7. screen.kind \notin Attempt
  BY DEF Attempt, Ready
<1> QED
  BY <1>1, <1>2, <1>3, <1>4, <1>5, <1>6, <1>7 DEF IInv, Holding

\* A message at the front of the answers is taken off and settles its call.
LEMMA Settling ==
  ASSUME TypeOK, NEW c \in Clients, answers[c] # << >>, Front(c).id \in DOMAIN calls[c],
         Settled(c)
  PROVE  /\ Relieved(c)
         /\ calls' \in [Clients -> Seq(Call)] /\ \A d \in Clients : Len(calls'[d]) <= MaxCalls
         /\ answers' \in [Clients -> Seq(Answer)]
<1> DEFINE i == Front(c).id
           r == [calls[c][i] EXCEPT !.waiting = FALSE]
           t == [calls[c] EXCEPT ![i] = r]
<1>1. calls[c] \in Seq(Call) /\ Len(calls[c]) <= MaxCalls /\ answers[c] \in Seq(Answer)
  BY DEF TypeOK
<1>2. calls' = [calls EXCEPT ![c] = t] /\ answers' = [answers EXCEPT ![c] = Tail(answers[c])]
  BY DEF Settled
<1> HIDE DEF i
<1>3. i \in DOMAIN calls[c] /\ calls[c][i] \in Call
  BY <1>1 DEF i
<1>4. /\ r \in Call /\ r.waiting = FALSE /\ r.stage = calls[c][i].stage
      /\ r.op = calls[c][i].op /\ r.key = calls[c][i].key
  BY <1>3 DEF Call
<1> HIDE DEF r
<1>5. /\ t \in Seq(Call) /\ Len(t) = Len(calls[c]) /\ DOMAIN t = DOMAIN calls[c] /\ t[i] = r
      /\ \A j \in DOMAIN calls[c] : j # i => t[j] = calls[c][j]
  BY <1>1, <1>3, <1>4, Replaced
<1> HIDE DEF t
<1>6. /\ calls' \in [Clients -> Seq(Call)] /\ \A d \in Clients : Len(calls'[d]) <= MaxCalls
      /\ calls'[c] = t
  BY <1>1, <1>2, <1>5, CallsOf
<1>7. /\ Tail(answers[c]) \in Seq(Answer)
      /\ \A a \in DOMAIN Tail(answers[c]) :
           a + 1 \in DOMAIN answers[c] /\ Tail(answers[c])[a] = answers[c][a + 1]
  BY <1>1, Dequeued
<1>8. answers' \in [Clients -> Seq(Answer)] /\ answers'[c] = Tail(answers[c])
  BY <1>2, <1>7 DEF TypeOK
<1>9. \A a \in DOMAIN answers'[c] : \E b \in DOMAIN answers[c] : answers'[c][a] = answers[c][b]
  BY <1>7, <1>8
<1>10. \A j \in DOMAIN calls[c] : calls[c][j].waiting \in BOOLEAN
  <2>1. \A j \in DOMAIN calls[c] : calls[c][j] \in Call
    BY <1>1
  <2> QED
    BY <2>1 DEF Call
<1>11. \A j \in DOMAIN calls[c] :
         /\ calls'[c][j].waiting => calls[c][j].waiting
         /\ calls'[c][j].waiting \in BOOLEAN
  BY <1>4, <1>5, <1>6, <1>10, Zenon
<1>12. Relieved(c)
  BY <1>4, <1>5, <1>6, <1>9, <1>11 DEF Relieved
<1> QED
  BY <1>6, <1>8, <1>12

\* An answer reaches an engine that succeeded.
LEMMA ReadyAnswered ==
  ASSUME IInv, NEW c \in Clients, screen.kind \in Ready, Deliver(c)
  PROVE  IInv'
<1>1. c \in live /\ answers[c] # << >>
  BY DEF Deliver, CreateAnswered, UnlockAnswered, EncryptAnswered, DecryptAnswered,
         LockAnswered, Stale, Settles, Arrives
<1>2. /\ TypeOK /\ c = screen.client /\ Begun(c) /\ Replied(c) /\ live = {c}
      /\ calls[c] \in Seq(Call) /\ answers[c] \in Seq(Answer)
  BY <1>1, Located DEF Holding, IInv, OneEngine, Forms
<1>3. /\ 1 \in DOMAIN answers[c] /\ Front(c) = answers[c][1] /\ Front(c) \in Answer
      /\ Front(c).id \in DOMAIN calls[c]
      /\ Front(c).ok /\ calls[c][Front(c).id].op = "encryptItem" => Front(c).vault = screen.vault
  <2>1. 1 \in DOMAIN answers[c] /\ Front(c) = answers[c][1] /\ Front(c) \in Answer
    BY <1>1, <1>2, Dequeued DEF Front
  <2> QED
    BY <1>2, <2>1 DEF Replied
<1>4. ~CreateAnswered(c) /\ ~UnlockAnswered(c)
  BY <1>2, <1>3 DEF CreateAnswered, UnlockAnswered, Settles, Begun
<1>5. Front(c).vault \in {None} \cup Vault
  BY <1>3 DEF Answer
<1>6. CASE EncryptAnswered(c)
  <2>1. /\ Settled(c) /\ calls[c][Front(c).id].op = "encryptItem"
        /\ demo' = IF Front(c).ok THEN Front(c).vault ELSE demo
        /\ UNCHANGED <<screen, stored, vaults, live, dek, kek>>
    BY <1>6 DEF EncryptAnswered, Settles
  <2>2. screen.kind = "open"
    BY <1>2, <1>3, <2>1 DEF Begun
  <2>3. demo' \in {None} \cup Vault /\ (demo' = demo \/ (screen.kind = "open" /\ demo' = screen.vault))
    BY <1>2, <1>3, <1>5, <2>1, <2>2 DEF TypeOK
  <2>4. /\ Relieved(c)
        /\ calls' \in [Clients -> Seq(Call)] /\ \A d \in Clients : Len(calls'[d]) <= MaxCalls
        /\ answers' \in [Clients -> Seq(Answer)]
    BY <1>1, <1>2, <1>3, <2>1, Settling, Zenon
  <2>5. TypeOK'
    BY <1>2, <2>1, <2>3, <2>4 DEF TypeOK
  <2>6. UNCHANGED <<screen, stored, vaults, live, dek, kek>>
    BY <2>1
  <2> QED
    BY <1>1, <2>3, <2>4, <2>5, <2>6, Relieves, Zenon
<1>7. CASE DecryptAnswered(c)
  <2>1. Settled(c) /\ UNCHANGED <<screen, demo, stored, vaults, live, dek, kek>>
    BY <1>7 DEF DecryptAnswered
  <2>2. /\ Relieved(c)
        /\ calls' \in [Clients -> Seq(Call)] /\ \A d \in Clients : Len(calls'[d]) <= MaxCalls
        /\ answers' \in [Clients -> Seq(Answer)]
    BY <1>1, <1>2, <1>3, <2>1, Settling, Zenon
  <2>3. TypeOK'
    BY <1>2, <2>1, <2>2 DEF TypeOK
  <2>4. demo' = demo /\ UNCHANGED <<screen, stored, vaults, live, dek, kek>>
    BY <2>1
  <2> QED
    BY <1>1, <2>2, <2>3, <2>4, Relieves, Zenon
<1>8. CASE Stale(c)
  <2>1. /\ answers' = [answers EXCEPT ![c] = Tail(answers[c])] /\ calls' = calls
        /\ UNCHANGED <<screen, demo, stored, vaults, live, dek, kek>>
    BY <1>8 DEF Stale
  <2>2. /\ Tail(answers[c]) \in Seq(Answer)
        /\ \A a \in DOMAIN Tail(answers[c]) :
             a + 1 \in DOMAIN answers[c] /\ Tail(answers[c])[a] = answers[c][a + 1]
    BY <1>1, <1>2, Dequeued
  <2>3. answers' \in [Clients -> Seq(Answer)] /\ answers'[c] = Tail(answers[c])
    BY <1>2, <2>1, <2>2 DEF TypeOK
  <2>4. TypeOK'
    BY <1>2, <2>1, <2>3 DEF TypeOK
  <2>5. \A a \in DOMAIN answers'[c] : \E b \in DOMAIN answers[c] : answers'[c][a] = answers[c][b]
    BY <2>2, <2>3
  <2>6. \A j \in DOMAIN calls[c] : calls[c][j].waiting \in BOOLEAN
    <3>1. \A j \in DOMAIN calls[c] : calls[c][j] \in Call
      BY <1>2
    <3> QED
      BY <3>1 DEF Call
  <2>7. Relieved(c)
    BY <2>1, <2>5, <2>6, Zenon DEF Relieved
  <2>8. demo' = demo /\ UNCHANGED <<screen, stored, vaults, live, dek, kek>>
    BY <2>1
  <2> QED
    BY <1>1, <2>4, <2>7, <2>8, Relieves, Zenon
<1>9. CASE LockAnswered(c)
  <2>1. /\ Terminate(c) /\ screen' = Checking /\ demo' = None /\ UNCHANGED <<stored, vaults>>
    BY <1>9 DEF LockAnswered
  <2>2. screen' \in Screen /\ screen'.kind = "checking"
    BY <2>1 DEF Checking, Screen, Kinds
  <2>3. TypeOK'
    BY <1>2, <2>1, <2>2, Terminated DEF TypeOK
  <2>4. live' = {}
    BY <1>2, <2>1 DEF Terminate
  <2> QED
    BY <2>1, <2>2, <2>3, <2>4, ToForm DEF Forms
<1> QED
  BY <1>4, <1>6, <1>7, <1>8, <1>9 DEF Deliver

\* The worker fails: an attempt gives up, an engine that succeeded forgets its calls.
LEMMA Fails ==
  ASSUME IInv, NEW c \in Clients, WorkerError(c)
  PROVE  IInv'
<1>1. /\ c \in live /\ TypeOK /\ c = screen.client /\ screen.kind \in Attempt \cup Ready
      /\ calls[c] \in Seq(Call)
  BY Located DEF WorkerError
<1>2. CASE screen.kind \in Attempt
  <2>1. /\ Terminate(screen.client) /\ UNCHANGED <<demo, stored, vaults>>
        /\ screen' = Form(IF screen.kind = "unlocking" THEN "unlock" ELSE "create")
    BY <1>1, <1>2 DEF WorkerError, Attempt
  <2>2. screen.kind \in Attempt \cup {"saving"}
    BY <1>2
  <2> QED
    BY <2>1, <2>2, GivesUp
<1>3. CASE screen.kind \in Ready
  <2> DEFINE t == [i \in DOMAIN calls[c] |-> [calls[c][i] EXCEPT !.waiting = FALSE]]
  <2>1. /\ calls' = [calls EXCEPT ![c] = t]
        /\ UNCHANGED <<screen, demo, stored, vaults, live, dek, kek, answers>>
    BY <1>3 DEF WorkerError, Rejected, Ready
  <2>2. \A i \in DOMAIN calls[c] : calls[c][i] \in Call
    BY <1>1
  <2>3. \A i \in DOMAIN calls[c] :
          LET r == [calls[c][i] EXCEPT !.waiting = FALSE] IN
          /\ r \in Call /\ r.waiting = FALSE /\ r.stage = calls[c][i].stage
          /\ r.op = calls[c][i].op /\ r.key = calls[c][i].key
    BY <2>2 DEF Call
  <2>4. /\ DOMAIN t = DOMAIN calls[c] /\ t \in Seq(Call) /\ Len(t) = Len(calls[c])
        /\ \A i \in DOMAIN calls[c] :
             /\ t[i].waiting = FALSE /\ t[i].stage = calls[c][i].stage
             /\ t[i].op = calls[c][i].op /\ t[i].key = calls[c][i].key
    <3>1. DOMAIN calls[c] = 1 .. Len(calls[c]) /\ Len(calls[c]) \in Nat
      BY <1>1
    <3>2. t \in [1 .. Len(calls[c]) -> Call]
      BY <2>3, <3>1
    <3>3. t \in Seq(Call) /\ Len(t) = Len(calls[c])
      BY <3>1, <3>2
    <3> QED
      BY <2>3, <3>3
  <2> HIDE DEF t
  <2>5. /\ calls' \in [Clients -> Seq(Call)] /\ \A d \in Clients : Len(calls'[d]) <= MaxCalls
        /\ calls'[c] = t
    BY <1>1, <2>1, <2>4, CallsOf DEF TypeOK
  <2>6. TypeOK'
    BY <1>1, <2>1, <2>5 DEF TypeOK
  <2>7. Relieved(c)
    BY <2>1, <2>4, <2>5 DEF Relieved
  <2>8. demo' = demo /\ UNCHANGED <<screen, stored, vaults, live, dek, kek>>
    BY <2>1
  <2> QED
    BY <1>1, <1>3, <2>6, <2>7, <2>8, Relieves, Zenon
<1> QED
  BY <1>1, <1>2, <1>3

\* The open session sends a call.
LEMMA Sends ==
  ASSUME IInv, NEW c \in Clients, c = screen.client, NEW op \in {"encryptItem", "decryptItem", "lock"},
         NEW key \in {None} \cup Vault, screen.kind \in {"recovery-kit", "open"}, Send(c, op, key),
         screen' = [screen EXCEPT !.kind = "open"],
         UNCHANGED <<demo, stored, vaults, live, dek, kek, answers>>
  PROVE  IInv'
<1> DEFINE n == NewCall(op, key)
           t == Append(calls[c], n)
<1>1. screen.kind \in Ready /\ screen.kind \notin Forms
  BY DEF Ready, Forms
<1>2. TypeOK /\ c \in live /\ live = {c}
  BY <1>1 DEF IInv, OneEngine
<1>3. /\ calls[c] \in Seq(Call) /\ Begun(c) /\ InOrder(c) /\ Keyed(c) /\ Replied(c)
  BY <1>1, <1>2, Located DEF Holding
<1>4. /\ Len(calls[c]) < MaxCalls /\ calls' = [calls EXCEPT ![c] = t]
  BY DEF Send
<1>5. n \in Call /\ n.op = op /\ n.stage = "sent"
  BY DEF NewCall, Call, Ops
<1>6. /\ screen' \in Screen /\ screen'.kind = "open" /\ screen'.client = c
      /\ screen'.vault = screen.vault /\ screen'.typed = screen.typed
  BY <1>2 DEF TypeOK, Screen, Kinds
<1> HIDE DEF n
<1>7. /\ t \in Seq(Call) /\ Len(t) = Len(calls[c]) + 1 /\ t[Len(calls[c]) + 1] = n
      /\ DOMAIN t = DOMAIN calls[c] \cup {Len(calls[c]) + 1}
      /\ \A j \in DOMAIN calls[c] : t[j] = calls[c][j]
  BY <1>3, <1>5, Appended
<1> HIDE DEF t
<1>8. Len(t) <= MaxCalls /\ \A j \in DOMAIN calls[c] : j \in Nat /\ 1 <= j /\ j < Len(calls[c]) + 1
  BY <1>3, <1>4, <1>7, SessionAssumption
<1>9. /\ calls' \in [Clients -> Seq(Call)] /\ \A d \in Clients : Len(calls'[d]) <= MaxCalls
      /\ calls'[c] = t
  BY <1>2, <1>4, <1>7, <1>8, CallsOf
<1>10. TypeOK'
  BY <1>2, <1>6, <1>9 DEF TypeOK
<1>11. Begun(c)'
  BY <1>3, <1>5, <1>6, <1>7, <1>9 DEF Begun
<1>12. InOrder(c)'
  <2>1. Len(calls[c]) \in Nat
    BY <1>3
  <2> SUFFICES ASSUME NEW i \in DOMAIN t, NEW j \in DOMAIN t, i < j, t[i].stage = "sent"
      PROVE  t[j].stage = "sent"
    BY <1>9 DEF InOrder
  <2>2. CASE j = Len(calls[c]) + 1
    BY <1>5, <1>7, <2>2
  <2>3. CASE j \in DOMAIN calls[c]
    <3>1. i \in DOMAIN calls[c]
      BY <1>7, <1>8, <2>1, <2>3
    <3> QED
      BY <1>3, <1>7, <2>3, <3>1 DEF InOrder
  <2> QED
    BY <1>7, <2>2, <2>3
<1>13. Keyed(c)'
  BY <1>3, <1>5, <1>6, <1>7, <1>9 DEF Keyed
<1>14. Replied(c)'
  <2>1. \A j \in DOMAIN calls[c] :
          j \in DOMAIN calls'[c] /\ calls'[c][j].op = calls[c][j].op
    BY <1>7, <1>9
  <2>2. answers' = answers /\ screen'.vault = screen.vault
    BY <1>6
  <2> QED
    BY <1>3, <2>1, <2>2, SMTT(30) DEF Replied
<1>15. OneEngine'
  BY <1>2, <1>6 DEF OneEngine, Forms
<1>16. Known'
  BY <1>1, <1>6 DEF IInv, Known, Ready, Forms
<1>17. Kept'
  BY <1>6 DEF Kept
<1> QED
  BY <1>6, <1>10, <1>11, <1>12, <1>13, <1>14, <1>15, <1>16, <1>17 DEF IInv, Holding, Attempt

-------------------------------------------------------------------------------
\* The store answers, or the app restarts.
LEMMA Stores ==
  ASSUME IInv, Load \/ LoadFails \/ Saved \/ SaveFails \/ Restart
  PROVE  IInv'
<1>1. TypeOK /\ OneEngine /\ Known /\ Kept
  BY DEF IInv
<1>2. CASE Load
  <2> DEFINE kind == IF stored = None THEN "create" ELSE "unlock"
  <2>1. /\ screen' = [screen EXCEPT !.kind = kind, !.vault = stored] /\ screen.kind = "checking"
        /\ UNCHANGED <<demo, stored, vaults, live, dek, kek, calls, answers>>
    BY <1>2 DEF Load, engine
  <2>2. kind \in {"create", "unlock"} /\ (kind = "create" <=> stored = None)
    OBVIOUS
  <2> HIDE DEF kind
  <2>3. stored \in {None} \cup Vault
    BY <1>1, SessionAssumption DEF TypeOK, Vault
  <2>4. /\ screen' \in Screen /\ screen'.kind = kind /\ screen'.vault = stored
    BY <1>1, <2>1, <2>2, <2>3 DEF TypeOK, Screen, Kinds
  <2>5. TypeOK'
    BY <1>1, <2>1, <2>4 DEF TypeOK
  <2>6. live' = {} /\ demo' = None
    BY <1>1, <2>1 DEF OneEngine, Known, Forms
  <2>7. kind = "unlock" => stored \in DOMAIN vaults
    BY <1>1, <2>2 DEF TypeOK
  <2> QED
    BY <2>1, <2>2, <2>4, <2>5, <2>6, <2>7, ToForm DEF Forms
<1>3. CASE LoadFails
  <2>1. /\ screen' = [screen EXCEPT !.kind = "create", !.loadFailed = TRUE]
        /\ UNCHANGED <<demo, stored, vaults, live, dek, kek, calls, answers>>
        /\ screen.kind = "checking"
    BY <1>3 DEF LoadFails, engine
  <2>2. screen' \in Screen /\ screen'.kind = "create" /\ screen'.loadFailed
    BY <1>1, <2>1 DEF TypeOK, Screen, Kinds
  <2>3. TypeOK'
    BY <1>1, <2>1, <2>2 DEF TypeOK
  <2>4. live' = {} /\ demo' = None
    BY <1>1, <2>1 DEF OneEngine, Known, Forms
  <2> QED
    BY <2>1, <2>2, <2>3, <2>4, ToForm DEF Forms
<1>4. CASE Saved
  <2>1. /\ screen' = [screen EXCEPT !.kind = "recovery-kit"] /\ stored' = screen.vault
        /\ UNCHANGED <<demo, vaults, live, dek, kek, calls, answers>>
        /\ screen.kind = "saving"
    BY <1>4 DEF Saved, engine
  <2>2. /\ screen' \in Screen /\ screen'.kind = "recovery-kit" /\ screen'.vault = screen.vault
        /\ screen'.client = screen.client /\ screen'.typed = screen.typed
    BY <1>1, <2>1 DEF TypeOK, Screen, Kinds
  <2>3. screen.vault \in DOMAIN vaults
    BY <1>1, <2>1 DEF Known, Ready
  <2>4. TypeOK'
    BY <1>1, <2>1, <2>2, <2>3 DEF TypeOK
  <2>5. Holding(screen.client)
    BY <2>1 DEF IInv, Ready
  <2>6. Begun(screen.client)'
    BY <2>1, <2>2, <2>5 DEF Holding, Begun
  <2>7. InOrder(screen.client)' /\ Keyed(screen.client)' /\ Replied(screen.client)'
    <3>1. InOrder(screen.client)'
      BY <2>1, <2>2, <2>5 DEF Holding, InOrder
    <3>2. Keyed(screen.client)'
      BY <2>1, <2>2, <2>5 DEF Holding, Keyed
    <3>3. Replied(screen.client)'
      BY <2>1, <2>2, <2>5 DEF Holding, Replied
    <3> QED
      BY <3>1, <3>2, <3>3
  <2>8. OneEngine' /\ Kept'
    BY <1>1, <2>1, <2>2 DEF OneEngine, Kept, Forms
  <2>9. Known'
    BY <1>1, <2>1, <2>2 DEF Known, Ready, Forms
  <2> QED
    BY <2>2, <2>4, <2>6, <2>7, <2>8, <2>9 DEF IInv, Holding, Attempt
<1>5. CASE SaveFails
  <2>1. /\ screen.kind = "saving" /\ Terminate(screen.client)
        /\ screen' = Form("create") /\ UNCHANGED <<demo, stored, vaults>>
    BY <1>5 DEF SaveFails
  <2>2. screen' = Form(IF screen.kind = "unlocking" THEN "unlock" ELSE "create")
    BY <2>1
  <2> QED
    BY <2>1, <2>2, GivesUp
<1>6. CASE Restart
  <2>1. << >> \in Seq(Call) /\ Len(<< >>) <= MaxCalls /\ << >> \in Seq(Answer)
    BY SessionAssumption
  <2>2. calls' \in [Clients -> Seq(Call)] /\ \A c \in Clients : Len(calls'[c]) <= MaxCalls
    BY <1>6, <2>1 DEF Restart
  <2>3. answers' \in [Clients -> Seq(Answer)] /\ kek' \in [Clients -> BOOLEAN]
    BY <1>6, <2>1 DEF Restart
  <2>4. screen' \in Screen /\ screen'.kind = "checking"
    BY <1>6 DEF Restart, Checking, Screen, Kinds
  <2>5. TypeOK'
    BY <1>1, <1>6, <2>2, <2>3, <2>4 DEF TypeOK, Restart
  <2> QED
    BY <1>6, <2>4, <2>5, ToForm DEF Restart, Forms
<1> QED
  BY <1>2, <1>3, <1>4, <1>5, <1>6

LEMMA Initially ==
  Init => IInv
<1> SUFFICES ASSUME Init
    PROVE  IInv
  OBVIOUS
<1>1. << >> \in Seq(Call) /\ Len(<< >>) <= MaxCalls /\ << >> \in Seq(Answer)
      /\ << >> \in Seq(Passwords) /\ Len(<< >>) <= MaxVaults
  BY SessionAssumption
<1>2. calls \in [Clients -> Seq(Call)] /\ \A c \in Clients : Len(calls[c]) <= MaxCalls
  BY <1>1 DEF Init
<1>3. answers \in [Clients -> Seq(Answer)] /\ kek \in [Clients -> BOOLEAN]
  BY <1>1 DEF Init
<1>4. screen \in Screen /\ screen.kind = "checking"
  BY DEF Init, Checking, Screen, Kinds
<1>5. TypeOK
  BY <1>1, <1>2, <1>3, <1>4 DEF TypeOK, Init
<1> QED
  BY <1>4, <1>5 DEF Init, IInv, OneEngine, Known, Kept, Forms, Attempt, Ready

LEMMA Inductive ==
  IInv /\ [Next]_vars => IInv'
<1> SUFFICES ASSUME IInv, [Next]_vars
    PROVE  IInv'
  OBVIOUS
<1>1. ASSUME NEW c \in Clients, Worker(c)
      PROVE  IInv'
  <2>1. c \in live
    BY <1>1 DEF Worker, Begin, Lock, NextSent, CreateVault, Unwrap, DeriveFails, Finish, Running
  <2>2. screen.kind \in Attempt \/ screen.kind \in Ready
    BY <2>1, Located
  <2> QED
    BY <1>1, <2>2, AttemptWorks, ReadyWorks
<1>2. ASSUME NEW c \in Clients, Deliver(c)
      PROVE  IInv'
  <2>1. c \in live
    BY <1>2 DEF Deliver, CreateAnswered, UnlockAnswered, EncryptAnswered, DecryptAnswered,
                LockAnswered, Stale, Settles, Arrives
  <2>2. screen.kind \in Attempt \/ screen.kind \in Ready
    BY <2>1, Located
  <2> QED
    BY <1>2, <2>2, AttemptAnswered, ReadyAnswered
<1>3. ASSUME NEW c \in Clients, WorkerError(c)
      PROVE  IInv'
  BY <1>3, Fails
<1>4. ASSUME NEW c \in Clients, NEW p \in Passwords, Create(c, p) \/ Unlock(c, p)
      PROVE  IInv'
  BY <1>4, Starts
<1>5. CASE Load \/ LoadFails \/ Saved \/ SaveFails \/ Restart
  BY <1>5, Stores
<1>6. CASE KitConfirmed \/ Reveal \/ ClickLock
  <2>1. /\ screen.kind \in {"recovery-kit", "open"} /\ screen.client \in Clients
        /\ None \in {None} \cup Vault /\ demo \in {None} \cup Vault /\ screen \in Screen
    BY <1>6 DEF IInv, OneEngine, TypeOK, Forms, KitConfirmed, Reveal, ClickLock
  <2>2. screen.kind = "open" => screen = [screen EXCEPT !.kind = "open"]
    BY <2>1 DEF Screen
  <2>3. CASE KitConfirmed
    <3>1. /\ Send(screen.client, "encryptItem", None) /\ screen' = [screen EXCEPT !.kind = "open"]
          /\ UNCHANGED <<demo, stored, vaults, live, dek, kek, answers>>
      BY <2>3 DEF KitConfirmed
    <3> QED
      BY <2>1, <3>1, Sends, Zenon
  <2>4. CASE Reveal
    <3>1. /\ Send(screen.client, "decryptItem", demo) /\ screen' = [screen EXCEPT !.kind = "open"]
          /\ UNCHANGED <<demo, stored, vaults, live, dek, kek, answers>>
      BY <2>2, <2>4 DEF Reveal
    <3> QED
      BY <2>1, <3>1, Sends, Zenon
  <2>5. CASE ClickLock
    <3>1. /\ Send(screen.client, "lock", None) /\ screen' = [screen EXCEPT !.kind = "open"]
          /\ UNCHANGED <<demo, stored, vaults, live, dek, kek, answers>>
      BY <2>2, <2>5 DEF ClickLock
    <3> QED
      BY <2>1, <3>1, Sends, Zenon
  <2> QED
    BY <1>6, <2>3, <2>4, <2>5
<1>7. CASE UNCHANGED vars
  <2>1. /\ screen' = screen /\ demo' = demo /\ stored' = stored /\ vaults' = vaults
        /\ live' = live /\ dek' = dek /\ kek' = kek /\ calls' = calls /\ answers' = answers
    BY <1>7 DEF vars
  <2>2. TypeOK' = TypeOK
    BY <2>1 DEF TypeOK
  <2>3. OneEngine' = OneEngine /\ Known' = Known /\ Kept' = Kept
    BY <2>1 DEF OneEngine, Known, Kept
  <2>4. Trying(screen.client)' = Trying(screen.client)
    BY <2>1 DEF Trying, Truthful, Expected
  <2>5. Begun(screen.client)' = Begun(screen.client)
    BY <2>1 DEF Begun
  <2>6. InOrder(screen.client)' = InOrder(screen.client)
    BY <2>1 DEF InOrder
  <2>7. Keyed(screen.client)' = Keyed(screen.client)
    BY <2>1 DEF Keyed
  <2>8. Replied(screen.client)' = Replied(screen.client)
    BY <2>1 DEF Replied
  <2> QED
    BY <2>1, <2>2, <2>3, <2>4, <2>5, <2>6, <2>7, <2>8 DEF IInv, Holding
<1> QED
  BY <1>1, <1>2, <1>3, <1>4, <1>5, <1>6, <1>7 DEF Next

LEMMA Invariant ==
  Spec => []IInv
BY Initially, Inductive, PTL DEF Spec

-------------------------------------------------------------------------------
\* In every behaviour the state keeps its types: no answer names a call the client does
\* not have room for, and no key is that of a vault that cannot exist.
THEOREM Typing ==
  Spec => []TypeOK
<1>1. IInv => TypeOK
  BY DEF IInv
<1> QED
  BY <1>1, Invariant, PTL

\* However calls, answers, errors and restarts fall, an engine that runs is that of the
\* screen, none runs while a form is shown, and KEK bytes are left only in an attempt
\* (App.tsx:58-63, UnlockScreen.tsx:92,117, key-manager.ts:5-7).
THEOREM KeysGone ==
  Spec => []KeysEndWithSession
<1>1. ASSUME IInv
      PROVE  KeysEndWithSession
  <2>1. \A c \in live : c = screen.client
    BY <1>1 DEF IInv, OneEngine
  <2>2. ASSUME NEW c \in live, kek[c]
        PROVE  screen.kind \in {"creating", "unlocking"}
    <3>1. c \in Clients
      BY <1>1 DEF IInv, TypeOK
    <3>2. screen.kind \in Attempt \cup Ready /\ (screen.kind \in Ready => Holding(c))
      BY <1>1, <3>1, Located
    <3>3. screen.kind \notin Ready
      BY <2>2, <3>2, Zenon DEF Holding, Keyed
    <3> QED
      BY <3>2, <3>3 DEF Attempt
  <2> QED
    BY <2>1, <2>2 DEF KeysEndWithSession
<1> QED
  BY <1>1, Invariant, PTL

\* An open session holds the key of the vault whose password was typed until a lock is on
\* its way, and a call on an item fails only behind a lock (key-manager.ts:73-91,
\* App.tsx:37-65).
THEOREM KeyIsRight ==
  Spec => []RightKey
<1>1. ASSUME IInv, screen.kind \in {"recovery-kit", "open"}
      PROVE  LET c == screen.client
                 LockBefore(i) == \E j \in DOMAIN calls[c] : j < i /\ calls[c][j].op = "lock"
             IN
             /\ c \in live
             /\ vaults[screen.vault] = screen.typed /\ demo \in {None, screen.vault}
             /\ dek[c] = screen.vault \/ LockBefore(Len(calls[c]) + 1)
             /\ \A a \in DOMAIN answers[c] : ~answers[c][a].ok => LockBefore(answers[c][a].id)
  <2> DEFINE c == screen.client
  <2>1. screen.kind \in Ready /\ screen.kind \notin Forms
    BY <1>1 DEF Ready, Forms
  <2>2. c \in live /\ c \in Clients /\ Holding(c) /\ Known /\ TypeOK
    BY <1>1, <2>1 DEF IInv, OneEngine
  <2>3. vaults[screen.vault] = screen.typed /\ demo \in {None, screen.vault}
    BY <2>1, <2>2 DEF Known
  <2> HIDE DEF c
  <2>4. calls[c] \in Seq(Call)
    BY <2>2 DEF TypeOK
  <2>5. \A j \in DOMAIN calls[c] : j < Len(calls[c]) + 1
    BY <2>4
  <2>6. dek[c] = screen.vault
        \/ \E j \in DOMAIN calls[c] : j < Len(calls[c]) + 1 /\ calls[c][j].op = "lock"
    BY <2>2, <2>5 DEF Holding, Keyed
  <2>7. \A a \in DOMAIN answers[c] : ~answers[c][a].ok =>
          \E j \in DOMAIN calls[c] : j < answers[c][a].id /\ calls[c][j].op = "lock"
    BY <2>2 DEF Holding, Replied
  <2> QED
    BY <2>2, <2>3, <2>6, <2>7 DEF c
<1>2. IInv => RightKey
  BY <1>1 DEF RightKey
<1> QED
  BY <1>2, Invariant, PTL

\* Only a screen that could not load the stored account replaces it
\* (UnlockScreen.tsx:60-65, 89).
THEOREM AccountStays ==
  Spec => AccountKept
<1>1. ASSUME IInv, [Next]_vars
      PROVE  [stored # None /\ stored' # stored => screen.loadFailed]_vars
  <2>1. CASE Saved
    BY <1>1, <2>1 DEF IInv, Kept, Saved
  <2>2. CASE stored' = stored
    BY <2>2
  <2>3. Next /\ ~Saved => stored' = stored
    <3>1. ASSUME NEW c \in Clients, Worker(c)
          PROVE  stored' = stored
      BY <3>1 DEF Worker, Begin, Lock, CreateVault, Unwrap, DeriveFails, Finish
    <3>2. ASSUME NEW c \in Clients, Deliver(c)
          PROVE  stored' = stored
      BY <3>2 DEF Deliver, CreateAnswered, UnlockAnswered, EncryptAnswered, DecryptAnswered,
                  LockAnswered, Stale
    <3>3. ASSUME NEW c \in Clients, WorkerError(c)
          PROVE  stored' = stored
      BY <3>3 DEF WorkerError
    <3>4. ASSUME NEW c \in Clients, NEW p \in Passwords, Create(c, p) \/ Unlock(c, p)
          PROVE  stored' = stored
      BY <3>4 DEF Create, Unlock
    <3>5. Load \/ LoadFails \/ SaveFails \/ KitConfirmed \/ Reveal \/ ClickLock \/ Restart =>
            stored' = stored
      BY DEF Load, LoadFails, SaveFails, KitConfirmed, Reveal, ClickLock, Restart
    <3> QED
      BY <3>1, <3>2, <3>3, <3>4, <3>5 DEF Next
  <2> QED
    BY <1>1, <2>1, <2>2, <2>3
<1> QED
  BY <1>1, Invariant, PTL DEF Spec, AccountKept
===============================================================================
