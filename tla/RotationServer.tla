---------------------------- MODULE RotationServer -----------------------------
(***************************************************************************)
(* RotationService of the API server: POST /auth/rotate/start and          *)
(* /auth/rotate/finish for one hardened account (Factor 2 enabled), over   *)
(* the users and devices tables.  Without Factor 2 start stores nothing    *)
(* and finish only replaces the record: that path is in OfflineRotation.   *)
(* As in SyncServer every repository call is one action and a handler      *)
(* keeps its locals in a slot between two calls.                           *)
(*                                                                         *)
(* A registration record is the number of the attempt that made it: each   *)
(* attempt of a client makes fresh bytes, and sending a request again      *)
(* sends the same bytes.  Record 0 is the one of the registration.  The    *)
(* HMAC over a challenge can only be computed from that challenge and the  *)
(* continuity secret, so a signature is the challenge it signs.  Records   *)
(* that are not well formed are refused with no effect and left out.       *)
(***************************************************************************)
EXTENDS Naturals, Sequences

CONSTANTS
  Devices,          \* devices of the account
  Handlers,         \* slots for requests in flight
  HandlerDevice,    \* the device whose requests a slot runs
  MaxRecords,       \* bound: registration records made
  MaxChallenges     \* bound: challenges issued

ASSUME RotationServerAssumption ==
  /\ HandlerDevice \in [Handlers -> Devices]
  /\ MaxRecords \in Nat /\ MaxChallenges \in Nat

VARIABLES
  record,       \* users.registration_record
  challenge,    \* devices.pending_rotation_challenge, 0 = NULL
  handler,      \* the requests in flight
  received,     \* per device, the challenge it received last, 0 = none
  made,         \* records made so far
  issued,       \* challenges issued so far
  sent,         \* the rotate/finish requests sent so far, which may be sent again
  installed     \* the replacements of the record, in order

vars == <<record, challenge, handler, received, made, issued, sent, installed>>

None      == 0
Record    == 0 .. MaxRecords
Challenge == 0 .. MaxChallenges
Finish    == [device : Devices, record : Record, signature : Challenge]

Idle == [step |-> "idle"]
Handler == {Idle}
  \cup [step : {"issue"}]
  \cup [step : {"answer"}, challenge : Challenge]
  \cup [step : {"check", "clear", "replace"}, request : Finish]

TypeOK ==
  /\ record \in Record
  /\ challenge \in [Devices -> Challenge]
  /\ handler \in [Handlers -> Handler]
  /\ received \in [Devices -> Challenge]
  /\ made \in Record /\ issued \in Challenge
  /\ sent \subseteq Finish
  /\ installed \in Seq(Finish)

Init ==
  /\ record = 0
  /\ challenge = [d \in Devices |-> None]
  /\ handler = [h \in Handlers |-> Idle]
  /\ received = [d \in Devices |-> None]
  /\ made = 0 /\ issued = 0
  /\ sent = {}
  /\ installed = << >>

At(h, step)   == handler[h].step = step
Goto(h, next) == handler' = [handler EXCEPT ![h] = next]

-------------------------------------------------------------------------------
\* rotateStart.

StartArrives(h) ==
  /\ At(h, "idle")
  /\ Goto(h, [step |-> "issue"])
  /\ UNCHANGED <<record, challenge, received, made, issued, sent, installed>>

\* Operators named Bug_ are faulty variants of the definition that follows them:
\* a slip the code could have, which a property must notice.  No action uses them.
\* Here: the challenge is stored and left out of the answer.
Bug_IssueUnanswered(h) ==
  /\ At(h, "issue")
  /\ issued < MaxChallenges
  /\ issued' = issued + 1
  /\ challenge' = [challenge EXCEPT ![HandlerDevice[h]] = issued + 1]
  /\ Goto(h, [step |-> "answer"])
  /\ UNCHANGED <<record, received, made, sent, installed>>

\* A fresh nonce supersedes the stored one.
IssueChallenge(h) ==
  /\ At(h, "issue")
  /\ issued < MaxChallenges
  /\ issued' = issued + 1
  /\ challenge' = [challenge EXCEPT ![HandlerDevice[h]] = issued + 1]
  /\ Goto(h, [step |-> "answer", challenge |-> issued + 1])
  /\ UNCHANGED <<record, received, made, sent, installed>>

StartAnswered(h) ==
  /\ At(h, "answer")
  /\ received' = [received EXCEPT ![HandlerDevice[h]] = handler[h].challenge]
  /\ Goto(h, Idle)
  /\ UNCHANGED <<record, challenge, made, issued, sent, installed>>

-------------------------------------------------------------------------------
\* rotateFinish.

\* findById and the replay test: a request with the stored record succeeds at once.
Receive(h, request) ==
  handler' = [handler EXCEPT ![h] =
    IF request.record = record THEN Idle
    ELSE [step |-> "check", request |-> request]]

\* A client makes a new record and signs the challenge it received last, or, like
\* the desktop client, does not sign.
FinishArrives(h) ==
  /\ At(h, "idle")
  /\ made < MaxRecords
  /\ made' = made + 1
  /\ \E signature \in {None, received[HandlerDevice[h]]} :
       LET request == [device |-> HandlerDevice[h], record |-> made + 1,
                       signature |-> signature] IN
       /\ sent' = sent \cup {request}
       /\ Receive(h, request)
  /\ UNCHANGED <<record, challenge, received, issued, installed>>

\* A request is sent again, or a delayed copy of it arrives.
FinishRepeated(h) ==
  /\ At(h, "idle")
  /\ \E request \in sent :
       /\ request.device = HandlerDevice[h]
       /\ Receive(h, request)
  /\ UNCHANGED <<record, challenge, received, made, issued, sent, installed>>

\* Any signature will do.
Bug_CheckAnySignature(h) ==
  /\ At(h, "check")
  /\ LET request == handler[h].request IN
     Goto(h, IF challenge[request.device] = None \/ request.signature = None
               THEN Idle
               ELSE [step |-> "clear", request |-> request])
  /\ UNCHANGED <<record, challenge, received, made, issued, sent, installed>>

\* A request without a signature is let through.
Bug_CheckUnsigned(h) ==
  /\ At(h, "check")
  /\ LET request == handler[h].request
         stored  == challenge[request.device] IN
     Goto(h, IF stored = None \/ request.signature \notin {None, stored}
               THEN Idle
               ELSE [step |-> "clear", request |-> request])
  /\ UNCHANGED <<record, challenge, received, made, issued, sent, installed>>

\* getPendingRotationChallenge and the three refusals (401).
CheckChallenge(h) ==
  /\ At(h, "check")
  /\ LET request == handler[h].request
         stored  == challenge[request.device] IN
     Goto(h, IF stored = None \/ request.signature = None \/ request.signature # stored
               THEN Idle
               ELSE [step |-> "clear", request |-> request])
  /\ UNCHANGED <<record, challenge, received, made, issued, sent, installed>>

\* The challenge stays valid.
Bug_ClearNothing(h) ==
  /\ At(h, "clear")
  /\ Goto(h, [step |-> "replace", request |-> handler[h].request])
  /\ UNCHANGED <<record, challenge, received, made, issued, sent, installed>>

\* clearPendingRotationChallenge: whatever challenge the device has by now.
ClearChallenge(h) ==
  /\ At(h, "clear")
  /\ challenge' = [challenge EXCEPT ![handler[h].request.device] = None]
  /\ Goto(h, [step |-> "replace", request |-> handler[h].request])
  /\ UNCHANGED <<record, received, made, issued, sent, installed>>

\* replaceRegistrationRecord.
Replace(h) ==
  /\ At(h, "replace")
  /\ record' = handler[h].request.record
  /\ installed' = Append(installed, handler[h].request)
  /\ Goto(h, Idle)
  /\ UNCHANGED <<challenge, received, made, issued, sent>>

\* A query rejects and the request ends where it stands, or its answer is lost.
Fails(h) ==
  /\ ~At(h, "idle")
  /\ Goto(h, Idle)
  /\ UNCHANGED <<record, challenge, received, made, issued, sent, installed>>

\* A restart drops the handlers; challenges and records are in Postgres.
Crash ==
  /\ \E h \in Handlers : ~At(h, "idle")
  /\ handler' = [h \in Handlers |-> Idle]
  /\ UNCHANGED <<record, challenge, received, made, issued, sent, installed>>

Next ==
  \/ \E h \in Handlers :
       \/ StartArrives(h) \/ IssueChallenge(h) \/ StartAnswered(h)
       \/ FinishArrives(h) \/ FinishRepeated(h)
       \/ CheckChallenge(h) \/ ClearChallenge(h) \/ Replace(h)
       \/ Fails(h)
  \/ Crash

Spec == Init /\ [][Next]_vars

-------------------------------------------------------------------------------
\* A challenge authorises one record at most (rotation.service.ts:44-45, "a fresh,
\* server-issued, single-use nonce defeats replay of a captured signature").
SingleUse ==
  \A i, j \in DOMAIN installed :
    installed[i].signature = installed[j].signature =>
       installed[i].record = installed[j].record

\* A record that was replaced never comes back, not by a repeated nor by a delayed
\* request: what rotateFinish stores was never stored before.
NoRevert ==
  [][record' # record =>
       record' # 0 /\ \A i \in DOMAIN installed : installed[i].record # record']_vars

\* Every installed record came with the device's own signature over
\* a challenge, however the handlers of its devices interleave.
AuthorisedBySignature ==
  \A i \in DOMAIN installed :
    /\ installed[i] \in sent
    /\ installed[i].signature # None
    /\ \A d \in Devices : received[d] = installed[i].signature => d = installed[i].device

\* What a device may still exchange: its stored challenge, or the one that the handler
\* about to replace the record has cleared for it.
Replacing(d) == {h \in Handlers : HandlerDevice[h] = d /\ At(h, "replace")}

Outstanding == [d \in Devices |->
  IF Replacing(d) = {} THEN challenge[d]
  ELSE handler[CHOOSE h \in Replacing(d) : TRUE].request.signature]

Installed == {installed[i] : i \in DOMAIN installed}

\* Check, clear and replace, three calls of a handler with other devices' requests,
\* failures and restarts in between, are one exchange of the device's outstanding
\* challenge for a record never stored before (rotation.service.ts:87-89, 129-149).
Promise == INSTANCE RotationExchange WITH
  outstanding <- Outstanding, exchanges <- Installed

ImplementsExchange == Promise!ExchangeSpec
===============================================================================
