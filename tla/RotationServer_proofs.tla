------------------------- MODULE RotationServer_proofs -------------------------
(***************************************************************************)
(* Proofs about RotationServer, for any number of devices, challenges and  *)
(* requests.  That a record needs the signature of its device holds for    *)
(* every interleaving; that a challenge serves once, that no record        *)
(* returns and that the three calls are one exchange of RotationExchange   *)
(* need one request in flight per device, and a run shows that two break   *)
(* it.                                                                     *)
(***************************************************************************)
EXTENDS RotationServer, TLAPS

\* A slot per device.
OneRequestPerDevice ==
  \A g, h \in Handlers : HandlerDevice[g] = HandlerDevice[h] => g = h

\* Requests and challenges are counted, and a record was sent in one request.
Counted ==
  /\ \A x \in sent : x.record \in 1 .. made /\ x.signature <= issued
  /\ \A x, y \in sent : x.record = y.record => x = y
  /\ \A d \in Devices : challenge[d] <= issued /\ received[d] <= issued
  /\ \A h \in Handlers : At(h, "answer") => handler[h].challenge <= issued

\* rotateFinish runs for a request of its device, and past the check it is signed.
Finishing(h) == handler[h].step \in {"check", "clear", "replace"}
Running ==
  \A h \in Handlers :
    /\ Finishing(h) =>
         handler[h].request \in sent /\ handler[h].request.device = HandlerDevice[h]
    /\ handler[h].step \in {"clear", "replace"} => handler[h].request.signature # None

\* Where a challenge of device d may be: stored, received, on its way, or signed.
Has(d, c) ==
  \/ challenge[d] = c \/ received[d] = c
  \/ \E h \in Handlers : HandlerDevice[h] = d /\ At(h, "answer") /\ handler[h].challenge = c
  \/ \E x \in sent : x.device = d /\ x.signature = c

\* A challenge is a secret of one device.
Disjoint ==
  \A d, e \in Devices : \A c \in Nat \ {None} : Has(d, c) /\ Has(e, c) => d = e

Signed == \A i \in DOMAIN installed : installed[i] \in sent /\ installed[i].signature # None

IInv == TypeOK /\ Counted /\ Running /\ Disjoint /\ Signed

-------------------------------------------------------------------------------
\* What the type of a slot gives an action that finds a request in it.
LEMMA Locals ==
  ASSUME TypeOK, NEW h \in Handlers
  PROVE  /\ At(h, "answer") => handler[h].challenge \in Challenge
         /\ Finishing(h) => handler[h].request \in Finish
         /\ HandlerDevice[h] \in Devices
  BY RotationServerAssumption DEF TypeOK, Handler, Idle, At, Finishing

\* Every slot but one keeps its request, and that one gets what Goto gives it.
LEMMA Moves ==
  ASSUME TypeOK, NEW h \in Handlers, NEW next, Goto(h, next)
  PROVE  /\ handler'[h] = next
         /\ \A g \in Handlers : g # h => handler'[g] = handler[g]
         /\ next \in Handler => handler' \in [Handlers -> Handler]
  BY DEF TypeOK, Goto

\* Idle is a slot's value, and so is a request at each of its steps.
LEMMA Shapes ==
  /\ Idle \in Handler /\ Idle.step = "idle"
  /\ [step |-> "issue"] \in Handler
  /\ \A c \in Challenge : [step |-> "answer", challenge |-> c] \in Handler
  /\ \A x \in Finish : \A step \in {"check", "clear", "replace"} :
       [step |-> step, request |-> x] \in Handler
  BY DEF Handler, Idle

\* The initial state satisfies the invariant.
LEMMA Initially == Init => IInv
<1> SUFFICES ASSUME Init PROVE IInv
  OBVIOUS
<1> USE RotationServerAssumption DEF Init
<1>1. TypeOK
  BY DEF TypeOK, Record, Challenge, None, Handler, Idle
<1>2. \A h \in Handlers : handler[h].step = "idle"
  BY DEF Idle
<1>3. Counted /\ Running /\ Signed
  BY <1>2 DEF Counted, Running, Finishing, Signed, At, None
<1>4. Disjoint
  BY <1>2 DEF Disjoint, Has, At, None
<1> QED
  BY <1>1, <1>3, <1>4 DEF IInv

-------------------------------------------------------------------------------
\* A step that makes no challenge and no request: it moves one slot, or ends all, and
\* may store, clear or deliver a challenge the device has.
LEMMA QuietStep ==
  ASSUME IInv, TypeOK',
         UNCHANGED <<made, issued, sent, installed>>,
         \A d \in Devices : challenge'[d] \in {None, challenge[d]},
         \A d \in Devices : Has(d, received'[d]) \/ received'[d] = received[d],
         \A g \in Handlers : \/ handler'[g] = handler[g]
                             \/ handler'[g].step \in {"idle", "issue"}
                             \/ /\ handler'[g].step \in {"check", "clear", "replace"}
                                /\ handler'[g].request \in sent
                                /\ handler'[g].request.device = HandlerDevice[g]
                                /\ handler'[g].step = "check"
                                     \/ handler'[g].request.signature # None
  PROVE  IInv'
<1>1. \A d \in Devices : \A c \in Nat \ {None} : Has(d, c)' => Has(d, c)
  BY DEF Has, At
<1>2. \A d \in Devices : \A c \in Nat : Has(d, c) => c <= issued
  BY DEF IInv, Counted, Has, TypeOK
<1>3. Counted'
  <2>1. issued \in Nat /\ \A d \in Devices : received'[d] \in Nat
    BY RotationServerAssumption DEF IInv, TypeOK, Challenge
  <2>2. \A d \in Devices : challenge'[d] <= issued /\ received'[d] <= issued
    BY <1>2, <2>1 DEF IInv, Counted, None
  <2>3. \A h \in Handlers : handler'[h].step = "answer" => handler'[h] = handler[h]
    OBVIOUS
  <2> QED
    BY <2>2, <2>3 DEF IInv, Counted, At
<1>4. Running'
  BY DEF IInv, Running, Finishing
<1>5. Disjoint'
  BY <1>1 DEF IInv, Disjoint
<1>6. Signed'
  BY DEF IInv, Signed
<1> QED
  BY <1>3, <1>4, <1>5, <1>6 DEF IInv
\* A challenge is issued: a fresh number, which only its device has.
LEMMA IssueStep ==
  ASSUME IInv, NEW h \in Handlers, IssueChallenge(h)
  PROVE  IInv'
<1> DEFINE c == issued + 1
           d == HandlerDevice[h]
<1>1. TypeOK /\ d \in Devices /\ c \in Challenge /\ c \in Nat /\ c # None /\ issued \in Nat
  BY Locals, RotationServerAssumption DEF IInv, TypeOK, IssueChallenge, Challenge, None
<1>2. /\ handler'[h] = [step |-> "answer", challenge |-> c]
      /\ \A g \in Handlers : g # h => handler'[g] = handler[g]
      /\ handler' \in [Handlers -> Handler]
  BY <1>1, Moves, Shapes DEF IssueChallenge
<1>3. /\ issued' = c /\ challenge' = [challenge EXCEPT ![d] = c]
      /\ UNCHANGED <<record, received, made, sent, installed>>
  BY DEF IssueChallenge
<1>4. TypeOK'
  BY <1>1, <1>2, <1>3 DEF TypeOK
<1>5. \A e \in Devices : \A b \in Nat : Has(e, b) => b <= issued
  BY <1>1 DEF IInv, Counted, Has
<1>6. \A e \in Devices : \A b \in Nat \ {None} : Has(e, b)' => Has(e, b) \/ (b = c /\ e = d)
  BY <1>1, <1>2, <1>3 DEF TypeOK, Has, At
<1>7. Disjoint'
  BY <1>1, <1>5, <1>6 DEF IInv, Disjoint
<1>8. Counted'
  <2>1. \A n \in Nat : n <= issued => n <= c
    BY <1>1
  <2>2. \A x \in sent : x.signature \in Nat
    BY <1>1 DEF TypeOK, Finish, Challenge
  <2>3. \A e \in Devices : challenge[e] \in Nat /\ received[e] \in Nat
    BY <1>1 DEF TypeOK, Challenge
  <2>4. \A e \in Devices : challenge'[e] <= c /\ received'[e] <= c
    BY <1>1, <1>3, <2>1, <2>3 DEF IInv, Counted, TypeOK
  <2>5. \A g \in Handlers : handler'[g].step = "answer" => handler'[g].challenge <= c
    BY <1>1, <1>2, <2>1, Locals DEF IInv, Counted, At, Challenge
  <2> HIDE DEF c
  <2> QED
    BY <1>3, <2>1, <2>2, <2>4, <2>5 DEF IInv, Counted, At
<1>9. Running' /\ Signed'
  BY <1>2, <1>3 DEF IInv, Running, Finishing, Signed
<1> QED
  BY <1>4, <1>7, <1>8, <1>9 DEF IInv

\* A new request: its record is fresh, and it is signed with a challenge of its device.
LEMMA FinishStep ==
  ASSUME IInv, NEW h \in Handlers, FinishArrives(h)
  PROVE  IInv'
<1> DEFINE d == HandlerDevice[h]
<1>1. TypeOK /\ d \in Devices /\ made \in Nat /\ made + 1 \in Record /\ issued \in Nat
  BY Locals, RotationServerAssumption DEF IInv, TypeOK, FinishArrives, Record, Challenge
<1>2. PICK signature \in {None, received[d]} :
        LET request == [device |-> d, record |-> made + 1, signature |-> signature] IN
        sent' = sent \cup {request} /\ Receive(h, request)
  BY DEF FinishArrives
<1> DEFINE request == [device |-> d, record |-> made + 1, signature |-> signature]
<1>3. signature \in Challenge /\ signature <= issued /\ (signature # None => Has(d, signature))
  BY <1>1, RotationServerAssumption DEF IInv, TypeOK, Counted, Challenge, None, Has
<1>4. /\ request \in Finish /\ request.device = d /\ request.record = made + 1
      /\ request.signature = signature
  BY <1>1, <1>3 DEF Finish
<1>5. sent' = sent \cup {request} /\ Receive(h, request)
  BY <1>2
<1> HIDE DEF request
<1>6. made' = made + 1 /\ UNCHANGED <<record, challenge, received, issued, installed>>
  BY DEF FinishArrives
<1>7. /\ \/ handler'[h] = Idle
         \/ handler'[h] = [step |-> "check", request |-> request]
      /\ \A g \in Handlers : g # h => handler'[g] = handler[g]
      /\ handler' \in [Handlers -> Handler]
  <2>1. CASE request.record = record
    BY <1>1, <1>5, <2>1, Moves, Shapes DEF Receive, Goto
  <2>2. CASE request.record # record
    BY <1>1, <1>4, <1>5, <2>2, Moves, Shapes, ZenonT(30) DEF Receive, Goto
  <2> QED
    BY <2>1, <2>2
<1>8. TypeOK'
  BY <1>1, <1>4, <1>5, <1>6, <1>7 DEF TypeOK
<1>9. Counted'
  <2>1. \A x \in sent : x.record \in 1 .. made
    BY DEF IInv, Counted
  <2>2. \A x \in sent' : x.record \in 1 .. made' /\ x.signature <= issued
    BY <1>1, <1>3, <1>4, <1>5, <1>6 DEF IInv, Counted
  <2>3. \A x, y \in sent' : x.record = y.record => x = y
    BY <1>1, <1>4, <1>5, <2>1 DEF IInv, Counted
  <2>4. \A g \in Handlers : handler'[g].step = "answer" => handler'[g] = handler[g]
    BY <1>7, Shapes
  <2> QED
    BY <1>6, <2>2, <2>3, <2>4 DEF IInv, Counted, At
<1>10. Running'
  BY <1>4, <1>5, <1>7, Shapes DEF IInv, Running, Finishing
<1>11. \A e \in Devices : \A c \in Nat \ {None} : Has(e, c)' => Has(e, c)
  BY <1>3, <1>4, <1>5, <1>6, <1>7, Shapes DEF Has, At
<1>12. Disjoint' /\ Signed'
  BY <1>5, <1>6, <1>11 DEF IInv, Disjoint, Signed
<1> QED
  BY <1>8, <1>9, <1>10, <1>12 DEF IInv

\* The record is replaced.
LEMMA ReplaceStep ==
  ASSUME IInv, NEW h \in Handlers, Replace(h)
  PROVE  IInv'
<1> DEFINE x == handler[h].request
<1>1. /\ TypeOK /\ x \in Finish /\ x \in sent /\ x.signature # None
      /\ installed \in Seq(Finish)
  BY Locals DEF IInv, Replace, At, Finishing, Running, TypeOK
<1>2. /\ handler'[h] = Idle
      /\ \A g \in Handlers : g # h => handler'[g] = handler[g]
      /\ handler' \in [Handlers -> Handler]
  BY <1>1, Moves, Shapes DEF Replace
<1>3. /\ record' = x.record /\ installed' = Append(installed, x)
      /\ UNCHANGED <<challenge, received, made, issued, sent>>
  BY DEF Replace
<1>4. x.record \in Record
  BY <1>1 DEF Finish
<1> HIDE DEF x
<1>5. /\ installed' \in Seq(Finish)
      /\ \A i \in DOMAIN installed' : \/ installed'[i] = x
                                      \/ (i \in DOMAIN installed /\ installed'[i] = installed[i])
  <2> HIDE DEF Finish
  <2> QED
    BY <1>1, <1>3
<1>6. TypeOK'
  BY <1>1, <1>2, <1>3, <1>4, <1>5 DEF TypeOK
<1>7. Counted' /\ Running' /\ Disjoint'
  BY <1>2, <1>3, Shapes DEF IInv, Counted, Running, Finishing, Disjoint, Has, At
<1>8. Signed'
  BY <1>1, <1>3, <1>5 DEF IInv, Signed
<1> QED
  BY <1>6, <1>7, <1>8 DEF IInv

-------------------------------------------------------------------------------
\* The invariant is inductive.
LEMMA Inductive == IInv /\ [Next]_vars => IInv'
<1> SUFFICES ASSUME IInv, [Next]_vars PROVE IInv'
  OBVIOUS
<1>0. TypeOK
  BY DEF IInv
<1>1. ASSUME NEW h \in Handlers, IssueChallenge(h) PROVE IInv'
  BY <1>1, IssueStep
<1>2. ASSUME NEW h \in Handlers, FinishArrives(h) PROVE IInv'
  BY <1>2, FinishStep
<1>3. ASSUME NEW h \in Handlers, Replace(h) PROVE IInv'
  BY <1>3, ReplaceStep
<1>4. ASSUME NEW h \in Handlers, StartArrives(h) \/ Fails(h) PROVE IInv'
  <2>1. /\ handler'[h].step \in {"idle", "issue"}
        /\ \A g \in Handlers : g # h => handler'[g] = handler[g]
        /\ handler' \in [Handlers -> Handler]
    BY <1>0, <1>4, Moves, Shapes DEF StartArrives, Fails
  <2>2. UNCHANGED <<record, challenge, received, made, issued, sent, installed>>
    BY <1>4 DEF StartArrives, Fails
  <2>3. TypeOK'
    BY <1>0, <2>1, <2>2 DEF TypeOK
  <2> QED
    BY <2>1, <2>2, <2>3, QuietStep
<1>5. ASSUME NEW h \in Handlers, StartAnswered(h) PROVE IInv'
  <2>1. /\ handler'[h].step = "idle"
        /\ \A g \in Handlers : g # h => handler'[g] = handler[g]
        /\ handler' \in [Handlers -> Handler]
    BY <1>0, <1>5, Moves, Shapes DEF StartAnswered
  <2>2. /\ received' = [received EXCEPT ![HandlerDevice[h]] = handler[h].challenge]
        /\ At(h, "answer") /\ handler[h].challenge \in Challenge
        /\ UNCHANGED <<record, challenge, made, issued, sent, installed>>
    BY <1>0, <1>5, Locals DEF StartAnswered
  <2>3. TypeOK'
    BY <1>0, <2>1, <2>2 DEF TypeOK
  <2>4. \A d \in Devices : Has(d, received'[d]) \/ received'[d] = received[d]
    BY <1>0, <2>2 DEF Has, TypeOK
  <2> QED
    BY <2>1, <2>2, <2>3, <2>4, QuietStep
<1>6. ASSUME NEW h \in Handlers, FinishRepeated(h) PROVE IInv'
  <2>1. PICK x \in sent : x.device = HandlerDevice[h] /\ Receive(h, x)
    BY <1>6 DEF FinishRepeated
  <2>2. x \in Finish
    BY <1>0 DEF TypeOK
  <2>3. /\ \/ handler'[h] = Idle
           \/ handler'[h] = [step |-> "check", request |-> x]
        /\ \A g \in Handlers : g # h => handler'[g] = handler[g]
        /\ handler' \in [Handlers -> Handler]
    <3>1. CASE x.record = record
      BY <1>0, <2>1, <3>1, Moves, Shapes DEF Receive, Goto
    <3>2. CASE x.record # record
      BY <1>0, <2>1, <2>2, <3>2, Moves, Shapes DEF Receive, Goto
    <3> QED
      BY <3>1, <3>2
  <2>4. UNCHANGED <<record, challenge, received, made, issued, sent, installed>>
    BY <1>6 DEF FinishRepeated
  <2>5. TypeOK'
    BY <1>0, <2>3, <2>4 DEF TypeOK
  <2>6. \/ handler'[h].step = "idle"
        \/ handler'[h].step = "check" /\ handler'[h].request = x
    BY <2>3, Shapes
  <2> QED
    BY <2>1, <2>3, <2>4, <2>5, <2>6, QuietStep
<1>7. ASSUME NEW h \in Handlers, CheckChallenge(h) PROVE IInv'
  <2> DEFINE x == handler[h].request
  <2>1. x \in Finish /\ x \in sent /\ x.device = HandlerDevice[h]
    BY <1>0, <1>7, Locals DEF CheckChallenge, At, Finishing, IInv, Running
  <2>2. \/ Goto(h, Idle)
        \/ Goto(h, [step |-> "clear", request |-> x]) /\ x.signature # None
    BY <1>7 DEF CheckChallenge
  <2>3. UNCHANGED <<record, challenge, received, made, issued, sent, installed>>
    BY <1>7 DEF CheckChallenge
  <2> HIDE DEF x
  <2>4. /\ \/ handler'[h] = Idle
           \/ handler'[h] = [step |-> "clear", request |-> x] /\ x.signature # None
        /\ \A g \in Handlers : g # h => handler'[g] = handler[g]
        /\ handler' \in [Handlers -> Handler]
    <3>1. CASE Goto(h, Idle)
      BY <1>0, <3>1, Moves, Shapes
    <3>2. CASE Goto(h, [step |-> "clear", request |-> x]) /\ x.signature # None
      <4>1. [step |-> "clear", request |-> x] \in Handler
        BY <2>1, Shapes
      <4> QED
        BY <1>0, <3>2, <4>1, Moves
    <3> QED
      BY <2>2, <3>1, <3>2
  <2>5. TypeOK'
    BY <1>0, <2>3, <2>4 DEF TypeOK
  <2>6. \/ handler'[h].step = "idle"
        \/ handler'[h].step = "clear" /\ handler'[h].request = x /\ x.signature # None
    BY <2>4, Shapes
  <2> QED
    BY <2>1, <2>3, <2>4, <2>5, <2>6, QuietStep
<1>8. ASSUME NEW h \in Handlers, ClearChallenge(h) PROVE IInv'
  <2> DEFINE x == handler[h].request
  <2>1. /\ x \in Finish /\ x \in sent /\ x.device = HandlerDevice[h] /\ x.signature # None
        /\ x.device \in Devices
    BY <1>0, <1>8, Locals DEF ClearChallenge, At, Finishing, IInv, Running
  <2>2. /\ Goto(h, [step |-> "replace", request |-> x])
        /\ challenge' = [challenge EXCEPT ![x.device] = None]
        /\ UNCHANGED <<record, received, made, issued, sent, installed>>
    BY <1>8 DEF ClearChallenge
  <2> HIDE DEF x
  <2>3. /\ handler'[h] = [step |-> "replace", request |-> x]
        /\ \A g \in Handlers : g # h => handler'[g] = handler[g]
        /\ handler' \in [Handlers -> Handler]
    BY <1>0, <2>1, <2>2, Moves, Shapes, ZenonT(30)
  <2>4. None \in Challenge
    BY RotationServerAssumption DEF None, Challenge
  <2>5. TypeOK'
    BY <1>0, <2>1, <2>2, <2>3, <2>4 DEF TypeOK
  <2>6. handler'[h].step = "replace" /\ handler'[h].request = x
    BY <2>3
  <2>7. \A d \in Devices : challenge'[d] \in {None, challenge[d]}
    BY <1>0, <2>2 DEF TypeOK
  <2> QED
    BY <2>1, <2>2, <2>3, <2>5, <2>6, <2>7, QuietStep
<1>9. CASE Crash
  <2>1. /\ handler' = [h \in Handlers |-> Idle]
        /\ UNCHANGED <<record, challenge, received, made, issued, sent, installed>>
    BY <1>9 DEF Crash
  <2>2. TypeOK' /\ \A g \in Handlers : handler'[g].step = "idle"
    BY <1>0, <2>1, Shapes DEF TypeOK
  <2> QED
    BY <2>1, <2>2, QuietStep
<1>10. CASE UNCHANGED vars
  BY <1>10 DEF vars, IInv, TypeOK, Counted, Running, Finishing, Disjoint, Has, Signed, At
<1> QED
  BY <1>1, <1>2, <1>3, <1>4, <1>5, <1>6, <1>7, <1>8, <1>9, <1>10 DEF Next

\* It holds in every reachable state.
LEMMA Invariant == Spec => []IInv
  BY Initially, Inductive, PTL DEF Spec

\* Type correctness of the rotation of a hardened account, for any number of devices,
\* challenges and requests.
THEOREM Typing == Spec => []TypeOK
<1>1. IInv => TypeOK
  BY DEF IInv
<1> QED
  BY <1>1, Invariant, PTL

\* Every record that was installed came signed with a challenge only its device had.
THEOREM Authorised == Spec => []AuthorisedBySignature
<1>1. IInv => AuthorisedBySignature
  <2> SUFFICES ASSUME IInv, NEW i \in DOMAIN installed
               PROVE  /\ installed[i] \in sent
                      /\ installed[i].signature # None
                      /\ \A d \in Devices :
                           received[d] = installed[i].signature => d = installed[i].device
    BY DEF AuthorisedBySignature
  <2>1. installed[i] \in sent /\ installed[i].signature # None
    BY DEF IInv, Signed
  <2>2. installed[i].device \in Devices /\ installed[i].signature \in Nat \ {None}
    BY <2>1, RotationServerAssumption DEF IInv, TypeOK, Finish, Challenge
  <2>3. Has(installed[i].device, installed[i].signature)
    BY <2>1 DEF Has
  <2>4. \A d \in Devices :
          received[d] = installed[i].signature => Has(d, installed[i].signature)
    BY DEF Has
  <2> QED
    BY <2>1, <2>2, <2>3, <2>4 DEF IInv, Disjoint
<1> QED
  BY <1>1, Invariant, PTL

-------------------------------------------------------------------------------
\* With one request in flight per device: what was verified is what is cleared, nothing
\* is issued between clear and replace, and a challenge is used once.
Once ==
  /\ \A h \in Handlers : At(h, "clear") =>
       challenge[HandlerDevice[h]] = handler[h].request.signature
  /\ \A h \in Handlers : At(h, "replace") =>
       /\ challenge[HandlerDevice[h]] = None
       /\ \A i \in DOMAIN installed :
            installed[i].signature # handler[h].request.signature
  /\ \A d \in Devices : challenge[d] # None =>
       \A i \in DOMAIN installed : installed[i].signature # challenge[d]
  /\ \A i, j \in DOMAIN installed :
       installed[i].signature = installed[j].signature => i = j

\* A step that changes no challenge and installs nothing, and brings no slot to clear
\* or to replace.
LEMMA OnceQuiet ==
  ASSUME Once, UNCHANGED <<challenge, installed>>,
         \A g \in Handlers : \/ handler'[g] = handler[g]
                             \/ handler'[g].step \notin {"clear", "replace"}
  PROVE  Once'
  BY DEF Once, At

\* A fresh challenge was never used, and no request of its device is past the check.
LEMMA OnceIssue ==
  ASSUME OneRequestPerDevice, IInv, Once, NEW h \in Handlers, IssueChallenge(h)
  PROVE  Once'
<1> DEFINE c == issued + 1
           d == HandlerDevice[h]
<1>1. TypeOK /\ d \in Devices /\ issued \in Nat /\ c # None
  BY Locals, RotationServerAssumption DEF IInv, TypeOK, Challenge, None
<1>2. /\ handler'[h] = [step |-> "answer", challenge |-> c]
      /\ \A g \in Handlers : g # h => handler'[g] = handler[g]
  BY <1>1, Moves DEF IssueChallenge
<1>3. /\ challenge'[d] = c /\ \A e \in Devices : e # d => challenge'[e] = challenge[e]
      /\ installed' = installed
  BY <1>1 DEF IssueChallenge, TypeOK
<1>4. \A i \in DOMAIN installed : installed[i].signature # c
  <2>1. \A x \in sent : x.signature \in Nat /\ x.signature <= issued
    BY <1>1 DEF IInv, Counted, TypeOK, Finish, Challenge
  <2>2. \A n \in Nat : n <= issued => n # c
    BY <1>1
  <2> HIDE DEF c
  <2> QED
    BY <2>1, <2>2 DEF IInv, Signed
<1>5. \A g \in Handlers : g # h => HandlerDevice[g] \in Devices /\ HandlerDevice[g] # d
  BY <1>1, Locals DEF OneRequestPerDevice
<1> HIDE DEF c, d
<1>6. ~At(h, "clear")' /\ ~At(h, "replace")'
  BY <1>2 DEF At
<1>7. \A g \in Handlers : g # h => challenge'[HandlerDevice[g]] = challenge[HandlerDevice[g]]
  BY <1>3, <1>5
<1>8. \A e \in Devices : challenge'[e] # None =>
        \A i \in DOMAIN installed : installed[i].signature # challenge'[e]
  BY <1>3, <1>4 DEF Once
<1> QED
  BY <1>2, <1>3, <1>6, <1>7, <1>8 DEF Once, At

\* The check finds the signed challenge in the device's row.
LEMMA OnceCheck ==
  ASSUME IInv, Once, NEW h \in Handlers, CheckChallenge(h)
  PROVE  Once'
<1> DEFINE x == handler[h].request
<1>1. TypeOK /\ At(h, "check") /\ x.device = HandlerDevice[h]
  BY DEF CheckChallenge, IInv, Running, Finishing, At
<1>2. /\ challenge' = challenge /\ installed' = installed
      /\ \/ Goto(h, Idle)
         \/ /\ Goto(h, [step |-> "clear", request |-> x])
            /\ x.signature = challenge[x.device]
  BY DEF CheckChallenge
<1> HIDE DEF x
<1>3. CASE Goto(h, Idle)
  <2>1. handler'[h].step = "idle" /\ \A g \in Handlers : g # h => handler'[g] = handler[g]
    BY <1>1, <1>3, Moves, Shapes
  <2> QED
    BY <1>2, <2>1, OnceQuiet
<1>4. CASE Goto(h, [step |-> "clear", request |-> x]) /\ x.signature = challenge[x.device]
  <2>1. /\ handler'[h] = [step |-> "clear", request |-> x]
        /\ \A g \in Handlers : g # h => handler'[g] = handler[g]
    BY <1>1, <1>4, Moves
  <2> QED
    BY <1>1, <1>2, <1>4, <2>1 DEF Once, At
<1> QED
  BY <1>2, <1>3, <1>4

\* What is cleared is what was verified; no record had it.
LEMMA OnceClear ==
  ASSUME OneRequestPerDevice, IInv, Once, NEW h \in Handlers, ClearChallenge(h)
  PROVE  Once'
<1> DEFINE x == handler[h].request
           d == HandlerDevice[h]
<1>1. /\ TypeOK /\ At(h, "clear") /\ d \in Devices /\ x.device = d /\ x.signature # None
      /\ challenge[d] = x.signature
  BY Locals DEF ClearChallenge, IInv, Running, Finishing, Once, At
<1>2. /\ handler'[h] = [step |-> "replace", request |-> x]
      /\ \A g \in Handlers : g # h => handler'[g] = handler[g]
  BY <1>1, Moves DEF ClearChallenge
<1>3. /\ challenge'[d] = None /\ \A e \in Devices : e # d => challenge'[e] = challenge[e]
      /\ installed' = installed
  BY <1>1 DEF ClearChallenge, TypeOK
<1>4. \A i \in DOMAIN installed : installed[i].signature # x.signature
  BY <1>1 DEF Once
<1>5. \A g \in Handlers : g # h => HandlerDevice[g] \in Devices /\ HandlerDevice[g] # d
  BY <1>1, Locals DEF OneRequestPerDevice
<1> HIDE DEF x
<1>6. ~At(h, "clear")' /\ handler'[h].request = x
  BY <1>2 DEF At
<1>7. \A g \in Handlers : g # h => challenge'[HandlerDevice[g]] = challenge[HandlerDevice[g]]
  BY <1>3, <1>5
<1>8. \A e \in Devices : challenge'[e] # None => challenge'[e] = challenge[e]
  BY <1>3
<1> QED
  BY <1>2, <1>3, <1>4, <1>6, <1>7, <1>8 DEF Once, At

\* The record of a challenge that none was installed with.
LEMMA OnceReplace ==
  ASSUME OneRequestPerDevice, IInv, Once, NEW h \in Handlers, Replace(h)
  PROVE  Once'
<1> DEFINE x == handler[h].request
           d == HandlerDevice[h]
<1>1. /\ TypeOK /\ At(h, "replace") /\ d \in Devices /\ x \in Finish /\ x \in sent
      /\ x.device = d /\ x.signature # None /\ challenge[d] = None
      /\ \A i \in DOMAIN installed : installed[i].signature # x.signature
  BY Locals DEF Replace, IInv, Running, Finishing, Once, At
<1>2. handler'[h] = Idle /\ \A g \in Handlers : g # h => handler'[g] = handler[g]
  BY <1>1, Moves DEF Replace
<1>3. challenge' = challenge /\ installed' = Append(installed, x)
  BY DEF Replace
<1>4. x.signature \in Nat \ {None} /\ Has(d, x.signature)
  BY <1>1, RotationServerAssumption DEF Finish, Challenge, Has
<1> HIDE DEF x
<1>5. \A i \in DOMAIN installed' :
        \/ i \in DOMAIN installed /\ installed'[i] = installed[i]
        \/ i = Len(installed) + 1 /\ installed'[i] = x
  <2>1. installed \in Seq(Finish)
    BY <1>1 DEF TypeOK
  <2> HIDE DEF Finish
  <2> QED
    BY <1>1, <1>3, <2>1
<1>6. \A i, j \in DOMAIN installed' :
        installed'[i].signature = installed'[j].signature => i = j
  BY <1>1, <1>5 DEF Once
<1>7. \A e \in Devices : challenge[e] # None => challenge[e] # x.signature
  <2> SUFFICES ASSUME NEW e \in Devices, challenge[e] # None, challenge[e] = x.signature
               PROVE  FALSE
    OBVIOUS
  <2>1. Has(e, x.signature)
    BY DEF Has
  <2>2. e = d
    BY <1>1, <1>4, <2>1 DEF IInv, Disjoint
  <2> QED
    BY <1>1, <2>2
<1>8. \A g \in Handlers : g # h /\ At(g, "replace") =>
        x.signature # handler[g].request.signature
  <2> SUFFICES ASSUME NEW g \in Handlers, g # h, At(g, "replace"),
                      x.signature = handler[g].request.signature
               PROVE  FALSE
    OBVIOUS
  <2>1. handler[g].request \in sent /\ handler[g].request.device = HandlerDevice[g]
    BY DEF IInv, Running, Finishing, At
  <2>2. HandlerDevice[g] \in Devices /\ Has(HandlerDevice[g], x.signature)
    BY <1>1, <2>1, Locals DEF Has
  <2>3. HandlerDevice[g] = d
    BY <1>1, <1>4, <2>2 DEF IInv, Disjoint
  <2> QED
    BY <2>3 DEF OneRequestPerDevice
<1>9. ~At(h, "clear")' /\ ~At(h, "replace")'
  BY <1>2, Shapes DEF At
<1>10. \A e \in Devices : challenge'[e] # None =>
         \A i \in DOMAIN installed' : installed'[i].signature # challenge'[e]
  BY <1>3, <1>5, <1>7 DEF Once
<1>11. \A g \in Handlers : At(g, "replace")' =>
         /\ challenge'[HandlerDevice[g]] = None
         /\ \A i \in DOMAIN installed' :
              installed'[i].signature # handler'[g].request.signature
  BY <1>2, <1>3, <1>5, <1>8, <1>9 DEF Once, At
<1>12. \A g \in Handlers : At(g, "clear")' =>
         challenge'[HandlerDevice[g]] = handler'[g].request.signature
  BY <1>2, <1>3, <1>9 DEF Once, At
<1> QED
  BY <1>6, <1>10, <1>11, <1>12 DEF Once

\* The order is kept by every step.
LEMMA OnceStep ==
  ASSUME OneRequestPerDevice, IInv, Once, [Next]_vars
  PROVE  Once'
<1>0. TypeOK
  BY DEF IInv
<1>1. ASSUME NEW h \in Handlers, IssueChallenge(h) PROVE Once'
  BY <1>1, OnceIssue
<1>2. ASSUME NEW h \in Handlers, CheckChallenge(h) PROVE Once'
  BY <1>2, OnceCheck
<1>3. ASSUME NEW h \in Handlers, ClearChallenge(h) PROVE Once'
  BY <1>3, OnceClear
<1>4. ASSUME NEW h \in Handlers, Replace(h) PROVE Once'
  BY <1>4, OnceReplace
<1>5. ASSUME NEW h \in Handlers, StartArrives(h) \/ StartAnswered(h) \/ Fails(h) PROVE Once'
  <2>1. /\ handler'[h].step \in {"idle", "issue"}
        /\ \A g \in Handlers : g # h => handler'[g] = handler[g]
    BY <1>0, <1>5, Moves, Shapes DEF StartArrives, StartAnswered, Fails
  <2>2. UNCHANGED <<challenge, installed>>
    BY <1>5 DEF StartArrives, StartAnswered, Fails
  <2> QED
    BY <2>1, <2>2, OnceQuiet
<1>6. ASSUME NEW h \in Handlers, NEW x, Receive(h, x), UNCHANGED <<challenge, installed>>
      PROVE  Once'
  <2>1. /\ handler'[h].step \in {"idle", "check"}
        /\ \A g \in Handlers : g # h => handler'[g] = handler[g]
    <3>1. CASE x.record = record
      BY <1>0, <1>6, <3>1, Moves, Shapes DEF Receive, Goto
    <3>2. CASE x.record # record
      <4>1. Goto(h, [step |-> "check", request |-> x])
        BY <1>6, <3>2 DEF Receive, Goto
      <4> QED
        BY <1>0, <4>1, Moves
    <3> QED
      BY <3>1, <3>2
  <2> QED
    BY <1>6, <2>1, OnceQuiet
<1>7. ASSUME NEW h \in Handlers, FinishArrives(h) \/ FinishRepeated(h) PROVE Once'
  <2>1. (\E x : Receive(h, x)) /\ UNCHANGED <<challenge, installed>>
    BY <1>7 DEF FinishArrives, FinishRepeated
  <2> QED
    BY <1>6, <2>1
<1>8. CASE Crash
  <2>1. /\ handler' = [h \in Handlers |-> Idle]
        /\ UNCHANGED <<challenge, installed>>
    BY <1>8 DEF Crash
  <2>2. \A g \in Handlers : handler'[g].step = "idle"
    BY <2>1, Shapes
  <2> QED
    BY <2>1, <2>2, OnceQuiet
<1>9. CASE UNCHANGED vars
  BY <1>9 DEF vars, Once, At
<1> QED
  BY <1>1, <1>2, <1>3, <1>4, <1>5, <1>7, <1>8, <1>9 DEF Next

\* Initially nothing is installed.
LEMMA OnceInit == Init => Once
  BY DEF Init, Once, At, Idle, None

\* It holds in every reachable state.
LEMMA OnceAlways ==
  ASSUME OneRequestPerDevice
  PROVE  Spec => []Once
<1>1. IInv /\ Once /\ [Next]_vars => Once'
  BY OnceStep
<1> QED
  BY <1>1, OnceInit, Invariant, PTL DEF Spec

\* With one request in flight per device a challenge authorises one record.
THEOREM UsedOnce ==
  ASSUME OneRequestPerDevice
  PROVE  Spec => []SingleUse
<1>1. Once => SingleUse
  BY DEF Once, SingleUse
<1> QED
  BY <1>1, OnceAlways, PTL

\* With one request in flight per device no replaced record is stored again.
THEOREM NeverReverts ==
  ASSUME OneRequestPerDevice
  PROVE  Spec => NoRevert
<1>1. IInv /\ Once /\ [Next]_vars =>
        (record' # record =>
           record' # 0 /\ \A i \in DOMAIN installed : installed[i].record # record')
  <2> SUFFICES ASSUME IInv, Once, [Next]_vars, record' # record
               PROVE  /\ record' # 0
                      /\ \A i \in DOMAIN installed : installed[i].record # record'
    OBVIOUS
  <2>1. PICK h \in Handlers : Replace(h)
    BY DEF Next, vars, StartArrives, IssueChallenge, StartAnswered, FinishArrives,
           FinishRepeated, CheckChallenge, ClearChallenge, Fails, Crash
  <2> DEFINE x == handler[h].request
  <2>2. /\ x \in sent /\ record' = x.record
        /\ \A i \in DOMAIN installed : installed[i].signature # x.signature
    BY <2>1 DEF Replace, IInv, Running, Finishing, Once, At
  <2>3. x.record \in 1 .. made /\ made \in Nat
    BY <2>2, RotationServerAssumption DEF IInv, Counted, TypeOK, Record
  <2>4. \A i \in DOMAIN installed : installed[i] \in sent /\ installed[i] # x
    BY <2>2 DEF IInv, Signed
  <2>5. \A i \in DOMAIN installed : installed[i].record # x.record
    BY <2>2, <2>4 DEF IInv, Counted
  <2> HIDE DEF x
  <2> QED
    BY <2>2, <2>3, <2>5
<1> QED
  BY <1>1, Invariant, OnceAlways, PTL DEF Spec, NoRevert

-------------------------------------------------------------------------------
\* The three calls as one exchange.  With one slot per device the outstanding challenge
\* is that of the slot, when the slot is about to replace, and the stored one otherwise.
OutstandingIs(h) ==
  Outstanding[HandlerDevice[h]] =
    IF At(h, "replace") THEN handler[h].request.signature ELSE challenge[HandlerDevice[h]]

LEMMA OutstandingOfSlot ==
  ASSUME OneRequestPerDevice, NEW h \in Handlers
  PROVE  OutstandingIs(h) /\ OutstandingIs(h)'
<1>1. HandlerDevice[h] \in Devices
  BY RotationServerAssumption
<1>2. \A g \in Handlers : HandlerDevice[g] = HandlerDevice[h] => g = h
  BY DEF OneRequestPerDevice
<1>3. OutstandingIs(h)
  <2>1. Replacing(HandlerDevice[h]) = IF At(h, "replace") THEN {h} ELSE {}
    BY <1>2 DEF Replacing
  <2> QED
    BY <1>1, <2>1 DEF OutstandingIs, Outstanding
<1>4. OutstandingIs(h)'
  <2>1. Replacing(HandlerDevice[h])' = IF At(h, "replace")' THEN {h} ELSE {}
    BY <1>2 DEF Replacing, At
  <2> QED
    BY <1>1, <2>1 DEF OutstandingIs, Outstanding
<1> QED
  BY <1>3, <1>4

\* A device without a slot has the stored one.
WithoutSlot(d) == (\A h \in Handlers : HandlerDevice[h] # d) => Outstanding[d] = challenge[d]

LEMMA OutstandingElsewhere ==
  ASSUME NEW d \in Devices
  PROVE  WithoutSlot(d) /\ WithoutSlot(d)'
<1>1. ASSUME \A h \in Handlers : HandlerDevice[h] # d
      PROVE  Outstanding[d] = challenge[d] /\ Outstanding'[d] = challenge'[d]
  <2>1. Replacing(d) = {} /\ Replacing(d)' = {}
    BY <1>1 DEF Replacing
  <2> QED
    BY <2>1 DEF Outstanding
<1> QED
  BY <1>1 DEF WithoutSlot

\* A step of the slot h moves at most its own device's outstanding challenge.
LEMMA OthersOutstanding ==
  ASSUME OneRequestPerDevice, NEW h \in Handlers,
         \A g \in Handlers : g # h => handler'[g] = handler[g],
         \A e \in Devices : e # HandlerDevice[h] => challenge'[e] = challenge[e]
  PROVE  /\ \A e \in Devices : e # HandlerDevice[h] => Outstanding'[e] = Outstanding[e]
         /\ DOMAIN Outstanding = Devices /\ DOMAIN Outstanding' = Devices
         /\ Outstanding' = [Outstanding EXCEPT ![HandlerDevice[h]] =
                                Outstanding'[HandlerDevice[h]]]
<1>1. ASSUME NEW e \in Devices, e # HandlerDevice[h]
      PROVE  Outstanding'[e] = Outstanding[e]
  <2>1. challenge'[e] = challenge[e]
    BY <1>1
  <2>2. CASE \E g \in Handlers : HandlerDevice[g] = e
    <3>1. PICK g \in Handlers : HandlerDevice[g] = e
      BY <2>2
    <3>2. handler'[g] = handler[g]
      BY <1>1, <3>1
    <3>3. OutstandingIs(g) /\ OutstandingIs(g)'
      BY OutstandingOfSlot
    <3> QED
      BY <2>1, <3>1, <3>2, <3>3 DEF OutstandingIs, At
  <2>3. CASE \A g \in Handlers : HandlerDevice[g] # e
    BY <2>1, <2>3, OutstandingElsewhere DEF WithoutSlot
  <2> QED
    BY <2>2, <2>3
<1>2. HandlerDevice[h] \in Devices
  BY RotationServerAssumption
<1>3. DOMAIN Outstanding = Devices /\ DOMAIN Outstanding' = Devices
  BY DEF Outstanding
<1>4. Outstanding = [d \in Devices |-> Outstanding[d]]
      /\ Outstanding' = [d \in Devices |-> Outstanding'[d]]
  BY DEF Outstanding
<1> QED
  BY <1>1, <1>2, <1>3, <1>4

\* Issuing a challenge: none of the device's handlers is about to replace.
LEMMA ExchangeIssue ==
  ASSUME OneRequestPerDevice, IInv, NEW h \in Handlers, IssueChallenge(h)
  PROVE  Promise!Issue(HandlerDevice[h])
<1> DEFINE d == HandlerDevice[h]
<1>1. TypeOK /\ d \in Devices
  BY Locals DEF IInv
<1>2. /\ handler'[h].step = "answer"
      /\ \A g \in Handlers : g # h => handler'[g] = handler[g]
  BY <1>1, Moves DEF IssueChallenge
<1>3. /\ challenge'[d] = issued + 1
      /\ \A e \in Devices : e # d => challenge'[e] = challenge[e]
      /\ issued < MaxChallenges /\ issued' = issued + 1
      /\ UNCHANGED <<record, installed>>
  BY <1>1 DEF IssueChallenge, TypeOK
<1>4. Outstanding'[d] = issued + 1
  BY <1>2, <1>3, OutstandingOfSlot DEF OutstandingIs, At
<1>5. Outstanding' = [Outstanding EXCEPT ![d] = issued + 1]
  BY <1>2, <1>3, <1>4, OthersOutstanding
<1>6. Installed' = Installed
  BY <1>3 DEF Installed
<1> HIDE DEF Outstanding, Installed
<1> QED
  BY <1>3, <1>5, <1>6 DEF Promise!Issue

\* Replacing the record: the exchange, at the moment it becomes visible.
LEMMA ExchangeReplace ==
  ASSUME OneRequestPerDevice, IInv, Once, NEW h \in Handlers, Replace(h)
  PROVE  \E r \in 1 .. MaxRecords : Promise!Exchange(HandlerDevice[h], r)
<1> DEFINE d == HandlerDevice[h]
           x == handler[h].request
<1>1. /\ TypeOK /\ At(h, "replace") /\ d \in Devices /\ x \in Finish /\ x \in sent
      /\ x.device = d /\ x.signature # None /\ challenge[d] = None
      /\ \A i \in DOMAIN installed : installed[i].signature # x.signature
  BY Locals DEF Replace, IInv, Running, Finishing, Once, At
<1>2. handler'[h].step = "idle" /\ \A g \in Handlers : g # h => handler'[g] = handler[g]
  BY <1>1, Moves, Shapes DEF Replace
<1>3. /\ record' = x.record /\ installed' = Append(installed, x)
      /\ issued' = issued /\ challenge' = challenge
  BY DEF Replace
<1>4. Outstanding[d] = x.signature
  BY <1>1, OutstandingOfSlot DEF OutstandingIs
<1>5. Outstanding'[d] = None
  BY <1>1, <1>2, <1>3, OutstandingOfSlot DEF OutstandingIs, At
<1>6. Outstanding' = [Outstanding EXCEPT ![d] = 0]
  BY <1>2, <1>3, <1>5, OthersOutstanding DEF None
<1>7. x.record \in 1 .. MaxRecords
  BY <1>1, RotationServerAssumption DEF IInv, Counted, TypeOK, Record
<1>8. \A y \in Installed : y.record # x.record
  BY <1>1 DEF Installed, IInv, Signed, Counted
<1>9. x = [device |-> d, record |-> x.record, signature |-> x.signature]
  BY <1>1 DEF Finish
<1> HIDE DEF x
<1>10. Installed' = Installed \cup {x}
  <2>1. installed \in Seq(Finish)
    BY <1>1 DEF TypeOK
  <2> HIDE DEF Finish
  <2>2. /\ DOMAIN installed' = DOMAIN installed \cup {Len(installed) + 1}
        /\ \A i \in DOMAIN installed : installed'[i] = installed[i]
        /\ installed'[Len(installed) + 1] = x
    BY <1>1, <1>3, <2>1
  <2>3. ASSUME NEW y \in Installed' PROVE y \in Installed \cup {x}
    BY <2>2 DEF Installed
  <2>4. ASSUME NEW y \in Installed PROVE y \in Installed'
    BY <2>2 DEF Installed
  <2>5. x \in Installed'
    BY <2>2 DEF Installed
  <2> QED
    BY <2>3, <2>4, <2>5
<1> HIDE DEF Outstanding, Installed
<1>11. Promise!Exchange(d, x.record)
  BY <1>1, <1>3, <1>4, <1>6, <1>8, <1>9, <1>10 DEF Promise!Exchange, None
<1> QED
  BY <1>7, <1>11

\* A step that issues and installs nothing and keeps what is outstanding, or drops what
\* a handler about to replace had cleared.
LEMMA ExchangeLoss ==
  ASSUME UNCHANGED <<record, issued, installed>>,
         \A d \in Devices : Outstanding'[d] \in {None, Outstanding[d]}
  PROVE  \E S \in SUBSET Devices : Promise!Lose(S)
<1> DEFINE S == {d \in Devices : Outstanding'[d] = None}
<1>1. Outstanding' = [d \in Devices |-> Outstanding'[d]]
  BY DEF Outstanding
<1>2. Outstanding' = [d \in Devices |-> IF d \in S THEN 0 ELSE Outstanding[d]]
  BY <1>1 DEF None
<1>3. Installed' = Installed
  BY DEF Installed
<1> HIDE DEF Outstanding, Installed
<1>4. Promise!Lose(S)
  BY <1>2, <1>3 DEF Promise!Lose
<1> QED
  BY <1>4

\* A slot that is not about to replace and will not be, with the stored challenges as
\* they were: nothing is seen of its step.
LEMMA ExchangeQuiet ==
  ASSUME OneRequestPerDevice, NEW h \in Handlers, ~At(h, "replace"), ~At(h, "replace")',
         \A g \in Handlers : g # h => handler'[g] = handler[g],
         UNCHANGED <<record, challenge, issued, installed>>
  PROVE  \E S \in SUBSET Devices : Promise!Lose(S)
<1>1. Outstanding'[HandlerDevice[h]] = Outstanding[HandlerDevice[h]]
  BY OutstandingOfSlot DEF OutstandingIs
<1>2. \A e \in Devices : Outstanding'[e] = Outstanding[e]
  BY <1>1, OthersOutstanding
<1> QED
  BY <1>2, ExchangeLoss

\* Every step is a step of the exchange.
LEMMA ExchangeStep ==
  ASSUME OneRequestPerDevice, IInv, Once, [Next]_vars
  PROVE  [Promise!ExchangeNext]_<<record, issued, Outstanding, Installed>>
<1>0. TypeOK
  BY DEF IInv
<1>1. ASSUME NEW h \in Handlers, IssueChallenge(h) PROVE Promise!ExchangeNext
  <2>1. Promise!Issue(HandlerDevice[h]) /\ HandlerDevice[h] \in Devices
    BY <1>1, ExchangeIssue, RotationServerAssumption
  <2> QED
    BY <2>1 DEF Promise!ExchangeNext
<1>2. ASSUME NEW h \in Handlers, Replace(h) PROVE Promise!ExchangeNext
  <2>1. /\ \E r \in 1 .. MaxRecords : Promise!Exchange(HandlerDevice[h], r)
        /\ HandlerDevice[h] \in Devices
    BY <1>2, ExchangeReplace, RotationServerAssumption
  <2> QED
    BY <2>1 DEF Promise!ExchangeNext
<1> SUFFICES ASSUME \A h \in Handlers : ~IssueChallenge(h) /\ ~Replace(h), ~UNCHANGED vars
             PROVE  \E S \in SUBSET Devices : Promise!Lose(S)
  <2>1. CASE UNCHANGED vars
    BY <2>1 DEF vars, Outstanding, Installed, Replacing, At
  <2> QED
    BY <1>1, <1>2, <2>1 DEF Promise!ExchangeNext
<1>3. UNCHANGED <<record, issued, installed>>
  BY DEF Next, StartArrives, StartAnswered, FinishArrives, FinishRepeated, CheckChallenge,
     ClearChallenge, Fails, Crash
<1>4. ASSUME NEW h \in Handlers, StartArrives(h) \/ StartAnswered(h)
      PROVE  \E S \in SUBSET Devices : Promise!Lose(S)
  <2>1. /\ ~At(h, "replace") /\ handler'[h].step \in {"idle", "issue"}
        /\ \A g \in Handlers : g # h => handler'[g] = handler[g]
    BY <1>0, <1>4, Moves, Shapes DEF StartArrives, StartAnswered, At
  <2>2. challenge' = challenge
    BY <1>4 DEF StartArrives, StartAnswered
  <2>3. ~At(h, "replace")'
    BY <2>1 DEF At
  <2> QED
    BY <1>3, <2>1, <2>2, <2>3, ExchangeQuiet
<1>5. ASSUME NEW h \in Handlers, FinishArrives(h) \/ FinishRepeated(h)
      PROVE  \E S \in SUBSET Devices : Promise!Lose(S)
  <2>1. (\E x : Receive(h, x)) /\ ~At(h, "replace") /\ challenge' = challenge
    BY <1>5 DEF FinishArrives, FinishRepeated, At
  <2>2. PICK x : Receive(h, x)
    BY <2>1
  <2>3. /\ handler'[h].step \in {"idle", "check"}
        /\ \A g \in Handlers : g # h => handler'[g] = handler[g]
    <3>1. CASE x.record = record
      BY <1>0, <2>2, <3>1, Moves, Shapes DEF Receive, Goto
    <3>2. CASE x.record # record
      <4>1. Goto(h, [step |-> "check", request |-> x])
        BY <2>2, <3>2 DEF Receive, Goto
      <4> QED
        BY <1>0, <4>1, Moves
    <3> QED
      BY <3>1, <3>2
  <2>4. ~At(h, "replace")'
    BY <2>3 DEF At
  <2> QED
    BY <1>3, <2>1, <2>3, <2>4, ExchangeQuiet
<1>6. ASSUME NEW h \in Handlers, CheckChallenge(h)
      PROVE  \E S \in SUBSET Devices : Promise!Lose(S)
  <2>1. \/ Goto(h, Idle)
        \/ Goto(h, [step |-> "clear", request |-> handler[h].request])
    BY <1>6 DEF CheckChallenge
  <2>2. /\ handler'[h].step \in {"idle", "clear"}
        /\ \A g \in Handlers : g # h => handler'[g] = handler[g]
    BY <1>0, <2>1, Moves, Shapes
  <2>3. ~At(h, "replace") /\ challenge' = challenge
    BY <1>6 DEF CheckChallenge, At
  <2>4. ~At(h, "replace")'
    BY <2>2 DEF At
  <2> QED
    BY <1>3, <2>2, <2>3, <2>4, ExchangeQuiet
<1>7. ASSUME NEW h \in Handlers, ClearChallenge(h)
      PROVE  \E S \in SUBSET Devices : Promise!Lose(S)
  <2> DEFINE d == HandlerDevice[h]
             x == handler[h].request
  <2>1. At(h, "clear") /\ d \in Devices /\ x.device = d /\ challenge[d] = x.signature
    BY <1>0, <1>7, Locals DEF ClearChallenge, IInv, Running, Finishing, Once, At
  <2>2. /\ handler'[h] = [step |-> "replace", request |-> x]
        /\ \A g \in Handlers : g # h => handler'[g] = handler[g]
    BY <1>0, <1>7, Moves DEF ClearChallenge
  <2>3. \A e \in Devices : e # d => challenge'[e] = challenge[e]
    BY <1>0, <1>7, <2>1 DEF ClearChallenge, TypeOK
  <2>4. Outstanding[d] = x.signature
    BY <2>1, OutstandingOfSlot DEF OutstandingIs, At
  <2>5. Outstanding'[d] = x.signature
    BY <2>2, OutstandingOfSlot DEF OutstandingIs, At
  <2>6. \A e \in Devices : Outstanding'[e] = Outstanding[e]
    BY <2>2, <2>3, <2>4, <2>5, OthersOutstanding
  <2> QED
    BY <1>3, <2>6, ExchangeLoss
<1>8. ASSUME NEW h \in Handlers, Fails(h)
      PROVE  \E S \in SUBSET Devices : Promise!Lose(S)
  <2> DEFINE d == HandlerDevice[h]
  <2>1. /\ handler'[h].step = "idle" /\ challenge' = challenge
        /\ \A g \in Handlers : g # h => handler'[g] = handler[g]
    BY <1>0, <1>8, Moves, Shapes DEF Fails
  <2>2. Outstanding'[d] = challenge[d]
    BY <2>1, OutstandingOfSlot DEF OutstandingIs, At
  <2>3. Outstanding[d] = challenge[d] \/ challenge[d] = None
    BY OutstandingOfSlot DEF OutstandingIs, Once
  <2>4. \A e \in Devices : e # d => Outstanding'[e] = Outstanding[e]
    BY <2>1, OthersOutstanding
  <2>5. \A e \in Devices : Outstanding'[e] \in {None, Outstanding[e]}
    BY <2>2, <2>3, <2>4
  <2> QED
    BY <1>3, <2>5, ExchangeLoss
<1>9. CASE Crash
  <2>1. /\ \A g \in Handlers : handler'[g].step = "idle"
        /\ challenge' = challenge
    BY <1>9, Shapes DEF Crash
  <2>2. ASSUME NEW d \in Devices
        PROVE  Outstanding'[d] \in {None, Outstanding[d]}
    <3>1. CASE \E g \in Handlers : HandlerDevice[g] = d
      <4>1. PICK g \in Handlers : HandlerDevice[g] = d
        BY <3>1
      <4>2. OutstandingIs(g) /\ OutstandingIs(g)'
        BY OutstandingOfSlot
      <4>3. Outstanding'[d] = challenge[d]
        BY <2>1, <4>1, <4>2 DEF OutstandingIs, At
      <4>4. Outstanding[d] = challenge[d] \/ challenge[d] = None
        BY <4>1, <4>2 DEF OutstandingIs, Once
      <4> QED
        BY <4>3, <4>4
    <3>2. CASE \A g \in Handlers : HandlerDevice[g] # d
      BY <2>1, <3>2, OutstandingElsewhere DEF WithoutSlot
    <3> QED
      BY <3>1, <3>2
  <2> QED
    BY <1>3, <2>2, ExchangeLoss
<1> QED
  BY <1>4, <1>5, <1>6, <1>7, <1>8, <1>9 DEF Next

\* With one request in flight per device the three calls of rotateFinish implement the
\* atomic exchange of a challenge for a fresh record, for any number of devices and
\* whatever fails between the calls (rotation.service.ts:87-89, 129-149).
THEOREM ServerImplementsExchange ==
  ASSUME OneRequestPerDevice
  PROVE  Spec => ImplementsExchange
<1>1. Init => Promise!ExchangeInit
  <2> SUFFICES ASSUME Init PROVE Promise!ExchangeInit
    OBVIOUS
  <2>1. \A h \in Handlers : ~At(h, "replace")
    BY DEF Init, Idle, At
  <2>2. \A d \in Devices : Replacing(d) = {}
    BY <2>1 DEF Replacing
  <2>3. Outstanding = [d \in Devices |-> 0]
    BY <2>2 DEF Outstanding, Init, None
  <2>4. Installed = {}
    BY DEF Installed, Init
  <2> QED
    BY <2>3, <2>4 DEF Init, Promise!ExchangeInit
<1>2. IInv /\ Once /\ [Next]_vars
        => [Promise!ExchangeNext]_<<record, issued, Outstanding, Installed>>
  BY ExchangeStep
<1> QED
  BY <1>1, <1>2, Invariant, OnceAlways, PTL DEF Spec, ImplementsExchange,
     Promise!ExchangeSpec

===============================================================================
