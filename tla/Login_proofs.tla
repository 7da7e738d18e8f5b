------------------------------ MODULE Login_proofs ------------------------------
(***************************************************************************)
(* Proofs about Login: whatever the number of clients, requests in flight  *)
(* and logins, a login is consumed once and only by a client that knows    *)
(* the password, only the user's own devices replace a record, and the     *)
(* handlers implement the atomic operations of Accounts.                   *)
(***************************************************************************)
EXTENDS Login, TLAPS

\* What the tables, the map and the handlers know of login states: every one that is
\* named was made, a KE3 comes from the right password, and what is about to become
\* a device has had its KE3 verified.
StatesExist ==
  \A s \in Slots : slot[s].step \in {"ke2", "verify", "device"} =>
    slot[s].state \in DOMAIN states

PendingOfEmail ==
  \A e \in Emails : pendingLogins[e] # None =>
    /\ pendingLogins[e] \in DOMAIN states
    /\ states[pendingLogins[e]].email = e

Verified ==
  /\ \A k \in ke3s : states[k].password = states[k].record
  /\ \A s \in Slots : slot[s].step = "verify" => slot[s].ke3 \in {None} \cup ke3s
  /\ \A s \in Slots : slot[s].step = "device" => slot[s].state \in ke3s
  /\ \A i \in DOMAIN devices :
       /\ devices[i].state \in ke3s
       /\ devices[i].email = states[devices[i].state].email

\* A request to replace a record is one of a device that was created.
Requesting ==
  \A s \in Slots : slot[s].step \in {"rotate", "replace"} => slot[s].device \in DOMAIN devices

\* A handler between taking a login from the map and the end of loginFinish.
Taken(s) == slot[s].step \in {"verify", "device"}

\* A login state is pending, or taken by one handler, or spent on one device.
OneUse ==
  /\ \A e \in Emails, s \in Slots :
       pendingLogins[e] # None /\ Taken(s) => slot[s].state # pendingLogins[e]
  /\ \A e \in Emails : \A i \in DOMAIN devices :
       pendingLogins[e] # None => devices[i].state # pendingLogins[e]
  /\ \A s, t \in Slots : s # t /\ Taken(s) /\ Taken(t) => slot[s].state # slot[t].state
  /\ \A s \in Slots : \A i \in DOMAIN devices :
       Taken(s) => devices[i].state # slot[s].state
  /\ \A i, j \in DOMAIN devices : devices[i].state = devices[j].state => i = j

IInv == TypeOK /\ StatesExist /\ PendingOfEmail /\ Verified /\ Requesting /\ OneUse

-------------------------------------------------------------------------------
\* What the type of a slot gives an action that finds a request in it.
LEMMA Locals ==
  ASSUME TypeOK, NEW s \in Slots
  PROVE  /\ slot[s].step \in {"create", "find", "respond"} =>
              slot[s].email \in Emails /\ slot[s].password \in Passwords
         /\ slot[s].step = "respond" => slot[s].record \in Passwords
         /\ slot[s].step \in {"ke2", "verify", "device"} => slot[s].state \in StateId
         /\ slot[s].step \in {"rotate", "replace"} => slot[s].device \in Nat
         /\ slot[s].step = "rotate" => slot[s].password \in Passwords \cup {Malformed}
         /\ slot[s].step = "replace" => slot[s].password \in Passwords
  BY DEF TypeOK, Slot, Idle

\* A login state was made for an e-mail.
LEMMA OfEmail ==
  ASSUME TypeOK, NEW k \in DOMAIN states
  PROVE  states[k].email \in Emails
<1> DEFINE Login == [email : Emails, password : Passwords, record : Passwords]
<1>1. states \in Seq(Login)
  BY DEF TypeOK
<1>2. states[k] \in Login
  <2> HIDE DEF Login
  <2> QED
    BY <1>1
<1> QED
  BY <1>2

\* So was a device, which keeps its e-mail and login state when a token expires.
LEMMA Expired ==
  ASSUME TypeOK, TokenExpires
  PROVE  /\ devices' \in Seq(Device) /\ DOMAIN devices' = DOMAIN devices
         /\ \A i \in DOMAIN devices : /\ devices'[i].email = devices[i].email
                                     /\ devices'[i].state = devices[i].state
         /\ UNCHANGED <<users, pendingLogins, states, slot, ke3s>>
<1>1. PICK d \in DOMAIN devices :
        devices' = [devices EXCEPT ![d].tokens = IF "session" \in @ THEN {"refresh"} ELSE {}]
  BY DEF TokenExpires
<1> DEFINE rest == IF "session" \in devices[d].tokens THEN {"refresh"} ELSE {}
           device == [devices[d] EXCEPT !.tokens = rest]
<1>2. devices \in Seq(Device)
  BY DEF TypeOK
<1>3. devices[d] \in Device
  BY <1>2
<1>4. rest \in SUBSET Tokens
  BY DEF Tokens
<1>5. devices' = [devices EXCEPT ![d] = device]
  BY <1>1
<1>6. device.email = devices[d].email /\ device.state = devices[d].state /\ device \in Device
  <2> HIDE DEF rest
  <2> QED
    BY <1>3, <1>4 DEF Device
<1> HIDE DEF device
<1>7. devices' \in Seq(Device) /\ DOMAIN devices' = DOMAIN devices
  BY <1>2, <1>5, <1>6
<1>8. \A i \in DOMAIN devices : i # d => devices'[i] = devices[i]
  BY <1>2, <1>5
<1>9. devices'[d] = device
  BY <1>2, <1>5
<1> QED
  BY <1>6, <1>7, <1>8, <1>9 DEF TokenExpires

\* What Respond does to the login states: one is added at the end.
LEMMA Added ==
  ASSUME TypeOK, NEW s \in Slots, Respond(s)
  PROVE  /\ Len(states) + 1 \in StateId
         /\ Len(states) + 1 \notin DOMAIN states
         /\ DOMAIN states' = DOMAIN states \cup {Len(states) + 1}
         /\ states' \in Seq([email : Emails, password : Passwords, record : Passwords])
         /\ Len(states') <= MaxStates
         /\ \A k \in DOMAIN states : states'[k] = states[k]
         /\ states'[Len(states) + 1].email = slot[s].email
<1> USE LoginAssumption
<1>1. /\ slot[s].email \in Emails /\ slot[s].password \in Passwords
      /\ slot[s].record \in Passwords
  BY Locals DEF Respond, At
<1> DEFINE login == [email |-> slot[s].email, password |-> slot[s].password,
                     record |-> slot[s].record]
<1>2. /\ login \in [email : Emails, password : Passwords, record : Passwords]
      /\ login.email = slot[s].email
      /\ states' = Append(states, login)
  BY <1>1 DEF Respond
<1>3. /\ states \in Seq([email : Emails, password : Passwords, record : Passwords])
      /\ Len(states) < MaxStates
  BY DEF TypeOK, Respond
<1> HIDE DEF login
<1> QED
  BY <1>2, <1>3 DEF StateId

\* The initial state satisfies the invariant.
LEMMA Initially == Init => IInv
<1> SUFFICES ASSUME Init PROVE IInv
  OBVIOUS
<1> USE LoginAssumption DEF Init
<1>1. TypeOK
  BY DEF TypeOK, Record, Slot, Idle, None
<1>2. /\ \A s \in Slots : slot[s].step = "idle"
      /\ \A e \in Emails : pendingLogins[e] = None
      /\ DOMAIN devices = {} /\ ke3s = {}
  BY DEF Idle
<1> QED
  BY <1>1, <1>2 DEF IInv, StatesExist, PendingOfEmail, Verified, Requesting, OneUse, Taken

\* Registration, the first half of loginStart, a lost KE2, rotateFinish and a rejected
\* request touch no login state.
LEMMA UntouchedStep ==
  ASSUME IInv, NEW s \in Slots,
         \/ RegisterFinish(s) \/ CreateUser(s) \/ LoginStart(s) \/ FindUser(s)
         \/ Ke2Lost(s) \/ RotateFinish(s) \/ Inspect(s) \/ Replace(s) \/ Rejected(s)
  PROVE  IInv'
<1> USE LoginAssumption
<1>1. UNCHANGED <<pendingLogins, states, ke3s, devices>>
  BY DEF RegisterFinish, CreateUser, LoginStart, FindUser, Ke2Lost, RotateFinish, Inspect,
         Replace, Rejected
<1>2. TypeOK
  BY DEF IInv
<1> DEFINE Harmless(t) ==
             \/ slot'[t] = slot[t]
             \/ slot'[t].step \in {"idle", "create", "find", "respond"}
             \/ slot'[t].step \in {"rotate", "replace"} /\ slot'[t].device \in DOMAIN devices
<1>3. /\ users' \in [Emails -> Record]
      /\ slot' \in [Slots -> Slot]
      /\ \A t \in Slots : Harmless(t)
  <2> USE <1>2 DEF TypeOK, At, Goto
  <2>1. CASE RegisterFinish(s)
    <3>1. PICK e \in Emails, p \in Passwords \cup {Malformed} :
            /\ WellFormed(p)
            /\ slot' = [slot EXCEPT ![s] = [step |-> "create", email |-> e, password |-> p]]
      BY <2>1 DEF RegisterFinish
    <3>2. [step |-> "create", email |-> e, password |-> p] \in Slot
      BY <3>1 DEF WellFormed, Slot
    <3> QED
      BY <2>1, <3>1, <3>2 DEF RegisterFinish
  <2>2. CASE CreateUser(s)
    BY <2>2, Locals DEF CreateUser, Slot, Idle, Record
  <2>3. CASE LoginStart(s)
    BY <2>3 DEF LoginStart, Slot
  <2>4. CASE FindUser(s)
    <3>1. slot[s].email \in Emails /\ slot[s].password \in Passwords
      BY <2>4, Locals DEF FindUser
    <3>2. CASE users[slot[s].email] = NoRecord
      BY <2>4, <3>2 DEF FindUser, Slot, Idle
    <3>3. CASE users[slot[s].email] # NoRecord
      <4>1. users[slot[s].email] \in Passwords
        BY <3>1, <3>3 DEF Record
      <4>2. [step |-> "respond", email |-> slot[s].email, password |-> slot[s].password,
             record |-> users[slot[s].email]] \in Slot
        BY <3>1, <4>1 DEF Slot
      <4> QED
        BY <2>4, <3>3, <4>2 DEF FindUser
    <3> QED
      BY <3>2, <3>3
  <2>5. CASE Ke2Lost(s) \/ Rejected(s)
    <3>1. slot' = [slot EXCEPT ![s] = Idle] /\ users' = users
      BY <2>5 DEF Ke2Lost, Rejected
    <3> QED
      BY <3>1 DEF Slot, Idle
  <2>6. CASE RotateFinish(s)
    <3>1. PICK d \in DOMAIN devices, p \in Passwords \cup {Malformed} :
            slot' = [slot EXCEPT ![s] = [step |-> "rotate", device |-> d, password |-> p]]
      BY <2>6 DEF RotateFinish
    <3>2. d \in Nat
      <4> HIDE DEF Device
      <4> QED
        BY DEF TypeOK
    <3>3. [step |-> "rotate", device |-> d, password |-> p] \in Slot
      BY <3>2 DEF Slot
    <3> QED
      BY <2>6, <3>1, <3>3 DEF RotateFinish
  <2>7. CASE Inspect(s)
    <3>1. slot[s].step = "rotate" /\ slot[s].device \in DOMAIN devices /\ slot[s].device \in Nat
          /\ slot[s].password \in Passwords \cup {Malformed}
      BY <2>7, Locals DEF Inspect, IInv, Requesting
    <3>2. CASE slot' = [slot EXCEPT ![s] = Idle]
      BY <2>7, <3>2 DEF Inspect, Slot, Idle
    <3>3. CASE /\ WellFormed(slot[s].password)
               /\ slot' = [slot EXCEPT ![s] = [slot[s] EXCEPT !.step = "replace"]]
      <4> DEFINE next == [step |-> "replace", device |-> slot[s].device,
                          password |-> slot[s].password]
      <4>1. [slot[s] EXCEPT !.step = "replace"] = next
        BY <3>1, SMTT(30) DEF Slot, Idle
      <4>2. next \in Slot /\ next.step = "replace" /\ next.device = slot[s].device
        BY <3>1, <3>3 DEF WellFormed, Slot
      <4> HIDE DEF next
      <4> QED
        BY <2>7, <3>1, <3>3, <4>1, <4>2 DEF Inspect
    <3> QED
      BY <2>7, <3>2, <3>3 DEF Inspect
  <2>8. CASE Replace(s)
    BY <2>8, Locals DEF Replace, Slot, Idle, Record
  <2> QED
    BY <2>1, <2>2, <2>3, <2>4, <2>5, <2>6, <2>7, <2>8
<1>4. TypeOK'
  BY <1>1, <1>2, <1>3 DEF TypeOK
<1>5. StatesExist' /\ PendingOfEmail' /\ Verified'
  BY <1>1, <1>3 DEF IInv, StatesExist, PendingOfEmail, Verified
<1>6. Requesting'
  BY <1>1, <1>3 DEF IInv, Requesting
<1>7. OneUse'
  BY <1>1, <1>3 DEF IInv, OneUse, Taken
<1> QED
  BY <1>4, <1>5, <1>6, <1>7 DEF IInv

\* The end of a token changes neither whose a device is nor which login made it.
LEMMA ExpiryStep ==
  ASSUME IInv, TokenExpires
  PROVE  IInv'
<1>1. TypeOK
  BY DEF IInv
<1>2. /\ devices' \in Seq(Device) /\ DOMAIN devices' = DOMAIN devices
      /\ \A i \in DOMAIN devices : /\ devices'[i].email = devices[i].email
                                  /\ devices'[i].state = devices[i].state
      /\ UNCHANGED <<users, pendingLogins, states, slot, ke3s>>
  BY <1>1, Expired
<1>3. TypeOK'
  BY <1>1, <1>2 DEF TypeOK
<1>4. StatesExist' /\ PendingOfEmail' /\ Verified' /\ Requesting'
  BY <1>2 DEF IInv, StatesExist, PendingOfEmail, Verified, Requesting
<1>5. OneUse'
  BY <1>2 DEF IInv, OneUse, Taken
<1> QED
  BY <1>3, <1>4, <1>5 DEF IInv

\* loginStart ends: the new state is nowhere but in the map.
LEMMA RespondStep ==
  ASSUME IInv, NEW s \in Slots, Respond(s)
  PROVE  IInv'
<1> DEFINE new == Len(states) + 1
<1>1. TypeOK
  BY DEF IInv
<1>2. /\ new \in StateId /\ new \notin DOMAIN states
      /\ DOMAIN states' = DOMAIN states \cup {new}
      /\ states' \in Seq([email : Emails, password : Passwords, record : Passwords])
      /\ Len(states') <= MaxStates
      /\ \A k \in DOMAIN states : states'[k] = states[k]
      /\ states'[new].email = slot[s].email
  BY <1>1, Added
<1>3. /\ slot[s].email \in Emails
      /\ pendingLogins' = [pendingLogins EXCEPT ![slot[s].email] = new]
      /\ slot' = [slot EXCEPT ![s] = [step |-> "ke2", state |-> new]]
      /\ UNCHANGED <<users, ke3s, devices>>
  BY <1>1, Locals DEF Respond, At, Goto
<1>4. new # None
  BY <1>2, LoginAssumption DEF StateId, None
<1> HIDE DEF new
<1>5. slot' \in [Slots -> Slot] /\ pendingLogins' \in [Emails -> {None} \cup StateId]
  BY <1>1, <1>2, <1>3 DEF TypeOK, Slot
<1>6. TypeOK'
  BY <1>1, <1>2, <1>3, <1>5 DEF TypeOK
<1>7. /\ \A e \in Emails : \/ pendingLogins'[e] = pendingLogins[e]
                           \/ pendingLogins'[e] = new /\ e = slot[s].email
      /\ \A t \in Slots : t # s => slot'[t] = slot[t]
      /\ slot'[s].step = "ke2" /\ slot'[s].state = new
  BY <1>1, <1>3 DEF TypeOK
<1>8. StatesExist'
  BY <1>2, <1>7 DEF IInv, StatesExist
<1>9. PendingOfEmail'
  BY <1>2, <1>3, <1>7 DEF IInv, PendingOfEmail
<1>10. Verified'
  BY <1>1, <1>2, <1>3, <1>7 DEF IInv, TypeOK, Verified
<1>11. /\ \A t \in Slots : Taken(t)' => Taken(t) /\ slot'[t] = slot[t]
       /\ \A t \in Slots : Taken(t) => slot[t].state # new
       /\ \A i \in DOMAIN devices : devices[i].state # new
  BY <1>1, <1>2, <1>7 DEF IInv, StatesExist, Verified, TypeOK, Taken
<1>12. OneUse'
  BY <1>3, <1>7, <1>11 DEF IInv, OneUse
<1>13. Requesting'
  BY <1>3, <1>7 DEF IInv, Requesting
<1> QED
  BY <1>6, <1>8, <1>9, <1>10, <1>12, <1>13 DEF IInv

\* KE2 arrives: a KE3 comes into being only with the right password.
LEMMA Ke2Step ==
  ASSUME IInv, NEW s \in Slots, Ke2Arrives(s)
  PROVE  IInv'
<1>1. TypeOK
  BY DEF IInv
<1>2. /\ slot[s].step = "ke2" /\ slot[s].state \in DOMAIN states
      /\ slot' = [slot EXCEPT ![s] = Idle]
      /\ UNCHANGED <<users, pendingLogins, states, devices>>
      /\ ke3s' = IF states[slot[s].state].password = states[slot[s].state].record
                   THEN ke3s \cup {slot[s].state} ELSE ke3s
  BY DEF Ke2Arrives, At, Goto, IInv, StatesExist
<1>3. \A t \in Slots : slot'[t] = slot[t] \/ slot'[t].step = "idle"
  BY <1>1, <1>2 DEF TypeOK, Idle
<1>4. TypeOK'
  BY <1>1, <1>2 DEF TypeOK, Slot
<1>5. StatesExist' /\ PendingOfEmail'
  BY <1>2, <1>3 DEF IInv, StatesExist, PendingOfEmail
<1>6. Verified' /\ Requesting'
  BY <1>2, <1>3 DEF IInv, Verified, Requesting
<1>7. OneUse'
  BY <1>2, <1>3 DEF IInv, OneUse, Taken
<1> QED
  BY <1>4, <1>5, <1>6, <1>7 DEF IInv

\* loginFinish takes the pending login out of the map.
LEMMA FinishStep ==
  ASSUME IInv, NEW s \in Slots, LoginFinish(s)
  PROVE  IInv'
<1>1. TypeOK
  BY DEF IInv
<1>2. PICK e \in Emails, ke3 \in {None} \cup ke3s :
        /\ pendingLogins[e] # None
        /\ pendingLogins' = [pendingLogins EXCEPT ![e] = None]
        /\ slot' = [slot EXCEPT ![s] =
                      [step |-> "verify", state |-> pendingLogins[e], ke3 |-> ke3]]
  BY DEF LoginFinish, Goto
<1>3. slot[s].step = "idle" /\ UNCHANGED <<users, states, ke3s, devices>>
  BY DEF LoginFinish, At
<1>4. /\ pendingLogins[e] \in DOMAIN states
      /\ states[pendingLogins[e]].email = e
  BY <1>2 DEF IInv, PendingOfEmail
<1>5. pendingLogins[e] \in StateId /\ ke3s \subseteq StateId
  BY <1>1, <1>2, LoginAssumption DEF TypeOK, StateId
<1>6. slot' \in [Slots -> Slot] /\ pendingLogins' \in [Emails -> {None} \cup StateId]
  BY <1>1, <1>2, <1>5 DEF TypeOK, Slot
<1>7. TypeOK'
  BY <1>1, <1>3, <1>6 DEF TypeOK
<1>8. /\ \A f \in Emails : pendingLogins'[f] # None =>
           f # e /\ pendingLogins'[f] = pendingLogins[f]
      /\ \A t \in Slots : t # s => slot'[t] = slot[t]
      /\ slot'[s].step = "verify" /\ slot'[s].state = pendingLogins[e] /\ slot'[s].ke3 = ke3
  BY <1>1, <1>2 DEF TypeOK
<1>9. StatesExist'
  BY <1>3, <1>4, <1>8 DEF IInv, StatesExist
<1>10. PendingOfEmail'
  BY <1>3, <1>8 DEF IInv, PendingOfEmail
<1>11. Verified' /\ Requesting'
  BY <1>3, <1>8 DEF IInv, Verified, Requesting
<1>12. \A f \in Emails : pendingLogins'[f] # None => pendingLogins'[f] # pendingLogins[e]
  BY <1>4, <1>8 DEF IInv, PendingOfEmail
<1>13. OneUse'
  BY <1>2, <1>3, <1>8, <1>12 DEF IInv, OneUse, Taken
<1> QED
  BY <1>7, <1>9, <1>10, <1>11, <1>13 DEF IInv

\* Only the KE3 of the very state goes through, one that a client could compute.
LEMMA VerifyStep ==
  ASSUME IInv, NEW s \in Slots, VerifyKe3(s)
  PROVE  IInv'
<1>1. TypeOK
  BY DEF IInv
<1>2. /\ slot[s].step = "verify" /\ slot[s].state \in DOMAIN states
      /\ slot[s].state \in StateId
      /\ UNCHANGED <<users, pendingLogins, states, ke3s, devices>>
  BY <1>1, Locals DEF VerifyKe3, At, IInv, StatesExist
<1>3. slot[s].ke3 = slot[s].state => slot[s].state \in ke3s
  BY <1>2, LoginAssumption DEF IInv, Verified, StateId, None
<1>4. \/ /\ slot[s].state \in ke3s
         /\ slot' = [slot EXCEPT ![s] = [step |-> "device", state |-> slot[s].state]]
      \/ slot' = [slot EXCEPT ![s] = Idle]
  BY <1>3 DEF VerifyKe3, Goto
<1>5. TypeOK'
  BY <1>1, <1>2, <1>4 DEF TypeOK, Slot
<1>6. /\ \A t \in Slots : t # s => slot'[t] = slot[t]
      /\ \/ slot'[s].step = "device" /\ slot'[s].state = slot[s].state /\ slot[s].state \in ke3s
         \/ slot'[s].step = "idle"
  BY <1>1, <1>4 DEF TypeOK, Idle
<1>7. StatesExist' /\ PendingOfEmail' /\ Verified' /\ Requesting'
  BY <1>2, <1>6 DEF IInv, StatesExist, PendingOfEmail, Verified, Requesting
<1>8. OneUse'
  BY <1>2, <1>6 DEF IInv, OneUse, Taken
<1> QED
  BY <1>5, <1>7, <1>8 DEF IInv

\* The device is created and the state is spent.
LEMMA DeviceStep ==
  ASSUME IInv, NEW s \in Slots, CreateDevice(s)
  PROVE  IInv'
<1>1. TypeOK
  BY DEF IInv
<1> DEFINE k == slot[s].state
           device == [email |-> states[k].email, state |-> k, tokens |-> Tokens]
<1>2. /\ slot[s].step = "device" /\ k \in DOMAIN states /\ k \in StateId /\ k \in ke3s
      /\ slot' = [slot EXCEPT ![s] = Idle]
      /\ devices' = Append(devices, device)
      /\ UNCHANGED <<users, pendingLogins, states, ke3s>>
  BY <1>1, Locals DEF CreateDevice, At, Goto, IInv, StatesExist, Verified
<1>3. device \in Device
  <2>1. states[k].email \in Emails
    BY <1>1, <1>2, OfEmail
  <2> QED
    BY <1>2, <2>1 DEF Device
<1>4. device.state = k /\ device.email = states[k].email
  OBVIOUS
<1> HIDE DEF device, k
<1>5. /\ devices' \in Seq(Device)
      /\ DOMAIN devices' = DOMAIN devices \cup {Len(devices) + 1}
      /\ Len(devices) + 1 \notin DOMAIN devices
      /\ \A i \in DOMAIN devices : devices'[i] = devices[i]
      /\ devices'[Len(devices) + 1] = device
  BY <1>1, <1>2, <1>3 DEF TypeOK
<1>6. TypeOK'
  BY <1>1, <1>2, <1>5 DEF TypeOK, Slot
<1>7. /\ \A t \in Slots : t # s => slot'[t] = slot[t]
      /\ slot'[s].step = "idle"
  BY <1>1, <1>2 DEF TypeOK, Idle
<1>8. StatesExist' /\ PendingOfEmail'
  BY <1>2, <1>7 DEF IInv, StatesExist, PendingOfEmail
<1>9. Verified' /\ Requesting'
  BY <1>2, <1>4, <1>5, <1>7 DEF IInv, Verified, Requesting
<1>10. /\ \A e \in Emails : pendingLogins[e] # None => pendingLogins[e] # k
       /\ \A t \in Slots : t # s /\ Taken(t) => slot[t].state # k
       /\ \A i \in DOMAIN devices : devices[i].state # k
  BY <1>2 DEF IInv, OneUse, Taken, k
<1>11. OneUse'
  BY <1>2, <1>4, <1>5, <1>7, <1>10 DEF IInv, OneUse, Taken
<1> QED
  BY <1>6, <1>8, <1>9, <1>11 DEF IInv

\* A restart leaves no state pending and none taken.
LEMMA RestartStep ==
  ASSUME IInv, Restart
  PROVE  IInv'
<1>1. /\ slot' = [s \in Slots |-> Idle]
      /\ pendingLogins' = [e \in Emails |-> None]
      /\ UNCHANGED <<users, states, ke3s, devices>>
  BY DEF Restart
<1>2. TypeOK'
  BY <1>1 DEF IInv, TypeOK, Slot
<1>3. StatesExist' /\ PendingOfEmail' /\ Verified' /\ Requesting' /\ OneUse'
  BY <1>1 DEF IInv, StatesExist, PendingOfEmail, Verified, Requesting, OneUse, Taken, Idle
<1> QED
  BY <1>2, <1>3 DEF IInv

\* The invariant is inductive.
LEMMA Inductive == IInv /\ [Next]_vars => IInv'
<1> SUFFICES ASSUME IInv, [Next]_vars PROVE IInv'
  OBVIOUS
<1>1. CASE \E s \in Slots : \/ RegisterFinish(s) \/ CreateUser(s) \/ LoginStart(s)
                            \/ FindUser(s) \/ Ke2Lost(s) \/ RotateFinish(s)
                            \/ Inspect(s) \/ Replace(s) \/ Rejected(s)
  BY <1>1, UntouchedStep
<1>2. CASE \E s \in Slots : Respond(s)
  BY <1>2, RespondStep
<1>3. CASE \E s \in Slots : Ke2Arrives(s)
  BY <1>3, Ke2Step
<1>4. CASE \E s \in Slots : LoginFinish(s)
  BY <1>4, FinishStep
<1>5. CASE \E s \in Slots : VerifyKe3(s)
  BY <1>5, VerifyStep
<1>6. CASE \E s \in Slots : CreateDevice(s)
  BY <1>6, DeviceStep
<1>7. CASE Restart
  BY <1>7, RestartStep
<1>8. CASE TokenExpires
  BY <1>8, ExpiryStep
<1>9. CASE UNCHANGED vars
  BY <1>9 DEF vars, IInv, TypeOK, StatesExist, PendingOfEmail, Verified, Requesting, OneUse,
              Taken
<1> QED
  BY <1>1, <1>2, <1>3, <1>4, <1>5, <1>6, <1>7, <1>8, <1>9 DEF Next

\* The invariant holds in every reachable state.
LEMMA Invariant == Spec => []IInv
  BY Initially, Inductive, PTL DEF Spec

-------------------------------------------------------------------------------
\* The variables keep their types, for any number of clients and requests.
THEOREM Typing == Spec => []TypeOK
<1>1. IInv => TypeOK
  BY DEF IInv
<1> QED
  BY <1>1, Invariant, PTL

\* A login yields one device, whoever repeats KE3 (auth.service.ts:98).
THEOREM NeverTwice == Spec => []ConsumedOnce
<1>1. IInv => ConsumedOnce
  BY DEF IInv, OneUse, ConsumedOnce
<1> QED
  BY <1>1, Invariant, PTL

\* A device belongs to a client that used the right password (auth.service.ts:101).
THEOREM OnlyWithPassword == Spec => []Authenticated
<1>1. IInv => Authenticated
  BY DEF IInv, Verified, Authenticated, LoggedIn
<1> QED
  BY <1>1, Invariant, PTL

\* A login state is pending, taken or spent, and never two of these.
THEOREM PendingTakenSpent == Spec => []OnePlace
<1>1. IInv => OnePlace
  BY DEF IInv, OneUse, Taken, PendingOfEmail, OnePlace, At
<1> QED
  BY <1>1, Invariant, PTL

\* The record of an existing user changes only in the request of a device of that user
\* (postgres-users.repository.ts:57-63, rotation-auth.guard.ts:38).
THEOREM ReplacedByOwner == Spec => OnlyOwnerReplaces
<1> DEFINE Step ==
      /\ \A e \in Emails : users[e] # NoRecord /\ users'[e] # users[e] =>
           \E s \in Slots :
             /\ At(s, "replace")
             /\ devices[slot[s].device].email = e
             /\ LoggedIn(devices[slot[s].device])
             /\ users'[e] = slot[s].password /\ slot'[s] = Idle
      /\ \A s \in Slots : At(s, "idle") /\ slot'[s].step = "rotate" =>
           devices[slot'[s].device].tokens # {}
<1>1. ASSUME IInv, Next, NEW e \in Emails, users[e] # NoRecord, users'[e] # users[e]
      PROVE  \E s \in Slots : /\ At(s, "replace")
                              /\ devices[slot[s].device].email = e
                              /\ LoggedIn(devices[slot[s].device])
                              /\ users'[e] = slot[s].password /\ slot'[s] = Idle
  <2>1. ASSUME NEW t \in Slots, CreateUser(t) PROVE FALSE
    BY <1>1, <2>1 DEF CreateUser, IInv, TypeOK
  <2>2. PICK t \in Slots : Replace(t)
    BY <1>1, <2>1 DEF Next, RegisterFinish, LoginStart, FindUser, Respond, Ke2Arrives,
                      Ke2Lost, LoginFinish, VerifyKe3, CreateDevice, RotateFinish, Inspect,
                      Rejected, TokenExpires, Restart
  <2>3. At(t, "replace") /\ slot[t].device \in DOMAIN devices
    BY <1>1, <2>2 DEF Replace, At, IInv, Requesting
  <2>4. devices[slot[t].device].email = e
    BY <1>1, <2>2 DEF Replace, IInv, TypeOK
  <2>5. LoggedIn(devices[slot[t].device])
    BY <1>1, <2>3 DEF IInv, Verified, LoggedIn
  <2>6. users'[e] = slot[t].password
    BY <1>1, <2>2, <2>4 DEF Replace, IInv, TypeOK
  <2>7. slot'[t] = Idle
    BY <1>1, <2>2 DEF Replace, Goto, IInv, TypeOK
  <2> QED
    BY <2>3, <2>4, <2>5, <2>6, <2>7
<1>2. ASSUME IInv, Next, NEW s \in Slots, At(s, "idle"), slot'[s].step = "rotate"
      PROVE  devices[slot'[s].device].tokens # {}
  <2>1. slot[s].step = "idle" /\ slot \in [Slots -> Slot]
    BY <1>2 DEF At, IInv, TypeOK
  <2>2. PICK t \in Slots : RotateFinish(t)
    <3>1. ASSUME NEW t \in Slots,
                 \/ RegisterFinish(t) \/ LoginStart(t) \/ Respond(t) \/ LoginFinish(t)
                 \/ CreateUser(t) \/ Ke2Arrives(t) \/ Ke2Lost(t) \/ CreateDevice(t)
                 \/ Replace(t) \/ Rejected(t)
          PROVE  FALSE
      BY <1>2, <2>1, <3>1 DEF RegisterFinish, LoginStart, Respond, LoginFinish, CreateUser,
           Ke2Arrives, Ke2Lost, CreateDevice, Replace, Rejected, Goto, Idle
    <3>2. ASSUME NEW t \in Slots, FindUser(t) PROVE FALSE
      BY <1>2, <2>1, <3>2 DEF FindUser, Goto, Idle
    <3>3. ASSUME NEW t \in Slots, VerifyKe3(t) PROVE FALSE
      BY <1>2, <2>1, <3>3 DEF VerifyKe3, Goto, Idle
    <3>4. ASSUME NEW t \in Slots, Inspect(t) PROVE FALSE
      <4>1. slot[t].step = "rotate" /\ t # s
        BY <2>1, <3>4 DEF Inspect, At
      <4>2. slot'[s] = slot[s]
        BY <2>1, <3>4, <4>1 DEF Inspect, Goto
      <4> QED
        BY <1>2, <2>1, <4>2
    <3>5. CASE TokenExpires \/ Restart
      BY <1>2, <2>1, <3>5 DEF TokenExpires, Restart, Idle
    <3> QED
      BY <1>2, <3>1, <3>2, <3>3, <3>4, <3>5 DEF Next
  <2>3. PICK d \in DOMAIN devices, token \in Tokens, p \in Passwords \cup {Malformed} :
          /\ RotationAuthGuard(d, token)
          /\ slot' = [slot EXCEPT ![t] = [step |-> "rotate", device |-> d, password |-> p]]
    BY <2>2 DEF RotateFinish, Goto
  <2>4. slot'[s].device = d
    BY <1>2, <2>1, <2>3
  <2> QED
    BY <2>3, <2>4 DEF RotationAuthGuard
<1>3. IInv /\ [Next]_vars => [Step]_vars
  BY <1>1, <1>2
<1> QED
  BY <1>3, Invariant, PTL DEF Spec, OnlyOwnerReplaces

-------------------------------------------------------------------------------
\* The handlers as atomic operations.  A login is open while it is in the map or taken.
Somewhere(k) ==
  \/ \E e \in Emails : pendingLogins[e] # None /\ pendingLogins[e] = k
  \/ \E s \in Slots : Taken(s) /\ slot[s].state = k

LEMMA OpenIs ==
  /\ \A k : k \in Open <=> Somewhere(k)
  /\ \A k : k \in Open' <=> Somewhere(k)'
BY DEF Open, Somewhere, Taken

\* A slot that takes no login and has none leaves the open logins alone.
LEMMA OpenStays ==
  ASSUME NEW s \in Slots, pendingLogins' = pendingLogins, ~Taken(s), ~Taken(s)',
         \A t \in Slots : t # s => slot'[t] = slot[t]
  PROVE  Open' = Open
<1>1. ASSUME NEW k PROVE Somewhere(k)' <=> Somewhere(k)
  <2>1. ASSUME NEW t \in Slots
        PROVE  Taken(t)' /\ slot'[t].state = k <=> Taken(t) /\ slot[t].state = k
    <3>1. CASE t = s
      BY <3>1
    <3>2. CASE t # s
      BY <3>2 DEF Taken
    <3> QED
      BY <3>1, <3>2
  <2> QED
    BY <2>1 DEF Somewhere
<1> QED
  BY <1>1, OpenIs

\* A handler that lets go of its login ends that one: it is in no other place.
LEMMA OpenEnds ==
  ASSUME IInv, NEW s \in Slots, pendingLogins' = pendingLogins, Taken(s), ~Taken(s)',
         \A t \in Slots : t # s => slot'[t] = slot[t]
  PROVE  slot[s].state \in Open /\ Open' = Open \ {slot[s].state}
<1>1. /\ \A e \in Emails : pendingLogins[e] # None => pendingLogins[e] # slot[s].state
      /\ \A t \in Slots : t # s /\ Taken(t) => slot[t].state # slot[s].state
  BY DEF IInv, OneUse
<1>2. \A t \in Slots : t # s => (Taken(t)' <=> Taken(t))
  BY DEF Taken
<1>3. \A k : Somewhere(k)' <=> Somewhere(k) /\ k # slot[s].state
  BY <1>1, <1>2 DEF Somewhere
<1>4. Somewhere(slot[s].state)
  BY DEF Somewhere
<1> QED
  BY <1>3, <1>4, OpenIs

\* A step that opens and uses nothing and changes no record.
LEMMA EndsSome ==
  ASSUME UNCHANGED <<users, states>>, Used' = Used, Open' \subseteq Open
  PROVE  Promise!AccountsNext
<1> DEFINE S == Open \ Open'
<1>1. Open' = Open \ S /\ S \in SUBSET Open
  OBVIOUS
<1> HIDE DEF Open, Used, S
<1>2. Promise!EndLogins(S)
  BY <1>1 DEF Promise!EndLogins
<1> QED
  BY <1>1, <1>2 DEF Promise!AccountsNext

\* A login is opened only for a user that exists, and users are not removed.
Known == \A s \in Slots : slot[s].step = "respond" => users[slot[s].email] # NoRecord

LEMMA KnownStep ==
  ASSUME IInv, Known, [Next]_vars
  PROVE  Known'
<1> USE LoginAssumption
<1>0. TypeOK /\ users \in [Emails -> Record] /\ slot \in [Slots -> Slot]
  BY DEF IInv, TypeOK
<1>1. \A e \in Emails : users[e] # NoRecord => users'[e] # NoRecord
  <2>1. ASSUME NEW s \in Slots, CreateUser(s), NEW e \in Emails, users[e] # NoRecord
        PROVE  users'[e] # NoRecord
    BY <1>0, <2>1 DEF CreateUser
  <2>2. ASSUME NEW s \in Slots, Replace(s), NEW e \in Emails, users[e] # NoRecord
        PROVE  users'[e] # NoRecord
    <3>1. slot[s].password \in Passwords
      BY <1>0, <2>2, Locals DEF Replace, At
    <3> QED
      BY <1>0, <2>2, <3>1 DEF Replace
  <2>3. \/ \E s \in Slots : CreateUser(s) \/ Replace(s)
        \/ users' = users
    BY DEF Next, vars, RegisterFinish, LoginStart, FindUser, Respond, Ke2Arrives, Ke2Lost,
       LoginFinish, VerifyKe3, CreateDevice, RotateFinish, Inspect, Rejected, TokenExpires,
       Restart
  <2> QED
    BY <2>1, <2>2, <2>3
<1>2. ASSUME NEW s \in Slots, slot'[s].step = "respond", slot'[s] # slot[s]
      PROVE  FindUser(s)
  <2>1. ASSUME NEW t \in Slots,
               \/ RegisterFinish(t) \/ LoginStart(t) \/ Respond(t) \/ LoginFinish(t)
               \/ CreateUser(t) \/ Ke2Arrives(t) \/ Ke2Lost(t) \/ CreateDevice(t)
               \/ Replace(t) \/ Rejected(t) \/ RotateFinish(t)
        PROVE  FALSE
    BY <1>0, <1>2, <2>1 DEF RegisterFinish, LoginStart, Respond, LoginFinish, CreateUser,
       Ke2Arrives, Ke2Lost, CreateDevice, Replace, Rejected, RotateFinish, Goto, Idle
  <2>2. ASSUME NEW t \in Slots, VerifyKe3(t) PROVE FALSE
    BY <1>0, <1>2, <2>2 DEF VerifyKe3, Goto, Idle
  <2>3. ASSUME NEW t \in Slots, Inspect(t) PROVE FALSE
    <3>1. slot[t].step = "rotate"
      BY <2>3 DEF Inspect, At
    <3> DEFINE next == [slot[t] EXCEPT !.step = "replace"]
    <3>2. next.step = "replace" /\ Idle.step = "idle"
      BY <1>0, <3>1 DEF Slot, Idle
    <3>3. slot' = [slot EXCEPT ![t] = Idle] \/ slot' = [slot EXCEPT ![t] = next]
      BY <2>3 DEF Inspect, Goto
    <3> HIDE DEF next
    <3>4. CASE s = t
      <4>1. slot'[s] = Idle \/ slot'[s] = next
        BY <1>0, <3>3, <3>4
      <4> QED
        BY <1>2, <3>2, <4>1
    <3>5. CASE s # t
      BY <1>0, <1>2, <3>3, <3>5
    <3> QED
      BY <3>4, <3>5
  <2>4. CASE TokenExpires \/ Restart \/ UNCHANGED vars
    BY <1>2, <2>4 DEF TokenExpires, Restart, Idle, vars
  <2>5. ASSUME NEW t \in Slots, FindUser(t) PROVE FindUser(s)
    BY <1>0, <1>2, <2>5 DEF FindUser, Goto
  <2> QED
    BY <2>1, <2>2, <2>3, <2>4, <2>5 DEF Next
<1>3. ASSUME NEW s \in Slots, FindUser(s), slot'[s].step = "respond"
      PROVE  users'[slot'[s].email] # NoRecord
  <2>1. /\ users[slot[s].email] # NoRecord /\ users' = users
        /\ slot'[s].email = slot[s].email
    BY <1>0, <1>3 DEF FindUser, Goto, Idle
  <2> QED
    BY <2>1
<1>4. ASSUME NEW s \in Slots, slot'[s].step = "respond", slot'[s] = slot[s]
      PROVE  users'[slot'[s].email] # NoRecord
  <2>1. slot[s].email \in Emails /\ users[slot[s].email] # NoRecord
    BY <1>0, <1>4, Locals DEF Known
  <2> QED
    BY <1>1, <1>4, <2>1
<1> QED
  BY <1>2, <1>3, <1>4 DEF Known

\* The actions that have no login of the map in hand, before or after.
LEMMA QuietSlot ==
  ASSUME TypeOK, NEW s \in Slots,
         \/ RegisterFinish(s) \/ CreateUser(s) \/ LoginStart(s) \/ FindUser(s)
         \/ Ke2Arrives(s) \/ Ke2Lost(s) \/ RotateFinish(s) \/ Inspect(s) \/ Replace(s)
  PROVE  Open' = Open
<1>1. pendingLogins' = pendingLogins
  BY DEF RegisterFinish, CreateUser, LoginStart, FindUser, Ke2Arrives, Ke2Lost,
     RotateFinish, Inspect, Replace
<1>2. ~Taken(s)
  BY DEF RegisterFinish, CreateUser, LoginStart, FindUser, Ke2Arrives, Ke2Lost,
     RotateFinish, Inspect, Replace, At, Taken
<1>3. slot \in [Slots -> Slot]
  BY DEF TypeOK
<1>4. /\ slot'[s].step \notin {"verify", "device"}
      /\ \A t \in Slots : t # s => slot'[t] = slot[t]
  <2>1. CASE RegisterFinish(s) \/ CreateUser(s) \/ LoginStart(s)
    BY <1>3, <2>1 DEF RegisterFinish, CreateUser, LoginStart, Goto, Idle
  <2>2. CASE Ke2Arrives(s) \/ Ke2Lost(s) \/ RotateFinish(s) \/ Replace(s)
    BY <1>3, <2>2 DEF Ke2Arrives, Ke2Lost, RotateFinish, Replace, Goto, Idle
  <2>3. CASE FindUser(s)
    BY <1>3, <2>3 DEF FindUser, Goto, Idle
  <2>4. CASE Inspect(s)
    <3> DEFINE next == [slot[s] EXCEPT !.step = "replace"]
    <3>1. next.step = "replace" /\ Idle.step = "idle"
      BY <1>3, <2>4 DEF Slot, Idle, Inspect, At
    <3>2. slot' = [slot EXCEPT ![s] = Idle] \/ slot' = [slot EXCEPT ![s] = next]
      BY <2>4 DEF Inspect, Goto
    <3> HIDE DEF next
    <3>3. slot'[s] = Idle \/ slot'[s] = next
      BY <1>3, <3>2
    <3> QED
      BY <1>3, <3>1, <3>2, <3>3
  <2> QED
    BY <2>1, <2>2, <2>3, <2>4
<1>5. ~Taken(s)'
  BY <1>4 DEF Taken
<1> QED
  BY <1>1, <1>2, <1>4, <1>5, OpenStays

\* Neither a restart nor a rejected request opens a login, and the logins spent stay.
LEMMA EndedStep ==
  ASSUME IInv, Restart \/ \E s \in Slots : Rejected(s) \/ VerifyKe3(s)
  PROVE  Promise!AccountsNext
<1>1. TypeOK
  BY DEF IInv
<1>2. UNCHANGED <<users, states, devices>>
  BY DEF Restart, Rejected, VerifyKe3
<1>3. Used' = Used
  BY <1>2 DEF Used
<1>4. CASE Restart
  <2>1. \A k : ~Somewhere(k)'
    BY <1>4 DEF Restart, Somewhere, Taken, Idle
  <2>2. Open' \subseteq Open
    BY <2>1, OpenIs
  <2> QED
    BY <1>2, <1>3, <2>2, EndsSome
<1>5. ASSUME NEW s \in Slots, Rejected(s) \/ VerifyKe3(s)
      PROVE  Promise!AccountsNext
  <2>1. /\ pendingLogins' = pendingLogins
        /\ \A t \in Slots : t # s => slot'[t] = slot[t]
    BY <1>1, <1>5 DEF Rejected, VerifyKe3, Goto, TypeOK
  <2>2. \/ ~Taken(s)'
        \/ Taken(s) /\ Taken(s)' /\ slot'[s].state = slot[s].state
    <3>1. CASE slot'[s] = Idle
      BY <3>1 DEF Taken, Idle
    <3>2. CASE slot'[s] # Idle
      <4>1. /\ slot[s].step = "verify"
            /\ slot' = [slot EXCEPT ![s] = [step |-> "device", state |-> slot[s].state]]
        BY <1>1, <1>5, <3>2 DEF Rejected, VerifyKe3, Goto, At, TypeOK
      <4> QED
        BY <1>1, <4>1 DEF TypeOK, Taken
    <3> QED
      BY <3>1, <3>2
  <2>3. CASE ~Taken(s)' /\ ~Taken(s)
    <3>1. Open' = Open
      BY <2>1, <2>3, OpenStays
    <3> QED
      BY <1>2, <1>3, <3>1, EndsSome
  <2>4. CASE ~Taken(s)' /\ Taken(s)
    <3>1. Open' = Open \ {slot[s].state}
      BY <2>1, <2>4, OpenEnds
    <3> QED
      BY <1>2, <1>3, <3>1, EndsSome
  <2>5. CASE Taken(s) /\ Taken(s)' /\ slot'[s].state = slot[s].state
    <3>1. ASSUME NEW k PROVE Somewhere(k)' <=> Somewhere(k)
      <4>1. ASSUME NEW t \in Slots
            PROVE  Taken(t)' /\ slot'[t].state = k <=> Taken(t) /\ slot[t].state = k
        <5>1. CASE t = s
          BY <2>5, <5>1
        <5>2. CASE t # s
          BY <2>1, <5>2 DEF Taken
        <5> QED
          BY <5>1, <5>2
      <4> QED
        BY <2>1, <4>1 DEF Somewhere
    <3>2. Open' = Open
      BY <3>1, OpenIs
    <3> QED
      BY <1>2, <1>3, <3>2, EndsSome
  <2> QED
    BY <2>2, <2>3, <2>4, <2>5
<1> QED
  BY <1>4, <1>5

\* users.create and replaceRegistrationRecord are where the record changes.
LEMMA RecordStep ==
  ASSUME IInv, NEW s \in Slots, CreateUser(s) \/ Replace(s)
  PROVE  Promise!AccountsNext
<1>1. TypeOK
  BY DEF IInv
<1>2. Open' = Open /\ UNCHANGED <<states, devices>>
  BY <1>1, QuietSlot DEF CreateUser, Replace
<1>3. Used' = Used
  BY <1>2 DEF Used
<1>4. CASE CreateUser(s) /\ users[slot[s].email] = NoRecord
  <2>1. slot[s].email \in Emails /\ slot[s].password \in Passwords
    BY <1>1, <1>4, Locals DEF CreateUser, At
  <2>2. users' = [users EXCEPT ![slot[s].email] = slot[s].password]
    BY <1>4 DEF CreateUser
  <2> HIDE DEF Open, Used
  <2>3. Promise!Register(slot[s].email, slot[s].password)
    BY <1>2, <1>3, <1>4, <2>2 DEF Promise!Register
  <2> QED
    BY <2>1, <2>3 DEF Promise!AccountsNext
<1>5. CASE CreateUser(s) /\ users[slot[s].email] # NoRecord
  <2>1. users' = users
    BY <1>1, <1>5 DEF CreateUser, TypeOK
  <2> QED
    BY <1>2, <1>3, <2>1, EndsSome
<1>6. CASE Replace(s)
  <2> DEFINE d == slot[s].device
  <2>1. d \in DOMAIN devices /\ slot[s].password \in Passwords
    BY <1>1, <1>6, Locals DEF Replace, At, IInv, Requesting
  <2>2. devices[d].email = states[devices[d].state].email
    BY <2>1 DEF IInv, Verified
  <2>3. d \in DOMAIN Used /\ Used[d] = devices[d].state
    BY <2>1 DEF Used
  <2>4. users' = [users EXCEPT ![states[Used[d]].email] = slot[s].password]
    BY <1>6, <2>2, <2>3 DEF Replace
  <2> HIDE DEF Open, Used, d
  <2>5. Promise!ReplaceRecord(d, slot[s].password)
    BY <1>2, <1>3, <2>4 DEF Promise!ReplaceRecord
  <2> QED
    BY <2>1, <2>3, <2>5 DEF Promise!AccountsNext
<1> QED
  BY <1>4, <1>5, <1>6

\* The second half of loginStart opens a login, and the one it replaces in the map, if
\* any, is of the same e-mail.
LEMMA RespondOpens ==
  ASSUME IInv, Known, NEW s \in Slots, Respond(s)
  PROVE  Promise!AccountsNext
<1> DEFINE e == slot[s].email
           new == Len(states) + 1
           old == pendingLogins[e]
           S == {old} \ {None}
<1>1. TypeOK
  BY DEF IInv
<1>2. /\ slot[s].step = "respond" /\ e \in Emails
      /\ slot[s].password \in Passwords /\ slot[s].record \in Passwords
      /\ pendingLogins' = [pendingLogins EXCEPT ![e] = new]
      /\ slot' = [slot EXCEPT ![s] = [step |-> "ke2", state |-> new]]
      /\ states' = Append(states, [email |-> e, password |-> slot[s].password,
                                   record |-> slot[s].record])
      /\ UNCHANGED <<users, devices>>
  BY <1>1, Locals DEF Respond, At, Goto
<1>3. users[e] # NoRecord
  BY <1>2 DEF Known
<1>4. new \in StateId /\ new \notin DOMAIN states
  BY <1>1, Added
<1>5. new # None
  BY <1>4, LoginAssumption DEF StateId, None
<1>6. old # None => old \in Open /\ states[old].email = e
  <2>1. old # None => Somewhere(old)
    BY <1>2 DEF Somewhere
  <2> QED
    BY <1>2, <2>1, OpenIs DEF IInv, PendingOfEmail
<1>7. ASSUME NEW k
      PROVE  Somewhere(k)' <=> k = new \/ (Somewhere(k) /\ k \notin S)
  <2>1. ASSUME NEW f \in Emails
        PROVE  pendingLogins'[f] = IF f = e THEN new ELSE pendingLogins[f]
    BY <1>1, <1>2 DEF TypeOK
  <2>2. ASSUME NEW f \in Emails, f # e, pendingLogins[f] # None
        PROVE  pendingLogins[f] \notin S
    BY <1>2, <2>2 DEF IInv, PendingOfEmail
  <2>3. ASSUME NEW t \in Slots
        PROVE  /\ Taken(t)' <=> Taken(t)
               /\ Taken(t) => slot'[t].state = slot[t].state /\ slot[t].state \notin S
    <3>1. slot'[t] = IF t = s THEN [step |-> "ke2", state |-> new] ELSE slot[t]
      BY <1>1, <1>2 DEF TypeOK
    <3>2. ~Taken(s) /\ ~Taken(s)'
      BY <1>1, <1>2 DEF TypeOK, Taken
    <3>3. Taken(t)' <=> Taken(t)
      BY <3>1, <3>2 DEF Taken
    <3>4. Taken(t) => slot'[t].state = slot[t].state
      BY <3>1, <3>2
    <3>5. Taken(t) => slot[t].state \notin S
      BY <1>2 DEF IInv, OneUse
    <3> QED
      BY <3>3, <3>4, <3>5
  <2> HIDE DEF e, new
  <2>4. Somewhere(k)' => k = new \/ (Somewhere(k) /\ k \notin S)
    BY <2>1, <2>2, <2>3 DEF Somewhere
  <2>5. k = new => Somewhere(k)'
    BY <1>2, <1>5, <2>1 DEF Somewhere
  <2>6. Somewhere(k) /\ k \notin S => Somewhere(k)'
    BY <2>1, <2>3 DEF Somewhere
  <2> QED
    BY <2>4, <2>5, <2>6
<1>8. Open' = (Open \ S) \cup {new}
  BY <1>7, OpenIs
<1>9. S \in SUBSET {k \in Open : states[k].email = e}
  BY <1>6
<1>10. Used' = Used
  BY <1>2 DEF Used
<1> HIDE DEF S, Open, Used, e, old
<1>11. Promise!OpenLogin(e, slot[s].password, slot[s].record)
  BY <1>2, <1>3, <1>8, <1>9, <1>10 DEF Promise!OpenLogin
<1> QED
  BY <1>2, <1>11 DEF Promise!AccountsNext

\* loginFinish takes the login out of the map and keeps it.
LEMMA FinishTakes ==
  ASSUME IInv, NEW s \in Slots, LoginFinish(s)
  PROVE  Open' = Open
<1>1. TypeOK
  BY DEF IInv
<1>2. PICK e \in Emails, ke3 \in {None} \cup ke3s :
        /\ pendingLogins[e] # None
        /\ pendingLogins' = [pendingLogins EXCEPT ![e] = None]
        /\ slot' = [slot EXCEPT ![s] =
                      [step |-> "verify", state |-> pendingLogins[e], ke3 |-> ke3]]
  BY DEF LoginFinish, Goto
<1>3. ~Taken(s)
  BY DEF LoginFinish, At, Taken
<1>4. /\ \A f \in Emails : pendingLogins'[f] = IF f = e THEN None ELSE pendingLogins[f]
      /\ \A t \in Slots : t # s => slot'[t] = slot[t]
      /\ slot'[s].step = "verify" /\ slot'[s].state = pendingLogins[e]
  BY <1>1, <1>2 DEF TypeOK
<1>5. Taken(s)'
  BY <1>4 DEF Taken
<1>6. ASSUME NEW t \in Slots, t # s
      PROVE  /\ Taken(t)' <=> Taken(t)
             /\ slot'[t].state = slot[t].state
  BY <1>4, <1>6 DEF Taken
<1>7. ASSUME NEW k PROVE Somewhere(k)' <=> Somewhere(k)
  <2>1. Somewhere(k)' => Somewhere(k)
    BY <1>2, <1>4, <1>6 DEF Somewhere
  <2>2. Somewhere(k) => Somewhere(k)'
    BY <1>3, <1>4, <1>5, <1>6 DEF Somewhere
  <2> QED
    BY <2>1, <2>2
<1> QED
  BY <1>7, OpenIs

\* devices.create uses the login that the handler has taken and verified.
LEMMA DeviceUses ==
  ASSUME IInv, NEW s \in Slots, CreateDevice(s)
  PROVE  Promise!AccountsNext
<1> DEFINE k == slot[s].state
<1>1. TypeOK
  BY DEF IInv
<1>2. Taken(s) /\ k \in ke3s
  BY DEF CreateDevice, At, Taken, IInv, Verified
<1>3. states[k].password = states[k].record
  BY <1>2 DEF IInv, Verified
<1>4. /\ ~Taken(s)'
      /\ \A t \in Slots : t # s => slot'[t] = slot[t]
      /\ UNCHANGED <<users, pendingLogins, states>>
  BY <1>1 DEF CreateDevice, Goto, TypeOK, Taken, Idle
<1>5. k \in Open /\ Open' = Open \ {k}
  BY <1>2, <1>4, OpenEnds
<1>6. Used' = Append(Used, k)
  <2> DEFINE device == [email |-> states[k].email, state |-> k, tokens |-> Tokens]
  <2>1. devices' = Append(devices, device) /\ device.state = k
    BY DEF CreateDevice
  <2>2. devices \in Seq(Device)
    BY <1>1 DEF TypeOK
  <2> HIDE DEF device, k
  <2>3. /\ Len(devices) \in Nat /\ DOMAIN devices = 1 .. Len(devices)
        /\ DOMAIN devices' = 1 .. Len(devices) + 1
        /\ \A i \in DOMAIN devices : devices'[i] = devices[i]
        /\ devices'[Len(devices) + 1] = device
    BY <2>1, <2>2
  <2>4. Used' = [i \in 1 .. Len(devices) + 1 |-> IF i \in 1 .. Len(devices)
                                                    THEN Used[i] ELSE k]
    BY <2>1, <2>3 DEF Used
  <2>5. Used = [i \in 1 .. Len(devices) |-> devices[i].state]
    BY <2>3 DEF Used
  <2> DEFINE Spent == {devices[i].state : i \in 1 .. Len(devices)} \cup {k}
             after == Append(Used, k)
  <2>6. Used \in Seq(Spent) /\ k \in Spent
    BY <2>3, <2>5
  <2>7. Len(Used) = Len(devices)
    BY <2>3, <2>5
  <2> HIDE DEF Used, Spent
  <2>8. /\ after \in Seq(Spent) /\ Len(after) = Len(devices) + 1
        /\ after[Len(devices) + 1] = k
        /\ \A i \in 1 .. Len(devices) : after[i] = Used[i]
    BY <2>3, <2>6, <2>7
  <2> HIDE DEF after
  <2>9. after = [i \in 1 .. Len(devices) + 1 |-> after[i]]
    BY <2>8
  <2>10. \A i \in 1 .. Len(devices) + 1 :
           after[i] = IF i \in 1 .. Len(devices) THEN Used[i] ELSE k
    BY <2>3, <2>8
  <2>11. Used' = after
    BY <2>4, <2>9, <2>10
  <2> QED
    BY <2>11 DEF after
<1> HIDE DEF Open, Used, k
<1>7. Promise!UseLogin(k)
  BY <1>3, <1>4, <1>5, <1>6 DEF Promise!UseLogin
<1> QED
  BY <1>5, <1>7 DEF Promise!AccountsNext

\* Every step of the handlers is an atomic operation or changes nothing.
LEMMA AccountsStep ==
  IInv /\ Known /\ [Next]_vars
    => [Promise!AccountsNext]_<<users, states, Open, Used>>
<1> SUFFICES ASSUME IInv, Known, [Next]_vars
             PROVE  \/ Promise!AccountsNext
                    \/ UNCHANGED <<users, states>> /\ Open' = Open /\ Used' = Used
  OBVIOUS
<1>1. TypeOK
  BY DEF IInv
<1>2. CASE \E s \in Slots : \/ RegisterFinish(s) \/ LoginStart(s) \/ FindUser(s)
                            \/ Ke2Arrives(s) \/ Ke2Lost(s) \/ RotateFinish(s) \/ Inspect(s)
  <2>1. Open' = Open
    BY <1>1, <1>2, QuietSlot
  <2>2. UNCHANGED <<users, states, devices>>
    BY <1>2 DEF RegisterFinish, LoginStart, FindUser, Ke2Arrives, Ke2Lost, RotateFinish,
       Inspect
  <2> QED
    BY <2>1, <2>2 DEF Used
<1>3. CASE \E s \in Slots : CreateUser(s) \/ Replace(s)
  BY <1>3, RecordStep
<1>4. CASE \E s \in Slots : Respond(s)
  BY <1>4, RespondOpens
<1>5. CASE \E s \in Slots : LoginFinish(s)
  <2>1. Open' = Open
    BY <1>5, FinishTakes
  <2>2. UNCHANGED <<users, states, devices>>
    BY <1>5 DEF LoginFinish
  <2> QED
    BY <2>1, <2>2 DEF Used
<1>6. CASE \E s \in Slots : CreateDevice(s)
  BY <1>6, DeviceUses
<1>7. CASE Restart \/ \E s \in Slots : Rejected(s) \/ VerifyKe3(s)
  BY <1>7, EndedStep
<1>8. CASE TokenExpires
  <2>1. /\ DOMAIN devices' = DOMAIN devices
        /\ \A i \in DOMAIN devices : devices'[i].state = devices[i].state
        /\ UNCHANGED <<users, pendingLogins, states, slot>>
    BY <1>1, <1>8, Expired
  <2>2. Used' = Used
    BY <2>1 DEF Used
  <2>3. Open' = Open
    BY <2>1 DEF Open
  <2> QED
    BY <2>1, <2>2, <2>3
<1>9. CASE UNCHANGED vars
  BY <1>9 DEF vars, Open, Used
<1> QED
  BY <1>2, <1>3, <1>4, <1>5, <1>6, <1>7, <1>8, <1>9 DEF Next

\* The handlers, with their awaits, late answers, repeated messages and restarts, are
\* accounts whose operations are atomic: a login is opened for an existing user, used
\* at most once by a client with the password of its record, and a record is replaced
\* only through a used login of its user (auth.service.ts:37-41, 74-77, 98).
THEOREM LoginImplementsAccounts == Spec => ImplementsAccounts
<1>1. Init => Promise!AccountsInit
  <2> SUFFICES ASSUME Init PROVE Promise!AccountsInit
    OBVIOUS
  <2>1. Open = {}
    BY DEF Init, Open, Idle
  <2>2. Used = << >>
    BY DEF Init, Used
  <2> QED
    BY <2>1, <2>2 DEF Init, Promise!AccountsInit
<1>2. Init => Known
  BY DEF Init, Idle, Known
<1>3. IInv /\ Known /\ [Next]_vars => Known'
  BY KnownStep
<1>4. IInv /\ Known /\ [Next]_vars
        => [Promise!AccountsNext]_<<users, states, Open, Used>>
  BY AccountsStep
<1> QED
  BY <1>1, <1>2, <1>3, <1>4, Invariant, PTL DEF Spec, ImplementsAccounts,
     Promise!AccountsSpec

===============================================================================
