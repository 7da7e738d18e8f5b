--------------------------------- MODULE Login ---------------------------------
(***************************************************************************)
(* AuthService of the API server: registration and the two-step OPAQUE     *)
(* login over the users and devices tables and the map of pending logins   *)
(* in memory, with the tokens a login issues and what they are good for:   *)
(* RotationAuthGuard lets a device of the user replace the record.  As in  *)
(* SyncServer an await ends an action and a handler keeps its locals in a  *)
(* slot; awaits that touch none of the variables are left out.             *)
(*                                                                         *)
(* A registration record stands for the password it was made from.  Each   *)
(* answer to loginStart makes a login state of its own: KE2 goes to the    *)
(* client, and KE3 over that state can only be computed by a client that   *)
(* used the password of the record and received KE2.  registerStart and,   *)
(* without Factor 2, rotateStart read the users table and change nothing,  *)
(* so they are left out.  Factor 2, which only refuses more requests, is   *)
(* in RotationServer.                                                      *)
(***************************************************************************)
EXTENDS Naturals, Sequences

CONSTANTS
  Emails,         \* e-mail addresses, the keys of users and of pendingLogins
  Passwords,      \* what clients type
  NoRecord,       \* no user with this e-mail
  Malformed,      \* bytes sent as a record that are none
  Slots,          \* slots for requests in flight
  MaxStates       \* bound: login states made

ASSUME LoginAssumption ==
  /\ NoRecord \notin Passwords /\ Malformed \notin Passwords
  /\ MaxStates \in Nat

VARIABLES
  users,          \* registration_record of each e-mail's user
  pendingLogins,  \* the login state waiting for KE3, per e-mail; 0 = none
  states,         \* the login states made so far: e-mail, client's password, record
  slot,           \* the requests in flight
  ke3s,           \* the login states whose KE3 some client can compute
  devices         \* the devices created, in order: e-mail, login state, valid tokens

vars == <<users, pendingLogins, states, slot, ke3s, devices>>

Record   == Passwords \cup {NoRecord}
StateId  == 1 .. MaxStates
None     == 0               \* no login state; as a KE3: bytes that fit no state
Tokens   == {"session", "refresh"}

Idle == [step |-> "idle"]
Slot == {Idle}
  \cup [step : {"create", "find"}, email : Emails, password : Passwords]
  \cup [step : {"respond"}, email : Emails, password : Passwords, record : Passwords]
  \cup [step : {"ke2"}, state : StateId]
  \cup [step : {"verify"}, state : StateId, ke3 : {None} \cup StateId]
  \cup [step : {"device"}, state : StateId]
  \cup [step : {"rotate"}, device : Nat, password : Passwords \cup {Malformed}]
  \cup [step : {"replace"}, device : Nat, password : Passwords]

Device == [email : Emails, state : StateId, tokens : SUBSET Tokens]

TypeOK ==
  /\ users \in [Emails -> Record]
  /\ pendingLogins \in [Emails -> {None} \cup StateId]
  /\ states \in Seq([email : Emails, password : Passwords, record : Passwords])
  /\ Len(states) <= MaxStates
  /\ slot \in [Slots -> Slot]
  /\ ke3s \subseteq DOMAIN states
  /\ devices \in Seq(Device)

Init ==
  /\ users = [e \in Emails |-> NoRecord]
  /\ pendingLogins = [e \in Emails |-> None]
  /\ states = << >>
  /\ slot = [s \in Slots |-> Idle]
  /\ ke3s = {}
  /\ devices = << >>

At(s, step)   == slot[s].step = step
Goto(s, next) == slot' = [slot EXCEPT ![s] = next]

-------------------------------------------------------------------------------
\* registerFinish.

\* Operators named Bug_ are faulty variants of the definition that follows them:
\* a slip the code could have, which a property must notice.  No action uses them.
\* Here: whatever bytes were sent.
Bug_AnyBytes(record) == TRUE

\* isValidRegistrationRecord: the bytes deserialize.
WellFormed(record) == record # Malformed

RegisterFinish(s) ==
  /\ At(s, "idle")
  /\ \E e \in Emails, p \in Passwords \cup {Malformed} :
       /\ WellFormed(p)
       /\ Goto(s, [step |-> "create", email |-> e, password |-> p])
  /\ UNCHANGED <<users, pendingLogins, states, ke3s, devices>>

\* An upsert instead of an insert.
Bug_CreateReplaces(s) ==
  /\ At(s, "create")
  /\ users' = [users EXCEPT ![slot[s].email] = slot[s].password]
  /\ Goto(s, Idle)
  /\ UNCHANGED <<pendingLogins, states, ke3s, devices>>

\* users.create: the UNIQUE constraint refuses a second user of the same e-mail.
CreateUser(s) ==
  /\ At(s, "create")
  /\ users' = [users EXCEPT ![slot[s].email] =
                 IF @ = NoRecord THEN slot[s].password ELSE @]
  /\ Goto(s, Idle)
  /\ UNCHANGED <<pendingLogins, states, ke3s, devices>>

-------------------------------------------------------------------------------
\* loginStart.

LoginStart(s) ==
  /\ At(s, "idle")
  /\ Len(states) < MaxStates
  /\ \E e \in Emails, p \in Passwords :
       Goto(s, [step |-> "find", email |-> e, password |-> p])
  /\ UNCHANGED <<users, pendingLogins, states, ke3s, devices>>

\* findByEmail; without a user the login ends here.
FindUser(s) ==
  /\ At(s, "find")
  /\ LET record == users[slot[s].email] IN
     Goto(s, IF record = NoRecord THEN Idle
             ELSE [step |-> "respond", email |-> slot[s].email,
                   password |-> slot[s].password, record |-> record])
  /\ UNCHANGED <<users, pendingLogins, states, ke3s, devices>>

\* createLoginResponse has answered: the login state replaces whatever login of
\* the same e-mail was pending, and KE2 is sent.
Respond(s) ==
  /\ At(s, "respond")
  /\ Len(states) < MaxStates
  /\ states' = Append(states, [email |-> slot[s].email, password |-> slot[s].password,
                               record |-> slot[s].record])
  /\ pendingLogins' = [pendingLogins EXCEPT ![slot[s].email] = Len(states) + 1]
  /\ Goto(s, [step |-> "ke2", state |-> Len(states) + 1])
  /\ UNCHANGED <<users, ke3s, devices>>

\* KE2 reaches the client, which recovers the envelope only with the password of
\* the record.
Ke2Arrives(s) ==
  /\ At(s, "ke2")
  /\ LET login == states[slot[s].state] IN
     ke3s' = IF login.password = login.record THEN ke3s \cup {slot[s].state} ELSE ke3s
  /\ Goto(s, Idle)
  /\ UNCHANGED <<users, pendingLogins, states, devices>>

Ke2Lost(s) ==
  /\ At(s, "ke2")
  /\ Goto(s, Idle)
  /\ UNCHANGED <<users, pendingLogins, states, ke3s, devices>>

-------------------------------------------------------------------------------
\* loginFinish.

\* The pending login stays in the map.
Bug_FinishKeeps(s) ==
  /\ At(s, "idle")
  /\ \E e \in Emails, ke3 \in {None} \cup ke3s :
       /\ pendingLogins[e] # None
       /\ pendingLogins' = pendingLogins
       /\ Goto(s, [step |-> "verify", state |-> pendingLogins[e], ke3 |-> ke3])
  /\ UNCHANGED <<users, states, ke3s, devices>>

\* Any KE3, fresh or repeated or wrong, under any e-mail: the pending login of the
\* e-mail is taken out of the map before the first await.
LoginFinish(s) ==
  /\ At(s, "idle")
  /\ \E e \in Emails, ke3 \in {None} \cup ke3s :
       /\ pendingLogins[e] # None
       /\ pendingLogins' = [pendingLogins EXCEPT ![e] = None]
       /\ Goto(s, [step |-> "verify", state |-> pendingLogins[e], ke3 |-> ke3])
  /\ UNCHANGED <<users, states, ke3s, devices>>

\* Any KE3 of a real login will do.
Bug_VerifyAnyState(s) ==
  /\ At(s, "verify")
  /\ Goto(s, IF slot[s].ke3 # None THEN [step |-> "device", state |-> slot[s].state]
             ELSE Idle)
  /\ UNCHANGED <<users, pendingLogins, states, ke3s, devices>>

\* opaque.finishLogin: KE3 must be the one over this very login state.
VerifyKe3(s) ==
  /\ At(s, "verify")
  /\ Goto(s, IF slot[s].ke3 = slot[s].state
               THEN [step |-> "device", state |-> slot[s].state]
               ELSE Idle)
  /\ UNCHANGED <<users, pendingLogins, states, ke3s, devices>>

\* devices.create, and the two tokens for the new device.
CreateDevice(s) ==
  /\ At(s, "device")
  /\ devices' = Append(devices, [email |-> states[slot[s].state].email,
                                 state |-> slot[s].state, tokens |-> Tokens])
  /\ Goto(s, Idle)
  /\ UNCHANGED <<users, pendingLogins, states, ke3s>>

\* Fifteen minutes and thirty days: the session token expires first.
TokenExpires ==
  /\ \E d \in DOMAIN devices :
       /\ devices[d].tokens # {}
       /\ devices' = [devices EXCEPT ![d].tokens =
                        IF "session" \in @ THEN {"refresh"} ELSE {}]
  /\ UNCHANGED <<users, pendingLogins, states, slot, ke3s>>

-------------------------------------------------------------------------------
\* rotateFinish, of an account without Factor 2.

\* RotationAuthGuard: a session or a refresh token, verified once, on entry.
RotationAuthGuard(d, token) == token \in devices[d].tokens

RotateFinish(s) ==
  /\ At(s, "idle")
  /\ \E d \in DOMAIN devices, token \in Tokens, p \in Passwords \cup {Malformed} :
       /\ RotationAuthGuard(d, token)
       /\ Goto(s, [step |-> "rotate", device |-> d, password |-> p])
  /\ UNCHANGED <<users, pendingLogins, states, ke3s, devices>>

\* findById: the record the user has already ends the request here, and so does one
\* that is malformed.  Another record of the same password is not that record.
Inspect(s) ==
  /\ At(s, "rotate")
  /\ LET request == slot[s] IN
     \/ /\ users[devices[request.device].email] = request.password
           \/ ~WellFormed(request.password)
        /\ Goto(s, Idle)
     \/ /\ WellFormed(request.password)
        /\ Goto(s, [request EXCEPT !.step = "replace"])
  /\ UNCHANGED <<users, pendingLogins, states, ke3s, devices>>

\* replaceRegistrationRecord of the user the token names.
Replace(s) ==
  /\ At(s, "replace")
  /\ users' = [users EXCEPT ![devices[slot[s].device].email] = slot[s].password]
  /\ Goto(s, Idle)
  /\ UNCHANGED <<pendingLogins, states, ke3s, devices>>

-------------------------------------------------------------------------------
\* What may go wrong with any request.

\* The await of a handler rejects, a query or OPAQUE: the request ends where it is.
Rejected(s) ==
  /\ slot[s].step \notin {"idle", "ke2"}
  /\ Goto(s, Idle)
  /\ UNCHANGED <<users, pendingLogins, states, ke3s, devices>>

\* A restart drops the handlers and the map of pending logins.
Restart ==
  /\ \/ \E s \in Slots : ~At(s, "idle")
     \/ \E e \in Emails : pendingLogins[e] # None
  /\ slot' = [s \in Slots |-> Idle]
  /\ pendingLogins' = [e \in Emails |-> None]
  /\ UNCHANGED <<users, states, ke3s, devices>>

Next ==
  \/ \E s \in Slots :
       \/ RegisterFinish(s) \/ CreateUser(s)
       \/ LoginStart(s) \/ FindUser(s) \/ Respond(s) \/ Ke2Arrives(s) \/ Ke2Lost(s)
       \/ LoginFinish(s) \/ VerifyKe3(s) \/ CreateDevice(s)
       \/ RotateFinish(s) \/ Inspect(s) \/ Replace(s)
       \/ Rejected(s)
  \/ TokenExpires
  \/ Restart

Spec == Init /\ [][Next]_vars

-------------------------------------------------------------------------------
\* A login yields one device and one pair of tokens, whoever repeats KE3, under
\* whatever interleaving and after a restart (auth.service.ts:98, "Consumed exactly
\* once -- a repeated or out-of-order KE3 never reuses old state").
ConsumedOnce ==
  \A i, j \in DOMAIN devices : devices[i].state = devices[j].state => i = j

\* A client logs in with the password of the record its login began with, as the
\* user of that record.
LoggedIn(device) ==
  LET login == states[device.state] IN
  login.password = login.record /\ device.email = login.email

\* Every device was created by such a client, even when logins of one e-mail replace
\* each other in the map (auth.service.ts:85, 94-103).
Authenticated == \A i \in DOMAIN devices : LoggedIn(devices[i])

\* The record of a user that exists is only ever changed by a device of that user,
\* created by a client that knew a password of the user: not by registration, of
\* which two may race for the e-mail, and not by a device of another user; and the
\* request was let in while one of the device's tokens was valid.  The record installed
\* is the one that very request carried, and the request ends with it
\* (auth.service.ts:37-41, postgres-users.repository.ts:57-63, rotation-auth.guard.ts).
OnlyOwnerReplaces ==
  [][/\ \A e \in Emails : users[e] # NoRecord /\ users'[e] # users[e] =>
          \E s \in Slots :
            /\ At(s, "replace")
            /\ devices[slot[s].device].email = e
            /\ LoggedIn(devices[slot[s].device])
            /\ users'[e] = slot[s].password /\ slot'[s] = Idle
     /\ \A s \in Slots : At(s, "idle") /\ slot'[s].step = "rotate" =>
          devices[slot'[s].device].tokens # {}]_vars

\* A login state is never in two places: it waits in the map under its own e-mail, or
\* one handler has taken it, or it is spent.  This is why a late answer of loginStart
\* cannot revive a login that was finished.
OnePlace ==
  /\ \A e \in Emails : pendingLogins[e] # None =>
       /\ states[pendingLogins[e]].email = e
       /\ \A s \in Slots : At(s, "verify") \/ At(s, "device") => slot[s].state # pendingLogins[e]
       /\ \A i \in DOMAIN devices : devices[i].state # pendingLogins[e]
  /\ \A s, t \in Slots : s # t /\ slot[s].step \in {"verify", "device"}
       /\ slot[t].step \in {"verify", "device"} => slot[s].state # slot[t].state

\* The logins that can still be used: pending, or taken by a handler.
Open == {pendingLogins[e] : e \in {x \in Emails : pendingLogins[x] # None}} \cup
        {slot[s].state : s \in {x \in Slots : slot[x].step \in {"verify", "device"}}}

Used == [i \in DOMAIN devices |-> devices[i].state]

\* The handlers with their awaits, the map that holds one login per e-mail, repeated
\* and late messages and restarts behave as accounts whose operations are atomic: a
\* login is opened, then used once or ended, and every replaced record goes back to a
\* used login of its own user (auth.service.ts:81-115).
Promise == INSTANCE Accounts WITH logins <- states, open <- Open, used <- Used

ImplementsAccounts == Promise!AccountsSpec
===============================================================================
