------------------------------- MODULE Accounts -------------------------------
(***************************************************************************)
(* What registration and login promise, with every operation atomic: an    *)
(* e-mail is registered once, a login is opened for a user that exists, is *)
(* used at most once and only by a client that has the password of its     *)
(* record, and a record is replaced only in the name of a used login.  The *)
(* promise is read off AuthService (auth.service.ts:37-41, 74-77, 98) and  *)
(* RotationAuthGuard.  Login implements it, although a login is looked up, *)
(* verified and spent in three steps with an await between them, and the   *)
(* map of pending logins has one place per e-mail.                         *)
(***************************************************************************)
EXTENDS Naturals, Sequences

CONSTANTS
  Emails,       \* e-mail addresses
  Passwords,    \* what clients type; a record stands for its password
  NoRecord      \* no user with this e-mail

VARIABLES
  users,        \* the record of each e-mail's user
  logins,       \* the logins opened so far; a login's id is its index
  open,         \* the ids of those that can still be used
  used          \* the ids of those that were used, in order

AccountsInit ==
  /\ users = [e \in Emails |-> NoRecord]
  /\ logins = << >> /\ open = {} /\ used = << >>

Register(e, p) ==
  /\ users[e] = NoRecord
  /\ users' = [users EXCEPT ![e] = p]
  /\ UNCHANGED <<logins, open, used>>

\* Opening a login may end others of the same e-mail.
OpenLogin(e, p, r) ==
  /\ users[e] # NoRecord
  /\ logins' = Append(logins, [email |-> e, password |-> p, record |-> r])
  /\ \E S \in SUBSET {k \in open : logins[k].email = e} :
       open' = (open \ S) \cup {Len(logins) + 1}
  /\ UNCHANGED <<users, used>>

UseLogin(k) ==
  /\ k \in open
  /\ logins[k].password = logins[k].record
  /\ open' = open \ {k}
  /\ used' = Append(used, k)
  /\ UNCHANGED <<users, logins>>

\* Wrong answers, failures and restarts.
EndLogins(S) ==
  /\ open' = open \ S
  /\ UNCHANGED <<users, logins, used>>

ReplaceRecord(i, p) ==
  /\ users' = [users EXCEPT ![logins[used[i]].email] = p]
  /\ UNCHANGED <<logins, open, used>>

AccountsNext ==
  \/ \E e \in Emails, p \in Passwords :
       Register(e, p) \/ \E r \in Passwords : OpenLogin(e, p, r)
  \/ \E k \in open : UseLogin(k)
  \/ \E S \in SUBSET open : EndLogins(S)
  \/ \E i \in DOMAIN used, p \in Passwords : ReplaceRecord(i, p)

AccountsSpec == AccountsInit /\ [][AccountsNext]_<<users, logins, open, used>>
===============================================================================
