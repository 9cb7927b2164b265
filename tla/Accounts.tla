------------------------------ MODULE Accounts ------------------------------
(***************************************************************************)
(* Accounts, seats and invites: signing in (src/src/auth.rs,               *)
(* callback_handler), changes of role and removal (src/src/users.rs),      *)
(* invites (src/src/invites.rs) and the seat limit, over the rows of       *)
(* src/src/db.rs.  Each step is one statement or transaction; handlers run *)
(* concurrently, and act on what they have read.                           *)
(*                                                                         *)
(* The sessions of an account, and their end when its role changes, are    *)
(* the subject of SecondFactor.                                            *)
(***************************************************************************)
EXTENDS Integers, FiniteSets

CONSTANTS
  Logins,       \* logins on the allowlist
  Bootstrap,    \* BOOTSTRAP_ADMIN, or NoLogin
  SignIns,      \* calls of callback_handler
  Changes,      \* calls of set_role_handler and delete_handler
  Invites,
  NoLogin, NoInvite,
  MaxSeats      \* bound: the largest seat limit

ASSUME AccountsAssumption ==
  /\ NoLogin \notin Logins /\ NoInvite \notin Invites
  /\ Bootstrap \in Logins \cup {NoLogin}
  /\ MaxSeats \in Nat \ {0}

VARIABLES
  user,         \* the role in each row of users, or "none"
  seats,        \* seat_limit: the license's, or CE_USER_LIMIT
  invite,       \* each invite: the role it gives, "spent" once it is used
                \* or has lapsed, "none" before and "gone" after its row
  signIn,       \* what each sign-in is doing
  change,       \* what each call of an admin is doing
  most          \* history: the largest seat limit there has been

accountVars == <<user, seats, invite, signIn, change, most>>

Roles == {"admin", "viewer"}

NoSignIn == [at |-> "idle", login |-> NoLogin, with |-> NoInvite,
             first |-> FALSE, role |-> "viewer", cap |-> 0]
NoChange ==
  [at |-> "idle", target |-> NoLogin, to |-> "viewer", last |-> FALSE]

Users  == {l \in Logins : user[l] # "none"}
Admins == {l \in Logins : user[l] = "admin"}

AccountsInit ==
  /\ user = [l \in Logins |-> "none"]
  /\ seats \in 1..MaxSeats
  /\ invite = [i \in Invites |-> "none"]
  /\ signIn = [s \in SignIns |-> NoSignIn]
  /\ change = [k \in Changes |-> NoChange]
  /\ most = seats

SignInGoes(s, from, next) ==
  signIn[s].at = from /\ signIn' = [signIn EXCEPT ![s] = next]

ChangeGoes(k, from, next) ==
  change[k].at = from /\ change' = [change EXCEPT ![k] = next]

-----------------------------------------------------------------------------
(* callback_handler, once the EE or GitHub has said who it is.             *)

CountUsers(s, l, i) ==
  /\ SignInGoes(s, "idle", [NoSignIn EXCEPT !.at = "counted", !.login = l,
                              !.with = i, !.first = (Users = {})])
  /\ UNCHANGED <<user, seats, invite, change, most>>

Good(i) == i \in Invites /\ invite[i] \in Roles

(* Mutant: any invite will do.                                             *)
SettleAnyInvite(s) ==
  LET r == signIn[s] IN
  /\ SignInGoes(s, "counted", [r EXCEPT !.at = "settled", !.first = FALSE,
       !.role = IF r.first \/ r.login = Bootstrap THEN "admin"
                ELSE IF r.with # NoInvite THEN invite[r.with] ELSE "viewer"])
  /\ UNCHANGED <<user, seats, invite, change, most>>

(* The invite in the cookie is looked at, and the role of a new account is *)
(* settled.                                                                *)
SettleRole(s) ==
  LET r == signIn[s] IN
  /\ SignInGoes(s, "counted", [r EXCEPT !.at = "settled", !.first = FALSE,
       !.role = IF r.first \/ r.login = Bootstrap THEN "admin"
                ELSE IF Good(r.with) THEN invite[r.with] ELSE "viewer"])
  /\ UNCHANGED <<user, seats, invite, change, most>>

ReadSeatLimit(s) ==
  /\ SignInGoes(s, "settled",
                [signIn[s] EXCEPT !.at = "seated", !.cap = seats])
  /\ UNCHANGED <<user, seats, invite, change, most>>

In(r) == [NoSignIn EXCEPT !.at = "in", !.login = r.login, !.with = r.with]

(* An account that is there keeps its role.                                *)
SignInExisting(s) ==
  LET r == signIn[s] IN
  /\ r.login \in Users
  /\ SignInGoes(s, "seated", In(r))
  /\ UNCHANGED <<user, seats, invite, change, most>>

RefuseSeat(s) ==
  /\ signIn[s].login \notin Users
  /\ Cardinality(Users) >= signIn[s].cap
  /\ SignInGoes(s, "seated", NoSignIn)
  /\ UNCHANGED <<user, seats, invite, change, most>>

(* Mutant: the last seat is taken twice.                                   *)
TakeSeatAtCap(s) ==
  LET r == signIn[s] IN
  /\ r.login \notin Users /\ Cardinality(Users) =< r.cap
  /\ SignInGoes(s, "seated", In(r))
  /\ user' = [user EXCEPT ![r.login] = r.role]
  /\ UNCHANGED <<seats, invite, change, most>>

(* upsert_login_with_seat_check: the users are counted and the row is      *)
(* inserted in one transaction.                                            *)
TakeSeat(s) ==
  LET r == signIn[s] IN
  /\ r.login \notin Users /\ Cardinality(Users) < r.cap
  /\ SignInGoes(s, "seated", In(r))
  /\ user' = [user EXCEPT ![r.login] = r.role]
  /\ UNCHANGED <<seats, invite, change, most>>

(* Of two transactions that have read, the second to write is refused; or  *)
(* the handler's client hangs up.                                          *)
AbandonSignIn(s) ==
  /\ signIn[s].at # "idle"
  /\ signIn' = [signIn EXCEPT ![s] = NoSignIn]
  /\ UNCHANGED <<user, seats, invite, change, most>>

(* redeem_invite: used_by is set if it is NULL.                            *)
RedeemInvite(s) ==
  LET i == signIn[s].with IN
  /\ SignInGoes(s, "in", NoSignIn)
  /\ invite' = IF Good(i) THEN [invite EXCEPT ![i] = "spent"] ELSE invite
  /\ UNCHANGED <<user, seats, change, most>>

-----------------------------------------------------------------------------
(* users.rs.                                                               *)

(* set_role_handler.  The admins are counted, and the target is looked at, *)
(* to demote; a promotion is checked by nobody.                            *)
CountForDemote(k, l) ==
  /\ ChangeGoes(k, "idle", [at |-> "demote", target |-> l, to |-> "viewer",
                            last |-> Cardinality(Admins) =< 1])
  /\ Admins # {}
  /\ UNCHANGED <<user, seats, invite, signIn, most>>

CheckDemote(k) ==
  LET r == change[k] IN
  /\ ChangeGoes(k, "demote", IF r.target \in Admins /\ r.last THEN NoChange
                             ELSE [r EXCEPT !.at = "set", !.last = FALSE])
  /\ UNCHANGED <<user, seats, invite, signIn, most>>

StartPromote(k, l) ==
  /\ ChangeGoes(k, "idle", [at |-> "set", target |-> l, to |-> "admin",
                            last |-> FALSE])
  /\ Admins # {}
  /\ UNCHANGED <<user, seats, invite, signIn, most>>

(* set_user_role: an UPDATE.                                               *)
SetRole(k) ==
  LET r == change[k] IN
  /\ ChangeGoes(k, "set", NoChange)
  /\ user' = [user EXCEPT ![r.target] = IF @ = "none" THEN @ ELSE r.to]
  /\ UNCHANGED <<seats, invite, signIn, most>>

(* delete_handler, by an admin who is not the target.  The target is       *)
(* looked at first, and the admins are counted if it is one of them.       *)
CheckDelete(k, l) ==
  /\ Admins \ {l} # {}
  /\ ChangeGoes(k, "idle",
       [at |-> IF l \in Admins THEN "count" ELSE "delete", target |-> l,
        to |-> "viewer", last |-> FALSE])
  /\ UNCHANGED <<user, seats, invite, signIn, most>>

CountForDelete(k) ==
  /\ ChangeGoes(k, "count", IF Cardinality(Admins) =< 1 THEN NoChange
                            ELSE [change[k] EXCEPT !.at = "delete"])
  /\ UNCHANGED <<user, seats, invite, signIn, most>>

DeleteUser(k) ==
  /\ ChangeGoes(k, "delete", NoChange)
  /\ user' = [user EXCEPT ![change[k].target] = "none"]
  /\ UNCHANGED <<seats, invite, signIn, most>>

-----------------------------------------------------------------------------
(* Invites and the license.                                                *)

CreateInvite(i, role) ==
  /\ Admins # {} /\ invite[i] = "none"
  /\ invite' = [invite EXCEPT ![i] = role]
  /\ UNCHANGED <<user, seats, signIn, change, most>>

DeleteInvite(i) ==
  /\ Admins # {} /\ invite[i] \in Roles \cup {"spent"}
  /\ invite' = [invite EXCEPT ![i] = "gone"]
  /\ UNCHANGED <<user, seats, signIn, change, most>>

LapseInvite(i) ==
  /\ Good(i)
  /\ invite' = [invite EXCEPT ![i] = "spent"]
  /\ UNCHANGED <<user, seats, signIn, change, most>>

(* accept_invite by a user who is signed in: it is used up, and the user's *)
(* role stays as it is.                                                    *)
AcceptInvite(i) ==
  /\ Good(i) /\ Users # {}
  /\ invite' = [invite EXCEPT ![i] = "spent"]
  /\ UNCHANGED <<user, seats, signIn, change, most>>

(* set_ee_seat_limit.                                                      *)
SetSeatLimit(n) ==
  /\ n # seats
  /\ seats' = n
  /\ most' = IF n > most THEN n ELSE most
  /\ UNCHANGED <<user, invite, signIn, change>>

-----------------------------------------------------------------------------
SignInStep(s) ==
  \/ \E l \in Logins, i \in Invites \cup {NoInvite} : CountUsers(s, l, i)
  \/ SettleRole(s) \/ ReadSeatLimit(s) \/ SignInExisting(s) \/ RefuseSeat(s)
  \/ TakeSeat(s) \/ AbandonSignIn(s) \/ RedeemInvite(s)

ChangeStep(k) ==
  \/ CheckDemote(k) \/ SetRole(k) \/ CountForDelete(k) \/ DeleteUser(k)
  \/ \E l \in Logins :
       CountForDemote(k, l) \/ StartPromote(k, l) \/ CheckDelete(k, l)

AccountsNext ==
  \/ \E s \in SignIns : SignInStep(s)
  \/ \E k \in Changes : ChangeStep(k)
  \/ \E i \in Invites :
       \/ DeleteInvite(i) \/ LapseInvite(i) \/ AcceptInvite(i)
       \/ \E r \in Roles : CreateInvite(i, r)
  \/ \E n \in 1..MaxSeats : SetSeatLimit(n)

AccountsSpec == AccountsInit /\ [][AccountsNext]_accountVars

-----------------------------------------------------------------------------
(* Properties.                                                             *)

(* Every variable has its type.                                            *)
AccountsTypeOK ==
  /\ user \in [Logins -> Roles \cup {"none"}]
  /\ seats \in 1..MaxSeats
  /\ invite \in [Invites -> Roles \cup {"none", "spent", "gone"}]
  /\ signIn \in [SignIns ->
       [at : {"idle", "counted", "settled", "seated", "in"},
        login : Logins \cup {NoLogin}, with : Invites \cup {NoInvite},
        first : BOOLEAN, role : Roles, cap : 0..MaxSeats]]
  /\ change \in [Changes ->
       [at : {"idle", "demote", "count", "set", "delete"},
        target : Logins \cup {NoLogin}, to : Roles, last : BOOLEAN]]
  /\ most \in 1..MaxSeats

(* Sign-ins take no seat that is not there, however many of them overlap:  *)
(* there are never more users than the largest limit there has been (a     *)
(* lower one puts nobody out and is not seen by a sign-in that has read    *)
(* the limit).                                                             *)
SeatsKept == Cardinality(Users) =< most

(* "refuse to demote the last remaining admin so the operator can't lock   *)
(* themselves out" (src/src/users.rs:86): as long as there are users, one  *)
(* of them is an admin.                                                    *)
AdminRemains == Users # {} => Admins # {}
=============================================================================
