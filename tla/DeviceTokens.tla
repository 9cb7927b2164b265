---------------------------- MODULE DeviceTokens ----------------------------
(***************************************************************************)
(* Pairing and the agents' tokens: the device codes of src/src/            *)
(* device_auth.rs and cli_auth.rs, the token rows of src/src/db.rs, their  *)
(* revocation (src/src/tokens.rs) and their use by agent sockets           *)
(* (src/src/main.rs).  Every step is one statement or one transaction of   *)
(* the database; the handlers run concurrently.                            *)
(*                                                                         *)
(* A row of tokens holds an access token and the refresh token that        *)
(* replaces it; both are known here by the row's number, and a number is   *)
(* used once.  The throttle on wrong user codes is in SecondFactor.        *)
(***************************************************************************)
EXTENDS Integers

CONSTANTS
  Devices,     \* device codes
  PurposeOf,   \* "agent" or "cli"
  Polls,       \* calls of poll_device_token and poll_cli_token
  Refreshes,   \* calls of refresh_device_token
  Hostnames,
  NoDevice, NoHost,
  MaxTokens    \* bound: pairs issued

ASSUME DevicesAssumption ==
  /\ PurposeOf \in [Devices -> {"agent", "cli"}]
  /\ NoDevice \notin Devices /\ NoHost \notin Hostnames
  /\ MaxTokens \in Nat

VARIABLES
  device,      \* pending_devices
  token,       \* tokens
  issued,      \* pairs issued so far
  poll,        \* what each poll is doing
  refresh,     \* what each refresh is doing
  holder,      \* the agent socket opened with each access token
  grants,      \* history: pairs and CLI sessions handed out for each code
  unsettled,   \* history: codes one of whose polls was overlapped or cut off
  used,        \* history: how often each refresh token was accepted
  revoked      \* history: the pairs an operator has revoked

grantVars == <<device, poll, grants, unsettled>>
tokenVars == <<token, issued, refresh, holder, used, revoked>>
deviceVars == <<grantVars, tokenVars>>

Tokens == 1..MaxTokens

NoRowYet == [row |-> "none", approved |-> FALSE, stale |-> FALSE]
Absent   == [row |-> FALSE, access |-> "expired", refresh |-> "null",
             host |-> NoHost]
Issued(h) == [row |-> TRUE, access |-> "live", refresh |-> "live", host |-> h]
NoPoll    == [at |-> "idle", device |-> NoDevice]
NoRefresh == [at |-> "idle", old |-> 0, host |-> NoHost]
NoHolder  == [at |-> "none", host |-> NoHost]

DevicesInit ==
  /\ device = [d \in Devices |-> NoRowYet]
  /\ token = [t \in Tokens |-> Absent]
  /\ issued = 0
  /\ poll = [p \in Polls |-> NoPoll]
  /\ refresh = [f \in Refreshes |-> NoRefresh]
  /\ holder = [t \in Tokens |-> NoHolder]
  /\ grants = [d \in Devices |-> [pairs |-> 0, sessions |-> 0]]
  /\ unsettled = {}
  /\ used = [t \in Tokens |-> 0]
  /\ revoked = {}

DeviceKept(d) == device[d].row = "kept"

(* token_exists.                                                           *)
Admits(t) == token[t].row /\ token[t].access = "live"

(* The lookup of replace_token_on_refresh.                                 *)
Refreshable(t) == token[t].row /\ token[t].refresh = "live"

-----------------------------------------------------------------------------
(* Pairing.                                                                *)

RequestDevice(d) ==
  /\ device[d].row = "none"
  /\ device' = [device EXCEPT ![d].row = "kept"]
  /\ UNCHANGED <<poll, grants, unsettled, tokenVars>>

(* approve_user_code: one UPDATE, of a row that waits for it.              *)
ApproveDevice(d) ==
  /\ DeviceKept(d) /\ ~device[d].stale /\ ~device[d].approved
  /\ device' = [device EXCEPT ![d].approved = TRUE]
  /\ UNCHANGED <<poll, grants, unsettled, tokenVars>>

(* The code's five minutes are over.                                       *)
Lapse(d) ==
  /\ DeviceKept(d)
  /\ device' = [device EXCEPT ![d].stale = TRUE]
  /\ UNCHANGED <<poll, grants, unsettled, tokenVars>>

(* A poll of either kind, or purge_expired_devices, meets a lapsed row.    *)
PurgeLapsed(d) ==
  /\ DeviceKept(d) /\ device[d].stale
  /\ device' = [device EXCEPT ![d].row = "gone"]
  /\ UNCHANGED <<poll, grants, unsettled, tokenVars>>

(* Either poll reads an approved row.  Only the CLI's looks at its         *)
(* purpose.                                                                *)
ReadApproved(p, d, at) ==
  /\ poll[p].at = "idle"
  /\ DeviceKept(d) /\ device[d].approved /\ ~device[d].stale
  /\ at = "cli" => PurposeOf[d] = "cli"
  /\ poll' = [poll EXCEPT ![p] = [at |-> at, device |-> d]]
  /\ unsettled' = IF \E q \in Polls : poll[q].device = d
                  THEN unsettled \cup {d} ELSE unsettled
  /\ UNCHANGED <<device, grants, tokenVars>>

(* insert_token.                                                           *)
MintPair(p) ==
  /\ poll[p].at = "agent" /\ issued < MaxTokens
  /\ issued' = issued + 1
  /\ token' = [token EXCEPT ![issued + 1] = Issued(NoHost)]
  /\ grants' = [grants EXCEPT ![poll[p].device].pairs = @ + 1]
  /\ poll' = [poll EXCEPT ![p].at = "minted"]
  /\ UNCHANGED <<device, unsettled, refresh, holder, used, revoked>>

DeletePending(p) ==
  /\ poll[p].at = "minted"
  /\ device' = [device EXCEPT ![poll[p].device].row = "gone"]
  /\ poll' = [poll EXCEPT ![p] = NoPoll]
  /\ UNCHANGED <<grants, unsettled, tokenVars>>

(* Mutant: the row is deleted whether or not it is still there.            *)
ConsumeAlways(p) ==
  LET d == poll[p].device IN
  /\ poll[p].at = "cli"
  /\ device' = [device EXCEPT ![d].row = "gone"]
  /\ grants' = [grants EXCEPT ![d].sessions = @ + 1]
  /\ poll' = [poll EXCEPT ![p] = NoPoll]
  /\ UNCHANGED <<unsettled, tokenVars>>

(* consume_pending_cli_device: the DELETE says whether the row was there.  *)
(* The time is that of the poll's start: a code that has lapsed meanwhile  *)
(* still does.                                                             *)
ConsumeDevice(p) ==
  LET d == poll[p].device IN
  /\ poll[p].at = "cli"
  /\ IF DeviceKept(d)
     THEN /\ device' = [device EXCEPT ![d].row = "gone"]
          /\ grants' = [grants EXCEPT ![d].sessions = @ + 1]
     ELSE UNCHANGED <<device, grants>>
  /\ poll' = [poll EXCEPT ![p] = NoPoll]
  /\ UNCHANGED <<unsettled, tokenVars>>

(* The client hangs up, and the handler ends at the await it has come to;  *)
(* the approving user was deleted; or a statement failed.                  *)
CutPoll(p) ==
  /\ poll[p].at # "idle"
  /\ poll' = [poll EXCEPT ![p] = NoPoll]
  /\ unsettled' = unsettled \cup {poll[p].device}
  /\ UNCHANGED <<device, grants, tokenVars>>

-----------------------------------------------------------------------------
(* Refreshing and revoking.                                                *)

(* replace_token_on_refresh looks the row up outside its transaction.      *)
LookUpRefresh(f, t) ==
  /\ refresh[f].at = "idle" /\ Refreshable(t)
  /\ refresh' = [refresh EXCEPT ![f] =
       [at |-> "found", old |-> t, host |-> token[t].host]]
  /\ UNCHANGED <<grantVars, token, issued, holder, used, revoked>>

(* The transaction deletes whatever has the refresh token by now, and      *)
(* inserts the new pair in any case.                                       *)
ReplacePair(f) ==
  LET old == refresh[f].old IN
  /\ refresh[f].at = "found" /\ issued < MaxTokens
  /\ issued' = issued + 1
  /\ token' = [token EXCEPT
       ![old] = IF token[old].refresh = "null" THEN @ ELSE Absent,
       ![issued + 1] = Issued(refresh[f].host)]
  /\ used' = [used EXCEPT ![old] = @ + 1]
  /\ refresh' = [refresh EXCEPT ![f] = NoRefresh]
  /\ UNCHANGED <<grantVars, holder, revoked>>

(* The client hangs up; a transaction that was begun is rolled back.       *)
CutRefresh(f) ==
  /\ refresh[f].at = "found"
  /\ refresh' = [refresh EXCEPT ![f] = NoRefresh]
  /\ UNCHANGED <<grantVars, token, issued, holder, used, revoked>>

Revoke(T) ==
  /\ T # {}
  /\ token' = [t \in Tokens |-> IF t \in T THEN Absent ELSE token[t]]
  /\ revoked' = revoked \cup T
  /\ UNCHANGED <<grantVars, issued, refresh, holder, used>>

RevokeToken(t) == token[t].row /\ Revoke({t})

RevokeByHostname(h) ==
  Revoke({t \in Tokens : token[t].row /\ token[t].host = h})

(* An hour, and thirty days, pass.                                         *)
Age(t) ==
  /\ \/ /\ token[t].access = "live"
        /\ token' = [token EXCEPT ![t].access = "expired"]
     \/ /\ token[t].access = "expired" /\ token[t].refresh = "live"
        /\ token' = [token EXCEPT ![t].refresh = "expired"]
  /\ UNCHANGED <<grantVars, issued, refresh, holder, used, revoked>>

-----------------------------------------------------------------------------
(* The sockets of the agents.  Nothing closes those of a revoked token.    *)

OpenSocket(t) ==
  /\ holder[t].at = "none" /\ Admits(t)
  /\ holder' = [holder EXCEPT ![t].at = "open"]
  /\ UNCHANGED <<grantVars, token, issued, refresh, used, revoked>>

(* The identity-binding guard reads the row; no row is no binding.  A      *)
(* socket whose token is bound to another host ends.                       *)
CheckBinding(t, h) ==
  /\ holder[t].at = "open"
  /\ holder' = [holder EXCEPT ![t] =
       IF token[t].host \in {NoHost, h} THEN [at |-> "checked", host |-> h]
       ELSE NoHolder]
  /\ UNCHANGED <<grantVars, token, issued, refresh, used, revoked>>

(* Mutant: a row that is put back is good for an hour.                     *)
UpsertSeenRenewed(t) ==
  /\ holder[t].at = "checked"
  /\ token' = [token EXCEPT ![t].row = TRUE, ![t].host = holder[t].host,
                            ![t].access = "live"]
  /\ holder' = [holder EXCEPT ![t] = [at |-> "open", host |-> NoHost]]
  /\ UNCHANGED <<grantVars, issued, refresh, used, revoked>>

(* upsert_token_seen: a row that was deleted meanwhile is put back, with   *)
(* the columns' defaults: no refresh token, and expired.                   *)
UpsertTokenSeen(t) ==
  /\ holder[t].at = "checked"
  /\ token' = [token EXCEPT ![t].row = TRUE, ![t].host = holder[t].host]
  /\ holder' = [holder EXCEPT ![t] = [at |-> "open", host |-> NoHost]]
  /\ UNCHANGED <<grantVars, issued, refresh, used, revoked>>

CloseHolder(t) ==
  /\ holder[t].at = "open"
  /\ holder' = [holder EXCEPT ![t] = NoHolder]
  /\ UNCHANGED <<grantVars, token, issued, refresh, used, revoked>>

-----------------------------------------------------------------------------
DevicesNext ==
  \/ \E d \in Devices :
       \/ RequestDevice(d) \/ ApproveDevice(d) \/ Lapse(d) \/ PurgeLapsed(d)
       \/ \E p \in Polls, at \in {"agent", "cli"} : ReadApproved(p, d, at)
  \/ \E p \in Polls :
       MintPair(p) \/ DeletePending(p) \/ ConsumeDevice(p) \/ CutPoll(p)
  \/ \E f \in Refreshes :
       \/ ReplacePair(f) \/ CutRefresh(f)
       \/ \E t \in Tokens : LookUpRefresh(f, t)
  \/ \E t \in Tokens :
       \/ RevokeToken(t) \/ Age(t)
       \/ OpenSocket(t) \/ UpsertTokenSeen(t) \/ CloseHolder(t)
       \/ \E h \in Hostnames : CheckBinding(t, h)
  \/ \E h \in Hostnames : RevokeByHostname(h)

DevicesSpec == DevicesInit /\ [][DevicesNext]_deviceVars

-----------------------------------------------------------------------------
(* Properties.                                                             *)

(* Every variable has its type.                                            *)
DevicesTypeOK ==
  /\ device \in [Devices -> [row : {"none", "kept", "gone"},
                             approved : BOOLEAN, stale : BOOLEAN]]
  /\ token \in [Tokens ->
       [row : BOOLEAN, access : {"live", "expired"},
        refresh : {"null", "live", "expired"}, host : Hostnames \cup {NoHost}]]
  /\ issued \in 0..MaxTokens
  /\ poll \in [Polls -> [at : {"idle", "agent", "minted", "cli"},
                         device : Devices \cup {NoDevice}]]
  /\ refresh \in [Refreshes -> [at : {"idle", "found"}, old : 0..MaxTokens,
                                host : Hostnames \cup {NoHost}]]
  /\ holder \in [Tokens -> [at : {"none", "open", "checked"},
                            host : Hostnames \cup {NoHost}]]
  /\ grants \in [Devices -> [pairs : Nat, sessions : Nat]]
  /\ unsettled \subseteq Devices
  /\ used \in [Tokens -> Nat]
  /\ revoked \subseteq Tokens

(* A device code is good for one grant: never for two CLI sessions         *)
(* (consume_pending_cli_device), and for two pairs of tokens, or a pair    *)
(* and a session, only if polls of it overlapped or were cut off.          *)
OneGrantPerCode ==
  \A d \in Devices :
    /\ grants[d].sessions =< 1
    /\ d \notin unsettled => grants[d].pairs + grants[d].sessions =< 1

(* What was revoked opens no socket and is refreshed by no call that comes *)
(* after, although open sockets of it go on to register and put its row    *)
(* back (upsert_token_seen), and refreshes that had looked it up go on.    *)
RevokedStaysOut ==
  \A t \in revoked : ~Admits(t) /\ ~Refreshable(t)

(* "Single-use refresh-token rotation" (src/src/db.rs:518): a refresh      *)
(* token is accepted once.                                                 *)
RefreshOnce == \A t \in Tokens : used[t] =< 1
=============================================================================
