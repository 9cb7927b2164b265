---------------------------- MODULE SecondFactor ----------------------------
(***************************************************************************)
(* The sessions of one account and its second factor: tokens that the      *)
(* server signs and does not keep (src/src/auth.rs), the session_epoch of  *)
(* the account's row that ends them, and the exchange of a pending session *)
(* for a full one with a TOTP code, a recovery code (src/src/mfa.rs) or a  *)
(* passkey (src/src/passkey_mfa.rs), throttled by src/src/throttle.rs.     *)
(*                                                                         *)
(* Times are whole seconds.  A row is read and written by single           *)
(* statements; what was read is used after other calls have written.       *)
(* Whether a TOTP code or a passkey is right is anybody's guess.  A list   *)
(* of recovery codes is the set of its entries: a code that it has twice   *)
(* is two of them.                                                         *)
(***************************************************************************)
EXTENDS Integers

CONSTANTS
  Exchanges,    \* calls of verify_handler and of passkey_mfa's finish
  Bumps,        \* calls of logout, set_role and disable_handler
  Codes,        \* entries of lists of recovery codes
  MaxFails,     \* MAX_FAILS (10 in the code)
  LockTime,     \* LOCK_SECS (15 minutes in the code)
  MaxClock,     \* bound: seconds
  MaxSessions   \* bound: sessions issued

ASSUME FactorAssumption ==
  /\ MaxFails \in Nat \ {0} /\ LockTime \in Nat
  /\ MaxClock \in Nat \ {0} /\ MaxSessions \in Nat

VARIABLES
  clock,
  account,     \* the row of users
  session,     \* the tokens that were issued
  made,        \* how many
  exchange,    \* what each exchange is doing
  bump,        \* what each call that ends sessions is doing
  failing,     \* AppState.mfa_throttle: the account's record
  ended,       \* history: sessions older than an end that was written
  smuggled,    \* history: full sessions issued for one that had ended
  accepted,    \* history: how often each code was accepted since its enrolment
  reset        \* history: ends overlapped, or the account was made anew

rowVars == <<clock, account>>
histVars == <<ended, smuggled, accepted, reset>>
factorVars ==
  <<rowVars, session, made, exchange, bump, failing, histVars>>

Sessions == 1..MaxSessions

NewRow     == [kept |-> TRUE, epoch |-> 0, totp |-> FALSE, codes |-> {}]
NoSession  == [iat |-> 0, mfa |-> FALSE]
NoExchange == [at |-> "idle", now |-> 0, seen |-> {}, of |-> 0]
NoBump     == [at |-> "idle", now |-> 0]
NoFails    == [fails |-> 0, until |-> 0]

FactorInit ==
  /\ clock = 1
  /\ account = NewRow
  /\ session = [n \in Sessions |-> NoSession]
  /\ made = 0
  /\ exchange = [x \in Exchanges |-> NoExchange]
  /\ bump = [b \in Bumps |-> NoBump]
  /\ failing = NoFails
  /\ ended = {} /\ smuggled = {}
  /\ accepted = [k \in Codes |-> 0]
  /\ reset = FALSE

(* current_user and pending_mfa_user, but for the token's own expiry.      *)
ValidSession(n) ==
  n =< made /\ account.kept /\ session[n].iat >= account.epoch

Issue(full) ==
  /\ made < MaxSessions
  /\ made' = made + 1
  /\ session' = [session EXCEPT ![made + 1] = [iat |-> clock, mfa |-> full]]

-----------------------------------------------------------------------------
Tick ==
  /\ clock < MaxClock
  /\ clock' = clock + 1
  /\ UNCHANGED <<account, session, made, exchange, bump, failing, histVars>>

(* callback_handler, for an account that is there.                         *)
SignIn ==
  /\ account.kept
  /\ Issue(~account.totp)
  /\ UNCHANGED <<rowVars, exchange, bump, failing, histVars>>

(* Mutant: the row is written as a whole, and the epoch is lost.           *)
ConfirmReplacing(n, K) ==
  /\ ValidSession(n) /\ session[n].mfa /\ K # {}
  /\ account' = [NewRow EXCEPT !.totp = TRUE, !.codes = K]
  /\ accepted' = [k \in Codes |-> IF k \in K THEN 0 ELSE accepted[k]]
  /\ UNCHANGED <<clock, session, made, exchange, bump, failing, ended, smuggled,
                 reset>>

(* confirm_handler: the codes are those of the request, new or not.        *)
ConfirmFactor(n, K) ==
  /\ ValidSession(n) /\ session[n].mfa /\ K # {}
  /\ account' = [account EXCEPT !.totp = TRUE, !.codes = K]
  /\ accepted' = [k \in Codes |-> IF k \in K THEN 0 ELSE accepted[k]]
  /\ UNCHANGED <<clock, session, made, exchange, bump, failing, ended, smuggled,
                 reset>>

(* users.rs delete_handler, and the callback's INSERT afterwards: the new  *)
(* row has the columns' defaults.                                          *)
DeleteAccount ==
  /\ account.kept
  /\ account' = [NewRow EXCEPT !.kept = FALSE]
  /\ UNCHANGED <<clock, session, made, exchange, bump, failing, histVars>>

MakeAnew ==
  /\ ~account.kept
  /\ account' = NewRow
  /\ reset' = TRUE
  /\ UNCHANGED <<clock, session, made, exchange, bump, failing, ended, smuggled,
                 accepted>>

-----------------------------------------------------------------------------
(* Ending the sessions.                                                    *)

(* The handler has come to read the time.                                  *)
StartBump(b) ==
  /\ bump[b].at = "idle" /\ account.kept
  /\ bump' = [bump EXCEPT ![b] = [at |-> "now", now |-> clock]]
  /\ reset' = (reset \/ \E c \in Bumps : bump[c].at # "idle")
  /\ UNCHANGED <<rowVars, session, made, exchange, failing, ended, smuggled,
                 accepted>>

(* disable_handler turns the factor off before it ends the sessions.       *)
ClearFactor(b) ==
  /\ bump[b].at = "now" /\ account.totp
  /\ bump' = [bump EXCEPT ![b].at = "cleared"]
  /\ account' = [account EXCEPT !.totp = FALSE, !.codes = {}]
  /\ UNCHANGED <<clock, session, made, exchange, failing, ended, smuggled,
                 accepted, reset>>

(* bump_session_epoch: the time is written, whatever is there.             *)
WriteEpoch(b) ==
  /\ bump[b].at \in {"now", "cleared"}
  /\ account' = IF account.kept THEN [account EXCEPT !.epoch = bump[b].now]
                ELSE account
  /\ ended' = IF account.kept
              THEN ended \cup {n \in 1..made : session[n].iat < bump[b].now}
              ELSE ended
  /\ bump' = [bump EXCEPT ![b] = NoBump]
  /\ UNCHANGED <<clock, session, made, exchange, failing, smuggled, accepted,
                 reset>>

-----------------------------------------------------------------------------
(* Exchanging a pending session.                                           *)

Begin(x, n, at) ==
  exchange' = [exchange EXCEPT ![x] =
    [at |-> at, now |-> clock, seen |-> {}, of |-> n]]

(* verify_handler, if the throttle lets it, or passkey_mfa's finish, which *)
(* asks the EE.                                                            *)
StartExchange(x, n) ==
  /\ exchange[x].at = "idle" /\ ValidSession(n) /\ ~session[n].mfa
  /\ \/ failing.until =< clock /\ Begin(x, n, "checked")
     \/ Begin(x, n, "asked")
  /\ UNCHANGED <<rowVars, session, made, bump, failing, histVars>>

(* The row is read once more, for its secret and its recovery codes.       *)
ReadFactors(x) ==
  /\ exchange[x].at = "checked"
  /\ exchange' = IF account.kept /\ account.totp
                 THEN [exchange EXCEPT ![x].at = "read",
                                       ![x].seen = account.codes]
                 ELSE [exchange EXCEPT ![x] = NoExchange]
  /\ UNCHANGED <<rowVars, session, made, bump, failing, histVars>>

(* A recovery code is right.                                               *)
AcceptCode(x, k) ==
  /\ exchange[x].at = "read" /\ k \in exchange[x].seen
  /\ accepted' = [accepted EXCEPT ![k] = @ + 1]
  /\ exchange' = [exchange EXCEPT ![x].at = "spent", ![x].seen = {}]
  /\ UNCHANGED <<clock, session, made, bump, failing, ended, smuggled, reset>>

(* The list that was read, without the code, replaces what the row has.    *)
SpendCode(x, k) ==
  /\ AcceptCode(x, k)
  /\ account' = IF account.kept
                THEN [account EXCEPT !.codes = exchange[x].seen \ {k}]
                ELSE account

(* The list cannot be encrypted or written; that is only logged.           *)
FailToBurn(x, k) == AcceptCode(x, k) /\ UNCHANGED account

(* record_failure: the lock is counted from the time the handler began.    *)
(* What matters of the count is whether it has come to MaxFails.           *)
RejectCode(x) ==
  /\ exchange[x].at = "read"
  /\ failing' = IF failing.fails + 1 < MaxFails
                THEN [failing EXCEPT !.fails = @ + 1]
                ELSE [fails |-> MaxFails, until |-> exchange[x].now + LockTime]
  /\ exchange' = [exchange EXCEPT ![x] = NoExchange]
  /\ UNCHANGED <<rowVars, session, made, bump, histVars>>

(* The passkey is not the account's, or the EE does not answer.            *)
RejectPasskey(x) ==
  /\ exchange[x].at = "asked"
  /\ exchange' = [exchange EXCEPT ![x] = NoExchange]
  /\ UNCHANGED <<rowVars, session, made, bump, failing, histVars>>

(* The TOTP code is right, the recovery code was spent, or the EE has      *)
(* confirmed the passkey; only the first two clear the throttle.           *)
IssueFull(x) ==
  /\ exchange[x].at \in {"read", "spent", "asked"}
  /\ Issue(TRUE)
  /\ smuggled' = IF exchange[x].of \in ended THEN smuggled \cup {made + 1}
                 ELSE smuggled
  /\ failing' = IF exchange[x].at = "asked" THEN failing ELSE NoFails
  /\ exchange' = [exchange EXCEPT ![x] = NoExchange]
  /\ UNCHANGED <<rowVars, bump, ended, accepted, reset>>

-----------------------------------------------------------------------------
FactorNext ==
  \/ Tick \/ SignIn \/ DeleteAccount \/ MakeAnew
  \/ \E n \in Sessions, K \in SUBSET Codes : ConfirmFactor(n, K)
  \/ \E b \in Bumps : StartBump(b) \/ ClearFactor(b) \/ WriteEpoch(b)
  \/ \E x \in Exchanges :
       \/ ReadFactors(x) \/ RejectCode(x) \/ RejectPasskey(x) \/ IssueFull(x)
       \/ \E n \in Sessions : StartExchange(x, n)
       \/ \E k \in Codes : SpendCode(x, k) \/ FailToBurn(x, k)

FactorSpec == FactorInit /\ [][FactorNext]_factorVars

-----------------------------------------------------------------------------
(* Properties.                                                             *)

(* Every variable has its type.                                            *)
FactorTypeOK ==
  /\ clock \in 1..MaxClock
  /\ account \in [kept : BOOLEAN, epoch : 0..MaxClock, totp : BOOLEAN,
                  codes : SUBSET Codes]
  /\ session \in [Sessions -> [iat : 0..MaxClock, mfa : BOOLEAN]]
  /\ made \in 0..MaxSessions
  /\ exchange \in [Exchanges ->
       [at : {"idle", "checked", "read", "spent", "asked"},
        now : 0..MaxClock, seen : SUBSET Codes, of : 0..MaxSessions]]
  /\ bump \in [Bumps -> [at : {"idle", "now", "cleared"}, now : 0..MaxClock]]
  /\ failing \in [fails : 0..MaxFails, until : Nat]
  /\ ended \subseteq Sessions /\ smuggled \subseteq Sessions
  /\ accepted \in [Codes -> Nat]
  /\ reset \in BOOLEAN

(* A session issued in a second before a logout, a change of role or the   *)
(* end of the second factor is never good again, whatever else is written  *)
(* to the account's row and whenever the end is written.  This fails only  *)
(* if two such ends overlap, so that the earlier time is written last, or  *)
(* if the account is deleted and made anew, when the epoch starts from 0.  *)
EndedStaysEnded == reset \/ \A n \in ended : ~ValidSession(n)

(* auth.rs 844-846: pending tokens need the protection of the epoch,       *)
(* "otherwise a revoked token could still be exchanged for a fresh         *)
(* MFA-verified session".  The epoch is looked at when the exchange        *)
(* begins; an end that is written before its session is issued is not      *)
(* seen, and the session is newer than it.                                 *)
ExchangedIsLive == reset \/ smuggled = {}

(* mfa.rs 19-21: the verification "burns a recovery code".  Of two that    *)
(* have read the list, each accepts a code and writes back what is left of *)
(* its own copy; and a list that cannot be written back is left as it is:  *)
(* a code can be accepted twice, and RecoveryCodesAreSpent says that these *)
(* are the only ways.                                                      *)
CodesSpentOnce == \A k \in Codes : accepted[k] =< 1
=============================================================================
