---------------------------- MODULE InternalAuth ----------------------------
(***************************************************************************)
(* Requests of the EE sidecar to this server (src/src/internal_auth.rs):   *)
(* each is signed with a time stamp and a nonce; require_ee_signature      *)
(* verifies the signature and the stamp, and takes the nonce, which stays  *)
(* in a table until a later request sweeps it out.  A request may be       *)
(* delivered again at any time, and the server restarted.                  *)
(*                                                                         *)
(* The check of signature and stamp is in the crate `shared`, which is not *)
(* in this repository: it is taken to refuse a stamp that is more than     *)
(* Skew away from the server's clock.  Nothing here says how long that is. *)
(***************************************************************************)
EXTENDS Integers

CONSTANTS
  Requests,     \* the requests the EE has signed, each with its own nonce
  Deliveries,   \* calls of require_ee_signature
  NoRequest,
  Skew,         \* what the check of the stamp lets pass
  NonceTtl,     \* NONCE_TTL_SECS (300 in the code)
  MaxDelay,     \* longest time between the check and the nonce's transaction
  MaxNow        \* bound: seconds

ASSUME NonceAssumption ==
  /\ NoRequest \notin Requests
  /\ Skew \in Nat /\ NonceTtl \in Nat /\ MaxDelay \in Nat /\ MaxNow \in Nat

VARIABLES
  now,          \* seconds
  stamp,        \* the time stamp of each request
  nonces,       \* internal_request_nonces: expires_at, or -1 for no row
  arrival,      \* what each delivery is doing
  handled,      \* history: how often each request was let through
  taken         \* history: the time that went with its nonce, or -1

nonceVars == <<now, stamp, nonces, arrival, handled, taken>>

NoDelivery == [at |-> "idle", request |-> NoRequest, since |-> 0]

NoncesInit ==
  /\ now = 0
  /\ stamp \in [Requests -> 0..MaxNow]
  /\ nonces = [q \in Requests |-> -1]
  /\ arrival = [d \in Deliveries |-> NoDelivery]
  /\ handled = [q \in Requests |-> 0]
  /\ taken = [q \in Requests |-> -1]

(* No delivery waits for the database for longer than MaxDelay.            *)
PassTime ==
  /\ now < MaxNow
  /\ \A d \in Deliveries :
       arrival[d].at = "verified" => now < arrival[d].since + MaxDelay
  /\ now' = now + 1
  /\ UNCHANGED <<stamp, nonces, arrival, handled, taken>>

VerifyRequest(d, q) ==
  /\ arrival[d].at = "idle"
  /\ now - Skew =< stamp[q] /\ stamp[q] =< now + Skew
  /\ arrival' = [arrival EXCEPT ![d] =
       [at |-> "verified", request |-> q, since |-> now]]
  /\ UNCHANGED <<now, stamp, nonces, handled, taken>>

(* The nonces that a sweep at time t leaves.                               *)
Swept(t) == [q \in Requests |-> IF nonces[q] < t THEN -1 ELSE nonces[q]]

(* Mutant: a nonce is swept in its last second.                            *)
ConsumeSweptEarly(d) ==
  LET q == arrival[d].request
      t == arrival[d].since
      left == Swept(t + 1)
  IN
  /\ arrival[d].at = "verified"
  /\ IF left[q] = -1
     THEN /\ nonces' = [left EXCEPT ![q] = t + NonceTtl]
          /\ handled' = [handled EXCEPT ![q] = @ + 1]
          /\ taken' = [taken EXCEPT ![q] = t]
     ELSE nonces' = left /\ UNCHANGED <<handled, taken>>
  /\ arrival' = [arrival EXCEPT ![d] = NoDelivery]
  /\ UNCHANGED <<now, stamp>>

(* consume_nonce: one transaction sweeps the table and inserts the nonce;  *)
(* no row inserted is a replay.  The time was read before the transaction  *)
(* began, in the second of the check.                                      *)
ConsumeNonce(d) ==
  LET q == arrival[d].request
      t == arrival[d].since
      left == Swept(t)
  IN
  /\ arrival[d].at = "verified"
  /\ IF left[q] = -1
     THEN /\ nonces' = [left EXCEPT ![q] = t + NonceTtl]
          /\ handled' = [handled EXCEPT ![q] = @ + 1]
          /\ taken' = [taken EXCEPT ![q] = t]
     ELSE nonces' = left /\ UNCHANGED <<handled, taken>>
  /\ arrival' = [arrival EXCEPT ![d] = NoDelivery]
  /\ UNCHANGED <<now, stamp>>

(* The table outlives the server; deliveries do not.                       *)
NoncesRestart ==
  /\ arrival' = [d \in Deliveries |-> NoDelivery]
  /\ UNCHANGED <<now, stamp, nonces, handled, taken>>

NoncesNext ==
  \/ PassTime \/ NoncesRestart
  \/ \E d \in Deliveries :
       ConsumeNonce(d) \/ \E q \in Requests : VerifyRequest(d, q)

NoncesSpec == NoncesInit /\ [][NoncesNext]_nonceVars

-----------------------------------------------------------------------------
(* Properties.                                                             *)

(* Every variable has its type.                                            *)
NoncesTypeOK ==
  /\ now \in 0..MaxNow
  /\ stamp \in [Requests -> 0..MaxNow]
  /\ nonces \in [Requests -> -1..(MaxNow + NonceTtl)]
  /\ arrival \in [Deliveries -> [at : {"idle", "verified"},
       request : Requests \cup {NoRequest}, since : 0..MaxNow]]
  /\ handled \in [Requests -> Nat]
  /\ taken \in [Requests -> -1..MaxNow]

(* A nonce that was taken is good for NonceTtl: a request that was let     *)
(* through is let through again, if ever, only after that, however far     *)
(* apart the clocks are, across restarts, whatever other requests sweep    *)
(* the table meanwhile, and however late a delivery comes to its           *)
(* transaction with the time it read before.                               *)
NoEarlyReplay ==
  [][\A q \in Requests : handled'[q] > handled[q] /\ handled[q] > 0 =>
       now > taken[q] + NonceTtl]_nonceVars

(* The nonces are kept until no stamp that was near one of them passes,    *)
(* and what passed has come to its transaction.                            *)
LifetimeCovers == 2 * Skew + MaxDelay =< NonceTtl

(* A request is let through once, whenever it is delivered again, across   *)
(* restarts, and whatever other requests sweep the table meanwhile; if     *)
(* LifetimeCovers.                                                         *)
HandledOnce == \A q \in Requests : handled[q] =< 1
=============================================================================
