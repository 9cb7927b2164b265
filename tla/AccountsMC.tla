----------------------------- MODULE AccountsMC -----------------------------
(* Who may come in, for TLC: pairing and tokens, accounts and seats, the   *)
(* second factor, and the nonces of the EE's requests.  The components     *)
(* share nothing: a behaviour is one of one of the four.  That is also why *)
(* one pair of calls and one pair of names do for all of them, and why     *)
(* they may be permuted together.                                          *)
EXTENDS DeviceTokens, Accounts, SecondFactor, InternalAuth, TLC

CONSTANTS call1, call2, name1, name2, name3, d1, i1, k1, once, again

VARIABLE part

(* The code of a CLI, which may also be polled for an agent's tokens; the  *)
(* code of an agent; and no code.                                          *)
CliPurpose   == [d \in {d1} |-> "cli"]
AgentPurpose == [d \in {d1} |-> "agent"]
NoPurpose    == [d \in {} |-> "cli"]

vars == <<part, deviceVars, accountVars, factorVars, nonceVars>>

AccessInit ==
  /\ part \in {"devices", "accounts", "factor", "nonces"}
  /\ DevicesInit /\ AccountsInit /\ FactorInit /\ NoncesInit
  /\ part # "accounts" => seats = 1
  /\ part # "nonces" => stamp = [q \in Requests |-> 0]

AccessNext ==
  \/ /\ part = "devices" /\ DevicesNext
     /\ UNCHANGED <<part, accountVars, factorVars, nonceVars>>
  \/ /\ part = "accounts" /\ AccountsNext
     /\ UNCHANGED <<part, deviceVars, factorVars, nonceVars>>
  \/ /\ part = "factor" /\ FactorNext
     /\ UNCHANGED <<part, deviceVars, accountVars, nonceVars>>
  \/ /\ part = "nonces" /\ NoncesNext
     /\ UNCHANGED <<part, deviceVars, accountVars, factorVars>>

AccessSpec == AccessInit /\ [][AccessNext]_vars

Alike == Permutations({call1, call2}) \cup Permutations({name1, name2})

(* The variables of all four have their types.                             *)
AccessTypeOK ==
  /\ DevicesTypeOK /\ AccountsTypeOK /\ FactorTypeOK /\ NoncesTypeOK
=============================================================================
