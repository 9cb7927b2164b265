---------------------------- MODULE AccessProofs ----------------------------
(* Proofs about who may come in: DeviceTokens, SecondFactor and Accounts,  *)
(* for any codes, calls, logins and bounds.  The three share nothing, and  *)
(* have an invariant each; with InternalAuth they make up AccountsMC.      *)
EXTENDS AccountsMC, InternalAuthProofs, FiniteSetTheorems

-----------------------------------------------------------------------------
(* Pairing and tokens.                                                     *)

DeviceRows == [row : {"none", "kept", "gone"}, approved : BOOLEAN,
               stale : BOOLEAN]

TokenRows ==
  [row : BOOLEAN, access : {"live", "expired"},
   refresh : {"null", "live", "expired"}, host : Hostnames \cup {NoHost}]

Polling(p, d) == poll[p].at # "idle" /\ poll[p].device = d

PollsHaveCodes ==
  \A p \in Polls : poll[p].at # "idle" => poll[p].device \in Devices

(* A code that was exchanged for a session has no row any more.            *)
SessionTakesRow ==
  \A d \in Devices :
    /\ grants[d].sessions =< 1
    /\ grants[d].sessions = 1 => device[d].row = "gone"

(* What has been granted for a code whose polls neither overlapped nor     *)
(* were cut off: as much as its poll, or its row, shows.                   *)
Settled(d) ==
  /\ \A p, q \in Polls : Polling(p, d) /\ Polling(q, d) => p = q
  /\ \A p \in Polls : Polling(p, d) =>
       grants[d].sessions = 0 /\ grants[d].pairs = IF poll[p].at = "minted" THEN 1 ELSE 0
  /\ (\A p \in Polls : ~Polling(p, d)) =>
       \/ grants[d].pairs + grants[d].sessions = 0
       \/ grants[d].pairs + grants[d].sessions = 1 /\ device[d].row = "gone"

PairingInv ==
  /\ DevicesTypeOK /\ PollsHaveCodes /\ SessionTakesRow
  /\ \A d \in Devices \ unsettled : Settled(d)

(* A pair that was not issued has no row and no socket, and one that was   *)
(* revoked is spent for good.                                              *)
RevokedIsSpent ==
  /\ \A t \in Tokens : t > issued => ~token[t].row /\ holder[t].at = "none"
  /\ \A t \in revoked : /\ t =< issued
                        /\ token[t].access = "expired" /\ token[t].refresh = "null"
  /\ \A f \in Refreshes : refresh[f].at = "found" =>
       refresh[f].old \in Tokens /\ refresh[f].old =< issued

DevicesInv == PairingInv /\ RevokedIsSpent

(* Initially no code was asked for.                                        *)
LEMMA DevicesInitInv == DevicesInit => DevicesInv
  BY DevicesAssumption, SMT
     DEF DevicesInit, DevicesInv, PairingInv, DevicesTypeOK, PollsHaveCodes,
         SessionTakesRow, Settled, Polling, RevokedIsSpent, NoRowYet, Absent,
         NoPoll, NoRefresh, NoHolder, Tokens

(* What poll p does with d is nothing to the polls of other codes.         *)
LEMMA OtherCodes ==
  ASSUME NEW p \in Polls, NEW d \in Devices, NEW e \in Devices, d # e, Settled(e),
         NEW x, poll \in [Polls -> [at : {"idle", "agent", "minted", "cli"},
                                    device : Devices \cup {NoDevice}]],
         poll' = [poll EXCEPT ![p] = x],
         Polling(p, d) \/ poll[p].at = "idle",
         x.at = "idle" \/ x.device = d,
         grants'[e] = grants[e],
         device'[e].row = device[e].row \/ device'[e].row = "gone"
  PROVE  Settled(e)'
<1>1. \A q \in Polls : Polling(q, e)' <=> Polling(q, e)
  BY DEF Polling
<1>2. \A q \in Polls : Polling(q, e) => poll'[q] = poll[q]
  BY DEF Polling
<1> QED
  BY <1>1, <1>2 DEF Settled

(* A field of a code's row is set.                                         *)
LEMMA RowFields ==
  ASSUME device \in [Devices -> DeviceRows], NEW d \in Devices,
         \/ device[d].row # "gone" /\ device' = [device EXCEPT ![d].row = "kept"]
         \/ device' = [device EXCEPT ![d].row = "gone"]
         \/ device' = [device EXCEPT ![d].approved = TRUE]
         \/ device' = [device EXCEPT ![d].stale = TRUE]
  PROVE  /\ device' \in [Devices -> DeviceRows]
         /\ \A e \in Devices : e # d => device'[e] = device[e]
         /\ device[d].row = "gone" => device'[d].row = "gone"
<1>1. /\ [device[d] EXCEPT !.row = "kept"] \in DeviceRows
      /\ [device[d] EXCEPT !.row = "gone"] \in DeviceRows
      /\ [device[d] EXCEPT !.row = "gone"].row = "gone"
  BY DEF DeviceRows
<1>2. /\ [device[d] EXCEPT !.approved = TRUE] \in DeviceRows
      /\ [device[d] EXCEPT !.stale = TRUE] \in DeviceRows
      /\ [device[d] EXCEPT !.approved = TRUE].row = device[d].row
      /\ [device[d] EXCEPT !.stale = TRUE].row = device[d].row
  BY DEF DeviceRows
<1>3. CASE device[d].row # "gone" /\ device' = [device EXCEPT ![d].row = "kept"]
  BY <1>1, <1>3
<1>4. CASE device' = [device EXCEPT ![d].row = "gone"]
  BY <1>1, <1>4
<1>5. CASE device' = [device EXCEPT ![d].approved = TRUE]
  BY <1>2, <1>5
<1>6. CASE device' = [device EXCEPT ![d].stale = TRUE]
  BY <1>2, <1>6
<1> QED
  BY <1>3, <1>4, <1>5, <1>6

(* The row of a code, by itself.                                           *)
LEMMA RowSteps ==
  ASSUME PairingInv, NEW d \in Devices,
         RequestDevice(d) \/ ApproveDevice(d) \/ Lapse(d) \/ PurgeLapsed(d)
  PROVE  PairingInv'
<1>1. /\ UNCHANGED <<poll, grants, unsettled, tokenVars>>
      /\ device' \in [Devices -> DeviceRows]
      /\ \A e \in Devices : device[e].row = "gone" => device'[e].row = "gone"
  <2>1. device \in [Devices -> DeviceRows]
    BY DEF PairingInv, DevicesTypeOK, DeviceRows
  <2>2. /\ UNCHANGED <<poll, grants, unsettled, tokenVars>>
        /\ \/ device[d].row # "gone"
                /\ device' = [device EXCEPT ![d].row = "kept"]
           \/ device' = [device EXCEPT ![d].row = "gone"]
           \/ device' = [device EXCEPT ![d].approved = TRUE]
           \/ device' = [device EXCEPT ![d].stale = TRUE]
    BY DEF RequestDevice, ApproveDevice, Lapse, PurgeLapsed
  <2> QED
    BY <2>1, <2>2, RowFields
<1>2. DevicesTypeOK' /\ PollsHaveCodes' /\ SessionTakesRow'
  BY <1>1 DEF PairingInv, DevicesTypeOK, tokenVars, PollsHaveCodes,
              SessionTakesRow, DeviceRows
<1>3. ASSUME NEW e \in Devices \ unsettled PROVE Settled(e)'
  BY <1>1, <1>3 DEF PairingInv, Settled, Polling
<1> QED
  BY <1>1, <1>2, <1>3 DEF PairingInv

(* An approved row is read; if another poll has read it and is not done,   *)
(* the code is unsettled.                                                  *)
LEMMA ReadStep ==
  ASSUME PairingInv, NEW p \in Polls, NEW d \in Devices,
         NEW at \in {"agent", "cli"}, ReadApproved(p, d, at)
  PROVE  PairingInv'
<1> DEFINE x == [at |-> at, device |-> d]
<1>1. /\ UNCHANGED <<device, grants, tokenVars>>
      /\ poll[p].at = "idle" /\ device[d].row = "kept"
      /\ poll' = [poll EXCEPT ![p] = x]
      /\ unsettled' \subseteq Devices /\ unsettled \subseteq unsettled'
      /\ (\E q \in Polls : poll[q].device = d) => d \in unsettled'
  BY DEF ReadApproved, PairingInv, DevicesTypeOK, DeviceKept
<1>2. DevicesTypeOK' /\ PollsHaveCodes' /\ SessionTakesRow'
  BY <1>1 DEF PairingInv, DevicesTypeOK, tokenVars, PollsHaveCodes,
              SessionTakesRow
<1>3. ASSUME NEW e \in Devices \ unsettled', e # d PROVE Settled(e)'
  BY <1>1, <1>3, OtherCodes DEF PairingInv, DevicesTypeOK
<1>4. ASSUME d \notin unsettled' PROVE Settled(d)'
  <2>1. \A q \in Polls : ~Polling(q, d)
    BY <1>1, <1>4 DEF Polling
  <2>2. \A q \in Polls : Polling(q, d)' <=> q = p
    BY <1>1, <2>1 DEF Polling, PairingInv, DevicesTypeOK
  <2>3. Settled(d) /\ grants[d] \in [pairs : Nat, sessions : Nat]
    BY <1>1, <1>4 DEF PairingInv, DevicesTypeOK
  <2>4. grants[d].pairs + grants[d].sessions = 0
    BY <1>1, <2>1, <2>3 DEF Settled
  <2>5. grants[d].pairs = 0 /\ grants[d].sessions = 0
    BY <2>3, <2>4
  <2>6. poll'[p].at # "minted"
    BY <1>1 DEF PairingInv, DevicesTypeOK
  <2> QED
    BY <1>1, <2>2, <2>5, <2>6 DEF Settled
<1> QED
  BY <1>1, <1>2, <1>3, <1>4 DEF PairingInv

(* A pair is handed out, and the poll goes on to delete the row.           *)
LEMMA MintStep ==
  ASSUME PairingInv, NEW p \in Polls, MintPair(p)
  PROVE  PairingInv'
<1>0. PICK d \in Devices : d = poll[p].device
  BY DEF PairingInv, PollsHaveCodes, MintPair
<1> DEFINE x == [poll[p] EXCEPT !.at = "minted"]
<1>1. /\ UNCHANGED <<device, unsettled, refresh, holder, used, revoked>>
      /\ poll[p].at = "agent" /\ poll' = [poll EXCEPT ![p] = x]
      /\ grants' = [grants EXCEPT
           ![d] = [grants[d] EXCEPT !.pairs = grants[d].pairs + 1]]
      /\ issued' = issued + 1 /\ issued < MaxTokens
      /\ token' = [token EXCEPT ![issued + 1] = Issued(NoHost)]
  BY <1>0 DEF MintPair
<1>2. /\ x.at = "minted" /\ x.device = d
      /\ x \in [at : {"idle", "agent", "minted", "cli"},
                device : Devices \cup {NoDevice}]
  BY <1>0, <1>1 DEF PairingInv, DevicesTypeOK
<1>3. /\ grants' \in [Devices -> [pairs : Nat, sessions : Nat]]
      /\ grants'[d].pairs = grants[d].pairs + 1
      /\ \A e \in Devices : grants'[e].sessions = grants[e].sessions
      /\ \A e \in Devices : e # d => grants'[e] = grants[e]
  <2> DEFINE g == [grants[d] EXCEPT !.pairs = grants[d].pairs + 1]
  <2>1. grants \in [Devices -> [pairs : Nat, sessions : Nat]]
    BY DEF PairingInv, DevicesTypeOK
  <2>2. grants[d] \in [pairs : Nat, sessions : Nat]
    BY <2>1
  <2>3. /\ g \in [pairs : Nat, sessions : Nat]
        /\ g.pairs = grants[d].pairs + 1 /\ g.sessions = grants[d].sessions
    BY <2>2
  <2>4. grants' = [grants EXCEPT ![d] = g]
    BY <1>1
  <2> HIDE DEF g
  <2> QED
    BY <2>1, <2>3, <2>4
<1>4. token' \in [Tokens -> TokenRows] /\ issued' \in 0..MaxTokens
  BY <1>1, DevicesAssumption
     DEF PairingInv, DevicesTypeOK, Issued, TokenRows, DevicesAssumption, Tokens
<1>5. DevicesTypeOK'
  BY <1>1, <1>2, <1>3, <1>4 DEF PairingInv, DevicesTypeOK, TokenRows
<1>6. PollsHaveCodes' /\ SessionTakesRow'
  BY <1>1, <1>2, <1>3 DEF PairingInv, DevicesTypeOK, PollsHaveCodes,
                          SessionTakesRow
<1>7. ASSUME NEW e \in Devices \ unsettled', e # d PROVE Settled(e)'
  BY <1>0, <1>1, <1>2, <1>3, <1>7, OtherCodes
     DEF PairingInv, DevicesTypeOK, Polling
<1>8. ASSUME d \notin unsettled' PROVE Settled(d)'
  <2>1. Settled(d) /\ Polling(p, d)
    BY <1>0, <1>1, <1>8 DEF PairingInv, Polling
  <2>2. \A q \in Polls : Polling(q, d)' <=> q = p
    BY <1>1, <1>2, <2>1 DEF Polling, Settled, PairingInv, DevicesTypeOK
  <2>3. grants[d].pairs = 0 /\ grants[d].sessions = 0
    BY <1>1, <2>1 DEF Settled
  <2>4. poll'[p].at = "minted"
    BY <1>1, <1>2 DEF PairingInv, DevicesTypeOK
  <2> QED
    BY <1>3, <2>2, <2>3, <2>4 DEF Settled
<1> QED
  BY <1>5, <1>6, <1>7, <1>8 DEF PairingInv

(* A poll is over: its row is gone with what it has granted, or it was cut *)
(* off, and the code is unsettled.                                         *)
LEMMA PollEnds ==
  ASSUME PairingInv, NEW p \in Polls,
         DeletePending(p) \/ ConsumeDevice(p) \/ CutPoll(p)
  PROVE  PairingInv'
<1>0. poll[p].at # "idle" /\ poll' = [poll EXCEPT ![p] = NoPoll]
      /\ UNCHANGED tokenVars
  BY DEF DeletePending, ConsumeDevice, CutPoll
<1>1. PICK d \in Devices : d = poll[p].device
  BY <1>0 DEF PairingInv, PollsHaveCodes
<1>2. /\ NoPoll \in [at : {"idle", "agent", "minted", "cli"},
                     device : Devices \cup {NoDevice}]
      /\ NoPoll.at = "idle"
  BY DEF NoPoll
<1>3. Polling(p, d)
  BY <1>0, <1>1 DEF Polling
<1>4. CASE DeletePending(p)
  <2>1. /\ UNCHANGED <<grants, unsettled>> /\ poll[p].at = "minted"
        /\ device' \in [Devices -> DeviceRows] /\ device'[d].row = "gone"
        /\ \A e \in Devices : e # d => device'[e] = device[e]
    BY <1>1, <1>4 DEF DeletePending, PairingInv, DevicesTypeOK, DeviceRows
  <2>2. DevicesTypeOK' /\ PollsHaveCodes' /\ SessionTakesRow'
    BY <1>0, <1>2, <2>1 DEF PairingInv, DevicesTypeOK, tokenVars,
                            PollsHaveCodes, SessionTakesRow, DeviceRows
  <2>3. ASSUME NEW e \in Devices \ unsettled', e # d PROVE Settled(e)'
    BY <1>0, <1>2, <1>3, <2>1, <2>3, OtherCodes DEF PairingInv, DevicesTypeOK
  <2>4. ASSUME d \notin unsettled' PROVE Settled(d)'
    <3>1. Settled(d)
      BY <2>1, <2>4 DEF PairingInv
    <3>2. \A q \in Polls : ~Polling(q, d)'
      BY <1>0, <1>2, <1>3, <3>1 DEF Polling, Settled, PairingInv, DevicesTypeOK
    <3>3. grants[d].pairs = 1 /\ grants[d].sessions = 0
      BY <1>3, <2>1, <3>1 DEF Settled
    <3> QED
      BY <2>1, <3>2, <3>3 DEF Settled
  <2> QED
    BY <2>2, <2>3, <2>4 DEF PairingInv
<1>5. CASE ConsumeDevice(p)
  <2>1. /\ poll[p].at = "cli" /\ UNCHANGED unsettled
        /\ \/ /\ device[d].row = "kept"
              /\ device' = [device EXCEPT ![d].row = "gone"]
              /\ grants' = [grants EXCEPT ![d].sessions = @ + 1]
           \/ device[d].row # "kept" /\ UNCHANGED <<device, grants>>
    BY <1>1, <1>5 DEF ConsumeDevice, DeviceKept
  <2>2. /\ device' \in [Devices -> DeviceRows]
        /\ grants' \in [Devices -> [pairs : Nat, sessions : Nat]]
        /\ \A e \in Devices : e # d => device'[e] = device[e]
                                       /\ grants'[e] = grants[e]
        /\ grants'[d].pairs = grants[d].pairs
        /\ \/ /\ device[d].row = "kept" /\ device'[d].row = "gone"
              /\ grants'[d].sessions = grants[d].sessions + 1
           \/ /\ device[d].row # "kept" /\ device' = device
              /\ grants' = grants
    <3>1. /\ device \in [Devices -> DeviceRows]
          /\ grants \in [Devices -> [pairs : Nat, sessions : Nat]]
      BY DEF PairingInv, DevicesTypeOK, DeviceRows
    <3>2. CASE UNCHANGED <<device, grants>>
      BY <2>1, <3>1, <3>2
    <3>3. CASE ~UNCHANGED <<device, grants>>
      <4>1. /\ device[d].row = "kept"
            /\ device' = [device EXCEPT ![d] = [device[d] EXCEPT !.row = "gone"]]
            /\ grants' = [grants EXCEPT
                 ![d] = [grants[d] EXCEPT !.sessions = grants[d].sessions + 1]]
        BY <2>1, <3>3
      <4>2. /\ [device[d] EXCEPT !.row = "gone"] \in DeviceRows
            /\ [device[d] EXCEPT !.row = "gone"].row = "gone"
        BY <3>1 DEF DeviceRows
      <4>3. [grants[d] EXCEPT !.sessions = grants[d].sessions + 1]
              \in [pairs : Nat, sessions : Nat]
        BY <3>1
      <4> QED
        BY <3>1, <4>1, <4>2, <4>3
    <3> QED
      BY <3>2, <3>3
  <2>3. DevicesTypeOK' /\ PollsHaveCodes'
    BY <1>0, <1>2, <2>1, <2>2 DEF PairingInv, DevicesTypeOK, tokenVars,
                                  PollsHaveCodes, DeviceRows
  <2>4. SessionTakesRow'
    <3>1. grants[d].sessions \in Nat
      BY DEF PairingInv, DevicesTypeOK
    <3>2. device[d].row = "kept" => grants[d].sessions = 0
      BY <3>1 DEF PairingInv, SessionTakesRow
    <3> QED
      BY <2>2, <3>2 DEF PairingInv, SessionTakesRow
  <2>5. ASSUME NEW e \in Devices \ unsettled', e # d PROVE Settled(e)'
    BY <1>0, <1>2, <1>3, <2>1, <2>2, <2>5, OtherCodes
       DEF PairingInv, DevicesTypeOK
  <2>6. ASSUME d \notin unsettled' PROVE Settled(d)'
    <3>1. Settled(d)
      BY <2>1, <2>6 DEF PairingInv
    <3>2. \A q \in Polls : ~Polling(q, d)'
      BY <1>0, <1>2, <1>3, <3>1 DEF Polling, Settled, PairingInv, DevicesTypeOK
    <3>3. grants[d].pairs = 0 /\ grants[d].sessions = 0
      BY <1>3, <2>1, <3>1 DEF Settled
    <3> QED
      BY <2>2, <3>2, <3>3 DEF Settled
  <2> QED
    BY <2>3, <2>4, <2>5, <2>6 DEF PairingInv
<1>6. CASE CutPoll(p)
  <2>1. UNCHANGED <<device, grants>> /\ unsettled' = unsettled \cup {d}
    BY <1>1, <1>6 DEF CutPoll
  <2>2. DevicesTypeOK' /\ PollsHaveCodes' /\ SessionTakesRow'
    BY <1>0, <1>2, <2>1 DEF PairingInv, DevicesTypeOK, tokenVars,
                            PollsHaveCodes, SessionTakesRow
  <2>3. ASSUME NEW e \in Devices \ unsettled' PROVE Settled(e)'
    BY <1>0, <1>2, <1>3, <2>1, <2>3, OtherCodes DEF PairingInv, DevicesTypeOK
  <2> QED
    BY <2>2, <2>3 DEF PairingInv
<1> QED
  BY <1>4, <1>5, <1>6

(* The tokens' steps leave the codes alone.                                *)
LEMMA PairingUntouched ==
  ASSUME PairingInv, UNCHANGED grantVars, DevicesTypeOK'
  PROVE  PairingInv'
<1>1. PollsHaveCodes' /\ SessionTakesRow'
  BY DEF PairingInv, PollsHaveCodes, SessionTakesRow, grantVars
<1>2. ASSUME NEW d \in Devices \ unsettled PROVE Settled(d)'
  BY <1>2 DEF PairingInv, Settled, Polling, grantVars
<1> QED
  BY <1>1, <1>2 DEF PairingInv, grantVars

(* A new pair is one that nobody has revoked.                              *)
LEMMA NewPair ==
  ASSUME DevicesTypeOK, RevokedIsSpent, issued < MaxTokens,
         issued' = issued + 1, UNCHANGED <<holder, revoked>>,
         NEW h \in Hostnames \cup {NoHost}, NEW f \in [Tokens -> TokenRows],
         token' = [f EXCEPT ![issued + 1] = Issued(h)],
         \A t \in Tokens : f[t] = token[t] \/ (t =< issued /\ f[t] = Absent),
         \A g \in Refreshes : refresh'[g].at = "found" =>
                                refresh[g].at = "found" /\ refresh'[g] = refresh[g]
  PROVE  RevokedIsSpent' /\ token' \in [Tokens -> TokenRows] /\ issued' \in 0..MaxTokens
<1> USE DevicesAssumption DEF DevicesAssumption, Tokens
<1>0. issued \in 0..MaxTokens /\ revoked \subseteq Tokens
  BY DEF DevicesTypeOK
<1>1. Issued(h) \in TokenRows
  BY DEF Issued, TokenRows
<1>2. /\ token' \in [Tokens -> TokenRows] /\ issued' \in 0..MaxTokens
      /\ \A t \in Tokens : t # issued + 1 => token'[t] = f[t]
  BY <1>0, <1>1
<1>3. ASSUME NEW t \in Tokens, t > issued'
      PROVE  ~token'[t].row /\ holder'[t].at = "none"
  BY <1>0, <1>2, <1>3 DEF RevokedIsSpent, Absent
<1>4. ASSUME NEW t \in revoked
      PROVE  t =< issued' /\ token'[t].access = "expired"
                          /\ token'[t].refresh = "null"
  <2>1. t \in Tokens /\ t =< issued /\ t # issued + 1
    BY <1>0 DEF RevokedIsSpent
  <2>2. token'[t] = token[t] \/ token'[t] = Absent
    BY <1>2, <2>1
  <2> QED
    BY <1>0, <2>1, <2>2 DEF RevokedIsSpent, Absent
<1>5. ASSUME NEW g \in Refreshes, refresh'[g].at = "found"
      PROVE  refresh'[g].old \in Tokens /\ refresh'[g].old =< issued'
  <2>1. /\ refresh[g].at = "found" /\ refresh'[g] = refresh[g]
        /\ issued \in Nat /\ issued' = issued + 1
    BY <1>0, <1>5
  <2>2. PICK old \in Tokens : old = refresh[g].old /\ old =< issued
    BY <2>1 DEF RevokedIsSpent
  <2> QED
    BY <2>1, <2>2
<1>6. revoked' = revoked
  OBVIOUS
<1> QED
  BY <1>2, <1>3, <1>4, <1>5, <1>6 DEF RevokedIsSpent

(* The codes' steps hand out new pairs at most.                            *)
LEMMA PairingSteps ==
  ASSUME DevicesInv,
         \/ \E d \in Devices :
              \/ RequestDevice(d) \/ ApproveDevice(d) \/ Lapse(d) \/ PurgeLapsed(d)
              \/ \E p \in Polls, at \in {"agent", "cli"} : ReadApproved(p, d, at)
         \/ \E p \in Polls :
              MintPair(p) \/ DeletePending(p) \/ ConsumeDevice(p) \/ CutPoll(p)
  PROVE  DevicesInv'
<1>1. PairingInv'
  BY RowSteps, ReadStep, MintStep, PollEnds DEF DevicesInv
<1>2. CASE UNCHANGED tokenVars
  BY <1>1, <1>2 DEF DevicesInv, RevokedIsSpent, tokenVars
<1>3. ASSUME NEW p \in Polls, MintPair(p) PROVE DevicesInv'
  <2>1. /\ token \in [Tokens -> TokenRows]
        /\ DevicesTypeOK /\ RevokedIsSpent
    BY DEF DevicesInv, PairingInv, DevicesTypeOK, TokenRows
  <2>2. /\ issued < MaxTokens /\ issued' = issued + 1
        /\ UNCHANGED <<holder, revoked, refresh>>
        /\ token' = [token EXCEPT ![issued + 1] = Issued(NoHost)]
    BY <1>3 DEF MintPair
  <2>3. PICK h \in Hostnames \cup {NoHost} : h = NoHost
    OBVIOUS
  <2>4. token' = [token EXCEPT ![issued + 1] = Issued(h)]
    BY <2>2, <2>3
  <2>5. \A g \in Refreshes : refresh'[g].at = "found" =>
          refresh[g].at = "found" /\ refresh'[g] = refresh[g]
    BY <2>2
  <2>6. RevokedIsSpent'
    BY <2>1, <2>2, <2>4, <2>5, NewPair
  <2> QED
    BY <1>1, <2>6 DEF DevicesInv
<1>4. \/ UNCHANGED tokenVars
      \/ \E p \in Polls : MintPair(p)
  BY DEF RequestDevice, ApproveDevice, Lapse, PurgeLapsed, ReadApproved,
         DeletePending, ConsumeDevice, CutPoll
<1> QED
  BY <1>2, <1>3, <1>4

(* A refresh replaces a pair that was issued, and revives none.            *)
LEMMA RefreshSteps ==
  ASSUME DevicesInv, NEW f \in Refreshes,
         \/ ReplacePair(f) \/ CutRefresh(f)
         \/ \E t \in Tokens : LookUpRefresh(f, t)
  PROVE  DevicesInv'
<1> USE DEF DevicesInv
<1>0. /\ token \in [Tokens -> TokenRows] /\ DevicesTypeOK
      /\ refresh \in [Refreshes -> [at : {"idle", "found"}, old : 0..MaxTokens,
                                    host : Hostnames \cup {NoHost}]]
  BY DEF PairingInv, DevicesTypeOK, TokenRows
<1>1. CASE ReplacePair(f)
  <2>1. /\ refresh[f].at = "found" /\ issued < MaxTokens
        /\ UNCHANGED <<grantVars, holder, revoked>>
        /\ issued' = issued + 1
        /\ refresh' = [refresh EXCEPT ![f] = NoRefresh]
        /\ used' = [used EXCEPT ![refresh[f].old] = @ + 1]
        /\ token' = [token EXCEPT
             ![refresh[f].old] = IF token[refresh[f].old].refresh = "null"
                                 THEN token[refresh[f].old] ELSE Absent,
             ![issued + 1] = Issued(refresh[f].host)]
    BY <1>1 DEF ReplacePair
  <2>2. PICK old \in Tokens : old = refresh[f].old
    BY <2>1 DEF RevokedIsSpent
  <2>3. PICK host \in Hostnames \cup {NoHost} : host = refresh[f].host
    BY <1>0
  <2> DEFINE row == IF token[old].refresh = "null" THEN token[old] ELSE Absent
             left == [token EXCEPT ![old] = row]
  <2>4. Absent \in TokenRows
    BY DEF Absent, TokenRows
  <2>5. row \in TokenRows /\ (row = token[old] \/ row = Absent)
    BY <1>0, <2>4
  <2>6. left \in [Tokens -> TokenRows]
    BY <1>0, <2>5
  <2>7. token' = [left EXCEPT ![issued + 1] = Issued(host)]
    BY <2>1, <2>2, <2>3
  <2>8. old =< issued
    BY <2>1, <2>2 DEF RevokedIsSpent
  <2> HIDE DEF row
  <2>9. ASSUME NEW t \in Tokens
        PROVE  left[t] = token[t] \/ (t =< issued /\ left[t] = Absent)
    <3>1. CASE t # old
      BY <1>0, <3>1
    <3>2. CASE t = old
      BY <1>0, <2>5, <2>8, <3>2
    <3> QED
      BY <3>1, <3>2
  <2>10. \A g \in Refreshes : refresh'[g].at = "found" =>
           refresh[g].at = "found" /\ refresh'[g] = refresh[g]
    BY <1>0, <2>1 DEF NoRefresh
  <2> HIDE DEF left
  <2>11. /\ RevokedIsSpent' /\ token' \in [Tokens -> TokenRows]
         /\ issued' \in 0..MaxTokens
    BY <1>0, <2>1, <2>6, <2>7, <2>9, <2>10, NewPair
  <2>12. /\ refresh' \in [Refreshes -> [at : {"idle", "found"},
                          old : 0..MaxTokens, host : Hostnames \cup {NoHost}]]
         /\ used' \in [Tokens -> Nat]
    BY <1>0, <2>1, <2>2, DevicesAssumption
       DEF DevicesTypeOK, NoRefresh, DevicesAssumption
  <2>13. DevicesTypeOK'
    BY <1>0, <2>1, <2>11, <2>12 DEF DevicesTypeOK, TokenRows, grantVars
  <2> QED
    BY <2>1, <2>11, <2>13, PairingUntouched
<1>2. CASE CutRefresh(f)
  <2>1. /\ UNCHANGED <<grantVars, token, issued, holder, used, revoked>>
        /\ refresh' = [refresh EXCEPT ![f] = NoRefresh]
    BY <1>2 DEF CutRefresh
  <2>2. RevokedIsSpent'
    BY <1>0, <2>1 DEF RevokedIsSpent, NoRefresh
  <2>3. DevicesTypeOK'
    BY <1>0, <2>1, DevicesAssumption
       DEF DevicesTypeOK, grantVars, NoRefresh, DevicesAssumption
  <2> QED
    BY <2>1, <2>2, <2>3, PairingUntouched
<1>3. ASSUME NEW t \in Tokens, LookUpRefresh(f, t) PROVE DevicesInv'
  <2>1. /\ UNCHANGED <<grantVars, token, issued, holder, used, revoked>>
        /\ token[t].row
        /\ refresh' = [refresh EXCEPT ![f] =
             [at |-> "found", old |-> t, host |-> token[t].host]]
    BY <1>3 DEF LookUpRefresh, Refreshable
  <2>2. t =< issued
    BY <1>0, <2>1, DevicesAssumption
       DEF RevokedIsSpent, DevicesTypeOK, Tokens, DevicesAssumption
  <2>3. RevokedIsSpent'
    BY <1>0, <2>1, <2>2 DEF RevokedIsSpent
  <2>4. DevicesTypeOK'
    BY <1>0, <2>1, DevicesAssumption
       DEF DevicesTypeOK, grantVars, TokenRows, Tokens, DevicesAssumption
  <2> QED
    BY <2>1, <2>3, <2>4, PairingUntouched
<1> QED
  BY <1>1, <1>2, <1>3

(* Revoking and ageing.                                                    *)
LEMMA RevokeSteps ==
  ASSUME DevicesInv,
         \/ \E t \in Tokens : RevokeToken(t) \/ Age(t)
         \/ \E h \in Hostnames : RevokeByHostname(h)
  PROVE  DevicesInv'
<1> USE DEF DevicesInv
<1>0. /\ token \in [Tokens -> TokenRows] /\ DevicesTypeOK
  BY DEF PairingInv, DevicesTypeOK, TokenRows
<1>1. ASSUME NEW T \in SUBSET {t \in Tokens : token[t].row}, Revoke(T)
      PROVE  DevicesInv'
  <2>1. /\ token' = [t \in Tokens |-> IF t \in T THEN Absent ELSE token[t]]
        /\ revoked' = revoked \cup T
        /\ UNCHANGED <<grantVars, issued, refresh, holder, used>>
    BY <1>1 DEF Revoke
  <2>2. token' \in [Tokens -> TokenRows]
    BY <1>0, <2>1 DEF Absent, TokenRows
  <2>3. \A t \in T : t =< issued
    BY <1>0, DevicesAssumption
       DEF RevokedIsSpent, DevicesTypeOK, Tokens, DevicesAssumption
  <2>4. ASSUME NEW t \in Tokens, t \in revoked'
        PROVE  t =< issued /\ token'[t].access = "expired"
                           /\ token'[t].refresh = "null"
    BY <2>1, <2>3, <2>4 DEF RevokedIsSpent, Absent
  <2>5. ASSUME NEW t \in Tokens, t > issued
        PROVE  ~token'[t].row /\ holder'[t].at = "none"
    BY <2>1, <2>5 DEF RevokedIsSpent, Absent
  <2>6. RevokedIsSpent'
    BY <1>0, <2>1, <2>4, <2>5 DEF RevokedIsSpent, DevicesTypeOK
  <2>7. DevicesTypeOK'
    BY <1>0, <2>1, <2>2 DEF DevicesTypeOK, grantVars, TokenRows
  <2> QED
    BY <2>1, <2>6, <2>7, PairingUntouched
<1>2. ASSUME NEW t \in Tokens, Age(t) PROVE DevicesInv'
  <2>1. /\ UNCHANGED <<grantVars, issued, refresh, holder, used, revoked>>
        /\ \/ /\ token[t].access = "live"
              /\ token' = [token EXCEPT
                   ![t] = [token[t] EXCEPT !.access = "expired"]]
           \/ /\ token[t].access = "expired" /\ token[t].refresh = "live"
              /\ token' = [token EXCEPT
                   ![t] = [token[t] EXCEPT !.refresh = "expired"]]
    BY <1>2 DEF Age
  <2>2. PICK r \in TokenRows : /\ token' = [token EXCEPT ![t] = r]
                               /\ r.row = token[t].row
    <3>1. /\ [token[t] EXCEPT !.access = "expired"] \in TokenRows
          /\ [token[t] EXCEPT !.refresh = "expired"] \in TokenRows
          /\ [token[t] EXCEPT !.access = "expired"].row = token[t].row
          /\ [token[t] EXCEPT !.refresh = "expired"].row = token[t].row
      BY <1>0 DEF TokenRows
    <3> QED
      BY <2>1, <3>1
  <2>3. t \notin revoked
    BY <2>1 DEF RevokedIsSpent
  <2>4. /\ token' \in [Tokens -> TokenRows]
        /\ \A u \in Tokens : token'[u].row = token[u].row
        /\ \A u \in Tokens : u # t => token'[u] = token[u]
    BY <1>0, <2>2
  <2>5. RevokedIsSpent'
    BY <1>0, <2>1, <2>3, <2>4 DEF RevokedIsSpent, DevicesTypeOK
  <2>6. DevicesTypeOK'
    BY <1>0, <2>1, <2>4 DEF DevicesTypeOK, grantVars, TokenRows
  <2> QED
    BY <2>1, <2>5, <2>6, PairingUntouched
<1> QED
  BY <1>1, <1>2 DEF RevokeToken, RevokeByHostname

(* The sockets: none of an access token that is dead opens one, and what   *)
(* they put back is dead.                                                  *)
LEMMA SocketSteps ==
  ASSUME DevicesInv, NEW t \in Tokens,
         \/ OpenSocket(t) \/ UpsertTokenSeen(t) \/ CloseHolder(t)
         \/ \E h \in Hostnames : CheckBinding(t, h)
  PROVE  DevicesInv'
<1> USE DEF DevicesInv
<1> DEFINE Holders == [at : {"none", "open", "checked"},
                       host : Hostnames \cup {NoHost}]
<1>0. /\ token \in [Tokens -> TokenRows] /\ DevicesTypeOK
      /\ holder \in [Tokens -> Holders] /\ issued \in Nat
  BY DevicesAssumption
     DEF PairingInv, DevicesTypeOK, TokenRows, DevicesAssumption
<1>1. t =< issued
  <2>1. token[t].row \/ holder[t].at # "none"
    BY DEF OpenSocket, UpsertTokenSeen, CloseHolder, CheckBinding, Admits
  <2>2. t \in Nat
    BY DevicesAssumption DEF Tokens, DevicesAssumption
  <2> QED
    BY <1>0, <2>1, <2>2 DEF RevokedIsSpent
<1>2. PICK x \in Holders : holder' = [holder EXCEPT ![t] = x]
  <2>1. ASSUME OpenSocket(t) PROVE \E x \in Holders : holder' = [holder EXCEPT ![t] = x]
    <3>1. [holder[t] EXCEPT !.at = "open"] \in Holders
      BY <1>0
    <3> QED
      BY <2>1, <3>1 DEF OpenSocket
  <2>2. ASSUME NEW h \in Hostnames, CheckBinding(t, h)
        PROVE  \E x \in Holders : holder' = [holder EXCEPT ![t] = x]
    <3>1. NoHolder \in Holders /\ [at |-> "checked", host |-> h] \in Holders
      BY DEF NoHolder
    <3>2. \/ holder' = [holder EXCEPT ![t] = NoHolder]
          \/ holder' = [holder EXCEPT ![t] = [at |-> "checked", host |-> h]]
      BY <2>2 DEF CheckBinding
    <3> QED
      BY <3>1, <3>2
  <2>3. ASSUME UpsertTokenSeen(t) \/ CloseHolder(t)
        PROVE  \E x \in Holders : holder' = [holder EXCEPT ![t] = x]
    <3>1. NoHolder \in Holders /\ [at |-> "open", host |-> NoHost] \in Holders
      BY DEF NoHolder
    <3> QED
      BY <2>3, <3>1 DEF UpsertTokenSeen, CloseHolder
  <2> QED
    BY <2>1, <2>2, <2>3
<1>3. PICK r \in TokenRows :
        /\ token' = [token EXCEPT ![t] = r]
        /\ r.access = token[t].access /\ r.refresh = token[t].refresh
  <2>1. CASE token' = token
    <3>1. token' = [token EXCEPT ![t] = token[t]] /\ token[t] \in TokenRows
      BY <1>0, <2>1
    <3> QED
      BY <3>1
  <2>2. CASE UpsertTokenSeen(t)
    <3>1. token' = [token EXCEPT ![t] = [token[t] EXCEPT !.row = TRUE,
                                                         !.host = holder[t].host]]
      <4>1. token' = [token EXCEPT ![t].row = TRUE, ![t].host = holder[t].host]
        BY <2>2 DEF UpsertTokenSeen
      <4> QED
        BY <1>0, <4>1
    <3>2. ASSUME NEW row \in TokenRows, NEW h \in Hostnames \cup {NoHost}
          PROVE  LET put == [row EXCEPT !.row = TRUE, !.host = h]
                 IN put \in TokenRows /\ put.access = row.access
                                      /\ put.refresh = row.refresh
      BY DEF TokenRows
    <3> QED
      BY <1>0, <3>1, <3>2
  <2> QED
    BY <2>1, <2>2 DEF OpenSocket, CloseHolder, CheckBinding
<1>4. UNCHANGED <<grantVars, issued, refresh, used, revoked>>
  BY DEF OpenSocket, UpsertTokenSeen, CloseHolder, CheckBinding
<1>5. /\ token' \in [Tokens -> TokenRows] /\ holder' \in [Tokens -> Holders]
      /\ \A u \in Tokens : u # t => token'[u] = token[u] /\ holder'[u] = holder[u]
      /\ \A u \in Tokens : token'[u].access = token[u].access
                           /\ token'[u].refresh = token[u].refresh
  BY <1>0, <1>2, <1>3
<1>6. DevicesTypeOK'
  BY <1>0, <1>4, <1>5 DEF DevicesTypeOK, grantVars, TokenRows
<1>7. ASSUME NEW u \in Tokens, u > issued
      PROVE  ~token'[u].row /\ holder'[u].at = "none"
  <2>1. u # t
    BY <1>0, <1>1, <1>7, DevicesAssumption DEF Tokens, DevicesAssumption
  <2> QED
    BY <1>5, <1>7, <2>1 DEF RevokedIsSpent
<1>8. ASSUME NEW u \in Tokens, u \in revoked
      PROVE  u =< issued /\ token'[u].access = "expired"
                         /\ token'[u].refresh = "null"
  BY <1>5, <1>8 DEF RevokedIsSpent
<1>9. RevokedIsSpent'
  BY <1>0, <1>4, <1>7, <1>8 DEF RevokedIsSpent, DevicesTypeOK
<1> QED
  BY <1>4, <1>6, <1>9, PairingUntouched

(* Every step keeps the invariant.                                         *)
LEMMA DevicesStep == DevicesInv /\ [DevicesNext]_deviceVars => DevicesInv'
<1> SUFFICES ASSUME DevicesInv, [DevicesNext]_deviceVars PROVE DevicesInv'
  OBVIOUS
<1>1. CASE UNCHANGED deviceVars
  BY <1>1 DEF DevicesInv, PairingInv, DevicesTypeOK, PollsHaveCodes,
              SessionTakesRow, Settled, Polling, RevokedIsSpent, deviceVars,
              grantVars, tokenVars
<1>2. CASE DevicesNext
  BY <1>2, PairingSteps, RefreshSteps, RevokeSteps, SocketSteps DEF DevicesNext
<1> QED
  BY <1>1, <1>2

(* The codes, the token rows, and what is known of them, keep their types. *)
THEOREM DevicesTypeCorrect == DevicesSpec => []DevicesTypeOK
<1>1. DevicesInv => DevicesTypeOK
  BY DEF DevicesInv, PairingInv
<1> QED
  BY <1>1, DevicesInitInv, DevicesStep, PTL DEF DevicesSpec

(* A device code is good for one grant (consume_pending_cli_device), unless *)
(* polls of it overlapped or were cut off.                                  *)
THEOREM CodesGrantOnce == DevicesSpec => []OneGrantPerCode
<1>1. DevicesInv => OneGrantPerCode
  <2> SUFFICES ASSUME DevicesInv, NEW d \in Devices
               PROVE  /\ grants[d].sessions =< 1
                      /\ d \notin unsettled =>
                           grants[d].pairs + grants[d].sessions =< 1
    BY DEF OneGrantPerCode
  <2>1. grants[d].pairs \in Nat /\ grants[d].sessions \in Nat
    BY DEF DevicesInv, PairingInv, DevicesTypeOK
  <2>2. grants[d].sessions =< 1
    BY DEF DevicesInv, PairingInv, SessionTakesRow
  <2>3. ASSUME d \notin unsettled
        PROVE  grants[d].pairs + grants[d].sessions =< 1
    <3>1. Settled(d)
      BY <2>3 DEF DevicesInv, PairingInv
    <3> QED
      BY <2>1, <3>1 DEF Settled
  <2> QED
    BY <2>2, <2>3
<1> QED
  BY <1>1, DevicesInitInv, DevicesStep, PTL DEF DevicesSpec

(* What an operator has revoked (src/src/tokens.rs) opens no socket and is *)
(* refreshed no more.                                                      *)
THEOREM RevokedTokensStayOut == DevicesSpec => []RevokedStaysOut
<1>1. DevicesInv => RevokedStaysOut
  BY DEF DevicesInv, PairingInv, DevicesTypeOK, RevokedIsSpent,
         RevokedStaysOut, Admits, Refreshable
<1> QED
  BY <1>1, DevicesInitInv, DevicesStep, PTL DEF DevicesSpec

-----------------------------------------------------------------------------
(* Refreshes that have a token to themselves.                              *)

(* Of the calls that have looked up one refresh token, one is under way at *)
(* a time.                                                                 *)
RefreshesAlone ==
  \A f, g \in Refreshes :
    /\ refresh[f].at = "found" /\ refresh[g].at = "found"
    /\ refresh[f].old = refresh[g].old
    => f = g

(* A refresh token that was accepted is not in its row any more, and no    *)
(* call has it in hand.                                                    *)
AcceptedIsSpent ==
  /\ \A t \in Tokens : used[t] > 0 =>
       used[t] = 1 /\ t =< issued /\ token[t].refresh = "null"
  /\ \A f \in Refreshes : refresh[f].at = "found" => used[refresh[f].old] = 0

(* A step that accepts no refresh token puts none back.                    *)
LEMMA NoneAccepted ==
  ASSUME DevicesInv, AcceptedIsSpent, UNCHANGED <<used, refresh>>,
         issued' \in Nat, issued =< issued',
         \A t \in Tokens : t =< issued /\ token[t].refresh = "null"
           => token'[t].refresh = "null"
  PROVE  AcceptedIsSpent'
<1>1. issued \in Nat /\ Tokens \subseteq Nat
  BY DevicesAssumption
     DEF DevicesInv, PairingInv, DevicesTypeOK, Tokens, DevicesAssumption
<1> QED
  BY <1>1 DEF AcceptedIsSpent

(* Nor does one of the pairing or of the sockets, or a revocation.         *)
LEMMA OthersAcceptNone ==
  ASSUME DevicesInv, AcceptedIsSpent, DevicesNext,
         \A f \in Refreshes : /\ ~ReplacePair(f) /\ ~CutRefresh(f)
                              /\ \A t \in Tokens : ~LookUpRefresh(f, t)
  PROVE  AcceptedIsSpent'
<1>t. /\ issued \in Nat /\ Tokens \subseteq Nat
      /\ token \in [Tokens -> TokenRows]
  BY DevicesAssumption
     DEF DevicesInv, PairingInv, DevicesTypeOK, Tokens, TokenRows,
         DevicesAssumption
<1>1. CASE UNCHANGED tokenVars
  BY <1>t, <1>1, NoneAccepted DEF tokenVars
<1>2. ASSUME NEW p \in Polls, MintPair(p) PROVE AcceptedIsSpent'
  <2>1. /\ issued' = issued + 1 /\ UNCHANGED <<used, refresh>>
        /\ token' = [token EXCEPT ![issued + 1] = Issued(NoHost)]
    BY <1>2 DEF MintPair
  <2>2. \A t \in Tokens : t =< issued => token'[t] = token[t]
    BY <1>t, <2>1
  <2> QED
    BY <1>t, <2>1, <2>2, NoneAccepted
<1>3. ASSUME NEW T \in SUBSET Tokens, Revoke(T) PROVE AcceptedIsSpent'
  <2>1. /\ UNCHANGED <<issued, used, refresh>>
        /\ \A t \in Tokens : token'[t] = Absent \/ token'[t] = token[t]
    BY <1>3 DEF Revoke
  <2> QED
    BY <1>t, <2>1, NoneAccepted DEF Absent
<1>4. ASSUME NEW t \in Tokens,
             \/ Age(t) \/ OpenSocket(t) \/ UpsertTokenSeen(t) \/ CloseHolder(t)
             \/ \E h \in Hostnames : CheckBinding(t, h)
      PROVE  AcceptedIsSpent'
  <2>1. UNCHANGED <<issued, used, refresh>>
    BY <1>4 DEF Age, OpenSocket, UpsertTokenSeen, CloseHolder, CheckBinding
  <2>2. \A u \in Tokens : token[u].refresh = "null" => token'[u].refresh = "null"
    BY <1>t, <1>4 DEF Age, OpenSocket, UpsertTokenSeen, CloseHolder,
       CheckBinding, TokenRows
  <2> QED
    BY <1>t, <2>1, <2>2, NoneAccepted
<1>5. ASSUME NEW t \in Tokens, RevokeToken(t) PROVE AcceptedIsSpent'
  BY <1>3, <1>5 DEF RevokeToken
<1>6. ASSUME NEW h \in Hostnames, RevokeByHostname(h) PROVE AcceptedIsSpent'
  BY <1>3, <1>6 DEF RevokeByHostname
<1> QED
  BY <1>1, <1>2, <1>4, <1>5, <1>6
     DEF DevicesNext, RequestDevice, ApproveDevice, Lapse, PurgeLapsed,
         ReadApproved, DeletePending, ConsumeDevice, CutPoll

(* A refresh looks its token up while it is not accepted yet, and accepts  *)
(* it for the first time if no other has it in hand.                       *)
LEMMA RefreshAccepts ==
  ASSUME DevicesInv, AcceptedIsSpent, RefreshesAlone, NEW f \in Refreshes,
         \/ ReplacePair(f) \/ CutRefresh(f)
         \/ \E t \in Tokens : LookUpRefresh(f, t)
  PROVE  AcceptedIsSpent'
<1>t. /\ issued \in Nat /\ Tokens \subseteq Nat
      /\ token \in [Tokens -> TokenRows] /\ used \in [Tokens -> Nat]
      /\ refresh \in [Refreshes -> [at : {"idle", "found"}, old : 0..MaxTokens,
                                    host : Hostnames \cup {NoHost}]]
      /\ \A g \in Refreshes : refresh[g].at = "found" =>
           refresh[g].old \in Tokens /\ refresh[g].old =< issued
      /\ NoRefresh.at = "idle"
  BY DevicesAssumption
     DEF DevicesInv, PairingInv, DevicesTypeOK, RevokedIsSpent, Tokens, TokenRows,
         NoRefresh, DevicesAssumption
<1>1. CASE CutRefresh(f)
  <2>1. /\ UNCHANGED <<token, issued, used>>
        /\ refresh' = [refresh EXCEPT ![f] = NoRefresh]
    BY <1>1 DEF CutRefresh
  <2>2. \A g \in Refreshes : refresh'[g].at = "found" => refresh'[g] = refresh[g]
    BY <1>t, <2>1
  <2>3. \A g \in Refreshes :
          refresh'[g].at = "found" => used'[refresh'[g].old] = 0
    BY <2>1, <2>2 DEF AcceptedIsSpent
  <2> QED
    BY <2>1, <2>3 DEF AcceptedIsSpent
<1>2. ASSUME NEW t \in Tokens, LookUpRefresh(f, t) PROVE AcceptedIsSpent'
  <2>1. /\ UNCHANGED <<token, issued, used>> /\ token[t].refresh = "live"
        /\ refresh' = [refresh EXCEPT ![f] =
             [at |-> "found", old |-> t, host |-> token[t].host]]
    BY <1>2 DEF LookUpRefresh, Refreshable
  <2>2. used[t] = 0
    BY <1>t, <2>1 DEF AcceptedIsSpent
  <2>3. refresh'[f].old = t
        /\ \A g \in Refreshes : g # f => refresh'[g] = refresh[g]
    BY <1>t, <2>1
  <2>4. \A g \in Refreshes :
          refresh'[g].at = "found" => used'[refresh'[g].old] = 0
    BY <2>1, <2>2, <2>3 DEF AcceptedIsSpent
  <2> QED
    BY <2>1, <2>4 DEF AcceptedIsSpent
<1>3. CASE ReplacePair(f)
  <2>1. PICK old \in Tokens : old = refresh[f].old /\ old =< issued /\ used[old] = 0
    BY <1>t, <1>3 DEF ReplacePair, AcceptedIsSpent
  <2>2. /\ refresh[f].at = "found"
        /\ issued' = issued + 1 /\ issued + 1 \in Tokens
        /\ used' = [used EXCEPT ![old] = used[old] + 1]
        /\ refresh' = [refresh EXCEPT ![f] = NoRefresh]
        /\ token' = [token EXCEPT
             ![old] = IF token[old].refresh = "null" THEN token[old] ELSE Absent,
             ![issued + 1] = Issued(refresh[f].host)]
    BY <1>t, <1>3, <2>1, DevicesAssumption
       DEF ReplacePair, Tokens, DevicesAssumption
  <2>3. /\ used'[old] = 1 /\ \A t \in Tokens : t # old => used'[t] = used[t]
    BY <1>t, <2>1, <2>2
  <2>4. /\ old # issued + 1 /\ token'[old].refresh = "null"
        /\ \A t \in Tokens : t # old /\ t =< issued => token'[t] = token[t]
    BY <1>t, <2>1, <2>2 DEF Absent
  <2>5. \A g \in Refreshes : refresh'[g].at = "found" =>
          g # f /\ refresh'[g] = refresh[g]
    BY <1>t, <2>2
  <2>6. \A g \in Refreshes : refresh'[g].at = "found" => refresh'[g].old # old
    BY <2>1, <2>2, <2>5 DEF RefreshesAlone
  <2>7. \A g \in Refreshes :
          refresh'[g].at = "found" => used'[refresh'[g].old] = 0
    BY <1>t, <2>3, <2>5, <2>6 DEF AcceptedIsSpent
  <2>8. \A t \in Tokens : used'[t] > 0 =>
          used'[t] = 1 /\ t =< issued' /\ token'[t].refresh = "null"
    BY <1>t, <2>1, <2>2, <2>3, <2>4 DEF AcceptedIsSpent
  <2> QED
    BY <2>7, <2>8 DEF AcceptedIsSpent
<1> QED
  BY <1>1, <1>2, <1>3

(* RefreshOnce is lost by that race alone: if no two calls have one        *)
(* refresh token in hand at the same time, it is accepted once, whatever   *)
(* is revoked, expires, or is put back by a socket meanwhile.              *)
THEOREM RefreshesAloneAreOnce ==
  DevicesSpec /\ []RefreshesAlone => []RefreshOnce
<1>1. DevicesInit => AcceptedIsSpent
  BY DEF DevicesInit, AcceptedIsSpent, NoRefresh
<1>2. DevicesInv /\ AcceptedIsSpent /\ RefreshesAlone /\ [DevicesNext]_deviceVars
        => AcceptedIsSpent'
  <2>1. ASSUME AcceptedIsSpent, UNCHANGED deviceVars PROVE AcceptedIsSpent'
    BY <2>1 DEF deviceVars, tokenVars, AcceptedIsSpent
  <2> QED
    BY <2>1, OthersAcceptNone, RefreshAccepts
<1>3. DevicesInv /\ AcceptedIsSpent => RefreshOnce
  BY DEF DevicesInv, PairingInv, DevicesTypeOK, AcceptedIsSpent, RefreshOnce
<1> QED
  BY <1>1, <1>2, <1>3, DevicesInitInv, DevicesStep, PTL DEF DevicesSpec

-----------------------------------------------------------------------------
(* Seats.                                                                  *)

SignInRows ==
  [at : {"idle", "counted", "settled", "seated", "in"},
   login : Logins \cup {NoLogin}, with : Invites \cup {NoInvite},
   first : BOOLEAN, role : Roles, cap : 0..MaxSeats]

ChangeRows ==
  [at : {"idle", "demote", "count", "set", "delete"},
   target : Logins \cup {NoLogin}, to : Roles, last : BOOLEAN]

(* There is a login behind every call that will write a row.               *)
CallsHaveLogins ==
  /\ \A s \in SignIns : signIn[s].at # "idle" => signIn[s].login \in Logins
  /\ \A k \in Changes : change[k].at # "idle" => change[k].target \in Logins

(* No limit, the one in force or one that was read, is above the largest.  *)
CapsAreKnown ==
  /\ seats =< most
  /\ \A s \in SignIns : signIn[s].at = "seated" => signIn[s].cap =< most

AccountsInv ==
  /\ AccountsTypeOK /\ CallsHaveLogins /\ CapsAreKnown
  /\ IsFiniteSet(Users) /\ SeatsKept

(* Initially nobody has an account, and no call is under way.              *)
LEMMA AccountsInitInv == AccountsInit => AccountsInv
<1> SUFFICES ASSUME AccountsInit PROVE AccountsInv
  OBVIOUS
<1>1. AccountsTypeOK /\ CallsHaveLogins /\ CapsAreKnown
  BY AccountsAssumption
     DEF AccountsInit, AccountsTypeOK, CallsHaveLogins, CapsAreKnown,
         NoSignIn, NoChange, Roles, AccountsAssumption
<1>2. Users = {}
  BY DEF AccountsInit, Users
<1>3. IsFiniteSet(Users) /\ Cardinality(Users) = 0
  BY <1>2, FS_EmptySet
<1> QED
  BY <1>1, <1>3, AccountsAssumption
     DEF AccountsInv, SeatsKept, AccountsTypeOK, AccountsAssumption

(* What a step does to the calls.                                          *)
CallsKept ==
  /\ signIn' \in [SignIns -> SignInRows] /\ change' \in [Changes -> ChangeRows]
  /\ CallsHaveLogins' /\ CapsAreKnown'

(* A sign-in goes on with its login, and with a limit that is in force.    *)
LEMMA SignInGoesOn ==
  ASSUME AccountsInv, UNCHANGED <<seats, most, change>>,
         NEW s \in SignIns, NEW r \in SignInRows,
         signIn' = [signIn EXCEPT ![s] = r],
         r.at # "idle" => r.login \in Logins,
         r.at = "seated" => r.cap =< most
  PROVE  CallsKept
<1>1. signIn \in [SignIns -> SignInRows] /\ change \in [Changes -> ChangeRows]
  BY DEF AccountsInv, AccountsTypeOK, SignInRows, ChangeRows
<1>2. /\ signIn' \in [SignIns -> SignInRows] /\ signIn'[s] = r
      /\ \A q \in SignIns : q # s => signIn'[q] = signIn[q]
  BY <1>1
<1> QED
  BY <1>1, <1>2 DEF AccountsInv, CallsKept, CallsHaveLogins, CapsAreKnown

(* So does the call of an admin.                                           *)
LEMMA ChangeGoesOn ==
  ASSUME AccountsInv, UNCHANGED <<seats, most, signIn>>,
         NEW k \in Changes, NEW r \in ChangeRows,
         change' = [change EXCEPT ![k] = r],
         r.at # "idle" => r.target \in Logins
  PROVE  CallsKept
<1>1. signIn \in [SignIns -> SignInRows] /\ change \in [Changes -> ChangeRows]
  BY DEF AccountsInv, AccountsTypeOK, SignInRows, ChangeRows
<1>2. /\ change' \in [Changes -> ChangeRows] /\ change'[k] = r
      /\ \A q \in Changes : q # k => change'[q] = change[q]
  BY <1>1
<1> QED
  BY <1>1, <1>2 DEF AccountsInv, CallsKept, CallsHaveLogins, CapsAreKnown

(* A step that puts no login among the users keeps the seats.              *)
LEMMA NoNewUser ==
  ASSUME AccountsInv, CallsKept, UNCHANGED <<seats, most>>,
         invite' \in [Invites -> Roles \cup {"none", "spent", "gone"}],
         user' \in [Logins -> Roles \cup {"none"}],
         \A l \in Logins : user[l] = "none" => user'[l] = "none"
  PROVE  AccountsInv'
<1>1. AccountsTypeOK'
  BY DEF AccountsInv, AccountsTypeOK, CallsKept, SignInRows, ChangeRows
<1>2. (Users)' \subseteq Users
  BY DEF Users
<1>3. /\ IsFiniteSet((Users)') /\ Cardinality((Users)') =< Cardinality(Users)
      /\ Cardinality(Users) \in Nat /\ Cardinality((Users)') \in Nat
  BY <1>2, FS_Subset, FS_CardinalityType DEF AccountsInv
<1>4. most \in Nat /\ most' = most
  BY DEF AccountsInv, AccountsTypeOK
<1> QED
  BY <1>1, <1>3, <1>4 DEF AccountsInv, SeatsKept, CallsKept

(* A sign-in that is let in is that of the same login.                     *)
LEMMA AdmittedRow ==
  ASSUME NEW r \in SignInRows
  PROVE  /\ In(r) \in SignInRows /\ In(r).at = "in" /\ In(r).login = r.login
<1>0. NoSignIn \in SignInRows
  BY AccountsAssumption DEF SignInRows, NoSignIn, Roles, AccountsAssumption
<1>1. PICK q \in SignInRows : q = NoSignIn
  BY <1>0
<1>2. In(r) = [q EXCEPT !.at = "in", !.login = r.login, !.with = r.with]
  BY <1>1 DEF In
<1> QED
  BY <1>2 DEF SignInRows

(* A sign-in gets on: a seat is taken while fewer than the limit are       *)
(* users.                                                                  *)
LEMMA SignInSteps ==
  ASSUME AccountsInv, NEW s \in SignIns, SignInStep(s)
  PROVE  AccountsInv'
<1>0. /\ signIn \in [SignIns -> SignInRows] /\ signIn[s] \in SignInRows
      /\ seats \in 0..MaxSeats /\ seats =< most /\ NoSignIn \in SignInRows
      /\ user \in [Logins -> Roles \cup {"none"}]
      /\ invite \in [Invites -> Roles \cup {"none", "spent", "gone"}]
      /\ signIn[s].at # "idle" => signIn[s].login \in Logins
      /\ signIn[s].at = "seated" => signIn[s].cap =< most
  BY AccountsAssumption
     DEF AccountsInv, AccountsTypeOK, SignInRows, CallsHaveLogins, CapsAreKnown,
         NoSignIn, Roles, AccountsAssumption
<1>1. ASSUME NEW l \in Logins, NEW i \in Invites \cup {NoInvite},
             CountUsers(s, l, i)
      PROVE  AccountsInv'
  <2>1. PICK r \in SignInRows : /\ signIn' = [signIn EXCEPT ![s] = r]
                                /\ r.at = "counted" /\ r.login = l
    <3>1. ASSUME NEW q \in SignInRows, NEW none \in BOOLEAN
          PROVE  LET next == [q EXCEPT !.at = "counted", !.login = l,
                                       !.with = i, !.first = none]
                 IN next \in SignInRows /\ next.at = "counted" /\ next.login = l
      BY DEF SignInRows
    <3>2. PICK q \in SignInRows, none \in BOOLEAN :
            q = NoSignIn /\ none = (Users = {})
      BY <1>0
    <3>3. signIn' = [signIn EXCEPT ![s] =
            [q EXCEPT !.at = "counted", !.login = l, !.with = i, !.first = none]]
      BY <1>1, <3>2 DEF CountUsers, SignInGoes
    <3> QED
      BY <3>1, <3>3
  <2>2. UNCHANGED <<user, seats, invite, change, most>>
    BY <1>1 DEF CountUsers
  <2>3. CallsKept
    BY <2>1, <2>2, SignInGoesOn
  <2> QED
    BY <1>0, <2>2, <2>3, NoNewUser
<1>2. CASE SettleRole(s)
  <2>1. PICK r \in SignInRows : /\ signIn' = [signIn EXCEPT ![s] = r]
                                /\ r.at = "settled" /\ r.login = signIn[s].login
                                /\ signIn[s].at # "idle"
    <3>1. PICK role \in Roles :
            signIn' = [signIn EXCEPT ![s] = [signIn[s] EXCEPT
              !.at = "settled", !.first = FALSE, !.role = role]]
      <4> DEFINE role == IF signIn[s].first \/ signIn[s].login = Bootstrap
                         THEN "admin" ELSE IF Good(signIn[s].with)
                              THEN invite[signIn[s].with] ELSE "viewer"
      <4>1. role \in Roles
        BY DEF Good, Roles
      <4>2. signIn' = [signIn EXCEPT ![s] = [signIn[s] EXCEPT
              !.at = "settled", !.first = FALSE, !.role = role]]
        BY <1>2 DEF SettleRole, SignInGoes
      <4> HIDE DEF role
      <4> QED
        BY <4>1, <4>2
    <3>2. [signIn[s] EXCEPT !.at = "settled", !.first = FALSE, !.role = role]
            \in SignInRows
      BY <1>0 DEF SignInRows
    <3>3. signIn[s].at # "idle"
      BY <1>2 DEF SettleRole, SignInGoes
    <3>4. [signIn[s] EXCEPT !.at = "settled", !.first = FALSE, !.role = role].at
            = "settled"
          /\ [signIn[s] EXCEPT !.at = "settled", !.first = FALSE, !.role = role].login
            = signIn[s].login
      BY <1>0 DEF SignInRows
    <3> QED
      BY <3>1, <3>2, <3>3, <3>4
  <2>2. UNCHANGED <<user, seats, invite, change, most>>
    BY <1>2 DEF SettleRole
  <2>3. CallsKept
    BY <1>0, <2>1, <2>2, SignInGoesOn
  <2> QED
    BY <1>0, <2>2, <2>3, NoNewUser
<1>3. CASE ReadSeatLimit(s)
  <2>1. PICK r \in SignInRows : /\ signIn' = [signIn EXCEPT ![s] = r]
                                /\ r.login = signIn[s].login /\ r.cap = seats
                                /\ signIn[s].at # "idle"
    <3>1. ASSUME NEW q \in SignInRows, NEW n \in 0..MaxSeats
          PROVE  /\ [q EXCEPT !.at = "seated", !.cap = n] \in SignInRows
                 /\ [q EXCEPT !.at = "seated", !.cap = n].login = q.login
                 /\ [q EXCEPT !.at = "seated", !.cap = n].cap = n
      BY DEF SignInRows
    <3>2. PICK q \in SignInRows, n \in 0..MaxSeats : q = signIn[s] /\ n = seats
      BY <1>0
    <3>3. /\ signIn' = [signIn EXCEPT ![s] =
               [q EXCEPT !.at = "seated", !.cap = n]]
          /\ signIn[s].at # "idle"
      BY <1>3, <3>2 DEF ReadSeatLimit, SignInGoes
    <3> QED
      BY <3>1, <3>2, <3>3
  <2>2. UNCHANGED <<user, seats, invite, change, most>>
    BY <1>3 DEF ReadSeatLimit
  <2>3. CallsKept
    BY <1>0, <2>1, <2>2, SignInGoesOn
  <2> QED
    BY <1>0, <2>2, <2>3, NoNewUser
<1>4. CASE SignInExisting(s)
  <2>1. PICK r \in SignInRows : /\ signIn' = [signIn EXCEPT ![s] = r]
                                /\ r.at = "in" /\ r.login = signIn[s].login
                                /\ signIn[s].at # "idle"
    <3>1. /\ signIn' = [signIn EXCEPT ![s] = In(signIn[s])]
          /\ signIn[s].at # "idle"
      BY <1>4 DEF SignInExisting, SignInGoes
    <3> QED
      BY <1>0, <3>1, AdmittedRow
  <2>2. UNCHANGED <<user, seats, invite, change, most>>
    BY <1>4 DEF SignInExisting
  <2>3. CallsKept
    BY <1>0, <2>1, <2>2, SignInGoesOn
  <2> QED
    BY <1>0, <2>2, <2>3, NoNewUser
<1>5. CASE RefuseSeat(s) \/ AbandonSignIn(s)
  <2>1. /\ signIn' = [signIn EXCEPT ![s] = NoSignIn] /\ NoSignIn.at = "idle"
        /\ UNCHANGED <<user, seats, invite, change, most>>
    BY <1>5 DEF RefuseSeat, AbandonSignIn, SignInGoes, NoSignIn
  <2>2. CallsKept
    BY <1>0, <2>1, SignInGoesOn
  <2> QED
    BY <1>0, <2>1, <2>2, NoNewUser
<1>6. CASE TakeSeat(s)
  <2>1. PICK r \in SignInRows : /\ signIn' = [signIn EXCEPT ![s] = r]
                                /\ r.at = "in" /\ r.login = signIn[s].login
    <3>1. signIn' = [signIn EXCEPT ![s] = In(signIn[s])]
      BY <1>6 DEF TakeSeat, SignInGoes
    <3> QED
      BY <1>0, <3>1, AdmittedRow
  <2>2. /\ UNCHANGED <<seats, invite, change, most>>
        /\ signIn[s].at = "seated" /\ signIn[s].login \notin Users
        /\ Cardinality(Users) < signIn[s].cap
        /\ user' = [user EXCEPT ![signIn[s].login] = signIn[s].role]
    BY <1>6 DEF TakeSeat, SignInGoes
  <2>3. PICK l \in Logins, role \in Roles :
          l = signIn[s].login /\ role = signIn[s].role
    BY <1>0, <2>2 DEF SignInRows
  <2>4. CallsKept
    BY <2>1, <2>2, <2>3, SignInGoesOn
  <2>5. user' = [user EXCEPT ![l] = role]
    BY <2>2, <2>3
  <2>6. (Users)' = Users \cup {l}
    BY <1>0, <2>5 DEF Users, Roles
  <2>7. /\ IsFiniteSet((Users)') /\ Cardinality((Users)') = Cardinality(Users) + 1
        /\ Cardinality(Users) \in Nat
    BY <2>2, <2>3, <2>6, FS_AddElement, FS_CardinalityType DEF AccountsInv
  <2>8. signIn[s].cap \in Nat /\ signIn[s].cap =< most /\ most \in Nat
    BY <1>0, <2>2, AccountsAssumption
       DEF SignInRows, AccountsInv, AccountsTypeOK, AccountsAssumption
  <2>9. SeatsKept'
    BY <2>2, <2>7, <2>8 DEF SeatsKept
  <2>10. user' \in [Logins -> Roles \cup {"none"}]
    BY <1>0, <2>5
  <2>11. AccountsTypeOK'
    BY <2>2, <2>4, <2>10
       DEF AccountsInv, AccountsTypeOK, CallsKept, SignInRows, ChangeRows
  <2> QED
    BY <2>4, <2>7, <2>9, <2>11 DEF AccountsInv, CallsKept
<1>7. CASE RedeemInvite(s)
  <2>1. /\ signIn' = [signIn EXCEPT ![s] = NoSignIn] /\ NoSignIn.at = "idle"
        /\ UNCHANGED <<user, seats, change, most>>
        /\ \/ invite' = [invite EXCEPT ![signIn[s].with] = "spent"]
           \/ invite' = invite
    BY <1>7 DEF RedeemInvite, SignInGoes, NoSignIn
  <2>2. invite' \in [Invites -> Roles \cup {"none", "spent", "gone"}]
    BY <1>0, <2>1
  <2>3. CallsKept
    BY <1>0, <2>1, SignInGoesOn
  <2> QED
    BY <1>0, <2>1, <2>2, <2>3, NoNewUser
<1> QED
  BY <1>1, <1>2, <1>3, <1>4, <1>5, <1>6, <1>7 DEF SignInStep

(* A change of role or a removal gets on: nobody is added.                 *)
LEMMA ChangeSteps ==
  ASSUME AccountsInv, NEW k \in Changes, ChangeStep(k)
  PROVE  AccountsInv'
<1>0. /\ change \in [Changes -> ChangeRows] /\ change[k] \in ChangeRows
      /\ user \in [Logins -> Roles \cup {"none"}] /\ NoChange \in ChangeRows
      /\ invite \in [Invites -> Roles \cup {"none", "spent", "gone"}]
      /\ change[k].at # "idle" => change[k].target \in Logins
      /\ NoChange.at = "idle"
  BY DEF AccountsInv, AccountsTypeOK, ChangeRows, CallsHaveLogins,
         NoChange, Roles
<1>1. PICK r \in ChangeRows : /\ change' = [change EXCEPT ![k] = r]
                              /\ r.at # "idle" => r.target \in Logins
  <2>1. CASE CheckDemote(k)
    <3>1. ASSUME NEW q \in ChangeRows
          PROVE  LET next == [q EXCEPT !.at = "set", !.last = FALSE]
                 IN next \in ChangeRows /\ next.target = q.target
      BY DEF ChangeRows
    <3>2. /\ change[k].at # "idle"
          /\ \/ change' = [change EXCEPT ![k] = NoChange]
             \/ change' = [change EXCEPT ![k] =
                             [change[k] EXCEPT !.at = "set", !.last = FALSE]]
      BY <2>1 DEF CheckDemote, ChangeGoes
    <3> QED
      BY <1>0, <3>1, <3>2
  <2>2. CASE CountForDelete(k)
    <3>1. ASSUME NEW q \in ChangeRows
          PROVE  LET next == [q EXCEPT !.at = "delete"]
                 IN next \in ChangeRows /\ next.target = q.target
      BY DEF ChangeRows
    <3>2. /\ change[k].at # "idle"
          /\ \/ change' = [change EXCEPT ![k] = NoChange]
             \/ change' = [change EXCEPT ![k] = [change[k] EXCEPT !.at = "delete"]]
      BY <2>2 DEF CountForDelete, ChangeGoes
    <3> QED
      BY <1>0, <3>1, <3>2
  <2>3. CASE SetRole(k) \/ DeleteUser(k)
    BY <1>0, <2>3 DEF SetRole, DeleteUser, ChangeGoes
  <2>4. ASSUME NEW l \in Logins,
               CountForDemote(k, l) \/ StartPromote(k, l) \/ CheckDelete(k, l)
        PROVE  \E r \in ChangeRows : /\ change' = [change EXCEPT ![k] = r]
                                     /\ r.at # "idle" => r.target \in Logins
    <3>1. PICK at \in {"demote", "set", "count", "delete"}, to \in Roles,
               last \in BOOLEAN :
            change' = [change EXCEPT ![k] =
              [at |-> at, target |-> l, to |-> to, last |-> last]]
      <4>1. CASE CountForDemote(k, l)
        <5>1. /\ (Cardinality(Admins) =< 1) \in BOOLEAN
              /\ "viewer" \in Roles
          BY DEF Roles
        <5> QED
          BY <4>1, <5>1 DEF CountForDemote, ChangeGoes
      <4>2. CASE StartPromote(k, l)
        BY <4>2 DEF StartPromote, ChangeGoes, Roles
      <4>3. CASE CheckDelete(k, l)
        BY <4>3 DEF CheckDelete, ChangeGoes, Roles
      <4> QED
        BY <2>4, <4>1, <4>2, <4>3
    <3>2. [at |-> at, target |-> l, to |-> to, last |-> last] \in ChangeRows
      BY DEF ChangeRows
    <3> QED
      BY <3>1, <3>2
  <2> QED
    BY <2>1, <2>2, <2>3, <2>4 DEF ChangeStep
<1>2. UNCHANGED <<seats, invite, signIn, most>>
  BY DEF ChangeStep, CheckDemote, CountForDelete, SetRole, DeleteUser,
         CountForDemote, StartPromote, CheckDelete
<1>3. CallsKept
  BY <1>1, <1>2, ChangeGoesOn
<1>4. /\ user' \in [Logins -> Roles \cup {"none"}]
      /\ \A l \in Logins : user[l] = "none" => user'[l] = "none"
  <2>1. CASE user' = user
    BY <1>0, <2>1
  <2>2. CASE SetRole(k)
    <3>1. PICK l \in Logins, to \in Roles :
            l = change[k].target /\ to = change[k].to
      BY <1>0, <2>2 DEF SetRole, ChangeGoes, ChangeRows
    <3>2. \/ user' = [user EXCEPT ![l] = user[l]] /\ user[l] = "none"
          \/ user' = [user EXCEPT ![l] = to] /\ user[l] # "none"
      BY <2>2, <3>1 DEF SetRole
    <3> QED
      BY <1>0, <3>2
  <2>3. CASE DeleteUser(k)
    BY <1>0, <2>3 DEF DeleteUser
  <2> QED
    BY <2>1, <2>2, <2>3 DEF ChangeStep, CheckDemote, CountForDelete,
                            CountForDemote, StartPromote, CheckDelete
<1> QED
  BY <1>0, <1>2, <1>3, <1>4, NoNewUser

(* Every step keeps the invariant.                                         *)
LEMMA AccountsStep == AccountsInv /\ [AccountsNext]_accountVars => AccountsInv'
<1> SUFFICES ASSUME AccountsInv, [AccountsNext]_accountVars PROVE AccountsInv'
  OBVIOUS
<1>0. /\ signIn \in [SignIns -> SignInRows] /\ change \in [Changes -> ChangeRows]
      /\ user \in [Logins -> Roles \cup {"none"}]
      /\ invite \in [Invites -> Roles \cup {"none", "spent", "gone"}]
  BY DEF AccountsInv, AccountsTypeOK, SignInRows, ChangeRows
<1>1. CASE UNCHANGED accountVars
  <2>1. UNCHANGED <<user, seats, invite, signIn, change, most>>
    BY <1>1 DEF accountVars
  <2>2. CallsKept
    BY <1>0, <2>1 DEF AccountsInv, CallsKept, CallsHaveLogins, CapsAreKnown
  <2> QED
    BY <1>0, <2>1, <2>2, NoNewUser
<1>2. ASSUME NEW i \in Invites,
             \/ DeleteInvite(i) \/ LapseInvite(i) \/ AcceptInvite(i)
             \/ \E r \in Roles : CreateInvite(i, r)
      PROVE  AccountsInv'
  <2>1. UNCHANGED <<user, seats, signIn, change, most>>
    BY <1>2 DEF DeleteInvite, LapseInvite, AcceptInvite, CreateInvite
  <2>2. PICK v \in Roles \cup {"none", "spent", "gone"} :
          invite' = [invite EXCEPT ![i] = v]
    BY <1>2 DEF DeleteInvite, LapseInvite, AcceptInvite, CreateInvite
  <2>3. CallsKept
    BY <1>0, <2>1 DEF AccountsInv, CallsKept, CallsHaveLogins, CapsAreKnown
  <2> QED
    BY <1>0, <2>1, <2>2, <2>3, NoNewUser
<1>3. ASSUME NEW n \in 1..MaxSeats, SetSeatLimit(n) PROVE AccountsInv'
  <2>1. /\ UNCHANGED <<user, invite, signIn, change>>
        /\ seats' = n /\ most' = IF n > most THEN n ELSE most
        /\ most \in Nat /\ n \in Nat /\ MaxSeats \in Nat /\ most =< MaxSeats
        /\ most > 0
    BY <1>3, AccountsAssumption
       DEF SetSeatLimit, AccountsInv, AccountsTypeOK, AccountsAssumption
  <2>2. /\ most' \in 1..MaxSeats /\ most =< most' /\ seats' =< most'
        /\ seats' \in 1..MaxSeats
    BY <2>1
  <2>3. CallsHaveLogins'
    BY <2>1 DEF AccountsInv, CallsHaveLogins
  <2>4. CapsAreKnown'
    <3>1. ASSUME NEW s \in SignIns, signIn[s].at = "seated"
          PROVE  signIn[s].cap =< most'
      <4>1. signIn[s].cap \in Nat /\ signIn[s].cap =< most
        BY <1>0, <2>1, <3>1 DEF AccountsInv, CapsAreKnown, SignInRows
      <4> QED
        BY <2>1, <2>2, <4>1
    <3> QED
      BY <2>1, <2>2, <3>1 DEF CapsAreKnown
  <2>5. AccountsTypeOK'
    BY <2>1, <2>2 DEF AccountsInv, AccountsTypeOK
  <2>6. (Users)' = Users
    BY <2>1 DEF Users
  <2>7. Cardinality(Users) \in Nat /\ Cardinality(Users) =< most
    BY FS_CardinalityType DEF AccountsInv, SeatsKept
  <2>8. SeatsKept' /\ IsFiniteSet((Users)')
    BY <2>1, <2>2, <2>6, <2>7 DEF AccountsInv, SeatsKept
  <2> QED
    BY <2>3, <2>4, <2>5, <2>8 DEF AccountsInv
<1> QED
  BY <1>1, <1>2, <1>3, SignInSteps, ChangeSteps DEF AccountsNext

(* The rows of users and invites, and what the calls hold of them, keep    *)
(* their types.                                                            *)
THEOREM AccountsTypeCorrect == AccountsSpec => []AccountsTypeOK
<1>1. AccountsInv => AccountsTypeOK
  BY DEF AccountsInv
<1> QED
  BY <1>1, AccountsInitInv, AccountsStep, PTL DEF AccountsSpec

(* However many sign-ins overlap (upsert_login_with_seat_check), there are *)
(* never more users than the largest limit there has been.                 *)
THEOREM NoSeatIsTakenTwice == AccountsSpec => []SeatsKept
<1>1. AccountsInv => SeatsKept
  BY DEF AccountsInv
<1> QED
  BY <1>1, AccountsInitInv, AccountsStep, PTL DEF AccountsSpec

-----------------------------------------------------------------------------
(* Changes of role that are made one after another.                        *)

(* One call of set_role_handler or delete_handler is under way at a time.  *)
ChangesAlone ==
  \A j, k \in Changes : change[j].at # "idle" /\ change[k].at # "idle" => j = k

(* A sign-in that makes somebody a viewer has seen a user.                 *)
SawUsers(r) ==
  /\ r.at = "counted" /\ ~r.first => Users # {}
  /\ r.at \in {"settled", "seated"} /\ r.role # "admin" => Users # {}

(* A call that is about to take an admin away leaves another.              *)
LeavesAdmin(r) ==
  /\ r.at = "demote" => Admins # {} /\ (r.last \/ \A l \in Logins : Admins \ {l} # {})
  /\ r.at = "set" /\ r.to = "viewer" => Admins \ {r.target} # {}
  /\ r.at = "delete" => Admins \ {r.target} # {}

AdminsInv ==
  /\ AdminRemains
  /\ \A s \in SignIns : SawUsers(signIn[s])
  /\ \A k \in Changes : LeavesAdmin(change[k])

(* More than one admin is one besides any.                                 *)
LEMMA OneBesides ==
  ASSUME AccountsInv, ~(Cardinality(Admins) =< 1)
  PROVE  \A l \in Logins : Admins \ {l} # {}
<1> SUFFICES ASSUME NEW l \in Logins, Admins \ {l} = {} PROVE FALSE
  OBVIOUS
<1>1. Admins \subseteq {l}
  OBVIOUS
<1>2. IsFiniteSet({l}) /\ Cardinality({l}) = 1
  BY FS_Singleton
<1>3. Cardinality(Admins) =< 1
  BY <1>1, <1>2, FS_Subset
<1> QED
  BY <1>3

(* A call that gets on, while the users stay as they are.                  *)
LEMMA SignInKnows ==
  ASSUME AccountsInv, AdminsInv, UNCHANGED <<user, change>>,
         NEW s \in SignIns, NEW r, SawUsers(r),
         signIn' = [signIn EXCEPT ![s] = r]
  PROVE  AdminsInv'
<1>1. (Users)' = Users /\ (Admins)' = Admins
  BY DEF Users, Admins
<1>2. \A q \in SignIns : signIn'[q] \in {r, signIn[q]}
  BY DEF AccountsInv, AccountsTypeOK
<1>3. \A q \in SignIns : SawUsers(signIn[q])'
  BY <1>1, <1>2 DEF AdminsInv, SawUsers
<1>4. \A k \in Changes : LeavesAdmin(change[k])'
  BY <1>1 DEF AdminsInv, LeavesAdmin
<1> QED
  BY <1>1, <1>3, <1>4 DEF AdminsInv, AdminRemains

(* The same of a change.                                                   *)
LEMMA ChangeKnows ==
  ASSUME AccountsInv, AdminsInv, UNCHANGED <<user, signIn>>,
         NEW k \in Changes, NEW r, LeavesAdmin(r),
         change' = [change EXCEPT ![k] = r]
  PROVE  AdminsInv'
<1>1. (Users)' = Users /\ (Admins)' = Admins
  BY DEF Users, Admins
<1>2. \A q \in Changes : change'[q] \in {r, change[q]}
  BY DEF AccountsInv, AccountsTypeOK
<1>3. \A s \in SignIns : SawUsers(signIn[s])'
  BY <1>1 DEF AdminsInv, SawUsers
<1>4. \A q \in Changes : LeavesAdmin(change[q])'
  BY <1>1, <1>2 DEF AdminsInv, LeavesAdmin
<1> QED
  BY <1>1, <1>3, <1>4 DEF AdminsInv, AdminRemains

(* A sign-in adds users, and the first is an admin.                        *)
LEMMA SignInsKeepAdmin ==
  ASSUME AccountsInv, AdminsInv, NEW s \in SignIns, SignInStep(s)
  PROVE  AdminsInv'
<1>0. /\ signIn \in [SignIns -> SignInRows] /\ signIn[s] \in SignInRows
      /\ NoSignIn \in SignInRows /\ user \in [Logins -> Roles \cup {"none"}]
      /\ invite \in [Invites -> Roles \cup {"none", "spent", "gone"}]
      /\ signIn[s].at # "idle" => signIn[s].login \in Logins
      /\ SawUsers(signIn[s])
  BY AccountsAssumption
     DEF AccountsInv, AccountsTypeOK, SignInRows, CallsHaveLogins, AdminsInv,
         NoSignIn, Roles, AccountsAssumption
<1>1. ASSUME NEW l \in Logins, NEW i \in Invites \cup {NoInvite},
             CountUsers(s, l, i)
      PROVE  AdminsInv'
  <2>1. PICK q \in SignInRows, none \in BOOLEAN :
          q = NoSignIn /\ none = (Users = {})
    BY <1>0
  <2> DEFINE r == [q EXCEPT !.at = "counted", !.login = l, !.with = i,
                            !.first = none]
  <2>2. r.at = "counted" /\ (r.first <=> none)
    BY DEF SignInRows
  <2>3. signIn' = [signIn EXCEPT ![s] = r] /\ UNCHANGED <<user, change>>
    BY <1>1, <2>1 DEF CountUsers, SignInGoes
  <2> HIDE DEF r
  <2>4. SawUsers(r)
    BY <2>1, <2>2 DEF SawUsers
  <2> QED
    BY <2>3, <2>4, SignInKnows
<1>2. CASE SettleRole(s)
  <2> DEFINE role == IF signIn[s].first \/ signIn[s].login = Bootstrap
                     THEN "admin" ELSE IF Good(signIn[s].with)
                          THEN invite[signIn[s].with] ELSE "viewer"
             r == [signIn[s] EXCEPT !.at = "settled", !.first = FALSE,
                                    !.role = role]
  <2>1. /\ signIn' = [signIn EXCEPT ![s] = r] /\ UNCHANGED <<user, change>>
        /\ signIn[s].at = "counted"
    BY <1>2 DEF SettleRole, SignInGoes
  <2>2. role # "admin" => ~signIn[s].first
    OBVIOUS
  <2>3. r.at = "settled" /\ r.role = role
    BY <1>0 DEF SignInRows
  <2> HIDE DEF r, role
  <2>4. SawUsers(r)
    BY <1>0, <2>1, <2>2, <2>3 DEF SawUsers
  <2> QED
    BY <2>1, <2>4, SignInKnows
<1>3. CASE ReadSeatLimit(s)
  <2> DEFINE r == [signIn[s] EXCEPT !.at = "seated", !.cap = seats]
  <2>1. /\ signIn' = [signIn EXCEPT ![s] = r] /\ UNCHANGED <<user, change>>
        /\ signIn[s].at = "settled"
    BY <1>3 DEF ReadSeatLimit, SignInGoes
  <2>2. r.at = "seated" /\ r.role = signIn[s].role
    BY <1>0 DEF SignInRows
  <2> HIDE DEF r
  <2>3. SawUsers(r)
    BY <1>0, <2>1, <2>2 DEF SawUsers
  <2> QED
    BY <2>1, <2>3, SignInKnows
<1>4. CASE SignInExisting(s)
  <2>1. /\ signIn' = [signIn EXCEPT ![s] = In(signIn[s])]
        /\ UNCHANGED <<user, change>>
    BY <1>4 DEF SignInExisting, SignInGoes
  <2>2. SawUsers(In(signIn[s]))
    BY <1>0, AdmittedRow DEF SawUsers
  <2> QED
    BY <2>1, <2>2, SignInKnows
<1>5. CASE RefuseSeat(s) \/ AbandonSignIn(s) \/ RedeemInvite(s)
  <2>1. /\ signIn' = [signIn EXCEPT ![s] = NoSignIn] /\ NoSignIn.at = "idle"
        /\ UNCHANGED <<user, change>>
    BY <1>5 DEF RefuseSeat, AbandonSignIn, RedeemInvite, SignInGoes, NoSignIn
  <2>2. SawUsers(NoSignIn)
    BY <2>1 DEF SawUsers
  <2> QED
    BY <2>1, <2>2, SignInKnows
<1>6. CASE TakeSeat(s)
  <2>1. /\ signIn' = [signIn EXCEPT ![s] = In(signIn[s])] /\ change' = change
        /\ signIn[s].at = "seated" /\ signIn[s].login \notin Users
        /\ user' = [user EXCEPT ![signIn[s].login] = signIn[s].role]
    BY <1>6 DEF TakeSeat, SignInGoes
  <2>2. PICK l \in Logins, role \in Roles :
          l = signIn[s].login /\ role = signIn[s].role
    BY <1>0, <2>1 DEF SignInRows
  <2>3. user' = [user EXCEPT ![l] = role] /\ l \notin Users
    BY <2>1, <2>2
  <2>4. /\ (Users)' = Users \cup {l} /\ Admins \subseteq (Admins)'
        /\ role = "admin" => l \in (Admins)'
    BY <1>0, <2>3 DEF Users, Admins, Roles
  <2>5. role # "admin" => Users # {}
    BY <1>0, <2>1, <2>2 DEF SawUsers
  <2>6. AdminRemains'
    BY <2>4, <2>5 DEF AdminsInv, AdminRemains
  <2>7. ASSUME NEW q \in SignIns PROVE SawUsers(signIn[q])'
    <3>1. signIn'[q] = signIn[q] \/ signIn'[q] = In(signIn[s])
      BY <1>0, <2>1
    <3> QED
      BY <1>0, <2>4, <3>1, AdmittedRow DEF AdminsInv, SawUsers
  <2>8. \A k \in Changes : LeavesAdmin(change[k])'
    BY <2>1, <2>4 DEF AdminsInv, LeavesAdmin
  <2> QED
    BY <2>6, <2>7, <2>8 DEF AdminsInv
<1> QED
  BY <1>1, <1>2, <1>3, <1>4, <1>5, <1>6 DEF SignInStep

(* A call of an admin that has the users to itself leaves an admin.        *)
LEMMA ChangesKeepAdmin ==
  ASSUME AccountsInv, AdminsInv, ChangesAlone, NEW k \in Changes, ChangeStep(k)
  PROVE  AdminsInv'
<1>0. /\ change \in [Changes -> ChangeRows] /\ change[k] \in ChangeRows
      /\ user \in [Logins -> Roles \cup {"none"}] /\ NoChange \in ChangeRows
      /\ change[k].at # "idle" => change[k].target \in Logins
      /\ NoChange.at = "idle" /\ LeavesAdmin(change[k]) /\ LeavesAdmin(NoChange)
  BY DEF AccountsInv, AccountsTypeOK, ChangeRows, CallsHaveLogins, AdminsInv,
         NoChange, Roles, LeavesAdmin
<1>i. UNCHANGED signIn
  BY DEF ChangeStep, CheckDemote, CountForDelete, SetRole, DeleteUser,
         CountForDemote, StartPromote, CheckDelete
<1>1. CASE CheckDemote(k)
  <2> DEFINE r == [change[k] EXCEPT !.at = "set", !.last = FALSE]
  <2>1. /\ change[k].at = "demote" /\ UNCHANGED user
        /\ \/ change' = [change EXCEPT ![k] = NoChange]
           \/ /\ ~(change[k].target \in Admins /\ change[k].last)
              /\ change' = [change EXCEPT ![k] = r]
    BY <1>1 DEF CheckDemote, ChangeGoes
  <2>2. r.at = "set" /\ r.target = change[k].target
    BY <1>0 DEF ChangeRows
  <2>3. ~(change[k].target \in Admins /\ change[k].last)
          => Admins \ {change[k].target} # {}
    BY <1>0, <2>1 DEF LeavesAdmin
  <2> HIDE DEF r
  <2>4. ~(change[k].target \in Admins /\ change[k].last) => LeavesAdmin(r)
    BY <2>2, <2>3 DEF LeavesAdmin
  <2> QED
    BY <1>0, <1>i, <2>1, <2>4, ChangeKnows
<1>2. CASE CountForDelete(k)
  <2> DEFINE r == [change[k] EXCEPT !.at = "delete"]
  <2>1. /\ change[k].at = "count" /\ UNCHANGED user
        /\ \/ change' = [change EXCEPT ![k] = NoChange]
           \/ /\ ~(Cardinality(Admins) =< 1)
              /\ change' = [change EXCEPT ![k] = r]
    BY <1>2 DEF CountForDelete, ChangeGoes
  <2>2. r.at = "delete" /\ r.target = change[k].target
    BY <1>0 DEF ChangeRows
  <2> HIDE DEF r
  <2>3. ~(Cardinality(Admins) =< 1) => LeavesAdmin(r)
    BY <1>0, <2>1, <2>2, OneBesides DEF LeavesAdmin
  <2> QED
    BY <1>0, <1>i, <2>1, <2>3, ChangeKnows
<1>3. ASSUME NEW l \in Logins, CountForDemote(k, l) PROVE AdminsInv'
  <2>1. PICK last \in BOOLEAN : last = (Cardinality(Admins) =< 1)
    <3>1. (Cardinality(Admins) =< 1) \in BOOLEAN
      OBVIOUS
    <3> QED
      BY <3>1, Zenon
  <2> DEFINE r == [at |-> "demote", target |-> l, to |-> "viewer", last |-> last]
  <2>2. change' = [change EXCEPT ![k] = r] /\ Admins # {} /\ UNCHANGED user
    BY <1>3, <2>1 DEF CountForDemote, ChangeGoes
  <2>3. LeavesAdmin(r)
    BY <2>1, <2>2, OneBesides DEF LeavesAdmin
  <2> HIDE DEF r
  <2> QED
    BY <1>i, <2>2, <2>3, ChangeKnows
<1>4. ASSUME NEW l \in Logins, StartPromote(k, l) PROVE AdminsInv'
  <2> DEFINE r == [at |-> "set", target |-> l, to |-> "admin", last |-> FALSE]
  <2>1. change' = [change EXCEPT ![k] = r] /\ UNCHANGED user
    BY <1>4 DEF StartPromote, ChangeGoes
  <2>2. LeavesAdmin(r)
    BY DEF LeavesAdmin
  <2> HIDE DEF r
  <2> QED
    BY <1>i, <2>1, <2>2, ChangeKnows
<1>5. ASSUME NEW l \in Logins, CheckDelete(k, l) PROVE AdminsInv'
  <2>1. PICK at \in {"count", "delete"} :
          at = IF l \in Admins THEN "count" ELSE "delete"
    OBVIOUS
  <2> DEFINE r == [at |-> at, target |-> l, to |-> "viewer", last |-> FALSE]
  <2>2. /\ change' = [change EXCEPT ![k] = r] /\ Admins \ {l} # {}
        /\ UNCHANGED user
    BY <1>5, <2>1 DEF CheckDelete, ChangeGoes
  <2>3. LeavesAdmin(r)
    BY <2>2 DEF LeavesAdmin
  <2> HIDE DEF r
  <2> QED
    BY <1>i, <2>2, <2>3, ChangeKnows
<1>6. CASE SetRole(k) \/ DeleteUser(k)
  <2>1. /\ change[k].at \in {"set", "delete"}
        /\ change' = [change EXCEPT ![k] = NoChange]
    BY <1>6 DEF SetRole, DeleteUser, ChangeGoes
  <2>2. PICK l \in Logins, to \in Roles :
          l = change[k].target /\ to = change[k].to
    BY <1>0, <2>1 DEF ChangeRows
  <2>3. /\ \A q \in Changes : change'[q].at = "idle"
    BY <1>0, <2>1 DEF ChangesAlone
  <2>4. /\ \A m \in Logins : m # l => user'[m] = user[m]
        /\ SetRole(k) => user'[l] = IF user[l] = "none" THEN "none" ELSE to
        /\ DeleteUser(k) => user'[l] = "none"
    <3>1. CASE SetRole(k)
      <4>1. \/ user' = [user EXCEPT ![l] = user[l]] /\ user[l] = "none"
            \/ user' = [user EXCEPT ![l] = to] /\ user[l] # "none"
        BY <2>2, <3>1 DEF SetRole
      <4>2. change[k].at = "set"
        BY <3>1 DEF SetRole, ChangeGoes
      <4>3. ~DeleteUser(k)
        BY <4>2 DEF DeleteUser, ChangeGoes
      <4> QED
        BY <1>0, <4>1, <4>3
    <3>2. CASE DeleteUser(k)
      <4>1. user' = [user EXCEPT ![l] = "none"] /\ change[k].at = "delete"
        BY <2>2, <3>2 DEF DeleteUser, ChangeGoes
      <4>2. ~SetRole(k)
        BY <4>1 DEF SetRole, ChangeGoes
      <4> QED
        BY <1>0, <4>1, <4>2
    <3> QED
      BY <1>6, <3>1, <3>2
  <2>5. Admins \ {l} \subseteq (Admins)'
    BY <2>4 DEF Admins
  <2>6. CASE SetRole(k) /\ to = "admin"
    <3>1. Admins \subseteq (Admins)' /\ (Users)' = Users
      BY <2>4, <2>6 DEF Admins, Users
    <3>2. AdminRemains' /\ (Users # {} => (Users)' # {})
      BY <3>1 DEF AdminsInv, AdminRemains
    <3> QED
      BY <1>i, <2>3, <3>2 DEF AdminsInv, SawUsers, LeavesAdmin
  <2>7. CASE DeleteUser(k) \/ to # "admin"
    <3>1. Admins \ {l} # {}
      BY <1>0, <1>6, <2>2, <2>7
         DEF LeavesAdmin, SetRole, DeleteUser, ChangeGoes, Roles
    <3>2. (Admins)' # {} /\ (Admins)' \subseteq (Users)'
      BY <2>5, <3>1 DEF Admins, Users
    <3>3. AdminRemains' /\ (Users)' # {}
      BY <3>2 DEF AdminRemains
    <3> QED
      BY <2>3, <3>3 DEF AdminsInv, SawUsers, LeavesAdmin
  <2> QED
    BY <1>6, <2>6, <2>7
<1> QED
  BY <1>1, <1>2, <1>3, <1>4, <1>5, <1>6 DEF ChangeStep

(* AdminRemains is lost by that race alone: if changes of role and         *)
(* removals are made one after another, there is an admin as long as there *)
(* are users, however many sign-ins overlap with them.                     *)
THEOREM ChangesAloneLeaveAdmin ==
  AccountsSpec /\ []ChangesAlone => []AdminRemains
<1>1. AccountsInit => AdminsInv
  BY DEF AccountsInit, AdminsInv, AdminRemains, SawUsers, LeavesAdmin, Users,
     NoSignIn, NoChange
<1>2. AccountsInv /\ AdminsInv /\ ChangesAlone /\ [AccountsNext]_accountVars
        => AdminsInv'
  <2>1. ASSUME AdminsInv, UNCHANGED <<user, signIn, change>> PROVE AdminsInv'
    BY <2>1 DEF AdminsInv, AdminRemains, SawUsers, LeavesAdmin, Users, Admins
  <2>2. UNCHANGED accountVars => UNCHANGED <<user, signIn, change>>
    BY DEF accountVars
  <2>3. ASSUME NEW i \in Invites,
               \/ DeleteInvite(i) \/ LapseInvite(i) \/ AcceptInvite(i)
               \/ \E r \in Roles : CreateInvite(i, r)
        PROVE  UNCHANGED <<user, signIn, change>>
    BY <2>3 DEF DeleteInvite, LapseInvite, AcceptInvite, CreateInvite
  <2>4. ASSUME NEW n \in 1..MaxSeats, SetSeatLimit(n)
        PROVE  UNCHANGED <<user, signIn, change>>
    BY <2>4 DEF SetSeatLimit
  <2> QED
    BY <2>1, <2>2, <2>3, <2>4, SignInsKeepAdmin, ChangesKeepAdmin
       DEF AccountsNext
<1>3. AdminsInv => AdminRemains
  BY DEF AdminsInv
<1> QED
  BY <1>1, <1>2, <1>3, AccountsInitInv, AccountsStep, PTL DEF AccountsSpec

-----------------------------------------------------------------------------
(* Sessions and recovery codes.                                            *)

AccountRows == [kept : BOOLEAN, epoch : 0..MaxClock, totp : BOOLEAN,
                codes : SUBSET Codes]
SessionRows == [iat : 0..MaxClock, mfa : BOOLEAN]
ExchangeRows == [at : {"idle", "checked", "read", "spent", "asked"},
                 now : 0..MaxClock, seen : SUBSET Codes, of : 0..MaxSessions]
BumpRows == [at : {"idle", "now", "cleared"}, now : 0..MaxClock]

(* Epochs are past times.  Unless ends overlapped or the account was made  *)
(* anew, the one end that is under way is not before the last that was     *)
(* written, and that one is after all the sessions that have ended.        *)
EndsInv ==
  /\ account.epoch =< clock
  /\ \A b \in Bumps : bump[b].now =< clock
  /\ ended \subseteq 1..made
  /\ ~reset =>
       /\ \A b, c \in Bumps : bump[b].at # "idle" /\ bump[c].at # "idle" => b = c
       /\ \A b \in Bumps : bump[b].at # "idle" => account.epoch =< bump[b].now
       /\ account.kept => \A n \in ended : session[n].iat < account.epoch

FactorInv == FactorTypeOK /\ EndsInv

(* The types, by their names.                                              *)
LEMMA FactorRows ==
  FactorTypeOK <=>
    /\ clock \in 1..MaxClock /\ account \in AccountRows
    /\ session \in [Sessions -> SessionRows] /\ made \in 0..MaxSessions
    /\ exchange \in [Exchanges -> ExchangeRows] /\ bump \in [Bumps -> BumpRows]
    /\ failing \in [fails : 0..MaxFails, until : Nat]
    /\ ended \subseteq Sessions /\ smuggled \subseteq Sessions
    /\ accepted \in [Codes -> Nat]
    /\ reset \in BOOLEAN
  BY DEF FactorTypeOK, AccountRows, SessionRows, ExchangeRows, BumpRows

(* Initially there is no session, and nothing has been used.               *)
LEMMA FactorInitInv == FactorInit => FactorInv
<1> SUFFICES ASSUME FactorInit PROVE FactorInv
  OBVIOUS
<1> USE FactorAssumption DEF FactorAssumption
<1>1. /\ account \in AccountRows /\ account.epoch = 0 /\ account.codes = {}
      /\ failing \in [fails : 0..MaxFails, until : Nat]
  BY DEF FactorInit, NewRow, NoFails, AccountRows
<1>2. /\ session \in [Sessions -> SessionRows]
      /\ exchange \in [Exchanges -> ExchangeRows]
      /\ bump \in [Bumps -> BumpRows]
      /\ \A b \in Bumps : bump[b].at = "idle" /\ bump[b].now = 0
  BY DEF FactorInit, NoSession, NoExchange, NoBump, SessionRows, ExchangeRows,
         BumpRows
<1>3. FactorTypeOK
  <2>1. /\ clock \in 1..MaxClock /\ made \in 0..MaxSessions
        /\ accepted \in [Codes -> Nat]
        /\ ended = {} /\ smuggled = {} /\ reset = FALSE
    BY DEF FactorInit
  <2> QED
    BY <1>1, <1>2, <2>1, FactorRows
<1>4. EndsInv
  BY <1>1, <1>2 DEF FactorInit, EndsInv
<1> QED
  BY <1>3, <1>4 DEF FactorInv

(* The rows, one field at a time.                                          *)
LEMMA FactorSet ==
  ASSUME NEW a \in AccountRows, NEW K \in SUBSET Codes
  PROVE  /\ [a EXCEPT !.totp = TRUE, !.codes = K] \in AccountRows
         /\ [a EXCEPT !.totp = TRUE, !.codes = K].kept = a.kept
         /\ [a EXCEPT !.totp = TRUE, !.codes = K].epoch = a.epoch
         /\ [a EXCEPT !.totp = TRUE, !.codes = K].codes = K
  BY DEF AccountRows

(* A row whose factors are taken away.                                     *)
LEMMA FactorCleared ==
  ASSUME NEW a \in AccountRows
  PROVE  /\ [a EXCEPT !.totp = FALSE, !.codes = {}] \in AccountRows
         /\ [a EXCEPT !.totp = FALSE, !.codes = {}].kept = a.kept
         /\ [a EXCEPT !.totp = FALSE, !.codes = {}].epoch = a.epoch
         /\ [a EXCEPT !.totp = FALSE, !.codes = {}].codes = {}
  BY DEF AccountRows

(* A row that lists other recovery codes.                                  *)
LEMMA CodesLeft ==
  ASSUME NEW a \in AccountRows, NEW K \in SUBSET Codes
  PROVE  /\ [a EXCEPT !.codes = K] \in AccountRows
         /\ [a EXCEPT !.codes = K].kept = a.kept
         /\ [a EXCEPT !.codes = K].epoch = a.epoch
         /\ [a EXCEPT !.codes = K].codes = K
  BY DEF AccountRows

(* A row with another epoch.                                               *)
LEMMA EpochWritten ==
  ASSUME NEW a \in AccountRows, NEW e \in 0..MaxClock
  PROVE  /\ [a EXCEPT !.epoch = e] \in AccountRows
         /\ [a EXCEPT !.epoch = e].kept = a.kept
         /\ [a EXCEPT !.epoch = e].epoch = e
         /\ [a EXCEPT !.epoch = e].codes = a.codes
  BY DEF AccountRows

(* A row that is made anew, and one that is gone.                          *)
LEMMA NewRows ==
  /\ NewRow \in AccountRows /\ NewRow.kept /\ NewRow.epoch = 0
  /\ NewRow.codes = {}
  /\ [NewRow EXCEPT !.kept = FALSE] \in AccountRows
  /\ ~[NewRow EXCEPT !.kept = FALSE].kept
  /\ [NewRow EXCEPT !.kept = FALSE].epoch = 0
  /\ [NewRow EXCEPT !.kept = FALSE].codes = {}
  /\ NoExchange \in ExchangeRows /\ NoExchange.at = "idle"
  /\ NoBump \in BumpRows /\ NoBump.at = "idle" /\ NoBump.now = 0
  /\ NoFails \in [fails : 0..MaxFails, until : Nat]
<1>1. /\ NewRow \in AccountRows /\ NewRow.kept /\ NewRow.epoch = 0
      /\ NewRow.codes = {}
  BY FactorAssumption DEF NewRow, AccountRows, FactorAssumption
<1>2. PICK a \in AccountRows : a = NewRow
  BY <1>1
<1>3. /\ [a EXCEPT !.kept = FALSE] \in AccountRows
      /\ ~[a EXCEPT !.kept = FALSE].kept
      /\ [a EXCEPT !.kept = FALSE].epoch = a.epoch
      /\ [a EXCEPT !.kept = FALSE].codes = a.codes
  BY DEF AccountRows
<1>4. /\ NoExchange \in ExchangeRows /\ NoExchange.at = "idle"
      /\ NoBump \in BumpRows /\ NoBump.at = "idle" /\ NoBump.now = 0
      /\ NoFails \in [fails : 0..MaxFails, until : Nat]
  BY FactorAssumption
     DEF NoExchange, NoBump, NoFails, ExchangeRows, BumpRows, FactorAssumption
<1> QED
  BY <1>1, <1>2, <1>3, <1>4

(* The part of EndsInv that nothing else disturbs: no end begins or is     *)
(* written.                                                                *)
LEMMA EndsKept ==
  ASSUME FactorTypeOK, EndsInv,
         clock' \in Nat, clock =< clock', made' \in Nat, made =< made',
         \A n \in 1..made : session'[n].iat = session[n].iat,
         UNCHANGED ended, reset => reset',
         account'.kept => account.kept,
         \/ account'.epoch = account.epoch
         \/ account'.epoch = 0 /\ ~account'.kept,
         \A b \in Bumps : /\ bump'[b].now = bump[b].now
                          /\ bump'[b].at = "idle" <=> bump[b].at = "idle"
  PROVE  EndsInv'
<1>0. /\ account.epoch \in Nat /\ clock \in Nat /\ made \in Nat
      /\ \A b \in Bumps : bump[b].now \in Nat
  BY FactorAssumption DEF FactorTypeOK, FactorAssumption
<1>1. /\ account'.epoch =< clock' /\ account'.epoch =< account.epoch
      /\ \A b \in Bumps : bump'[b].now =< clock'
  BY <1>0 DEF EndsInv
<1>2. ended' \subseteq 1..made'
  BY <1>0 DEF EndsInv
<1>3. ASSUME ~reset'
      PROVE  /\ \A b, c \in Bumps :
                  bump'[b].at # "idle" /\ bump'[c].at # "idle" => b = c
             /\ \A b \in Bumps : bump'[b].at # "idle" => account'.epoch =< bump'[b].now
             /\ account'.kept => \A n \in ended' : session'[n].iat < account'.epoch
  <2>1. ASSUME NEW b \in Bumps, bump'[b].at # "idle"
        PROVE  account'.epoch =< bump'[b].now
    <3>1. account.epoch =< bump[b].now /\ bump'[b].now = bump[b].now
      BY <1>3, <2>1 DEF EndsInv
    <3> QED
      BY <1>0, <1>1, <3>1
  <2>2. ASSUME account'.kept, NEW n \in ended'
        PROVE  session'[n].iat < account'.epoch
    BY <1>3, <2>2 DEF EndsInv
  <2> QED
    BY <1>3, <2>1, <2>2 DEF EndsInv
<1> QED
  BY <1>1, <1>2, <1>3 DEF EndsInv

(* A session is issued.                                                    *)
LEMMA SessionIssued ==
  ASSUME FactorTypeOK, NEW full \in BOOLEAN, Issue(full)
  PROVE  /\ session' \in [Sessions -> SessionRows] /\ made' = made + 1
         /\ made' \in 0..MaxSessions /\ made + 1 \in Sessions
         /\ \A n \in 1..made : session'[n] = session[n]
<1> USE FactorAssumption DEF FactorAssumption, Sessions
<1>1. /\ session \in [Sessions -> SessionRows] /\ made \in 0..MaxSessions
      /\ clock \in 1..MaxClock
  BY FactorRows
<1>2. [iat |-> clock, mfa |-> full] \in SessionRows
  BY <1>1 DEF SessionRows
<1> QED
  BY <1>1, <1>2 DEF Issue

(* Signing in, and the account's own row.                                  *)
LEMMA AccountSteps ==
  ASSUME FactorInv,
         \/ Tick \/ SignIn \/ DeleteAccount \/ MakeAnew
         \/ \E n \in Sessions, K \in SUBSET Codes : ConfirmFactor(n, K)
  PROVE  FactorInv'
<1> USE FactorAssumption DEF FactorAssumption, FactorInv
<1>0. /\ clock \in 1..MaxClock /\ account \in AccountRows
      /\ session \in [Sessions -> SessionRows] /\ made \in 0..MaxSessions
      /\ exchange \in [Exchanges -> ExchangeRows] /\ bump \in [Bumps -> BumpRows]
      /\ failing \in [fails : 0..MaxFails, until : Nat]
      /\ ended \subseteq Sessions /\ smuggled \subseteq Sessions
      /\ accepted \in [Codes -> Nat] /\ reset \in BOOLEAN
      /\ 0 \in 0..MaxClock
  BY FactorRows
<1>1. CASE Tick
  <2>1. /\ clock' = clock + 1 /\ clock' \in 1..MaxClock
        /\ UNCHANGED <<account, session, made, exchange, bump, failing, ended,
                       smuggled, accepted, reset>>
    BY <1>0, <1>1 DEF Tick, histVars
  <2>2. FactorTypeOK'
    BY <2>1 DEF FactorTypeOK
  <2>3. EndsInv'
    BY <1>0, <2>1, EndsKept
  <2> QED
    BY <2>2, <2>3
<1>2. CASE SignIn
  <2>1. /\ UNCHANGED <<clock, account, exchange, bump, failing, ended,
                       smuggled, accepted, reset>>
        /\ Issue(~account.totp) /\ (~account.totp) \in BOOLEAN
    BY <1>0, <1>2 DEF SignIn, rowVars, histVars, AccountRows
  <2>2. /\ session' \in [Sessions -> SessionRows] /\ made' = made + 1
        /\ made' \in 0..MaxSessions
        /\ \A n \in 1..made : session'[n] = session[n]
    BY <2>1, SessionIssued
  <2>3. FactorTypeOK'
    BY <2>1, <2>2 DEF FactorTypeOK, SessionRows
  <2>4. EndsInv'
    BY <1>0, <2>1, <2>2, EndsKept
  <2> QED
    BY <2>3, <2>4
<1>3. ASSUME NEW n \in Sessions, NEW K \in SUBSET Codes, ConfirmFactor(n, K)
      PROVE  FactorInv'
  <2>1. /\ UNCHANGED <<clock, session, made, exchange, bump, failing, ended,
                       smuggled, reset>>
        /\ account' = [account EXCEPT !.totp = TRUE, !.codes = K]
        /\ account.kept
        /\ accepted' = [k \in Codes |-> IF k \in K THEN 0 ELSE accepted[k]]
    BY <1>0, <1>3 DEF ConfirmFactor, ValidSession
  <2>2. PICK a \in AccountRows : a = account
    BY <1>0
  <2>3. /\ account' \in AccountRows /\ account'.kept
        /\ account'.epoch = account.epoch /\ account'.codes = K
    BY <2>1, <2>2, FactorSet
  <2>4. accepted' \in [Codes -> Nat]
    BY <1>0, <2>1
  <2>5. FactorTypeOK'
    BY <1>0, <2>1, <2>3, <2>4 DEF FactorTypeOK, AccountRows
  <2>6. EndsInv'
    BY <1>0, <2>1, <2>3, EndsKept
  <2> QED
    BY <2>5, <2>6
<1>4. CASE DeleteAccount
  <2>1. /\ UNCHANGED <<clock, session, made, exchange, bump, failing, ended,
                       smuggled, accepted, reset>>
        /\ account' = [NewRow EXCEPT !.kept = FALSE]
    BY <1>4 DEF DeleteAccount, histVars
  <2>2. /\ account' \in AccountRows /\ ~account'.kept
        /\ account'.epoch = 0 /\ account'.codes = {}
    BY <2>1, NewRows
  <2>3. FactorTypeOK'
    BY <2>1, <2>2 DEF FactorTypeOK, AccountRows
  <2>4. EndsInv'
    BY <1>0, <2>1, <2>2, EndsKept
  <2> QED
    BY <2>3, <2>4
<1>5. CASE MakeAnew
  <2>1. /\ UNCHANGED <<clock, session, made, exchange, bump, failing, ended,
                       smuggled, accepted>>
        /\ account' = NewRow /\ reset' = TRUE
    BY <1>0, <1>5 DEF MakeAnew
  <2>2. /\ account' \in AccountRows /\ account'.kept
        /\ account'.epoch = 0 /\ account'.codes = {}
    BY <2>1, NewRows
  <2>3. FactorTypeOK'
    BY <1>0, <2>1, <2>2 DEF FactorTypeOK, AccountRows
  <2>4. EndsInv'
    BY <1>0, <2>1, <2>2 DEF EndsInv
  <2> QED
    BY <2>3, <2>4
<1> QED
  BY <1>1, <1>2, <1>3, <1>4, <1>5

(* The ends of sessions.                                                   *)
LEMMA EndSteps ==
  ASSUME FactorInv, NEW b \in Bumps,
         StartBump(b) \/ ClearFactor(b) \/ WriteEpoch(b)
  PROVE  FactorInv'
<1> USE FactorAssumption DEF FactorAssumption, FactorInv
<1>0. /\ clock \in 1..MaxClock /\ account \in AccountRows
      /\ session \in [Sessions -> SessionRows] /\ made \in 0..MaxSessions
      /\ exchange \in [Exchanges -> ExchangeRows] /\ bump \in [Bumps -> BumpRows]
      /\ ended \subseteq Sessions
      /\ reset \in BOOLEAN
      /\ account.epoch \in 0..MaxClock /\ bump[b].now \in 0..MaxClock
      /\ account.kept \in BOOLEAN
  <2>1. /\ clock \in 1..MaxClock /\ account \in AccountRows
        /\ session \in [Sessions -> SessionRows] /\ made \in 0..MaxSessions
        /\ exchange \in [Exchanges -> ExchangeRows] /\ bump \in [Bumps -> BumpRows]
        /\ ended \subseteq Sessions
        /\ reset \in BOOLEAN
    BY FactorRows
  <2> QED
    BY <2>1 DEF AccountRows, BumpRows
<1>1. CASE StartBump(b)
  <2>1. /\ UNCHANGED <<clock, account, session, made, exchange, failing, ended,
                       smuggled, accepted>>
        /\ bump' = [bump EXCEPT ![b] = [at |-> "now", now |-> clock]]
        /\ reset' = (reset \/ \E c \in Bumps : bump[c].at # "idle")
    BY <1>1 DEF StartBump, rowVars
  <2>2. [at |-> "now", now |-> clock] \in BumpRows
    BY <1>0 DEF BumpRows
  <2>3. /\ bump' \in [Bumps -> BumpRows] /\ bump'[b].now = clock
        /\ bump'[b].at = "now"
        /\ \A c \in Bumps : c # b => bump'[c] = bump[c]
    BY <1>0, <2>1, <2>2
  <2>4. FactorTypeOK'
    BY <1>0, <2>1, <2>3 DEF FactorTypeOK, BumpRows
  <2>5. EndsInv'
    <3>1. \A c \in Bumps : bump'[c].now =< clock
      BY <1>0, <2>3 DEF EndsInv
    <3>2. ASSUME ~reset'
          PROVE  ~reset /\ \A c \in Bumps : bump'[c].at # "idle" => c = b
      BY <2>1, <2>3, <3>2
    <3> QED
      BY <1>0, <2>1, <2>3, <3>1, <3>2 DEF EndsInv
  <2> QED
    BY <2>4, <2>5
<1>2. CASE ClearFactor(b)
  <2>1. /\ UNCHANGED <<clock, session, made, exchange, failing, ended,
                       smuggled, accepted, reset>>
        /\ bump[b].at = "now"
        /\ bump' = [bump EXCEPT ![b] = [bump[b] EXCEPT !.at = "cleared"]]
        /\ account' = [account EXCEPT !.totp = FALSE, !.codes = {}]
    BY <1>0, <1>2 DEF ClearFactor
  <2>2. PICK a \in AccountRows, x \in BumpRows : a = account /\ x = bump[b]
    BY <1>0
  <2>3. /\ account' \in AccountRows /\ account'.kept = account.kept
        /\ account'.epoch = account.epoch /\ account'.codes = {}
    BY <2>1, <2>2, FactorCleared
  <2>4. /\ [x EXCEPT !.at = "cleared"] \in BumpRows
        /\ [x EXCEPT !.at = "cleared"].at = "cleared"
        /\ [x EXCEPT !.at = "cleared"].now = x.now
    BY DEF BumpRows
  <2>5. /\ bump' \in [Bumps -> BumpRows]
        /\ \A c \in Bumps : /\ bump'[c].now = bump[c].now
                            /\ bump'[c].at = "idle" <=> bump[c].at = "idle"
    BY <1>0, <2>1, <2>2, <2>4
  <2>6. FactorTypeOK'
    BY <1>0, <2>1, <2>3, <2>5 DEF FactorTypeOK, AccountRows, BumpRows
  <2>7. EndsInv'
    BY <1>0, <2>1, <2>3, <2>5, EndsKept
  <2> QED
    BY <2>6, <2>7
<1>3. CASE WriteEpoch(b)
  <2>1. /\ UNCHANGED <<clock, session, made, exchange, failing, smuggled,
                       accepted, reset>>
        /\ bump[b].at # "idle" /\ bump' = [bump EXCEPT ![b] = NoBump]
    BY <1>3 DEF WriteEpoch
  <2>2. /\ bump' \in [Bumps -> BumpRows] /\ bump'[b].at = "idle"
        /\ bump'[b].now = 0
        /\ \A c \in Bumps : c # b => bump'[c] = bump[c]
    BY <1>0, <2>1, NewRows
  <2>3. \A c \in Bumps : bump'[c].now =< clock'
    BY <1>0, <2>1, <2>2 DEF EndsInv
  <2>4. CASE ~account.kept
    <3>1. UNCHANGED <<account, ended>>
      BY <1>3, <2>4 DEF WriteEpoch
    <3>2. FactorTypeOK'
      BY <1>0, <2>1, <2>2, <3>1 DEF FactorTypeOK, BumpRows
    <3>3. EndsInv'
      BY <1>0, <2>1, <2>2, <2>3, <3>1 DEF EndsInv
    <3> QED
      BY <3>2, <3>3
  <2>5. CASE account.kept
    <3>1. /\ account' = [account EXCEPT !.epoch = bump[b].now]
          /\ ended' = ended \cup {n \in 1..made : session[n].iat < bump[b].now}
      BY <1>3, <2>5 DEF WriteEpoch
    <3>2. PICK a \in AccountRows, e \in 0..MaxClock :
            a = account /\ e = bump[b].now
      BY <1>0
    <3>3. /\ account' \in AccountRows /\ account'.kept = account.kept
          /\ account'.epoch = bump[b].now /\ account'.codes = account.codes
      BY <3>1, <3>2, EpochWritten
    <3>4. 1..made \subseteq Sessions
      BY <1>0 DEF Sessions
    <3>5. FactorTypeOK'
      BY <1>0, <2>1, <2>2, <3>1, <3>3, <3>4
         DEF FactorTypeOK, BumpRows, AccountRows
    <3>6. EndsInv'
      <4>1. bump[b].now =< clock /\ ended' \subseteq 1..made
        BY <3>1 DEF EndsInv
      <4>2. ASSUME ~reset
            PROVE  /\ \A c \in Bumps : bump'[c].at = "idle"
                   /\ \A n \in ended' : session[n].iat < bump[b].now
        <5>1. \A c \in Bumps : bump'[c].at = "idle"
          BY <2>1, <2>2, <4>2 DEF EndsInv
        <5>2. account.epoch =< bump[b].now
          BY <2>1, <4>2 DEF EndsInv
        <5>3. ASSUME NEW n \in ended PROVE session[n].iat < bump[b].now
          <6>1. session[n].iat < account.epoch /\ session[n].iat \in Nat
            BY <1>0, <2>5, <4>2, <5>3 DEF EndsInv, SessionRows
          <6> QED
            BY <1>0, <5>2, <6>1
        <5> QED
          BY <3>1, <5>1, <5>3
      <4> QED
        BY <2>1, <2>2, <2>3, <3>3, <4>1, <4>2 DEF EndsInv
    <3> QED
      BY <3>5, <3>6
  <2> QED
    BY <2>4, <2>5
<1> QED
  BY <1>1, <1>2, <1>3

(* A row of an exchange, one field at a time.                              *)
LEMMA CodesRead ==
  ASSUME NEW r \in ExchangeRows, NEW K \in SUBSET Codes
  PROVE  /\ [r EXCEPT !.at = "read", !.seen = K] \in ExchangeRows
         /\ [r EXCEPT !.at = "read", !.seen = K].at = "read"
         /\ [r EXCEPT !.at = "read", !.seen = K].seen = K
         /\ [r EXCEPT !.at = "read", !.seen = K].of = r.of
  BY DEF ExchangeRows

(* An exchange that has spent its code.                                    *)
LEMMA CodeSpent ==
  ASSUME NEW r \in ExchangeRows
  PROVE  /\ [r EXCEPT !.at = "spent", !.seen = {}] \in ExchangeRows
         /\ [r EXCEPT !.at = "spent", !.seen = {}].at = "spent"
         /\ [r EXCEPT !.at = "spent", !.seen = {}].of = r.of
  BY DEF ExchangeRows

(* An exchange goes on, or ends, and no session is issued or ended.        *)
LEMMA ExchangeGoesOn ==
  ASSUME FactorInv, NEW x \in Exchanges, NEW r \in ExchangeRows,
         exchange' = [exchange EXCEPT ![x] = r],
         account' \in AccountRows, account'.kept = account.kept,
         account'.epoch = account.epoch, accepted' \in [Codes -> Nat],
         failing' \in [fails : 0..MaxFails, until : Nat],
         UNCHANGED <<clock, session, made, bump, ended, smuggled, reset>>
  PROVE  FactorInv'
<1> USE DEF FactorInv
<1>1. /\ exchange \in [Exchanges -> ExchangeRows]
      /\ clock \in 1..MaxClock /\ made \in 0..MaxSessions
  BY FactorRows
<1>2. exchange' \in [Exchanges -> ExchangeRows]
  BY <1>1
<1>3. FactorTypeOK'
  BY <1>2 DEF FactorTypeOK, ExchangeRows, AccountRows
<1>4. clock' \in Nat /\ clock =< clock' /\ made' \in Nat /\ made =< made'
  BY <1>1, FactorAssumption DEF FactorAssumption
<1>5. EndsInv'
  BY <1>4, EndsKept
<1> QED
  BY <1>3, <1>5

(* How an exchange begins, and what it comes to read.                      *)
LEMMA ExchangeBegins ==
  ASSUME FactorTypeOK, NEW x \in Exchanges, NEW n \in Sessions,
         StartExchange(x, n)
  PROVE  /\ \E r \in ExchangeRows :
              /\ exchange' = [exchange EXCEPT ![x] = r]
              /\ r.at \in {"checked", "asked"} /\ r.of = n
         /\ UNCHANGED <<clock, account, session, made, bump, failing, ended,
                        smuggled, accepted, reset>>
<1>1. PICK at \in {"checked", "asked"} : Begin(x, n, at)
  BY DEF StartExchange
<1>2. PICK r : r = [at |-> at, now |-> clock, seen |-> {}, of |-> n]
  OBVIOUS
<1>3. r \in ExchangeRows /\ r.at = at /\ r.of = n
  <2>1. clock \in 0..MaxClock /\ n \in 0..MaxSessions
    BY FactorAssumption DEF FactorTypeOK, FactorAssumption, Sessions
  <2> QED
    BY <1>2, <2>1 DEF ExchangeRows
<1>4. exchange' = [exchange EXCEPT ![x] = r]
  BY <1>1, <1>2 DEF Begin
<1>5. UNCHANGED <<clock, account, session, made, bump, failing, ended,
                  smuggled, accepted, reset>>
  BY DEF StartExchange, rowVars, histVars
<1> QED
  BY <1>1, <1>3, <1>4, <1>5

LEMMA FactorsRead ==
  ASSUME FactorTypeOK, NEW x \in Exchanges, ReadFactors(x)
  PROVE  /\ \E r \in ExchangeRows :
              /\ exchange' = [exchange EXCEPT ![x] = r]
              /\ \/ r = NoExchange
                 \/ r.at = "read" /\ r.seen = account.codes /\ r.of = exchange[x].of
         /\ exchange[x].at = "checked"
         /\ UNCHANGED <<clock, account, session, made, bump, failing, ended,
                        smuggled, accepted, reset>>
<1>1. /\ exchange[x].at = "checked"
      /\ UNCHANGED <<clock, account, session, made, bump, failing, ended,
                     smuggled, accepted, reset>>
  BY DEF ReadFactors, rowVars, histVars
<1>2. PICK q \in ExchangeRows, K \in SUBSET Codes :
        q = exchange[x] /\ K = account.codes
  BY FactorRows DEF AccountRows
<1>3. \/ exchange' = [exchange EXCEPT ![x] = NoExchange]
      \/ exchange' = [exchange EXCEPT ![x] = [q EXCEPT !.at = "read", !.seen = K]]
  BY <1>2 DEF ReadFactors
<1>4. CASE exchange' = [exchange EXCEPT ![x] = NoExchange]
  BY <1>1, <1>4, NewRows
<1>5. CASE exchange' = [exchange EXCEPT ![x] = [q EXCEPT !.at = "read", !.seen = K]]
  <2>1. PICK r \in ExchangeRows :
          /\ r = [q EXCEPT !.at = "read", !.seen = K]
          /\ r.at = "read" /\ r.seen = K /\ r.of = q.of
    BY CodesRead
  <2>2. exchange' = [exchange EXCEPT ![x] = r]
    BY <1>5, <2>1
  <2> QED
    BY <1>1, <1>2, <2>1, <2>2
<1> QED
  BY <1>3, <1>4, <1>5

(* What accepting a recovery code does, written back or not.               *)
LEMMA CodeAccepted ==
  ASSUME FactorTypeOK, NEW x \in Exchanges, NEW k \in Codes,
         SpendCode(x, k) \/ FailToBurn(x, k)
  PROVE  /\ exchange[x].at = "read" /\ k \in exchange[x].seen
         /\ accepted' = [accepted EXCEPT ![k] = accepted[k] + 1]
         /\ accepted' \in [Codes -> Nat]
         /\ \E r \in ExchangeRows :
              /\ exchange' = [exchange EXCEPT ![x] = r]
              /\ r.at = "spent" /\ r.of = exchange[x].of
         /\ account' \in AccountRows /\ account'.kept = account.kept
         /\ account'.epoch = account.epoch
         /\ \/ UNCHANGED account /\ (account.kept => FailToBurn(x, k))
            \/ account.kept /\ account'.codes = exchange[x].seen \ {k}
         /\ UNCHANGED <<clock, session, made, bump, failing, ended, smuggled,
                        reset>>
<1>1. /\ exchange[x].at = "read" /\ k \in exchange[x].seen
      /\ accepted' = [accepted EXCEPT ![k] = accepted[k] + 1]
      /\ exchange' = [exchange EXCEPT ![x] =
           [exchange[x] EXCEPT !.at = "spent", !.seen = {}]]
      /\ UNCHANGED <<clock, session, made, bump, failing, ended, smuggled, reset>>
  BY DEF SpendCode, FailToBurn, AcceptCode
<1>2. accepted' \in [Codes -> Nat]
  BY <1>1, FactorRows
<1>3. PICK q \in ExchangeRows, a \in AccountRows, K \in SUBSET Codes :
        q = exchange[x] /\ a = account /\ K = exchange[x].seen
  BY FactorRows DEF ExchangeRows
<1>4. \E r \in ExchangeRows : /\ exchange' = [exchange EXCEPT ![x] = r]
                              /\ r.at = "spent" /\ r.of = exchange[x].of
  <2>1. PICK r \in ExchangeRows :
          r = [q EXCEPT !.at = "spent", !.seen = {}] /\ r.at = "spent" /\ r.of = q.of
    BY CodeSpent
  <2> QED
    BY <1>1, <1>3, <2>1
<1>5. CASE UNCHANGED account /\ (account.kept => FailToBurn(x, k))
  BY <1>1, <1>2, <1>3, <1>4, <1>5
<1>6. CASE account.kept
           /\ account' = [account EXCEPT !.codes = exchange[x].seen \ {k}]
  <2>1. PICK L \in SUBSET Codes : L = K \ {k}
    OBVIOUS
  <2>2. account' = [a EXCEPT !.codes = L] /\ L = exchange[x].seen \ {k}
    BY <1>3, <1>6, <2>1
  <2>3. /\ account' \in AccountRows /\ account'.kept = account.kept
        /\ account'.epoch = account.epoch /\ account'.codes = L
    BY <1>3, <2>2, CodesLeft
  <2> QED
    BY <1>1, <1>2, <1>4, <1>6, <2>2, <2>3
<1>7. \/ UNCHANGED account /\ (account.kept => FailToBurn(x, k))
      \/ account.kept
         /\ account' = [account EXCEPT !.codes = exchange[x].seen \ {k}]
  BY DEF SpendCode, FailToBurn
<1> QED
  BY <1>5, <1>6, <1>7

(* An exchange gets on.                                                    *)
LEMMA ExchangeSteps ==
  ASSUME FactorInv, NEW x \in Exchanges,
         \/ ReadFactors(x) \/ RejectCode(x) \/ RejectPasskey(x) \/ IssueFull(x)
         \/ \E n \in Sessions : StartExchange(x, n)
         \/ \E k \in Codes : SpendCode(x, k) \/ FailToBurn(x, k)
  PROVE  FactorInv'
<1> USE FactorAssumption DEF FactorAssumption, FactorInv
<1>0. /\ clock \in 1..MaxClock /\ account \in AccountRows
      /\ session \in [Sessions -> SessionRows] /\ made \in 0..MaxSessions
      /\ exchange \in [Exchanges -> ExchangeRows]
      /\ failing \in [fails : 0..MaxFails, until : Nat]
      /\ smuggled \subseteq Sessions /\ accepted \in [Codes -> Nat]
  BY FactorRows
<1>1. ASSUME NEW n \in Sessions, StartExchange(x, n) PROVE FactorInv'
  BY <1>0, <1>1, ExchangeBegins, ExchangeGoesOn
<1>2. CASE ReadFactors(x)
  BY <1>0, <1>2, FactorsRead, ExchangeGoesOn
<1>3. CASE RejectCode(x)
  <2>1. /\ exchange' = [exchange EXCEPT ![x] = NoExchange]
        /\ UNCHANGED <<clock, account, session, made, bump, ended, smuggled,
                       accepted, reset>>
    BY <1>3 DEF RejectCode, rowVars, histVars
  <2>2. failing' \in [fails : 0..MaxFails, until : Nat]
    <3>1. exchange[x].now + LockTime \in Nat /\ failing.fails \in 0..MaxFails
      BY <1>0 DEF ExchangeRows
    <3>2. CASE failing.fails + 1 < MaxFails
      <4>1. failing' = [failing EXCEPT !.fails = failing.fails + 1]
        BY <1>3, <3>2 DEF RejectCode
      <4>2. failing.fails + 1 \in 0..MaxFails
        BY <3>1, <3>2
      <4> QED
        BY <1>0, <4>1, <4>2
    <3>3. CASE ~(failing.fails + 1 < MaxFails)
      BY <1>3, <3>1, <3>3 DEF RejectCode
    <3> QED
      BY <3>2, <3>3
  <2> QED
    BY <1>0, <2>1, <2>2, NewRows, ExchangeGoesOn
<1>4. CASE RejectPasskey(x)
  <2>1. /\ exchange' = [exchange EXCEPT ![x] = NoExchange]
        /\ UNCHANGED <<clock, account, session, made, bump, failing, ended,
                       smuggled, accepted, reset>>
    BY <1>4 DEF RejectPasskey, rowVars, histVars
  <2> QED
    BY <1>0, <2>1, NewRows, ExchangeGoesOn
<1>5. CASE IssueFull(x)
  <2>1. /\ exchange' = [exchange EXCEPT ![x] = NoExchange]
        /\ Issue(TRUE)
        /\ smuggled' = smuggled \/ smuggled' = smuggled \cup {made + 1}
        /\ failing' = failing \/ failing' = NoFails
        /\ UNCHANGED <<clock, account, bump, ended, accepted, reset>>
    BY <1>5 DEF IssueFull, rowVars
  <2>2. /\ session' \in [Sessions -> SessionRows] /\ made' = made + 1
        /\ made' \in 0..MaxSessions /\ made + 1 \in Sessions
        /\ \A n \in 1..made : session'[n] = session[n]
    BY <2>1, SessionIssued
  <2>3. /\ exchange' \in [Exchanges -> ExchangeRows]
        /\ failing' \in [fails : 0..MaxFails, until : Nat]
    BY <1>0, <2>1, NewRows
  <2>4. smuggled' \subseteq Sessions
    BY <1>0, <2>1, <2>2
  <2>5. FactorTypeOK'
    BY <2>1, <2>2, <2>3, <2>4 DEF FactorTypeOK, ExchangeRows, SessionRows
  <2>6. EndsInv'
    BY <1>0, <2>1, <2>2, EndsKept
  <2> QED
    BY <2>5, <2>6
<1>6. ASSUME NEW k \in Codes, SpendCode(x, k) \/ FailToBurn(x, k)
      PROVE  FactorInv'
  <2>1. PICK r \in ExchangeRows : exchange' = [exchange EXCEPT ![x] = r]
    BY <1>6, CodeAccepted
  <2>2. /\ account' \in AccountRows /\ account'.kept = account.kept
        /\ account'.epoch = account.epoch /\ accepted' \in [Codes -> Nat]
        /\ UNCHANGED <<clock, session, made, bump, failing, ended, smuggled,
                       reset>>
    BY <1>6, CodeAccepted
  <2> QED
    BY <1>0, <2>1, <2>2, ExchangeGoesOn
<1> QED
  BY <1>1, <1>2, <1>3, <1>4, <1>5, <1>6

(* Every step keeps the invariant.                                         *)
LEMMA FactorStep == FactorInv /\ [FactorNext]_factorVars => FactorInv'
<1> SUFFICES ASSUME FactorInv, [FactorNext]_factorVars PROVE FactorInv'
  OBVIOUS
<1>1. CASE UNCHANGED factorVars
  BY <1>1 DEF FactorInv, FactorTypeOK, EndsInv, factorVars, rowVars, histVars
<1>2. CASE FactorNext
  BY <1>2, AccountSteps, EndSteps, ExchangeSteps DEF FactorNext
<1> QED
  BY <1>1, <1>2

(* The account's row, its sessions and the calls keep their types.         *)
THEOREM FactorTypeCorrect == FactorSpec => []FactorTypeOK
<1>1. FactorInv => FactorTypeOK
  BY DEF FactorInv
<1> QED
  BY <1>1, FactorInitInv, FactorStep, PTL DEF FactorSpec

(* What has ended is not good while the epoch is after it.                 *)
LEMMA EndedIsOver ==
  ASSUME FactorInv, ~reset, NEW n \in ended PROVE ~ValidSession(n)
<1>1. session[n].iat \in Nat /\ account.epoch \in Nat
  BY FactorRows DEF FactorInv, SessionRows, AccountRows
<1> QED
  BY <1>1 DEF FactorInv, EndsInv, ValidSession

(* EndedStaysEnded: a session that was ended (bump_session_epoch) is not   *)
(* good ever after, unless two ends overlap or the account is made anew.   *)
THEOREM EndIsFinal == FactorSpec => []EndedStaysEnded
<1>1. FactorInv => EndedStaysEnded
  BY EndedIsOver DEF EndedStaysEnded
<1> QED
  BY <1>1, FactorInitInv, FactorStep, PTL DEF FactorSpec

-----------------------------------------------------------------------------
(* Sessions that are exchanged while they are ended.                       *)

(* An end that is written finds no exchange of a session it ends.          *)
EndsMissExchanges ==
  \A b \in Bumps : WriteEpoch(b) =>
    \A x \in Exchanges : exchange[x].at # "idle" =>
      session[exchange[x].of].iat >= bump[b].now

(* What is under way is the exchange of a session that was not ended.      *)
LiveInv ==
  ~reset =>
    /\ smuggled = {}
    /\ \A x \in Exchanges : exchange[x].at # "idle" =>
         exchange[x].of \in 1..made /\ exchange[x].of \notin ended

(* A step that ends nothing and issues nothing keeps it.                   *)
LEMMA LiveKept ==
  ASSUME FactorTypeOK, LiveInv, made' \in Nat, made =< made',
         UNCHANGED <<ended, smuggled>>, reset => reset',
         \A x \in Exchanges : exchange'[x].at # "idle" =>
           \/ exchange[x].at # "idle" /\ exchange'[x].of = exchange[x].of
           \/ ~reset' => exchange'[x].of \in 1..made /\ exchange'[x].of \notin ended
  PROVE  LiveInv'
<1>1. made \in Nat
  BY FactorAssumption DEF FactorAssumption, FactorTypeOK
<1>2. 1..made \subseteq 1..made'
  BY <1>1
<1> QED
  BY <1>2 DEF LiveInv

(* Ends and exchanges that do not meet.                                    *)
LEMMA LiveStep ==
  FactorInv /\ LiveInv /\ EndsMissExchanges /\ [FactorNext]_factorVars => LiveInv'
<1> SUFFICES ASSUME FactorInv, LiveInv, EndsMissExchanges, [FactorNext]_factorVars
             PROVE  LiveInv'
  OBVIOUS
<1> USE FactorAssumption DEF FactorAssumption, FactorInv
<1>0. /\ made \in 0..MaxSessions /\ exchange \in [Exchanges -> ExchangeRows]
      /\ session \in [Sessions -> SessionRows]
      /\ bump \in [Bumps -> BumpRows] /\ reset \in BOOLEAN
  BY FactorRows
<1>1. ASSUME NEW x \in Exchanges, NEW n \in Sessions, StartExchange(x, n)
      PROVE  LiveInv'
  <2>1. PICK r \in ExchangeRows :
          exchange' = [exchange EXCEPT ![x] = r] /\ r.of = n
    BY <1>1, ExchangeBegins
  <2>2. UNCHANGED <<made, ended, smuggled, reset>>
    BY <1>1, ExchangeBegins
  <2>3. n \in 1..made /\ (~reset => n \notin ended)
    <3>1. ValidSession(n)
      BY <1>1 DEF StartExchange
    <3> QED
      BY <1>0, <3>1, EndedIsOver DEF ValidSession, Sessions
  <2> QED
    BY <1>0, <2>1, <2>2, <2>3, LiveKept
<1>2. ASSUME NEW x \in Exchanges, ReadFactors(x) PROVE LiveInv'
  <2>1. PICK r \in ExchangeRows :
          /\ exchange' = [exchange EXCEPT ![x] = r]
          /\ r = NoExchange \/ r.of = exchange[x].of
    BY <1>2, FactorsRead
  <2>2. UNCHANGED <<made, ended, smuggled, reset>> /\ exchange[x].at # "idle"
    BY <1>2, FactorsRead
  <2> QED
    BY <1>0, <2>1, <2>2, NewRows, LiveKept
<1>3. ASSUME NEW x \in Exchanges, RejectCode(x) \/ RejectPasskey(x) PROVE LiveInv'
  <2>1. /\ exchange' = [exchange EXCEPT ![x] = NoExchange]
        /\ UNCHANGED <<made, ended, smuggled, reset>>
    BY <1>3 DEF RejectCode, RejectPasskey, histVars
  <2> QED
    BY <1>0, <2>1, NewRows, LiveKept
<1>4. ASSUME NEW x \in Exchanges, IssueFull(x) PROVE LiveInv'
  <2>1. /\ exchange[x].at # "idle" /\ Issue(TRUE)
        /\ exchange' = [exchange EXCEPT ![x] = NoExchange]
        /\ smuggled' = IF exchange[x].of \in ended THEN smuggled \cup {made + 1}
                       ELSE smuggled
        /\ UNCHANGED <<ended, reset>>
    BY <1>4 DEF IssueFull
  <2>2. made' = made + 1
    BY <2>1 DEF Issue
  <2>3. CASE reset
    BY <2>1, <2>3 DEF LiveInv
  <2>4. CASE ~reset
    <3>1. UNCHANGED smuggled
      BY <2>1, <2>4 DEF LiveInv
    <3> QED
      BY <1>0, <2>1, <2>2, <3>1, NewRows, LiveKept
  <2> QED
    BY <2>3, <2>4
<1>5. ASSUME NEW x \in Exchanges, NEW k \in Codes, SpendCode(x, k) \/ FailToBurn(x, k)
      PROVE  LiveInv'
  <2>1. PICK r \in ExchangeRows :
          exchange' = [exchange EXCEPT ![x] = r] /\ r.of = exchange[x].of
    BY <1>5, CodeAccepted
  <2>2. UNCHANGED <<made, ended, smuggled, reset>> /\ exchange[x].at # "idle"
    BY <1>5, CodeAccepted
  <2> QED
    BY <1>0, <2>1, <2>2, LiveKept
<1>6. ASSUME NEW b \in Bumps, WriteEpoch(b) PROVE LiveInv'
  <2>1. UNCHANGED <<session, made, exchange, smuggled, reset>>
    BY <1>6 DEF WriteEpoch
  <2>2. ended' \subseteq ended \cup {n \in 1..made : session[n].iat < bump[b].now}
    BY <1>6 DEF WriteEpoch
  <2>3. ASSUME ~reset, NEW x \in Exchanges, exchange[x].at # "idle"
        PROVE  exchange[x].of \in 1..made /\ exchange[x].of \notin ended'
    <3>1. exchange[x].of \in 1..made /\ exchange[x].of \notin ended
      BY <2>3 DEF LiveInv
    <3>2. session[exchange[x].of].iat >= bump[b].now
      BY <1>6, <2>3 DEF EndsMissExchanges
    <3>3. session[exchange[x].of].iat \in Nat /\ bump[b].now \in Nat
      BY <1>0, <3>1 DEF SessionRows, BumpRows, Sessions
    <3> QED
      BY <2>2, <3>1, <3>2, <3>3
  <2> QED
    BY <2>1, <2>3 DEF LiveInv
<1>7. ASSUME NEW b \in Bumps, StartBump(b) \/ ClearFactor(b) PROVE LiveInv'
  <2>1. UNCHANGED <<made, exchange, ended, smuggled>> /\ (reset => reset')
    BY <1>0, <1>7, Zenon DEF StartBump, ClearFactor
  <2> QED
    BY <1>0, <2>1, LiveKept
<1>8. CASE \/ Tick \/ SignIn \/ DeleteAccount \/ MakeAnew
           \/ \E n \in Sessions, K \in SUBSET Codes : ConfirmFactor(n, K)
  <2>1. UNCHANGED <<exchange, ended, smuggled>> /\ (reset => reset')
    BY <1>0, <1>8, Zenon
       DEF Tick, SignIn, DeleteAccount, MakeAnew, ConfirmFactor, histVars
  <2>2. made' = made \/ made' = made + 1
    BY <1>8 DEF Tick, SignIn, Issue, DeleteAccount, MakeAnew, ConfirmFactor
  <2> QED
    BY <1>0, <2>1, <2>2, LiveKept
<1>9. CASE UNCHANGED factorVars
  BY <1>9 DEF LiveInv, factorVars, histVars
<1> QED
  BY <1>1, <1>2, <1>3, <1>4, <1>5, <1>6, <1>7, <1>8, <1>9 DEF FactorNext

(* ExchangedIsLive, in the runs in which no end is written while a session *)
(* that it ends is being exchanged: that race is the only way from an      *)
(* ended session to a full one.                                            *)
THEOREM ExchangesAreOfLive ==
  FactorSpec /\ [][EndsMissExchanges]_factorVars => []ExchangedIsLive
<1>1. FactorInit => LiveInv
  BY DEF FactorInit, LiveInv, NoExchange
<1>2. FactorInv /\ LiveInv /\ [FactorNext]_factorVars
        /\ [EndsMissExchanges]_factorVars => LiveInv'
  <2> SUFFICES ASSUME FactorInv, LiveInv, [FactorNext]_factorVars,
                      [EndsMissExchanges]_factorVars
               PROVE  LiveInv'
    OBVIOUS
  <2>1. CASE UNCHANGED factorVars
    BY <2>1 DEF LiveInv, factorVars, histVars
  <2>2. CASE EndsMissExchanges
    BY <2>2, LiveStep
  <2> QED
    BY <2>1, <2>2
<1>3. LiveInv => ExchangedIsLive
  BY DEF LiveInv, ExchangedIsLive
<1> QED
  BY <1>1, <1>2, <1>3, FactorInitInv, FactorStep, PTL DEF FactorSpec

-----------------------------------------------------------------------------
(* Recovery codes, one verification at a time.                             *)

(* One verification at a time is between reading the codes and its end.    *)
OneReader ==
  \A x, y \in Exchanges :
    exchange[x].at = "read" /\ exchange[y].at = "read" => x = y

(* The list without the code is written back.                              *)
CodesAreBurned ==
  \A x \in Exchanges, k \in Codes : ~FailToBurn(x, k)

(* What the row lists, and what the verification that is under way has     *)
(* read, was not accepted since its enrolment.                             *)
CodesInv ==
  /\ ~account.kept => account.codes = {}
  /\ \A k \in account.codes : accepted[k] = 0
  /\ \A x \in Exchanges : exchange[x].at = "read" =>
       \A k \in exchange[x].seen : accepted[k] = 0
  /\ \A k \in Codes : accepted[k] =< 1

(* A step that accepts no code, and enrols none that was accepted.         *)
LEMMA CodesKept ==
  ASSUME CodesInv, ~account'.kept => account'.codes = {},
         \A k \in Codes : accepted'[k] = accepted[k] \/ accepted'[k] = 0,
         account'.codes \subseteq Codes,
         \A k \in account'.codes : k \in account.codes \/ accepted'[k] = 0,
         \A x \in Exchanges : exchange'[x].at = "read" =>
           /\ exchange'[x].seen \subseteq Codes
           /\ \/ exchange[x].at = "read" /\ exchange'[x].seen = exchange[x].seen
              \/ exchange'[x].seen = account.codes
  PROVE  CodesInv'
<1>1. ASSUME NEW k \in account'.codes PROVE accepted'[k] = 0
  BY <1>1 DEF CodesInv
<1>2. ASSUME NEW x \in Exchanges, exchange'[x].at = "read",
             NEW k \in exchange'[x].seen
      PROVE  accepted'[k] = 0
  <2>1. k \in Codes /\ accepted[k] = 0
    BY <1>2 DEF CodesInv
  <2> QED
    BY <2>1
<1>3. ASSUME NEW k \in Codes PROVE accepted'[k] =< 1
  <2>1. accepted[k] =< 1
    BY DEF CodesInv
  <2> QED
    BY <2>1
<1> QED
  BY <1>1, <1>2, <1>3 DEF CodesInv

(* The account's row is written.                                           *)
LEMMA RowsKeepCodes ==
  ASSUME FactorTypeOK, CodesInv,
         \/ Tick \/ SignIn \/ DeleteAccount \/ MakeAnew
         \/ \E n \in Sessions, K \in SUBSET Codes : ConfirmFactor(n, K)
         \/ \E b \in Bumps : StartBump(b) \/ ClearFactor(b) \/ WriteEpoch(b)
  PROVE  CodesInv'
<1>0. /\ account \in AccountRows /\ account.codes \subseteq Codes
      /\ exchange \in [Exchanges -> ExchangeRows]
      /\ bump \in [Bumps -> BumpRows]
      /\ \A x \in Exchanges : exchange[x].seen \subseteq Codes
  BY FactorRows DEF AccountRows, ExchangeRows
<1>1. CASE Tick \/ SignIn \/ \E b \in Bumps : StartBump(b)
  BY <1>1 DEF Tick, SignIn, StartBump, rowVars, histVars, CodesInv
<1>2. CASE DeleteAccount \/ MakeAnew
  <2>1. account'.codes = {} /\ UNCHANGED <<exchange, accepted>>
    BY <1>2, NewRows DEF DeleteAccount, MakeAnew, histVars
  <2> QED
    BY <1>0, <2>1, CodesKept
<1>3. ASSUME NEW n \in Sessions, NEW K \in SUBSET Codes, ConfirmFactor(n, K)
      PROVE  CodesInv'
  <2>1. /\ account.kept /\ account' = [account EXCEPT !.totp = TRUE, !.codes = K]
        /\ accepted' = [k \in Codes |-> IF k \in K THEN 0 ELSE accepted[k]]
        /\ UNCHANGED exchange
    BY <1>3 DEF ConfirmFactor, ValidSession
  <2>2. PICK a \in AccountRows : a = account
    BY <1>0
  <2>3. account'.kept /\ account'.codes = K
    BY <2>1, <2>2, FactorSet
  <2> QED
    BY <1>0, <2>1, <2>3, CodesKept
<1>4. ASSUME NEW b \in Bumps, ClearFactor(b) PROVE CodesInv'
  <2>1. PICK a \in AccountRows : a = account
    BY <1>0
  <2>2. account'.codes = {} /\ UNCHANGED <<exchange, accepted>>
    BY <1>4, <2>1, FactorCleared DEF ClearFactor
  <2> QED
    BY <1>0, <2>2, CodesKept
<1>5. ASSUME NEW b \in Bumps, WriteEpoch(b) PROVE CodesInv'
  <2>1. PICK a \in AccountRows, e \in 0..MaxClock : a = account /\ e = bump[b].now
    BY <1>0 DEF BumpRows
  <2>2. /\ account'.codes = account.codes /\ account'.kept = account.kept
        /\ UNCHANGED <<exchange, accepted>>
    BY <1>5, <2>1, EpochWritten DEF WriteEpoch
  <2> QED
    BY <1>0, <2>2, CodesKept DEF CodesInv
<1> QED
  BY <1>1, <1>2, <1>3, <1>4, <1>5

(* A verification reads the codes, and takes one out of them.              *)
LEMMA ExchangesKeepCodes ==
  ASSUME FactorTypeOK, CodesInv, OneReader, CodesAreBurned, NEW x \in Exchanges,
         \/ ReadFactors(x) \/ RejectCode(x) \/ RejectPasskey(x) \/ IssueFull(x)
         \/ \E n \in Sessions : StartExchange(x, n)
         \/ \E k \in Codes : SpendCode(x, k) \/ FailToBurn(x, k)
  PROVE  CodesInv'
<1>0. /\ account \in AccountRows /\ account.codes \subseteq Codes
      /\ exchange \in [Exchanges -> ExchangeRows]
      /\ accepted \in [Codes -> Nat]
      /\ \A y \in Exchanges : exchange[y].seen \subseteq Codes
  BY FactorRows DEF AccountRows, ExchangeRows
<1>1. ASSUME NEW n \in Sessions, StartExchange(x, n) PROVE CodesInv'
  <2>1. PICK r \in ExchangeRows :
          exchange' = [exchange EXCEPT ![x] = r] /\ r.at # "read"
    BY <1>1, ExchangeBegins
  <2>2. UNCHANGED <<account, accepted>>
    BY <1>1, ExchangeBegins
  <2> QED
    BY <1>0, <2>1, <2>2, CodesKept DEF CodesInv
<1>2. CASE ReadFactors(x)
  <2>1. PICK r \in ExchangeRows :
          /\ exchange' = [exchange EXCEPT ![x] = r]
          /\ r.at # "read" \/ r.seen = account.codes
    BY <1>2, FactorsRead, NewRows
  <2>2. UNCHANGED <<account, accepted>>
    BY <1>2, FactorsRead
  <2> QED
    BY <1>0, <2>1, <2>2, CodesKept DEF CodesInv
<1>3. CASE RejectCode(x) \/ RejectPasskey(x) \/ IssueFull(x)
  <2>1. /\ exchange' = [exchange EXCEPT ![x] = NoExchange]
        /\ UNCHANGED <<account, accepted>>
    BY <1>3 DEF RejectCode, RejectPasskey, IssueFull, rowVars, histVars
  <2> QED
    BY <1>0, <2>1, NewRows, CodesKept DEF CodesInv
<1>4. ASSUME NEW k \in Codes, SpendCode(x, k) \/ FailToBurn(x, k) PROVE CodesInv'
  <2>1. PICK r \in ExchangeRows :
          exchange' = [exchange EXCEPT ![x] = r] /\ r.at = "spent"
    BY <1>4, CodeAccepted
  <2>2. /\ exchange[x].at = "read" /\ k \in exchange[x].seen
        /\ accepted' = [accepted EXCEPT ![k] = accepted[k] + 1]
        /\ account'.kept = account.kept
        /\ \/ UNCHANGED account /\ ~account.kept
           \/ account.kept /\ account'.codes = exchange[x].seen \ {k}
    BY <1>4, CodeAccepted DEF CodesAreBurned
  <2>3. accepted[k] = 0
    BY <2>2 DEF CodesInv
  <2>4. /\ accepted'[k] = 1
        /\ \A j \in Codes : j # k => accepted'[j] = accepted[j]
    BY <1>0, <2>2, <2>3
  <2>5. \A y \in Exchanges : exchange'[y].at # "read"
    BY <1>0, <2>1, <2>2 DEF OneReader
  <2>6. \A j \in account'.codes : accepted'[j] = 0
    <3>1. CASE account.kept
      <4>1. account'.codes = exchange[x].seen \ {k}
        BY <2>2, <3>1
      <4>2. \A j \in exchange[x].seen : accepted[j] = 0
        BY <2>2 DEF CodesInv
      <4> QED
        BY <1>0, <2>4, <4>1, <4>2
    <3>2. CASE ~account.kept
      BY <2>2, <3>2 DEF CodesInv
    <3> QED
      BY <3>1, <3>2
  <2>7. ~account'.kept => account'.codes = {}
    BY <2>2 DEF CodesInv
  <2>8. \A j \in Codes : accepted'[j] =< 1
    BY <2>4 DEF CodesInv
  <2> QED
    BY <2>5, <2>6, <2>7, <2>8 DEF CodesInv
<1> QED
  BY <1>1, <1>2, <1>3, <1>4

(* CodesSpentOnce, in the runs in which one verification at a time is      *)
(* under way and every list is written back: enrolments, also of codes     *)
(* that were spent, removals of the factor and new accounts may come       *)
(* between its steps, and each code is accepted once since its enrolment.  *)
THEOREM RecoveryCodesAreSpent ==
  FactorSpec /\ []OneReader /\ [][CodesAreBurned]_factorVars => []CodesSpentOnce
<1>1. FactorInit => CodesInv
  BY DEF FactorInit, CodesInv, NewRow, NoExchange
<1>2. FactorInv /\ CodesInv /\ OneReader /\ [FactorNext]_factorVars
        /\ [CodesAreBurned]_factorVars => CodesInv'
  <2> SUFFICES ASSUME FactorInv, CodesInv, OneReader, [FactorNext]_factorVars,
                      [CodesAreBurned]_factorVars
               PROVE  CodesInv'
    OBVIOUS
  <2>1. CASE UNCHANGED factorVars
    BY <2>1 DEF CodesInv, factorVars, rowVars, histVars
  <2>2. CASE CodesAreBurned /\ FactorNext
    BY <2>2, RowsKeepCodes, ExchangesKeepCodes DEF FactorNext, FactorInv
  <2> QED
    BY <2>1, <2>2
<1>3. CodesInv => CodesSpentOnce
  BY DEF CodesInv, CodesSpentOnce
<1> QED
  BY <1>1, <1>2, <1>3, FactorInitInv, FactorStep, PTL DEF FactorSpec

-----------------------------------------------------------------------------
(* All four, as AccountsMC has them.                                       *)

(* AccessTypeOK: whichever of the four a behaviour is of, the variables of *)
(* all of them keep their types.                                           *)
THEOREM AccessTypeCorrect == AccessSpec => []AccessTypeOK
<1> DEFINE Inv == DevicesInv /\ AccountsInv /\ FactorInv /\ NoncesInv
<1>1. AccessInit => Inv
  BY DevicesInitInv, AccountsInitInv, FactorInitInv, NoncesInitInv
     DEF AccessInit
<1>2. Inv /\ [AccessNext]_vars => Inv'
  <2>1. [AccessNext]_vars =>
          /\ [DevicesNext]_deviceVars /\ [AccountsNext]_accountVars
          /\ [FactorNext]_factorVars /\ [NoncesNext]_nonceVars
    BY DEF AccessNext, vars
  <2> QED
    BY <2>1, DevicesStep, AccountsStep, FactorStep, NoncesStep
<1>3. Inv => AccessTypeOK
  BY DEF DevicesInv, PairingInv, AccountsInv, FactorInv, NoncesInv,
     AccessTypeOK
<1> HIDE DEF Inv
<1> QED
  BY <1>1, <1>2, <1>3, PTL DEF AccessSpec
=============================================================================
