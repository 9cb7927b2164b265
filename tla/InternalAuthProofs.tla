------------------------- MODULE InternalAuthProofs -------------------------
(* Proofs about InternalAuth, for any requests, deliveries and times:      *)
(* what a nonce in the table is good for, and that requests are handled    *)
(* once where nonces are kept for long enough.                             *)
EXTENDS InternalAuth, TLAPS

(* A delivery that is under way has passed the check of the stamp, and did *)
(* so not long ago.                                                        *)
Verified ==
  \A d \in Deliveries : arrival[d].at = "verified" =>
    /\ arrival[d].request \in Requests
    /\ stamp[arrival[d].request] - Skew =< arrival[d].since
    /\ arrival[d].since =< stamp[arrival[d].request] + Skew
    /\ arrival[d].since =< now /\ now =< arrival[d].since + MaxDelay

(* The nonce of a request that was handled is in the table for NonceTtl.   *)
Lasting ==
  \A q \in Requests : handled[q] > 0 =>
    /\ taken[q] \in 0..MaxNow
    /\ \/ nonces[q] = taken[q] + NonceTtl
       \/ nonces[q] = -1 /\ now > taken[q] + NonceTtl

NoncesInv == NoncesTypeOK /\ Verified /\ Lasting

(* Initially no request was handled, and none is under way.                *)
LEMMA NoncesInitInv == NoncesInit => NoncesInv
  BY NonceAssumption, SMT
     DEF NonceAssumption, NoncesInit, NoncesInv, NoncesTypeOK, Verified, Lasting,
         NoDelivery

(* Time passes under the eyes of every delivery.                           *)
LEMMA PassTimeStep == NoncesInv /\ PassTime => NoncesInv'
<1> SUFFICES ASSUME NoncesInv, PassTime PROVE NoncesInv'
  OBVIOUS
<1> USE NonceAssumption DEF NonceAssumption
<1>1. NoncesTypeOK'
  BY SMT DEF NoncesInv, NoncesTypeOK, PassTime
<1>2. Verified'
  BY SMT DEF NoncesInv, NoncesTypeOK, Verified, PassTime
<1>3. Lasting'
  BY SMT DEF NoncesInv, NoncesTypeOK, Lasting, PassTime
<1> QED
  BY <1>1, <1>2, <1>3 DEF NoncesInv

(* A request is verified while its stamp passes.                           *)
LEMMA VerifyStep ==
  ASSUME NEW d \in Deliveries, NEW q \in Requests, NoncesInv, VerifyRequest(d, q)
  PROVE  NoncesInv'
<1> USE NonceAssumption DEF NonceAssumption
<1>1. NoncesTypeOK'
  BY SMT DEF NoncesInv, NoncesTypeOK, VerifyRequest
<1>2. Verified'
  BY SMT DEF NoncesInv, NoncesTypeOK, Verified, VerifyRequest
<1>3. Lasting'
  BY SMT DEF NoncesInv, Lasting, VerifyRequest
<1> QED
  BY <1>1, <1>2, <1>3 DEF NoncesInv

(* The transaction of a delivery, in the terms of what it was given: it    *)
(* sweeps the table at the time it was given, and takes the nonce if that  *)
(* is not there.                                                           *)
LEMMA ConsumeEffect ==
  ASSUME NEW d \in Deliveries, NoncesInv, ConsumeNonce(d),
         NEW q, q = arrival[d].request, NEW t, t = arrival[d].since
  PROVE  /\ q \in Requests /\ t \in 0..MaxNow /\ t =< now
         /\ stamp[q] - Skew =< t /\ now =< stamp[q] + Skew + MaxDelay
         /\ UNCHANGED <<now, stamp>>
         /\ arrival' = [arrival EXCEPT ![d] = NoDelivery]
         /\ \A p \in Requests : \/ nonces[p] < t /\ Swept(t)[p] = -1
                                \/ nonces[p] >= t /\ Swept(t)[p] = nonces[p]
         /\ \A p \in Requests : p # q \/ Swept(t)[q] # -1 =>
              /\ nonces'[p] = Swept(t)[p]
              /\ handled'[p] = handled[p] /\ taken'[p] = taken[p]
         /\ Swept(t)[q] = -1 =>
              /\ nonces'[q] = t + NonceTtl
              /\ handled'[q] = handled[q] + 1 /\ taken'[q] = t
         /\ NoncesTypeOK'
<1> USE NonceAssumption DEF NonceAssumption
<1>1. /\ arrival[d].at = "verified" /\ q \in Requests /\ t \in 0..MaxNow
      /\ t =< now /\ stamp[q] - Skew =< t /\ now =< stamp[q] + Skew + MaxDelay
  BY SMT DEF NoncesInv, NoncesTypeOK, Verified, ConsumeNonce
<1>2. /\ UNCHANGED <<now, stamp>>
      /\ arrival' = [arrival EXCEPT ![d] = NoDelivery]
      /\ IF Swept(t)[q] = -1
         THEN /\ nonces' = [Swept(t) EXCEPT ![q] = t + NonceTtl]
              /\ handled' = [handled EXCEPT ![q] = handled[q] + 1]
              /\ taken' = [taken EXCEPT ![q] = t]
         ELSE nonces' = Swept(t) /\ UNCHANGED <<handled, taken>>
  BY DEF ConsumeNonce
<1>3. PICK left \in [Requests -> -1..(MaxNow + NonceTtl)] :
        /\ left = Swept(t)
        /\ \A p \in Requests : \/ nonces[p] < t /\ left[p] = -1
                               \/ nonces[p] >= t /\ left[p] = nonces[p]
  <2>1. Swept(t) \in [Requests -> -1..(MaxNow + NonceTtl)]
    BY SMT DEF NoncesInv, NoncesTypeOK, Swept
  <2>2. ASSUME NEW p \in Requests
        PROVE  \/ nonces[p] < t /\ Swept(t)[p] = -1
               \/ nonces[p] >= t /\ Swept(t)[p] = nonces[p]
    BY <1>1, SMT DEF NoncesInv, NoncesTypeOK, Swept
  <2> QED
    BY <2>1, <2>2
<1>4. /\ handled \in [Requests -> Nat] /\ taken \in [Requests -> -1..MaxNow]
      /\ t + NonceTtl \in -1..(MaxNow + NonceTtl) /\ handled[q] + 1 \in Nat
  BY <1>1, SMT DEF NoncesInv, NoncesTypeOK
<1>5. CASE left[q] = -1
  <2>1. /\ nonces' = [left EXCEPT ![q] = t + NonceTtl]
        /\ handled' = [handled EXCEPT ![q] = handled[q] + 1]
        /\ taken' = [taken EXCEPT ![q] = t]
    BY <1>2, <1>3, <1>5
  <2>2. /\ nonces' \in [Requests -> -1..(MaxNow + NonceTtl)]
        /\ handled' \in [Requests -> Nat] /\ taken' \in [Requests -> -1..MaxNow]
    BY <1>1, <1>4, <2>1
  <2>3. NoncesTypeOK'
    BY <1>2, <2>2 DEF NoncesInv, NoncesTypeOK, NoDelivery
  <2> QED
    BY <1>1, <1>2, <1>3, <1>4, <1>5, <2>1, <2>3
<1>6. CASE left[q] # -1
  <2>1. nonces' = left /\ UNCHANGED <<handled, taken>>
    BY <1>2, <1>3, <1>6
  <2>2. NoncesTypeOK'
    BY <1>2, <2>1 DEF NoncesInv, NoncesTypeOK, NoDelivery
  <2> QED
    BY <1>1, <1>2, <1>3, <1>6, <2>1, <2>2
<1> QED
  BY <1>5, <1>6

(* A nonce is taken, or found; others are swept out in their time.         *)
LEMMA ConsumeStep ==
  ASSUME NEW d \in Deliveries, NoncesInv, ConsumeNonce(d)
  PROVE  NoncesInv'
<1> USE NonceAssumption DEF NonceAssumption
<1>1. PICK q, t : q = arrival[d].request /\ t = arrival[d].since
  OBVIOUS
<1>2. /\ q \in Requests /\ t \in 0..MaxNow /\ t =< now
      /\ UNCHANGED <<now, stamp>>
      /\ arrival' = [arrival EXCEPT ![d] = NoDelivery]
      /\ NoncesTypeOK'
  BY <1>1, ConsumeEffect
<1>3. Verified'
  BY <1>2, SMT DEF NoncesInv, NoncesTypeOK, Verified, NoDelivery
<1>4. Lasting'
  <2> SUFFICES ASSUME NEW p \in Requests, handled'[p] > 0
               PROVE  /\ taken'[p] \in 0..MaxNow
                      /\ \/ nonces'[p] = taken'[p] + NonceTtl
                         \/ nonces'[p] = -1 /\ now > taken'[p] + NonceTtl
    BY <1>2 DEF Lasting
  <2>1. CASE p = q /\ Swept(t)[q] = -1
    <3>1. nonces'[q] = t + NonceTtl /\ taken'[q] = t
      BY <1>1, <2>1, ConsumeEffect
    <3> QED
      BY <1>2, <2>1, <3>1
  <2>2. CASE p # q \/ Swept(t)[q] # -1
    <3>1. /\ nonces'[p] = Swept(t)[p]
          /\ handled'[p] = handled[p] /\ taken'[p] = taken[p]
          /\ \/ nonces[p] < t /\ Swept(t)[p] = -1
             \/ nonces[p] >= t /\ Swept(t)[p] = nonces[p]
      BY <1>1, <2>2, ConsumeEffect
    <3>2. now \in Nat /\ taken[p] \in 0..MaxNow
          /\ \/ nonces[p] = taken[p] + NonceTtl
             \/ nonces[p] = -1 /\ now > taken[p] + NonceTtl
      BY <3>1 DEF NoncesInv, NoncesTypeOK, Lasting
    <3> QED
      BY <1>2, <3>1, <3>2
  <2> QED
    BY <2>1, <2>2
<1> QED
  BY <1>2, <1>3, <1>4 DEF NoncesInv

(* The table survives; what was under way does not.                        *)
LEMMA NoncesRestartStep == NoncesInv /\ NoncesRestart => NoncesInv'
  BY NonceAssumption, SMT
     DEF NonceAssumption, NoncesRestart, NoncesInv, NoncesTypeOK, Verified,
         Lasting, NoDelivery

(* Every step keeps the invariant.                                         *)
LEMMA NoncesStep == NoncesInv /\ [NoncesNext]_nonceVars => NoncesInv'
<1> SUFFICES ASSUME NoncesInv, [NoncesNext]_nonceVars PROVE NoncesInv'
  OBVIOUS
<1>1. CASE NoncesNext
  BY <1>1, PassTimeStep, VerifyStep, ConsumeStep, NoncesRestartStep
     DEF NoncesNext
<1>2. CASE UNCHANGED nonceVars
  BY <1>2 DEF nonceVars, NoncesInv, NoncesTypeOK, Verified, Lasting
<1> QED
  BY <1>1, <1>2

(* NoncesTypeOK: the variables keep their types.                           *)
THEOREM NoncesTypeCorrect == NoncesSpec => []NoncesTypeOK
<1>1. NoncesInv => NoncesTypeOK
  BY DEF NoncesInv
<1> QED
  BY NoncesInitInv, NoncesStep, <1>1, PTL DEF NoncesSpec

(* A nonce is taken where it is not, and one that was taken before is not  *)
(* there only when its time is over.                                       *)
LEMMA TakenLate ==
  ASSUME NoncesInv, NEW d \in Deliveries, ConsumeNonce(d), NEW p \in Requests,
         handled'[p] > handled[p], handled[p] > 0
  PROVE  now > taken[p] + NonceTtl
<1> USE NonceAssumption DEF NonceAssumption
<1>1. PICK q, t : q = arrival[d].request /\ t = arrival[d].since
  OBVIOUS
<1>2. handled[p] \in Nat /\ now \in Nat /\ taken[p] \in Int /\ nonces[p] \in Int
  BY SMT DEF NoncesInv, NoncesTypeOK
<1>3. p = q /\ Swept(t)[q] = -1
  <2>1. p # q \/ Swept(t)[q] # -1 => handled'[p] = handled[p]
    BY <1>1, ConsumeEffect
  <2> QED
    BY <1>2, <2>1
<1>4. /\ t \in 0..MaxNow /\ t =< now
      /\ nonces[p] < t \/ nonces[p] = -1
  BY <1>1, <1>3, ConsumeEffect
<1>5. \/ nonces[p] = taken[p] + NonceTtl
      \/ nonces[p] = -1 /\ now > taken[p] + NonceTtl
  BY DEF NoncesInv, Lasting
<1>6. taken[p] \in 0..MaxNow
  BY DEF NoncesInv, Lasting
<1> QED
  BY <1>2, <1>4, <1>5, <1>6

(* NoEarlyReplay: a request that is let through again is let through more  *)
(* than NonceTtl after it was, whatever is delivered again, by how much    *)
(* the clocks differ, and whenever the server is started again.            *)
THEOREM NoncesLast == NoncesSpec => NoEarlyReplay
<1>1. NoncesInv /\ [NoncesNext]_nonceVars =>
        [\A q \in Requests : handled'[q] > handled[q] /\ handled[q] > 0 =>
           now > taken[q] + NonceTtl]_nonceVars
  <2> SUFFICES ASSUME NoncesInv, NoncesNext, NEW q \in Requests,
                      handled'[q] > handled[q], handled[q] > 0
               PROVE  now > taken[q] + NonceTtl
    OBVIOUS
  <2>1. PICK d \in Deliveries : ConsumeNonce(d)
    <3>1. handled[q] \in Nat
      BY DEF NoncesInv, NoncesTypeOK
    <3>2. handled' # handled
      BY <3>1
    <3> QED
      BY <3>2 DEF NoncesNext, PassTime, NoncesRestart, VerifyRequest
  <2> QED
    BY <2>1, TakenLate
<1> QED
  BY <1>1, NoncesInitInv, NoncesStep, PTL DEF NoncesSpec, NoEarlyReplay

-----------------------------------------------------------------------------
(* Nonces that are kept for long enough.                                   *)

(* The nonce of a request that was handled stays until nobody can come to  *)
(* take it any more.                                                       *)
Remembered ==
  \A q \in Requests :
    /\ handled[q] =< 1
    /\ handled[q] = 1 => stamp[q] - Skew =< taken[q]

(* What was handled is not handled again: when its nonce is gone, so is    *)
(* the request's last chance.                                              *)
LEMMA RememberedStep ==
  LifetimeCovers /\ NoncesInv /\ Remembered /\ [NoncesNext]_nonceVars
    => Remembered'
<1> SUFFICES ASSUME LifetimeCovers, NoncesInv, Remembered, [NoncesNext]_nonceVars
             PROVE  Remembered'
  OBVIOUS
<1> USE NonceAssumption DEF NonceAssumption
<1>1. CASE UNCHANGED <<stamp, handled, taken>>
  BY <1>1 DEF Remembered
<1>2. ASSUME NEW d \in Deliveries, ConsumeNonce(d) PROVE Remembered'
  <2>1. PICK q, t : q = arrival[d].request /\ t = arrival[d].since
    OBVIOUS
  <2>2. /\ q \in Requests /\ t \in 0..MaxNow /\ UNCHANGED stamp
        /\ stamp[q] - Skew =< t /\ now =< stamp[q] + Skew + MaxDelay
    BY <1>2, <2>1, ConsumeEffect
  <2>3. CASE Swept(t)[q] # -1
    BY <1>2, <2>1, <2>2, <2>3, ConsumeEffect DEF Remembered
  <2>4. CASE Swept(t)[q] = -1
    <3>1. /\ \A p \in Requests : p # q =>
               handled'[p] = handled[p] /\ taken'[p] = taken[p]
          /\ handled'[q] = handled[q] + 1 /\ taken'[q] = t
      BY <1>2, <2>1, <2>4, ConsumeEffect
    <3>2. handled[q] \in Nat /\ now \in Nat /\ stamp[q] \in Nat /\ taken[q] \in Int
      BY <2>2, SMT DEF NoncesInv, NoncesTypeOK
    <3>3. ~(handled[q] > 0)
      <4> SUFFICES ASSUME handled[q] > 0 PROVE FALSE
        OBVIOUS
      <4>1. handled[q] = 1
        BY <2>2, <3>2 DEF Remembered
      <4>2. now > taken[q] + NonceTtl
        BY <1>2, <2>2, <3>1, <3>2, TakenLate
      <4>3. stamp[q] - Skew =< taken[q]
        BY <2>2, <4>1 DEF Remembered
      <4> QED
        BY <2>2, <3>2, <4>2, <4>3 DEF LifetimeCovers
    <3> QED
      BY <2>2, <3>1, <3>2, <3>3 DEF Remembered
  <2> QED
    BY <2>3, <2>4
<1> QED
  BY <1>1, <1>2 DEF NoncesNext, PassTime, NoncesRestart, VerifyRequest, nonceVars

(* HandledOnce: if nonces are kept for long enough, no request of the EE   *)
(* is let through twice, whatever is delivered again and whenever the      *)
(* server is started again.                                                *)
THEOREM NoReplay == LifetimeCovers /\ NoncesSpec => []HandledOnce
<1> SUFFICES ASSUME LifetimeCovers PROVE NoncesSpec => []HandledOnce
  OBVIOUS
<1>1. NoncesInit => Remembered
  <2> SUFFICES ASSUME NoncesInit, NEW q \in Requests
               PROVE  handled[q] =< 1 /\ handled[q] # 1
    BY DEF Remembered
  <2>1. handled[q] = 0
    BY DEF NoncesInit
  <2> QED
    BY <2>1
<1>2. NoncesInv /\ Remembered /\ [NoncesNext]_nonceVars => Remembered'
  BY RememberedStep
<1>3. Remembered => HandledOnce
  BY DEF Remembered, HandledOnce
<1> QED
  BY <1>1, <1>2, <1>3, NoncesInitInv, NoncesStep, PTL DEF NoncesSpec
=============================================================================
