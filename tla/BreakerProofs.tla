---------------------------- MODULE BreakerProofs ----------------------------
(***************************************************************************)
(* The properties of AgentBreaker for every set of callers and circuits,   *)
(* every threshold, cooldown and longer expiry; and that the healer's      *)
(* sessions, which charge it, ask it and credit it under a timeout that    *)
(* may cancel the call, keep them (every finite set of sessions).          *)
(***************************************************************************)
EXTENDS Healing, FiniteSetTheorems, SequenceTheorems, TLAPS

(* The invariant relates every place a circuit's record can be in - Redis,
   memory, the copy of a call in flight - to the failures that were recorded,
   and the cooldown of an open circuit to the expiry of its key.             *)
Warranted(s, k) ==
  /\ s.failures <= k
  /\ s.openFor > 0 => k = Threshold

CountInv ==
  \A n \in Names :
    /\ Warranted(redis[n], failed[n])
    /\ Warranted(local[n], failed[n])
    /\ \A c \in Callers : call[c].name = n => Warranted(copy[c], failed[n])

(* A caller holds a copy only while it is about to write it.                 *)
CopyInv == \A c \in Callers : callPc[c] # "write" => copy[c] = Closed

OutlivesInv == \A n \in Names : redis[n].openFor > 0 => ttl[n] > redis[n].openFor

BreakerInv == BreakerTypeOK /\ CopyInv /\ CountInv /\ OutlivesInv

LEMMA InitInv == BreakerInit => BreakerInv
  BY BreakerAssumption
     DEF BreakerInit, BreakerInv, BreakerTypeOK, CopyInv, CountInv, OutlivesInv, Warranted, Circuit,
         Closed, Op, CallPc

(* What the update of a record and the passing of time make of a record.     *)
LEMMA RecordsStayRecords ==
  ASSUME NEW s \in Circuit
  PROVE  /\ AfterFailure(s) \in Circuit
         /\ AfterSuccess(s) \in Circuit
         /\ Aged(s) \in Circuit
         /\ Closed \in Circuit
  BY BreakerAssumption DEF Circuit, AfterFailure, AfterSuccess, Aged, OneLess, OneMore, Closed

(* A record changed by an operation is warranted by the history the operation
   leaves; ageing a record, losing it, and recording more failures take no
   warrant away.                                                             *)
LEMMA FailureIsWarranted ==
  ASSUME NEW s \in Circuit, NEW k \in 0 .. Threshold, Warranted(s, k)
  PROVE  Warranted(AfterFailure(s), OneMore(k))
  BY BreakerAssumption DEF Circuit, AfterFailure, OneMore, Warranted

LEMMA SuccessIsWarranted ==
  ASSUME NEW s \in Circuit, NEW k \in 0 .. Threshold, Warranted(s, k)
  PROVE  Warranted(AfterSuccess(s), k)
  BY BreakerAssumption DEF Circuit, AfterSuccess, Warranted

LEMMA AgedIsWarranted ==
  ASSUME NEW s \in Circuit, NEW k \in 0 .. Threshold, Warranted(s, k)
  PROVE  Warranted(Aged(s), k)
  BY BreakerAssumption DEF Circuit, Aged, OneLess, Warranted

LEMMA ClosedIsWarranted ==
  ASSUME NEW k \in 0 .. Threshold
  PROVE  Warranted(Closed, k)
  BY BreakerAssumption DEF Closed, Warranted

LEMMA WarrantLasts ==
  ASSUME NEW s \in Circuit, NEW k \in 0 .. Threshold, Warranted(s, k)
  PROVE  OneMore(k) \in 0 .. Threshold /\ Warranted(s, OneMore(k))
  BY BreakerAssumption DEF Circuit, OneMore, Warranted

(* Every step keeps the types.                                               *)
LEMMA TypeStep == BreakerTypeOK /\ [BreakerNext]_breakerVars => BreakerTypeOK'
<1> SUFFICES ASSUME BreakerTypeOK, [BreakerNext]_breakerVars PROVE BreakerTypeOK'
  OBVIOUS
<1>1. CASE UNCHANGED breakerVars
  BY <1>1 DEF BreakerTypeOK, breakerVars, recordVars, callVars
<1>2. CASE Tick
  <2>1. \A k \in 0 .. Ttl : OneLess(k) \in 0 .. Ttl
    BY BreakerAssumption DEF OneLess
  <2>3. ttl' \in [Names -> 0 .. Ttl]
    BY <1>2, <2>1 DEF Tick, BreakerTypeOK
  <2>2. /\ redis' \in [Names -> Circuit] /\ local' \in [Names -> Circuit]
        /\ copy' \in [Callers -> Circuit]
    BY <1>2, RecordsStayRecords DEF Tick, BreakerTypeOK
  <2> QED
    BY <1>2, <2>2, <2>3 DEF Tick, BreakerTypeOK
<1>3. ASSUME NEW c \in Callers, NEW op \in Op, NEW n \in MayCall[c], Call(c, op, n)
      PROVE  BreakerTypeOK'
  <2>1. n \in Names
    BY BreakerAssumption
  <2> QED
    BY <1>3, <2>1 DEF Call, BreakerTypeOK, recordVars, CallPc
<1>4. ASSUME NEW c \in Callers, AskRedis(c) PROVE BreakerTypeOK'
  BY <1>4 DEF AskRedis, BreakerTypeOK, recordVars, CallPc
<1>5. ASSUME NEW c \in Callers, ReadRedis(c) PROVE BreakerTypeOK'
  <2>1. PICK s \in Readable(call[c].name) : copy' = [copy EXCEPT ![c] = After(call[c].op, s)]
    BY <1>5 DEF ReadRedis
  <2>2. s \in Circuit
    <3>1. call[c].name \in Names /\ redis[call[c].name] \in Circuit
      BY DEF BreakerTypeOK
    <3>2. Closed \in Circuit
      BY <3>1, RecordsStayRecords
    <3> QED
      BY <3>1, <3>2 DEF Readable
  <2>3. copy' \in [Callers -> Circuit]
    BY <2>1, <2>2, RecordsStayRecords DEF After, BreakerTypeOK
  <2>4. failed' \in [Names -> 0 .. Threshold]
    BY <1>5, BreakerAssumption DEF ReadRedis, Count, OneMore, BreakerTypeOK
  <2> QED
    BY <1>5, <2>3, <2>4 DEF ReadRedis, BreakerTypeOK, recordVars, CallPc
<1>6. ASSUME NEW c \in Callers, WriteRedis(c) PROVE BreakerTypeOK'
  <2>1. copy[c] \in Circuit /\ copy' = [copy EXCEPT ![c] = Closed]
    BY <1>6 DEF WriteRedis, BreakerTypeOK
  <2>2. copy' \in [Callers -> Circuit]
    BY <2>1, RecordsStayRecords DEF BreakerTypeOK
  <2>3. \/ redis' = [redis EXCEPT ![call[c].name] = copy[c]] /\ ttl' = [ttl EXCEPT ![call[c].name] = Ttl]
        \/ redis' = redis /\ ttl' = ttl
    BY <1>6 DEF WriteRedis
  <2>4. redis' \in [Names -> Circuit] /\ ttl' \in [Names -> 0 .. Ttl]
    BY <2>1, <2>3, BreakerAssumption DEF BreakerTypeOK
  <2> QED
    BY <1>6, <2>2, <2>4 DEF WriteRedis, BreakerTypeOK, CallPc
<1>7. ASSUME NEW c \in Callers, AskLocal(c) PROVE BreakerTypeOK'
  BY <1>7 DEF AskLocal, BreakerTypeOK, recordVars, CallPc
<1>8. ASSUME NEW c \in Callers, UpdateLocal(c) PROVE BreakerTypeOK'
  <2>1. local' \in [Names -> Circuit]
    BY <1>8, RecordsStayRecords DEF UpdateLocal, After, BreakerTypeOK
  <2>2. failed' \in [Names -> 0 .. Threshold]
    BY <1>8, BreakerAssumption DEF UpdateLocal, Count, OneMore, BreakerTypeOK
  <2> QED
    BY <1>8, <2>1, <2>2 DEF UpdateLocal, BreakerTypeOK, CallPc
<1> QED
  BY <1>1, <1>2, <1>3, <1>4, <1>5, <1>6, <1>7, <1>8 DEF BreakerNext, CallAny, Proceed

(* The history of an update: the record it leaves is warranted by it, and so
   are the records it does not touch.                                        *)
LEMMA CountedUpdate ==
  ASSUME BreakerTypeOK, NEW c \in Callers, call[c].op # "check", Count(c),
         NEW s \in Circuit, Warranted(s, failed[call[c].name])
  PROVE  /\ Warranted(After(call[c].op, s), failed'[call[c].name])
         /\ \A n \in Names, t \in Circuit :
              Warranted(t, failed[n]) => Warranted(t, failed'[n])
<1>1. call[c].name \in Names /\ call[c].op \in {"success", "failure"}
  BY DEF BreakerTypeOK, Op
<1>2. \A n \in Names : failed[n] \in 0 .. Threshold
  BY DEF BreakerTypeOK
<1>3. CASE call[c].op = "failure"
  <2>1. failed' = [failed EXCEPT ![call[c].name] = OneMore(failed[call[c].name])]
    BY <1>3 DEF Count
  <2>2. /\ failed'[call[c].name] = OneMore(failed[call[c].name])
        /\ \A n \in Names : failed'[n] \in {failed[n], OneMore(failed[n])}
    BY <1>1, <2>1 DEF BreakerTypeOK
  <2>3. Warranted(After(call[c].op, s), failed'[call[c].name])
    BY <1>1, <1>2, <1>3, <2>2, FailureIsWarranted DEF After
  <2> QED
    BY <1>2, <2>2, <2>3, WarrantLasts
<1>4. CASE call[c].op = "success"
  <2>1. failed' = failed
    BY <1>4 DEF Count
  <2> QED
    BY <1>1, <1>2, <1>4, <2>1, SuccessIsWarranted DEF After
<1> QED
  BY <1>1, <1>3, <1>4

(* No step leaves a record, or a copy of one, that the failures recorded do
   not account for.                                                          *)
LEMMA CountStep == BreakerTypeOK /\ CopyInv /\ CountInv /\ [BreakerNext]_breakerVars => CountInv'
<1> SUFFICES ASSUME BreakerTypeOK, CopyInv, CountInv, [BreakerNext]_breakerVars PROVE CountInv'
  OBVIOUS
<1>0. /\ \A n \in Names : failed[n] \in 0 .. Threshold /\ redis[n] \in Circuit /\ local[n] \in Circuit
      /\ \A c \in Callers : copy[c] \in Circuit /\ call[c].name \in Names /\ call[c].op \in Op
  BY DEF BreakerTypeOK
<1>1. CASE UNCHANGED breakerVars
  BY <1>1 DEF CountInv, breakerVars, recordVars, callVars
<1>2. CASE Tick
  BY <1>0, <1>2, AgedIsWarranted, ClosedIsWarranted DEF Tick, CountInv, BreakerTypeOK
<1>3. ASSUME NEW c \in Callers, NEW op \in Op, NEW n \in MayCall[c], Call(c, op, n)
      PROVE  CountInv'
  <2>1. /\ UNCHANGED <<redis, local, copy, failed>> /\ copy[c] = Closed
        /\ \A d \in Callers \ {c} : call'[d] = call[d]
    BY <1>3 DEF Call, recordVars, CopyInv, BreakerTypeOK
  <2> QED
    BY <1>0, <2>1, ClosedIsWarranted DEF CountInv
<1>4. ASSUME NEW c \in Callers, AskRedis(c) \/ AskLocal(c) PROVE CountInv'
  BY <1>4 DEF AskRedis, AskLocal, CountInv, recordVars
<1>5. ASSUME NEW c \in Callers, ReadRedis(c) PROVE CountInv'
  <2>1. PICK s \in Readable(call[c].name) : copy' = [copy EXCEPT ![c] = After(call[c].op, s)]
    BY <1>5 DEF ReadRedis
  <2>2. s \in Circuit /\ Warranted(s, failed[call[c].name])
    BY <1>0, RecordsStayRecords, ClosedIsWarranted DEF Readable, CountInv
  <2>3. /\ Warranted(After(call[c].op, s), failed'[call[c].name])
        /\ \A n \in Names, t \in Circuit : Warranted(t, failed[n]) => Warranted(t, failed'[n])
    BY <1>5, <2>2, CountedUpdate DEF ReadRedis
  <2>4. UNCHANGED <<redis, local, call>>
    BY <1>5 DEF ReadRedis, recordVars
  <2> QED
    BY <1>0, <2>1, <2>3, <2>4 DEF CountInv, BreakerTypeOK
<1>6. ASSUME NEW c \in Callers, WriteRedis(c) PROVE CountInv'
  <2>1. UNCHANGED <<local, call, failed>> /\ copy' = [copy EXCEPT ![c] = Closed]
    BY <1>6 DEF WriteRedis
  <2>2. redis' = redis \/ redis' = [redis EXCEPT ![call[c].name] = copy[c]]
    BY <1>6 DEF WriteRedis
  <2>3. \A n \in Names : Warranted(redis'[n], failed[n])
    BY <1>0, <2>2 DEF CountInv, BreakerTypeOK
  <2> QED
    BY <1>0, <2>1, <2>3, ClosedIsWarranted DEF CountInv, BreakerTypeOK
<1>7. ASSUME NEW c \in Callers, UpdateLocal(c) PROVE CountInv'
  <2>1. /\ UNCHANGED <<redis, call, copy>>
        /\ local' = [local EXCEPT ![call[c].name] = After(call[c].op, local[call[c].name])]
    BY <1>7 DEF UpdateLocal
  <2>2. /\ Warranted(After(call[c].op, local[call[c].name]), failed'[call[c].name])
        /\ \A n \in Names, t \in Circuit : Warranted(t, failed[n]) => Warranted(t, failed'[n])
    BY <1>0, <1>7, CountedUpdate DEF UpdateLocal, CountInv
  <2> QED
    BY <1>0, <2>1, <2>2 DEF CountInv, BreakerTypeOK
<1> QED
  BY <1>1, <1>2, <1>3, <1>4, <1>5, <1>6, <1>7 DEF BreakerNext, CallAny, Proceed

LEMMA CopyStep == BreakerTypeOK /\ CopyInv /\ [BreakerNext]_breakerVars => CopyInv'
<1> SUFFICES ASSUME BreakerTypeOK, CopyInv, [BreakerNext]_breakerVars PROVE CopyInv'
  OBVIOUS
<1>1. Aged(Closed) = Closed
  BY DEF Aged, Closed, OneLess
<1>2. CASE Tick
  BY <1>1, <1>2 DEF Tick, CopyInv
<1>3. CASE UNCHANGED breakerVars
  BY <1>3 DEF CopyInv, breakerVars, callVars
<1>4. ASSUME NEW c \in Callers, CallAny(c) \/ Proceed(c) PROVE CopyInv'
  BY <1>4 DEF CallAny, Call, Proceed, AskRedis, ReadRedis, WriteRedis, AskLocal, UpdateLocal,
              CopyInv, BreakerTypeOK
<1> QED
  BY <1>2, <1>3, <1>4 DEF BreakerNext

(* The key of an open circuit expires after its cooldown has ended.          *)
LEMMA OutlivesStep ==
  BreakerTypeOK /\ OutlivesInv /\ [BreakerNext]_breakerVars => OutlivesInv'
<1> SUFFICES ASSUME BreakerTypeOK, OutlivesInv, [BreakerNext]_breakerVars PROVE OutlivesInv'
  OBVIOUS
<1>1. CASE UNCHANGED <<redis, ttl>>
  BY <1>1 DEF OutlivesInv
<1>2. CASE Tick
  <2> SUFFICES ASSUME NEW n \in Names, redis'[n].openFor > 0
               PROVE  ttl'[n] > redis'[n].openFor
    BY DEF OutlivesInv
  <2>1. redis[n] \in Circuit /\ ttl[n] \in 0 .. Ttl
    BY DEF BreakerTypeOK
  <2>2. redis'[n] = Aged(redis[n]) /\ ttl'[n] = OneLess(ttl[n])
    BY <1>2 DEF Tick, Closed
  <2>3. redis'[n].openFor = OneLess(redis[n].openFor)
    BY <2>1, <2>2 DEF Aged, Circuit
  <2> QED
    BY <2>1, <2>2, <2>3, BreakerAssumption DEF OutlivesInv, OneLess, Circuit
<1>3. ASSUME NEW c \in Callers, WriteRedis(c) PROVE OutlivesInv'
  <2>1. CASE UNCHANGED <<redis, ttl>>
    BY <1>1, <2>1
  <2>2. CASE /\ redis' = [redis EXCEPT ![call[c].name] = copy[c]]
             /\ ttl' = [ttl EXCEPT ![call[c].name] = Ttl]
    <3>1. copy[c] \in Circuit /\ Ttl > copy[c].openFor
      BY BreakerAssumption DEF BreakerTypeOK, Circuit
    <3> QED
      BY <2>2, <3>1 DEF OutlivesInv, BreakerTypeOK
  <2> QED
    BY <1>3, <2>1, <2>2 DEF WriteRedis
<1> QED
  BY <1>1, <1>2, <1>3
     DEF BreakerNext, CallAny, Proceed, Call, AskRedis, ReadRedis, AskLocal, UpdateLocal,
         recordVars, callVars, breakerVars

(* The invariant holds in every reachable state.                             *)
THEOREM BreakerInvariant == BreakerSpec => []BreakerInv
  BY InitInv, TypeStep, CopyStep, CountStep, OutlivesStep, PTL DEF BreakerSpec, BreakerInv

(* Every variable keeps its type.                                            *)
THEOREM BreakerTypes == BreakerSpec => []BreakerTypeOK
  BY BreakerInvariant, PTL DEF BreakerInv

(* No interleaving of updates, no failing command and no expiry opens a
   circuit that has not failed Threshold times.                              *)
THEOREM OpenIsWarranted == BreakerSpec => []OpensOnlyAfterFailures
<1>1. BreakerInv => OpensOnlyAfterFailures
  BY BreakerAssumption
     DEF BreakerInv, BreakerTypeOK, Circuit, CountInv, Warranted, OpensOnlyAfterFailures
<1> QED
  BY <1>1, BreakerInvariant, PTL

(* The tick that would expire the key of an open circuit comes after the one that
   ends its cooldown.                                                        *)
LEMMA TickClosesOnlyDue ==
  ASSUME BreakerInv, Tick, NEW n \in Names, redis[n].openFor > 1
  PROVE  redis'[n].openFor > 0
<1>1. redis[n] \in Circuit /\ ttl[n] \in 0 .. Ttl /\ ttl[n] > redis[n].openFor
  BY BreakerAssumption DEF BreakerInv, BreakerTypeOK, OutlivesInv, Circuit
<1>2. redis'[n] = Aged(redis[n])
  BY <1>1, BreakerAssumption DEF Tick, OneLess, Circuit
<1> QED
  BY <1>1, <1>2 DEF Aged, OneLess, Circuit

(* The expiry of a key never closes a circuit before its cooldown ends.      *)
THEOREM CooldownIsServed == BreakerSpec => ExpiryClosesNoCircuit
<1>1. BreakerInv /\ [BreakerNext]_breakerVars
      => [Tick => \A n \in Names : redis[n].openFor > 1 => redis'[n].openFor > 0]_breakerVars
  BY TickClosesOnlyDue
<1> QED
  BY <1>1, BreakerInvariant, PTL DEF BreakerSpec, ExpiryClosesNoCircuit

(* An update of the in-memory circuits is one atomic update of the abstract
   breaker.                                                                  *)
LEMMA UpdateIsAtomic ==
  ASSUME BreakerTypeOK, NEW c \in Callers, UpdateLocal(c)
  PROVE  Atomic!Next
<1> DEFINE F == [n \in Names |-> local[n].failures]
           G == [n \in Names |-> local[n].openFor]
<1>1. PICK m \in Names : m = call[c].name
  BY DEF BreakerTypeOK
<1>2. local[m] \in Circuit /\ local' = [local EXCEPT ![m] = After(call[c].op, local[m])]
  BY <1>1 DEF UpdateLocal, BreakerTypeOK
<1>3. CASE call[c].op = "failure"
  <2>1. /\ local' = [local EXCEPT ![m] = AfterFailure(local[m])]
        /\ \A n \in Names : local'[n] = IF n = m THEN AfterFailure(local[m]) ELSE local[n]
    BY <1>2, <1>3 DEF After, BreakerTypeOK
  <2>2. /\ AfterFailure(local[m]).failures = OneMore(local[m].failures)
        /\ AfterFailure(local[m]).openFor
             = IF OneMore(local[m].failures) >= Threshold THEN Recovery ELSE local[m].openFor
    BY DEF AfterFailure
  <2>3. local[m].failures \in 0 .. Threshold
    BY <1>2 DEF Circuit
  <2>4. CASE local[m].failures + 1 < Threshold
    <3>1. OneMore(local[m].failures) = local[m].failures + 1
      BY <2>3, <2>4, BreakerAssumption DEF OneMore
    <3>2. ~(OneMore(local[m].failures) >= Threshold)
      BY <2>3, <2>4, <3>1, BreakerAssumption
    <3>3. F' = [F EXCEPT ![m] = F[m] + 1] /\ G' = G
      <4>1. \A n \in Names : /\ local'[n].failures = IF n = m THEN local[m].failures + 1
                                                              ELSE local[n].failures
                             /\ local'[n].openFor = local[n].openFor
        BY <2>1, <2>2, <3>1, <3>2
      <4> QED
        BY <4>1
    <3>4. F[m] + 1 < Threshold
      BY <2>4
    <3>5. Atomic!Fail(m)
      BY <3>3, <3>4 DEF Atomic!Fail
    <3> QED
      BY <3>5 DEF Atomic!Next
  <2>5. CASE local[m].failures + 1 >= Threshold
    <3>1. OneMore(local[m].failures) = Threshold
      BY <2>3, <2>5, BreakerAssumption DEF OneMore
    <3>2. Threshold >= Threshold
      BY BreakerAssumption
    <3>3. F' = [F EXCEPT ![m] = Threshold] /\ G' = [G EXCEPT ![m] = Recovery]
      <4>1. \A n \in Names :
              /\ local'[n].failures = IF n = m THEN Threshold ELSE local[n].failures
              /\ local'[n].openFor = IF n = m THEN Recovery ELSE local[n].openFor
        BY <2>1, <2>2, <3>1, <3>2
      <4> QED
        BY <4>1
    <3>4. F[m] + 1 >= Threshold
      BY <2>5
    <3>5. Atomic!Fail(m)
      BY <3>3, <3>4 DEF Atomic!Fail
    <3> QED
      BY <3>5 DEF Atomic!Next
  <2> QED
    BY <2>3, <2>4, <2>5, BreakerAssumption
<1>4. CASE call[c].op # "failure"
  <2>1. \A n \in Names : local'[n] = IF n = m THEN AfterSuccess(local[m]) ELSE local[n]
    BY <1>2, <1>4 DEF After, BreakerTypeOK
  <2>2. AfterSuccess(local[m]).failures = 0 /\ AfterSuccess(local[m]).openFor = local[m].openFor
    BY <1>2 DEF AfterSuccess, Circuit
  <2>3. Atomic!Succeed(m)
    BY <2>1, <2>2 DEF Atomic!Succeed
  <2> QED
    BY <2>3 DEF Atomic!Next
<1> QED
  BY <1>3, <1>4

(* Every step of the breaker is one of the atomic breaker's, on the circuits in
   memory, or leaves them alone.                                             *)
LEMMA StepIsAtomic ==
  BreakerTypeOK /\ [BreakerNext]_breakerVars => [Atomic!Next]_Atomic!vars
<1> SUFFICES ASSUME BreakerTypeOK, [BreakerNext]_breakerVars
             PROVE  [Atomic!Next]_Atomic!vars
  OBVIOUS
<1>1. CASE local' = local
  BY <1>1 DEF Atomic!vars
<1>2. CASE Tick
  <2>1. \A n \in Names : /\ local'[n].failures = local[n].failures
                         /\ local'[n].openFor = OneLess(local[n].openFor)
    BY <1>2 DEF Tick, Aged, BreakerTypeOK, Circuit
  <2>2. [n \in Names |-> local'[n].openFor]
          = [n \in Names |-> IF local[n].openFor = 0 THEN 0 ELSE local[n].openFor - 1]
    BY <2>1 DEF OneLess
  <2>3. [n \in Names |-> local'[n].failures]
          = [n \in Names |-> IF n \in {} THEN 0 ELSE local[n].failures]
    BY <2>1
  <2>4. {} \in SUBSET {n \in Names : [k \in Names |-> local'[k].openFor][n] = 0}
    OBVIOUS
  <2>5. Atomic!Tick
    BY <2>2, <2>3, <2>4 DEF Atomic!Tick
  <2> QED
    BY <2>5 DEF Atomic!Next
<1>3. ASSUME NEW c \in Callers, UpdateLocal(c) PROVE Atomic!Next
  BY <1>3, UpdateIsAtomic
<1> QED
  BY <1>1, <1>2, <1>3
     DEF BreakerNext, CallAny, Proceed, Call, AskRedis, ReadRedis, WriteRedis, AskLocal,
         recordVars, breakerVars

(* The in-memory breaker implements the atomic one.                          *)
THEOREM MemoryIsAtomic == BreakerSpec => ImplementsAtomicBreaker
<1>1. BreakerInit => Atomic!Init
  BY DEF BreakerInit, Atomic!Init, Closed
<1> QED
  BY <1>1, StepIsAtomic, BreakerTypes, PTL
     DEF BreakerSpec, ImplementsAtomicBreaker, Atomic!Spec

-----------------------------------------------------------------------------
(* The sessions of Healing.                                                  *)

(* What a session does to the breaker is one of the breaker's own steps, or the
   cancellation of a call of it that may be suspended at a Redis command.    *)
Cancel(s) ==
  /\ callPc' = [callPc EXCEPT ![s] = "idle"]
  /\ copy' = [copy EXCEPT ![s] = Closed]
  /\ UNCHANGED <<recordVars, call, answer, failed>>

LEMMA SessionStep ==
  [HealingNext]_healingVars => [BreakerNext]_breakerVars \/ \E s \in Callers : Cancel(s)
<1> SUFFICES ASSUME [HealingNext]_healingVars
             PROVE  [BreakerNext]_breakerVars \/ \E s \in Callers : Cancel(s)
  OBVIOUS
<1>1. CASE UNCHANGED healingVars
  BY <1>1 DEF healingVars
<1>2. CASE Tick
  BY <1>2 DEF BreakerNext
<1>3. ASSUME NEW s \in Callers, BreakerStep(s) PROVE BreakerNext
  BY <1>3 DEF BreakerStep, BreakerNext
<1>4. ASSUME NEW s \in Callers, NEW op \in Op, Call(s, op, StepOf[s]) PROVE BreakerNext
  BY <1>4, HealingAssumption DEF BreakerNext, CallAny
<1>5. ASSUME NEW s \in Callers, AttemptHeal(s) \/ AskCircuit(s) \/ StrategyWorks(s)
      PROVE  BreakerNext
  BY <1>4, <1>5 DEF AttemptHeal, AskCircuit, StrategyWorks, Op
<1>6. ASSUME NEW s \in Callers,
             Classify(s) \/ StrategyFails(s) \/ FallBack(s) \/ Credited(s) \/ Outlive(s)
      PROVE  UNCHANGED breakerVars
  BY <1>6 DEF Classify, StrategyFails, FallBack, Credited, Outlive
<1>7. ASSUME NEW s \in Callers, TimeOut(s) PROVE Cancel(s)
  BY <1>7 DEF TimeOut, Cancel
<1> QED
  BY <1>1, <1>2, <1>3, <1>5, <1>6, <1>7 DEF HealingNext, Session

LEMMA CancelKeepsInv == ASSUME BreakerInv, NEW s \in Callers, Cancel(s) PROVE BreakerInv'
<1>1. Closed \in Circuit
  BY BreakerAssumption DEF Closed, Circuit
<1>2. BreakerTypeOK'
  BY <1>1 DEF BreakerInv, BreakerTypeOK, Cancel, recordVars, CallPc
<1>3. CopyInv'
  BY DEF BreakerInv, BreakerTypeOK, CopyInv, Cancel
<1>4. CountInv'
  BY ClosedIsWarranted DEF BreakerInv, BreakerTypeOK, CountInv, Cancel, recordVars
<1>5. OutlivesInv'
  BY DEF BreakerInv, OutlivesInv, Cancel, recordVars
<1> QED
  BY <1>2, <1>3, <1>4, <1>5 DEF BreakerInv

(* The breaker's invariant holds under the sessions of the healer too, which end
   calls of it anywhere.                                                     *)
THEOREM SessionsKeepBreaker == HealingSpec => []BreakerInv
<1>1. HealingInit => BreakerInv
  BY InitInv DEF HealingInit
<1>2. BreakerInv /\ [HealingNext]_healingVars => BreakerInv'
  BY SessionStep, CancelKeepsInv, TypeStep, CopyStep, CountStep, OutlivesStep DEF BreakerInv
<1> QED
  BY <1>1, <1>2, PTL DEF HealingSpec

(* A session's failure is in the record of its circuit: it has charged it and has
   not credited it yet.                                                      *)
Charged(s) ==
  /\ healPc[s] # "idle"
  /\ healPc[s] = "charge" => callPc[s] = "idle"
  /\ healPc[s] = "credit" => callPc[s] # "idle"

ChargedTo(n) == {s \in Callers : StepOf[s] = n /\ Charged(s)}

SessionTypes ==
  /\ healPc \in [Callers -> HealPc]
  /\ overdue \in [Callers -> BOOLEAN]
  /\ uncredited \in [Names -> 0 .. Threshold]

(* A call of the breaker is the one its session waits for, and writes only to
   Redis.                                                                    *)
CallOfSession(s) ==
  callPc[s] # "idle" =>
    /\ call[s].name = StepOf[s]
    /\ \/ healPc[s] = "charge" /\ call[s].op = "failure"
       \/ healPc[s] = "ask" /\ call[s].op = "check"
       \/ healPc[s] = "credit" /\ call[s].op = "success"
    /\ callPc[s] = "write" => redisConfigured

(* Every failure that the record in memory counts is of a session that has charged
   it, or that ended without crediting it.                                   *)
FailuresHaveSessions ==
  ~redisConfigured =>
    \A n \in Names : local[n].failures <= uncredited[n] + Cardinality(ChargedTo(n))

HealingInv ==
  /\ BreakerInv
  /\ SessionTypes
  /\ \A s \in Callers : CallOfSession(s)
  /\ FailuresHaveSessions

LEMMA ChargedAreFinite ==
  ASSUME NEW n
  PROVE  IsFiniteSet(ChargedTo(n)) /\ Cardinality(ChargedTo(n)) \in Nat
<1>1. IsFiniteSet(ChargedTo(n))
  BY HealingAssumption, FS_Subset DEF ChargedTo
<1> QED
  BY <1>1, FS_CardinalityType

LEMMA SessionInit == HealingInit => HealingInv
<1> SUFFICES ASSUME HealingInit PROVE HealingInv
  OBVIOUS
<1>1. BreakerInv
  BY InitInv DEF HealingInit
<1>2. SessionTypes
  BY BreakerAssumption DEF HealingInit, SessionTypes, HealPc
<1>3. \A s \in Callers : CallOfSession(s)
  BY DEF HealingInit, BreakerInit, CallOfSession
<1>4. FailuresHaveSessions
  <2>1. \A n \in Names : local[n].failures = 0 /\ uncredited[n] = 0
    BY DEF HealingInit, BreakerInit, Closed
  <2> QED
    BY <2>1, ChargedAreFinite DEF FailuresHaveSessions
<1> QED
  BY <1>1, <1>2, <1>3, <1>4 DEF HealingInv

LEMMA SessionTypeStep == HealingInv /\ [HealingNext]_healingVars => SessionTypes'
<1> SUFFICES ASSUME SessionTypes, [HealingNext]_healingVars PROVE SessionTypes'
  BY DEF HealingInv
<1>1. \A k \in 0 .. Threshold : OneMore(k) \in 0 .. Threshold
  BY BreakerAssumption DEF OneMore
<1>2. CASE UNCHANGED sessionVars
  BY <1>2 DEF SessionTypes, sessionVars
<1>3. ASSUME NEW s \in Callers, EndSession(s), Uncredited(s) PROVE SessionTypes'
  BY <1>1, <1>3, HealingAssumption, BreakerAssumption
     DEF EndSession, Uncredited, SessionTypes, HealPc
<1>4. ASSUME NEW s \in Callers, AttemptHeal(s) \/ AskCircuit(s) \/ Classify(s) \/ StrategyWorks(s)
      PROVE  SessionTypes'
  BY <1>4 DEF AttemptHeal, AskCircuit, Classify, StrategyWorks, SessionTypes, HealPc
<1>5. ASSUME NEW s \in Callers, StrategyFails(s) \/ FallBack(s) \/ TimeOut(s) PROVE SessionTypes'
  <2>1. CASE UNCHANGED <<healPc, overdue, uncredited>>
    BY <2>1 DEF SessionTypes
  <2> QED
    BY <1>3, <1>5, <2>1 DEF StrategyFails, FallBack, TimeOut
<1>6. ASSUME NEW s \in Callers, Credited(s) PROVE SessionTypes'
  BY <1>6 DEF Credited, EndSession, SessionTypes, HealPc
<1>7. ASSUME NEW s \in Callers, Outlive(s) PROVE SessionTypes'
  BY <1>7 DEF Outlive, SessionTypes
<1>8. ASSUME NEW s \in Callers, BreakerStep(s) PROVE SessionTypes'
  <2>1. /\ healPc' = healPc /\ overdue' = overdue
        /\ \/ uncredited' = uncredited
           \/ uncredited' = [uncredited EXCEPT ![call[s].name] = 0]
    BY <1>8 DEF BreakerStep
  <2>2. 0 \in 0 .. Threshold
    BY BreakerAssumption
  <2> QED
    BY <2>1, <2>2 DEF SessionTypes
<1> QED
  BY <1>2, <1>4, <1>5, <1>6, <1>7, <1>8 DEF HealingNext, Session, healingVars

LEMMA ConfigurationStays == [HealingNext]_healingVars => redisConfigured' = redisConfigured
  BY SessionStep
     DEF BreakerNext, CallAny, Call, Proceed, AskRedis, ReadRedis, WriteRedis, AskLocal,
         UpdateLocal, Tick, Cancel, recordVars, breakerVars

LEMMA CallStep ==
  HealingInv /\ [HealingNext]_healingVars => \A s \in Callers : CallOfSession(s)'
<1> SUFFICES ASSUME HealingInv, [HealingNext]_healingVars, NEW t \in Callers
             PROVE  CallOfSession(t)'
  OBVIOUS
<1>0. /\ callPc \in [Callers -> CallPc] /\ call \in [Callers -> [op : Op, name : Names]]
      /\ healPc \in [Callers -> HealPc]
      /\ CallOfSession(t)
      /\ redisConfigured' = redisConfigured
  BY ConfigurationStays DEF HealingInv, BreakerInv, BreakerTypeOK, SessionTypes
<1>1. CASE UNCHANGED <<callPc, call, healPc>>
  BY <1>0, <1>1 DEF CallOfSession
<1>2. ASSUME NEW s \in Callers, AttemptHeal(s) \/ AskCircuit(s) \/ StrategyWorks(s)
      PROVE  CallOfSession(t)'
  BY <1>0, <1>2 DEF AttemptHeal, AskCircuit, StrategyWorks, Call, CallOfSession
<1>3. ASSUME NEW s \in Callers, UNCHANGED <<callPc, call>>, callPc[s] = "idle",
             \A u \in Callers \ {s} : healPc'[u] = healPc[u]
      PROVE  CallOfSession(t)'
  BY <1>0, <1>3 DEF CallOfSession
<1>4. ASSUME NEW s \in Callers, Classify(s) \/ StrategyFails(s) \/ FallBack(s) \/ Credited(s)
      PROVE  CallOfSession(t)'
  <2>1. UNCHANGED <<callPc, call>>
    BY <1>4 DEF Classify, StrategyFails, FallBack, Credited, breakerVars, callVars
  <2>2. \A u \in Callers \ {s} : healPc'[u] = healPc[u]
    BY <1>0, <1>4 DEF Classify, StrategyFails, FallBack, Credited, EndSession
  <2>3. callPc[s] = "idle"
    <3>1. CASE healPc[s] \in {"try", "fallback"}
      BY <3>1 DEF HealingInv, CallOfSession
    <3> QED
      BY <1>4, <3>1 DEF Classify, StrategyFails, FallBack, Credited
  <2> QED
    BY <1>3, <2>1, <2>2, <2>3
<1>5. ASSUME NEW s \in Callers, TimeOut(s) PROVE CallOfSession(t)'
  BY <1>0, <1>5 DEF TimeOut, EndSession, CallOfSession
<1>6. ASSUME NEW s \in Callers, BreakerStep(s) PROVE CallOfSession(t)'
  <2>1. /\ UNCHANGED <<call, healPc>>
        /\ \/ callPc' = [callPc EXCEPT ![s] = "idle"]
           \/ callPc' = [callPc EXCEPT ![s] = "write"] /\ redisConfigured
        /\ callPc[s] # "idle"
    BY <1>6 DEF BreakerStep, Proceed, AskRedis, ReadRedis, WriteRedis, AskLocal, UpdateLocal
  <2> QED
    BY <1>0, <2>1 DEF CallOfSession
<1>7. CASE Tick /\ UNCHANGED sessionVars
  BY <1>1, <1>7 DEF Tick, sessionVars
<1>8. ASSUME NEW s \in Callers, Outlive(s) PROVE CallOfSession(t)'
  BY <1>1, <1>8 DEF Outlive, breakerVars, callVars
<1> QED
  BY <1>1, <1>2, <1>4, <1>5, <1>6, <1>7, <1>8
     DEF HealingNext, Session, healingVars, breakerVars, callVars, sessionVars

(* The number of a circuit's charged sessions when one of them joins or leaves. *)
LEMMA ChargedChange ==
  ASSUME NEW n \in Names, NEW s \in Callers,
         \A t \in Callers \ {s} : Charged(t)' = Charged(t)
  PROVE  /\ StepOf[s] # n \/ Charged(s)' = Charged(s) => ChargedTo(n)' = ChargedTo(n)
         /\ (StepOf[s] = n /\ ~Charged(s) /\ Charged(s)') =>
              Cardinality(ChargedTo(n)') = Cardinality(ChargedTo(n)) + 1
         /\ Cardinality(ChargedTo(n)) <= Cardinality(ChargedTo(n)') + 1
<1> DEFINE S == ChargedTo(n)
<1>1. IsFiniteSet(S) /\ Cardinality(S) \in Nat
  BY ChargedAreFinite
<1>2. \A t \in Callers \ {s} : t \in S' <=> t \in S
  BY DEF ChargedTo
<1>3. S \subseteq Callers /\ S' \subseteq Callers
  BY DEF ChargedTo
<1>4. /\ s \in S <=> (StepOf[s] = n /\ Charged(s))
      /\ s \in S' <=> (StepOf[s] = n /\ Charged(s)')
  BY DEF ChargedTo
<1> HIDE DEF S
<1>5. S' = S \/ (s \notin S /\ S' = S \cup {s}) \/ (s \in S /\ S' = S \ {s})
  <2>1. CASE s \in S' <=> s \in S
    BY <1>2, <1>3, <2>1
  <2>2. CASE s \in S' /\ s \notin S
    BY <1>2, <1>3, <2>2
  <2>3. CASE s \notin S' /\ s \in S
    BY <1>2, <1>3, <2>3
  <2> QED
    BY <2>1, <2>2, <2>3
<1>6. /\ Cardinality(S \cup {s}) = IF s \in S THEN Cardinality(S) ELSE Cardinality(S) + 1
      /\ Cardinality(S \ {s}) = IF s \in S THEN Cardinality(S) - 1 ELSE Cardinality(S)
  BY <1>1, FS_AddElement, FS_RemoveElement
<1>7. StepOf[s] # n \/ Charged(s)' = Charged(s) => S' = S
  BY <1>4, <1>5
<1>8. (StepOf[s] = n /\ ~Charged(s) /\ Charged(s)') => Cardinality(S') = Cardinality(S) + 1
  BY <1>4, <1>5, <1>6
<1>9. Cardinality(S) <= Cardinality(S') + 1
  <2>1. CASE S' = S
    BY <1>1, <2>1
  <2>2. CASE s \notin S /\ S' = S \cup {s}
    BY <1>1, <1>6, <2>2
  <2>3. CASE s \in S /\ S' = S \ {s}
    BY <1>1, <1>6, <2>3
  <2> QED
    BY <1>5, <2>1, <2>2, <2>3
<1> QED
  BY <1>7, <1>8, <1>9 DEF S

(* Every step keeps an account of the failures in memory.                    *)
LEMMA FailureStep ==
  HealingInv /\ [HealingNext]_healingVars => FailuresHaveSessions'
<1> SUFFICES ASSUME HealingInv, [HealingNext]_healingVars, ~redisConfigured, NEW n \in Names
             PROVE  local'[n].failures <= uncredited'[n] + Cardinality(ChargedTo(n)')
  BY ConfigurationStays DEF FailuresHaveSessions
<1>0. /\ local \in [Names -> Circuit] /\ call \in [Callers -> [op : Op, name : Names]]
      /\ healPc \in [Callers -> HealPc] /\ callPc \in [Callers -> CallPc]
      /\ uncredited \in [Names -> 0 .. Threshold]
      /\ \A t \in Callers : CallOfSession(t)
  BY DEF HealingInv, BreakerInv, BreakerTypeOK, SessionTypes
<1>1. /\ local[n].failures \in 0 .. Threshold /\ uncredited[n] \in 0 .. Threshold
      /\ Cardinality(ChargedTo(n)) \in Nat
      /\ local[n].failures <= uncredited[n] + Cardinality(ChargedTo(n))
  BY <1>0, ChargedAreFinite DEF HealingInv, FailuresHaveSessions, Circuit
<1>2. Cardinality(ChargedTo(n)') \in Nat
  <2>1. IsFiniteSet(ChargedTo(n)')
    BY HealingAssumption, FS_Subset DEF ChargedTo
  <2> QED
    BY <2>1, FS_CardinalityType
<1> DEFINE Goal == local'[n].failures <= uncredited'[n] + Cardinality(ChargedTo(n)')
<1>3. ASSUME local'[n].failures = local[n].failures, uncredited'[n] = uncredited[n],
             ChargedTo(n)' = ChargedTo(n)
      PROVE  Goal
  BY <1>1, <1>3
<1>4. CASE UNCHANGED healingVars
  BY <1>3, <1>4 DEF ChargedTo, Charged, healingVars, breakerVars, recordVars, callVars, sessionVars
<1>5. CASE Tick /\ UNCHANGED sessionVars
  <2>1. local'[n].failures = local[n].failures
    BY <1>0, <1>5 DEF Tick, Aged, Circuit
  <2>2. ChargedTo(n)' = ChargedTo(n) /\ uncredited'[n] = uncredited[n]
    BY <1>5 DEF Tick, sessionVars, ChargedTo, Charged
  <2> QED
    BY <1>3, <2>1, <2>2
<1>6. ASSUME NEW s \in Callers, AttemptHeal(s) \/ AskCircuit(s) \/ Classify(s)
                                 \/ StrategyWorks(s) \/ Credited(s)
      PROVE  Goal
  <2>1. UNCHANGED <<local, uncredited>>
    BY <1>6 DEF AttemptHeal, AskCircuit, Classify, StrategyWorks, Credited, Call, recordVars,
                breakerVars
  <2>2. \A t \in Callers \ {s} : Charged(t)' = Charged(t)
    BY <1>0, <1>6 DEF AttemptHeal, AskCircuit, Classify, StrategyWorks, Credited, EndSession, Call,
                      Charged, breakerVars, callVars
  <2>3. Charged(s)' = Charged(s)
    <3>1. healPc[s] = "try" => callPc[s] = "idle"
      BY <1>0 DEF CallOfSession
    <3> QED
      BY <1>0, <1>6, <3>1
         DEF AttemptHeal, AskCircuit, Classify, StrategyWorks, Credited, EndSession, Call, Charged,
             breakerVars, callVars
  <2> QED
    BY <1>3, <2>1, <2>2, <2>3, ChargedChange
<1>7. ASSUME NEW s \in Callers, EndSession(s), Uncredited(s), local' = local,
             \A t \in Callers \ {s} : callPc'[t] = callPc[t]
      PROVE  Goal
  <2>1. \A t \in Callers \ {s} : Charged(t)' = Charged(t)
    BY <1>0, <1>7 DEF EndSession, Charged
  <2>2. CASE StepOf[s] = n
    <3>1. uncredited'[n] = OneMore(uncredited[n])
      BY <1>0, <1>7, <2>2 DEF Uncredited
    <3>2. Cardinality(ChargedTo(n)) <= Cardinality(ChargedTo(n)') + 1
      BY <2>1, ChargedChange
    <3> QED
      BY <1>1, <1>2, <1>7, <3>1, <3>2, BreakerAssumption DEF OneMore
  <2>3. CASE StepOf[s] # n
    <3>1. uncredited'[n] = uncredited[n]
      BY <1>0, <1>7, <2>3 DEF Uncredited
    <3>2. ChargedTo(n)' = ChargedTo(n)
      BY <2>1, <2>3, ChargedChange
    <3> QED
      BY <1>3, <1>7, <3>1, <3>2
  <2> QED
    BY <2>2, <2>3
<1>8. ASSUME NEW s \in Callers,
             StrategyFails(s) \/ FallBack(s) \/ TimeOut(s) \/ Outlive(s)
      PROVE  Goal
  <2>1. CASE UNCHANGED <<healPc, uncredited, breakerVars>>
    BY <1>3, <2>1 DEF ChargedTo, Charged, breakerVars, recordVars, callVars
  <2>2. CASE EndSession(s) /\ Uncredited(s)
    <3>1. local' = local /\ \A t \in Callers \ {s} : callPc'[t] = callPc[t]
      BY <1>0, <1>8
         DEF StrategyFails, FallBack, TimeOut, Outlive, breakerVars, recordVars, callVars
    <3> QED
      BY <1>7, <2>2, <3>1
  <2> QED
    BY <1>8, <2>1, <2>2 DEF StrategyFails, FallBack, TimeOut, Outlive
<1>9. ASSUME NEW s \in Callers, BreakerStep(s) PROVE Goal
  <2>1. /\ \A t \in Callers \ {s} : Charged(t)' = Charged(t)
        /\ healPc' = healPc /\ callPc[s] # "idle" /\ callPc[s] # "write"
    BY <1>0, <1>9 DEF BreakerStep, Proceed, AskRedis, ReadRedis, WriteRedis, AskLocal, UpdateLocal,
                      Charged, CallOfSession
  <2>2. AskLocal(s) \/ UpdateLocal(s)
    BY <1>9, <2>1 DEF BreakerStep, Proceed, AskRedis, ReadRedis, WriteRedis
  <2>3. callPc' = [callPc EXCEPT ![s] = "idle"]
    BY <2>2 DEF AskLocal, UpdateLocal
  <2>4. CASE AskLocal(s)
    <3>1. call[s].op = "check" /\ healPc[s] = "ask" /\ local' = local
      BY <1>0, <2>4 DEF AskLocal, CallOfSession, recordVars
    <3>2. uncredited' = uncredited /\ Charged(s)' = Charged(s)
      BY <1>9, <2>1, <3>1 DEF BreakerStep, Charged
    <3> QED
      BY <1>3, <2>1, <3>1, <3>2, ChargedChange
  <2>5. CASE UpdateLocal(s) /\ StepOf[s] # n
    <3>1. call[s].name = StepOf[s]
      BY <1>0, <2>1 DEF CallOfSession
    <3>2. local'[n] = local[n] /\ uncredited'[n] = uncredited[n]
      BY <1>0, <1>9, <2>5, <3>1 DEF UpdateLocal, BreakerStep
    <3>3. ChargedTo(n)' = ChargedTo(n)
      BY <2>1, <2>5, ChargedChange
    <3> QED
      BY <1>3, <3>2, <3>3
  <2>6. CASE UpdateLocal(s) /\ StepOf[s] = n /\ call[s].op = "failure"
    <3>1. call[s].name = n /\ healPc[s] = "charge"
      BY <1>0, <2>1, <2>6 DEF CallOfSession
    <3>2. ~Charged(s) /\ Charged(s)'
      BY <1>0, <2>1, <2>3, <3>1 DEF Charged
    <3>3. Cardinality(ChargedTo(n)') = Cardinality(ChargedTo(n)) + 1
      BY <2>1, <2>6, <3>2, ChargedChange
    <3>4. local'[n].failures = OneMore(local[n].failures) /\ uncredited' = uncredited
      BY <1>0, <1>9, <2>6, <3>1 DEF UpdateLocal, After, AfterFailure, BreakerStep
    <3> QED
      BY <1>1, <3>3, <3>4, BreakerAssumption DEF OneMore
  <2>7. CASE UpdateLocal(s) /\ StepOf[s] = n /\ call[s].op = "success"
    <3>1. call[s].name = n
      BY <1>0, <2>1, <2>7 DEF CallOfSession
    <3>2. local'[n].failures = 0
      BY <1>0, <2>7, <3>1 DEF UpdateLocal, After, AfterSuccess, Circuit
    <3>3. uncredited'[n] = 0
      BY <1>0, <1>9, <2>3, <2>7, <3>1 DEF BreakerStep
    <3> QED
      BY <1>2, <3>2, <3>3
  <2>8. UpdateLocal(s) => call[s].op = "failure" \/ call[s].op = "success"
    BY <1>0, <2>1 DEF UpdateLocal, CallOfSession
  <2> QED
    BY <2>2, <2>4, <2>5, <2>6, <2>7, <2>8
<1> QED
  BY <1>4, <1>5, <1>6, <1>8, <1>9 DEF HealingNext, Session

(* The failures that sessions charge, and what they credit, are accounted for in
   every reachable state.                                                    *)
THEOREM HealingInvariant == HealingSpec => []HealingInv
<1>1. HealingInv /\ [HealingNext]_healingVars => HealingInv'
  <2>1. BreakerInv /\ [HealingNext]_healingVars => BreakerInv'
    BY SessionStep, CancelKeepsInv, TypeStep, CopyStep, CountStep, OutlivesStep DEF BreakerInv
  <2> QED
    BY <2>1, SessionTypeStep, CallStep, FailureStep DEF HealingInv
<1> QED
  BY <1>1, SessionInit, PTL DEF HealingSpec

(* A session that tries has a strategy to try.                               *)
TodoInv ==
  /\ todo \in [Callers -> Seq(Strategy)]
  /\ \A s \in Callers : healPc[s] = "try" => todo[s] # <<>>

LEMMA TodoStep == SessionTypes /\ TodoInv /\ [HealingNext]_healingVars => TodoInv'
<1> SUFFICES ASSUME SessionTypes, TodoInv, [HealingNext]_healingVars PROVE TodoInv'
  OBVIOUS
<1>1. /\ todo \in [Callers -> Seq(Strategy)] /\ healPc \in [Callers -> HealPc]
      /\ \A s \in Callers : healPc[s] = "try" => todo[s] # <<>>
  BY DEF TodoInv, SessionTypes
<1>2. CASE todo' = todo /\ \A s \in Callers : healPc'[s] = "try" => healPc[s] = "try"
  BY <1>1, <1>2 DEF TodoInv
<1>3. ASSUME NEW s \in Callers, NEW list \in Seq(Strategy), list # <<>>,
             todo' = [todo EXCEPT ![s] = list],
             healPc' = healPc \/ \E pc \in HealPc : healPc' = [healPc EXCEPT ![s] = pc]
      PROVE  TodoInv'
  BY <1>1, <1>3 DEF TodoInv
<1>4. ASSUME NEW s \in Callers, EndSession(s) PROVE TodoInv'
  <2>1. <<>> \in Seq(Strategy)
    OBVIOUS
  <2> QED BY <1>1, <1>4, <2>1 DEF EndSession, TodoInv
<1>5. ASSUME NEW s \in Callers, Classify(s) PROVE TodoInv'
  <2>1. \A order \in Classes \cup {<<"fallback">>} : order \in Seq(Strategy) /\ order # <<>>
    <3>1. \A a \in Strategy : <<a>> \in Seq(Strategy) /\ <<a>> # <<>>
      OBVIOUS
    <3>2. /\ "retry" \in Strategy /\ "repair" \in Strategy /\ "fallback" \in Strategy
          /\ "skip" \in Strategy /\ "escalate" \in Strategy
      BY DEF Strategy
    <3>3. ASSUME NEW order \in StrategyOrders
          PROVE  \E a, b, c, d \in Strategy : order = <<a, b, c, d>>
      BY <3>2, ZenonT(60) DEF StrategyOrders
    <3>4. \A order \in Classes \cup {<<"fallback">>} :
            order \in StrategyOrders \/ order = <<"escalate">> \/ order = <<"fallback">>
      BY DEF Classes
    <3>5. ASSUME NEW order \in StrategyOrders PROVE order \in Seq(Strategy) /\ order # <<>>
      <4>1. PICK a, b, c, d \in Strategy : order = <<a, b, c, d>>
        BY <3>3
      <4> QED BY <4>1
    <3>6. <<"escalate">> \in Seq(Strategy) /\ <<"escalate">> # <<>>
          /\ <<"fallback">> \in Seq(Strategy) /\ <<"fallback">> # <<>>
      BY <3>1, <3>2
    <3> QED BY <3>4, <3>5, <3>6, Zenon
  <2>2. \E list \in Classes \cup {<<"fallback">>}, pc \in HealPc :
          todo' = [todo EXCEPT ![s] = list] /\ healPc' = [healPc EXCEPT ![s] = pc]
    BY <1>5 DEF Classify, HealPc
  <2> QED BY <1>3, <2>1, <2>2
<1>6. ASSUME NEW s \in Callers, StrategyFails(s) PROVE TodoInv'
  <2>1. todo[s] \in Seq(Strategy) /\ todo[s] # <<>>
    BY <1>1, <1>6 DEF StrategyFails
  <2>2. Tail(todo[s]) \in Seq(Strategy)
    BY <2>1, HeadTailProperties
  <2>3. CASE Tail(todo[s]) # <<>>
    BY <1>3, <1>6, <2>2, <2>3 DEF StrategyFails
  <2> QED BY <1>4, <1>6, <2>3 DEF StrategyFails
<1>7. ASSUME NEW s \in Callers,
             AttemptHeal(s) \/ AskCircuit(s) \/ StrategyWorks(s) \/ Outlive(s) \/ BreakerStep(s)
      PROVE  TodoInv'
  BY <1>1, <1>2, <1>7 DEF AttemptHeal, AskCircuit, StrategyWorks, Outlive, BreakerStep
<1>8. ASSUME NEW s \in Callers, FallBack(s) \/ Credited(s) \/ TimeOut(s) PROVE TodoInv'
  BY <1>4, <1>8 DEF FallBack, Credited, TimeOut
<1> QED
  BY <1>2, <1>5, <1>6, <1>7, <1>8 DEF HealingNext, Session, healingVars, sessionVars

(* Every variable of the breaker and of its sessions keeps its type; a session that
   tries strategies has one to try.                                          *)
THEOREM HealingTypes == HealingSpec => [](HealingTypeOK /\ TodoInv)
<1>1. HealingInit => TodoInv
  BY DEF HealingInit, TodoInv
<1>2. HealingInv => SessionTypes
  BY DEF HealingInv
<1>3. HealingInv /\ TodoInv => HealingTypeOK
  BY DEF HealingInv, BreakerInv, SessionTypes, TodoInv, HealingTypeOK
<1> QED
  BY <1>1, <1>2, <1>3, TodoStep, HealingInvariant, PTL DEF HealingSpec

(* With the healer's sessions, timeouts and cancelled calls on top, a circuit opens
   only after its failures.                                                  *)
THEOREM SessionsOpenAfterFailures == HealingSpec => []OpensOnlyAfterFailures
<1>1. BreakerInv => OpensOnlyAfterFailures
  BY BreakerAssumption
     DEF BreakerInv, BreakerTypeOK, Circuit, CountInv, Warranted, OpensOnlyAfterFailures
<1> QED
  BY <1>1, SessionsKeepBreaker, PTL

(* Sessions that are cancelled in the middle of a write keep no circuit open for less
   than its cooldown.                                                        *)
THEOREM SessionsServeCooldown == HealingSpec => ExpiryClosesNoCircuit
<1>1. BreakerInv /\ [HealingNext]_healingVars
      => [Tick => \A n \in Names : redis[n].openFor > 1 => redis'[n].openFor > 0]_breakerVars
  BY TickClosesOnlyDue
<1> QED
  BY <1>1, SessionsKeepBreaker, PTL DEF HealingSpec, ExpiryClosesNoCircuit

(* The breaker in memory is atomic under sessions too: a timeout leaves no update
   half done.                                                                *)
THEOREM SessionsSeeAtomic == HealingSpec => ImplementsAtomicBreaker
<1>1. HealingInit => Atomic!Init
  BY DEF HealingInit, BreakerInit, Atomic!Init, Closed
<1>2. BreakerInv /\ [HealingNext]_healingVars => [Atomic!Next]_Atomic!vars
  <2>1. ASSUME NEW s \in Callers, Cancel(s) PROVE UNCHANGED Atomic!vars
    BY <2>1 DEF Cancel, recordVars, Atomic!vars
  <2> QED
    BY <2>1, SessionStep, StepIsAtomic DEF BreakerInv
<1> QED
  BY <1>1, <1>2, SessionsKeepBreaker, PTL
     DEF HealingSpec, ImplementsAtomicBreaker, Atomic!Spec

(* In memory the circuit of a step counts no more failures than its sessions that
   are under way or ended uncredited since the last credit.                  *)
THEOREM HealedStaysClosed == HealingSpec => []HealedStepsStayClosed
<1>1. HealingInv => HealedStepsStayClosed
  <2> SUFFICES ASSUME HealingInv, ~redisConfigured, NEW n \in Names
               PROVE  local[n].failures <=
                        uncredited[n]
                          + Cardinality({s \in Callers : StepOf[s] = n /\ healPc[s] # "idle"})
    BY DEF HealedStepsStayClosed
  <2> DEFINE Sessions == {s \in Callers : StepOf[s] = n /\ healPc[s] # "idle"}
  <2>1. IsFiniteSet(Sessions) /\ ChargedTo(n) \subseteq Sessions
    BY HealingAssumption, FS_Subset DEF ChargedTo, Charged
  <2>2. Cardinality(ChargedTo(n)) <= Cardinality(Sessions) /\ Cardinality(Sessions) \in Nat
    BY <2>1, FS_Subset, FS_CardinalityType
  <2>3. local[n].failures \in Nat /\ uncredited[n] \in Nat /\ Cardinality(ChargedTo(n)) \in Nat
    BY ChargedAreFinite, BreakerAssumption
       DEF HealingInv, BreakerInv, BreakerTypeOK, SessionTypes, Circuit
  <2>4. local[n].failures <= uncredited[n] + Cardinality(ChargedTo(n))
    BY DEF HealingInv, FailuresHaveSessions
  <2> QED
    BY <2>2, <2>3, <2>4
<1> QED
  BY <1>1, HealingInvariant, PTL
=============================================================================
