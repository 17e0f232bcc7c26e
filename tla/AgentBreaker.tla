---------------------------- MODULE AgentBreaker ----------------------------
(***************************************************************************)
(* AgentCircuitBreaker of backend/app/healing/circuit_breaker.py: one      *)
(* circuit per name, in a JSON value per name in Redis.  An update reads   *)
(* the value, changes the copy and writes it back, and yields at each of   *)
(* the two commands; a command that raises is swallowed, so that a failed  *)
(* read looks like a fresh circuit and a failed write is lost.  Without a  *)
(* REDIS_URL get_redis raises and the circuits are kept in the process:    *)
(* that branch does not yield.                                             *)
(*                                                                         *)
(* Time is discrete.  circuit_open_until and the expiry of the Redis key   *)
(* are held as the ticks left, in the copies of running calls too.         *)
(* Failures past the threshold are not told apart: the code only asks      *)
(* whether it is reached.  Health scores and totals are left out.  A call   *)
(* cancelled by a timeout before its write is one whose write is lost.     *)
(***************************************************************************)
EXTENDS Naturals, FiniteSets

CONSTANTS
  Callers,          \* the coroutines that use the breaker
  Names,            \* the circuits
  MayCall,          \* the circuits each caller uses
  Threshold,        \* _FAILURE_THRESHOLD
  Recovery,         \* _RECOVERY_TIMEOUT, in ticks
  Ttl,              \* _REDIS_TTL, in ticks
  RedisMayFail      \* may a command raise?

ASSUME BreakerAssumption ==
  /\ Names # {}
  /\ MayCall \in [Callers -> SUBSET Names]
  /\ Threshold \in Nat \ {0}
  /\ Recovery \in Nat \ {0}
  /\ Ttl \in Nat /\ Ttl > Recovery
  /\ RedisMayFail \in BOOLEAN

VARIABLES
  redisConfigured,  \* is there a REDIS_URL?  chosen once
  redis,   \* the value of each circuit's key, the default when there is none
  ttl,     \* the ticks until the key expires, 0 when there is none
  local,   \* self._local
  callPc,  \* the await each call is suspended at
  call,    \* its method and argument
  copy,    \* its changed copy of the state
  answer,  \* what is_available last returned to the caller
  failed   \* history: calls of record_failure per circuit, up to Threshold

recordVars == <<redisConfigured, redis, ttl, local>>
callVars == <<callPc, call, copy, answer>>
breakerVars == <<recordVars, callVars, failed>>

Circuit == [failures : 0 .. Threshold, openFor : 0 .. Recovery]
Closed == [failures |-> 0, openFor |-> 0]
Op == {"check", "success", "failure"}
CallPc == {"idle", "read", "write"}

BreakerTypeOK ==
  /\ redisConfigured \in BOOLEAN
  /\ redis \in [Names -> Circuit]
  /\ ttl \in [Names -> 0 .. Ttl]
  /\ local \in [Names -> Circuit]
  /\ callPc \in [Callers -> CallPc]
  /\ call \in [Callers -> [op : Op, name : Names]]
  /\ copy \in [Callers -> Circuit]
  /\ answer \in [Callers -> BOOLEAN]
  /\ failed \in [Names -> 0 .. Threshold]

BreakerInit ==
  /\ redisConfigured \in BOOLEAN
  /\ redis = [n \in Names |-> Closed]
  /\ ttl = [n \in Names |-> 0]
  /\ local = [n \in Names |-> Closed]
  /\ callPc = [c \in Callers |-> "idle"]
  /\ call = [c \in Callers |-> [op |-> "check", name |-> CHOOSE n \in Names : TRUE]]
  /\ copy = [c \in Callers |-> Closed]
  /\ answer = [c \in Callers |-> TRUE]
  /\ failed = [n \in Names |-> 0]

OneMore(k) == IF k < Threshold THEN k + 1 ELSE Threshold

(* Mutant: the circuit opens one failure early.                              *)
AfterFailureEarly(s) ==
  [failures |-> OneMore(s.failures),
   openFor |-> IF s.failures + 2 >= Threshold THEN Recovery ELSE s.openFor]

AfterFailure(s) ==
  [failures |-> OneMore(s.failures),
   openFor |-> IF OneMore(s.failures) >= Threshold THEN Recovery ELSE s.openFor]

(* Mutant: a success closes the circuit.                                     *)
AfterSuccessCloses(s) == Closed

(* A success ends the row of failures and leaves an open circuit open.       *)
AfterSuccess(s) == [s EXCEPT !.failures = 0]

After(op, s) == IF op = "failure" THEN AfterFailure(s) ELSE AfterSuccess(s)

Count(c) ==
  failed' = IF call[c].op = "failure"
              THEN [failed EXCEPT ![call[c].name] = OneMore(@)]
              ELSE failed

-----------------------------------------------------------------------------

(* A method is called and awaits get_redis.                                  *)
Call(c, op, n) ==
  /\ callPc[c] = "idle"
  /\ callPc' = [callPc EXCEPT ![c] = "read"]
  /\ call' = [call EXCEPT ![c] = [op |-> op, name |-> n]]
  /\ UNCHANGED <<recordVars, copy, answer, failed>>

(* _read_state returns the value, or a fresh one when the command raises.    *)
Readable(n) == {redis[n]} \cup (IF RedisMayFail THEN {Closed} ELSE {})

(* is_available                                                              *)
AskRedis(c) ==
  /\ redisConfigured
  /\ callPc[c] = "read"
  /\ call[c].op = "check"
  /\ \E s \in Readable(call[c].name) :
       answer' = [answer EXCEPT ![c] = (s.openFor = 0)]
  /\ callPc' = [callPc EXCEPT ![c] = "idle"]
  /\ UNCHANGED <<recordVars, call, copy, failed>>

(* record_success and record_failure, up to the write.                       *)
ReadRedis(c) ==
  /\ redisConfigured
  /\ callPc[c] = "read"
  /\ call[c].op # "check"
  /\ \E s \in Readable(call[c].name) :
       copy' = [copy EXCEPT ![c] = After(call[c].op, s)]
  /\ Count(c)
  /\ callPc' = [callPc EXCEPT ![c] = "write"]
  /\ UNCHANGED <<recordVars, call, answer>>

(* Mutant: SET ... KEEPTTL, the expiry is set with the first write only.     *)
WriteRedisKeepTtl(c) ==
  /\ callPc[c] = "write"
  /\ \/ /\ redis' = [redis EXCEPT ![call[c].name] = copy[c]]
        /\ ttl' = [ttl EXCEPT ![call[c].name] = IF @ = 0 THEN Ttl ELSE @]
     \/ RedisMayFail /\ UNCHANGED <<redis, ttl>>
  /\ callPc' = [callPc EXCEPT ![c] = "idle"]
  /\ copy' = [copy EXCEPT ![c] = Closed]
  /\ UNCHANGED <<redisConfigured, local, call, answer, failed>>

(* _write_state: SETEX, or nothing when the command raises.                  *)
WriteRedis(c) ==
  /\ callPc[c] = "write"
  /\ \/ /\ redis' = [redis EXCEPT ![call[c].name] = copy[c]]
        /\ ttl' = [ttl EXCEPT ![call[c].name] = Ttl]
     \/ RedisMayFail /\ UNCHANGED <<redis, ttl>>
  /\ callPc' = [callPc EXCEPT ![c] = "idle"]
  /\ copy' = [copy EXCEPT ![c] = Closed]
  /\ UNCHANGED <<redisConfigured, local, call, answer, failed>>

(* The same three methods on self._local.                                    *)
AskLocal(c) ==
  /\ ~redisConfigured
  /\ callPc[c] = "read"
  /\ call[c].op = "check"
  /\ answer' = [answer EXCEPT ![c] = (local[call[c].name].openFor = 0)]
  /\ callPc' = [callPc EXCEPT ![c] = "idle"]
  /\ UNCHANGED <<recordVars, call, copy, failed>>

UpdateLocal(c) ==
  /\ ~redisConfigured
  /\ callPc[c] = "read"
  /\ call[c].op # "check"
  /\ local' = [local EXCEPT ![call[c].name] = After(call[c].op, @)]
  /\ Count(c)
  /\ callPc' = [callPc EXCEPT ![c] = "idle"]
  /\ UNCHANGED <<redisConfigured, redis, ttl, call, copy, answer>>

Proceed(c) ==
  AskRedis(c) \/ ReadRedis(c) \/ WriteRedis(c) \/ AskLocal(c) \/ UpdateLocal(c)

OneLess(k) == IF k = 0 THEN 0 ELSE k - 1

Aged(s) == [s EXCEPT !.openFor = OneLess(@)]

(* Time passes for the circuits, the copies and the keys; a key that expires
   is gone.                                                                  *)
Tick ==
  /\ ttl' = [n \in Names |-> OneLess(ttl[n])]
  /\ redis' = [n \in Names |-> IF ttl'[n] = 0 THEN Closed ELSE Aged(redis[n])]
  /\ local' = [n \in Names |-> Aged(local[n])]
  /\ copy' = [c \in Callers |-> Aged(copy[c])]
  /\ UNCHANGED <<redisConfigured, callPc, call, answer, failed>>

CallAny(c) == \E op \in Op, n \in MayCall[c] : Call(c, op, n)

BreakerNext == Tick \/ \E c \in Callers : CallAny(c) \/ Proceed(c)

BreakerSpec == BreakerInit /\ [][BreakerNext]_breakerVars

-----------------------------------------------------------------------------

(* Losing updates and expiring keys only ever hides failures: however the
   calls interleave and whichever commands fail, a circuit that is open, or
   about to be written as open, has seen Threshold failures.                 *)
OpensOnlyAfterFailures ==
  \A n \in Names :
    \/ failed[n] = Threshold
    \/ /\ redis[n].openFor = 0 /\ local[n].openFor = 0
       /\ \A c \in Callers : call[c].name = n => copy[c].openFor = 0

(* Time only ever closes a circuit that is due: the key of an open circuit
   outlives it, also when an update that read it long ago is written.        *)
ExpiryClosesNoCircuit ==
  [][Tick => \A n \in Names : redis[n].openFor > 1 => redis'[n].openFor > 0]_breakerVars

Atomic == INSTANCE AtomicBreaker WITH
  failures <- [n \in Names |-> local[n].failures],
  openFor <- [n \in Names |-> local[n].openFor]

(* In memory the breaker is an atomic one, whoever shares a circuit: no update
   is lost, and a success never closes an open circuit.  In Redis, where an
   update yields between its read and its write, it is not.                  *)
ImplementsAtomicBreaker == Atomic!Spec

-----------------------------------------------------------------------------
(* What the module's docstring says and the code does not keep.              *)

(* circuit_breaker.py:3, "State is stored in Redis so it's shared across all
   Uvicorn workers": a failure that is written is counted on top of those
   written before.                                                           *)
SharedFailuresAddUp ==
  [][\A c \in Callers :
       (callPc[c] = "write" /\ callPc'[c] = "idle" /\ call[c].op = "failure") =>
         \/ redis'[call[c].name].failures > redis[call[c].name].failures
         \/ redis'[call[c].name].failures = Threshold]_breakerVars
=============================================================================
