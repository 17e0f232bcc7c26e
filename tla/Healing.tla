------------------------------- MODULE Healing -------------------------------
(***************************************************************************)
(* SelfHealer of backend/app/healing/healer.py with the strategies of      *)
(* strategies.py and the classes of detector.py, on top of the circuit     *)
(* breaker it shares with the other sessions and with the agents.  The     *)
(* step runner opens a session when a step has used up its retries.        *)
(*                                                                         *)
(* A session charges the circuit, asks it, classifies the error, tries the *)
(* strategies of its class in order and credits the circuit when one       *)
(* works; every call of the breaker and every strategy is an await.  When  *)
(* 120 seconds are over, wait_for cancels the session, once, and waits for *)
(* it to end: an agent that retries whatever exception it gets swallows    *)
(* the cancellation, and the session goes on.  The step runner passes no   *)
(* agent_type, so that the circuit is the step's name.                     *)
(* The agents ask and credit the circuits of their own names, which only a *)
(* step of the same name charges: their calls are left out.                *)
(*                                                                         *)
(* What a strategy returns is the environment's choice, within what it may *)
(* return.  An exception counts as a failure, in the loop and in the step  *)
(* runner alike.                                                           *)
(***************************************************************************)
EXTENDS AgentBreaker, Sequences

CONSTANT StepOf   \* the name of the step that each caller, a session, heals

ASSUME HealingAssumption ==
  /\ IsFiniteSet(Callers)
  /\ StepOf \in [Callers -> Names]
  /\ \A s \in Callers : StepOf[s] \in MayCall[s]

VARIABLES
  healPc,     \* what each session waits for
  todo,       \* the strategies it has left, from the one it is trying
  overdue,    \* whether it has swallowed its cancellation
  uncredited  \* history: per circuit, the sessions that ended without crediting
              \* it since it was last credited, up to Threshold

sessionVars == <<healPc, todo, overdue, uncredited>>
healingVars == <<breakerVars, sessionVars>>

HealPc == {"idle", "charge", "ask", "try", "fallback", "credit"}
Strategy == {"retry", "repair", "fallback", "skip", "escalate"}

(* The values of _STRATEGY_ORDER.                                            *)
StrategyOrders ==
  { <<"retry", "fallback", "skip", "escalate">>,     \* network, timeout
    <<"skip", "repair", "fallback", "escalate">>,    \* data_quality
    <<"repair", "retry", "skip", "escalate">>,       \* schema_mismatch, unknown
    <<"retry", "repair", "fallback", "escalate">> }  \* llm_error

(* The classes that are not recoverable (authentication, memory) go straight to
   escalation.                                                               *)
Classes == StrategyOrders \cup {<<"escalate">>}

HealingTypeOK ==
  /\ BreakerTypeOK
  /\ healPc \in [Callers -> HealPc]
  /\ todo \in [Callers -> Seq(Strategy)]
  /\ overdue \in [Callers -> BOOLEAN]
  /\ uncredited \in [Names -> 0 .. Threshold]

HealingInit ==
  /\ BreakerInit
  /\ healPc = [s \in Callers |-> "idle"]
  /\ todo = [s \in Callers |-> <<>>]
  /\ overdue = [s \in Callers |-> FALSE]
  /\ uncredited = [n \in Names |-> 0]

MayWork(strategy) == strategy # "escalate"
MayFail(strategy) == strategy # "skip"

(* The strategies that wait for something: retry and repair run an agent, and a
   fallback looks its checkpoint up.                                         *)
RunsAgent(strategy) == strategy \in {"retry", "repair"}
Waits(strategy) == RunsAgent(strategy) \/ strategy = "fallback"

-----------------------------------------------------------------------------

(* A step has failed for good: record_failure is called first.               *)
AttemptHeal(s) ==
  /\ healPc[s] = "idle"
  /\ Call(s, "failure", StepOf[s])
  /\ healPc' = [healPc EXCEPT ![s] = "charge"]
  /\ UNCHANGED <<todo, overdue, uncredited>>

AskCircuit(s) ==
  /\ healPc[s] = "charge"
  /\ Call(s, "check", StepOf[s])
  /\ healPc' = [healPc EXCEPT ![s] = "ask"]
  /\ UNCHANGED <<todo, overdue, uncredited>>

(* With an open circuit only the fallback is tried, outside the loop.        *)
Classify(s) ==
  /\ healPc[s] = "ask"
  /\ callPc[s] = "idle"
  /\ IF answer[s]
       THEN /\ \E order \in Classes : todo' = [todo EXCEPT ![s] = order]
            /\ healPc' = [healPc EXCEPT ![s] = "try"]
       ELSE /\ todo' = [todo EXCEPT ![s] = <<"fallback">>]
            /\ healPc' = [healPc EXCEPT ![s] = "fallback"]
  /\ UNCHANGED <<breakerVars, overdue, uncredited>>

(* The session returns; what the step runner does with a healed step and with
   one that is not is in StepRunner.                                         *)
EndSession(s) ==
  /\ healPc' = [healPc EXCEPT ![s] = "idle"]
  /\ todo' = [todo EXCEPT ![s] = <<>>]
  /\ overdue' = [overdue EXCEPT ![s] = FALSE]

Uncredited(s) == uncredited' = [uncredited EXCEPT ![StepOf[s]] = OneMore(@)]

(* Mutant: a healed step is not credited.                                    *)
StrategyWorksUncredited(s) ==
  /\ healPc[s] = "try"
  /\ MayWork(Head(todo[s]))
  /\ EndSession(s)
  /\ UNCHANGED <<breakerVars, uncredited>>

(* A strategy works, and the circuit is credited.                            *)
StrategyWorks(s) ==
  /\ healPc[s] = "try"
  /\ MayWork(Head(todo[s]))
  /\ Call(s, "success", StepOf[s])
  /\ healPc' = [healPc EXCEPT ![s] = "credit"]
  /\ UNCHANGED <<todo, overdue, uncredited>>

(* A strategy fails or raises: the next one, or none is left.                *)
StrategyFails(s) ==
  /\ healPc[s] = "try"
  /\ MayFail(Head(todo[s]))
  /\ IF Tail(todo[s]) # <<>>
       THEN /\ todo' = [todo EXCEPT ![s] = Tail(@)]
            /\ UNCHANGED <<healPc, overdue, uncredited>>
       ELSE EndSession(s) /\ Uncredited(s)
  /\ UNCHANGED breakerVars

(* The fallback of an open circuit: whether it works or not, the circuit is not
   credited.                                                                 *)
FallBack(s) ==
  /\ healPc[s] = "fallback"
  /\ EndSession(s) /\ Uncredited(s)
  /\ UNCHANGED breakerVars

Credited(s) ==
  /\ healPc[s] = "credit"
  /\ callPc[s] = "idle"
  /\ EndSession(s)
  /\ UNCHANGED <<breakerVars, uncredited>>

(* The wait_for cancels the session where it waits, and the session ends there:
   in a strategy, or in a Redis command, whose call ends as well.  A call on the
   local state does not wait.                                                *)
TimeOut(s) ==
  /\ healPc[s] # "idle"
  /\ ~overdue[s]
  /\ IF callPc[s] # "idle"
       THEN redisConfigured
       ELSE healPc[s] = "fallback" \/ (healPc[s] = "try" /\ Waits(Head(todo[s])))
  /\ callPc' = [callPc EXCEPT ![s] = "idle"]
  /\ copy' = [copy EXCEPT ![s] = Closed]
  /\ EndSession(s) /\ Uncredited(s)
  /\ UNCHANGED <<recordVars, call, answer, failed>>

(* The cancellation reaches the session in an agent: the retries around the call
   of the LLM take it for a failed attempt and make the next one.  There is no
   second cancellation.                                                      *)
Outlive(s) ==
  /\ healPc[s] = "try"
  /\ RunsAgent(Head(todo[s]))
  /\ ~overdue[s]
  /\ overdue' = [overdue EXCEPT ![s] = TRUE]
  /\ UNCHANGED <<breakerVars, healPc, todo, uncredited>>

Session(s) ==
  AttemptHeal(s) \/ AskCircuit(s) \/ Classify(s) \/ StrategyWorks(s)
    \/ StrategyFails(s) \/ FallBack(s) \/ Credited(s) \/ TimeOut(s) \/ Outlive(s)

(* The next step of a call of the breaker.                                   *)
BreakerStep(c) ==
  /\ Proceed(c)
  /\ uncredited' = IF call[c].op = "success" /\ callPc'[c] = "idle"
                     THEN [uncredited EXCEPT ![call[c].name] = 0]
                     ELSE uncredited
  /\ UNCHANGED <<healPc, todo, overdue>>

HealingNext ==
  \/ \E s \in Callers : Session(s) \/ BreakerStep(s)
  \/ Tick /\ UNCHANGED sessionVars

(* Time passes and the timer of wait_for fires; an agent or a lookup answers in
   the end, an agent because its LLM clients have timeouts; code that does not
   wait runs on.  A Redis command need not answer: the client has no timeout. *)
HealingFairness ==
  /\ WF_healingVars(Tick /\ UNCHANGED sessionVars)
  /\ \A s \in Callers :
       /\ WF_healingVars(TimeOut(s) \/ Outlive(s))
       /\ WF_healingVars(StrategyWorks(s) \/ StrategyFails(s))
       /\ WF_healingVars(AskCircuit(s) \/ Classify(s) \/ FallBack(s) \/ Credited(s))
       /\ WF_healingVars(~redisConfigured /\ BreakerStep(s))

HealingSpec == HealingInit /\ [][HealingNext]_healingVars /\ HealingFairness

-----------------------------------------------------------------------------

(* In memory, the circuit of a step counts no more failures than the sessions
   that are under way or ended uncredited since it was last credited: a step
   whose failures are all healed opens its circuit only if that many of its
   sessions overlap.  (In Redis a credit can be lost to an older failure.)   *)
HealedStepsStayClosed ==
  ~redisConfigured =>
    \A n \in Names :
      local[n].failures <=
        uncredited[n] + Cardinality({s \in Callers : StepOf[s] = n /\ healPc[s] # "idle"})

(* healer.py:11: "Maximum time for the entire healing session (prevents infinite
   healing)".                                                                *)
HealingReturns == \A s \in Callers : healPc[s] # "idle" ~> healPc[s] = "idle"
=============================================================================
