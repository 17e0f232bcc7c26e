------------------------------ MODULE LlmRouter ------------------------------
(***************************************************************************)
(* LLMRouter of backend/app/llm/router.py, the one object every agent asks *)
(* for a chat completion: the chain of providers, a circuit breaker per    *)
(* provider, and the model of the Ollama provider, all shared by the       *)
(* calls; and the retries an agent makes (_resilient_llm_call in           *)
(* backend/app/agents/base.py).                                            *)
(*                                                                         *)
(* A call yields while it asks the predictive memory, while a provider     *)
(* answers and while it backs off; from one of these to the next is one    *)
(* action.  No caller passes a tracker, so that reporting does not yield.  *)
(*                                                                         *)
(* Time is discrete: an error is held as its age.  Only the latest         *)
(* Threshold errors within the window are held, because the code asks no   *)
(* more than whether there are that many.                                  *)
(***************************************************************************)
EXTENDS Subsequences, FiniteSetsExt

CONSTANTS
  Calls,        \* the callers of the router, each with an agent
  Providers,    \* their names, with "ollama"
  Chain,        \* _build_provider_chain of each caller's agent
  Configured,   \* the providers whose is_available() is true
  Models,       \* the local models
  ModelOf,      \* _AGENT_MODEL_MAP.get, "none" for an agent it does not name
  Attempts,     \* stop_after_attempt for an agent, 1 for one that calls chat itself
  Threshold,    \* _CB_ERROR_THRESHOLD
  Window,       \* _CB_WINDOW_SECONDS, in ticks
  Cooldown      \* _CB_COOLDOWN_SECONDS, in ticks

ASSUME RouterAssumption ==
  /\ "ollama" \in Providers /\ "none" \notin Models
  /\ Chain \in [Calls -> Seq(Providers)]
  /\ Configured \subseteq Providers
  /\ ModelOf \in [Calls -> Models \cup {"none"}]
  /\ Attempts \in [Calls -> Nat \ {0}]
  /\ {Threshold, Window, Cooldown} \subseteq Nat \ {0}

VARIABLES
  errors,   \* the ages of each breaker's latest errors, oldest first
  openFor,  \* the ticks until each breaker closes, 0 when closed
  model,    \* the Ollama provider's _model
  callPc,   \* where each call is suspended
  chain,    \* the providers left to it, from the one it waits for
  asked,    \* the model in its latest request to Ollama
  attempt,  \* its attempt
  failed,   \* history: the providers that failed it in this attempt
  passed    \* history: those it passed over, with an open circuit or on a prediction

breakerVars == <<errors, openFor>>
callVars == <<callPc, chain, asked, attempt, failed, passed>>
routerVars == <<breakerVars, model, callVars>>

CallPc == {"idle", "predict", "wait", "backoff", "answered", "raised"}

RouterTypeOK ==
  /\ \A p \in Providers :
       errors[p] \in Seq(0 .. Window) /\ Len(errors[p]) <= Threshold
  /\ openFor \in [Providers -> 0 .. Cooldown]
  /\ model \in Models
  /\ callPc \in [Calls -> CallPc]
  /\ chain \in [Calls -> Seq(Providers)]
  /\ asked \in [Calls -> Models \cup {"none"}]
  /\ \A c \in Calls : attempt[c] \in 0 .. Attempts[c]
  /\ failed \in [Calls -> SUBSET Providers]
  /\ passed \in [Calls -> SUBSET Providers]

(* The router is made on first use, with the model of the settings.          *)
RouterInit ==
  /\ errors = [p \in Providers |-> <<>>]
  /\ openFor = [p \in Providers |-> 0]
  /\ model \in Models
  /\ callPc = [c \in Calls |-> "idle"]
  /\ chain = [c \in Calls |-> <<>>]
  /\ asked = [c \in Calls |-> "none"]
  /\ attempt = [c \in Calls |-> 0]
  /\ failed = [c \in Calls |-> {}]
  /\ passed = [c \in Calls |-> {}]

-----------------------------------------------------------------------------

(* Mutant: a provider with an open circuit is asked all the same.            *)
UsableUnlessMissing(p, open) == p \in Configured

Usable(p, open) == p \in Configured /\ open[p] = 0

(* Mutant: the first provider that cannot be used ends the loop.             *)
FromHead(ps, open) == IF ps # <<>> /\ Usable(Head(ps), open) THEN ps ELSE <<>>

(* What is left of a chain from its first usable provider on.                *)
FromUsable(ps, open) ==
  LET usable == {k \in 1 .. Len(ps) : Usable(ps[k], open)}
  IN  IF usable = {} THEN <<>> ELSE SubSeq(ps, Min(usable), Len(ps))

Elements(ps) == {ps[k] : k \in 1 .. Len(ps)}

(* The loop over the providers ps up to the next request, which takes the model
   along when it goes to Ollama, or to the end of the attempt, which tenacity
   repeats after a pause.  over: the providers passed over before.           *)
GoOn(c, ps, over) ==
  LET rest == FromUsable(ps, openFor') IN
  /\ chain' = [chain EXCEPT ![c] = rest]
  /\ callPc' = [callPc EXCEPT ![c] =
                  IF rest # <<>> THEN "wait"
                  ELSE IF attempt'[c] < Attempts[c] THEN "backoff" ELSE "raised"]
  /\ asked' = IF rest # <<>> /\ Head(rest) = "ollama"
              THEN [asked EXCEPT ![c] = model'] ELSE asked
  /\ passed' = [passed EXCEPT ![c] =
                  over \cup {p \in Elements(ps) \ Elements(rest) : openFor'[p] > 0}]

(* chat is called, by an agent or for its next attempt.  The model of the agent
   is set on the shared provider and its history is asked for; an agent without
   one goes on to the providers.                                             *)
Chat(c) ==
  /\ callPc[c] \notin {"predict", "wait"}
  /\ UNCHANGED breakerVars
  /\ attempt' = [attempt EXCEPT ![c] = IF callPc[c] = "backoff" THEN @ + 1 ELSE 1]
  /\ failed' = [failed EXCEPT ![c] = {}]
  /\ \/ /\ ModelOf[c] # "none"
        /\ model' = ModelOf[c]
        /\ callPc' = [callPc EXCEPT ![c] = "predict"]
        /\ chain' = [chain EXCEPT ![c] = Chain[c]]
        /\ passed' = [passed EXCEPT ![c] = {}]
        /\ UNCHANGED asked
     \/ /\ ModelOf[c] = "none"
        /\ UNCHANGED model
        /\ GoOn(c, Chain[c], {})

WithoutOllama(ps) == Keep(ps, Providers \ {"ollama"})

(* should_preempt_fallback answers or raises; if it says so Ollama is left out. *)
Predicted(c) ==
  /\ callPc[c] = "predict"
  /\ UNCHANGED <<breakerVars, model, attempt, failed>>
  /\ \/ GoOn(c, chain[c], {})
     \/ GoOn(c, WithoutOllama(chain[c]), {"ollama"} \cap Elements(chain[c]))

(* The provider answers, and its breaker is reset.                           *)
Answered(c) ==
  /\ callPc[c] = "wait"
  /\ errors' = [errors EXCEPT ![Head(chain[c])] = <<>>]
  /\ openFor' = [openFor EXCEPT ![Head(chain[c])] = 0]
  /\ callPc' = [callPc EXCEPT ![c] = "answered"]
  /\ UNCHANGED <<model, chain, asked, attempt, failed, passed>>

Latest(es) == SubSeq(es, Max({1, Len(es) - Threshold + 1}), Len(es))

(* record_error of p's breaker.                                              *)
RecordError(p) ==
  /\ errors' = [errors EXCEPT ![p] = Latest(Append(@, 0))]
  /\ openFor' = [openFor EXCEPT ![p] = IF Len(errors'[p]) = Threshold THEN Cooldown ELSE @]

(* Mutant: the provider that failed is tried again.                          *)
FailedAsksAgain(c) ==
  /\ callPc[c] = "wait"
  /\ RecordError(Head(chain[c]))
  /\ failed' = [failed EXCEPT ![c] = @ \cup {Head(chain[c])}]
  /\ UNCHANGED <<model, attempt>>
  /\ GoOn(c, chain[c], passed[c])

(* The provider fails or times out, and the call goes on to the next one.    *)
Failed(c) ==
  /\ callPc[c] = "wait"
  /\ RecordError(Head(chain[c]))
  /\ failed' = [failed EXCEPT ![c] = @ \cup {Head(chain[c])}]
  /\ UNCHANGED <<model, attempt>>
  /\ GoOn(c, Tail(chain[c]), passed[c])

(* A tick passes, and the errors that leave the window no longer count.      *)
Tick ==
  /\ errors' = [p \in Providers |->
                  LET older == [i \in 1 .. Len(errors[p]) |-> errors[p][i] + 1]
                  IN  Keep(older, 0 .. Window)]
  /\ openFor' = [p \in Providers |-> IF openFor[p] > 0 THEN openFor[p] - 1 ELSE 0]
  /\ UNCHANGED <<model, callVars>>

RouterNext ==
  \/ \E c \in Calls : Chat(c) \/ Predicted(c) \/ Answered(c) \/ Failed(c)
  \/ Tick

(* Every await of a call ends: each HTTP client has a timeout, the predictive
   memory answers or raises, and tenacity's pause is finite.  Time passes.  No
   caller has to call again.                                                 *)
RouterFairness ==
  /\ \A c \in Calls :
       /\ WF_routerVars(Predicted(c))
       /\ WF_routerVars(Answered(c) \/ Failed(c))
       /\ WF_routerVars(callPc[c] = "backoff" /\ Chat(c))
  /\ WF_routerVars(Tick)

RouterSpec == RouterInit /\ [][RouterNext]_routerVars /\ RouterFairness

-----------------------------------------------------------------------------

(* A call has tried every configured provider before the one it waits for, and
   before it gives up every one of its chain, except those it may leave out: the
   ones whose circuit was open when their turn came, and Ollama when the memory
   predicts that it will fail.                                               *)
FallbackIsInOrder ==
  \A c \in Calls : callPc[c] \in {"wait", "backoff", "raised"} =>
    (Elements(Chain[c]) \cap Configured) \ Elements(chain[c]) \subseteq failed[c] \cup passed[c]

(* A call that is under way ends, with an answer or with an error, whatever the
   other calls and the providers do.                                         *)
ChatReturns ==
  \A c \in Calls :
    callPc[c] \in {"predict", "wait", "backoff"} ~> callPc[c] \in {"answered", "raised"}

(* No provider is shut out for good: its circuit closes again and again, even if
   it fails every call and calls keep coming, because those that come while the
   circuit is open leave it alone.                                           *)
CircuitRecloses == \A p \in Providers : []<>(openFor[p] = 0)

(* A request to Ollama names the model of its agent ("Override model for this
   request", OllamaProvider.set_model).  It does not hold: the provider is
   shared, and another call may set its model while this one awaits the
   prediction.                                                               *)
RequestUsesItsModel ==
  \A c \in Calls :
    callPc[c] = "wait" /\ Head(chain[c]) = "ollama" /\ ModelOf[c] # "none" => asked[c] = ModelOf[c]
=============================================================================
