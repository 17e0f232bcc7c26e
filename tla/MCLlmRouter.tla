----------------------------- MODULE MCLlmRouter -----------------------------
(***************************************************************************)
(* A classifier and an extractor, each with its local model, and a worker  *)
(* of a swarm, which asks the router itself and has no model of its own.   *)
(* Ollama and Groq are configured; there is no Anthropic key.              *)
(***************************************************************************)
EXTENDS LlmRouter

MCChain ==
  [c \in Calls |-> IF c = "classifier" THEN <<"ollama", "haiku", "groq", "claude", "mock">>
                                       ELSE <<"ollama", "groq", "claude", "mock">>]
MCModelOf == [c \in Calls |-> CASE c = "classifier" -> "gemma"
                                [] c = "extractor" -> "qwen"
                                [] OTHER -> "none"]
MCAttempts == [c \in Calls |-> IF c = "swarm" THEN 1 ELSE 2]
=============================================================================
