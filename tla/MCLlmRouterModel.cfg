CONSTANTS
  Calls = {"classifier", "extractor"}
  Providers = {"ollama", "haiku", "groq", "claude", "mock"}
  Configured = {"ollama", "groq"}
  Models = {"gemma", "qwen"}
  Chain <- MCChain
  ModelOf <- MCModelOf
  Attempts <- MCAttempts
  Threshold = 2
  Window = 2
  Cooldown = 1
SPECIFICATION RouterSpec
INVARIANT RequestUsesItsModel
