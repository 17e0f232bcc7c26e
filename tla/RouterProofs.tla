----------------------------- MODULE RouterProofs -----------------------------
(***************************************************************************)
(* Proofs about LlmRouter for any number of concurrent callers and of      *)
(* providers, chains of any length and order, and any limits of the        *)
(* circuit breakers.                                                       *)
(***************************************************************************)
EXTENDS LlmRouter, SequenceFacts

(* What FallbackIsInOrder says of one call.                                  *)
NothingSkipped(c) ==
  (Elements(Chain[c]) \cap Configured) \ Elements(chain[c]) \subseteq failed[c] \cup passed[c]

(* The calls keep out of each other's way: what is known of one is a matter of its
   own variables.  A call asks the memory with its whole chain before it; a call
   that pauses has an attempt left.                                          *)
CallOrder(c) ==
  /\ callPc[c] = "predict" => chain[c] = Chain[c]
  /\ callPc[c] = "wait" => chain[c] # <<>>
  /\ callPc[c] = "backoff" => attempt[c] < Attempts[c]
  /\ callPc[c] \in {"wait", "backoff", "raised"} => NothingSkipped(c)

RouterTypes ==
  /\ RouterTypeOK
  /\ errors \in [Providers -> Seq(0 .. Window)]
  /\ attempt \in [Calls -> Nat]

RouterInv == RouterTypes /\ \A c \in Calls : CallOrder(c)

-----------------------------------------------------------------------------

(* The loop over the providers leaves out only those it cannot use.          *)
LEMMA FromUsableFacts ==
  ASSUME NEW ps \in Seq(Providers), NEW open
  PROVE  /\ FromUsable(ps, open) \in Seq(Providers)
         /\ \A p \in Elements(ps) \ Elements(FromUsable(ps, open)) : ~Usable(p, open)
<1> DEFINE usable == {k \in 1 .. Len(ps) : Usable(ps[k], open)}
<1>1. Len(ps) \in Nat /\ \A k \in 1 .. Len(ps) : ps[k] \in Providers
  BY ElementOfSeq
<1>2. CASE usable = {}
  <2>1. FromUsable(ps, open) = <<>>
    BY <1>2 DEF FromUsable
  <2>2. \A k \in 1 .. Len(ps) : ~Usable(ps[k], open)
    BY <1>2
  <2> QED BY <2>1, <2>2 DEF Elements
<1>3. CASE usable # {}
  <2> DEFINE m == Min(usable)
             rest == SubSeq(ps, m, Len(ps))
  <2>1. FromUsable(ps, open) = rest
    BY <1>3 DEF FromUsable
  <2>2. m \in usable /\ \A k \in usable : m <= k
    <3>1. usable \subseteq Nat
      OBVIOUS
    <3> HIDE DEF usable
    <3>2. \E x \in usable : \A y \in usable : x <= y
      BY <1>3, <3>1, Least
    <3> QED BY <3>2 DEF Min
  <2>3. m \in 1 .. Len(ps) /\ \A k \in 1 .. Len(ps) : k < m => ~Usable(ps[k], open)
    <3>1. m \in 1 .. Len(ps)
      BY <2>2
    <3>2. \A k \in 1 .. Len(ps) : Usable(ps[k], open) => k \in usable
      OBVIOUS
    <3> HIDE DEF usable, m
    <3>3. \A k \in usable : ~ (k < m)
      <4>1. usable \subseteq Nat
        BY DEF usable
      <4> QED BY <1>1, <2>2, <3>1, <4>1
    <3> QED BY <3>1, <3>2, <3>3
  <2> HIDE DEF m
  <2>4. /\ rest \in Seq(Providers) /\ Len(rest) = Len(ps) - m + 1
        /\ \A i \in 1 .. Len(ps) - m + 1 : rest[i] = ps[m + i - 1]
    BY <1>1, <2>3, SubSeqProperties
  <2>5. ASSUME NEW k \in 1 .. Len(ps), ps[k] \notin Elements(rest)
        PROVE  ~Usable(ps[k], open)
    <3>1. CASE k < m
      BY <2>3, <3>1
    <3>2. CASE ~ (k < m)
      <4>1. k - m + 1 \in 1 .. Len(ps) - m + 1 /\ m + (k - m + 1) - 1 = k
        BY <1>1, <2>3, <3>2
      <4>2. rest[k - m + 1] = ps[k] /\ k - m + 1 \in 1 .. Len(rest)
        BY <2>4, <4>1
      <4>3. ps[k] \in Elements(rest)
        BY <4>2 DEF Elements
      <4> QED BY <2>5, <4>3
    <3> QED BY <3>1, <3>2
  <2> QED BY <2>1, <2>4, <2>5 DEF Elements
<1> QED
  BY <1>2, <1>3

(* A chain without its head, and without Ollama.                             *)
LEMMA ChainFacts ==
  ASSUME NEW ps \in Seq(Providers)
  PROVE  /\ ps # <<>> => /\ Head(ps) \in Providers /\ Tail(ps) \in Seq(Providers)
                         /\ Elements(ps) = {Head(ps)} \cup Elements(Tail(ps))
         /\ WithoutOllama(ps) \in Seq(Providers)
         /\ Elements(ps) \ Elements(WithoutOllama(ps)) \subseteq {"ollama"} \cap Elements(ps)
<1>1. ASSUME ps # <<>>
      PROVE  /\ Head(ps) \in Providers /\ Tail(ps) \in Seq(Providers)
             /\ Elements(ps) = {Head(ps)} \cup Elements(Tail(ps))
  <2>1. /\ Head(ps) \in Providers /\ Head(ps) = ps[1] /\ Tail(ps) \in Seq(Providers)
        /\ Len(Tail(ps)) = Len(ps) - 1 /\ Len(ps) \in Nat /\ Len(ps) >= 1
        /\ \A i \in 1 .. Len(ps) - 1 : Tail(ps)[i] = ps[i + 1]
    BY <1>1, HeadTailProperties
  <2>2. \A k \in 1 .. Len(ps) : k = 1 \/ (k - 1 \in 1 .. Len(ps) - 1 /\ k - 1 + 1 = k)
    BY <2>1
  <2>3. \A k \in 1 .. Len(ps) : ps[k] = Head(ps) \/ ps[k] \in Elements(Tail(ps))
    BY <2>1, <2>2 DEF Elements
  <2>4. Elements(Tail(ps)) \subseteq Elements(ps)
    <3>1. \A i \in 1 .. Len(ps) - 1 : i + 1 \in 1 .. Len(ps)
      BY <2>1
    <3> QED BY <2>1, <3>1 DEF Elements
  <2>5. Head(ps) \in Elements(ps)
    BY <2>1 DEF Elements
  <2> QED BY <2>1, <2>3, <2>4, <2>5 DEF Elements
<1>2. /\ WithoutOllama(ps) \in Seq(Providers)
      /\ Range(WithoutOllama(ps)) = Range(ps) \cap (Providers \ {"ollama"})
  BY KeepFacts DEF WithoutOllama
<1>3. \A s \in Seq(Providers) : Elements(s) = Range(s) /\ Range(s) \subseteq Providers
  BY DEF Elements, Range
<1> QED
  BY <1>1, <1>2, <1>3

(* The errors of a breaker: the latest, at most Threshold of them.           *)
LEMMA LatestFacts ==
  ASSUME NEW es \in Seq(0 .. Window)
  PROVE  Latest(es) \in Seq(0 .. Window) /\ Len(Latest(es)) <= Threshold
<1> DEFINE n == Len(es)
           k == n - Threshold + 1
           m == Max({1, k})
<1>1. n \in Nat /\ Threshold \in Nat \ {0} /\ k \in Int
  BY RouterAssumption
<1>2. m \in {1, k} /\ m >= 1 /\ m >= k
  <2> HIDE DEF k
  <2>1. \E x \in {1, k} : \A y \in {1, k} : x >= y
    <3>1. CASE k <= 1
      BY <1>1, <3>1
    <3>2. CASE ~ (k <= 1)
      BY <1>1, <3>2
    <3> QED BY <3>1, <3>2
  <2> QED BY <2>1 DEF Max
<1>3. m \in Int /\ n - m + 1 <= Threshold
  BY <1>1, <1>2
<1>4. \A i \in m .. n : es[i] \in 0 .. Window
  <2> HIDE DEF m
  <2>1. \A i \in m .. n : i \in 1 .. n
    BY <1>1, <1>2, <1>3
  <2> QED BY <2>1, ElementOfSeq
<1> HIDE DEF m
<1>5. SubSeq(es, m, n) \in Seq(0 .. Window) /\ Len(SubSeq(es, m, n)) = IF m <= n THEN n - m + 1 ELSE 0
  BY <1>1, <1>3, <1>4, SubSeqProperties
<1>6. Len(SubSeq(es, m, n)) <= Threshold
  BY <1>1, <1>3, <1>5
<1>7. Latest(es) = SubSeq(es, m, n)
  BY DEF Latest, m
<1> QED
  BY <1>5, <1>6, <1>7


-----------------------------------------------------------------------------

(* The loop goes on to a provider it can use, pauses while an attempt is left or
   gives up; it skips no provider that was not tried or passed over, and leaves
   the other calls alone.                                                    *)
LEMMA LoopGoesOn ==
  ASSUME RouterTypes, NEW c \in Calls, NEW ps \in Seq(Providers), NEW over \in SUBSET Providers,
         GoOn(c, ps, over),
         openFor' \in [Providers -> 0 .. Cooldown], model' \in Models,
         (Elements(Chain[c]) \cap Configured) \ Elements(ps) \subseteq failed'[c] \cup over
  PROVE  /\ chain' \in [Calls -> Seq(Providers)] /\ callPc' \in [Calls -> CallPc]
         /\ asked' \in [Calls -> Models \cup {"none"}] /\ passed' \in [Calls -> SUBSET Providers]
         /\ CallOrder(c)'
         /\ \A d \in Calls \ {c} :
              chain'[d] = chain[d] /\ callPc'[d] = callPc[d] /\ passed'[d] = passed[d]
<1> DEFINE rest == FromUsable(ps, openFor')
           open == {p \in Elements(ps) \ Elements(rest) : openFor'[p] > 0}
<1>1. rest \in Seq(Providers) /\ \A p \in Elements(ps) \ Elements(rest) : ~Usable(p, openFor')
  BY FromUsableFacts
<1>2. Elements(ps) \subseteq Providers
  BY ElementOfSeq DEF Elements
<1>3. /\ chain' = [chain EXCEPT ![c] = rest]
      /\ callPc' = [callPc EXCEPT ![c] =
                      IF rest # <<>> THEN "wait"
                      ELSE IF attempt'[c] < Attempts[c] THEN "backoff" ELSE "raised"]
      /\ asked' = IF rest # <<>> /\ Head(rest) = "ollama"
                  THEN [asked EXCEPT ![c] = model'] ELSE asked
      /\ passed' = [passed EXCEPT ![c] = over \cup open]
  BY DEF GoOn
<1>4. \A p \in (Elements(ps) \ Elements(rest)) \cap Configured : p \in open
  <2>1. \A p \in Providers : openFor'[p] \in 0 .. Cooldown /\ Cooldown \in Nat
    BY RouterAssumption
  <2>2. \A p \in Providers : openFor'[p] = 0 \/ openFor'[p] > 0
    BY <2>1
  <2> QED BY <1>1, <1>2, <2>2 DEF Usable
<1>5. open \subseteq Providers
  BY <1>2
<1> HIDE DEF rest, open
<1>6. /\ chain \in [Calls -> Seq(Providers)] /\ callPc \in [Calls -> CallPc]
      /\ asked \in [Calls -> Models \cup {"none"}] /\ passed \in [Calls -> SUBSET Providers]
  BY DEF RouterTypes, RouterTypeOK
<1>7. chain'[c] = rest /\ passed'[c] = over \cup open
  BY <1>3, <1>6
<1>8. /\ callPc'[c] \in {"wait", "backoff", "raised"}
      /\ callPc'[c] = "wait" => rest # <<>>
      /\ callPc'[c] = "backoff" => attempt'[c] < Attempts[c]
  BY <1>3, <1>6
<1>9. (Elements(Chain[c]) \cap Configured) \ Elements(rest) \subseteq failed'[c] \cup (over \cup open)
  BY <1>4
<1>10. CallOrder(c)'
  BY <1>7, <1>8, <1>9 DEF CallOrder, NothingSkipped, Elements
<1>11. /\ chain' \in [Calls -> Seq(Providers)] /\ callPc' \in [Calls -> CallPc]
       /\ passed' \in [Calls -> SUBSET Providers]
  BY <1>1, <1>3, <1>5, <1>6 DEF CallPc
<1>12. asked' \in [Calls -> Models \cup {"none"}]
  BY <1>3, <1>6
<1> QED
  BY <1>3, <1>6, <1>10, <1>11, <1>12

(* A call that a step leaves alone keeps what is known of it.                *)
LEMMA OtherCalls ==
  ASSUME NEW d \in Calls, CallOrder(d),
         chain'[d] = chain[d], callPc'[d] = callPc[d], passed'[d] = passed[d],
         failed'[d] = failed[d], attempt'[d] = attempt[d]
  PROVE  CallOrder(d)'
BY DEF CallOrder, NothingSkipped, Elements

(* chat is called: the chain is whole, and nothing is skipped yet.           *)
LEMMA ChatStep ==
  ASSUME RouterInv, NEW c \in Calls, Chat(c)
  PROVE  RouterInv'
<1>1. RouterTypes /\ \A d \in Calls : CallOrder(d)
  BY DEF RouterInv
<1>2. /\ errors' = errors /\ openFor' = openFor
      /\ attempt' = [attempt EXCEPT ![c] = IF callPc[c] = "backoff" THEN @ + 1 ELSE 1]
      /\ failed' = [failed EXCEPT ![c] = {}]
  BY DEF Chat, breakerVars
<1>3. Chain[c] \in Seq(Providers) /\ Attempts[c] \in Nat \ {0}
  BY RouterAssumption
<1>4. attempt' \in [Calls -> Nat] /\ \A d \in Calls : attempt'[d] \in 0 .. Attempts[d]
  <2>1. attempt \in [Calls -> Nat] /\ \A d \in Calls : attempt[d] \in 0 .. Attempts[d]
    BY <1>1 DEF RouterTypes, RouterTypeOK
  <2>2. callPc[c] = "backoff" => attempt[c] < Attempts[c]
    BY <1>1 DEF CallOrder
  <2>3. attempt'[c] \in 0 .. Attempts[c] /\ attempt'[c] \in Nat
    BY <1>2, <1>3, <2>1, <2>2
  <2> QED BY <1>2, <2>1, <2>3
<1>5. /\ failed' \in [Calls -> SUBSET Providers] /\ failed'[c] = {}
      /\ \A d \in Calls \ {c} : failed'[d] = failed[d] /\ attempt'[d] = attempt[d]
  BY <1>1, <1>2 DEF RouterTypes, RouterTypeOK
<1>6. errors' \in [Providers -> Seq(0 .. Window)] /\ openFor' \in [Providers -> 0 .. Cooldown]
      /\ \A p \in Providers : errors'[p] \in Seq(0 .. Window) /\ Len(errors'[p]) <= Threshold
  BY <1>1, <1>2 DEF RouterTypes, RouterTypeOK
<1>7. CASE /\ ModelOf[c] # "none"
           /\ model' = ModelOf[c]
           /\ callPc' = [callPc EXCEPT ![c] = "predict"]
           /\ chain' = [chain EXCEPT ![c] = Chain[c]]
           /\ passed' = [passed EXCEPT ![c] = {}]
           /\ UNCHANGED asked
  <2>1. model' \in Models
    BY <1>7, RouterAssumption
  <2>2. /\ callPc' \in [Calls -> CallPc] /\ chain' \in [Calls -> Seq(Providers)]
        /\ passed' \in [Calls -> SUBSET Providers] /\ asked' \in [Calls -> Models \cup {"none"}]
        /\ callPc'[c] = "predict" /\ chain'[c] = Chain[c]
        /\ \A d \in Calls \ {c} :
             callPc'[d] = callPc[d] /\ chain'[d] = chain[d] /\ passed'[d] = passed[d]
    BY <1>1, <1>3, <1>7 DEF RouterTypes, RouterTypeOK, CallPc
  <2>3. CallOrder(c)'
    BY <2>2 DEF CallOrder
  <2>4. \A d \in Calls \ {c} : CallOrder(d)'
    BY <1>1, <1>5, <2>2, OtherCalls
  <2> QED BY <1>4, <1>5, <1>6, <2>1, <2>2, <2>3, <2>4 DEF RouterInv, RouterTypes, RouterTypeOK
<1>8. CASE ModelOf[c] = "none" /\ UNCHANGED model /\ GoOn(c, Chain[c], {})
  <2>1. model' \in Models
    BY <1>1, <1>8 DEF RouterTypes, RouterTypeOK
  <2>2. /\ chain' \in [Calls -> Seq(Providers)] /\ callPc' \in [Calls -> CallPc]
        /\ asked' \in [Calls -> Models \cup {"none"}] /\ passed' \in [Calls -> SUBSET Providers]
        /\ CallOrder(c)'
        /\ \A d \in Calls \ {c} :
             chain'[d] = chain[d] /\ callPc'[d] = callPc[d] /\ passed'[d] = passed[d]
    BY <1>1, <1>3, <1>6, <1>8, <2>1, LoopGoesOn
  <2>3. \A d \in Calls \ {c} : CallOrder(d)'
    BY <1>1, <1>5, <2>2, OtherCalls
  <2> QED BY <1>4, <1>5, <1>6, <2>1, <2>2, <2>3 DEF RouterInv, RouterTypes, RouterTypeOK
<1> QED
  BY <1>7, <1>8 DEF Chat

(* The memory answers: without Ollama, the chain has lost Ollama only.       *)
LEMMA PredictedStep ==
  ASSUME RouterInv, NEW c \in Calls, Predicted(c)
  PROVE  RouterInv'
<1>1. RouterTypes /\ \A d \in Calls : CallOrder(d)
  BY DEF RouterInv
<1>2. /\ errors' = errors /\ openFor' = openFor /\ model' = model
      /\ attempt' = attempt /\ failed' = failed
  BY DEF Predicted, breakerVars
<1>3. Chain[c] \in Seq(Providers) /\ chain[c] = Chain[c]
  BY <1>1, RouterAssumption DEF Predicted, CallOrder
<1>4. openFor' \in [Providers -> 0 .. Cooldown] /\ model' \in Models
  BY <1>1, <1>2 DEF RouterTypes, RouterTypeOK
<1>5. PICK ps \in Seq(Providers), over \in SUBSET Providers :
        GoOn(c, ps, over) /\ Elements(Chain[c]) \ Elements(ps) \subseteq over
  <2>1. CASE GoOn(c, chain[c], {})
    BY <1>3, <2>1
  <2>2. CASE GoOn(c, WithoutOllama(chain[c]), {"ollama"} \cap Elements(chain[c]))
    <3>1. {"ollama"} \cap Elements(chain[c]) \in SUBSET Providers
      BY RouterAssumption
    <3>2. /\ WithoutOllama(chain[c]) \in Seq(Providers)
          /\ Elements(chain[c]) \ Elements(WithoutOllama(chain[c])) \subseteq {"ollama"} \cap Elements(chain[c])
      BY <1>3, ChainFacts
    <3> QED BY <1>3, <2>2, <3>1, <3>2
  <2> QED BY <2>1, <2>2 DEF Predicted
<1>6. /\ chain' \in [Calls -> Seq(Providers)] /\ callPc' \in [Calls -> CallPc]
      /\ asked' \in [Calls -> Models \cup {"none"}] /\ passed' \in [Calls -> SUBSET Providers]
      /\ CallOrder(c)'
      /\ \A d \in Calls \ {c} :
           chain'[d] = chain[d] /\ callPc'[d] = callPc[d] /\ passed'[d] = passed[d]
  <2>1. (Elements(Chain[c]) \cap Configured) \ Elements(ps) \subseteq failed'[c] \cup over
    BY <1>5
  <2> QED BY <1>1, <1>4, <1>5, <2>1, LoopGoesOn
<1>7. \A d \in Calls \ {c} : CallOrder(d)'
  BY <1>1, <1>2, <1>6, OtherCalls
<1> QED
  BY <1>1, <1>2, <1>6, <1>7 DEF RouterInv, RouterTypes, RouterTypeOK

(* The provider answers, and the call is over.                               *)
LEMMA AnsweredStep ==
  ASSUME RouterInv, NEW c \in Calls, Answered(c)
  PROVE  RouterInv'
<1>1. RouterTypes /\ \A d \in Calls : CallOrder(d)
  BY DEF RouterInv
<1>2. Head(chain[c]) \in Providers
  <2>1. chain[c] \in Seq(Providers) /\ chain[c] # <<>>
    BY <1>1 DEF RouterTypes, RouterTypeOK, Answered, CallOrder
  <2> QED BY <2>1, ChainFacts
<1> DEFINE p == Head(chain[c])
<1>3. /\ errors' = [errors EXCEPT ![p] = <<>>] /\ openFor' = [openFor EXCEPT ![p] = 0]
      /\ callPc' = [callPc EXCEPT ![c] = "answered"] /\ model' = model /\ chain' = chain
      /\ asked' = asked /\ attempt' = attempt /\ failed' = failed /\ passed' = passed
  BY DEF Answered
<1> HIDE DEF p
<1>4. /\ errors' \in [Providers -> Seq(0 .. Window)]
      /\ \A q \in Providers : errors'[q] \in Seq(0 .. Window) /\ Len(errors'[q]) <= Threshold
  <2>1. <<>> \in Seq(0 .. Window) /\ Len(<<>>) <= Threshold
    BY RouterAssumption
  <2> QED BY <1>1, <1>2, <1>3, <2>1 DEF RouterTypes, RouterTypeOK, p
<1>5. openFor' \in [Providers -> 0 .. Cooldown]
  <2>1. 0 \in 0 .. Cooldown
    BY RouterAssumption
  <2> QED BY <1>1, <1>3, <2>1 DEF RouterTypes, RouterTypeOK
<1>6. callPc' \in [Calls -> CallPc]
  BY <1>1, <1>3 DEF RouterTypes, RouterTypeOK, CallPc
<1>7. callPc'[c] = "answered" /\ \A d \in Calls \ {c} : callPc'[d] = callPc[d]
  BY <1>1, <1>3 DEF RouterTypes, RouterTypeOK
<1>8. CallOrder(c)'
  BY <1>7 DEF CallOrder
<1>9. \A d \in Calls \ {c} : CallOrder(d)'
  BY <1>1, <1>3, <1>7, OtherCalls
<1> QED
  BY <1>1, <1>3, <1>4, <1>5, <1>6, <1>8, <1>9 DEF RouterInv, RouterTypes, RouterTypeOK

(* The provider fails: it joins the failed ones as it leaves the chain.      *)
LEMMA FailedStep ==
  ASSUME RouterInv, NEW c \in Calls, Failed(c)
  PROVE  RouterInv'
<1>1. RouterTypes /\ \A d \in Calls : CallOrder(d)
  BY DEF RouterInv
<1> DEFINE p == Head(chain[c])
           rest == Tail(chain[c])
<1>2. /\ chain[c] \in Seq(Providers) /\ p \in Providers /\ rest \in Seq(Providers)
      /\ Elements(chain[c]) = {p} \cup Elements(rest)
  <2>1. chain[c] \in Seq(Providers) /\ chain[c] # <<>>
    BY <1>1 DEF RouterTypes, RouterTypeOK, Failed, CallOrder
  <2> QED BY <2>1, ChainFacts
<1>3. /\ RecordError(p) /\ failed' = [failed EXCEPT ![c] = @ \cup {p}]
      /\ model' = model /\ attempt' = attempt /\ GoOn(c, rest, passed[c])
      /\ callPc[c] = "wait"
  BY DEF Failed
<1> HIDE DEF p, rest
<1>4. /\ errors' \in [Providers -> Seq(0 .. Window)]
      /\ \A q \in Providers : errors'[q] \in Seq(0 .. Window) /\ Len(errors'[q]) <= Threshold
  <2>1. 0 \in 0 .. Window /\ errors[p] \in Seq(0 .. Window)
    BY <1>1, <1>2, RouterAssumption DEF RouterTypes
  <2>2. Append(errors[p], 0) \in Seq(0 .. Window)
    BY <2>1
  <2>3. Latest(Append(errors[p], 0)) \in Seq(0 .. Window) /\ Len(Latest(Append(errors[p], 0))) <= Threshold
    BY <2>2, LatestFacts
  <2>4. errors' = [errors EXCEPT ![p] = Latest(Append(errors[p], 0))]
    BY <1>3 DEF RecordError
  <2> HIDE DEF Latest
  <2> QED BY <1>1, <2>3, <2>4 DEF RouterTypes, RouterTypeOK
<1>5. openFor' \in [Providers -> 0 .. Cooldown]
  <2>1. Cooldown \in 0 .. Cooldown
    BY RouterAssumption
  <2>2. openFor' = [openFor EXCEPT ![p] = IF Len(errors'[p]) = Threshold THEN Cooldown ELSE @]
    BY <1>3 DEF RecordError
  <2> QED BY <1>1, <2>1, <2>2 DEF RouterTypes, RouterTypeOK
<1>6. /\ failed' \in [Calls -> SUBSET Providers] /\ failed'[c] = failed[c] \cup {p}
      /\ \A d \in Calls \ {c} : failed'[d] = failed[d]
  BY <1>1, <1>2, <1>3 DEF RouterTypes, RouterTypeOK
<1>7. passed[c] \in SUBSET Providers /\ model' \in Models
  BY <1>1, <1>3 DEF RouterTypes, RouterTypeOK
<1>8. (Elements(Chain[c]) \cap Configured) \ Elements(rest) \subseteq failed'[c] \cup passed[c]
  <2>1. NothingSkipped(c)
    BY <1>1, <1>3 DEF CallOrder
  <2> QED BY <1>2, <1>6, <2>1 DEF NothingSkipped
<1>9. /\ chain' \in [Calls -> Seq(Providers)] /\ callPc' \in [Calls -> CallPc]
      /\ asked' \in [Calls -> Models \cup {"none"}] /\ passed' \in [Calls -> SUBSET Providers]
      /\ CallOrder(c)'
      /\ \A d \in Calls \ {c} :
           chain'[d] = chain[d] /\ callPc'[d] = callPc[d] /\ passed'[d] = passed[d]
  BY <1>1, <1>2, <1>3, <1>5, <1>7, <1>8, LoopGoesOn
<1>10. \A d \in Calls \ {c} : CallOrder(d)'
  BY <1>1, <1>3, <1>6, <1>9, OtherCalls
<1> QED
  BY <1>1, <1>3, <1>4, <1>5, <1>6, <1>7, <1>9, <1>10 DEF RouterInv, RouterTypes, RouterTypeOK

(* A tick ages the errors and drops those that leave the window.             *)
LEMMA TickStep ==
  ASSUME RouterInv, Tick
  PROVE  RouterInv'
<1>1. RouterTypes /\ \A d \in Calls : CallOrder(d)
  BY DEF RouterInv
<1> DEFINE older(p) == [i \in 1 .. Len(errors[p]) |-> errors[p][i] + 1]
<1>2. ASSUME NEW p \in Providers
      PROVE  /\ Keep(older(p), 0 .. Window) \in Seq(0 .. Window)
             /\ Len(Keep(older(p), 0 .. Window)) <= Threshold
  <2>1. errors[p] \in Seq(0 .. Window) /\ Len(errors[p]) <= Threshold /\ Len(errors[p]) \in Nat
    BY <1>1 DEF RouterTypes, RouterTypeOK
  <2>2. \A i \in 1 .. Len(errors[p]) : errors[p][i] \in Nat
    <3>1. \A i \in 1 .. Len(errors[p]) : errors[p][i] \in 0 .. Window
      BY <2>1, ElementOfSeq
    <3> QED BY <3>1
  <2>3. older(p) \in Seq(Nat) /\ Len(older(p)) = Len(errors[p])
    BY <2>1, <2>2
  <2> HIDE DEF older
  <2>4. /\ Keep(older(p), 0 .. Window) \in Seq(0 .. Window)
        /\ Len(Keep(older(p), 0 .. Window)) <= Len(older(p))
    BY <2>3, KeepFacts
  <2>5. Len(Keep(older(p), 0 .. Window)) \in Nat /\ Threshold \in Nat
    BY <2>4, RouterAssumption
  <2> QED BY <2>1, <2>3, <2>4, <2>5
<1>3. /\ errors' = [p \in Providers |-> Keep(older(p), 0 .. Window)]
      /\ openFor' = [p \in Providers |-> IF openFor[p] > 0 THEN openFor[p] - 1 ELSE 0]
      /\ model' = model /\ callPc' = callPc /\ chain' = chain /\ asked' = asked
      /\ attempt' = attempt /\ failed' = failed /\ passed' = passed
  BY DEF Tick, callVars
<1> HIDE DEF older
<1>4. /\ errors' \in [Providers -> Seq(0 .. Window)]
      /\ \A q \in Providers : errors'[q] \in Seq(0 .. Window) /\ Len(errors'[q]) <= Threshold
  BY <1>2, <1>3
<1>5. openFor' \in [Providers -> 0 .. Cooldown]
  <2>1. \A p \in Providers : openFor[p] \in 0 .. Cooldown /\ Cooldown \in Nat
    BY <1>1, RouterAssumption DEF RouterTypes, RouterTypeOK
  <2>2. \A p \in Providers : (IF openFor[p] > 0 THEN openFor[p] - 1 ELSE 0) \in 0 .. Cooldown
    BY <2>1
  <2> QED BY <1>3, <2>2
<1>6. \A d \in Calls : CallOrder(d)'
  BY <1>1, <1>3, OtherCalls
<1> QED
  BY <1>1, <1>3, <1>4, <1>5, <1>6 DEF RouterInv, RouterTypes, RouterTypeOK

-----------------------------------------------------------------------------

(* The invariant holds at first and is kept by every step of a call and by time. *)
THEOREM RouterInvariant == RouterSpec => []RouterInv
<1>1. RouterInit => RouterInv
  <2> SUFFICES ASSUME RouterInit PROVE RouterInv
    OBVIOUS
  <2> USE RouterAssumption DEF RouterInit
  <2>1. errors \in [Providers -> Seq(0 .. Window)]
        /\ \A p \in Providers : errors[p] \in Seq(0 .. Window) /\ Len(errors[p]) <= Threshold
    OBVIOUS
  <2>2. openFor \in [Providers -> 0 .. Cooldown] /\ model \in Models
    OBVIOUS
  <2>3. attempt \in [Calls -> Nat] /\ \A c \in Calls : attempt[c] \in 0 .. Attempts[c]
    OBVIOUS
  <2>4. /\ callPc \in [Calls -> CallPc] /\ chain \in [Calls -> Seq(Providers)]
        /\ asked \in [Calls -> Models \cup {"none"}]
        /\ failed \in [Calls -> SUBSET Providers] /\ passed \in [Calls -> SUBSET Providers]
    BY DEF CallPc
  <2>5. \A c \in Calls : CallOrder(c)
    BY DEF CallOrder
  <2> QED BY <2>1, <2>2, <2>3, <2>4, <2>5 DEF RouterInv, RouterTypes, RouterTypeOK
<1>2. RouterInv /\ [RouterNext]_routerVars => RouterInv'
  <2> SUFFICES ASSUME RouterInv, [RouterNext]_routerVars PROVE RouterInv'
    OBVIOUS
  <2>1. CASE UNCHANGED routerVars
    <3>1. /\ errors' = errors /\ openFor' = openFor /\ model' = model /\ callPc' = callPc
          /\ chain' = chain /\ asked' = asked /\ attempt' = attempt /\ failed' = failed
          /\ passed' = passed
      BY <2>1 DEF routerVars, breakerVars, callVars
    <3>2. \A d \in Calls : CallOrder(d)'
      BY <3>1, OtherCalls DEF RouterInv
    <3> QED BY <3>1, <3>2 DEF RouterInv, RouterTypes, RouterTypeOK
  <2>2. CASE Tick
    BY <2>2, TickStep
  <2>3. ASSUME NEW c \in Calls, Chat(c) \/ Predicted(c) \/ Answered(c) \/ Failed(c)
        PROVE  RouterInv'
    BY <2>3, ChatStep, PredictedStep, AnsweredStep, FailedStep
  <2> QED BY <2>1, <2>2, <2>3 DEF RouterNext
<1> QED
  BY <1>1, <1>2, PTL DEF RouterSpec

(* The router's state is what its type invariant says; in particular no breaker
   holds more errors than it takes to open it, and no call has more attempts than
   tenacity allows.                                                          *)
THEOREM RouterTyping == RouterSpec => []RouterTypeOK
<1>1. RouterInv => RouterTypeOK
  BY DEF RouterInv, RouterTypes
<1> QED
  BY <1>1, RouterInvariant, PTL

(* LLMRouter.chat and _try_chain skip no configured provider of the chain, except
   one whose circuit was open when its turn came or Ollama on a prediction,
   however many calls share the providers and their breakers.                *)
THEOREM FallbackOrder == RouterSpec => []FallbackIsInOrder
<1>1. RouterInv => FallbackIsInOrder
  BY DEF RouterInv, CallOrder, NothingSkipped, FallbackIsInOrder
<1> QED
  BY <1>1, RouterInvariant, PTL
=============================================================================
