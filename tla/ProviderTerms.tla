---------------------------- MODULE ProviderTerms ----------------------------
(* models/ and providers/: the terms of a request.  What thinking a model is   *)
(* given and the limit of its answer, what its tokens cost, which adapter      *)
(* serves it with which credentials, and what a failed request is taken for.   *)
EXTENDS NoValue, Integers, FiniteSetsExt

CONSTANTS Models,          \* known definitions: provider, thinking limits, longest answer
          Callers,         \* providers that callers name for an unknown model
          Budgets,         \* explicit budgets and limits of an answer
          Headroom,        \* what an answer is given beyond its thinking
          Floor,           \* Anthropic's least budget
          TokenCounts      \* how many of each kind a turn used

VARIABLE terms

\* Token counts are counts; a model that thinks has its default within its
\* limits.
ASSUME TermsAssumption ==
  /\ TokenCounts \subseteq Nat /\ Budgets \subseteq Nat /\ None \notin Nat
  /\ Headroom \in Nat /\ Floor \in Nat
  /\ \A m \in Models :
       /\ m # None /\ m.answer \in Nat
       /\ m.max # None => /\ m.min \in Nat /\ m.max \in Nat /\ m.default \in Nat
                          /\ m.min <= m.default /\ m.default <= m.max

Created(provider) ==
  [provider |-> provider, min |-> 1024, max |-> 32000, default |-> 8000, answer |-> 8192]

Efforts == {"none", "low", "medium", "high", "max"}

Absent == {None} \cup Budgets

Usages ==
  [input : TokenCounts, write : TokenCounts, read : TokenCounts, output : TokenCounts,
   reasoning : TokenCounts]

TermsInit ==
  \/ \E model \in {None} \cup Models :
       terms = [on |-> "thinking", model |-> model, asked |-> None, options |-> None]
  \/ \E usage \in Usages : terms = [on |-> "cost", usage |-> usage, cost |-> None]
  \/ \E provider \in {"anthropic", "google", "openai", "ollama", "custom"},
        mode \in {None, "fake", "live"}, key \in BOOLEAN, env \in BOOLEAN :
       terms = [on |-> "adapter", provider |-> provider, mode |-> mode, key |-> key, env |-> env,
                adapter |-> None]
  \/ \E provider \in {"anthropic", "google", "openai"},
        status \in {400, 401, 403, 404, 408, 429, 500, 504},
        says \in {None, "auth", "limit", "context", "timeout"} :
       terms = [on |-> "error", provider |-> provider, status |-> status, says |-> says, error |-> None]
-----------------------------------------------------------------------------
(* thinking-adapter.ts and model-registry.ts                                   *)

Larger(a, b) == IF a > b THEN a ELSE b

Smaller(a, b) == IF a < b THEN a ELSE b

\* Math.round of a share of the span, in percent.
Share(m, percent) == (m.min * 100 + (m.max - m.min) * percent + 50) \div 100

ClampedAbove(m, budget) == Smaller(m.max, budget)

Clamped(m, budget) == Larger(m.min, Smaller(m.max, budget))

ExplicitBudget(m, budget) == IF m.max = None THEN budget ELSE Clamped(m, budget)

ResolveBudgetFromEffort(m, level, explicit) ==
  IF explicit # None /\ explicit > 0 THEN ExplicitBudget(m, explicit)
  ELSE IF m.max = None
    THEN [none |-> 0, low |-> 2048, medium |-> 8192, high |-> 16384, max |-> 32768][level]
  ELSE [none |-> 0, low |-> Larger(m.min, Share(m, 15)), medium |-> Larger(m.min, m.default),
        high |-> Larger(m.min, Share(m, 65)), max |-> m.max][level]

\* buildProviderThinkingPayload
PayloadBudget(m, provider, level, budget) ==
  IF level = "none" \/ budget = 0 THEN 0
  ELSE IF provider = "anthropic" THEN Larger(Floor, budget) ELSE budget

\* The limit of the answer is raised, as far as the model's longest answer goes.
AnswerLimit(m, limit, budget) ==
  IF budget > 0 /\ (limit = None \/ limit < budget + Headroom)
    THEN Smaller(m.answer, budget + Headroom) ELSE limit

\* getOrCreateModelDefinition: what the first caller says of the provider stays.
MeetModel ==
  /\ terms.on = "thinking" /\ terms.model = None
  /\ \E provider \in Callers : terms' = [terms EXCEPT !.model = Created(provider)]

\* applyThinkingToGenerateOptions, for any caller's provider
ApplyThinking ==
  /\ terms.on = "thinking" /\ terms.model # None /\ terms.options = None
  /\ \E level \in Efforts, explicit \in Absent, limit \in Absent, provider \in Callers :
       LET budget == PayloadBudget(terms.model, provider, level,
                                   ResolveBudgetFromEffort(terms.model, level, explicit))
       IN terms' = [terms EXCEPT
            !.asked = [level |-> level, explicit |-> explicit, limit |-> limit, provider |-> provider],
            !.options = [budget |-> budget, limit |-> AnswerLimit(terms.model, limit, budget)]]

\* validateThinkingOptions, of a known model
ThinkingValid(m, level, explicit) ==
  LET budget == ResolveBudgetFromEffort(m, level, explicit)
  IN m.max = None \/ (budget <= m.max /\ (budget >= m.min \/ level = "none"))
-----------------------------------------------------------------------------
(* pricing.ts: the tokens that are charged at each rate                        *)

CalculateCost ==
  /\ terms.on = "cost" /\ terms.cost = None
  /\ LET u == terms.usage
     IN terms' = [terms EXCEPT !.cost =
          [uncached |-> Larger(0, u.input - u.write - u.read), write |-> u.write, read |-> u.read,
           standard |-> Larger(0, u.output - u.reasoning), reasoning |-> u.reasoning]]
-----------------------------------------------------------------------------
(* createProviderAdapter                                                       *)

ServedBy(provider) == IF provider = "ollama" THEN "openai" ELSE provider

CreateProviderAdapter ==
  /\ terms.on = "adapter" /\ terms.adapter = None
  /\ terms' = [terms EXCEPT !.adapter =
       IF terms.mode # "live" THEN "mock"
       ELSE IF terms.provider = "custom" THEN "refused"
       ELSE IF terms.provider = "ollama"
         THEN IF terms.key THEN "refused" ELSE ServedBy("ollama")
       ELSE IF terms.key \/ terms.env THEN ServedBy(terms.provider) ELSE "refused"]
-----------------------------------------------------------------------------
(* parseAnthropicError, parseOpenAIError, parseGeminiError: the tests in their *)
(* order.  What the body says counts beside the status, by provider.           *)

Tests(provider, status, says) ==
  <<<<"auth", status \in {401, 403} \/ (provider # "openai" /\ says = "auth")>>,
    <<"limit", status = 429 \/ (provider # "openai" /\ says = "limit")>>,
    <<"context", status = 400 /\ says = "context">>,
    <<"timeout", status \in {408, 504} \/ (provider = "anthropic" /\ says = "timeout")>>,
    <<"transient", status >= 500>>>>

Classified(provider, status, says) ==
  LET tests == Tests(provider, status, says)
      holding == {i \in DOMAIN tests : tests[i][2]}
  IN IF holding = {} THEN "other" ELSE tests[Min(holding)][1]

Retryable(error) == error \in {"limit", "timeout", "transient"}

ParseError ==
  /\ terms.on = "error" /\ terms.error = None
  /\ terms' = [terms EXCEPT !.error = Classified(terms.provider, terms.status, terms.says)]

TermsNext == MeetModel \/ ApplyThinking \/ CalculateCost \/ CreateProviderAdapter \/ ParseError
-----------------------------------------------------------------------------
(* Properties *)

\* Thinking stays within what the model and its provider allow, a budget that
\* was found valid is the one that is sent, and the answer has room beside it
\* unless the model's own limit is too short for that
\* (applyThinkingToGenerateOptions, validateThinkingOptions).
ThinkingFits ==
  terms.on = "thinking" /\ terms.options # None =>
    LET m == terms.model
        a == terms.asked
        o == terms.options
    IN /\ o.budget > 0 /\ m.max # None => o.budget <= Larger(m.max, Floor) /\ o.budget >= m.min
       /\ a.level = "none" => o.budget = 0 /\ o.limit = a.limit
       /\ o.budget > 0 => \/ o.limit >= o.budget + Headroom
                          \/ o.limit = m.answer
       /\ a.limit # None /\ m.answer >= a.limit => o.limit >= a.limit
       /\ o.budget > 0 => ThinkingValid(m, a.level, a.explicit)

\* Every token of a usage that counts cached ones as input is charged once, at
\* one rate; none is charged below zero whatever is counted
\* (calculateDetailedCostUSD).
ChargedOnce ==
  terms.on = "cost" /\ terms.cost # None =>
    LET u == terms.usage
        c == terms.cost
    IN /\ c.uncached >= 0 /\ c.standard >= 0
       /\ u.write + u.read <= u.input /\ u.reasoning <= u.output =>
            c.uncached + c.write + c.read + c.standard + c.reasoning = u.input + u.output
       /\ c.uncached + c.write + c.read >= u.input /\ c.standard + c.reasoning >= u.output

\* Without "live" nothing goes out, a live adapter has a credential if its
\* service takes one and none if not, and a request is made again for reasons
\* that may pass only (createProviderAdapter, parseAnthropicError and others).
AdapterIsEntitled ==
  /\ terms.on = "adapter" /\ terms.adapter # None =>
       /\ (terms.adapter = "mock") = (terms.mode # "live")
       /\ terms.adapter \notin {"mock", "refused"} =>
            IF terms.provider = "ollama" THEN ~terms.key ELSE terms.key \/ terms.env
  /\ terms.on = "error" /\ terms.error # None =>
       /\ Retryable(terms.error) => terms.status >= 408 \/ terms.says \in {"limit", "timeout"}
       /\ terms.status \in {401, 403} => ~Retryable(terms.error)
=============================================================================
