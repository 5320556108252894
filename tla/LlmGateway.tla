----------------------------- MODULE LlmGateway -----------------------------
(* The language-model gateway of one run: the generate() calls that a node has   *)
(* in flight at the same time, the chain of providers they fall through, and the *)
(* embedder beside them.  A call is interleaved with the others wherever the     *)
(* code awaits: at the provider, at the records and events of a failure, at the  *)
(* backoff.  The texts of prompts and answers are left out, and so is what a call *)
(* adds to the figures the run reports (tokens, cost, llm_calls).                 *)
EXTENDS Naturals, Sequences, Functions

CONSTANTS
    Calls,           \* generate() calls of one run, all of one tier
    Providers,       \* the providers of the catalog
    Chain,           \* catalog order of those that have a key
    Selected,        \* the provider of the selected model, or None
    Offered,         \* providers for which the catalog names a model of the tier
    AllowFallback,   \* settings.llm.allow_fallback
    Retries,         \* settings.llm.retries
    RepairRetries,   \* settings.llm.repair_retries
    Embeds,          \* providers for which the catalog names an embedding model
    Batches,         \* batches of texts to embed
    None

(* What the settings may be set to (config/schema.py).                           *)
LlmSettings == AllowFallback \in BOOLEAN /\ Retries \in 0..5 /\ RepairRetries \in 0..3

ASSUME GatewayAssumption ==
    /\ Chain \in Seq(Providers) /\ IsInjective(Chain)
    /\ Selected \in Providers \cup {None} /\ None \notin Providers
    /\ Offered \subseteq Providers /\ Embeds \subseteq Providers
    /\ LlmSettings /\ Batches \in Nat

VARIABLES
    calls,      \* the local state of each call
    rejected,   \* gateway.rejected: providers whose key was rejected
    embedder,   \* batches still to embed, and whether embeddings are disabled
    asked,      \* history: requests of a call to a provider
    malformed   \* history: answers of a provider to a call that did not parse

vars == <<calls, rejected, embedder, asked, malformed>>

-----------------------------------------------------------------------------
(* What the adapters make of a reply.  A transport failure, a status that is not *)
(* 2xx, or a 2xx reply that holds no answer is a ProviderError, of which only    *)
(* some may be retried.                                                          *)
AuthReplies      == {"http401", "http403", "http400_key", "http422_key"}
RetryableStatus  == {"http429", "http408", "http5xx"}
RefusedStatus    == {"http400", "http3xx"}
StatusErrors     == AuthReplies \cup RetryableStatus \cup RefusedStatus
TransportErrors  == {"timeout", "transport"}
RetryableReplies == TransportErrors \cup RetryableStatus
OpenAIErrors     == TransportErrors \cup StatusErrors \cup {"no_choices", "refusal"}
GeminiErrors     == TransportErrors \cup StatusErrors \cup {"no_candidates"}
ErrorReplies     == OpenAIErrors \cup GeminiErrors
AnswerReplies    == {"valid", "malformed"}

-----------------------------------------------------------------------------
NewCall == [pc |-> "idle", live |-> {}, i |-> 0, attempts |-> 0,
            repairs |-> 0, auth |-> FALSE, outcome |-> None]

Init ==
    /\ calls = [c \in Calls |-> NewCall]
    /\ rejected = {}
    /\ embedder = [left |-> Batches, disabled |-> Range(Chain) \cap Embeds = {}]
    /\ asked = [c \in Calls |-> [p \in Providers |-> 0]]
    /\ malformed = [c \in Calls |-> [p \in Providers |-> 0]]

(* The chain of a call: the selected model's provider first, alone when the      *)
(* settings forbid a fallback.                                                   *)
Ordered ==
    IF Selected = None THEN Chain
    ELSE LET home == CHOOSE k \in DOMAIN Chain : Chain[k] = Selected
         IN [j \in DOMAIN Chain |-> IF j = 1 THEN Selected
                                    ELSE IF j <= home THEN Chain[j - 1] ELSE Chain[j]]
Places == IF AllowFallback THEN DOMAIN Chain ELSE DOMAIN Chain \cap {1}

HasModel(p) == p = Selected \/ p \in Offered

AllRejected(bad) == \A j \in Places : Ordered[j] \in bad

Finish(call, outcome) == [call EXCEPT !.pc = "done", !.outcome = outcome]

(* The call turns to the first live provider, from place i on, that has a model; *)
(* when none is left it ends, and the keys rejected by then decide how.          *)
Turn(call, i, bad) ==
    LET rest == {j \in call.live : j >= i /\ HasModel(Ordered[j])} IN
    IF rest # {}
    THEN [call EXCEPT !.pc = "sending", !.attempts = 0, !.auth = FALSE,
                      !.repairs = RepairRetries,
                      !.i = CHOOSE j \in rest : \A k \in rest : j <= k]
    ELSE Finish(call, IF AllRejected(bad) THEN "keys_rejected" ELSE "failed")

(* generate() up to its first await: which providers are live is settled here,   *)
(* once.                                                                         *)
Generate(c) ==
    /\ calls[c].pc = "idle"
    /\ LET live == {j \in Places : Ordered[j] \notin rejected} IN
       calls' = [calls EXCEPT ![c] =
           IF Chain = <<>> THEN Finish(@, "failed")
           ELSE IF Selected \notin Range(Chain) \cup {None} THEN Finish(@, "keys_rejected")
           ELSE Turn([@ EXCEPT !.live = live], 1, rejected)]
    /\ UNCHANGED <<rejected, embedder, asked, malformed>>

Asking(c) == Ordered[calls[c].i]

(* The head of the loop of _with_provider: one more request leaves.              *)
Send(c) ==
    /\ calls[c].pc = "sending"
    /\ calls' = [calls EXCEPT ![c].pc = "waiting", ![c].attempts = @ + 1]
    /\ asked' = [asked EXCEPT ![c][Asking(c)] = @ + 1]
    /\ UNCHANGED <<rejected, embedder, malformed>>

MayRetry(call, reply) == reply \in RetryableReplies /\ call.attempts < Retries + 1

(* The provider fails: back off and ask again, or give the provider up.          *)
Fails(c) ==
    /\ calls[c].pc = "waiting"
    /\ \E reply \in ErrorReplies :
         calls' = [calls EXCEPT ![c].pc = IF MayRetry(calls[c], reply) THEN "pausing"
                                          ELSE "giving_up",
                                ![c].auth = reply \in AuthReplies]
    /\ UNCHANGED <<rejected, embedder, asked, malformed>>

\* Mutant: repairs are not counted.
AfterMalformed_Endless(call) ==
    IF call.repairs > 0 THEN [call EXCEPT !.pc = "pausing"] ELSE Finish(call, "failed")
AfterMalformed(call) ==
    IF call.repairs > 0 THEN [call EXCEPT !.pc = "pausing", !.repairs = @ - 1]
    ELSE Finish(call, "failed")

(* The provider answers; the answer parses, or is sent back for a repair while   *)
(* there is one left.  A failed repair ends the call: no further provider is     *)
(* asked.                                                                        *)
Answers(c) ==
    /\ calls[c].pc = "waiting"
    /\ \E reply \in AnswerReplies :
         /\ calls' = [calls EXCEPT ![c] =
               IF reply = "valid" THEN Finish(@, "answered") ELSE AfterMalformed(@)]
         /\ malformed' = [malformed EXCEPT ![c][Asking(c)] =
                             IF reply = "malformed" THEN @ + 1 ELSE @]
    /\ UNCHANGED <<rejected, embedder, asked>>

(* A 2xx reply whose body is not JSON: the decoding error is no ProviderError    *)
(* and leaves generate().                                                        *)
NotJson(c) ==
    /\ calls[c].pc = "waiting"
    /\ calls' = [calls EXCEPT ![c] = Finish(@, "unexpected")]
    /\ UNCHANGED <<rejected, embedder, asked, malformed>>

\* Mutant: the backoffs of concurrent calls exclude one another.
Resume_OneAtATime(c) ==
    /\ calls[c].pc = "pausing" /\ \A d \in Calls \ {c} : calls[d].pc # "pausing"
    /\ calls' = [calls EXCEPT ![c].pc = "sending"]
    /\ UNCHANGED <<rejected, embedder, asked, malformed>>
(* The records, events and sleep before the next request to the same provider.   *)
Resume(c) ==
    /\ calls[c].pc = "pausing"
    /\ calls' = [calls EXCEPT ![c].pc = "sending"]
    /\ UNCHANGED <<rejected, embedder, asked, malformed>>

Rejections(call) == IF call.auth THEN rejected \cup {Ordered[call.i]} ELSE rejected

\* Mutant: whether a key is left is judged before the new rejection is noted.
GiveUp_JudgesFirst(c) ==
    /\ calls[c].pc = "giving_up"
    /\ rejected' = Rejections(calls[c])
    /\ calls' = [calls EXCEPT ![c] = Turn(@, @.i + 1, rejected)]
    /\ UNCHANGED <<embedder, asked, malformed>>
\* Mutant: the rejected provider is taken out of the list the loop walks along.
GiveUp_Shortens(c) ==
    /\ calls[c].pc = "giving_up"
    /\ rejected' = Rejections(calls[c])
    /\ calls' = [calls EXCEPT ![c] = Turn(@, @.i + (IF @.auth THEN 2 ELSE 1), rejected')]
    /\ UNCHANGED <<embedder, asked, malformed>>
(* The ProviderError reaches generate() after the awaits that reported it.       *)
GiveUp(c) ==
    /\ calls[c].pc = "giving_up"
    /\ rejected' = Rejections(calls[c])
    /\ calls' = [calls EXCEPT ![c] = Turn(@, @.i + 1, rejected')]
    /\ UNCHANGED <<embedder, asked, malformed>>

(* One batch of Embedder.embed: after a ProviderError embeddings are off for the *)
(* rest of the run; a body that is not JSON is no ProviderError, and the call    *)
(* raises.                                                                       *)
Embed ==
    /\ embedder.left > 0 /\ ~embedder.disabled
    /\ \/ embedder' = [embedder EXCEPT !.left = @ - 1]
       \/ embedder' = [embedder EXCEPT !.disabled = TRUE]
       \/ embedder' = [embedder EXCEPT !.left = 0]
    /\ UNCHANGED <<calls, rejected, asked, malformed>>

Step(c) ==
    Generate(c) \/ Send(c) \/ Fails(c) \/ Answers(c) \/ NotJson(c) \/ Resume(c) \/ GiveUp(c)

Done == \A c \in Calls : calls[c].pc = "done"

Next == (\E c \in Calls : Step(c)) \/ Embed \/ (Done /\ UNCHANGED vars)

(* Every request has a timeout and every backoff is at most 8 seconds, so a call *)
(* that can take its next step takes it.                                         *)
Spec == Init /\ [][Next]_vars /\ \A c \in Calls : WF_vars(Step(c))

-----------------------------------------------------------------------------
(* Retries, repairs and the chain nest, but their product stays bounded: a call  *)
(* sends a provider at most retries + 1 requests and one more for each repair it *)
(* was granted, and reads at most repair_retries + 1 malformed answers of it.    *)
RequestsBounded ==
    \A c \in Calls, p \in Providers :
        /\ malformed[c][p] <= RepairRetries + 1
        /\ asked[c][p] <= Retries + 1 + (IF malformed[c][p] < RepairRetries
                                         THEN malformed[c][p] ELSE RepairRetries)

(* No key is passed over: a call that was answered by a fallback, or that fails   *)
(* for want of a provider and leaves its node to the deterministic answer, asked *)
(* every provider before that itself, or the provider's key is rejected.  The    *)
(* chain of a call is settled when it begins, and other calls reject keys while  *)
(* it walks along it (gateway.py:169-222).                                       *)
EndedWith(c, outcome) == calls[c].pc = "done" /\ calls[c].outcome = outcome
OutOfProviders(c) ==
    EndedWith(c, "failed") /\ \A p \in Providers : malformed[c][p] <= RepairRetries
NoProviderSkipped ==
    \A c \in Calls, j \in Places :
        /\ HasModel(Ordered[j])
        /\ OutOfProviders(c) \/ (EndedWith(c, "answered") /\ j < calls[c].i)
        => Ordered[j] \in rejected \/ asked[c][Ordered[j]] > 0

(* A call stops the run exactly when no key of its chain is left, also when the  *)
(* last keys were rejected under other calls; if one provider only timed out the *)
(* node falls back instead.                                                      *)
StopIffNoKeyLeft ==
    [][\A c \in Calls : calls[c].pc = "giving_up" /\ calls'[c].pc = "done" =>
          calls'[c].outcome = "keys_rejected" <=> AllRejected(rejected')]_vars

(* Whatever the providers do, every generate() call returns or raises.           *)
EveryCallEnds == \A c \in Calls : <>(calls[c].pc = "done")
=============================================================================
