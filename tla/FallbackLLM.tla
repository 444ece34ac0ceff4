------------------------------ MODULE FallbackLLM ------------------------------
(***************************************************************************)
(* The chain of LLM providers (core/generation/fallback_llm.py) and the    *)
(* HTTP clients behind it (openai_compat_llm.py, gemini_llm.py, which      *)
(* behave alike; local_llm.py is the first of them with another address).  *)
(*                                                                         *)
(* A call takes a snapshot of the providers that are not cooling down and  *)
(* tries them in order.  A client posts up to MaxRetries times; a stream   *)
(* is opened once.  A 429 puts the provider into a cooldown that all calls *)
(* share.  Calls interleave at every await; the servers and httpx are      *)
(* external.                                                               *)
(***************************************************************************)
EXTENDS Naturals, Sequences, FiniteSets

CONSTANTS Calls,             \* requests that may be running at the same time
          N,                 \* providers, in the order of the chain
          MaxRetries,        \* _MAX_RETRIES of the clients
          CooldownDefault,   \* _COOLDOWN_DEFAULT_SECONDS
          CooldownMax,       \* _COOLDOWN_MAX_SECONDS
          Hints,             \* what a 429 may ask for: <<>> or <<seconds>>
          MaxTime,           \* bound on the monotonic clock
          MaxTokens          \* bound on the tokens of one answer

ChainAssumption ==
    /\ N \in Nat \ {0} /\ MaxRetries \in Nat \ {0}
    /\ CooldownDefault \in Nat /\ CooldownMax \in Nat /\ MaxTime \in Nat
    /\ \A h \in Hints : h = <<>> \/ (Len(h) = 1 /\ h[1] \in Nat)

Providers == 1..N

VARIABLES now,       \* time.monotonic()
          until,     \* provider -> _cooldown_until, 0 when it has none
          pc,        \* call -> where it stands
          chain,     \* call -> the providers of its snapshot still to try
          attempt,   \* call -> the current attempt of the client's retry loop
          tokens,    \* call -> who spoke each token given to the client
          \* history
          asked,     \* provider -> the latest time a 429 asked to be left alone till
          shortened, \* providers for which a later 429 cut a cooldown short
          unheard,   \* providers that refused a stream with a 429
          sole,      \* call -> it was offered the least bad of all, since none was ready
          cold,      \* call -> the providers that then still asked to be left alone
          tried      \* call -> the providers that failed it

vars == <<now, until, pc, chain, attempt, tokens,
          asked, shortened, unheard, sole, cold, tried>>

history == <<asked, shortened, unheard>>

Ended == {"idle", "answered", "raised", "failed"}

Smaller(a, b) == IF a < b THEN a ELSE b

-----------------------------------------------------------------------------
\* _cooldown_seconds: the Retry-After header wins when it is a number, then
\* the hint in the body, then the default; nothing beyond the ceiling.
CooldownSeconds(header, body) ==
    IF header # <<>> THEN Smaller(header[1], CooldownMax)
    ELSE IF body # <<>> THEN Smaller(body[1], CooldownMax)
    ELSE CooldownDefault

Ready == {p \in Providers : until[p] <= now}

Soonest == CHOOSE p \in Providers :
    \A q \in Providers : until[p] < until[q] \/ (until[p] = until[q] /\ p <= q)

\* Some providers in the order of the chain (there is one such sequence).
InOrder(S) ==
    {s \in UNION {[1..n -> S] : n \in 0..N} :
       /\ \A i, j \in DOMAIN s : i < j => s[i] < s[j]
       /\ \A p \in S : \E i \in DOMAIN s : s[i] = p}

\* Seeded fault: the ready providers are not filtered.
Everyone == InOrder(Providers)

\* _available: the ready providers in order, or the one that is ready first.
Available == IF Ready # {} THEN InOrder(Ready) ELSE {<<Soonest>>}

Init == /\ now = 0 /\ until = [p \in Providers |-> 0]
        /\ pc = [c \in Calls |-> "idle"] /\ chain = [c \in Calls |-> <<>>]
        /\ attempt = [c \in Calls |-> 0] /\ tokens = [c \in Calls |-> <<>>]
        /\ asked = [p \in Providers |-> 0] /\ shortened = {} /\ unheard = {}
        /\ sole = [c \in Calls |-> FALSE] /\ cold = [c \in Calls |-> {}]
        /\ tried = [c \in Calls |-> {}]

\* A generate or a stream call takes its snapshot and addresses the first.
Begin(c, where) ==
    /\ pc[c] \in Ended
    /\ pc' = [pc EXCEPT ![c] = where]
    /\ \E snapshot \in Available : chain' = [chain EXCEPT ![c] = snapshot]
    /\ attempt' = [attempt EXCEPT ![c] = 1]
    /\ tokens' = [tokens EXCEPT ![c] = <<>>]
    /\ sole' = [sole EXCEPT ![c] = Ready = {}]
    /\ cold' = [cold EXCEPT ![c] = {p \in Providers : asked[p] > now}]
    /\ tried' = [tried EXCEPT ![c] = {}]
    /\ UNCHANGED <<now, until, history>>

Generate(c) == Begin(c, "post")
Stream(c) == Begin(c, "connect")

\* A call ends, and its locals with it.
Return(c, how) == /\ pc' = [pc EXCEPT ![c] = how]
                  /\ chain' = [chain EXCEPT ![c] = <<>>]
                  /\ attempt' = [attempt EXCEPT ![c] = 0]

\* The provider failed with an error worth trying the next one for; when there
\* is none left the call fails with every provider's error in its message.
NextProvider(c, again) ==
    /\ tried' = [tried EXCEPT ![c] = @ \cup {Head(chain[c])}]
    /\ \/ Len(chain[c]) = 1 /\ Return(c, "failed")
       \/ /\ Len(chain[c]) > 1
          /\ pc' = [pc EXCEPT ![c] = again]
          /\ chain' = [chain EXCEPT ![c] = Tail(@)]
          /\ attempt' = [attempt EXCEPT ![c] = 1]

Calm == UNCHANGED <<now, until, history, sole, cold>>

\* A post is answered.  A body without candidates counts: its text is "".
PostAnswered(c) ==
    /\ pc[c] = "post"
    /\ tokens' = [tokens EXCEPT ![c] = <<Head(chain[c])>>]
    /\ Return(c, "answered") /\ UNCHANGED tried /\ Calm

Asking(p, deadline) == [asked EXCEPT ![p] = IF deadline > @ THEN deadline ELSE @]

\* A post meets a 429: it is not retried, and _note_failure notes the deadline
\* that this answer asks for, whatever was noted before.
PostLimited(c) ==
    /\ pc[c] = "post"
    /\ LET p == Head(chain[c])
       IN  \E header, body \in Hints :
             LET deadline == now + CooldownSeconds(header, body)
             IN  /\ until' = [until EXCEPT ![p] = deadline]
                 /\ shortened' = IF deadline < until[p] THEN shortened \cup {p}
                                                        ELSE shortened
                 /\ asked' = Asking(p, deadline)
    /\ NextProvider(c, "post")
    /\ UNCHANGED <<now, tokens, unheard, sole, cold>>

\* Seeded fault: the attempts are not counted.
RetriesForEver(c) ==
    /\ pc[c] = "post"
    /\ pc' = [pc EXCEPT ![c] = "backoff"] /\ attempt' = [attempt EXCEPT ![c] = 0]
    /\ UNCHANGED <<chain, tried, tokens>> /\ Calm

\* A post meets a 500 to 504 or a transport error: the client waits and posts
\* again, up to its limit.
PostTransient(c) ==
    /\ pc[c] = "post"
    /\ IF attempt[c] < MaxRetries
       THEN pc' = [pc EXCEPT ![c] = "backoff"] /\ UNCHANGED <<chain, tried, attempt>>
       ELSE NextProvider(c, "post")
    /\ UNCHANGED tokens /\ Calm

\* Seeded fault: an exhausted retry loop raises instead of trying the next one.
GivesUp(c) ==
    /\ pc[c] = "backoff"
    /\ Return(c, "failed") /\ UNCHANGED <<tokens, tried>> /\ Calm

Backoff(c) ==
    /\ pc[c] = "backoff"
    /\ pc' = [pc EXCEPT ![c] = "post"]
    /\ attempt' = [attempt EXCEPT ![c] = @ + 1]
    /\ UNCHANGED <<chain, tokens, tried>> /\ Calm

\* A post meets any other status: an HTTPStatusError, which the chain takes as
\* a reason to try the next provider.
PostRefused(c) ==
    /\ pc[c] = "post" /\ NextProvider(c, "post")
    /\ UNCHANGED tokens /\ Calm

\* A body that is no JSON, or not the expected shape, is no retryable error.
Garbled(c) ==
    /\ pc[c] \in {"post", "reading"}
    /\ Return(c, "raised") /\ UNCHANGED <<tokens, tried>> /\ Calm

\* A stream is accepted.
Connected(c) ==
    /\ pc[c] = "connect"
    /\ pc' = [pc EXCEPT ![c] = "reading"]
    /\ UNCHANGED <<chain, attempt, tokens, tried>> /\ Calm

\* A stream is refused with a status.  The handler that logs it reads the body
\* of a response that was not read: httpx raises ResponseNotRead, a
\* RuntimeError that carries no response, so that _note_failure sees no 429.
StreamRefused(c) ==
    /\ pc[c] = "connect"
    /\ \/ UNCHANGED <<unheard, asked>>
       \/ LET p == Head(chain[c])
          IN  /\ unheard' = unheard \cup {p}
              /\ \E header, body \in Hints :
                    asked' = Asking(p, now + CooldownSeconds(header, body))
    /\ NextProvider(c, "connect")
    /\ UNCHANGED <<now, until, tokens, shortened, sole, cold>>

Token(c) ==
    /\ pc[c] = "reading" /\ Len(tokens[c]) < MaxTokens
    /\ tokens' = [tokens EXCEPT ![c] = Append(@, Head(chain[c]))]
    /\ UNCHANGED <<pc, chain, attempt, tried>> /\ Calm

StreamEnds(c) ==
    /\ pc[c] = "reading"
    /\ Return(c, "answered") /\ UNCHANGED <<tokens, tried>> /\ Calm

\* Seeded fault: a broken stream moves on whatever the client was given.
AlwaysFallsBack(c) ==
    /\ pc[c] \in {"connect", "reading"}
    /\ NextProvider(c, "connect")
    /\ UNCHANGED tokens /\ Calm

\* The connection breaks.  Once a token was given to the client the error is
\* raised; before that the next provider is tried.
StreamBreaks(c) ==
    /\ pc[c] \in {"connect", "reading"}
    /\ IF tokens[c] # <<>>
       THEN Return(c, "raised") /\ UNCHANGED tried
       ELSE NextProvider(c, "connect")
    /\ UNCHANGED tokens /\ Calm

Tick == /\ now < MaxTime /\ now' = now + 1
        /\ UNCHANGED <<until, pc, chain, attempt, tokens, history, sole, cold, tried>>

Respond(c) == \/ PostAnswered(c) \/ PostLimited(c) \/ PostTransient(c)
              \/ PostRefused(c) \/ Garbled(c) \/ Backoff(c)
              \/ Connected(c) \/ StreamRefused(c) \/ StreamEnds(c) \/ StreamBreaks(c)

Next == \/ Tick
        \/ \E c \in Calls : Generate(c) \/ Stream(c) \/ Respond(c) \/ Token(c)

\* Every await ends: a request has a connect and a read timeout, a pause ends,
\* and an answer is cut off at the provider's budget of tokens.
Fairness == \A c \in Calls : WF_vars(Respond(c))

Spec == Init /\ [][Next]_vars /\ Fairness

-----------------------------------------------------------------------------
(* Properties *)

TypeOK ==
    /\ now \in 0..MaxTime
    /\ until \in [Providers -> Nat] /\ asked \in [Providers -> Nat]
    /\ pc \in [Calls -> Ended \cup {"post", "backoff", "connect", "reading"}]
    /\ chain \in [Calls -> Seq(Providers)] /\ tokens \in [Calls -> Seq(Providers)]
    /\ attempt \in [Calls -> 0..MaxRetries]
    /\ shortened \subseteq Providers /\ unheard \subseteq Providers
    /\ sole \in [Calls -> BOOLEAN]
    /\ cold \in [Calls -> SUBSET Providers] /\ tried \in [Calls -> SUBSET Providers]

\* What the client reads of one answer comes from one provider: a stream is
\* handed to the next provider only before its first token (_stream_impl).
OneVoice == \A c \in Calls : \A i, j \in DOMAIN tokens[c] : tokens[c][i] = tokens[c][j]

\* The providers a call addresses, past and present.
Addressed(c) == tried[c] \cup {chain[c][i] : i \in DOMAIN chain[c]}

\* A provider that asked to be left alone is not called before that time unless
\* none is ready, except in the two ways the code forgets what was asked: a
\* later 429 with a shorter delay overwrites it, and a stream's is not noted.
LimitedSkipped ==
    \A c \in Calls : \A p \in Addressed(c) \cap cold[c] :
        sole[c] \/ p \in shortened \cup unheard

\* A call fails with "all providers failed" only after every provider that had
\* not asked to be left alone was tried, whatever the other calls noted since.
FailedTriedAll ==
    \A c \in Calls : pc[c] = "failed" /\ ~sole[c] => Providers \ cold[c] \subseteq tried[c]

\* The chain is one LLM to its callers: it implements Generation.
Phase == [c \in Calls |-> CASE pc[c] \in {"idle", "answered"} -> pc[c]
                            [] pc[c] \in {"raised", "failed"} -> "failed"
                            [] OTHER -> "running"]

OneLLM == INSTANCE Generation WITH
    Voices <- Providers, Nobody <- 0, phase <- Phase,
    spoken <- [c \in Calls |-> Len(tokens[c])],
    voice <- [c \in Calls |-> IF tokens[c] = <<>> THEN 0 ELSE tokens[c][Len(tokens[c])]]

\* Every step of the chain is a step of one LLM or invisible, and every call ends.
Implements == OneLLM!Spec

=============================================================================
