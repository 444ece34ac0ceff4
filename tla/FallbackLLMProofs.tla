-------------------------- MODULE FallbackLLMProofs --------------------------
(***************************************************************************)
(* Proofs about FallbackLLM for every number of concurrent calls, of       *)
(* providers and of retries: the providers that asked to be left alone are *)
(* left alone, a call fails only after the others, and the chain is one    *)
(* LLM (Generation) to whoever reads its answer.                           *)
(***************************************************************************)
EXTENDS FallbackLLM, OrderLemmas, SequenceTheorems

Running(c) == pc[c] \notin Ended

(* What is noted of a provider never goes beyond what it asked for, and    *)
(* falls short of it only in the two ways the code forgets.                *)
Noted ==
  \A p \in Providers :
    /\ until[p] <= asked[p]
    /\ until[p] < asked[p] => p \in shortened \cup unheard

(* A call that runs has a provider to address, says nothing before its     *)
(* stream is open and then speaks with that provider's voice.              *)
OnTurn(c) ==
  /\ Running(c) => chain[c] # <<>>
  /\ pc[c] = "backoff" => attempt[c] < MaxRetries
  /\ pc[c] \in {"post", "backoff", "connect"} => tokens[c] = <<>>
  /\ pc[c] = "reading" => \A i \in DOMAIN tokens[c] : tokens[c][i] = Head(chain[c])

(* While it runs, whoever had not asked to be left alone was tried or will *)
(* be, unless none was ready.                                              *)
Reaches(c) == Running(c) /\ ~sole[c] => Providers \ cold[c] \subseteq Addressed(c)

(* What the invariants of the chain say of one call.                       *)
OneVoiceOf(c) == \A i, j \in DOMAIN tokens[c] : tokens[c][i] = tokens[c][j]
SkipsLimited(c) ==
  \A p \in Addressed(c) \cap cold[c] : sole[c] \/ p \in shortened \cup unheard
TriedAll(c) == pc[c] = "failed" /\ ~sole[c] => Providers \ cold[c] \subseteq tried[c]

CallInv(c) == OnTurn(c) /\ Reaches(c) /\ OneVoiceOf(c) /\ SkipsLimited(c) /\ TriedAll(c)

IInv == TypeOK /\ Noted /\ \A c \in Calls : CallInv(c)

-----------------------------------------------------------------------------
(* What a snapshot that is not used up consists of.                        *)
LEMMA Snapshot ==
  ASSUME NEW s \in Seq(Providers), s # <<>>
  PROVE  /\ Head(s) \in Providers
         /\ Len(s) = 1 => {s[i] : i \in DOMAIN s} = {Head(s)}
         /\ Len(s) > 1 => /\ Tail(s) \in Seq(Providers) /\ Tail(s) # <<>>
                          /\ {s[i] : i \in DOMAIN s}
                               = {Head(s)} \cup {Tail(s)[i] : i \in DOMAIN Tail(s)}
<1>1. Len(s) \in Nat \ {0} /\ Head(s) = s[1] /\ DOMAIN s = 1..Len(s)
  OBVIOUS
<1>2. Head(s) \in Providers
  BY <1>1
<1>3. ASSUME Len(s) = 1 PROVE {s[i] : i \in DOMAIN s} = {Head(s)}
  BY <1>1, <1>3
<1>4. ASSUME Len(s) > 1
      PROVE  /\ Tail(s) \in Seq(Providers) /\ Tail(s) # <<>>
             /\ {s[i] : i \in DOMAIN s} = {Head(s)} \cup {Tail(s)[i] : i \in DOMAIN Tail(s)}
  <2>1. /\ Tail(s) \in Seq(Providers) /\ Len(Tail(s)) = Len(s) - 1
        /\ \A i \in 1..(Len(s) - 1) : Tail(s)[i] = s[i + 1]
    BY HeadTailProperties
  <2>2. Tail(s) # <<>>
    <3>1. Len(Tail(s)) > 0
      BY <1>4, <2>1, LenProperties
    <3>2. Len(<<>>) = 0
      OBVIOUS
    <3> QED
      BY <3>1, <3>2
  <2>3. DOMAIN Tail(s) = 1..(Len(s) - 1)
    BY <2>1
  <2>4. \A i \in DOMAIN s : i = 1 \/ (i - 1 \in DOMAIN Tail(s) /\ Tail(s)[i - 1] = s[i])
    BY <1>1, <2>1, <2>3
  <2>5. \A i \in DOMAIN Tail(s) : i + 1 \in DOMAIN s /\ s[i + 1] = Tail(s)[i]
    BY <1>1, <2>1, <2>3
  <2>6. 1 \in DOMAIN s
    BY <1>1
  <2>7. \A x : x \in {s[i] : i \in DOMAIN s}
               <=> x \in {Head(s)} \cup {Tail(s)[i] : i \in DOMAIN Tail(s)}
    BY <1>1, <2>4, <2>5, <2>6
  <2> QED
    BY <2>1, <2>2, <2>7
<1> QED
  BY <1>2, <1>3, <1>4

(* min() over the cooldowns finds a provider.                              *)
LEMMA SoonestIsProvider ==
  ASSUME ChainAssumption, TypeOK
  PROVE  Soonest \in Providers
<1>1. PICK t \in {until[p] : p \in Providers} : \A u \in {until[p] : p \in Providers} : t <= u
  <2>1. {until[p] : p \in Providers} \in SUBSET Nat
    BY DEF TypeOK
  <2>2. until[1] \in {until[p] : p \in Providers}
    BY DEF ChainAssumption, Providers
  <2> QED
    BY <2>1, <2>2, LeastNumber
<1>2. PICK p \in {q \in Providers : until[q] = t} : \A q \in {q \in Providers : until[q] = t} : p <= q
  <2>1. {q \in Providers : until[q] = t} \in SUBSET Nat
    BY DEF Providers
  <2>2. {q \in Providers : until[q] = t} # {}
    BY <1>1
  <2> QED
    BY <2>1, <2>2, LeastNumber
<1>3. \A q \in Providers : until[p] < until[q] \/ (until[p] = until[q] /\ p <= q)
  <2> SUFFICES ASSUME NEW q \in Providers
               PROVE  until[p] < until[q] \/ (until[p] = until[q] /\ p <= q)
    OBVIOUS
  <2>1. until[p] = t /\ t <= until[q] /\ until[q] \in Nat /\ t \in Nat
    BY <1>1, <1>2 DEF TypeOK
  <2>2. until[q] = t => p <= q
    BY <1>2
  <2> QED
    BY <2>1, <2>2
<1> QED
  BY <1>2, <1>3 DEF Soonest

(* A snapshot has every ready provider and no other, or only the soonest.  *)
LEMMA SnapshotOf ==
  ASSUME ChainAssumption, TypeOK, NEW s \in Available
  PROVE  /\ s \in Seq(Providers) /\ s # <<>>
         /\ Ready # {} => {s[i] : i \in DOMAIN s} = Ready
<1>1. CASE Ready # {}
  <2>1. s \in InOrder(Ready)
    BY <1>1 DEF Available
  <2>2. PICK n \in 0..N : s \in [1..n -> Ready]
    BY <2>1 DEF InOrder
  <2>3. \A p \in Ready : \E i \in DOMAIN s : s[i] = p
    BY <2>1 DEF InOrder
  <2>4. n \in Nat /\ Ready \subseteq Providers
    BY DEF ChainAssumption, Ready
  <2>5. s \in Seq(Providers)
    BY <2>2, <2>4
  <2>6. s # <<>>
    BY <1>1, <2>3
  <2>7. {s[i] : i \in DOMAIN s} = Ready
    BY <2>2, <2>3
  <2> QED
    BY <2>5, <2>6, <2>7
<1>2. CASE Ready = {}
  <2>1. s = <<Soonest>>
    BY <1>2 DEF Available
  <2> QED
    BY <1>2, <2>1, SoonestIsProvider
<1> QED
  BY <1>1, <1>2

-----------------------------------------------------------------------------
(* A step of another call, the clock included, leaves a call as it is: what *)
(* the chain notes of its providers only grows.                            *)
LEMMA OthersKeep ==
  ASSUME NEW c \in Calls, CallInv(c),
         pc'[c] = pc[c], chain'[c] = chain[c], attempt'[c] = attempt[c],
         tokens'[c] = tokens[c], sole'[c] = sole[c], cold'[c] = cold[c], tried'[c] = tried[c],
         shortened \subseteq shortened', unheard \subseteq unheard'
  PROVE  CallInv(c)'
<1>1. OnTurn(c)'
  BY DEF CallInv, OnTurn, Running
<1>2. Reaches(c)'
  BY DEF CallInv, Reaches, Running, Addressed
<1>3. OneVoiceOf(c)'
  BY DEF CallInv, OneVoiceOf
<1>4. SkipsLimited(c)'
  BY DEF CallInv, SkipsLimited, Addressed
<1>5. TriedAll(c)'
  BY DEF CallInv, TriedAll
<1> QED
  BY <1>1, <1>2, <1>3, <1>4, <1>5 DEF CallInv

(* A call that begins: whoever had not asked to be left alone is ready.    *)
LEMMA BeginKeeps ==
  ASSUME ChainAssumption, TypeOK, Noted, NEW c \in Calls, NEW where \in {"post", "connect"},
         Begin(c, where)
  PROVE  CallInv(c)' /\ chain' \in [Calls -> Seq(Providers)]
<1>1. PICK s \in Available : chain' = [chain EXCEPT ![c] = s]
  BY DEF Begin
<1>2. s \in Seq(Providers) /\ s # <<>> /\ (Ready # {} => {s[i] : i \in DOMAIN s} = Ready)
  BY <1>1, SnapshotOf
<1>3. /\ pc'[c] = where /\ chain'[c] = s /\ tokens'[c] = <<>> /\ tried'[c] = {}
      /\ sole'[c] = (Ready = {}) /\ cold'[c] = {p \in Providers : asked[p] > now}
      /\ shortened' = shortened /\ unheard' = unheard
  BY <1>1 DEF Begin, TypeOK, history
<1>4. Addressed(c)' = {s[i] : i \in DOMAIN s}
  BY <1>3 DEF Addressed
<1>5. ASSUME NEW p \in Providers
      PROVE  until[p] \in Nat /\ asked[p] \in Nat /\ now \in Int
  BY DEF TypeOK
<1>6. ASSUME NEW p \in Providers, ~(asked[p] > now) PROVE p \in Ready
  BY <1>5, <1>6 DEF Noted, Ready
<1>7. ASSUME NEW p \in Ready, asked[p] > now PROVE p \in shortened \cup unheard
  BY <1>5, <1>7 DEF Noted, Ready
<1>8. OnTurn(c)'
  BY <1>2, <1>3 DEF OnTurn
<1>9. Reaches(c)'
  BY <1>2, <1>3, <1>4, <1>6 DEF Reaches
<1>10. OneVoiceOf(c)'
  BY <1>3 DEF OneVoiceOf
<1>11. SkipsLimited(c)'
  BY <1>2, <1>3, <1>4, <1>7 DEF SkipsLimited
<1>12. TriedAll(c)'
  BY <1>3 DEF TriedAll
<1> QED
  BY <1>1, <1>2, <1>8, <1>9, <1>10, <1>11, <1>12 DEF CallInv, TypeOK

(* A call whose provider failed addresses the rest of its snapshot, and    *)
(* fails only when there is none left.                                     *)
LEMMA NextProviderKeeps ==
  ASSUME ChainAssumption, TypeOK, NEW c \in Calls, CallInv(c), Running(c),
         NEW again \in {"post", "connect"}, NextProvider(c, again),
         tokens'[c] = <<>>, sole'[c] = sole[c], cold'[c] = cold[c],
         shortened \subseteq shortened', unheard \subseteq unheard'
  PROVE  CallInv(c)'
<1> DEFINE s == chain[c]
<1>1. s \in Seq(Providers) /\ s # <<>>
  BY DEF TypeOK, CallInv, OnTurn
<1>2. tried'[c] = tried[c] \cup {Head(s)}
  BY DEF NextProvider, TypeOK
<1>3. CASE Len(s) = 1 /\ Return(c, "failed")
  <2>1. pc'[c] = "failed" /\ chain'[c] = <<>>
    BY <1>3 DEF Return, TypeOK
  <2>2. Addressed(c) = tried[c] \cup {Head(s)} /\ Addressed(c)' = tried'[c]
    BY <1>1, <1>3, <2>1, Snapshot DEF Addressed
  <2>3. OnTurn(c)'
    BY <2>1 DEF OnTurn, Running, Ended
  <2>4. Reaches(c)' /\ OneVoiceOf(c)'
    BY <2>1 DEF Reaches, OneVoiceOf, Running, Ended
  <2>5. SkipsLimited(c)'
    BY <1>2, <2>2 DEF CallInv, SkipsLimited
  <2>6. TriedAll(c)'
    BY <1>2, <2>2 DEF CallInv, Reaches, TriedAll
  <2> QED
    BY <2>3, <2>4, <2>5, <2>6 DEF CallInv
<1>4. CASE /\ Len(s) > 1
           /\ pc' = [pc EXCEPT ![c] = again]
           /\ chain' = [chain EXCEPT ![c] = Tail(@)]
  <2>1. pc'[c] = again /\ chain'[c] = Tail(s)
    BY <1>4 DEF TypeOK
  <2>2. /\ Tail(s) # <<>>
        /\ {s[i] : i \in DOMAIN s} = {Head(s)} \cup {Tail(s)[i] : i \in DOMAIN Tail(s)}
    BY <1>1, <1>4, Snapshot
  <2>3. Addressed(c)' = Addressed(c)
    BY <1>2, <2>1, <2>2 DEF Addressed
  <2>4. OnTurn(c)'
    BY <2>1, <2>2 DEF OnTurn
  <2>5. Reaches(c)'
    BY <2>3 DEF CallInv, Reaches
  <2>6. OneVoiceOf(c)' /\ TriedAll(c)'
    BY <2>1 DEF OneVoiceOf, TriedAll
  <2>7. SkipsLimited(c)'
    BY <2>3 DEF CallInv, SkipsLimited
  <2> QED
    BY <2>4, <2>5, <2>6, <2>7 DEF CallInv
<1> QED
  BY <1>3, <1>4 DEF NextProvider

(* A call that ends answered, or with an error that is not retried.        *)
LEMMA ReturnKeeps ==
  ASSUME TypeOK, NEW c \in Calls, CallInv(c), NEW how \in {"answered", "raised"},
         Return(c, how), tried' = tried, OneVoiceOf(c)', sole'[c] = sole[c], cold'[c] = cold[c],
         shortened \subseteq shortened', unheard \subseteq unheard'
  PROVE  CallInv(c)'
<1>1. pc'[c] = how /\ chain'[c] = <<>>
  BY DEF Return, TypeOK
<1>2. Addressed(c)' \subseteq Addressed(c)
  BY <1>1 DEF Addressed
<1>3. OnTurn(c)' /\ Reaches(c)' /\ TriedAll(c)'
  BY <1>1 DEF OnTurn, Reaches, TriedAll, Running, Ended
<1>4. SkipsLimited(c)'
  BY <1>2 DEF CallInv, SkipsLimited
<1> QED
  BY <1>3, <1>4 DEF CallInv

-----------------------------------------------------------------------------
(* The types of what a call that moves on or ends leaves behind.           *)
LEMMA NextProviderTypes ==
  ASSUME ChainAssumption, TypeOK, NEW c \in Calls, chain[c] # <<>>,
         NEW again \in {"post", "connect"}, NextProvider(c, again)
  PROVE  /\ pc' \in [Calls -> Ended \cup {"post", "backoff", "connect", "reading"}]
         /\ chain' \in [Calls -> Seq(Providers)] /\ attempt' \in [Calls -> 0..MaxRetries]
         /\ tried' \in [Calls -> SUBSET Providers]
<1>1. chain[c] \in Seq(Providers)
  BY DEF TypeOK
<1>2. Head(chain[c]) \in Providers /\ (Len(chain[c]) > 1 => Tail(chain[c]) \in Seq(Providers))
  BY <1>1, Snapshot
<1>3. tried' \in [Calls -> SUBSET Providers]
  BY <1>2 DEF NextProvider, TypeOK
<1>4. 0 \in 0..MaxRetries /\ 1 \in 0..MaxRetries
  BY DEF ChainAssumption
<1>5. <<>> \in Seq(Providers)
  OBVIOUS
<1>6. CASE Return(c, "failed")
  <2>1. pc' \in [Calls -> Ended \cup {"post", "backoff", "connect", "reading"}]
    BY <1>6 DEF Return, TypeOK, Ended
  <2>2. attempt' \in [Calls -> 0..MaxRetries]
    BY <1>4, <1>6 DEF Return, TypeOK
  <2>3. chain' \in [Calls -> Seq(Providers)]
    BY <1>5, <1>6, Zenon DEF Return, TypeOK
  <2> QED
    BY <1>3, <2>1, <2>2, <2>3
<1>7. CASE /\ Len(chain[c]) > 1
           /\ pc' = [pc EXCEPT ![c] = again]
           /\ chain' = [chain EXCEPT ![c] = Tail(@)]
           /\ attempt' = [attempt EXCEPT ![c] = 1]
  <2>1. pc' \in [Calls -> Ended \cup {"post", "backoff", "connect", "reading"}]
    BY <1>7 DEF TypeOK
  <2>2. attempt' \in [Calls -> 0..MaxRetries]
    BY <1>4, <1>7 DEF TypeOK
  <2>3. chain' \in [Calls -> Seq(Providers)]
    BY <1>2, <1>7, Zenon DEF TypeOK
  <2> QED
    BY <1>3, <2>1, <2>2, <2>3
<1> QED
  BY <1>3, <1>6, <1>7 DEF NextProvider

(* and of one that returns.                                                *)
LEMMA ReturnTypes ==
  ASSUME ChainAssumption, TypeOK, NEW c \in Calls, NEW how \in Ended, Return(c, how)
  PROVE  /\ pc' \in [Calls -> Ended \cup {"post", "backoff", "connect", "reading"}]
         /\ chain' \in [Calls -> Seq(Providers)] /\ attempt' \in [Calls -> 0..MaxRetries]
<1>1. 0 \in 0..MaxRetries /\ <<>> \in Seq(Providers)
  BY DEF ChainAssumption
<1> QED
  BY <1>1 DEF Return, TypeOK

(* A deadline is a natural number.                                         *)
LEMMA DeadlineType ==
  ASSUME ChainAssumption, TypeOK, NEW header \in Hints, NEW body \in Hints
  PROVE  now + CooldownSeconds(header, body) \in Nat
<1>1. /\ header # <<>> => header[1] \in Nat
      /\ body # <<>> => body[1] \in Nat
  BY DEF ChainAssumption
<1>2. CooldownSeconds(header, body) \in Nat
  BY <1>1 DEF CooldownSeconds, Smaller, ChainAssumption
<1>3. now \in Nat
  BY DEF TypeOK
<1> QED
  BY <1>2, <1>3

(* A 429 keeps the notes in order: they fall short of what was asked only  *)
(* for the provider whose cooldown this one shortens,                      *)
LEMMA LimitedNoted ==
  ASSUME TypeOK, Noted, NEW p \in Providers, NEW deadline \in Nat,
         until' = [until EXCEPT ![p] = deadline],
         shortened' = IF deadline < until[p] THEN shortened \cup {p} ELSE shortened,
         asked' = Asking(p, deadline), unheard' = unheard
  PROVE  Noted' /\ until' \in [Providers -> Nat] /\ asked' \in [Providers -> Nat]
<1>1. \A q \in Providers : until[q] \in Nat /\ asked[q] \in Nat
  BY DEF TypeOK
<1>2. /\ until'[p] = deadline
      /\ asked'[p] = IF deadline > asked[p] THEN deadline ELSE asked[p]
      /\ \A q \in Providers \ {p} : until'[q] = until[q] /\ asked'[q] = asked[q]
  BY DEF TypeOK, Asking
<1>3. shortened \subseteq shortened'
  OBVIOUS
<1>4. until'[p] <= asked'[p] /\ (until'[p] < asked'[p] => p \in shortened' \cup unheard')
  BY <1>1, <1>2 DEF Noted
<1>5. \A q \in Providers \ {p} :
        until'[q] <= asked'[q] /\ (until'[q] < asked'[q] => q \in shortened' \cup unheard')
  BY <1>2, <1>3 DEF Noted
<1>6. until' \in [Providers -> Nat] /\ asked' \in [Providers -> Nat]
  BY <1>1 DEF TypeOK, Asking
<1> QED
  BY <1>4, <1>5, <1>6 DEF Noted

(* and for one whose refusal of a stream was not noted.                    *)
LEMMA UnheardNoted ==
  ASSUME TypeOK, Noted, NEW p \in Providers, NEW deadline \in Nat,
         until' = until, shortened' = shortened,
         asked' = Asking(p, deadline), unheard' = unheard \cup {p}
  PROVE  Noted' /\ asked' \in [Providers -> Nat]
<1>1. \A q \in Providers : until[q] \in Nat /\ asked[q] \in Nat
  BY DEF TypeOK
<1>2. /\ asked'[p] = IF deadline > asked[p] THEN deadline ELSE asked[p]
      /\ \A q \in Providers \ {p} : asked'[q] = asked[q]
  BY DEF TypeOK, Asking
<1>3. \A q \in Providers :
        until'[q] <= asked'[q] /\ (until'[q] < asked'[q] => q \in shortened' \cup unheard')
  BY <1>1, <1>2 DEF Noted
<1>4. asked' \in [Providers -> Nat]
  BY <1>1 DEF TypeOK, Asking
<1> QED
  BY <1>3, <1>4 DEF Noted

-----------------------------------------------------------------------------
(* A step of one call.                                                     *)
CallStep(c) == Generate(c) \/ Stream(c) \/ Respond(c) \/ Token(c)

(* A step of one call changes nothing that is another's, and forgets no    *)
(* provider whose wish was lost.                                           *)
LEMMA Elsewhere ==
  ASSUME TypeOK, NEW c \in Calls, CallStep(c), NEW d \in Calls, d # c
  PROVE  /\ pc'[d] = pc[d] /\ chain'[d] = chain[d] /\ attempt'[d] = attempt[d]
         /\ tokens'[d] = tokens[d] /\ sole'[d] = sole[d]
         /\ cold'[d] = cold[d] /\ tried'[d] = tried[d]
         /\ shortened \subseteq shortened' /\ unheard \subseteq unheard'
<1> DEFINE Same == /\ pc'[d] = pc[d] /\ chain'[d] = chain[d] /\ attempt'[d] = attempt[d]
                   /\ tokens'[d] = tokens[d] /\ sole'[d] = sole[d]
                   /\ cold'[d] = cold[d] /\ tried'[d] = tried[d]
                   /\ shortened \subseteq shortened' /\ unheard \subseteq unheard'
<1>1. ASSUME NEW where, Begin(c, where) PROVE Same
  BY <1>1 DEF Begin, TypeOK, history
<1>2. ASSUME NEW how, Return(c, how)
      PROVE  pc'[d] = pc[d] /\ chain'[d] = chain[d] /\ attempt'[d] = attempt[d]
  BY <1>2 DEF Return, TypeOK
<1>3. ASSUME NEW again, NextProvider(c, again)
      PROVE  /\ pc'[d] = pc[d] /\ chain'[d] = chain[d] /\ attempt'[d] = attempt[d]
             /\ tried'[d] = tried[d]
  BY <1>2, <1>3 DEF NextProvider, TypeOK
<1>4. ASSUME Calm
      PROVE  sole' = sole /\ cold' = cold /\ shortened' = shortened /\ unheard' = unheard
  BY <1>4 DEF Calm, history
<1>5. CASE Generate(c) \/ Stream(c)
  BY <1>1, <1>5 DEF Generate, Stream
<1>6. CASE PostAnswered(c)
  BY <1>2, <1>4, <1>6 DEF PostAnswered, TypeOK
<1>7. CASE PostLimited(c)
  BY <1>3, <1>7 DEF PostLimited
<1>8. CASE PostTransient(c)
  BY <1>3, <1>4, <1>8 DEF PostTransient, TypeOK
<1>9. CASE PostRefused(c)
  BY <1>3, <1>4, <1>9 DEF PostRefused
<1>10. CASE Garbled(c) \/ StreamEnds(c)
  BY <1>2, <1>4, <1>10 DEF Garbled, StreamEnds
<1>11. CASE Backoff(c) \/ Connected(c) \/ Token(c)
  BY <1>4, <1>11 DEF Backoff, Connected, Token, TypeOK
<1>12. CASE StreamRefused(c)
  BY <1>3, <1>12 DEF StreamRefused
<1>13. CASE StreamBreaks(c)
  BY <1>2, <1>3, <1>4, <1>13 DEF StreamBreaks
<1> QED
  BY <1>5, <1>6, <1>7, <1>8, <1>9, <1>10, <1>11, <1>12, <1>13 DEF CallStep, Respond

(* A step that notes nothing about a provider.                             *)
LEMMA CalmKeeps ==
  ASSUME TypeOK, Noted, Calm
  PROVE  /\ Noted' /\ shortened' = shortened /\ unheard' = unheard
         /\ sole' = sole /\ cold' = cold
         /\ now' \in 0..MaxTime
         /\ until' \in [Providers -> Nat] /\ asked' \in [Providers -> Nat]
         /\ shortened' \subseteq Providers /\ unheard' \subseteq Providers
         /\ sole' \in [Calls -> BOOLEAN] /\ cold' \in [Calls -> SUBSET Providers]
<1>1. /\ now' = now /\ until' = until /\ asked' = asked /\ shortened' = shortened
      /\ unheard' = unheard /\ sole' = sole /\ cold' = cold
  BY DEF Calm, history
<1> QED
  BY <1>1 DEF TypeOK, Noted

(* A call whose provider failed and that noted nothing.                    *)
LEMMA MovesOn ==
  ASSUME ChainAssumption, IInv, NEW c \in Calls, Running(c), tokens[c] = <<>>,
         NEW again \in {"post", "connect"}, NextProvider(c, again), tokens' = tokens, Calm
  PROVE  TypeOK' /\ Noted' /\ CallInv(c)'
<1>1. TypeOK /\ Noted /\ CallInv(c)
  BY DEF IInv
<1>2. chain[c] # <<>>
  BY <1>1 DEF CallInv, OnTurn
<1>3. Noted' /\ CallInv(c)'
  BY <1>1, CalmKeeps, NextProviderKeeps
<1>4. TypeOK'
  BY <1>1, <1>2, CalmKeeps, NextProviderTypes DEF TypeOK
<1> QED
  BY <1>3, <1>4

(* A call that ends and that noted nothing.                                *)
LEMMA ComesBack ==
  ASSUME ChainAssumption, IInv, NEW c \in Calls, NEW how \in {"answered", "raised"},
         Return(c, how), tried' = tried, tokens' \in [Calls -> Seq(Providers)],
         OneVoiceOf(c)', Calm
  PROVE  TypeOK' /\ Noted' /\ CallInv(c)'
<1>1. TypeOK /\ Noted /\ CallInv(c)
  BY DEF IInv
<1>2. Noted' /\ CallInv(c)'
  BY <1>1, CalmKeeps, ReturnKeeps
<1>3. how \in Ended
  BY DEF Ended
<1>4. TypeOK'
  BY <1>1, <1>3, CalmKeeps, ReturnTypes DEF TypeOK
<1> QED
  BY <1>2, <1>4

-----------------------------------------------------------------------------
(* Every step of a call keeps what is known of it and of the notes.        *)
LEMMA CallStepKeeps ==
  ASSUME ChainAssumption, IInv, NEW c \in Calls, CallStep(c)
  PROVE  TypeOK' /\ Noted' /\ CallInv(c)'
<1>1. TypeOK /\ Noted /\ CallInv(c)
  BY DEF IInv
<1>2. Running(c) => Head(chain[c]) \in Providers
  BY <1>1, Snapshot DEF CallInv, OnTurn, TypeOK
<1>3. ASSUME NEW where \in {"post", "connect"}, Begin(c, where)
      PROVE  TypeOK' /\ Noted' /\ CallInv(c)'
  <2>1. CallInv(c)' /\ chain' \in [Calls -> Seq(Providers)]
    BY <1>1, <1>3, BeginKeeps
  <2>2. Noted'
    BY <1>1, <1>3 DEF Begin, Noted, history
  <2>3. attempt' \in [Calls -> 0..MaxRetries]
    BY <1>1, <1>3 DEF Begin, TypeOK, ChainAssumption
  <2>4. tokens' \in [Calls -> Seq(Providers)]
    <3>1. <<>> \in Seq(Providers)
      OBVIOUS
    <3> QED
      BY <1>1, <1>3, <3>1, Zenon DEF Begin, TypeOK
  <2>5. sole' \in [Calls -> BOOLEAN]
    <3>1. (Ready = {}) \in BOOLEAN
      OBVIOUS
    <3> QED
      BY <1>1, <1>3, <3>1, Zenon DEF Begin, TypeOK
  <2>6. cold' \in [Calls -> SUBSET Providers] /\ tried' \in [Calls -> SUBSET Providers]
    BY <1>1, <1>3 DEF Begin, TypeOK
  <2>7. pc' \in [Calls -> Ended \cup {"post", "backoff", "connect", "reading"}]
    BY <1>1, <1>3 DEF Begin, TypeOK
  <2>8. /\ now' \in 0..MaxTime /\ until' \in [Providers -> Nat]
        /\ asked' \in [Providers -> Nat]
        /\ shortened' \subseteq Providers /\ unheard' \subseteq Providers
    BY <1>1, <1>3 DEF Begin, TypeOK, history
  <2> QED
    BY <2>1, <2>2, <2>3, <2>4, <2>5, <2>6, <2>7, <2>8 DEF TypeOK
<1>4. CASE Generate(c) \/ Stream(c)
  BY <1>3, <1>4 DEF Generate, Stream
<1>5. CASE PostAnswered(c)
  <2>1. Head(chain[c]) \in Providers
    BY <1>2, <1>5 DEF PostAnswered, Running, Ended
  <2>2. <<Head(chain[c])>> \in Seq(Providers)
    BY <2>1
  <2>3. tokens' \in [Calls -> Seq(Providers)] /\ tokens'[c] = <<Head(chain[c])>>
    BY <1>1, <1>5, <2>2, Zenon DEF PostAnswered, TypeOK
  <2>4. OneVoiceOf(c)'
    BY <2>3 DEF OneVoiceOf
  <2> QED
    BY <1>5, <2>3, <2>4, ComesBack DEF PostAnswered
<1>6. CASE PostLimited(c)
  <2> DEFINE p == Head(chain[c])
  <2>1. p \in Providers /\ Running(c) /\ tokens[c] = <<>> /\ chain[c] # <<>>
    BY <1>1, <1>2, <1>6 DEF PostLimited, Running, Ended, CallInv, OnTurn
  <2>2. PICK header, body \in Hints :
          /\ until' = [until EXCEPT ![p] = now + CooldownSeconds(header, body)]
          /\ shortened' = IF now + CooldownSeconds(header, body) < until[p]
                          THEN shortened \cup {p} ELSE shortened
          /\ asked' = Asking(p, now + CooldownSeconds(header, body))
    BY <1>6 DEF PostLimited
  <2>3. now + CooldownSeconds(header, body) \in Nat
    BY <1>1, DeadlineType
  <2>4. /\ now' = now /\ tokens' = tokens /\ unheard' = unheard
        /\ sole' = sole /\ cold' = cold /\ NextProvider(c, "post")
    BY <1>6 DEF PostLimited
  <2>5. Noted' /\ until' \in [Providers -> Nat] /\ asked' \in [Providers -> Nat]
    BY <1>1, <2>1, <2>2, <2>3, <2>4, LimitedNoted
  <2>6. shortened \subseteq shortened' /\ shortened' \subseteq Providers
    BY <1>1, <2>1, <2>2 DEF TypeOK
  <2>7. CallInv(c)'
    BY <1>1, <2>1, <2>4, <2>6, NextProviderKeeps
  <2>8. TypeOK'
    BY <1>1, <2>1, <2>4, <2>5, <2>6, NextProviderTypes DEF TypeOK
  <2> QED
    BY <2>5, <2>7, <2>8
<1>7. CASE PostTransient(c)
  <2>1. Running(c) /\ tokens[c] = <<>> /\ tokens' = tokens /\ Calm
    BY <1>1, <1>7 DEF PostTransient, Running, Ended, CallInv, OnTurn
  <2>2. CASE NextProvider(c, "post")
    BY <2>1, <2>2, MovesOn
  <2>3. CASE /\ attempt[c] < MaxRetries
             /\ pc' = [pc EXCEPT ![c] = "backoff"] /\ UNCHANGED <<chain, tried, attempt>>
    <3>1. Noted'
      BY <1>1, <2>1, CalmKeeps
    <3>2. TypeOK'
      BY <1>1, <2>1, <2>3, CalmKeeps DEF TypeOK
    <3>3. pc'[c] = "backoff"
      BY <1>1, <2>3 DEF TypeOK
    <3>4. /\ tokens' = tokens /\ chain' = chain /\ tried' = tried /\ attempt' = attempt
          /\ sole' = sole /\ cold' = cold /\ shortened' = shortened /\ unheard' = unheard
      BY <2>1, <2>3 DEF Calm, history
    <3>5. OnTurn(c)'
      BY <1>1, <2>1, <2>3, <3>3, <3>4 DEF CallInv, OnTurn, Running, Ended
    <3>6. Reaches(c)' /\ TriedAll(c)'
      BY <1>1, <2>1, <3>3, <3>4 DEF CallInv, Reaches, TriedAll, Running, Ended, Addressed
    <3>7. OneVoiceOf(c)' /\ SkipsLimited(c)'
      BY <1>1, <3>4 DEF CallInv, OneVoiceOf, SkipsLimited, Addressed
    <3> QED
      BY <3>1, <3>2, <3>5, <3>6, <3>7 DEF CallInv
  <2> QED
    BY <1>7, <2>2, <2>3 DEF PostTransient
<1>8. CASE PostRefused(c)
  <2>1. Running(c) /\ tokens[c] = <<>> /\ tokens' = tokens /\ Calm /\ NextProvider(c, "post")
    BY <1>1, <1>8 DEF PostRefused, Running, Ended, CallInv, OnTurn
  <2> QED
    BY <2>1, MovesOn
<1>9. CASE Garbled(c) \/ StreamEnds(c)
  <2>1. PICK how \in {"answered", "raised"} : Return(c, how)
    BY <1>9 DEF Garbled, StreamEnds
  <2>2. tokens' = tokens /\ tried' = tried /\ Calm
    BY <1>9 DEF Garbled, StreamEnds
  <2>3. tokens' \in [Calls -> Seq(Providers)] /\ OneVoiceOf(c)'
    BY <1>1, <2>2 DEF TypeOK, CallInv, OneVoiceOf
  <2> QED
    BY <2>1, <2>2, <2>3, ComesBack

<1>10. CASE Backoff(c)
  <2>1. /\ pc[c] = "backoff" /\ pc' = [pc EXCEPT ![c] = "post"] /\ Calm
        /\ attempt' = [attempt EXCEPT ![c] = @ + 1]
        /\ chain' = chain /\ tokens' = tokens /\ tried' = tried
    BY <1>10 DEF Backoff
  <2>2. /\ pc'[c] = "post"
        /\ sole' = sole /\ cold' = cold /\ shortened' = shortened /\ unheard' = unheard
    BY <1>1, <2>1, CalmKeeps DEF TypeOK
  <2>3. attempt[c] + 1 \in 0..MaxRetries
    <3>1. attempt[c] \in 0..MaxRetries /\ MaxRetries \in Nat
      BY <1>1 DEF TypeOK, ChainAssumption
    <3>2. attempt[c] < MaxRetries
      BY <1>1, <2>1 DEF CallInv, OnTurn
    <3> QED
      BY <3>1, <3>2
  <2>4. TypeOK' /\ Noted'
    <3>1. attempt' \in [Calls -> 0..MaxRetries]
      BY <1>1, <2>1, <2>3 DEF TypeOK
    <3>2. pc' \in [Calls -> Ended \cup {"post", "backoff", "connect", "reading"}]
      BY <1>1, <2>1 DEF TypeOK
    <3> QED
      BY <1>1, <2>1, <3>1, <3>2, CalmKeeps DEF TypeOK
  <2>5. OnTurn(c)'
    BY <1>1, <2>1, <2>2 DEF CallInv, OnTurn, Running, Ended
  <2>6. Reaches(c)' /\ TriedAll(c)'
    BY <1>1, <2>1, <2>2 DEF CallInv, Reaches, TriedAll, Running, Ended, Addressed
  <2>7. OneVoiceOf(c)' /\ SkipsLimited(c)'
    BY <1>1, <2>1, <2>2 DEF CallInv, OneVoiceOf, SkipsLimited, Addressed
  <2> QED
    BY <2>4, <2>5, <2>6, <2>7 DEF CallInv
<1>11. CASE Connected(c)
  <2>1. /\ pc[c] = "connect" /\ pc' = [pc EXCEPT ![c] = "reading"] /\ Calm
        /\ chain' = chain /\ attempt' = attempt /\ tokens' = tokens /\ tried' = tried
    BY <1>11 DEF Connected
  <2>2. /\ pc'[c] = "reading"
        /\ sole' = sole /\ cold' = cold /\ shortened' = shortened /\ unheard' = unheard
    BY <1>1, <2>1, CalmKeeps DEF TypeOK
  <2>3. TypeOK' /\ Noted'
    <3>1. pc' \in [Calls -> Ended \cup {"post", "backoff", "connect", "reading"}]
      BY <1>1, <2>1 DEF TypeOK
    <3> QED
      BY <1>1, <2>1, <3>1, CalmKeeps DEF TypeOK
  <2>4. OnTurn(c)'
    BY <1>1, <2>1, <2>2 DEF CallInv, OnTurn, Running, Ended
  <2>5. Reaches(c)' /\ TriedAll(c)'
    BY <1>1, <2>1, <2>2 DEF CallInv, Reaches, TriedAll, Running, Ended, Addressed
  <2>6. OneVoiceOf(c)' /\ SkipsLimited(c)'
    BY <1>1, <2>1, <2>2 DEF CallInv, OneVoiceOf, SkipsLimited, Addressed
  <2> QED
    BY <2>3, <2>4, <2>5, <2>6 DEF CallInv
<1>12. CASE StreamRefused(c)
  <2> DEFINE p == Head(chain[c])
  <2>1. /\ p \in Providers /\ Running(c) /\ tokens[c] = <<>> /\ chain[c] # <<>>
        /\ now' = now /\ until' = until /\ tokens' = tokens /\ shortened' = shortened
        /\ sole' = sole /\ cold' = cold /\ NextProvider(c, "connect")
    BY <1>1, <1>2, <1>12 DEF StreamRefused, Running, Ended, CallInv, OnTurn
  <2>2. /\ Noted' /\ asked' \in [Providers -> Nat]
        /\ unheard \subseteq unheard' /\ unheard' \subseteq Providers
    <3>1. CASE UNCHANGED <<unheard, asked>>
      BY <1>1, <2>1, <3>1 DEF TypeOK, Noted
    <3>2. CASE /\ unheard' = unheard \cup {p}
               /\ \E header, body \in Hints :
                    asked' = Asking(p, now + CooldownSeconds(header, body))
      <4>1. PICK header, body \in Hints :
              asked' = Asking(p, now + CooldownSeconds(header, body))
        BY <3>2
      <4>2. now + CooldownSeconds(header, body) \in Nat
        BY <1>1, DeadlineType
      <4>3. Noted' /\ asked' \in [Providers -> Nat]
        BY <1>1, <2>1, <3>2, <4>1, <4>2, UnheardNoted
      <4> QED
        BY <1>1, <2>1, <3>2, <4>3 DEF TypeOK
    <3> QED
      BY <1>12, <3>1, <3>2 DEF StreamRefused
  <2>3. CallInv(c)'
    BY <1>1, <2>1, <2>2, NextProviderKeeps
  <2>4. TypeOK'
    BY <1>1, <2>1, <2>2, NextProviderTypes DEF TypeOK
  <2> QED
    BY <2>2, <2>3, <2>4
<1>13. CASE StreamBreaks(c)
  <2>1. Running(c) /\ tokens' = tokens /\ Calm
    BY <1>13 DEF StreamBreaks, Running, Ended
  <2>2. CASE tokens[c] = <<>> /\ NextProvider(c, "connect")
    BY <2>1, <2>2, MovesOn
  <2>3. CASE Return(c, "raised") /\ tried' = tried
    <3>1. tokens' \in [Calls -> Seq(Providers)] /\ OneVoiceOf(c)'
      BY <1>1, <2>1 DEF TypeOK, CallInv, OneVoiceOf
    <3> QED
      BY <2>1, <2>3, <3>1, ComesBack
  <2> QED
    BY <1>13, <2>2, <2>3 DEF StreamBreaks
<1>14. CASE Token(c)
  <2> DEFINE p == Head(chain[c])
             said == Append(tokens[c], p)
  <2>1. /\ pc[c] = "reading" /\ tokens' = [tokens EXCEPT ![c] = said] /\ Calm
        /\ pc' = pc /\ chain' = chain /\ attempt' = attempt /\ tried' = tried
    BY <1>14 DEF Token
  <2>2. p \in Providers /\ tokens[c] \in Seq(Providers)
    BY <1>1, <1>2, <2>1 DEF Running, Ended, TypeOK
  <2>3. said \in Seq(Providers) /\ \A i \in DOMAIN said : said[i] = p
    <3>1. /\ said \in Seq(Providers) /\ Len(said) = Len(tokens[c]) + 1
          /\ \A i \in 1..Len(tokens[c]) : said[i] = tokens[c][i]
          /\ said[Len(tokens[c]) + 1] = p
      BY <2>2, AppendProperties
    <3>2. \A i \in 1..Len(tokens[c]) : tokens[c][i] = p
      BY <1>1, <2>1, <2>2 DEF CallInv, OnTurn
    <3>3. DOMAIN said = 1..(Len(tokens[c]) + 1) /\ Len(tokens[c]) \in Nat
      BY <2>2, <3>1, LenProperties
    <3> QED
      BY <3>1, <3>2, <3>3
  <2>4. tokens' \in [Calls -> Seq(Providers)] /\ tokens'[c] = said
    BY <1>1, <2>1, <2>3, Zenon DEF TypeOK
  <2>5. sole' = sole /\ cold' = cold /\ shortened' = shortened /\ unheard' = unheard
    BY <1>1, <2>1, CalmKeeps
  <2>6. TypeOK' /\ Noted'
    BY <1>1, <2>1, <2>4, CalmKeeps DEF TypeOK
  <2>7. OnTurn(c)' /\ OneVoiceOf(c)'
    BY <1>1, <2>1, <2>3, <2>4 DEF CallInv, OnTurn, OneVoiceOf, Running, Ended
  <2>8. Reaches(c)' /\ TriedAll(c)' /\ SkipsLimited(c)'
    BY <1>1, <2>1, <2>5 DEF CallInv, Reaches, TriedAll, SkipsLimited, Running, Addressed
  <2> QED
    BY <2>6, <2>7, <2>8 DEF CallInv
<1> QED
  BY <1>4, <1>5, <1>6, <1>7, <1>8, <1>9, <1>10, <1>11, <1>12, <1>13, <1>14
     DEF CallStep, Respond

-----------------------------------------------------------------------------
(* No provider has been asked and no call has begun.                       *)
LEMMA IInvInit == ASSUME ChainAssumption, Init PROVE IInv
<1>1. TypeOK
  <2>1. <<>> \in Seq(Providers)
    OBVIOUS
  <2> QED
    BY <2>1 DEF Init, TypeOK, ChainAssumption, Ended
<1>2. Noted
  BY DEF Init, Noted
<1>3. ASSUME NEW c \in Calls PROVE CallInv(c)
  <2>1. pc[c] = "idle" /\ tokens[c] = <<>> /\ cold[c] = {}
    BY DEF Init
  <2> QED
    BY <2>1 DEF CallInv, OnTurn, Reaches, OneVoiceOf, SkipsLimited, TriedAll, Running, Ended
<1> QED
  BY <1>1, <1>2, <1>3 DEF IInv

(* A step of the system is a step of the clock or of one call.             *)
LEMMA IInvStep == ASSUME ChainAssumption, IInv, [Next]_vars PROVE IInv'
<1>1. TypeOK /\ Noted /\ \A c \in Calls : CallInv(c)
  BY DEF IInv
<1>2. ASSUME UNCHANGED <<until, pc, chain, attempt, tokens, history, sole, cold, tried>>,
             now' \in 0..MaxTime
      PROVE  IInv'
  <2>1. /\ until' = until /\ pc' = pc /\ chain' = chain /\ attempt' = attempt
        /\ tokens' = tokens /\ asked' = asked /\ shortened' = shortened
        /\ unheard' = unheard /\ sole' = sole /\ cold' = cold /\ tried' = tried
    BY <1>2 DEF history
  <2>2. TypeOK' /\ Noted'
    BY <1>1, <1>2, <2>1 DEF TypeOK, Noted
  <2>3. ASSUME NEW c \in Calls PROVE CallInv(c)'
    BY <1>1, <2>1, OthersKeep
  <2> QED
    BY <2>2, <2>3 DEF IInv
<1>3. CASE Tick
  <2>1. now' \in 0..MaxTime
    BY <1>1, <1>3 DEF Tick, TypeOK, ChainAssumption
  <2> QED
    BY <1>2, <1>3, <2>1 DEF Tick
<1>4. ASSUME NEW c \in Calls, CallStep(c) PROVE IInv'
  <2>1. TypeOK' /\ Noted' /\ CallInv(c)'
    BY <1>4, CallStepKeeps
  <2>2. ASSUME NEW d \in Calls, d # c PROVE CallInv(d)'
    BY <1>1, <1>4, <2>2, Elsewhere, OthersKeep
  <2> QED
    BY <2>1, <2>2 DEF IInv
<1>5. CASE UNCHANGED vars
  BY <1>1, <1>2, <1>5 DEF vars, TypeOK, history
<1> QED
  BY <1>3, <1>4, <1>5 DEF Next, CallStep

(* The inductive invariant holds throughout.                               *)
LEMMA Invariant == ASSUME ChainAssumption PROVE Spec => []IInv
<1>1. Init => IInv
  BY IInvInit
<1>2. IInv /\ [Next]_vars => IInv'
  BY IInvStep
<1> QED
  BY <1>1, <1>2, PTL DEF Spec

(* The variables keep their types; in particular no call posts more often  *)
(* than the client's retries allow.                                        *)
THEOREM TypeCorrect == ASSUME ChainAssumption PROVE Spec => []TypeOK
<1>1. IInv => TypeOK
  BY DEF IInv
<1> QED
  BY <1>1, Invariant, PTL

(* What is read of an answer comes from one provider, whatever the other   *)
(* calls, the clock and the servers do in between.                         *)
THEOREM AnswerHasOneVoice == ASSUME ChainAssumption PROVE Spec => []OneVoice
<1>1. IInv => OneVoice
  BY DEF IInv, CallInv, OneVoiceOf, OneVoice
<1> QED
  BY <1>1, Invariant, PTL

(* A provider that asked to be left alone is called before that time only  *)
(* when none is ready, when a later 429 cut its cooldown short or when it  *)
(* had asked a stream.                                                     *)
THEOREM LimitedAreSkipped == ASSUME ChainAssumption PROVE Spec => []LimitedSkipped
<1>1. IInv => LimitedSkipped
  BY DEF IInv, CallInv, SkipsLimited, LimitedSkipped
<1> QED
  BY <1>1, Invariant, PTL

(* "All providers failed" is said only after every provider that had not   *)
(* asked to be left alone was tried.                                       *)
THEOREM FailureIsExhaustive == ASSUME ChainAssumption PROVE Spec => []FailedTriedAll
<1>1. IInv => FailedTriedAll
  BY DEF IInv, CallInv, TriedAll, FailedTriedAll
<1> QED
  BY <1>1, Invariant, PTL

-----------------------------------------------------------------------------
(* The chain is one LLM.                                                   *)

(* What a reader sees of one call.                                         *)
Said(c) == Len(tokens[c])
VoiceOf(c) == IF tokens[c] = <<>> THEN 0 ELSE tokens[c][Len(tokens[c])]

(* The chain starts as one LLM does.                                       *)
LEMMA StartsAsOne == ASSUME Init PROVE OneLLM!Init
<1>1. Phase = [c \in Calls |-> "idle"]
  BY DEF Init, Phase
<1>2. ASSUME NEW c \in Calls PROVE Len(tokens[c]) = 0 /\ VoiceOf(c) = 0
  BY DEF Init, VoiceOf
<1> QED
  BY <1>1, <1>2 DEF OneLLM!Init, VoiceOf

(* A step of one call changes what is seen of no other.                    *)
LEMMA SeenOfOne ==
  ASSUME TypeOK, NEW c \in Calls, CallStep(c)
  PROVE  /\ Phase' = [Phase EXCEPT ![c] = Phase'[c]]
         /\ [d \in Calls |-> Said(d)]' = [[d \in Calls |-> Said(d)] EXCEPT ![c] = Said(c)']
         /\ [d \in Calls |-> VoiceOf(d)]'
              = [[d \in Calls |-> VoiceOf(d)] EXCEPT ![c] = VoiceOf(c)']
<1>1. ASSUME NEW d \in Calls, d # c PROVE pc'[d] = pc[d] /\ tokens'[d] = tokens[d]
  BY <1>1, Elsewhere
<1>2. Phase' = [Phase EXCEPT ![c] = Phase'[c]]
  BY <1>1 DEF Phase
<1>3. \A d \in Calls : d # c => Said(d)' = Said(d) /\ VoiceOf(d)' = VoiceOf(d)
  BY <1>1 DEF Said, VoiceOf
<1> QED
  BY <1>2, <1>3

(* Each step of a call is a step of one LLM or shows nothing.              *)
LEMMA CallStepSimulates ==
  ASSUME ChainAssumption, IInv, NEW c \in Calls, CallStep(c)
  PROVE  [OneLLM!Next]_(OneLLM!vars)
<1> DEFINE said == [d \in Calls |-> Said(d)]
           voices == [d \in Calls |-> VoiceOf(d)]
<1>1. TypeOK /\ CallInv(c)
  BY DEF IInv
<1>2. /\ Phase' = [Phase EXCEPT ![c] = Phase'[c]]
      /\ said' = [said EXCEPT ![c] = Said(c)']
      /\ voices' = [voices EXCEPT ![c] = VoiceOf(c)']
  BY <1>1, SeenOfOne
<1>3. /\ said = [d \in Calls |-> Len(tokens[d])]
      /\ voices = [d \in Calls |-> IF tokens[d] = <<>> THEN 0 ELSE tokens[d][Len(tokens[d])]]
  BY DEF Said, VoiceOf
<1>4. /\ Running(c) => Phase[c] = "running"
      /\ ~Running(c) => Phase[c] # "running"
      /\ Running(c)' => Phase'[c] = "running"
      /\ pc'[c] = "answered" => Phase'[c] = "answered"
      /\ pc'[c] \in {"raised", "failed"} => Phase'[c] = "failed"
  BY DEF Phase, Running, Ended
<1>5. ASSUME Running(c), Phase'[c] \in {"answered", "failed"}, tokens'[c] = tokens[c]
      PROVE  OneLLM!Next
  <2>1. Phase' = [Phase EXCEPT ![c] = Phase'[c]]
    BY <1>2
  <2>2. Said(c)' = said[c] /\ VoiceOf(c)' = voices[c]
    BY <1>5 DEF Said, VoiceOf
  <2>3. said' = said /\ voices' = voices
    BY <1>2, <2>2
  <2>4. OneLLM!End(c)
    BY <1>3, <1>4, <1>5, <2>1, <2>3 DEF OneLLM!End, Said, VoiceOf
  <2> QED
    BY <2>4 DEF OneLLM!Next
<1>6. ASSUME Running(c), Running(c)', tokens'[c] = tokens[c]
      PROVE  UNCHANGED OneLLM!vars
  <2>1. Phase'[c] = Phase[c] /\ Said(c)' = said[c] /\ VoiceOf(c)' = voices[c]
    BY <1>4, <1>6 DEF Said, VoiceOf
  <2>2. Phase' = Phase
    BY <1>2, <2>1 DEF Phase
  <2>3. said' = said /\ voices' = voices
    BY <1>2, <2>1
  <2> QED
    BY <1>3, <2>2, <2>3 DEF OneLLM!vars, Said, VoiceOf
<1>7. ASSUME NEW where \in {"post", "connect"}, Begin(c, where)
      PROVE  OneLLM!Next
  <2>1. pc[c] \in Ended /\ pc'[c] = where /\ tokens'[c] = <<>>
    BY <1>1, <1>7 DEF Begin, TypeOK
  <2>2. ~Running(c) /\ Running(c)'
    BY <2>1 DEF Running, Ended
  <2>3. Said(c)' = 0 /\ VoiceOf(c)' = 0
    BY <2>1 DEF Said, VoiceOf
  <2>4. OneLLM!Begin(c)
    BY <1>2, <1>3, <1>4, <2>2, <2>3 DEF OneLLM!Begin, Said, VoiceOf
  <2> QED
    BY <2>4 DEF OneLLM!Next
<1>8. ASSUME NEW how \in {"answered", "raised", "failed"}, Return(c, how), Running(c),
             tokens' = tokens
      PROVE  OneLLM!Next
  <2>1. pc'[c] = how
    BY <1>1, <1>8 DEF Return, TypeOK
  <2> QED
    BY <1>4, <1>5, <1>8, <2>1
<1>9. ASSUME NEW again \in {"post", "connect"}, NextProvider(c, again), Running(c),
             tokens' = tokens
      PROVE  [OneLLM!Next]_(OneLLM!vars)
  <2>1. CASE Return(c, "failed")
    BY <1>8, <1>9, <2>1
  <2>2. CASE pc' = [pc EXCEPT ![c] = again]
    <3>1. Running(c)'
      BY <1>1, <2>2 DEF Running, Ended, TypeOK
    <3> QED
      BY <1>6, <1>9, <3>1
  <2> QED
    BY <1>9, <2>1, <2>2 DEF NextProvider
<1>10. CASE Generate(c) \/ Stream(c)
  BY <1>7, <1>10 DEF Generate, Stream
<1>11. CASE PostAnswered(c)
  <2> DEFINE p == Head(chain[c])
  <2>1. /\ Running(c) /\ tokens[c] = <<>> /\ pc'[c] = "answered" /\ tokens'[c] = <<p>>
    BY <1>1, <1>11 DEF PostAnswered, Return, Running, Ended, TypeOK, CallInv, OnTurn
  <2>2. p \in Providers
    BY <1>1, <2>1, Snapshot DEF CallInv, OnTurn, TypeOK
  <2>3. Said(c)' = 1 /\ VoiceOf(c)' = p /\ voices[c] = 0
    BY <2>1 DEF Said, VoiceOf
  <2>4. /\ voices[c] = 0
        /\ voices' = [voices EXCEPT ![c] = p] /\ said' = [said EXCEPT ![c] = 1]
        /\ Phase[c] = "running" /\ Phase'[c] = "answered"
        /\ Phase' = [Phase EXCEPT ![c] = "answered"]
    BY <1>2, <1>4, <2>1, <2>3
  <2>5. OneLLM!End(c)
    BY <1>3, <2>2, <2>4 DEF OneLLM!End, Said, VoiceOf
  <2> QED
    BY <2>5 DEF OneLLM!Next
<1>12. CASE PostLimited(c) \/ PostRefused(c)
  BY <1>9, <1>12 DEF PostLimited, PostRefused, Running, Ended
<1>13. CASE PostTransient(c)
  <2>1. Running(c) /\ tokens' = tokens
    BY <1>13 DEF PostTransient, Running, Ended
  <2>2. CASE NextProvider(c, "post")
    BY <1>9, <2>1, <2>2
  <2>3. CASE pc' = [pc EXCEPT ![c] = "backoff"]
    BY <1>1, <1>6, <2>1, <2>3 DEF Running, Ended, TypeOK
  <2> QED
    BY <1>13, <2>2, <2>3 DEF PostTransient
<1>14. CASE Garbled(c) \/ StreamEnds(c)
  BY <1>8, <1>14 DEF Garbled, StreamEnds, Running, Ended
<1>15. CASE Backoff(c) \/ Connected(c)
  <2>1. Running(c) /\ Running(c)' /\ tokens' = tokens
    BY <1>1, <1>15 DEF Backoff, Connected, Running, Ended, TypeOK
  <2> QED
    BY <1>6, <2>1
<1>16. CASE StreamRefused(c)
  BY <1>9, <1>16 DEF StreamRefused, Running, Ended
<1>17. CASE StreamBreaks(c)
  <2>1. Running(c) /\ tokens' = tokens
    BY <1>17 DEF StreamBreaks, Running, Ended
  <2>2. CASE NextProvider(c, "connect")
    BY <1>9, <2>1, <2>2
  <2>3. CASE Return(c, "raised")
    BY <1>8, <2>1, <2>3
  <2> QED
    BY <1>17, <2>2, <2>3 DEF StreamBreaks
<1>18. CASE Token(c)
  <2> DEFINE p == Head(chain[c])
             heard == Append(tokens[c], p)
  <2>1. /\ Running(c) /\ pc' = pc /\ pc[c] = "reading" /\ Len(tokens[c]) < MaxTokens
        /\ tokens'[c] = heard
    BY <1>1, <1>18 DEF Token, Running, Ended, TypeOK
  <2>2. p \in Providers /\ tokens[c] \in Seq(Providers)
    BY <1>1, <2>1, Snapshot DEF CallInv, OnTurn, TypeOK
  <2>3. /\ Len(heard) = Len(tokens[c]) + 1 /\ heard # <<>>
        /\ heard[Len(tokens[c]) + 1] = p /\ Len(tokens[c]) \in Nat
    BY <2>2, AppendProperties, LenProperties
  <2>4. Said(c)' = said[c] + 1 /\ VoiceOf(c)' = p
    BY <2>1, <2>3 DEF Said, VoiceOf
  <2>5. voices[c] \in {0, p}
    <3>1. tokens[c] # <<>> => Len(tokens[c]) \in DOMAIN tokens[c]
      BY <2>2, EmptySeq, LenProperties
    <3> QED
      BY <1>1, <2>1, <3>1 DEF CallInv, OnTurn, VoiceOf
  <2>6. Phase' = Phase
    BY <2>1 DEF Phase
  <2>7. PICK v \in Providers : v = p
    BY <2>2
  <2>8. OneLLM!Speak(c, v)
    BY <1>2, <1>3, <1>4, <2>1, <2>4, <2>5, <2>6, <2>7 DEF OneLLM!Speak, Said, VoiceOf
  <2> QED
    BY <2>8 DEF OneLLM!Next
<1> QED
  BY <1>10, <1>11, <1>12, <1>13, <1>14, <1>15, <1>16, <1>17, <1>18 DEF CallStep, Respond

(* So does every step of the system.                                       *)
LEMMA StepSimulates ==
  ASSUME ChainAssumption, IInv, [Next]_vars
  PROVE  [OneLLM!Next]_(OneLLM!vars)
<1>1. CASE Tick \/ UNCHANGED vars
  <2>1. pc' = pc /\ tokens' = tokens
    BY <1>1 DEF Tick, vars
  <2> QED
    BY <2>1 DEF OneLLM!vars, Phase
<1>2. ASSUME NEW c \in Calls, CallStep(c) PROVE [OneLLM!Next]_(OneLLM!vars)
  BY <1>2, CallStepSimulates
<1> QED
  BY <1>1, <1>2 DEF Next, CallStep

(* The chain of providers implements one LLM (Generation): a call of it    *)
(* ends once, in an answer or a failure, and all that is read of it is one *)
(* voice's.  That every call ends (OneLLM!Fairness) is left to TLC.        *)
THEOREM ChainIsOneLLM ==
  ASSUME ChainAssumption
  PROVE  Spec => OneLLM!Init /\ [][OneLLM!Next]_(OneLLM!vars)
<1>1. Init => OneLLM!Init
  BY StartsAsOne
<1>2. IInv /\ [Next]_vars => [OneLLM!Next]_(OneLLM!vars)
  BY StepSimulates
<1> QED
  BY <1>1, <1>2, Invariant, PTL DEF Spec
=============================================================================
