------------------------------ MODULE Generation ------------------------------
(***************************************************************************)
(* What the rest of the backend expects of an LLM: a call speaks with one  *)
(* voice and ends, either answered or failed.  `FallbackLLM` implements    *)
(* this over a chain of providers; `QueryPath` relies on no more.          *)
(***************************************************************************)
EXTENDS Naturals

CONSTANTS Calls,       \* requests that may be running at the same time
          Voices,      \* who may answer
          Nobody,      \* not a voice
          MaxTokens    \* bound on the tokens of one answer

VARIABLES phase,   \* call -> "idle", "running", "answered" or "failed"
          voice,   \* call -> whose words the client has been given, or Nobody
          spoken   \* call -> how many tokens the client has been given

vars == <<phase, voice, spoken>>

Init == /\ phase = [c \in Calls |-> "idle"]
        /\ voice = [c \in Calls |-> Nobody]
        /\ spoken = [c \in Calls |-> 0]

\* A call begins, with nothing said.
Begin(c) == /\ phase[c] # "running"
            /\ phase' = [phase EXCEPT ![c] = "running"]
            /\ voice' = [voice EXCEPT ![c] = Nobody]
            /\ spoken' = [spoken EXCEPT ![c] = 0]

\* One token reaches the client, always from the voice that spoke first.
Speak(c, v) == /\ phase[c] = "running" /\ spoken[c] < MaxTokens
               /\ voice[c] \in {Nobody, v}
               /\ voice' = [voice EXCEPT ![c] = v]
               /\ spoken' = [spoken EXCEPT ![c] = @ + 1]
               /\ UNCHANGED phase

\* The call ends; an answer that is not streamed is given at this moment.
End(c) == /\ phase[c] = "running"
          /\ \E how \in {"answered", "failed"} : phase' = [phase EXCEPT ![c] = how]
          /\ \/ UNCHANGED <<voice, spoken>>
             \/ /\ voice[c] = Nobody /\ phase'[c] = "answered"
                /\ \E v \in Voices : voice' = [voice EXCEPT ![c] = v]
                /\ spoken' = [spoken EXCEPT ![c] = 1]

Next == \E c \in Calls : \/ Begin(c) \/ End(c)
                         \/ \E v \in Voices : Speak(c, v)

Fairness == \A c \in Calls : WF_vars(End(c))

Spec == Init /\ [][Next]_vars /\ Fairness
=============================================================================
