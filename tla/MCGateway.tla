------------------------------ MODULE MCGateway ------------------------------
(* An endpoint of each type under the name of its adapter, a model for each,   *)
(* one that a manual entry gives to a provider nobody configured, and          *)
(* conversations of up to four messages and two tool calls.                    *)
EXTENDS Gateway

CONSTANTS claude, gpt, llama, lost   \* models

MCType == [anthropic |-> "anthropic", openai |-> "openai", ollama |-> "ollama"]
MCEndpoint == DOMAIN MCType
MCModel == {claude, gpt, llama, lost}
MCBuiltin == [anthropic |-> {claude}, openai |-> {gpt}, ollama |-> {}]
MCManual == [m \in MCModel |-> IF m = lost THEN Unregistered ELSE None]
\* "chat" stands for a mode the policy does not have, or has an empty list for.
MCRouting == [plan |-> <<gpt>>, build |-> <<claude, gpt>>, auto |-> <<lost>>, chat |-> <<>>,
              default |-> <<claude>>]

Call == {"x", "y"}

\* A conversation of the runtime: a call is made once and answered once at most,
\* by a message of the user after it; a message of the user that answers nothing
\* says something, an answer may come to nothing when its stream broke off.
Said == {[role |-> "user", text |-> t, calls |-> {}, results |-> s] :
            t \in BOOLEAN, s \in SUBSET Call} \ {[role |-> "user", text |-> FALSE, calls |-> {}, results |-> {}]}
Answered == {[role |-> "assistant", text |-> t, calls |-> s, results |-> {}] :
                t \in BOOLEAN, s \in SUBSET Call}

Follows(msgs, m) ==
    /\ m.calls \cap Calls(msgs) = {}
    /\ m.results \subseteq Calls(msgs) \ Results(msgs)

Extended(conversations) ==
    {Append(cm[1], cm[2]) : cm \in {cm \in conversations \X (Said \cup Answered) : Follows(cm[1], cm[2])}}

UpTo[n \in 0 .. 4] == IF n = 0 THEN {<<>>} ELSE UpTo[n - 1] \cup Extended(UpTo[n - 1])

MCConversations ==
    {c \in UpTo[4] : c # <<>> /\ c[1].role = "user" /\ Last(c).role = "user" /\ Last(c).text}
=============================================================================
