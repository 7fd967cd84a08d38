-------------------------------- MODULE Wire --------------------------------
(***************************************************************************)
(* What goes over the wire to a provider and comes back: the window a      *)
(* conversation is cut to, the shape in which each adapter sends it        *)
(* (internal/provider truncate.go and the adapters), and the two readings  *)
(* of the provider's stream: event by event, by the relay of the turn      *)
(* (internal/runtime/streaming.go), and as a whole, by the capture of the  *)
(* proxy (internal/proxy/capture.go).                                      *)
(*                                                                         *)
(* Tool calls appear in the conversation, where the window has to keep     *)
(* them with their results.  The streams have none: the two readings are   *)
(* compared by their text and usage, and Dispatch offers the provider no   *)
(* tools (it leaves Tools out of FormatMessagesOpts).                      *)
(***************************************************************************)
EXTENDS Naturals, Sequences, FiniteSets, FiniteSetsExt, SequencesExt

CONSTANTS
    Conversations,  \* the conversations a turn may be submitted to
    Windows         \* the context windows of the catalogue, in tokens; 0 is none

\* A message is what the wire tells apart: its role, whether it has text, and
\* the tool calls it makes or answers.
Text(m) == IF m.text THEN 1 ELSE 0

\* EstimateMessageTokens, one token for the text and for each call and result.
EstimateMessageTokens(m) == Text(m) + Cardinality(m.calls) + Cardinality(m.results)

TokensFrom(msgs, i) ==
    FoldLeft(LAMBDA n, m : n + EstimateMessageTokens(m), 0, SubSeq(msgs, i, Len(msgs)))

Calls(msgs)   == UNION {msgs[i].calls : i \in DOMAIN msgs}
Results(msgs) == UNION {msgs[i].results : i \in DOMAIN msgs}

\* Mutant: only the results that lost their call are dropped.
DropOrphanResults(msgs) ==
    [i \in DOMAIN msgs |-> [msgs[i] EXCEPT !.results = @ \cap Calls(msgs)]]

\* A call and its result stay or go together; both sides are read before
\* either is filtered.
Reconcile(msgs) ==
    [i \in DOMAIN msgs |-> [msgs[i] EXCEPT !.results = @ \cap Calls(msgs),
                                           !.calls = @ \cap Results(msgs)]]

\* The messages that are not empty.
NotEmpty(msgs) ==
    FoldLeft(LAMBDA kept, m : IF EstimateMessageTokens(m) > 0 THEN Append(kept, m) ELSE kept,
             <<>>, msgs)

\* Truncate: the newest messages that fit, walking back from the last; then the
\* pairs; then the messages left empty are removed.  <<>> is ErrTruncationEmpty.
\* Without a window nothing is done.
Cut(msgs, window) ==
    LET cutoff == Min({i \in 1 .. Len(msgs) + 1 : TokensFrom(msgs, i) <= window})
        result == NotEmpty(Reconcile(SubSeq(msgs, cutoff, Len(msgs))))
    IN IF \E i \in DOMAIN result : result[i].role = "user" THEN result ELSE <<>>

Truncate(msgs, window) == IF window = 0 THEN msgs ELSE Cut(msgs, window)

\* What a turn is submitted with: the assistant makes the calls, the messages of the
\* user answer them after they were made, and the last message is what the user has
\* just said (the shell submits no empty line), which may bring results with it.
Message(ids) == [role : {"user", "assistant"}, text : BOOLEAN,
                 calls : SUBSET ids, results : SUBSET ids]

Submitted(msgs) ==
    /\ msgs \in Seq(Message(Calls(msgs) \cup Results(msgs)))
    /\ IsFiniteSet(Calls(msgs) \cup Results(msgs))
    /\ \A i \in DOMAIN msgs : /\ msgs[i].calls # {} => msgs[i].role = "assistant"
                              /\ msgs[i].results # {} => msgs[i].role = "user"
    /\ \A i, j \in DOMAIN msgs : msgs[i].calls \cap msgs[j].results # {} => i < j
    /\ msgs # <<>> /\ Last(msgs).role = "user" /\ Last(msgs).text

ASSUME WireAssumption == Windows \subseteq Nat /\ \A c \in Conversations : Submitted(c)

ProviderType == {"anthropic", "openai", "ollama"}

\* OpenAI's adapter makes tool messages of a message with results, one for each, which
\* one message stands for here, and drops the text that came with them; Ollama has no
\* calls, and results are flattened into the text.
FormatAnthropic(m) == m
FormatOpenAI(m) ==
    IF m.results = {} THEN m ELSE [role |-> "tool", text |-> FALSE, calls |-> {}, results |-> m.results]
FormatOllama(m) == [m EXCEPT !.calls = {}, !.results = {}, !.text = m.text \/ m.results # {}]

FormatMessages(type, msgs, window) ==
    LET kept == Truncate(msgs, window)
    IN [i \in DOMAIN kept |-> CASE type = "anthropic" -> FormatAnthropic(kept[i])
                                [] type = "openai"    -> FormatOpenAI(kept[i])
                                [] type = "ollama"    -> FormatOllama(kept[i])]

\* Every call is answered by a later message and every result has an earlier call.
Paired(msgs) ==
    /\ \A i \in DOMAIN msgs : \A c \in msgs[i].calls :
        \E j \in DOMAIN msgs : j > i /\ c \in msgs[j].results
    /\ \A j \in DOMAIN msgs : \A c \in msgs[j].results :
        \E i \in DOMAIN msgs : i < j /\ c \in msgs[i].calls

\* What a request says of its messages; sent is FALSE when nothing is left.  last: it
\* ends with what the user has said.  answers: the user's message brought results, and
\* OpenAI gets them alone.
ShapeOf(type, conversation, window) ==
    LET msgs == FormatMessages(type, conversation, window)
    IN [sent    |-> msgs # <<>>,
        cut     |-> window > 0,
        paired  |-> Paired(msgs),
        last    |-> msgs # <<>> => Last(msgs).role = "user" /\ Last(msgs).text,
        answers |-> /\ type = "openai" /\ Last(conversation).results # {}
                    /\ msgs # <<>> => Last(msgs).role = "tool"]

Shapes == [type \in ProviderType |->
              {ShapeOf(type, c, w) : c \in Conversations, w \in Windows}]

-----------------------------------------------------------------------------
(* Streams, in the provider's own events; n is a token count *)

Ev(kind, n) == [kind |-> kind, n |-> n]

\* What the providers send.  Usage of the output is cumulative, a line may be
\* undecodable, and Anthropic may report an error in mid-stream.
Streams ==
    [anthropic |->
        { << Ev("message_start", 2), Ev("message_delta", 1), Ev("delta", 0),
             Ev("message_delta", 3), Ev("message_stop", 0) >>,
          << Ev("message_start", 2), Ev("delta", 0), Ev("error", 0) >>,
          << Ev("bad", 0), Ev("delta", 0), Ev("message_stop", 0) >> },
     openai |->
        { << Ev("chunk", 0), Ev("finish", 0), Ev("usage", 2), Ev("[DONE]", 0) >>,
          << Ev("chunk", 0), Ev("finish", 0), Ev("[DONE]", 0) >> },
     ollama |->
        { << Ev("object", 0), Ev("done", 2) >> }]

Canonical(type, n) == [type |-> type, n |-> n]

\* ParseStreamEvent.  A line that does not decode, an unknown type and Anthropic's
\* error are skipped, and so is the usage that comes with Ollama's last object.
ParseAnthropic(e) ==
    CASE e.kind = "delta"         -> Canonical("text", 0)
      [] e.kind = "message_start" -> Canonical("input", e.n)
      [] e.kind = "message_delta" -> Canonical("output", e.n)
      [] e.kind = "message_stop"  -> Canonical("done", 0)
      [] OTHER                    -> Canonical("skip", 0)

ParseOpenAI(e) ==
    CASE e.kind = "chunk"  -> Canonical("text", 0)
      [] e.kind = "usage"  -> Canonical("both", e.n)
      [] e.kind = "[DONE]" -> Canonical("done", 0)
      [] OTHER             -> Canonical("skip", 0)

ParseOllama(e) == IF e.kind = "done" THEN Canonical("done", 0) ELSE Canonical("text", 0)

ParseStreamEvent(type, e) ==
    CASE type = "anthropic" -> ParseAnthropic(e)
      [] type = "openai"    -> ParseOpenAI(e)
      [] type = "ollama"    -> ParseOllama(e)

Nothing == [text |-> 0, input |-> 0, output |-> 0]

\* Mutant: usage is added up, as if each event told of what is new.
UsageAdds(acc, ev) ==
    [acc EXCEPT !.text = IF ev.type = "text" THEN @ + 1 ELSE @,
                !.input = IF ev.type \in {"input", "both"} THEN @ + ev.n ELSE @,
                !.output = IF ev.type \in {"output", "both"} THEN @ + ev.n ELSE @]

\* The relay's switch: text is appended, usage that is not zero replaces.
Accumulate(acc, ev) ==
    [acc EXCEPT !.text = IF ev.type = "text" THEN @ + 1 ELSE @,
                !.input = IF ev.type \in {"input", "both"} /\ ev.n > 0 THEN ev.n ELSE @,
                !.output = IF ev.type \in {"output", "both"} /\ ev.n > 0 THEN ev.n ELSE @]

\* ReassembleStream, a step for each event.
ReassembleAnthropic(acc, e) ==
    CASE e.kind = "delta"         -> [acc EXCEPT !.text = @ + 1]
      [] e.kind = "message_start" -> [acc EXCEPT !.input = e.n]
      [] e.kind = "message_delta" -> [acc EXCEPT !.output = e.n]
      [] OTHER                    -> acc

ReassembleOpenAI(acc, e) ==
    CASE e.kind = "chunk" -> [acc EXCEPT !.text = @ + 1]
      [] e.kind = "usage" -> [acc EXCEPT !.input = e.n, !.output = e.n]
      [] OTHER            -> acc

\* Of everything the recorder holds: one event that does not decode gives the whole
\* reading up, and the row keeps empty fields.  (Ollama is not behind the proxy.)
ReassembleStream(type, events) ==
    IF \E i \in DOMAIN events : events[i].kind = "bad"
    THEN Nothing
    ELSE FoldLeft(LAMBDA acc, e : IF type = "anthropic" THEN ReassembleAnthropic(acc, e)
                                                        ELSE ReassembleOpenAI(acc, e),
                  Nothing, events)
=============================================================================
