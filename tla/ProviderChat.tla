----------------------------- MODULE ProviderChat -----------------------------
(***************************************************************************)
(* One request to a model: chat() of the three providers, with its retries *)
(* and the stream that is put together to a ChatResponse while its deltas  *)
(* are forwarded to whoever watches.                                       *)
(*                                                                         *)
(* The server says pieces of text and tool calls of Frags fragments each,  *)
(* one call after the other over the Messages API, in any order over the   *)
(* Chat Completions API.  At any point it may break off.                   *)
(***************************************************************************)
EXTENDS Naturals, Sequences

CONSTANTS Apis,        \* the providers: subset of {"chat", "messages", "responses"}
          MaxRetries,  \* RetryPolicy::max_retries
          Frags,       \* fragments of a call's arguments
          MaxText, MaxCalls  \* bounds

ProviderAssumption ==
  /\ Apis \subseteq {"chat", "messages", "responses"}
  /\ {MaxRetries, Frags, MaxText, MaxCalls} \subseteq Nat

VARIABLES api,
          attempt,  \* how many attempts have failed
          phase,    \* "send", "stream" or "done"
          said,     \* what the server said in this attempt
          text,     \* content: the pieces of text
          calls,    \* the assembled calls: for each, the fragments it has
          open,     \* Messages API: the pending tool
          finish,   \* finish_reason
          shown,    \* every TextDelta, with the attempt it came from
          result    \* what chat() returns
pvars == <<api, attempt, phase, said, text, calls, open, finish, shown, result>>

None == 0
Silence == [text |-> 0, calls |-> <<>>, reason |-> "none"]
NoResult == [kind |-> "none"]
StreamOpen == phase = "stream" /\ said.reason = "none"

\* A new attempt starts with nothing.
Fresh == /\ said' = Silence /\ text' = 0 /\ calls' = <<>> /\ open' = None /\ finish' = "stop"

Init ==
  /\ api \in Apis /\ attempt = 0 /\ phase = "send"
  /\ said = Silence /\ text = 0 /\ calls = <<>> /\ open = None /\ finish = "stop"
  /\ shown = <<>> /\ result = NoResult

----------------------------------------------------------------------------
(* The retry loop                                                          *)

\* RetryPolicy: of the errors these are transient.  What breaks in the
\* middle of a stream is an SseParse error, but the Responses API reports a
\* failed or unfinished response like a server error.
BadRetryable == {"network", "timeout", "rate_limited", "server_error", "sse_parse"}
Retryable == {"network", "timeout", "rate_limited", "server_error"}

Fail(error) ==
  IF error \in Retryable /\ attempt < MaxRetries
  THEN /\ attempt' = attempt + 1 /\ phase' = "send" /\ Fresh
       /\ UNCHANGED <<api, shown, result>>
  ELSE /\ phase' = "done" /\ result' = [kind |-> "error", error |-> error]
       /\ UNCHANGED <<api, attempt, said, text, calls, open, finish, shown>>

\* try_chat: no answer, or a status that classify_http_error maps to an error.
Refused ==
  /\ phase = "send"
  /\ \E error \in {"network", "timeout", "rate_limited", "server_error",
                   "auth", "model_not_found", "context_length"} : Fail(error)

Accepted ==
  /\ phase = "send" /\ phase' = "stream"
  /\ UNCHANGED <<api, attempt, said, text, calls, open, finish, shown, result>>

----------------------------------------------------------------------------
(* stream_response: one action for each kind of event                      *)

Text ==
  /\ StreamOpen /\ said.text < MaxText
  /\ said' = [said EXCEPT !.text = @ + 1]
  /\ text' = IF api = "responses" THEN text ELSE text + 1
  /\ shown' = Append(shown, <<attempt, said'.text>>)
  /\ UNCHANGED <<api, attempt, phase, calls, open, finish, result>>

\* ToolCallAssembler::start, content_block_start; response.output_item.added
\* starts nothing, as the calls are read from the completed response.
ToolStart ==
  /\ StreamOpen /\ Len(said.calls) < MaxCalls
  /\ api = "messages" => open = None
  /\ said' = [said EXCEPT !.calls = Append(@, 0)]
  /\ calls' = IF api = "chat" THEN Append(calls, 0) ELSE calls
  /\ open' = IF api = "messages" THEN Len(said'.calls) ELSE open
  /\ UNCHANGED <<api, attempt, phase, text, finish, shown, result>>

BadTarget(i) == Len(calls)
\* append_arguments: a fragment names the call it belongs to.
Target(i) == i

\* A fragment of call i.  The pending tool keeps its own count in said.
Arguments(i) ==
  /\ StreamOpen /\ i \in DOMAIN said.calls /\ said.calls[i] < Frags
  /\ api = "messages" => open = i
  /\ said' = [said EXCEPT !.calls[i] = @ + 1]
  /\ calls' = IF api = "chat" THEN [calls EXCEPT ![Target(i)] = @ + 1] ELSE calls
  /\ UNCHANGED <<api, attempt, phase, text, open, finish, shown, result>>

\* content_block_stop pushes the pending tool.
ToolStop ==
  /\ StreamOpen /\ api = "messages" /\ open # None
  /\ calls' = Append(calls, said.calls[open]) /\ open' = None
  /\ UNCHANGED <<api, attempt, phase, said, text, finish, shown, result>>

Whole == \A i \in DOMAIN said.calls : said.calls[i] = Frags

\* finish_reason, message_delta.  Only "length" may cut a call short.
Finish ==
  /\ StreamOpen /\ (api = "messages" => open = None)
  /\ \E reason \in {"stop", "tool_calls", "length"} :
       /\ reason # "length" => Whole
       /\ said.calls # <<>> => reason # "stop"
       /\ said' = [said EXCEPT !.reason = reason] /\ finish' = reason
  /\ UNCHANGED <<api, attempt, phase, text, calls, open, shown, result>>

Answer(t, cs, reason) ==
  /\ phase' = "done"
  /\ result' = [kind |-> "ok", text |-> t, calls |-> cs,
                finish |-> IF cs # <<>> /\ reason = "stop" THEN "tool_calls" ELSE reason]
  /\ UNCHANGED <<api, attempt, said, text, calls, open, finish, shown>>

\* [DONE], message_stop, response.completed or response.incomplete.
Complete ==
  /\ phase = "stream" /\ said.reason # "none"
  /\ IF api = "responses"
     THEN Answer(said.text, said.calls, IF said.calls # <<>> THEN "tool_calls" ELSE said.reason)
     ELSE Answer(text, calls, finish)

\* The stream ends without saying so, or after an error event that
\* stream_response does not know: what has arrived is the answer, but for
\* the Responses API.
EndsEarly ==
  /\ phase = "stream"
  /\ IF api = "responses" THEN Fail("server_error") ELSE Answer(text, calls, finish)

\* The connection breaks.
Breaks == phase = "stream" /\ Fail("sse_parse")

Next ==
  \/ Refused \/ Accepted \/ Text \/ ToolStart \/ ToolStop
  \/ \E i \in 1..MaxCalls : Arguments(i)
  \/ Finish \/ Complete \/ EndsEarly \/ Breaks

Spec == Init /\ [][Next]_pvars

----------------------------------------------------------------------------
(* Properties                                                              *)

ShownText == [i \in 1..said.text |-> <<attempt, i>>]

\* If the server said its answer to the end, the answer has all its text and
\* all its calls with all their arguments, whatever attempts failed before;
\* and whoever watches the stream saw this text once and nothing else,
\* unless an attempt of the Responses API had failed half way.
AnswerIsWhatWasSaid ==
  result.kind = "ok" /\ said.reason # "none" =>
    /\ result.text = said.text /\ result.calls = said.calls
    /\ result.calls # <<>> => result.finish # "stop"
    /\ api # "responses" \/ attempt = 0 => shown = ShownText
=============================================================================
