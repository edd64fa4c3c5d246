------------------------------ MODULE Transcript ------------------------------
(***************************************************************************)
(* The transcript of a conversation as a sequence of messages, and what    *)
(* hermes-agent computes from it: the tool calls that still wait for a     *)
(* result, the boundary an interrupted turn can be continued from, the     *)
(* compression of a history that has become too long, and the messages a   *)
(* provider puts into the body of its request.  Texts are left out:        *)
(* a message is its role, the turn it was written in, the tool calls an    *)
(* assistant message makes and the call a tool message answers.  Call ids  *)
(* are the numbers of the calls, in the order they were made in.           *)
(***************************************************************************)
EXTENDS Integers, Sequences, FiniteSets, SequencesExt

MinTail == 3        \* messages a compression always keeps at the end

NoCall == 0         \* the empty call id of a tool task that panicked
Synthetic == 0      \* the turn of a message that nobody wrote

Message == [role : {"user", "assistant", "tool"}, turn : Nat, calls : SUBSET Nat, for : Nat]
User(t) == [role |-> "user", turn |-> t, calls |-> {}, for |-> NoCall]
Assistant(t, C) == [role |-> "assistant", turn |-> t, calls |-> C, for |-> NoCall]
ToolResult(t, c) == [role |-> "tool", turn |-> t, calls |-> {}, for |-> c]

\* Calls in the order they were made in.
InOrder(C) == CHOOSE s \in [1..Cardinality(C) -> C] : \A i, j \in DOMAIN s : i < j => s[i] < s[j]

Calls(h) == UNION {h[i].calls : i \in DOMAIN h}
Answered(h) == {h[i].for : i \in {j \in DOMAIN h : h[j].role = "tool"}}

\* The places of the tool messages that directly follow h[i].
Results(h, i) ==
  LET next == SelectInSubSeq(h, i + 1, Len(h), LAMBDA m : m.role # "tool")
  IN  (i + 1)..(IF next = 0 THEN Len(h) ELSE next - 1)

\* What a provider accepts: each call is answered, and answered once, directly
\* after the message that made it, and nothing else is.
Paired(h) ==
  /\ h # <<>> => h[1].role # "tool"
  /\ \A i \in DOMAIN h : h[i].role # "tool" =>
       /\ h[i].calls = {h[j].for : j \in Results(h, i)}
       /\ Cardinality(h[i].calls) = Cardinality(Results(h, i))

----------------------------------------------------------------------------
(* Continuation boundaries                                                 *)

BadPending(h) ==
  LET a == SelectLastInSeq(h, LAMBDA m : m.calls # {})
  IN  IF a = 0 \/ Results(h, a) # (a + 1)..Len(h) THEN {} ELSE h[a].calls

\* The calls of the last message with calls that have no result, unless
\* something other than results follows it.
Pending(h) ==
  LET a == SelectLastInSeq(h, LAMBDA m : m.calls # {})
  IN  IF a = 0 \/ Results(h, a) # (a + 1)..Len(h) THEN {}
      ELSE h[a].calls \ {h[j].for : j \in Results(h, a)}

SafeAction(h) ==
  CASE Pending(h) # {}             -> "execute_pending_tools"
    [] Pending(h) = {} /\ h = <<>> -> "none"
    [] Pending(h) = {} /\ h # <<>> /\ Last(h).role = "assistant" -> "complete_turn"
    [] OTHER                       -> "call_provider"

----------------------------------------------------------------------------
(* Compression                                                             *)

BadTailStart(h, raw) ==
  IF raw <= Len(h) - MinTail + 1 THEN raw
  ELSE IF Len(h) >= MinTail THEN Len(h) - MinTail + 1 ELSE 1

\* Where the kept tail begins when the token budget alone would begin it at
\* `raw`: no later than MinTail messages before the end, and with the
\* message that made the first result's call.
TailStart(h, raw) ==
  LET t == IF raw <= Len(h) - MinTail + 1 THEN raw
           ELSE IF Len(h) >= MinTail THEN Len(h) - MinTail + 1 ELSE 1
      parents == {j \in 1..(t - 1) : h[j].role = "assistant" /\ h[t].for \in h[j].calls}
  IN  IF h[t].role = "tool" /\ parents # {} THEN Max(parents) ELSE t

\* Results of calls that are gone are dropped, and a result is made up,
\* behind the message with the call, for a call whose result is gone.
Unanswered(h, m) == SetToSeq(m.calls \ Answered(h))
Sanitized(h, m) ==
  IF m.role = "tool" /\ m.for \notin Calls(h) THEN <<>>
  ELSE <<m>> \o [c \in DOMAIN Unanswered(h, m) |-> ToolResult(Synthetic, Unanswered(h, m)[c])]
SanitizeToolPairs(h) == FlattenSeq([i \in DOMAIN h |-> Sanitized(h, h[i])])

\* The messages between the protected head and the tail give way to one
\* summary; too short a history stays as it is.
Summarized(h, head, tail) ==
  SubSeq(h, 1, head) \o <<User(Synthetic)>> \o SubSeq(h, tail, Len(h))
Tails(h) == {TailStart(h, raw) : raw \in DOMAIN h}
Compressions(h, head) ==
  {SanitizeToolPairs(g) : g \in {Summarized(h, head, t) : t \in {u \in Tails(h) : u > head + 1}}}
    \cup {h : t \in {u \in Tails(h) : u <= head + 1}}

----------------------------------------------------------------------------
(* Requests of the providers: the messages that hermes-provider makes of   *)
(* the history, and what each of the three APIs asks of them.  Of a        *)
(* message only its role and its calls are left, and whether it has a      *)
(* text: an assistant message with calls may have none.                    *)

\* inject_active_into_history: the skills of the turn come first of all.
WithSkills(h, skills) == IF skills THEN <<User(Synthetic)>> \o h ELSE h

----------------------------------------------------------------------------
(* Messages (anthropic.rs): a list of typed blocks for each role, adjacent *)
(* messages of one role merged.                                            *)

Text == [type |-> "text", id |-> NoCall]
ToolUses(C) == [i \in 1..Cardinality(C) |-> [type |-> "tool_use", id |-> InOrder(C)[i]]]
Blocks(h, i, silent) ==
  CASE h[i].role = "user" -> <<Text>>
    [] h[i].role = "assistant" -> (IF i \in silent THEN <<>> ELSE <<Text>>) \o ToolUses(h[i].calls)
    [] OTHER -> <<[type |-> "tool_result", id |-> h[i].for]>>
Speaker(m) == IF m.role = "assistant" THEN "assistant" ELSE "user"

PushOrMerge(out, entry) ==
  IF out # <<>> /\ Last(out).role = entry.role
  THEN [out EXCEPT ![Len(out)].blocks = @ \o entry.blocks]
  ELSE Append(out, entry)
Messages(h, silent) ==
  LET To[i \in 0..Len(h)] ==
        IF i = 0 THEN <<>>
        ELSE PushOrMerge(To[i - 1], [role |-> Speaker(h[i]), blocks |-> Blocks(h, i, silent)])
  IN To[Len(h)]

IdsOf(entry, type) == LET of == SelectSeq(entry.blocks, LAMBDA b : b.type = type)
                      IN [i \in DOMAIN of |-> of[i].id]
\* It begins with the user, who speaks in turn with the assistant; nobody says
\* nothing; results come first, and are those of the calls just made.
MessagesAccepted(out) ==
  /\ out # <<>> /\ out[1].role = "user" /\ Last(out).role = "user"
  /\ \A i \in DOMAIN out :
       LET uses == IF i = 1 THEN <<>> ELSE IdsOf(out[i - 1], "tool_use")
           results == IdsOf(out[i], "tool_result")
       IN /\ i > 1 => out[i].role # out[i - 1].role
          /\ out[i].blocks # <<>>
          /\ out[i].role = "user" =>
               /\ ToSet(results) = ToSet(uses) /\ Len(results) = Len(uses)
               /\ \A j \in DOMAIN results : out[i].blocks[j].type = "tool_result"

----------------------------------------------------------------------------
(* Chat completions (openai.rs): one entry for each message, behind the    *)
(* system prompt.                                                          *)

Completions(h) ==
  <<[role |-> "system", calls |-> <<>>, for |-> NoCall]>>
    \o [i \in DOMAIN h |-> [role |-> h[i].role, calls |-> InOrder(h[i].calls), for |-> h[i].for]]
\* The calls of an entry are answered by the entries right behind it.
CompletionsAccepted(out) ==
  \A i \in DOMAIN out :
    /\ out[i].calls # <<>> =>
         LET n == Len(out[i].calls) IN
           /\ i + n <= Len(out)
           /\ \A j \in 1..n : out[i + j].role = "tool"
           /\ {out[i + j].for : j \in 1..n} = ToSet(out[i].calls)
    /\ out[i].role = "tool" =>
         \E j \in 1..(i - 1) : out[i].for \in ToSet(out[j].calls) /\ i <= j + Len(out[j].calls)

----------------------------------------------------------------------------
(* Responses (responses.rs): calls and results are items of their own.  A  *)
(* message without text leaves only its calls.                             *)

Items(h, silent) ==
  LET Of(i) ==
        CASE h[i].role = "tool" -> <<[type |-> "function_call_output", id |-> h[i].for]>>
          [] OTHER -> (IF i \in silent THEN <<>> ELSE <<[type |-> h[i].role, id |-> NoCall]>>)
                        \o [j \in 1..Cardinality(h[i].calls) |->
                              [type |-> "function_call", id |-> InOrder(h[i].calls)[j]]]
  IN FlattenSeq([i \in DOMAIN h |-> Of(i)])
\* Each call has one output, behind it; each output has a call.
ItemsAccepted(out) ==
  LET At(type, id) == {i \in DOMAIN out : out[i].type = type /\ out[i].id = id} IN
    \A i \in DOMAIN out :
      /\ out[i].type = "function_call" =>
           /\ Cardinality(At("function_call_output", out[i].id)) = 1
           /\ \A j \in At("function_call_output", out[i].id) : i < j
      /\ out[i].type = "function_call_output" => At("function_call", out[i].id) # {}

----------------------------------------------------------------------------
\* Whichever provider is configured, with or without skills, and whichever of the
\* messages with calls came without a text, its API accepts what is made of h.
Accepted(h) ==
  \A skills \in BOOLEAN :
    LET g == WithSkills(h, skills) IN
      /\ CompletionsAccepted(Completions(g))
      /\ \A silent \in SUBSET {i \in DOMAIN g : g[i].calls # {}} :
           /\ MessagesAccepted(Messages(g, silent))
           /\ ItemsAccepted(Items(g, silent))
=============================================================================
