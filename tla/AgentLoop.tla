------------------------------ MODULE AgentLoop ------------------------------
(***************************************************************************)
(* One conversation of hermes-agent: the loop that alternates calls of the *)
(* provider and of tools, its iteration budget, the checkpoints that write *)
(* the history to the session store message by message, and the            *)
(* compressions that shorten it.  A module that EXTENDS this one says who  *)
(* starts and ends the turns.  The provider answers as it likes, tools     *)
(* return or panic, and every await separates two steps.                   *)
(***************************************************************************)
EXTENDS Transcript, FiniteSets

CONSTANTS Observed,        \* does a checkpoint observer write the history?
          MaxIterations, Protected, HistoryCap,   \* of the code's configuration
          Pressure,        \* can the tokens of a history ask for compression?
          Panics,          \* can a tool panic?
          MaxBatch, MaxCalls, MaxFaults      \* bounds

ASSUME LoopAssumption ==
  /\ {Observed, Pressure, Panics} \subseteq BOOLEAN
  /\ MaxIterations \in Nat /\ Protected \in Nat /\ HistoryCap \in Nat
  /\ MaxBatch \in Nat /\ MaxCalls \in Nat /\ MaxFaults \in Nat

VARIABLES history,      \* the agent's messages
          durable,      \* the session's rows in the messages table
          persisted,    \* the observer's persisted_len
          pc, after,    \* where the loop is, and goes after a checkpoint
          turn,         \* number of the prompt being answered
          fresh,        \* was the turn begun with its prompt?
          budget,       \* iterations that remain
          tools,        \* the batch of tool calls being executed
          asked,        \* how many calls the provider has made
          ran,          \* how often each call was executed
          said,         \* the messages as they were written, never shortened
          compressed,   \* has this agent's history been shortened?
          faults        \* store calls that failed
loopVars == <<history, durable, persisted, pc, after, turn, fresh, budget,
              tools, asked, ran, said, compressed, faults>>

CallIds == 1..MaxCalls
NoTools == [todo |-> {}, done |-> {}, lost |-> 0, parallel |-> FALSE, next |-> "loop"]

LoopInit ==
  /\ history = <<>> /\ durable = <<>> /\ said = <<>>
  /\ persisted = 0 /\ turn = 0 /\ asked = 0 /\ faults = 0
  /\ pc = "idle" /\ after = "loop"
  /\ fresh = TRUE /\ compressed = FALSE
  /\ budget = MaxIterations
  /\ tools = NoTools
  /\ ran = [c \in CallIds |-> 0]

----------------------------------------------------------------------------
(* Checkpoints                                                             *)

BadSay(msgs, next) ==
  /\ history' = history \o msgs
  /\ said' = said \o msgs
  /\ pc' = next /\ UNCHANGED after

\* Messages are added to the history; with an observer it is checkpointed.
Say(msgs, next) ==
  /\ history' = history \o msgs
  /\ said' = said \o msgs
  /\ pc' = IF Observed THEN "checkpoint" ELSE next
  /\ after' = next

\* The observer writes history[persisted_len..], one row at a time.
BadUnsaved == persisted + 1 < Len(history)
Unsaved == persisted < Len(history)

SaveMessage ==
  /\ pc = "checkpoint" /\ Unsaved
  /\ durable' = Append(durable, history[persisted + 1])
  /\ persisted' = persisted + 1
  /\ UNCHANGED <<history, pc, after, turn, fresh, budget, tools, asked, ran, said, compressed, faults>>

CheckpointDone ==
  /\ pc = "checkpoint" /\ ~Unsaved
  /\ pc' = after
  /\ UNCHANGED <<history, durable, persisted, after, turn, fresh, budget, tools, asked, ran, said, compressed, faults>>

\* A failed write ends the checkpoint with a warning.  The row may be there
\* all the same: it is inserted before the session's counters are updated.
SaveFails ==
  /\ pc = "checkpoint" /\ faults < MaxFaults
  /\ faults' = faults + 1
  /\ durable' \in {durable} \cup (IF Unsaved THEN {Append(durable, history[persisted + 1])} ELSE {})
  /\ pc' = after
  /\ UNCHANGED <<history, persisted, after, turn, fresh, budget, tools, asked, ran, said, compressed>>

----------------------------------------------------------------------------
(* The loop                                                                *)

Batch(C, next) ==
  [todo |-> C, done |-> {}, lost |-> 0, parallel |-> FALSE, next |-> next]

\* A batch is executed in parallel when its tools allow it.
Schedules(b) == {b} \cup (IF Cardinality(b.todo) > 1 THEN {[b EXCEPT !.parallel = TRUE]} ELSE {})

Exhausted ==
  /\ pc = "loop" /\ budget = 0
  /\ pc' = "exhausted"
  /\ UNCHANGED <<history, durable, persisted, after, turn, fresh, budget, tools, asked, ran, said, compressed, faults>>

Charge(b) == b - 1

BadAnswerThere == FALSE

\* A continued turn whose answer is already there is over.
AnswerThere == ~fresh /\ SafeAction(history) = "complete_turn"

Iterate ==
  /\ pc = "loop" /\ budget > 0
  /\ budget' = Charge(budget)
  /\ \/ /\ AnswerThere
        /\ pc' = "completed" /\ UNCHANGED tools
     \/ /\ ~AnswerThere /\ Pending(history) # {}
        /\ pc' = "tools"
        /\ tools' \in Schedules(Batch(Pending(history), "call"))
     \/ /\ ~AnswerThere /\ Pending(history) = {}
        /\ pc' = "call" /\ UNCHANGED tools
  /\ UNCHANGED <<history, durable, persisted, after, turn, fresh, asked, ran, said, compressed, faults>>

ProviderFails ==
  /\ pc = "call"
  /\ pc' = "failed"
  /\ UNCHANGED <<history, durable, persisted, after, turn, fresh, budget, tools, asked, ran, said, compressed, faults>>

\* The provider answers with n tool calls, or for good.
ProviderReturns(n) ==
  /\ pc = "call" /\ asked + n <= MaxCalls
  /\ asked' = asked + n
  /\ LET C == (asked + 1)..(asked + n) IN
       /\ Say(<<Assistant(turn, C)>>, IF C = {} THEN "completed" ELSE "tools")
       /\ IF C = {} THEN UNCHANGED tools ELSE tools' \in Schedules(Batch(C, "loop"))
  /\ UNCHANGED <<durable, persisted, turn, fresh, budget, ran, compressed, faults>>

\* The turn of a call in the batch has come.
Runnable(c) == c \in tools.todo /\ (tools.parallel \/ \A d \in tools.todo : c <= d)

RunTool(c) ==
  /\ pc = "tools" /\ Runnable(c)
  /\ ran' = [ran EXCEPT ![c] = @ + 1]
  /\ tools' = [tools EXCEPT !.todo = @ \ {c}, !.done = @ \cup {c}]
  /\ UNCHANGED <<history, durable, persisted, pc, after, turn, fresh, budget, asked, said, compressed, faults>>

\* The task of a parallel call panics: an anonymous error stands for its result.
ToolPanics(c) ==
  /\ Panics /\ pc = "tools" /\ tools.parallel /\ Runnable(c)
  /\ ran' = [ran EXCEPT ![c] = @ + 1]
  /\ tools' = [tools EXCEPT !.todo = @ \ {c}, !.lost = @ + 1]
  /\ UNCHANGED <<history, durable, persisted, pc, after, turn, fresh, budget, asked, said, compressed, faults>>

\* Results in the order of the calls, anonymous ones last.
ResultMessages ==
  [i \in 1..Cardinality(tools.done) |-> ToolResult(turn, InOrder(tools.done)[i])]
    \o [i \in 1..tools.lost |-> ToolResult(turn, NoCall)]

ToolsDone ==
  /\ pc = "tools" /\ tools.todo = {}
  /\ Say(ResultMessages, "maintain")
  /\ tools' = [NoTools EXCEPT !.next = tools.next]
  /\ UNCHANGED <<durable, persisted, turn, fresh, budget, asked, ran, compressed, faults>>

Relieved(h) == {h} \cup (IF Pressure THEN Compressions(h, Protected) ELSE {})
Capped(h) == IF Len(h) > HistoryCap THEN Compressions(h, Protected) ELSE {h}

\* Compression under token pressure, and again over the message cap.
Maintain ==
  /\ pc = "maintain"
  /\ history' \in UNION {Capped(h) : h \in Relieved(history)}
  /\ compressed' = (compressed \/ history' # history)
  /\ pc' = tools.next
  /\ UNCHANGED <<durable, persisted, after, turn, fresh, budget, tools, asked, ran, said, faults>>

LoopStep ==
  \/ SaveMessage \/ CheckpointDone \/ SaveFails
  \/ Exhausted \/ Iterate
  \/ ProviderFails \/ \E n \in 0..MaxBatch : ProviderReturns(n)
  \/ \E c \in CallIds : RunTool(c) \/ ToolPanics(c)
  \/ ToolsDone \/ Maintain

LoopTypeOK ==
  /\ {history, durable, said} \subseteq Seq(Message)
  /\ {persisted, turn, asked, faults} \subseteq Nat
  /\ pc \in {"idle", "checkpoint", "loop", "call", "tools", "maintain",
             "completed", "exhausted", "failed"}
  /\ after \in {"loop", "tools", "maintain", "completed"}
  /\ {fresh, compressed} \subseteq BOOLEAN
  /\ budget \in 0..MaxIterations
  /\ tools \in [todo : SUBSET CallIds, done : SUBSET CallIds, lost : Nat,
                parallel : BOOLEAN, next : {"loop", "call"}]
  /\ ran \in [CallIds -> Nat]
=============================================================================
