------------------------------ MODULE Delegation ------------------------------
(***************************************************************************)
(* delegate_task in a terminal session: the agent waits while a child      *)
(* agent, with memory, registry, budget and approvals of its own, works on *)
(* the task.  What the child streams enters a channel of Room places whose *)
(* receiver the tool keeps to its end and never reads.                     *)
(***************************************************************************)
EXTENDS Naturals, Sequences

CONSTANTS Budget,  \* CHILD_MAX_ITERATIONS
          Room,    \* places of the channel
          MaxText, MaxBatch, MaxTasks  \* bounds: deltas of an answer, calls of a batch, tasks

VARIABLES parent, \* "idle", "waits" or, with its process, "gone"
          child,  \* what it does, what it has left, and the calls it works on
          held,   \* deltas in the channel
          asked,  \* of the child's question whether a command may run
          given,  \* what delegate_task returned
          tasks
delegationVars == <<parent, child, held, asked, given, tasks>>

\* What the model of the child may call: a tool, a command that asks for approval,
\* the question to the user, and what its registry has not.
Tools == {"read_file", "rm", "clarify", "delegate_task"}

NoChild == [at |-> "none", left |-> 0, deltas |-> 0, batch |-> <<>>, announced |-> 0, ended |-> {}]

Init ==
  /\ parent = "idle" /\ child = NoChild /\ held = 0 /\ asked = "no"
  /\ given = "none" /\ tasks = 0

----------------------------------------------------------------------------
(* The parent                                                              *)

\* The call needs a goal, and the child a memory.
Delegate(refused) ==
  /\ parent = "idle" /\ tasks < MaxTasks /\ tasks' = tasks + 1
  /\ IF refused THEN given' = "error" /\ UNCHANGED <<parent, child>>
     ELSE /\ parent' = "waits" /\ given' = "none"
          /\ child' = [NoChild EXCEPT !.at = "loop", !.left = Budget]
  /\ UNCHANGED <<held, asked>>

\* The child, its channels and its approval task go with the call.
Return(status) ==
  /\ given' = status /\ parent' = "idle" /\ child' = NoChild /\ held' = 0 /\ asked' = "no"
  /\ UNCHANGED tasks

\* The terminal is closed.
Die ==
  /\ parent # "gone" /\ parent' = "gone" /\ child' = NoChild /\ held' = 0 /\ asked' = "no"
  /\ UNCHANGED <<given, tasks>>

----------------------------------------------------------------------------
(* The child's loop                                                        *)

\* An iteration: a call of the provider, that will stream n deltas.
CallProvider(n) ==
  /\ child.at = "loop" /\ child.left > 0
  /\ child' = [child EXCEPT !.at = "provider", !.left = @ - 1, !.deltas = n]
  /\ UNCHANGED <<parent, held, asked, given, tasks>>
Exhausted == child.at = "loop" /\ child.left = 0 /\ Return("exhausted")

\* Every send waits for a place.
Send == held < Room /\ held' = held + 1

Stream ==
  /\ child.at = "provider" /\ child.deltas > 0 /\ Send
  /\ child' = [child EXCEPT !.deltas = @ - 1]
  /\ UNCHANGED <<parent, asked, given, tasks>>
Fail == child.at = "provider" /\ child.deltas = 0 /\ Return("failed")
Summarise == child.at = "provider" /\ child.deltas = 0 /\ Return("completed")
AskTools(b) ==
  /\ child.at = "provider" /\ child.deltas = 0
  /\ child' = [child EXCEPT !.at = "tools", !.batch = b, !.announced = 0, !.ended = {}]
  /\ UNCHANGED <<parent, held, asked, given, tasks>>

\* should_parallelize, of the child's tools: the terminal is exclusive and
\* clarify is never parallel.
Together(b) == Len(b) > 1 /\ \A i \in DOMAIN b : b[i] \in {"read_file", "delegate_task"}

Announce ==
  LET i == child.announced + 1 IN
    /\ child.at = "tools" /\ i <= Len(child.batch)
    /\ Together(child.batch) \/ 1..(i - 1) \subseteq child.ended
    /\ Send /\ child' = [child EXCEPT !.announced = i]
    /\ UNCHANGED <<parent, asked, given, tasks>>

\* A command with danger in it waits for the approval task, which denies all;
\* the question to the user and the further child are refused.
Ask(i) ==
  /\ child.at = "tools" /\ i \in 1..child.announced \ child.ended
  /\ child.batch[i] = "rm" /\ asked = "no" /\ asked' = "yes"
  /\ UNCHANGED <<parent, child, held, given, tasks>>
Deny ==
  /\ asked = "yes" /\ asked' = "denied"
  /\ UNCHANGED <<parent, child, held, given, tasks>>
EndTool(i) ==
  /\ child.at = "tools" /\ i \in 1..child.announced \ child.ended
  /\ child.batch[i] = "rm" => asked = "denied"
  /\ asked' = IF child.batch[i] = "rm" THEN "no" ELSE asked
  /\ child' = [child EXCEPT !.ended = @ \cup {i}]
  /\ UNCHANGED <<parent, held, given, tasks>>

NextIteration ==
  /\ child.at = "tools" /\ child.ended = DOMAIN child.batch
  /\ child' = [child EXCEPT !.at = "loop", !.batch = <<>>, !.announced = 0, !.ended = {}]
  /\ UNCHANGED <<parent, held, asked, given, tasks>>

Answers == Fail \/ Summarise \/ \E n \in 1..MaxBatch : \E b \in [1..n -> Tools] : AskTools(b)
ChildStep ==
  \/ \E n \in 0..MaxText : CallProvider(n)
  \/ Exhausted \/ Stream \/ Announce \/ NextIteration
  \/ \E i \in DOMAIN child.batch : Ask(i) \/ EndTool(i)

Next == (\E refused \in BOOLEAN : Delegate(refused)) \/ ChildStep \/ Answers \/ Deny \/ Die

\* The runtime polls the tasks; the provider streams, answers or fails.
Fairness == WF_delegationVars(ChildStep) /\ WF_delegationVars(Answers) /\ WF_delegationVars(Deny)

Spec == Init /\ [][Next]_delegationVars /\ Fairness

----------------------------------------------------------------------------
(* Properties                                                              *)

\* "Child streaming output intentionally discarded ... The send() calls inside the
\* child's tool execution silently fail, which is correct behavior" (delegate.rs:171):
\* whatever the child streams, the task ends and its caller gets the summary.  It
\* holds of a child that streams no more than there is room for.
ChildReturns == parent = "waits" ~> parent # "waits"
=============================================================================
