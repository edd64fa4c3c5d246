---------------------------- MODULE TerminalInput -----------------------------
(***************************************************************************)
(* Who reads the terminal of hermes-cli: the prompt of the REPL between    *)
(* two turns, the task that puts the agent's questions to the user, and    *)
(* the task that asks for approvals.  A question is given up after a time, *)
(* its reader is not.                                                      *)
(***************************************************************************)
EXTENDS Naturals, Sequences

CONSTANTS Room,               \* places of the channel of questions
          MaxAsked, MaxTurns  \* bounds

VARIABLES agent,    \* AtPrompt, Working, or the request it waits for
          queue,    \* questions that are not put yet
          handler,  \* of the clarify handler: its question, where it is, the line it has
          active,   \* clarify_active
          approval, \* of the approval handler: "idle", "asked" or "reading"
          prompt,   \* of the REPL: "off", "waits" or "reading"
          lock,     \* who holds the lock of stdin
          seen,     \* the requests shown to the user
          line,     \* the line typed and not read: what it says, what was shown by then
          given,    \* what was answered last, and the line that did
          asks, turns
terminalVars == <<agent, queue, handler, active, approval, prompt, lock, seen, line, given,
                  asks, turns>>

NoLine == [says |-> "nothing", seen |-> {}]
NoRequest == <<"none", 0>>
AtPrompt == <<"at prompt", 0>>
Working == <<"turn", 0>>
Idle == [asks |-> NoRequest, at |-> "idle", line |-> NoLine]
Prompt == <<"prompt", turns>>

Init ==
  /\ agent = AtPrompt /\ queue = <<>> /\ handler = Idle /\ active = FALSE
  /\ approval = "idle" /\ prompt = "waits" /\ lock = "nobody"
  /\ seen = {} /\ line = NoLine /\ given = [to |-> NoRequest, line |-> NoLine]
  /\ asks = 0 /\ turns = 0

Give(request) == given' = [to |-> request, line |-> line]

----------------------------------------------------------------------------
(* The user answers what is on the screen, or types something else, and    *)
(* never ahead: a line is typed when something waits for it.               *)

Type(text) ==
  /\ line = NoLine /\ (lock # "nobody" \/ prompt = "reading")
  /\ line' = [says |-> text, seen |-> seen]
  /\ UNCHANGED <<agent, queue, handler, active, approval, prompt, lock, seen, given, asks, turns>>

----------------------------------------------------------------------------
(* The REPL                                                                *)

\* read_repl_input waits for the clarify handler to be done with stdin; its
\* editor then reads the terminal without that lock.
Readline ==
  /\ prompt = "waits" /\ ~active
  /\ prompt' = "reading" /\ seen' = seen \cup {Prompt}
  /\ UNCHANGED <<agent, queue, handler, active, approval, lock, line, given, asks, turns>>
TakeMessage ==
  /\ prompt = "reading" /\ line # NoLine /\ turns < MaxTurns
  /\ Give(Prompt) /\ line' = NoLine
  /\ prompt' = "off" /\ agent' = Working /\ turns' = turns + 1
  /\ UNCHANGED <<queue, handler, active, approval, lock, seen, asks>>
EndTurn ==
  /\ agent = Working /\ agent' = AtPrompt /\ prompt' = "waits"
  /\ UNCHANGED <<queue, handler, active, approval, lock, seen, line, given, asks, turns>>

----------------------------------------------------------------------------
(* Questions                                                               *)

Waits(kind) == \E i \in 1..asks : agent = <<kind, i>>
\* clarify: the request enters the channel when there is room, and then the tool
\* waits 120 seconds.
Clarify ==
  /\ agent = Working /\ asks < MaxAsked /\ asks' = asks + 1
  /\ agent' = <<"sends", asks'>>
  /\ UNCHANGED <<queue, handler, active, approval, prompt, lock, seen, line, given, turns>>
EnterQueue ==
  /\ Waits("sends") /\ Len(queue) < Room
  /\ queue' = Append(queue, <<"clarify", asks>>) /\ agent' = <<"clarify", asks>>
  /\ UNCHANGED <<handler, active, approval, prompt, lock, seen, line, given, asks, turns>>
TimeOut ==
  /\ Waits("clarify") /\ agent' = Working
  /\ UNCHANGED <<queue, handler, active, approval, prompt, lock, seen, line, given, asks, turns>>

\* spawn_clarify_handler puts one question after the other, given up or not.
Put ==
  /\ handler.at = "idle" /\ queue # <<>>
  /\ handler' = [asks |-> Head(queue), at |-> "shown", line |-> NoLine]
  /\ queue' = Tail(queue) /\ seen' = seen \cup {Head(queue)}
  /\ UNCHANGED <<agent, active, approval, prompt, lock, line, given, asks, turns>>
BeginReading ==
  /\ handler.at = "shown" /\ handler' = [handler EXCEPT !.at = "reading"] /\ active' = TRUE
  /\ UNCHANGED <<agent, queue, approval, prompt, lock, seen, line, given, asks, turns>>
LockForQuestion ==
  /\ handler.at = "reading" /\ lock = "nobody" /\ lock' = "question"
  /\ UNCHANGED <<agent, queue, handler, active, approval, prompt, seen, line, given, asks, turns>>
TakeAnswer ==
  /\ lock = "question" /\ line # NoLine
  /\ handler' = [handler EXCEPT !.at = "read", !.line = line]
  /\ lock' = "nobody" /\ active' = FALSE /\ line' = NoLine
  /\ UNCHANGED <<agent, queue, approval, prompt, seen, given, asks, turns>>
\* Every request has an answer channel of its own.
Listens(request) == agent = request
Respond ==
  /\ handler.at = "read" /\ handler' = Idle
  /\ IF Listens(handler.asks) THEN agent' = Working /\ given' = [to |-> agent, line |-> handler.line]
     ELSE UNCHANGED <<agent, given>>
  /\ UNCHANGED <<queue, active, approval, prompt, lock, seen, line, asks, turns>>

----------------------------------------------------------------------------
(* Approvals: the tool waits without limit.                                *)

AskApproval ==
  /\ agent = Working /\ asks < MaxAsked /\ asks' = asks + 1
  /\ agent' = <<"approval", asks'>> /\ approval' = "asked"
  /\ UNCHANGED <<queue, handler, active, prompt, lock, seen, line, given, turns>>
\* The command is remembered, or the policy decides.
DecideAtOnce ==
  /\ approval = "asked" /\ approval' = "idle" /\ agent' = Working
  /\ UNCHANGED <<queue, handler, active, prompt, lock, seen, line, given, asks, turns>>
PromptForApproval ==
  /\ approval = "asked" /\ approval' = "reading" /\ seen' = seen \cup {agent}
  /\ UNCHANGED <<agent, queue, handler, active, prompt, lock, line, given, asks, turns>>
LockForApproval ==
  /\ approval = "reading" /\ lock = "nobody" /\ lock' = "approval"
  /\ UNCHANGED <<agent, queue, handler, active, approval, prompt, seen, line, given, asks, turns>>
\* What is no choice is asked again.
TakeChoice ==
  /\ lock = "approval" /\ line # NoLine /\ lock' = "nobody" /\ line' = NoLine
  /\ IF line.says = "yes" THEN approval' = "idle" /\ Give(agent) /\ agent' = Working
     ELSE UNCHANGED <<approval, given, agent>>
  /\ UNCHANGED <<queue, handler, active, prompt, seen, asks, turns>>

HandlerStep == Put \/ BeginReading \/ LockForQuestion \/ TakeAnswer \/ Respond
ApprovalStep == DecideAtOnce \/ PromptForApproval \/ LockForApproval \/ TakeChoice
PromptStep == Readline \/ TakeMessage

Next ==
  \/ \E text \in {"yes", "other"} : Type(text)
  \/ EndTurn \/ Clarify \/ EnterQueue \/ TimeOut \/ AskApproval
  \/ HandlerStep \/ ApprovalStep \/ PromptStep

\* The tasks are polled, and a user who is asked answers in the end.  Of two that
\* wait for the lock, none is passed over for ever.
Fairness ==
  /\ WF_terminalVars(HandlerStep) /\ WF_terminalVars(PromptStep) /\ WF_terminalVars(TimeOut)
  /\ WF_terminalVars(EnterQueue)
  /\ SF_terminalVars(ApprovalStep) /\ SF_terminalVars(TakeChoice) /\ SF_terminalVars(Type("yes"))

Spec == Init /\ [][Next]_terminalVars /\ Fairness

----------------------------------------------------------------------------
(* Properties                                                              *)

\* What a tool or the REPL is given was typed when its request was on the screen:
\* a line for an earlier question answers no later one.
AnswerIsFresh == given.to # NoRequest => given.to \in given.line.seen

\* Whoever waits for the user goes on, and the prompt comes back after a turn,
\* however many questions were given up.
NobodyIsStuck ==
  /\ (\E kind \in {"sends", "clarify", "approval"} : Waits(kind)) ~> agent = Working
  /\ prompt = "waits" ~> prompt = "reading"

\* "There is no truly concurrent stdin read in normal flow" (repl.rs:439): false
\* after a question was given up.
OneReader ==
  handler.at = "reading" => approval # "reading" /\ prompt # "reading"
=============================================================================
