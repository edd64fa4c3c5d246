----------------------------- MODULE MCCronJobs ------------------------------
(***************************************************************************)
(* Small instances of CronJobs and, each apart from it, of the other files *)
(* that are rewritten whole: memory, skills, approvals, and what the file  *)
(* tools write; and of the terminal, whose user is asked for approvals.    *)
(* In a behaviour one of them, named by part, moves.                       *)
(***************************************************************************)
EXTENDS CronJobs, TLC

ClientSymmetry == Permutations(Clients)
TickerSymmetry == Permutations(Tickers)
Symmetry == ClientSymmetry \cup TickerSymmetry

VARIABLES part,
          notes, agent, ledger, writes, memoryFaults,
          dir, list, shown, skillOps, skillFaults,
          stored, readable, cli, granted, trusted, starts, requests, approvalFaults,
          batch, mode, disk, step, result, killed,
          agentAt, queue, handler, active, approval, prompt, stdin, seen, line, given, questions,
          turns

Memory == INSTANCE MemoryFiles WITH
  Agents <- {"writer", "reader"}, Writers <- {"writer"}, Keys <- {"memory", "user"},
  First <- "memory", Entries <- {"short", "long", "huge"},
  Size <- [short |-> 1, long |-> 2, huge |-> 9], Room <- [memory |-> 4, user |-> 2], Between <- 1,
  MaxWrites <- 3, MaxFaults <- 1, file <- notes, faults <- memoryFaults
SkillDirs == INSTANCE SkillFiles WITH
  Procs <- {"p", "q"}, Names <- 1..3, Most <- 2, Budget <- 4, Lengths <- {1, 3}, Scores <- 0..2,
  MaxOps <- 3, MaxFaults <- 1, ops <- skillOps, faults <- skillFaults
Approval == INSTANCE Approvals WITH
  Procs <- {"p", "q"}, Commands <- {"rm", "dd"}, Interactive <- {"p"},
  MaxStarts <- 3, MaxAsked <- 2, MaxFaults <- 1,
  proc <- cli, asked <- requests, faults <- approvalFaults
Files == INSTANCE FileTools WITH
  Paths <- {<<"f">>, <<"g">>}, Initial <- [x \in {<<"f">>} |-> <<"a ", "b", "c">>],
  Contents <- {<<"b", "b">>}, Offsets <- {1, 4},
  Edits <- {[old |-> "a", new |-> "c", all |-> TRUE], [old |-> "b", new |-> "a", all |-> FALSE]},
  MaxBatch <- 3, MaxKills <- 1, files <- disk
Terminal == INSTANCE TerminalInput WITH
  Room <- 1, MaxAsked <- 3, MaxTurns <- 2, agent <- agentAt, lock <- stdin, asks <- questions

memoryVars == <<notes, agent, ledger, writes, memoryFaults>>
skillVars == <<dir, list, shown, skillOps, skillFaults>>
approvalVars == <<stored, readable, cli, granted, trusted, starts, requests, approvalFaults>>
toolVars == <<batch, mode, disk, step, result, killed>>
terminalVars == <<agentAt, queue, handler, active, approval, prompt, stdin, seen, line, given,
                  questions, turns>>
others == <<vars, memoryVars, skillVars, approvalVars, toolVars, terminalVars>>

FilesInit ==
  /\ part \in {"cron", "memory", "skills", "approvals", "tools", "terminal"}
  /\ Init /\ Memory!Init /\ Approval!Init /\ Files!Init /\ Terminal!Init
  /\ SkillDirs!Init /\ (part # "skills" => \A n \in 1..3 : dir[n] = 0)
\* Agents and command lines may stop; the schedulers go on.
Rest == part # "cron" /\ UNCHANGED <<part, others>>
FilesNext ==
  \/ /\ part = "cron" /\ Next
     /\ UNCHANGED <<part, memoryVars, skillVars, approvalVars, toolVars, terminalVars>>
  \/ /\ part = "memory" /\ Memory!Next
     /\ UNCHANGED <<part, vars, skillVars, approvalVars, toolVars, terminalVars>>
  \/ /\ part = "skills" /\ SkillDirs!Next
     /\ UNCHANGED <<part, vars, memoryVars, approvalVars, toolVars, terminalVars>>
  \/ /\ part = "approvals" /\ Approval!Next
     /\ UNCHANGED <<part, vars, memoryVars, skillVars, toolVars, terminalVars>>
  \/ /\ part = "tools" /\ Files!Next
     /\ UNCHANGED <<part, vars, memoryVars, skillVars, approvalVars, terminalVars>>
  \/ /\ part = "terminal" /\ Terminal!Next
     /\ UNCHANGED <<part, vars, memoryVars, skillVars, approvalVars, toolVars>>
  \/ Rest

\* The fairness of CronJobs and of TerminalInput, of the part that moves.
FilesFairness ==
  /\ \A p \in Procs : WF_vars(part = "cron" /\ StoreStep(p))
  /\ \A t \in Tickers : WF_vars(part = "cron" /\ TickStep(t))
  /\ WF_terminalVars(part = "terminal" /\ Terminal!HandlerStep)
  /\ WF_terminalVars(part = "terminal" /\ Terminal!PromptStep)
  /\ WF_terminalVars(part = "terminal" /\ Terminal!TimeOut)
  /\ WF_terminalVars(part = "terminal" /\ Terminal!EnterQueue)
  /\ SF_terminalVars(part = "terminal" /\ Terminal!ApprovalStep)
  /\ SF_terminalVars(part = "terminal" /\ Terminal!TakeChoice)
  /\ SF_terminalVars(part = "terminal" /\ Terminal!Type("yes"))

FilesSpec == FilesInit /\ [][FilesNext]_<<part, others>> /\ FilesFairness

\* EditsHold, and what holds of the other files and of the terminal.
HomeHolds ==
  /\ EditsHold
  /\ part = "memory" => Memory!MemorySound
  /\ part = "skills" => SkillDirs!SkillsSound
  /\ part = "approvals" => Approval!ApprovalsSound
  /\ part = "tools" => Files!FilesSound
  /\ part = "terminal" => Terminal!AnswerIsFresh

\* A job that is due is run, and nobody waits for the terminal for ever.
WhoWaitsIsServed ==
  /\ part = "cron" => DueIsServed
  /\ part = "terminal" => Terminal!NobodyIsStuck
=============================================================================
