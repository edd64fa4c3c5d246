------------------------------ MODULE Approvals -------------------------------
(***************************************************************************)
(* Dangerous commands on the command line (ApprovalManager of hermes-cli): *)
(* a tool asks before it runs one, the handler of the process answers from *)
(* memory, from the policy or by asking the user, and remembers what the   *)
(* user allowed for the process or for always.  The latter is a file that  *)
(* every process reads when it starts and replaces whole.                  *)
(*                                                                         *)
(* Gateway sessions, cron jobs and managed runs have no memory: their      *)
(* handlers answer the same to everything.                                 *)
(***************************************************************************)
EXTENDS Naturals, FiniteSets

CONSTANTS Procs, Commands,
          Interactive,    \* the processes with a terminal
          MaxStarts, MaxAsked, MaxFaults

VARIABLES stored,      \* approvals.json: the commands in it
          readable,    \* is it JSON?
          proc,        \* [up, pc, policy, command, decision, session, always, running]
          granted,     \* history: <<process, command, decision>> of the user, while they count
          trusted,     \* history: commands that were stored and must not be forgotten
          starts, asked, faults
vars == <<stored, readable, proc, granted, trusted, starts, asked, faults>>

Policies == {"ask", "yolo", "deny"}
Allowing == {"allow", "session", "always"}
Fault == faults < MaxFaults /\ faults' = faults + 1
Up == {p \in Procs : proc[p].up}

\* What still counts once a process is gone, and once it has run a command.
Lasting(p) == {g \in granted : g[1] # p \/ g[3] = "always"}
Unused(p) == {g \in granted : g[1] # p \/ g[3] # "allow"}

Down == [up |-> FALSE, pc |-> "idle", policy |-> "ask", command |-> "none", decision |-> "none",
         session |-> {}, always |-> {}, running |-> FALSE]

Init == /\ stored = {} /\ readable = TRUE
        /\ proc = [p \in Procs |-> Down]
        /\ granted = {} /\ trusted = {}
        /\ starts = 0 /\ asked = 0 /\ faults = 0

\* load_or_default: a file that cannot be read counts as empty.
Start(p) ==
  /\ ~proc[p].up /\ starts < MaxStarts /\ starts' = starts + 1
  /\ \E policy \in Policies, read \in BOOLEAN :
       /\ IF read THEN readable /\ faults' = faults
          ELSE IF readable THEN Fault ELSE faults' = faults
       /\ proc' = [proc EXCEPT ![p] = [Down EXCEPT !.up = TRUE, !.policy = policy,
                                                   !.always = IF read THEN stored ELSE {}]]
       \* With what this process does not know, or with two processes, the next
       \* save may forget what another one was told (see the README).
       /\ trusted' = IF read /\ Up = {} THEN trusted ELSE {}
  /\ UNCHANGED <<stored, readable, granted, asked>>

Stop(p) ==
  /\ proc[p].up
  /\ proc' = [proc EXCEPT ![p] = Down] /\ granted' = Lasting(p)
  /\ UNCHANGED <<stored, readable, trusted, starts, asked, faults>>

\* The user switches the policy, in the middle of a turn too.
SwitchPolicy(p) ==
  /\ proc[p].up
  /\ proc' = [proc EXCEPT ![p].policy = IF @ = "yolo" THEN "ask" ELSE "yolo"]
  /\ UNCHANGED <<stored, readable, granted, trusted, starts, asked, faults>>

\* A tool was given a dangerous command, or a program to run.
Ask(p, c) ==
  /\ proc[p].up /\ proc[p].pc = "idle" /\ ~proc[p].running /\ asked < MaxAsked
  /\ proc' = [proc EXCEPT ![p].pc = "asked", ![p].command = c]
  /\ asked' = asked + 1
  /\ UNCHANGED <<stored, readable, granted, trusted, starts, faults>>

Remembered(p) == LET c == proc[p].command IN
  CASE c \in proc[p].always -> "always"
    [] c \in proc[p].session -> "session"
    [] OTHER -> "none"

Decide(p, decision) == proc' = [proc EXCEPT ![p].pc = "decided", ![p].decision = decision]

Reuse(p) ==
  /\ proc[p].pc = "asked" /\ Remembered(p) # "none"
  /\ Decide(p, Remembered(p))
  /\ UNCHANGED <<stored, readable, granted, trusted, starts, asked, faults>>

FollowPolicy(p) ==
  /\ proc[p].pc = "asked" /\ Remembered(p) = "none"
  /\ CASE proc[p].policy = "yolo" -> Decide(p, "allow")
       [] proc[p].policy = "deny" -> Decide(p, "deny")
       [] p \in Interactive -> proc' = [proc EXCEPT ![p].pc = "prompting"]
       [] OTHER -> Decide(p, "deny")
  /\ granted' = IF proc[p].policy = "yolo" THEN granted \cup {<<p, proc[p].command, "allow">>}
                ELSE granted
  /\ UNCHANGED <<stored, readable, trusted, starts, asked, faults>>

\* The user chooses; without an input that is a choice, deny.
Choose(p, decision) ==
  /\ proc[p].pc = "prompting"
  /\ Decide(p, decision)
  /\ granted' = IF decision = "deny" THEN granted
                ELSE granted \cup {<<p, proc[p].command, decision>>}
  /\ UNCHANGED <<stored, readable, trusted, starts, asked, faults>>

\* remember, up to the file: what was reused is remembered once more.
Remember(p) ==
  /\ proc[p].pc = "decided"
  /\ LET c == proc[p].command   d == proc[p].decision IN
     proc' = [proc EXCEPT
       ![p].pc = IF d = "always" THEN "saving" ELSE "answering",
       ![p].session = IF d \in {"session", "always"} THEN @ \cup {c} ELSE @,
       ![p].always = IF d = "always" THEN @ \cup {c} ELSE @]
  /\ UNCHANGED <<stored, readable, granted, trusted, starts, asked, faults>>

\* The file is emptied before it is written: a process that dies, or a disk that is
\* full, in between leaves it without a list.
Save(p) ==
  /\ proc[p].pc = "saving"
  /\ \/ /\ stored' = proc[p].always /\ readable' = TRUE
        /\ trusted' = (IF Up = {p} THEN trusted \cup proc[p].always ELSE {}) /\ faults' = faults
        /\ proc' = [proc EXCEPT ![p].pc = "answering"] /\ granted' = granted
     \/ /\ stored' = {} /\ readable' = FALSE /\ trusted' = {} /\ Fault
        /\ \/ proc' = [proc EXCEPT ![p].pc = "answering"] /\ granted' = granted
           \/ proc' = [proc EXCEPT ![p] = Down] /\ granted' = Lasting(p)
  /\ UNCHANGED <<starts, asked>>

\* The answer is given whether it could be stored or not; only "deny" stops the tool.
Reply(p) ==
  /\ proc[p].pc = "answering"
  /\ proc' = [proc EXCEPT ![p].pc = "idle", ![p].running = proc[p].decision # "deny"]
  /\ UNCHANGED <<stored, readable, granted, trusted, starts, asked, faults>>

Finish(p) ==
  /\ proc[p].running
  /\ proc' = [proc EXCEPT ![p].running = FALSE, ![p].command = "none", ![p].decision = "none"]
  /\ granted' = Unused(p)
  /\ UNCHANGED <<stored, readable, trusted, starts, asked, faults>>

Next == \E p \in Procs :
          \/ Start(p) \/ Stop(p) \/ SwitchPolicy(p) \/ Reuse(p) \/ FollowPolicy(p)
          \/ \E c \in Commands : Ask(p, c)
          \/ \E d \in Allowing \cup {"deny"} : Choose(p, d)
          \/ Remember(p) \/ Save(p) \/ Reply(p) \/ Finish(p)

Spec == Init /\ [][Next]_vars

----------------------------------------------------------------------------
(* Properties                                                              *)

\* No command runs that the user has not allowed: this time, for this process, or
\* for always in whatever process; or the policy was to allow everything when it was
\* asked for.  What is remembered never allows more than it was given for, however
\* processes overlap and files fail.
RunsWhatWasGranted ==
  \A p \in Procs : proc[p].running =>
    \E g \in granted : g[2] = proc[p].command /\ (g[1] = p \/ g[3] = "always")

\* Once stored, "always" is known to every process that starts, as long as there was
\* one process at a time and no file was found unreadable.
AlwaysIsRemembered == \A p \in Up : trusted \subseteq proc[p].always

ApprovalsSound == RunsWhatWasGranted /\ AlwaysIsRemembered
=============================================================================
