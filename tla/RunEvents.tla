------------------------------ MODULE RunEvents ------------------------------
(***************************************************************************)
(* The event log of one managed run and those who read it while it grows.  *)
(* The agent's tool calls are signed: a receipt goes into the audit file,  *)
(* then an event that names it through the channel of the run to a relay   *)
(* task, which stores it.  Who ends the run writes its status, then its    *)
(* last event.  In processes of their own `runs events --follow` pages     *)
(* through the log until the run is over, and `runs verify` looks the      *)
(* receipts up.                                                            *)
(***************************************************************************)
EXTENDS Naturals, Sequences, SequencesExt

CONSTANTS Calls,      \* the tool calls of the run, in any order
          Page,       \* events that one query returns
          RelayCap,   \* capacity of the channel
          KeepsUp,    \* no more than a page is stored between two queries
          MaxFaults   \* bound on failing calls of the audit file and the store

VARIABLES status,   \* has the run a terminal status?
          log,      \* its events, numbered as stored
          relay,    \* the channel, in order
          call,     \* how far each call is
          audit,    \* receipts in the audit file
          task,     \* the run task: "run", "drain", "write", "tell" or "gone"
          follower, \* [pc, ended, last, due] of `runs events --follow`
          shown,    \* the events it printed
          verifier, \* [pc, refs, missing] of `runs verify`
          faults
runVars == <<status, log, relay, call, audit, task>>
vars == <<runVars, follower, shown, verifier, faults>>

NoReceipt == <<>>
Event(kind, receipt) == [kind |-> kind, receipt |-> receipt]
Fault == faults < MaxFaults /\ faults' = faults + 1
Readers == <<follower, shown, verifier>>

\* list_run_events_after, list_run_events_tail.
BadAfter(id) == SetToSortSeq({i \in DOMAIN log : i >= id /\ i < id + Page}, <)
After(id) == SetToSortSeq({i \in DOMAIN log : i > id /\ i <= id + Page}, <)
Tail_(n) == SetToSortSeq({i \in DOMAIN log : i + n > Len(log)}, <)

Init ==
  /\ status = "running" /\ log = <<Event("started", NoReceipt)>> /\ relay = <<>>
  /\ call = [c \in Calls |-> "none"] /\ audit = {} /\ task = "run"
  /\ follower = [pc |-> "load", ended |-> FALSE, last |-> 0, due |-> 0] /\ shown = <<>>
  /\ verifier = [pc |-> "events", refs |-> {}, missing |-> {}]
  /\ faults = 0

----------------------------------------------------------------------------
(* The agent and ManagedSignetObserver                                     *)

\* A send waits for room in the channel.
Send(event) == Len(relay) < RelayCap /\ relay' = Append(relay, event)

\* Where the receipt is appended: before the event is sent.
BadSignedAt(pc) == pc \in {"requested", "answered"}
SignedAt(pc) == pc \in {"none", "executed"}

\* on_tool_call and on_tool_result: the four steps of a call.  After the first,
\* call c has a pending receipt; without one the result is not signed.
Receipt(c) == IF call[c] \in {"none", "requested"} THEN <<c, "request">> ELSE <<c, "response">>
Sign(c) ==
  IF SignedAt(call[c]) THEN audit' = audit \cup {Receipt(c)} ELSE UNCHANGED audit
Moves(c, pc) == call' = [call EXCEPT ![c] = pc]

SignRequest(c) ==
  /\ task = "run" /\ call[c] = "none"
  /\ Sign(c) /\ Moves(c, "requested")
  /\ UNCHANGED <<status, log, relay, task, Readers, faults>>

AnnounceRequest(c) ==
  /\ task = "run" /\ call[c] = "requested"
  /\ Sign(c) /\ Send(Event("signed", Receipt(c))) /\ Moves(c, "executed")
  /\ UNCHANGED <<status, log, task, Readers, faults>>

SignResponse(c) ==
  /\ task = "run" /\ call[c] = "executed"
  /\ Sign(c) /\ Moves(c, "answered")
  /\ UNCHANGED <<status, log, relay, task, Readers, faults>>

AnnounceResponse(c) ==
  /\ task = "run" /\ call[c] = "answered"
  /\ Sign(c) /\ Send(Event("signed", Receipt(c))) /\ Moves(c, "done")
  /\ UNCHANGED <<status, log, task, Readers, faults>>

\* The key or the audit file fails: progress is reported instead, and the
\* result of a request without a receipt is not signed either.
SignFails(c) ==
  /\ task = "run" /\ Fault
  /\ \/ call[c] = "none" /\ Moves(c, "unsigned")
     \/ call[c] = "executed" /\ Moves(c, "done")
  /\ Send(Event("progress", NoReceipt))
  /\ UNCHANGED <<status, log, audit, task, Readers>>

NothingPending(c) ==
  /\ task = "run" /\ call[c] = "unsigned"
  /\ Send(Event("progress", NoReceipt)) /\ Moves(c, "done")
  /\ UNCHANGED <<status, log, audit, task, Readers, faults>>

----------------------------------------------------------------------------
(* The relay task and the end of the run                                   *)

MayStore == KeepsUp /\ follower.pc \notin {"load", "tail", "done"} =>
              Len(log) < follower.last + Page

\* run_event_from_delta, append_run_event: a failing insert is ignored.
Relay ==
  /\ relay # <<>> /\ relay' = Tail(relay)
  /\ \/ MayStore /\ log' = Append(log, Head(relay)) /\ UNCHANGED faults
     \/ Fault /\ UNCHANGED log
  /\ UNCHANGED <<status, call, audit, task, Readers>>

\* The conversation is over and the task waits for the relay, ...
Finish ==
  /\ task = "run" /\ \A c \in Calls : call[c] = "done"
  /\ task' = "drain"
  /\ UNCHANGED <<status, log, relay, call, audit, Readers, faults>>

\* ... and goes on to finalize when it has drained.
Drained ==
  /\ task = "drain" /\ relay = <<>> /\ task' = "write"
  /\ UNCHANGED <<status, log, relay, call, audit, Readers, faults>>

\* A cancel request or a timeout aborts the run task; its relay goes on.
Terminate ==
  /\ task \in {"run", "drain"} /\ task' = "write"
  /\ UNCHANGED <<status, log, relay, call, audit, Readers, faults>>

\* The gateway dies, and the next one reconciles the run.
Crash ==
  /\ task \in {"run", "drain"} /\ task' = "write" /\ relay' = <<>>
  /\ UNCHANGED <<status, log, call, audit, Readers, faults>>

\* The status is one call, ...
WriteStatus ==
  /\ task = "write" /\ task' = "tell" /\ status' = "ended"
  /\ UNCHANGED <<log, relay, call, audit, Readers, faults>>

\* ... the last event another.
LogEnding ==
  /\ task = "tell" /\ task' = "gone"
  /\ \/ MayStore /\ log' = Append(log, Event("ended", NoReceipt)) /\ UNCHANGED faults
     \/ Fault /\ UNCHANGED log
  /\ UNCHANGED <<status, relay, call, audit, Readers>>

----------------------------------------------------------------------------
(* show_run_events                                                         *)

Follow(pc, ids) ==
  /\ shown' = shown \o ids
  /\ follower' = [follower EXCEPT !.pc = pc, !.last = IF ids = <<>> THEN @ ELSE Last(ids)]

LoadRun ==
  /\ follower.pc = "load"
  /\ follower' = [follower EXCEPT !.pc = "tail", !.ended = status = "ended"]
  /\ UNCHANGED <<runVars, shown, verifier, faults>>

\* A run that was over when it was loaded is not followed.
ShowTail ==
  /\ follower.pc = "tail"
  /\ Follow(IF follower.ended THEN "done" ELSE "poll", Tail_(Page))
  /\ UNCHANGED <<runVars, verifier, faults>>

Poll ==
  /\ follower.pc = "poll"
  /\ Follow("check", After(follower.last))
  /\ UNCHANGED <<runVars, verifier, faults>>

\* `due` is what was stored when the run was found to be over.
CheckRun ==
  /\ follower.pc = "check"
  /\ follower' = [follower EXCEPT !.pc = IF status = "ended" THEN "rest" ELSE "poll",
                                  !.due = IF status = "ended" THEN Len(log) ELSE 0]
  /\ UNCHANGED <<runVars, shown, verifier, faults>>

ShowRest ==
  /\ follower.pc = "rest"
  /\ Follow("done", After(follower.last))
  /\ UNCHANGED <<runVars, verifier, faults>>

----------------------------------------------------------------------------
(* build_run_signet_verification                                           *)

\* collect_signet_receipt_ids.
ReadEvents ==
  /\ verifier.pc = "events"
  /\ verifier' = [verifier EXCEPT !.pc = "audit",
                    !.refs = {log[i].receipt : i \in {j \in DOMAIN log : log[j].kind = "signed"}}]
  /\ UNCHANGED <<runVars, follower, shown, faults>>

\* collect_found_receipt_ids.
ReadAudit ==
  /\ verifier.pc = "audit"
  /\ verifier' = [verifier EXCEPT !.pc = "done", !.missing = @ \cup (verifier.refs \ audit)]
  /\ UNCHANGED <<runVars, follower, shown, faults>>

Signs(c) == SignRequest(c) \/ AnnounceRequest(c) \/ SignResponse(c) \/ AnnounceResponse(c)

Next == \/ \E c \in Calls : Signs(c) \/ SignFails(c) \/ NothingPending(c)
        \/ Relay \/ Finish \/ Drained \/ Terminate \/ Crash \/ WriteStatus \/ LogEnding
        \/ LoadRun \/ ShowTail \/ Poll \/ CheckRun \/ ShowRest
        \/ ReadEvents \/ ReadAudit

Spec == Init /\ [][Next]_vars

----------------------------------------------------------------------------
(* Properties                                                              *)

TypeOK ==
  /\ status \in {"running", "ended"} /\ task \in {"run", "drain", "write", "tell", "gone"}
  /\ \A i \in DOMAIN log : log[i].kind \in {"started", "signed", "progress", "ended"}
  /\ Len(relay) <= RelayCap
  /\ call \in [Calls -> {"none", "unsigned", "requested", "executed", "answered", "done"}]
  /\ audit \subseteq Calls \X {"request", "response"}
  /\ follower.pc \in {"load", "tail", "poll", "check", "rest", "done"}
  /\ verifier.pc \in {"events", "audit", "done"} /\ faults \in 0..MaxFaults

\* Whatever is stored while somebody follows, whoever stores it: the events are
\* shown in order, each once and none between two left out, and the follower of
\* a run that ends leaves only when it has shown all that was stored when it
\* found the run to be over -- if no more than a page comes at a time.
FollowerSeesAll ==
  /\ \A i \in 1..(Len(shown) - 1) : shown[i + 1] = shown[i] + 1
  /\ follower.pc = "done" => follower.due <= follower.last

\* However far the run is, or wherever it was cut short: the receipt that an
\* event names is in the audit file when somebody verifies the run.
ReceiptsAreThere == verifier.missing = {}

ReadersSeeAll == FollowerSeesAll /\ ReceiptsAreThere

\* Not kept (README): who sees a run end sees its last event.
EndingIsShown ==
  follower.pc = "done" =>
    \A i \in DOMAIN log : log[i].kind = "ended" => \E k \in DOMAIN shown : shown[k] = i
=============================================================================
