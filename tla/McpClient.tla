------------------------------ MODULE McpClient -------------------------------
(***************************************************************************)
(* A stdio MCP server as the tools of an agent see it.  Every call gets an *)
(* id, an entry in the map of pending calls and one frame on the server's  *)
(* input, written under a lock; one task reads the server's output, hands  *)
(* each response to the call that waits for it and itself answers, on the  *)
(* same input, what it does not support.  Both pipes are bounded.          *)
(*                                                                         *)
(* Calls may be given up by the task that made them (a cancelled run), and *)
(* a call given up while its frame is being written leaves half a frame.   *)
(***************************************************************************)
EXTENDS Naturals, Sequences, FiniteSets

CONSTANTS Callers,     \* tasks that call the server
          PipeSize,    \* how many messages a pipe holds
          Independent, \* the server reads its input although its output is full
          MaxCalls, MaxAsks, MaxDrops  \* bounds

VARIABLES call,    \* what each caller does, and the id of its call
          nextId, pending,
          lock,    \* who holds the lock of the input
          stdin, stdout,
          server,  \* "up", "deaf" (it lost track of the frames) or "dead"
          owes,    \* what it has to write next
          reader,  \* "read", "reject" or "ended"
          asks, drops
cvars == <<call, nextId, pending, lock, stdin, stdout, server, owes, reader, asks, drops>>

Free == "nobody"
Reader == "reader"
Idle == [at |-> "idle", id |-> 0]
At(c, pc) == call[c].at = pc
GoTo(c, pc) == call' = [call EXCEPT ![c].at = pc]
End(c) == call' = [call EXCEPT ![c] = Idle]
Request(id) == <<"request", id>>
Response(id) == <<"response", id>>
Unsupported == <<"unsupported", 0>>
Error == <<"error", 0>>
Room(pipe) == Len(pipe) < PipeSize

Init ==
  /\ call = [c \in Callers |-> Idle] /\ nextId = 1 /\ pending = {}
  /\ lock = Free /\ stdin = <<>> /\ stdout = <<>>
  /\ server = "up" /\ owes = <<>> /\ reader = "read"
  /\ asks = 0 /\ drops = 0

----------------------------------------------------------------------------
(* call_method                                                             *)

\* The id, and the entry that waits for it, come before the request.
Call(c) ==
  /\ At(c, "idle") /\ nextId <= MaxCalls
  /\ call' = [call EXCEPT ![c] = [at |-> "begun", id |-> nextId]]
  /\ nextId' = nextId + 1 /\ pending' = pending \cup {nextId}
  /\ UNCHANGED <<lock, stdin, stdout, server, owes, reader, asks, drops>>

\* write_framed_message takes the lock and holds it while the pipe is full.
TakeInput(c) ==
  /\ At(c, "begun") /\ lock = Free
  /\ lock' = c /\ GoTo(c, "write")
  /\ UNCHANGED <<nextId, pending, stdin, stdout, server, owes, reader, asks, drops>>

Write(c) ==
  /\ At(c, "write") /\ server # "dead" /\ Room(stdin)
  /\ stdin' = Append(stdin, Request(call[c].id))
  /\ lock' = Free /\ GoTo(c, "wait")
  /\ UNCHANGED <<nextId, pending, stdout, server, owes, reader, asks, drops>>

WriteFails(c) ==
  /\ At(c, "write") /\ server = "dead"
  /\ lock' = Free /\ pending' = pending \ {call[c].id} /\ End(c)
  /\ UNCHANGED <<nextId, stdin, stdout, server, owes, reader, asks, drops>>

BadTimesOut(c) == FALSE
\* Only the wait for the response has a timeout, MCP_REQUEST_TIMEOUT.
TimesOut(c) == At(c, "wait")

Timeout(c) ==
  /\ TimesOut(c)
  /\ pending' = pending \ {call[c].id} /\ End(c)
  /\ UNCHANGED <<nextId, lock, stdin, stdout, server, owes, reader, asks, drops>>

\* The sender of the entry is gone: the server closed before responding.
Closed(c) ==
  /\ At(c, "wait") /\ call[c].id \notin pending
  /\ End(c)
  /\ UNCHANGED <<nextId, pending, lock, stdin, stdout, server, owes, reader, asks, drops>>

\* The task is aborted.  Its entry stays; a guard is released, whatever has
\* been written of the frame.
Drop(c) ==
  /\ ~At(c, "idle") /\ drops < MaxDrops /\ drops' = drops + 1
  /\ End(c)
  /\ lock' = IF lock = c THEN Free ELSE lock
  /\ server' \in IF lock = c /\ server # "dead" THEN {server, "deaf"} ELSE {server}
  /\ UNCHANGED <<nextId, pending, stdin, stdout, owes, reader, asks>>

----------------------------------------------------------------------------
(* spawn_stdout_reader                                                     *)

\* A response goes to its call, if that still waits.
Read ==
  /\ reader = "read" /\ stdout # <<>>
  /\ stdout' = Tail(stdout)
  /\ LET m == Head(stdout) IN
       /\ pending' = IF m[1] = "response" THEN pending \ {m[2]} ELSE pending
       /\ call' = [c \in Callers |-> IF m[1] = "response" /\ At(c, "wait") /\ call[c].id = m[2]
                                     THEN Idle ELSE call[c]]
       /\ reader' = IF m = Unsupported THEN "reject" ELSE "read"
  /\ UNCHANGED <<nextId, lock, stdin, server, owes, asks, drops>>

\* The reader waits for the lock and for room like any caller.
ReaderTakesInput ==
  /\ reader = "reject" /\ lock = Free
  /\ lock' = Reader
  /\ UNCHANGED <<call, nextId, pending, stdin, stdout, server, owes, reader, asks, drops>>

Reject ==
  /\ lock = Reader /\ (server = "dead" \/ Room(stdin))
  /\ stdin' = IF server = "dead" THEN stdin ELSE Append(stdin, Error)
  /\ lock' = Free /\ reader' = "read"
  /\ UNCHANGED <<call, nextId, pending, stdout, server, owes, asks, drops>>

\* The output is closed: every entry is dropped, and nobody reads any more.
Eof ==
  /\ reader = "read" /\ server = "dead" /\ stdout = <<>>
  /\ reader' = "ended" /\ pending' = {}
  /\ UNCHANGED <<call, nextId, lock, stdin, stdout, server, owes, asks, drops>>

----------------------------------------------------------------------------
(* The server                                                              *)

\* It answers a request, or never does; an error needs no answer.
Serve ==
  /\ server # "dead" /\ stdin # <<>>
  /\ Independent \/ owes = <<>>
  /\ stdin' = Tail(stdin)
  /\ \/ owes' = IF server = "up" /\ Head(stdin)[1] = "request"
                THEN Append(owes, Response(Head(stdin)[2])) ELSE owes
     \/ UNCHANGED owes
  /\ UNCHANGED <<call, nextId, pending, lock, stdout, server, reader, asks, drops>>

\* A request of its own, such as roots/list, which this client rejects.
Ask ==
  /\ server = "up" /\ asks < MaxAsks /\ asks' = asks + 1
  /\ owes' = Append(owes, Unsupported)
  /\ UNCHANGED <<call, nextId, pending, lock, stdin, stdout, server, reader, drops>>

Send ==
  /\ server # "dead" /\ owes # <<>> /\ Room(stdout)
  /\ stdout' = Append(stdout, Head(owes)) /\ owes' = Tail(owes)
  /\ UNCHANGED <<call, nextId, pending, lock, stdin, server, reader, asks, drops>>

ServerDies ==
  /\ server # "dead"
  /\ server' = "dead" /\ stdin' = <<>> /\ owes' = <<>>
  /\ UNCHANGED <<call, nextId, pending, lock, stdout, reader, asks, drops>>

CallStep(c) == TakeInput(c) \/ Write(c) \/ WriteFails(c) \/ Timeout(c) \/ Closed(c)
ReaderStep == Read \/ ReaderTakesInput \/ Reject \/ Eof

Next ==
  \/ \E c \in Callers : Call(c) \/ Drop(c) \/ CallStep(c)
  \/ ReaderStep \/ Serve \/ Ask \/ Send \/ ServerDies

\* Every task and the server's loops are scheduled, and time passes for a
\* call that waits.  The lock goes from one waiter to the next; as the calls
\* are bounded, weak fairness says so.
Fairness ==
  /\ \A c \in Callers :
       /\ WF_cvars(TakeInput(c)) /\ WF_cvars(Write(c) \/ WriteFails(c))
       /\ WF_cvars(Timeout(c))
  /\ WF_cvars(ReaderTakesInput) /\ WF_cvars(Read \/ Reject \/ Eof)
  /\ WF_cvars(Serve) /\ WF_cvars(Send)

Spec == Init /\ [][Next]_cvars /\ Fairness

----------------------------------------------------------------------------
(* Properties                                                              *)

\* The timeout covers the wait for a response only, so a call comes back if
\* its frame is written: no circle of full pipes, the lock of the input and
\* the reader, which itself writes, holds a call for ever.
EveryCallReturns == \A c \in Callers : ~At(c, "idle") ~> At(c, "idle")

\* A call that waits can be told: it has its entry, or the output is closed.
WaitingIsPending ==
  \A c \in Callers : At(c, "wait") => call[c].id \in pending \/ reader = "ended"
=============================================================================
