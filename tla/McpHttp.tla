------------------------------- MODULE McpHttp -------------------------------
(***************************************************************************)
(* An MCP server that is reached over HTTP, and its client: initialize,    *)
(* requests that overlap, the stream of notifications that is reopened     *)
(* when it breaks, and the end of the session.  The session exists at the  *)
(* server; the client remembers its id, and a row of the runtime store     *)
(* names it for whoever cleans up after a client that died.                *)
(***************************************************************************)
EXTENDS Naturals, Sequences

CONSTANTS Calls,       \* calls of tools and listings, which may overlap
          Repeats,     \* the server names the session in every response
          MaxRestarts, \* bound on restarts of the server
          MaxFaults    \* bound on failing requests and store calls
Requests == Calls \cup {"initialize", "initialized", "stream"}

VARIABLES
  sessions, next,  \* at the server: the open sessions, the id of the next one
  client,          \* [state, session, ready, row]; state: "new", "up", "shut" or "gone"
  req,             \* each request: [pc, session, status]
  rows,            \* the runtime manifests of the client: sessions, in order of insertion
  closing,         \* the shutdown task: [pc, session, row]
  refused,         \* did the server refuse to stream?
  lost,            \* sessions whose client could not name them, or not end them
  restarts, faults
serverVars == <<sessions, next, restarts>>
vars == <<serverVars, client, req, rows, closing, refused, lost, faults>>

NoSession == 0
NoRow == 0
Idle == [pc |-> "none", session |-> NoSession, status |-> "none"]
Open == [pc |-> "none", session |-> NoSession, row |-> NoRow]
Fault == faults < MaxFaults /\ faults' = faults + 1
Runs == client.state # "gone"
At(r, pc) == Runs /\ req[r].pc = pc
Named == {rows[k] : k \in DOMAIN rows} \ {NoSession}

Init ==
  /\ sessions = {} /\ next = 1 /\ restarts = 0
  /\ client = [state |-> "new", session |-> NoSession, ready |-> FALSE, row |-> NoRow]
  /\ req = [r \in Requests |-> Idle] /\ rows = <<>> /\ closing = Open
  /\ refused = FALSE /\ lost = {} /\ faults = 0

----------------------------------------------------------------------------
(* send_message: between its steps everything else goes on.                *)

Step(r, pc) == req' = [req EXCEPT ![r].pc = pc]

\* The order of connect: initialize, its notification, then everything else.
MayPost(r) ==
  CASE r = "initialize" -> client.state = "new"
    [] r = "initialized" -> req["initialize"].pc = "done"
    [] OTHER -> client.state = "up"

\* post_payload, open_notification_stream: with the session of this moment.  A
\* client without a session does not open a stream.
Post(r) ==
  /\ At(r, "none") /\ MayPost(r)
  /\ req' = [req EXCEPT ![r] = [Idle EXCEPT !.session = client.session,
               !.pc = IF r = "stream" /\ client.session = NoSession THEN "done" ELSE "sent"]]
  /\ UNCHANGED <<serverVars, client, rows, closing, refused, lost, faults>>

\* The server opens a session; one that it does not know is a 404.
Serve(r) ==
  /\ At(r, "sent")
  /\ IF r = "initialize"
     THEN /\ sessions' = sessions \cup {next} /\ next' = next + 1
          /\ req' = [req EXCEPT ![r] = [pc |-> "served", session |-> next, status |-> "ok"]]
     ELSE /\ req' = [req EXCEPT ![r] =
               [pc |-> "served", session |-> IF Repeats THEN @.session ELSE NoSession,
                status |-> IF @.session \in sessions THEN "ok" ELSE "unknown"]]
          /\ UNCHANGED <<sessions, next>>
  /\ UNCHANGED <<restarts, client, rows, closing, refused, lost, faults>>

\* An error for the caller; without its initialize, or its notification, connect
\* fails and the client is dropped; a stream is opened again later.
Fails(r) ==
  /\ Step(r, IF r = "stream" THEN "wait" ELSE "failed")
  /\ client' = IF r \in {"initialize", "initialized"} THEN [client EXCEPT !.state = "gone"]
               ELSE client

\* A request or its response is lost, and with it the session that it opened.
Unanswered(r) ==
  /\ At(r, "sent") \/ At(r, "served")
  /\ Fault /\ Fails(r)
  /\ lost' = IF r = "initialize" THEN lost \cup {req[r].session} ELSE lost
  /\ UNCHANGED <<serverVars, rows, closing, refused>>

\* maybe_store_session_id: whatever the response names is taken over.
TakeId(r) ==
  /\ At(r, "served")
  /\ client' = IF req[r].session = NoSession THEN client
               ELSE [client EXCEPT !.session = req[r].session]
  /\ Step(r, IF client.ready THEN "keep" ELSE "body")
  /\ UNCHANGED <<serverVars, rows, closing, refused, lost, faults>>

\* ensure_runtime_manifest_persisted reads the id, ...
After(r) == IF r = "initialize" THEN "done" ELSE "body"
ReadId(r) ==
  /\ At(r, "keep")
  /\ req' = [req EXCEPT ![r].session = client.session,
               ![r].pc = IF client.session = NoSession THEN After(r) ELSE "insert"]
  /\ UNCHANGED <<serverVars, client, rows, closing, refused, lost, faults>>

\* ... and inserts a row when there is none, under the lock of the handle.  An
\* insert that fails is tried again with the next response.  A session that could not
\* be ended does not get another attempt by a row that is dropped after it.
Attempted == closing.pc \in {"row", "drop", "gone"}
InsertRow(r) ==
  /\ At(r, "insert") /\ Step(r, After(r))
  /\ \/ /\ client.row # NoRow /\ UNCHANGED <<client, rows, lost, faults>>
     \/ /\ client.row = NoRow /\ rows' = Append(rows, req[r].session)
        /\ client' = [client EXCEPT !.row = Len(rows) + 1]
        /\ lost' = (IF Attempted THEN lost ELSE lost \ {req[r].session}) /\ UNCHANGED faults
     \/ /\ client.row = NoRow /\ Fault
        /\ lost' = lost \cup {req[r].session} /\ UNCHANGED <<client, rows>>
  /\ UNCHANGED <<serverVars, closing, refused>>

\* The body, of the status, is read to its end.
Answered(r) ==
  /\ At(r, "body") /\ r # "stream"
  /\ IF req[r].status = "ok"
     THEN /\ Step(r, IF r = "initialize" THEN "keep" ELSE "done")
          /\ client' = CASE r = "initialize" -> [client EXCEPT !.ready = TRUE]
                         [] r = "initialized" -> [client EXCEPT !.state = "up"]
                         [] OTHER -> client
     ELSE Fails(r)
  /\ UNCHANGED <<serverVars, rows, closing, refused, lost, faults>>

----------------------------------------------------------------------------
(* run_notification_stream                                                 *)

\* classify_notification_stream_response.
BadDisposition(status) == IF status = "ok" THEN "reading" ELSE "done"
Disposition(status) == CASE status = "ok" -> "reading"
                         [] status = "unknown" -> "done"
                         [] OTHER -> "wait"

\* A server may also answer that it does not stream, or not now.
Classify ==
  /\ At("stream", "body")
  /\ \E status \in {req["stream"].status, "unknown", "busy"} :
       /\ status = "busy" => Fault
       /\ status # "busy" => UNCHANGED faults
       /\ Step("stream", Disposition(status))
       /\ refused' = (refused \/ status = "unknown")
  /\ UNCHANGED <<serverVars, client, rows, closing, lost>>

Breaks ==
  /\ At("stream", "reading") /\ Fault /\ Step("stream", "wait")
  /\ UNCHANGED <<serverVars, client, rows, closing, refused, lost>>

Reopen ==
  /\ At("stream", "wait")
  /\ req' = [req EXCEPT !["stream"] = [Idle EXCEPT !.pc = "sent", !.session = client.session]]
  /\ UNCHANGED <<serverVars, client, rows, closing, refused, lost, faults>>

----------------------------------------------------------------------------
(* shutdown, and the task it leaves                                        *)

\* The task of the stream is aborted; calls in flight go on.
Shutdown ==
  /\ client.state = "up"
  /\ client' = [client EXCEPT !.state = "shut"] /\ Step("stream", "done")
  /\ closing' = [closing EXCEPT !.pc = "session"]
  /\ UNCHANGED <<serverVars, rows, refused, lost, faults>>

\* The session is ended first, its row deleted after it.
BadOrder == [session |-> "row", delete |-> "gone", row |-> "drop", drop |-> "delete"]
Order == [session |-> "delete", delete |-> "row", row |-> "drop", drop |-> "gone"]
Closes(pc) == Runs /\ closing.pc = pc

TakeSession ==
  /\ Closes("session")
  /\ closing' = [closing EXCEPT !.pc = Order["session"], !.session = client.session]
  /\ client' = [client EXCEPT !.session = NoSession]
  /\ UNCHANGED <<serverVars, req, rows, refused, lost, faults>>

\* delete_http_session_request; a failure is logged and not tried again.
DeleteSession ==
  /\ Closes("delete") /\ closing' = [closing EXCEPT !.pc = Order["delete"]]
  /\ \/ sessions' = sessions \ {closing.session} /\ UNCHANGED <<lost, faults>>
     \/ /\ closing.session # NoSession /\ Fault
        /\ lost' = lost \cup {closing.session} /\ UNCHANGED sessions
  /\ UNCHANGED <<next, restarts, client, req, rows, refused>>

TakeRow ==
  /\ Closes("row")
  /\ closing' = [closing EXCEPT !.pc = Order["row"], !.row = client.row]
  /\ client' = [client EXCEPT !.row = NoRow]
  /\ UNCHANGED <<serverVars, req, rows, refused, lost, faults>>

DropRow ==
  /\ Closes("drop") /\ closing' = [closing EXCEPT !.pc = Order["drop"]]
  /\ \/ /\ rows' = IF closing.row = NoRow THEN rows
                   ELSE [rows EXCEPT ![closing.row] = NoSession]
        /\ UNCHANGED faults
     \/ closing.row # NoRow /\ Fault /\ UNCHANGED rows
  /\ UNCHANGED <<serverVars, client, req, refused, lost>>

----------------------------------------------------------------------------
(* Deaths, and who cleans up                                               *)

\* The process dies; before the first row nobody knows of the session.
Unrecorded == {"served", "body", "keep", "insert"}
Kill ==
  /\ Runs /\ client' = [client EXCEPT !.state = "gone"]
  /\ lost' = IF req["initialize"].pc \in Unrecorded
             THEN lost \cup {req["initialize"].session} ELSE lost
  /\ UNCHANGED <<serverVars, req, rows, closing, refused, faults>>

\* The server forgets its sessions.
Restart ==
  /\ restarts < MaxRestarts /\ restarts' = restarts + 1 /\ sessions' = {}
  /\ UNCHANGED <<next, client, req, rows, closing, refused, lost, faults>>

\* The sweep of another worker, over the rows of one whose lease has run out or
\* is given back: the session first, then its row (see McpRuntime).
Reclaim(k) ==
  /\ client.state \in {"shut", "gone"} /\ rows[k] # NoSession
  /\ sessions' = sessions \ {rows[k]}
  /\ \/ rows' = [rows EXCEPT ![k] = NoSession] /\ UNCHANGED faults
     \/ Fault /\ UNCHANGED rows
  /\ UNCHANGED <<next, restarts, client, req, closing, refused, lost>>

Next == \/ \E r \in Requests : \/ Post(r) \/ Serve(r) \/ Unanswered(r) \/ TakeId(r)
                               \/ ReadId(r) \/ InsertRow(r) \/ Answered(r)
        \/ Classify \/ Breaks \/ Reopen
        \/ Shutdown \/ TakeSession \/ DeleteSession \/ TakeRow \/ DropRow
        \/ Kill \/ Restart \/ \E k \in DOMAIN rows : Reclaim(k)

Spec == Init /\ [][Next]_vars

----------------------------------------------------------------------------
(* Properties                                                              *)

TypeOK ==
  /\ sessions \subseteq 1..(next - 1) /\ client.state \in {"new", "up", "shut", "gone"}
  /\ client.session < next /\ client.row <= Len(rows)
  /\ \A r \in Requests : req[r].status \in {"none", "ok", "unknown"}
  /\ closing.pc \in {"none"} \cup DOMAIN Order \cup {"gone"}
  /\ lost \subseteq 0..(next - 1) /\ restarts \in 0..MaxRestarts /\ faults \in 0..MaxFaults

\* Opened by a request whose answer is not in yet.
Opening == IF At("initialize", "served") THEN {req["initialize"].session} ELSE {}
\* Held in memory by a client that will end it.
Held == IF Runs /\ closing.pc \in {"none", "session"} THEN {client.session}
        ELSE IF Closes("delete") THEN {closing.session} ELSE {}

\* Whatever overlaps, fails or dies: a session that is open at the server has
\* somebody to end it, a client or the row that a sweep acts on, if it was once
\* recorded and no attempt to end it has failed.
SessionsAreKnown == sessions \subseteq Opening \cup Held \cup Named \cup lost

\* A client has one row, however many responses arrive at once, and listens as long
\* as the server has not refused to stream.
OneRow == client.state \in {"new", "up"} => \A j, k \in DOMAIN rows : j = k
KeepsListening ==
  client.state = "up" /\ ~refused => req["stream"].pc # "done"

HttpSound == SessionsAreKnown /\ OneRow /\ KeepsListening
=============================================================================
