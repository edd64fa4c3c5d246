------------------------------- MODULE ApiChat -------------------------------
(***************************************************************************)
(* The chat requests of the HTTP API: /api/chat, whose handler waits for   *)
(* its answer in the map `pending`, and /v1/chat/completions, answered at  *)
(* once or as a stream of server-sent events.  All three enter the session *)
(* of their user, where one agent takes them in turn; a turn may call the  *)
(* provider several times, each call ending with the delta Done.           *)
(***************************************************************************)
EXTENDS Integers, Sequences

CONSTANTS Chat, Plain, Stream,  \* the requests of each kind
          Named,                \* those that name a user of their own
          MaxCalls,             \* bound of the provider calls of a turn
          Room,                 \* deltas the channels of a stream hold
          MaxFaults             \* bound of the refusals, errors and panics

ApiAssumption ==
  /\ Chat \cap Plain = {} /\ Chat \cap Stream = {} /\ Plain \cap Stream = {}
  /\ "none" \notin Chat \cup Plain \cup Stream
  /\ MaxCalls \in Nat /\ Room \in Nat /\ MaxFaults \in Nat

Requests == Chat \cup Plain \cup Stream

VARIABLES place,    \* of each request in the gateway
          client,   \* what became of its client
          reply,    \* the body the client got
          pending,  \* the requests whose sender is in the map
          session,  \* of each user: is it in the router, its channel, its agent's turn
          said,     \* the calls that said something, in the turn of a request
          wire,     \* the deltas of a stream on their way to its task
          shown,    \* the chunks of a stream
          nfaults
apiVars == <<place, client, reply, pending, session, said, wire, shown, nfaults>>

\* session_key: the requests are direct messages, told apart by their user only.
Key(r) == IF r \in Named THEN r ELSE "api-user"
Users == {Key(r) : r \in Requests}

NoTurn == [of |-> "none", call |-> 0, state |-> "idle"]
NoSession == [state |-> "absent", queue |-> <<>>, turn |-> NoTurn]
Nothing == [kind |-> "none", of |-> "none"]

Init ==
  /\ place = [r \in Requests |-> "client"]
  /\ client = [r \in Requests |-> "new"]
  /\ reply = [r \in Requests |-> Nothing]
  /\ pending = {}
  /\ session = [u \in Users |-> NoSession]
  /\ said = [r \in Requests |-> <<>>]
  /\ wire = [r \in Stream |-> <<>>]
  /\ shown = [r \in Stream |-> <<>>]
  /\ nfaults = 0

Fault == nfaults < MaxFaults /\ nfaults' = nfaults + 1
Waits(r) == client[r] = "waiting"

\* A client that still waits is told x; one that left is not.
Told(who, kind) ==
  /\ reply' = [r \in Requests |-> IF r \in who /\ Waits(r) THEN [kind |-> kind, of |-> r]
                                  ELSE reply[r]]
  /\ client' = [r \in Requests |-> IF r \in who /\ Waits(r) THEN "told" ELSE client[r]]

----------------------------------------------------------------------------
(* The handlers                                                            *)

\* A request without the key, or without a user's message, is turned away.
Invalid(r) ==
  /\ client[r] = "new" /\ Fault
  /\ client' = [client EXCEPT ![r] = "told"]
  /\ reply' = [reply EXCEPT ![r] = [kind |-> "invalid", of |-> r]]
  /\ UNCHANGED <<place, pending, session, said, wire, shown>>

Ask(r) ==
  /\ client[r] = "new"
  /\ client' = [client EXCEPT ![r] = "waiting"]
  /\ place' = [place EXCEPT ![r] = "sent"]
  /\ pending' = pending \cup ({r} \cap Chat)
  /\ UNCHANGED <<reply, session, said, wire, shown, nfaults>>

\* 300 seconds have passed.  What was sent or routed stays where it is, but for a
\* plain request that is still being routed; a stream, whose time begins when it
\* was routed, ends without its last chunk.
Timeout(r) ==
  /\ Waits(r) /\ (r \in Stream => place[r] # "sent") /\ Told({r}, "timeout")
  /\ place' = IF r \in Plain /\ place[r] = "sent" THEN [place EXCEPT ![r] = "lost"] ELSE place
  /\ pending' = pending \ {r}
  /\ UNCHANGED <<session, said, wire, shown, nfaults>>

\* The client closes its connection: its handler is dropped where it waits, and
\* what it put into the map stays.
Leave(r) ==
  /\ Waits(r)
  /\ client' = [client EXCEPT ![r] = "gone"]
  /\ place' = IF r \notin Chat /\ place[r] = "sent" THEN [place EXCEPT ![r] = "lost"] ELSE place
  /\ UNCHANGED <<reply, pending, session, said, wire, shown, nfaults>>

----------------------------------------------------------------------------
(* Routing, by the handler or, for /api/chat, by a task of the runner that *)
(* discards what route returns.                                            *)

\* The requests of who are not answered by an agent.
Lost(who, kind) ==
  /\ place' = [r \in Requests |-> IF r \in who THEN "lost" ELSE place[r]]
  /\ Told(who \cap Plain, kind)

\* The router holds as many sessions as it may, of whichever platform, or the
\* agent of a new one cannot be built.
Refuse(r) ==
  /\ place[r] = "sent" /\ Fault
  /\ Lost({r}, "refused")
  /\ UNCHANGED <<pending, session, said, wire, shown>>

Route(r) ==
  LET u == Key(r) IN
    /\ place[r] = "sent" /\ session[u].state # "dead"
    /\ place' = [place EXCEPT ![r] = "queued"]
    /\ session' = [session EXCEPT ![u].state = "live", ![u].queue = Append(@, r)]
    /\ UNCHANGED <<client, reply, pending, said, wire, shown, nfaults>>

\* The session's task died: the entry is removed, and the next request makes a
\* session anew.
RouteDead(r) ==
  /\ place[r] = "sent" /\ session[Key(r)].state = "dead"
  /\ session' = [session EXCEPT ![Key(r)] = NoSession]
  /\ Lost({r}, "removed")
  /\ UNCHANGED <<pending, said, wire, shown, nfaults>>

----------------------------------------------------------------------------
(* The session's task                                                      *)

Turn(u) == session[u].turn
InCall(u) == Turn(u).state \in {"silent", "spoke"}

Take(u) ==
  /\ Turn(u).state = "idle" /\ session[u].queue # <<>>
  /\ LET r == Head(session[u].queue) IN
       /\ session' = [session EXCEPT
            ![u].queue = Tail(@), ![u].turn = [of |-> r, call |-> 1, state |-> "silent"]]
       /\ place' = [place EXCEPT ![r] = "turn"]
  /\ UNCHANGED <<client, reply, pending, said, wire, shown, nfaults>>

\* A delta is forwarded to a stream that is still listened to, once there is
\* room; the deltas of other requests are drained.
Listens(r) == r \in Stream /\ Waits(r)
CanEmit(r) == Listens(r) => Len(wire[r]) < Room
Emit(r, x) == wire' = IF Listens(r) THEN [wire EXCEPT ![r] = Append(@, x)] ELSE wire

\* The provider's call says something.
Say(u) ==
  LET r == Turn(u).of IN
    /\ Turn(u).state = "silent" /\ CanEmit(r)
    /\ Emit(r, Turn(u).call)
    /\ said' = [said EXCEPT ![r] = Append(@, Turn(u).call)]
    /\ session' = [session EXCEPT ![u].turn.state = "spoke"]
    /\ UNCHANGED <<place, client, reply, pending, shown, nfaults>>

\* The call ends with Done; tools may have been asked for, and another follows.
Done == 0
EndCall(u) ==
  LET r == Turn(u).of IN
    /\ InCall(u) /\ CanEmit(r)
    /\ Emit(r, Done)
    /\ \/ /\ Turn(u).call < MaxCalls
          /\ session' = [session EXCEPT ![u].turn.call = @ + 1, ![u].turn.state = "silent"]
       \/ session' = [session EXCEPT ![u].turn.state = "answering"]
    /\ UNCHANGED <<place, client, reply, pending, said, shown, nfaults>>

\* The turn ends in an error, whose text is its answer.
FailTurn(u) ==
  /\ InCall(u) /\ Fault
  /\ session' = [session EXCEPT ![u].turn.state = "failed"]
  /\ UNCHANGED <<place, client, reply, pending, said, wire, shown>>

\* send_response gives the text to the handler that waits under the request's
\* id; response_tx to the one that routed it.  A stream's channel is closed.
Waiters(r) == {r} \cap (pending \cup Plain)
Answer(u) ==
  LET r == Turn(u).of IN
    /\ Turn(u).state \in {"answering", "failed"}
    /\ client' = [x \in Requests |-> IF x \in Waiters(r) /\ Waits(x) THEN "told" ELSE client[x]]
    /\ reply' = [x \in Requests |-> IF x \in Waiters(r) /\ Waits(x)
                                    THEN [kind |-> "answer", of |-> r] ELSE reply[x]]
    /\ pending' = pending \ Waiters(r)
    /\ place' = [place EXCEPT ![r] = IF Turn(u).state = "failed" THEN "failed" ELSE "answered"]
    /\ session' = [session EXCEPT ![u].turn = NoTurn]
    /\ UNCHANGED <<said, wire, shown, nfaults>>

\* The agent panics: the task ends with its channel, and the entry stays.
Panic(u) ==
  /\ InCall(u) /\ Fault
  /\ Lost({Turn(u).of} \cup {session[u].queue[i] : i \in 1..Len(session[u].queue)}, "dropped")
  /\ session' = [session EXCEPT ![u] = [NoSession EXCEPT !.state = "dead"]]
  /\ UNCHANGED <<pending, said, wire, shown>>

----------------------------------------------------------------------------
(* The task of a stream                                                    *)

\* The last chunk says "stop", and [DONE] follows.
Close(r) ==
  /\ client' = [client EXCEPT ![r] = "told"]
  /\ reply' = [reply EXCEPT ![r] = [kind |-> "stop", of |-> r]]

Over(r) == place[r] \in {"lost", "answered", "failed"}
Show(r) ==
  /\ Listens(r) /\ wire[r] # <<>> /\ Head(wire[r]) # Done
  /\ shown' = [shown EXCEPT ![r] = Append(@, Head(wire[r]))]
  /\ wire' = [wire EXCEPT ![r] = Tail(@)]
  /\ UNCHANGED <<place, client, reply, pending, session, said, nfaults>>

\* The stream is ended at the first Done, or when its channel is closed.
Stop(r) ==
  /\ Listens(r)
  /\ IF wire[r] = <<>> THEN Over(r) ELSE Head(wire[r]) = Done
  /\ Close(r)
  /\ UNCHANGED <<place, pending, session, said, wire, shown, nfaults>>

Next ==
  \/ \E r \in Requests : \/ Invalid(r) \/ Ask(r) \/ Timeout(r) \/ Leave(r)
                         \/ Refuse(r) \/ Route(r) \/ RouteDead(r)
  \/ \E u \in Users : \/ Take(u) \/ Say(u) \/ EndCall(u) \/ FailTurn(u) \/ Answer(u) \/ Panic(u)
  \/ \E r \in Stream : Show(r) \/ Stop(r)

ApiSpec == Init /\ [][Next]_apiVars

----------------------------------------------------------------------------
\* A body or a stream is that of the request it answers, whoever left, was late
\* or was refused meanwhile.
OwnAnswer == \A r \in Requests : reply[r].of \in {"none", r}

\* Whose sender is in the map is waited for, or was left by its client before an
\* agent answered; once the gateway is done with it only a request that was
\* refused, or died with its session, is still there.
PendingIsDue ==
  \A r \in pending : /\ client[r] \in {"waiting", "gone"}
                     /\ place[r] \in {"sent", "queued", "turn", "lost"}

\* A plain request that is over has been told so, unless its client left.
PlainIsTold == \A r \in Plain : Over(r) => client[r] \in {"told", "gone"}

\* What a stream shows was said by its turn, in its order, and nothing of it is
\* left out; ended by "stop", it has all that the turn's first call said.
ShowsWhatWasSaid ==
  \A r \in Stream :
    /\ shown[r] = SubSeq(said[r], 1, Len(shown[r]))
    /\ reply[r].kind = "stop" /\ place[r] = "answered"
       => \A i \in 1..Len(said[r]) : said[r][i] = 1 => i <= Len(shown[r])

ApiSound == OwnAnswer /\ PendingIsDue /\ PlainIsTold /\ ShowsWhatWasSaid

\* Done ends one call of the provider, the turn may make more: a stream that was
\* ended by "stop" has all the text of the turn it answers.
StreamIsWhole ==
  \A r \in Stream : reply[r].kind = "stop" /\ place[r] = "answered" => shown[r] = said[r]
=============================================================================
