------------------------------ MODULE McpUpdates ------------------------------
(***************************************************************************)
(* The updates of subscribed MCP resources: a server announces them, a     *)
(* bounded broadcast carries them to a task that keeps the latest in a     *)
(* buffer, the buffer is written to a file after every change, and a tool  *)
(* returns updates and, if asked to, removes what it returns.  A process   *)
(* that starts goes on with the file, if it can be read.                   *)
(***************************************************************************)
EXTENDS Naturals, SequencesExt

CONSTANTS Servers,
          MaxBuffered,  \* MAX_RESOURCE_UPDATES
          Channel,      \* the capacity of the broadcast
          Limits,       \* the limits that callers give
          MaxUpdates, MaxFaults, MaxRestarts  \* bounds

VARIABLES sent,      \* updates announced so far
          channel,   \* the broadcast, and whether its receiver lagged
          buffer,    \* resource_updates
          file,      \* mcp-resource-updates.json, or Torn
          answer,    \* what the tool returns when the file is written
          returned,  \* the updates that were returned and to be removed
          writing,   \* the lock of the buffer is held: "no", "open" or "write"
          faults, restarts
uvars == <<sent, channel, buffer, file, answer, returned, writing, faults, restarts>>

NoAnswer == {}
Update(s, n) == [server |-> s, n |-> n]
Torn == <<Update("torn", 0)>>

Init ==
  /\ sent = 0 /\ channel = <<>> /\ buffer = <<>> /\ file = <<>>
  /\ answer = NoAnswer /\ returned = {} /\ writing = "no"
  /\ faults = 0 /\ restarts = 0

----------------------------------------------------------------------------
(* Announcing and recording                                                *)

\* emit_resource_update_signal: a full channel forgets its oldest.
Announce(s) ==
  /\ sent < MaxUpdates /\ sent' = sent + 1
  /\ channel' = Append(IF Len(channel) = Channel THEN Tail(channel) ELSE channel,
                       Update(s, sent'))
  /\ UNCHANGED <<buffer, file, answer, returned, writing, faults, restarts>>

Latest(seq) == IF Len(seq) > MaxBuffered
               THEN SubSeq(seq, Len(seq) - MaxBuffered + 1, Len(seq)) ELSE seq

\* record_resource_update
Record ==
  /\ writing = "no" /\ channel # <<>>
  /\ channel' = Tail(channel)
  /\ buffer' = Latest(Append(buffer, Head(channel)))
  /\ writing' = "open"
  /\ UNCHANGED <<sent, file, answer, returned, faults, restarts>>

----------------------------------------------------------------------------
(* persist_resource_updates: fs::write truncates and then writes.          *)

OpenFile ==
  /\ writing = "open" /\ file' = Torn /\ writing' = "write"
  /\ UNCHANGED <<sent, channel, buffer, answer, returned, faults, restarts>>

BadContents == IF answer = NoAnswer THEN buffer ELSE Latest(SetToSeq(answer) \o buffer)
Contents == buffer

WriteFile ==
  /\ writing = "write" /\ file' = Contents /\ writing' = "no"
  /\ returned' = returned \cup answer /\ answer' = NoAnswer
  /\ UNCHANGED <<sent, channel, buffer, faults, restarts>>

\* A recorder goes on with a warning; the tool returns an error instead.
WriteFails ==
  /\ writing # "no" /\ faults < MaxFaults /\ faults' = faults + 1
  /\ writing' = "no" /\ answer' = NoAnswer
  /\ UNCHANGED <<sent, channel, buffer, file, returned, restarts>>

----------------------------------------------------------------------------
(* McpResourceUpdatesTool                                                  *)

\* The positions of the latest updates of the server, oldest first.
Selected(about, limit) ==
  LET matching == {i \in DOMAIN buffer : buffer[i].server \in about}
  IN  {i \in matching : Cardinality({j \in matching : j >= i}) <= limit}

\* The positions are removed one after the other, the oldest first, although
\* each removal moves what is behind it.
RemoveIn(i, seq) == IF i \in DOMAIN seq THEN RemoveAt(seq, i) ELSE seq
Without(indices) == MapThenFoldSet(RemoveIn, buffer, LAMBDA i : i, Max, indices)

\* Without clear the tool only reads.
Clear(about, limit) ==
  /\ writing = "no" /\ Selected(about, limit) # {}
  /\ LET indices == Selected(about, limit) IN
       /\ buffer' = Without(indices)
       /\ IF Len(buffer') = Len(buffer) - Cardinality(indices)
          THEN writing' = "open" /\ answer' = {buffer[i] : i \in indices}
          ELSE UNCHANGED <<writing, answer>> \* no such position: it panics
  /\ UNCHANGED <<sent, channel, file, returned, faults, restarts>>

\* load_resource_updates: an unreadable file is an empty buffer.
Loaded == IF file = Torn THEN <<>> ELSE file

\* The process dies at any point, and another one is started.
Restart ==
  /\ restarts < MaxRestarts /\ restarts' = restarts + 1
  /\ channel' = <<>> /\ buffer' = Loaded /\ writing' = "no" /\ answer' = NoAnswer
  /\ UNCHANGED <<sent, file, returned, faults>>

Next ==
  \/ \E s \in Servers : Announce(s)
  \/ Record \/ OpenFile \/ WriteFile \/ WriteFails \/ Restart
  \/ \E about \in {Servers} \cup {{s} : s \in Servers}, limit \in Limits : Clear(about, limit)

Spec == Init /\ [][Next]_uvars

----------------------------------------------------------------------------
(* Properties                                                              *)

\* "When true, remove the returned updates from the in-memory buffer": an
\* update that was returned and removed does not come back, from the buffer
\* or from the file, in this process or in the next.
ClearRemovesReturned == \A i \in DOMAIN buffer : buffer[i] \notin returned
=============================================================================
