-------------------------- MODULE ConversationProofs --------------------------
(***************************************************************************)
(* What holds, for any calls, turns, texts, faults and retries: of one     *)
(* request to a model (ProviderChat) and the chat requests of the HTTP API *)
(* (ApiChat), that everyone is told what was said (AnswerHolds); of a      *)
(* conversation at the prompt (ReplConversation), that its rows are the    *)
(* turns that were answered (TurnsHold); and of the runs of a managed      *)
(* agent on one session (ManagedConversation), that a tool runs only for a *)
(* stored call that is not answered (RunsAreStored), that a run which ends *)
(* has stored what it said (RunsAreWhole), and that what is sent to the    *)
(* provider pairs calls and results (RequestsHold).                        *)
(***************************************************************************)
EXTENDS MCManagedConversation, FiniteSetTheorems, SequenceTheorems, TLAPS

----------------------------------------------------------------------------
(* One request to a model (ProviderChat).                                  *)

\* Of each API, what has been put together of what the server said.
Put ==
  /\ api = "chat" => calls = words.calls /\ text = words.text /\ open = 0
  /\ api = "messages" =>
       /\ text = words.text
       /\ IF open = 0 THEN calls = words.calls
          ELSE open = Len(words.calls) /\ calls = SubSeq(words.calls, 1, open - 1)
  /\ api = "responses" => open = 0

\* What the server says, and how it ends.
Spoken ==
  /\ words \in [text : Nat, calls : Seq(Nat), reason : {"none", "stop", "tool_calls", "length"}]
  /\ words.reason # "none" => /\ open = 0 /\ finish = words.reason
                              /\ words.calls # <<>> => words.reason # "stop"

\* Who watches saw the text of this attempt only: no other was streamed.
Watched ==
  /\ attempt \in Nat
  /\ phase = "send" => words = Provider!Silence /\ calls = <<>> /\ text = 0 /\ open = 0
  /\ api # "responses" \/ attempt = 0 => shown = Provider!ShownText

ProviderInv == /\ api \in {"chat", "messages", "responses"} /\ Put /\ Spoken /\ Watched
               /\ phase # "done" => result = Provider!NoResult
               /\ Provider!AnswerIsWhatWasSaid

\* The last of a sequence of numbers can be taken away again.
LEMMA Adds ==
  ASSUME NEW s \in Seq(Nat), NEW x \in Nat
  PROVE  /\ Append(s, x) \in Seq(Nat) /\ Len(Append(s, x)) = Len(s) + 1
         /\ SubSeq(Append(s, x), 1, Len(s)) = s
<1>1. Append(s, x) \in Seq(Nat) /\ Len(Append(s, x)) = Len(s) + 1
  OBVIOUS
<1>2. SubSeq(Append(s, x), 1, Len(s)) \in Seq(Nat) /\ Len(SubSeq(Append(s, x), 1, Len(s))) = Len(s)
  OBVIOUS
<1>3. ASSUME NEW i \in 1..Len(s) PROVE SubSeq(Append(s, x), 1, Len(s))[i] = s[i]
  <2> DEFINE a == Append(s, x)
  <2>1. a \in Seq(Nat) /\ Len(a) = Len(s) + 1 BY <1>1
  <2>4. Len(s) \in Nat OBVIOUS
  <2>3. a[i] = s[i] OBVIOUS
  <2> HIDE DEF a
  <2>2. SubSeq(a, 1, Len(s))[i] = a[i] BY <2>1, <2>4
  <2> QED BY <2>2, <2>3 DEF a
<1> QED BY <1>1, <1>2, <1>3

LEMMA Ends ==
  ASSUME NEW s \in Seq(Nat), s # <<>>
  PROVE  Append(SubSeq(s, 1, Len(s) - 1), s[Len(s)]) = s
<1>1. Len(s) \in Nat /\ Len(s) > 0 /\ s[Len(s)] \in Nat
  OBVIOUS
<1>2. /\ SubSeq(s, 1, Len(s) - 1) \in Seq(Nat) /\ Len(SubSeq(s, 1, Len(s) - 1)) = Len(s) - 1
      /\ \A i \in 1..(Len(s) - 1) : SubSeq(s, 1, Len(s) - 1)[i] = s[i]
  <2> DEFINE n == Len(s) - 1
  <2>0. Len(s) \in Nat /\ Len(s) > 0 BY <1>1
  <2>7. \A k \in Nat : k > 0 =>
          k - 1 \in Int /\ k - 1 - 1 + 1 = k - 1 /\ (1 <= k - 1 \/ k - 1 = 0)
    OBVIOUS
  <2>4. n \in Int /\ n - 1 + 1 = n /\ (1 <= n \/ n = 0) BY <2>0, <2>7
  <2>5. \A i \in 1..n : i \in 1..Len(s) BY <2>0
  <2>6. \A i \in 1..Len(s) : s[i] \in Nat OBVIOUS
  <2>1. n \in Int /\ n - 1 + 1 = n /\ (1 <= n \/ n = 0) /\ \A i \in 1..n : s[i] \in Nat
    BY <2>4, <2>5, <2>6
  <2> HIDE DEF n
  <2>2. /\ SubSeq(s, 1, n) \in Seq(Nat)
        /\ Len(SubSeq(s, 1, n)) = IF 1 <= n THEN n - 1 + 1 ELSE 0
        /\ \A i \in 1..(n - 1 + 1) : SubSeq(s, 1, n)[i] = s[1 + i - 1]
    BY <2>1, SubSeqProperties
  <2>3. \A i \in 1..n : 1 + i - 1 = i BY <2>1
  <2> QED BY <2>1, <2>2, <2>3 DEF n
<1> DEFINE t == SubSeq(s, 1, Len(s) - 1)
<1> HIDE DEF t
<1>3. t \in Seq(Nat) /\ Len(t) = Len(s) - 1 /\ \A i \in 1..(Len(s) - 1) : t[i] = s[i]
  BY <1>2 DEF t
<1>4. /\ Append(t, s[Len(s)]) \in Seq(Nat) /\ Len(Append(t, s[Len(s)])) = Len(s)
      /\ \A i \in 1..Len(s) : Append(t, s[Len(s)])[i] = s[i]
  BY <1>1, <1>3
<1>5. Append(t, s[Len(s)]) = s BY <1>4
<1> QED BY <1>5 DEF t

LEMMA Prefixed ==
  ASSUME NEW s \in Seq(Nat), NEW h \in 0..Len(s)
  PROVE  /\ SubSeq(s, 1, h) \in Seq(Nat) /\ Len(SubSeq(s, 1, h)) = h
         /\ \A j \in 1..h : SubSeq(s, 1, h)[j] = s[j]
<1>1. h \in Nat /\ h <= Len(s) OBVIOUS
<1>2. /\ SubSeq(s, 1, h) \in Seq(Nat)
      /\ Len(SubSeq(s, 1, h)) = IF 1 <= h THEN h - 1 + 1 ELSE 0
      /\ \A j \in 1..(h - 1 + 1) : SubSeq(s, 1, h)[j] = s[1 + j - 1]
  BY <1>1, SubSeqProperties
<1>3. h - 1 + 1 = h /\ (1 <= h \/ h = 0) /\ \A j \in 1..h : 1 + j - 1 = j BY <1>1
<1> QED BY <1>2, <1>3

LEMMA Grows ==
  ASSUME NEW s \in Seq(Nat), NEW i \in DOMAIN s, NEW x \in Nat
  PROVE  /\ [s EXCEPT ![i] = x] \in Seq(Nat) /\ Len([s EXCEPT ![i] = x]) = Len(s)
         /\ SubSeq([s EXCEPT ![i] = x], 1, i - 1) = SubSeq(s, 1, i - 1)
<1> DEFINE t == [s EXCEPT ![i] = x]
<1>1. i \in 1..Len(s) /\ Len(s) \in Nat
  OBVIOUS
<1>2. t \in Seq(Nat) /\ Len(t) = Len(s) /\ \A j \in 1..Len(s) : j # i => t[j] = s[j]
  OBVIOUS
<1> HIDE DEF t
<1>3. /\ SubSeq(s, 1, i - 1) \in Seq(Nat) /\ Len(SubSeq(s, 1, i - 1)) = i - 1
      /\ \A j \in 1..(i - 1) : SubSeq(s, 1, i - 1)[j] = s[j]
  BY <1>1, Prefixed
<1>4. /\ SubSeq(t, 1, i - 1) \in Seq(Nat) /\ Len(SubSeq(t, 1, i - 1)) = i - 1
      /\ \A j \in 1..(i - 1) : SubSeq(t, 1, i - 1)[j] = t[j]
  BY <1>1, <1>2, Prefixed
<1>5. SubSeq(t, 1, i - 1) = SubSeq(s, 1, i - 1)
  <2>1. /\ Len(SubSeq(t, 1, i - 1)) = Len(SubSeq(s, 1, i - 1))
        /\ \A j \in 1..Len(SubSeq(t, 1, i - 1)) : SubSeq(t, 1, i - 1)[j] = SubSeq(s, 1, i - 1)[j]
    <3>1. \A j \in 1..(i - 1) : t[j] = s[j] BY <1>1, <1>2
    <3> QED BY <1>3, <1>4, <3>1
  <2> QED BY <1>3, <1>4, <2>1, SeqEqual
<1> QED BY <1>2, <1>5 DEF t

LEMMA Counts ==
  ASSUME NEW n \in Nat, NEW a
  PROVE  Append([i \in 1..n |-> <<a, i>>], <<a, n + 1>>) = [i \in 1..(n + 1) |-> <<a, i>>]
<1> DEFINE s == [i \in 1..n |-> <<a, i>>]
           S == {<<a, i>> : i \in 1..(n + 1)}
<1>1. s \in Seq(S) /\ Len(s) = n /\ <<a, n + 1>> \in S /\ \A i \in 1..n : s[i] = <<a, i>>
  OBVIOUS
<1> HIDE DEF s, S
<1>2. /\ Append(s, <<a, n + 1>>) \in Seq(S) /\ Len(Append(s, <<a, n + 1>>)) = n + 1
      /\ \A i \in 1..n : Append(s, <<a, n + 1>>)[i] = s[i]
      /\ Append(s, <<a, n + 1>>)[n + 1] = <<a, n + 1>>
  BY <1>1
<1>3. \A i \in 1..(n + 1) : Append(s, <<a, n + 1>>)[i] = <<a, i>>
  <2> SUFFICES ASSUME NEW i \in 1..(n + 1) PROVE Append(s, <<a, n + 1>>)[i] = <<a, i>>
    OBVIOUS
  <2>1. CASE i = n + 1 BY <1>2, <2>1
  <2>2. CASE i # n + 1
    <3>1. i \in 1..n BY <2>2
    <3> QED BY <1>1, <1>2, <3>1
  <2> QED BY <2>1, <2>2
<1> DEFINE t == Append(s, <<a, n + 1>>)
<1> HIDE DEF t
<1>4. t \in Seq(S) /\ Len(t) = n + 1 /\ \A i \in 1..(n + 1) : t[i] = <<a, i>> BY <1>2, <1>3 DEF t
<1>5. t \in [1..(n + 1) -> S] BY <1>4
<1>6. t = [i \in 1..(n + 1) |-> <<a, i>>] BY <1>4, <1>5
<1> QED BY <1>6 DEF s, t

LEMMA Words ==
  ASSUME Spoken, NEW w
  PROVE  /\ w = [words EXCEPT !.text = @ + 1] =>
              /\ w.text = words.text + 1 /\ w.calls = words.calls /\ w.reason = words.reason
         /\ w = [words EXCEPT !.calls = Append(@, 0)] =>
              w.text = words.text /\ w.calls = Append(words.calls, 0) /\ w.reason = words.reason
BY DEF Spoken

LEMMA ProviderStarts == TalkInit => ProviderInv
<1> SUFFICES ASSUME TalkInit PROVE ProviderInv
  OBVIOUS
<1> USE ModelAssumption DEF TalkInit, Provider!Init, Provider!Silence, Provider!ProviderAssumption
<1>1. api \in {"chat", "messages", "responses"} OBVIOUS
<1>2. Put /\ Spoken BY DEF Put, Spoken, Provider!None
<1>3. Watched
  <2>1. Provider!ShownText = <<>> BY DEF Provider!ShownText
  <2> QED BY <2>1 DEF Watched, Provider!None
<1>4. (phase # "done" => result = Provider!NoResult) /\ Provider!AnswerIsWhatWasSaid
  BY DEF Provider!AnswerIsWhatWasSaid, Provider!NoResult
<1> QED BY <1>1, <1>2, <1>3, <1>4 DEF ProviderInv

\* A failure: another attempt begins with nothing, or the request ends without an
\* answer.
LEMMA RequestFails ==
  ASSUME ProviderInv, NEW error, Provider!Fail(error),
         phase = "send" \/ (phase = "stream" /\ (api = "responses" \/ error = "sse_parse"))
  PROVE  ProviderInv'
<1>1. CASE error \in Provider!Retryable /\ attempt < MaxRetries
  <2>1. /\ attempt' = attempt + 1 /\ phase' = "send" /\ words' = Provider!Silence /\ text' = 0
        /\ calls' = <<>> /\ open' = 0 /\ UNCHANGED <<api, shown, result>>
    BY <1>1 DEF Provider!Fail, Provider!Fresh, Provider!None
  <2>2. phase = "send" \/ api = "responses" BY <1>1 DEF Provider!Retryable
  <2>3. attempt \in Nat /\ attempt' # 0 /\ result = Provider!NoResult
    BY <2>1 DEF ProviderInv, Watched
  <2>4. words'.text = 0 /\ words'.calls = <<>> /\ words'.reason = "none"
    BY <2>1 DEF Provider!Silence
  <2>5. Put' /\ Spoken' BY <2>1, <2>4 DEF Put, Spoken, ProviderInv, Provider!Silence
  <2>6. api # "responses" => shown' = <<>>
    BY <2>1, <2>2 DEF ProviderInv, Watched, Provider!ShownText, Provider!Silence
  <2>7. Provider!ShownText' = <<>> BY <2>4 DEF Provider!ShownText
  <2>8. Watched' BY <2>1, <2>3, <2>6, <2>7 DEF Watched
  <2>9. Provider!AnswerIsWhatWasSaid' BY <2>1, <2>3 DEF Provider!AnswerIsWhatWasSaid, Provider!NoResult
  <2> QED BY <2>1, <2>3, <2>5, <2>8, <2>9 DEF ProviderInv
<1>2. CASE ~(error \in Provider!Retryable /\ attempt < MaxRetries)
  <2>1. /\ phase' = "done" /\ result' = [kind |-> "error", error |-> error]
        /\ UNCHANGED <<api, attempt, words, text, calls, open, finish, shown>>
    BY <1>2 DEF Provider!Fail
  <2>2. Put' /\ Spoken' BY <2>1 DEF Put, Spoken, ProviderInv
  <2>3. Watched' BY <2>1 DEF ProviderInv, Watched, Provider!ShownText
  <2>4. Provider!AnswerIsWhatWasSaid' BY <2>1 DEF Provider!AnswerIsWhatWasSaid
  <2> QED BY <2>1, <2>2, <2>3, <2>4 DEF ProviderInv
<1> QED BY <1>1, <1>2

LEMMA ProviderSays ==
  ASSUME ProviderInv, Provider!Text
  PROVE  ProviderInv'
<1>1. /\ phase = "stream" /\ words.reason = "none" /\ words' = [words EXCEPT !.text = @ + 1]
      /\ text' = IF api = "responses" THEN text ELSE text + 1
      /\ shown' = Append(shown, <<attempt, words'.text>>)
      /\ UNCHANGED <<api, attempt, phase, calls, open, finish, result>>
  BY DEF Provider!Text, Provider!StreamOpen
<1>2. words'.text = words.text + 1 /\ words'.calls = words.calls /\ words'.reason = words.reason
  BY <1>1, Words DEF ProviderInv
<1>3. Put' /\ Spoken' BY <1>1, <1>2 DEF Put, Spoken, ProviderInv
<1>4. Watched'
  <2>1. CASE api # "responses" \/ attempt = 0
    <3>1. shown = Provider!ShownText /\ words.text \in Nat
      BY <2>1 DEF ProviderInv, Watched, Spoken
    <3>2. Append([i \in 1..words.text |-> <<attempt, i>>], <<attempt, words.text + 1>>)
            = [i \in 1..(words.text + 1) |-> <<attempt, i>>]
      BY <3>1, Counts
    <3> QED BY <1>1, <1>2, <3>1, <3>2 DEF Watched, Provider!ShownText, ProviderInv
  <2>2. CASE ~(api # "responses" \/ attempt = 0)
    BY <1>1, <2>2 DEF ProviderInv, Watched
  <2> QED BY <2>1, <2>2
<1>5. Provider!AnswerIsWhatWasSaid'
  BY <1>1 DEF ProviderInv, Provider!AnswerIsWhatWasSaid, Provider!NoResult
<1> QED BY <1>1, <1>3, <1>4, <1>5 DEF ProviderInv

\* What leaves the words, and what was put together of them, alone.
LEMMA RequestRests ==
  ASSUME ProviderInv, UNCHANGED <<api, attempt, words, text, calls, open, finish, shown>>,
         phase' # "send", phase' # "done" => result' = Provider!NoResult,
         Provider!AnswerIsWhatWasSaid'
  PROVE  ProviderInv'
<1>1. Put' /\ Spoken' BY DEF Put, Spoken, ProviderInv
<1>2. Watched' BY DEF ProviderInv, Watched, Provider!ShownText
<1> QED BY <1>1, <1>2 DEF ProviderInv

LEMMA RequestAccepted == ProviderInv /\ Provider!Accepted => ProviderInv'
<1> SUFFICES ASSUME ProviderInv, Provider!Accepted PROVE ProviderInv'
  OBVIOUS
<1>1. /\ phase = "send" /\ phase' = "stream"
      /\ UNCHANGED <<api, attempt, words, text, calls, open, finish, shown, result>>
  BY DEF Provider!Accepted
<1>2. result' = Provider!NoResult BY <1>1 DEF ProviderInv
<1>3. Provider!AnswerIsWhatWasSaid'
  BY <1>2 DEF Provider!AnswerIsWhatWasSaid, Provider!NoResult
<1> QED BY <1>1, <1>2, <1>3, RequestRests

\* A call begins: over the Chat Completions API it is put down at once.
LEMMA CallStarts == ProviderInv /\ Provider!ToolStart => ProviderInv'
<1> SUFFICES ASSUME ProviderInv, Provider!ToolStart PROVE ProviderInv'
  OBVIOUS
<1>1. /\ phase = "stream" /\ words.reason = "none" /\ (api = "messages" => open = 0)
      /\ words' = [words EXCEPT !.calls = Append(@, 0)]
      /\ calls' = IF api = "chat" THEN Append(calls, 0) ELSE calls
      /\ open' = IF api = "messages" THEN Len(words'.calls) ELSE open
      /\ UNCHANGED <<api, attempt, phase, text, finish, shown, result>>
  BY DEF Provider!ToolStart, Provider!StreamOpen, Provider!None
<1>2. words'.text = words.text /\ words'.calls = Append(words.calls, 0) /\ words'.reason = words.reason
  BY <1>1, Words DEF ProviderInv
<1>3. words.calls \in Seq(Nat) BY DEF ProviderInv, Spoken
<1>4. /\ Append(words.calls, 0) \in Seq(Nat) /\ Len(Append(words.calls, 0)) = Len(words.calls) + 1
      /\ SubSeq(Append(words.calls, 0), 1, Len(words.calls)) = words.calls
  BY <1>3, Adds
<1>5. Spoken' BY <1>1, <1>2, <1>4 DEF Spoken, ProviderInv
<1>6. Put'
  <2>1. CASE api = "messages"
    <3>1. calls = words.calls /\ open' = Len(words.calls) + 1 /\ Len(words.calls) \in Nat
      BY <1>1, <1>2, <1>3, <1>4, <2>1 DEF ProviderInv, Put
    <3>2. open' # 0 /\ open' - 1 = Len(words.calls) BY <3>1
    <3>3. calls' = SubSeq(words'.calls, 1, open' - 1)
      BY <1>1, <1>2, <1>4, <2>1, <3>1, <3>2
    <3> QED BY <1>1, <1>2, <1>4, <2>1, <3>1, <3>2, <3>3 DEF Put, ProviderInv
  <2>2. CASE api # "messages" BY <1>1, <1>2, <2>2 DEF ProviderInv, Put
  <2> QED BY <2>1, <2>2
<1>7. Watched' BY <1>1, <1>2 DEF ProviderInv, Watched, Provider!ShownText
<1>8. Provider!AnswerIsWhatWasSaid'
  BY <1>1 DEF ProviderInv, Provider!AnswerIsWhatWasSaid, Provider!NoResult
<1> QED BY <1>1, <1>5, <1>6, <1>7, <1>8 DEF ProviderInv

\* A fragment of a call goes to the call that it names.
LEMMA CallGoesOn ==
  ASSUME ProviderInv, NEW i, Provider!Arguments(i)
  PROVE  ProviderInv'
<1>1. /\ phase = "stream" /\ words.reason = "none" /\ i \in DOMAIN words.calls
      /\ api = "messages" => open = i
      /\ words' = [words EXCEPT !.calls = [words.calls EXCEPT ![i] = words.calls[i] + 1]]
      /\ calls' = IF api = "chat" THEN [calls EXCEPT ![i] = calls[i] + 1] ELSE calls
      /\ UNCHANGED <<api, attempt, phase, text, open, finish, shown, result>>
  BY DEF Provider!Arguments, Provider!StreamOpen, Provider!Target
<1> DEFINE c == [words.calls EXCEPT ![i] = words.calls[i] + 1]
<1>2. words.calls \in Seq(Nat) /\ words.calls[i] \in Nat
  BY <1>1 DEF ProviderInv, Spoken
<1>3. c \in Seq(Nat) /\ Len(c) = Len(words.calls) /\ SubSeq(c, 1, i - 1) = SubSeq(words.calls, 1, i - 1)
  <2>1. words.calls[i] + 1 \in Nat BY <1>2
  <2> QED BY <1>1, <1>2, <2>1, Grows
<1>4. words'.text = words.text /\ words'.calls = c /\ words'.reason = words.reason
  BY <1>1 DEF ProviderInv, Spoken
<1> HIDE DEF c
<1>5. Spoken'
  <2>1. words' \in [text : Nat, calls : Seq(Nat), reason : {"none", "stop", "tool_calls", "length"}]
    <3>1. words' = [words EXCEPT !.calls = c] BY <1>1 DEF c
    <3> QED BY <1>3, <3>1 DEF ProviderInv, Spoken
  <2> QED BY <1>1, <1>4, <2>1 DEF Spoken, ProviderInv
<1>6. Put'
  <2>1. CASE api = "messages"
    <3>1. i # 0 /\ open = i BY <1>1, <1>2, <2>1
    <3>2. i = Len(words.calls) /\ calls = SubSeq(words.calls, 1, i - 1) /\ text = words.text
      BY <2>1, <3>1 DEF ProviderInv, Put
    <3> QED BY <1>1, <1>3, <1>4, <2>1, <3>1, <3>2 DEF Put
  <2>2. CASE api = "chat" BY <1>1, <1>4, <2>2 DEF ProviderInv, Put, c
  <2>3. CASE api = "responses" BY <1>1, <1>4, <2>3 DEF ProviderInv, Put
  <2> QED BY <2>1, <2>2, <2>3 DEF ProviderInv
<1>7. Watched' BY <1>1, <1>4 DEF ProviderInv, Watched, Provider!ShownText
<1>8. Provider!AnswerIsWhatWasSaid'
  BY <1>1 DEF ProviderInv, Provider!AnswerIsWhatWasSaid, Provider!NoResult
<1> QED BY <1>1, <1>5, <1>6, <1>7, <1>8 DEF ProviderInv

\* Over the Messages API a call is put down when it is whole.
LEMMA CallStops == ProviderInv /\ Provider!ToolStop => ProviderInv'
<1> SUFFICES ASSUME ProviderInv, Provider!ToolStop PROVE ProviderInv'
  OBVIOUS
<1>1. /\ phase = "stream" /\ words.reason = "none" /\ api = "messages" /\ open # 0
      /\ calls' = Append(calls, words.calls[open]) /\ open' = 0
      /\ UNCHANGED <<api, attempt, phase, words, text, finish, shown, result>>
  BY DEF Provider!ToolStop, Provider!StreamOpen, Provider!None
<1>2. /\ words.calls \in Seq(Nat) /\ open = Len(words.calls) /\ text = words.text
      /\ calls = SubSeq(words.calls, 1, Len(words.calls) - 1)
  BY <1>1 DEF ProviderInv, Put, Spoken
<1>3. calls' = words.calls BY <1>1, <1>2, Ends
<1>4. Put' BY <1>1, <1>2, <1>3 DEF Put
<1>5. Spoken' BY <1>1 DEF Spoken, ProviderInv
<1>6. Watched' BY <1>1 DEF ProviderInv, Watched, Provider!ShownText
<1>7. Provider!AnswerIsWhatWasSaid'
  BY <1>1 DEF ProviderInv, Provider!AnswerIsWhatWasSaid, Provider!NoResult
<1> QED BY <1>1, <1>4, <1>5, <1>6, <1>7 DEF ProviderInv

LEMMA ServerFinishes == ProviderInv /\ Provider!Finish => ProviderInv'
<1> SUFFICES ASSUME ProviderInv, Provider!Finish PROVE ProviderInv'
  OBVIOUS
<1>1. PICK reason \in {"stop", "tool_calls", "length"} :
        /\ phase = "stream" /\ words.reason = "none" /\ (api = "messages" => open = 0)
        /\ words.calls # <<>> => reason # "stop"
        /\ words' = [words EXCEPT !.reason = reason] /\ finish' = reason
        /\ UNCHANGED <<api, attempt, phase, text, calls, open, shown, result>>
  BY DEF Provider!Finish, Provider!StreamOpen, Provider!None
<1>2. /\ words'.text = words.text /\ words'.calls = words.calls /\ words'.reason = reason
      /\ words' \in [text : Nat, calls : Seq(Nat), reason : {"none", "stop", "tool_calls", "length"}]
  BY <1>1 DEF ProviderInv, Spoken
<1>3. open = 0 BY <1>1 DEF ProviderInv, Put
<1>4. Spoken' BY <1>1, <1>2, <1>3 DEF Spoken
<1>5. Put' BY <1>1, <1>2 DEF ProviderInv, Put
<1>6. Watched' BY <1>1, <1>2 DEF ProviderInv, Watched, Provider!ShownText
<1>7. Provider!AnswerIsWhatWasSaid'
  BY <1>1 DEF ProviderInv, Provider!AnswerIsWhatWasSaid, Provider!NoResult
<1> QED BY <1>1, <1>4, <1>5, <1>6, <1>7 DEF ProviderInv

\* The answer.  Of the Responses API it is what the completed response holds.
LEMMA RequestAnswered ==
  ASSUME ProviderInv, phase = "stream", NEW t, NEW cs, NEW reason,
         Provider!Answer(t, cs, reason),
         words.reason # "none" => /\ t = words.text /\ cs = words.calls
                                  /\ reason = words.reason \/ (cs # <<>> /\ reason = "tool_calls")
  PROVE  ProviderInv'
<1>1. /\ phase' = "done" /\ UNCHANGED <<api, attempt, words, text, calls, open, finish, shown>>
      /\ result' = [kind |-> "ok", text |-> t, calls |-> cs,
                     finish |-> IF cs # <<>> /\ reason = "stop" THEN "tool_calls" ELSE reason]
  BY DEF Provider!Answer
<1>2. result'.text = t /\ result'.calls = cs /\ (cs # <<>> => result'.finish # "stop")
  BY <1>1
<1>3. Provider!ShownText' = Provider!ShownText BY <1>1 DEF Provider!ShownText
<1>4. Provider!AnswerIsWhatWasSaid'
  BY <1>1, <1>2, <1>3 DEF Provider!AnswerIsWhatWasSaid, ProviderInv, Watched
<1> QED BY <1>1, <1>4, RequestRests

LEMMA RequestKept == ProviderInv /\ UNCHANGED chatVars => ProviderInv'
<1> SUFFICES ASSUME ProviderInv, UNCHANGED chatVars PROVE ProviderInv'
  OBVIOUS
<1>1. Put' /\ Spoken' BY DEF Put, Spoken, ProviderInv, chatVars
<1>2. Watched' BY DEF ProviderInv, Watched, Provider!ShownText, chatVars
<1>3. Provider!AnswerIsWhatWasSaid'
  BY DEF ProviderInv, Provider!AnswerIsWhatWasSaid, Provider!ShownText, chatVars
<1> QED BY <1>1, <1>2, <1>3 DEF ProviderInv, chatVars

LEMMA RequestGoesOn == ProviderInv /\ Provider!Next => ProviderInv'
<1> SUFFICES ASSUME ProviderInv, Provider!Next PROVE ProviderInv'
  OBVIOUS
<1>1. CASE Provider!Refused
  <2>1. PICK error : phase = "send" /\ Provider!Fail(error) BY <1>1 DEF Provider!Refused
  <2> QED BY <2>1, RequestFails
<1>2. CASE Provider!Complete
  <2>1. phase = "stream" /\ words.reason # "none" BY <1>2 DEF Provider!Complete
  <2>2. CASE api = "responses"
    <3>1. Provider!Answer(words.text, words.calls,
                          IF words.calls # <<>> THEN "tool_calls" ELSE words.reason)
      BY <1>2, <2>2 DEF Provider!Complete
    <3> QED BY <2>1, <3>1, RequestAnswered
  <2>3. CASE api # "responses"
    <3>1. Provider!Answer(text, calls, finish) BY <1>2, <2>3 DEF Provider!Complete
    <3>2. text = words.text /\ calls = words.calls /\ finish = words.reason
      BY <2>1, <2>3 DEF ProviderInv, Put, Spoken
    <3> QED BY <2>1, <3>1, <3>2, RequestAnswered
  <2> QED BY <2>2, <2>3
<1>3. CASE Provider!EndsEarly
  <2>1. phase = "stream" BY <1>3 DEF Provider!EndsEarly
  <2>2. CASE api = "responses"
    <3>1. Provider!Fail("server_error") BY <1>3, <2>2 DEF Provider!EndsEarly
    <3> QED BY <2>1, <2>2, <3>1, RequestFails
  <2>3. CASE api # "responses"
    <3>1. Provider!Answer(text, calls, finish) BY <1>3, <2>3 DEF Provider!EndsEarly
    <3>2. words.reason # "none" => text = words.text /\ calls = words.calls /\ finish = words.reason
      BY <2>3 DEF ProviderInv, Put, Spoken
    <3> QED BY <2>1, <3>1, <3>2, RequestAnswered
  <2> QED BY <2>2, <2>3
<1>4. CASE Provider!Breaks
  <2>1. phase = "stream" /\ Provider!Fail("sse_parse") BY <1>4 DEF Provider!Breaks
  <2> QED BY <2>1, RequestFails
<1>5. CASE \E i \in 1..MaxToolCalls : Provider!Arguments(i)
  BY <1>5, CallGoesOn
<1> QED BY <1>1, <1>2, <1>3, <1>4, <1>5, RequestAccepted, ProviderSays, CallStarts, CallStops,
           ServerFinishes DEF Provider!Next

----------------------------------------------------------------------------
(* The chat requests of the HTTP API (ApiChat).                            *)

InCall == {"silent", "spoke"}
Early == {"client", "sent", "queued"}
Late == {"turn", "lost", "answered", "failed"}
Turns == [of : Api!Requests \cup {"none"}, call : Nat,
          state : {"idle", "silent", "spoke", "answering", "failed"}]
Sessions == [state : {"absent", "live", "dead"}, queue : Seq(Api!Requests), turn : Turns]
Bodies == [kind : {"none", "invalid", "timeout", "refused", "removed", "answer", "dropped", "stop"},
           of : Api!Requests \cup {"none"}]

ApiType ==
  /\ place \in [Api!Requests -> Early \cup Late]
  /\ client \in [Api!Requests -> {"new", "waiting", "told", "gone"}]
  /\ reply \in [Api!Requests -> Bodies]
  /\ pending \subseteq Chat
  /\ session \in [Api!Users -> Sessions]
  /\ aSaid \in [Api!Requests -> Seq(Nat)]
  /\ wire \in [Stream -> Seq(Nat)] /\ aShown \in [Stream -> Seq(Nat)]

\* Who is in the channel of a session, or has its turn, is a request of its user,
\* and is there once.
Queued(u) ==
  /\ \A i \in 1..Len(session[u].queue) :
       Api!Key(session[u].queue[i]) = u /\ place[session[u].queue[i]] = "queued"
  /\ \A i, j \in 1..Len(session[u].queue) : session[u].queue[i] = session[u].queue[j] => i = j
HasTurn(u) ==
  session[u].turn.state # "idle" =>
    /\ session[u].turn.of \in Api!Requests /\ Api!Key(session[u].turn.of) = u
    /\ place[session[u].turn.of] = "turn" /\ session[u].turn.call # 0
Seated == \A u \in Api!Users : Queued(u) /\ HasTurn(u)

\* What is owed to the client of a request.
Dealt(r) ==
  /\ client[r] = "new" => place[r] = "client"
  /\ r \in pending => /\ client[r] \in {"waiting", "gone"}
                      /\ place[r] \in {"sent", "queued", "turn", "lost"}
  /\ r \in Plain /\ place[r] \in {"lost", "answered", "failed"} => client[r] \in {"told", "gone"}
  /\ reply[r].of \in {"none", r}

\* The turn of a request is past its first call; what it said after the first n
\* pieces it said in later calls.
Past(r) == LET t == session[Api!Key(r)].turn IN t.of = r /\ t.state \in InCall => t.call # 1
Rest(r, n) == \A i \in (n + 1)..Len(aSaid[r]) : aSaid[r][i] # 1

\* The first k deltas on the wire go on where the stream is; what follows them is the
\* end of the first call, and until then all that was said is shown or on its way.
Flows(r, k) ==
  /\ k <= Len(wire[r]) /\ Len(aShown[r]) + k <= Len(aSaid[r])
  /\ \A i \in 1..k : wire[r][i] # 0 /\ aSaid[r][Len(aShown[r]) + i] = wire[r][i]
  /\ k = Len(wire[r]) => Len(aSaid[r]) = Len(aShown[r]) + k
  /\ k # Len(wire[r]) => wire[r][k + 1] = 0 /\ Rest(r, Len(aShown[r]) + k) /\ Past(r)
Streamed(r) ==
  /\ place[r] \in Early => aSaid[r] = <<>> /\ wire[r] = <<>>
  /\ Len(aShown[r]) <= Len(aSaid[r]) /\ \A i \in 1..Len(aShown[r]) : aShown[r][i] = aSaid[r][i]
  /\ client[r] = "waiting" => \E k \in Nat : Flows(r, k)
  /\ reply[r].kind = "stop" => Rest(r, Len(aShown[r])) /\ Past(r) /\ place[r] \in Late

ApiInv == /\ ApiType /\ Seated
          /\ \A r \in Api!Requests : Dealt(r)
          /\ \A r \in Stream : Streamed(r)

LEMMA Keys == \A r \in Api!Requests : Api!Key(r) \in Api!Users
BY DEF Api!Users

LEMMA Seat ==
  ASSUME ApiType, NEW u \in Api!Users
  PROVE  /\ session[u] \in Sessions /\ session[u].queue \in Seq(Api!Requests)
         /\ session[u].turn \in Turns /\ session[u].turn.call \in Nat
BY DEF ApiType, Sessions, Turns

LEMMA SeatsKept ==
  ASSUME ApiType, Seated, session' = session,
         \A r \in Api!Requests : place[r] \in {"queued", "turn"} => place'[r] = place[r]
  PROVE  Seated'
<1> SUFFICES ASSUME NEW u \in Api!Users PROVE Queued(u)' /\ HasTurn(u)'
  BY DEF Seated
<1>1. Queued(u) /\ HasTurn(u) /\ session[u].queue \in Seq(Api!Requests)
  BY Seat DEF Seated
<1>2. \A i \in 1..Len(session[u].queue) : session[u].queue[i] \in Api!Requests
  BY <1>1
<1>3. Queued(u)' BY <1>1, <1>2 DEF Queued
<1>4. HasTurn(u)' BY <1>1 DEF HasTurn
<1> QED BY <1>3, <1>4

LEMMA DealtKept ==
  ASSUME NEW r \in Api!Requests, Dealt(r), place'[r] = place[r], client'[r] = client[r],
         reply'[r] = reply[r], r \in pending' => r \in pending
  PROVE  Dealt(r)'
BY DEF Dealt

LEMMA StreamKept ==
  ASSUME NEW r \in Stream, Streamed(r),
         aSaid'[r] = aSaid[r], wire'[r] = wire[r], aShown'[r] = aShown[r],
         client'[r] = "waiting" => client[r] = "waiting",
         reply'[r].kind = "stop" => reply[r].kind = "stop",
         place'[r] \in Early => place[r] \in Early,
         place[r] \in Late => place'[r] \in Late,
         Past(r) => Past(r)'
  PROVE  Streamed(r)'
<1>1. \A n : Rest(r, n) => Rest(r, n)' BY DEF Rest
<1>2. \A k : Flows(r, k) => Flows(r, k)' BY <1>1 DEF Flows
<1>3. client'[r] = "waiting" => \E k \in Nat : Flows(r, k)' BY <1>2 DEF Streamed
<1>4. reply'[r].kind = "stop" => Rest(r, Len(aShown[r]))' /\ Past(r)' /\ place'[r] \in Late
  BY <1>1 DEF Streamed
<1> QED BY <1>3, <1>4 DEF Streamed

\* A request that has not had its turn has said nothing, and its stream is empty.
LEMMA StreamEmpty ==
  ASSUME NEW r \in Stream, ApiType, Streamed(r), place[r] \in Early
  PROVE  /\ aSaid[r] = <<>> /\ wire[r] = <<>> /\ aShown[r] = <<>>
         /\ Flows(r, 0) /\ reply[r].kind # "stop"
<1>1. aSaid[r] = <<>> /\ wire[r] = <<>> BY DEF Streamed
<1>2. aShown[r] \in Seq(Nat) /\ Len(aShown[r]) <= 0 BY <1>1 DEF ApiType, Streamed
<1>3. aShown[r] = <<>> BY <1>2
<1>4. Flows(r, 0) BY <1>1, <1>3 DEF Flows
<1>5. reply[r].kind # "stop" BY DEF Streamed, Early, Late
<1> QED BY <1>1, <1>3, <1>4, <1>5

LEMMA ToldEach ==
  ASSUME ApiType, NEW who, NEW kind \in {"timeout", "refused", "removed", "dropped"},
         Api!Told(who, kind)
  PROVE  /\ client' \in [Api!Requests -> {"new", "waiting", "told", "gone"}]
         /\ reply' \in [Api!Requests -> Bodies]
         /\ \A r \in Api!Requests :
              IF r \in who /\ client[r] = "waiting"
              THEN client'[r] = "told" /\ reply'[r].of = r /\ reply'[r].kind = kind
              ELSE client'[r] = client[r] /\ reply'[r] = reply[r]
<1>1. \A r \in Api!Requests :
        IF r \in who /\ client[r] = "waiting"
        THEN client'[r] = "told" /\ reply'[r] = [kind |-> kind, of |-> r]
        ELSE client'[r] = client[r] /\ reply'[r] = reply[r]
  BY DEF Api!Told, Api!Waits
<1>2. \A r \in Api!Requests : reply'[r] \in Bodies
  <2> SUFFICES ASSUME NEW r \in Api!Requests PROVE reply'[r] \in Bodies
    OBVIOUS
  <2>1. [kind |-> kind, of |-> r] \in Bodies BY DEF Bodies
  <2>2. reply[r] \in Bodies BY DEF ApiType
  <2> QED BY <1>1, <2>1, <2>2
<1>3. reply' \in [Api!Requests -> Bodies] BY <1>2 DEF Api!Told
<1>4. client' \in [Api!Requests -> {"new", "waiting", "told", "gone"}]
  BY DEF Api!Told, ApiType
<1> QED BY <1>1, <1>3, <1>4

LEMMA ApiStarts == TalkInit => ApiInv
<1> SUFFICES ASSUME TalkInit PROVE ApiInv
  OBVIOUS
<1> USE DEF TalkInit, Api!Init
<1>1. \A r \in Api!Requests : place[r] = "client" /\ client[r] = "new"
                              /\ reply[r] = Api!Nothing /\ aSaid[r] = <<>>
  OBVIOUS
<1>2. \A r \in Stream : wire[r] = <<>> /\ aShown[r] = <<>> /\ r \in Api!Requests
  BY DEF Api!Requests
<1>3. \A u \in Api!Users : session[u] = Api!NoSession
  OBVIOUS
<1>4. Api!NoTurn \in Turns /\ Api!NoSession \in Sessions
  BY DEF Api!NoTurn, Api!NoSession, Turns, Sessions
<1>5. ApiType
  <2>1. Api!Nothing \in Bodies BY DEF Api!Nothing, Bodies
  <2> QED BY <1>4, <2>1 DEF ApiType, Early
<1>6. Seated
  <2> SUFFICES ASSUME NEW u \in Api!Users PROVE Queued(u) /\ HasTurn(u)
    BY DEF Seated
  <2>1. session[u].queue = <<>> /\ session[u].turn.state = "idle"
    BY <1>3 DEF Api!NoSession, Api!NoTurn
  <2> QED BY <2>1 DEF Queued, HasTurn
<1>7. \A r \in Api!Requests : Dealt(r)
  BY <1>1 DEF Dealt, Api!Nothing
<1>8. \A r \in Stream : Streamed(r)
  BY <1>1, <1>2 DEF Streamed, Early, Api!Nothing
<1> QED BY <1>5, <1>6, <1>7, <1>8 DEF ApiInv

LEMMA ApiKept == ApiInv /\ UNCHANGED apiVars => ApiInv'
<1> SUFFICES ASSUME ApiInv, UNCHANGED apiVars PROVE ApiInv'
  OBVIOUS
<1> USE DEF apiVars
<1>1. ApiType' BY DEF ApiInv, ApiType
<1>2. Seated' BY SeatsKept DEF ApiInv
<1>3. \A r \in Api!Requests : Dealt(r)' BY DealtKept DEF ApiInv
<1>4. \A r \in Stream : Streamed(r)'
  <2>1. \A r \in Stream : Past(r) => Past(r)' BY DEF Past
  <2> QED BY <2>1, StreamKept DEF ApiInv
<1> QED BY <1>1, <1>2, <1>3, <1>4 DEF ApiInv

LEMMA InvalidKeeps ==
  ASSUME ApiInv, NEW r \in Api!Requests, Api!Invalid(r)
  PROVE  ApiInv'
<1>1. /\ client[r] = "new" /\ client' = [client EXCEPT ![r] = "told"]
      /\ reply' = [reply EXCEPT ![r] = [kind |-> "invalid", of |-> r]]
      /\ UNCHANGED <<place, pending, session, aSaid, wire, aShown>>
  BY DEF Api!Invalid
<1>2. ApiType'
  <2>1. [kind |-> "invalid", of |-> r] \in Bodies BY DEF Bodies
  <2> QED BY <1>1, <2>1 DEF ApiInv, ApiType
<1>3. Seated' BY <1>1, SeatsKept DEF ApiInv
<1>4. \A x \in Api!Requests : x # r => client'[x] = client[x] /\ reply'[x] = reply[x]
  BY <1>1 DEF ApiInv, ApiType
<1>5. client'[r] = "told" /\ reply'[r].of = r /\ reply'[r].kind = "invalid"
  BY <1>1 DEF ApiInv, ApiType
<1>6. \A x \in Api!Requests : Dealt(x)'
  <2> SUFFICES ASSUME NEW x \in Api!Requests PROVE Dealt(x)'
    OBVIOUS
  <2>1. CASE x = r
    <3>1. Dealt(r) BY DEF ApiInv
    <3> QED BY <1>1, <1>5, <2>1, <3>1 DEF Dealt
  <2>2. CASE x # r BY <1>1, <1>4, <2>2, DealtKept DEF ApiInv
  <2> QED BY <2>1, <2>2
<1>7. \A x \in Stream : Streamed(x)'
  <2> SUFFICES ASSUME NEW x \in Stream PROVE Streamed(x)'
    OBVIOUS
  <2>1. Past(x) => Past(x)' BY <1>1 DEF Past
  <2>2. x \in Api!Requests BY DEF Api!Requests
  <2>3. /\ client'[x] = "waiting" => client[x] = "waiting"
        /\ reply'[x].kind = "stop" => reply[x].kind = "stop"
    BY <1>4, <1>5, <2>2
  <2> QED BY <1>1, <2>1, <2>3, StreamKept DEF ApiInv
<1> QED BY <1>2, <1>3, <1>6, <1>7 DEF ApiInv

LEMMA AskKeeps ==
  ASSUME ApiInv, NEW r \in Api!Requests, Api!Ask(r)
  PROVE  ApiInv'
<1>1. /\ client[r] = "new" /\ client' = [client EXCEPT ![r] = "waiting"]
      /\ place' = [place EXCEPT ![r] = "sent"] /\ pending' = pending \cup ({r} \cap Chat)
      /\ UNCHANGED <<reply, session, aSaid, wire, aShown>>
  BY DEF Api!Ask
<1>2. place[r] = "client" /\ Dealt(r) BY <1>1 DEF ApiInv, Dealt
<1>3. ApiType' BY <1>1 DEF ApiInv, ApiType, Early
<1>4. \A x \in Api!Requests : x # r => client'[x] = client[x] /\ place'[x] = place[x]
  BY <1>1 DEF ApiInv, ApiType
<1>5. client'[r] = "waiting" /\ place'[r] = "sent" BY <1>1 DEF ApiInv, ApiType
<1>6. Seated' BY <1>1, <1>2, <1>4, SeatsKept DEF ApiInv
<1>7. \A x \in Api!Requests : Dealt(x)'
  <2> SUFFICES ASSUME NEW x \in Api!Requests PROVE Dealt(x)'
    OBVIOUS
  <2>1. CASE x = r BY <1>1, <1>2, <1>5, <2>1 DEF Dealt
  <2>2. CASE x # r BY <1>1, <1>4, <2>2, DealtKept DEF ApiInv
  <2> QED BY <2>1, <2>2
<1>8. \A x \in Stream : Streamed(x)'
  <2> SUFFICES ASSUME NEW x \in Stream PROVE Streamed(x)'
    OBVIOUS
  <2>1. Past(x) => Past(x)' BY <1>1 DEF Past
  <2>2. x \in Api!Requests BY DEF Api!Requests
  <2>3. CASE x # r BY <1>1, <1>4, <2>1, <2>2, <2>3, StreamKept DEF ApiInv
  <2>4. CASE x = r
    <3>1. /\ aSaid[r] = <<>> /\ wire[r] = <<>> /\ aShown[r] = <<>> /\ reply[r].kind # "stop"
      BY <1>2, <2>4, StreamEmpty DEF ApiInv, Early
    <3>2. Flows(r, 0)' BY <1>1, <3>1 DEF Flows
    <3> QED BY <1>1, <1>5, <2>4, <3>1, <3>2 DEF Streamed
  <2> QED BY <2>3, <2>4
<1> QED BY <1>3, <1>6, <1>7, <1>8 DEF ApiInv

\* Who leaves, or whose time is up, is told nothing more; a request that was still
\* being routed is lost.
LEMMA LeaveKeeps ==
  ASSUME ApiInv, NEW r \in Api!Requests, Api!Leave(r)
  PROVE  ApiInv'
<1>1. /\ client[r] = "waiting" /\ client' = [client EXCEPT ![r] = "gone"]
      /\ place' = IF r \notin Chat /\ place[r] = "sent"
                  THEN [place EXCEPT ![r] = "lost"] ELSE place
      /\ UNCHANGED <<reply, pending, session, aSaid, wire, aShown>>
  BY DEF Api!Leave, Api!Waits
<1>2. ApiType' BY <1>1 DEF ApiInv, ApiType, Late
<1>3. \A x \in Api!Requests : x # r => client'[x] = client[x] /\ place'[x] = place[x]
  BY <1>1 DEF ApiInv, ApiType
<1>4. client'[r] = "gone" BY <1>1 DEF ApiInv, ApiType
<1>5. place'[r] = place[r] \/ (place[r] = "sent" /\ place'[r] = "lost" /\ r \notin Chat)
  BY <1>1 DEF ApiInv, ApiType
<1>6. Seated' BY <1>1, <1>3, <1>5, SeatsKept DEF ApiInv
<1>7. \A x \in Api!Requests : Dealt(x)'
  <2> SUFFICES ASSUME NEW x \in Api!Requests PROVE Dealt(x)'
    OBVIOUS
  <2>1. CASE x = r
    <3>1. Dealt(r) /\ (r \in pending => r \in Chat) BY DEF ApiInv, ApiType
    <3> QED BY <1>1, <1>4, <1>5, <2>1, <3>1 DEF Dealt
  <2>2. CASE x # r BY <1>1, <1>3, <2>2, DealtKept DEF ApiInv
  <2> QED BY <2>1, <2>2
<1>8. \A x \in Stream : Streamed(x)'
  <2> SUFFICES ASSUME NEW x \in Stream PROVE Streamed(x)'
    OBVIOUS
  <2>1. Past(x) => Past(x)' BY <1>1 DEF Past
  <2>2. x \in Api!Requests BY DEF Api!Requests
  <2>3. /\ client'[x] = "waiting" => client[x] = "waiting"
        /\ place'[x] \in Early => place[x] \in Early
        /\ place[x] \in Late => place'[x] \in Late
    BY <1>3, <1>4, <1>5, <2>2 DEF Early, Late
  <2> QED BY <1>1, <2>1, <2>3, StreamKept DEF ApiInv
<1> QED BY <1>2, <1>6, <1>7, <1>8 DEF ApiInv

LEMMA TimeoutKeeps ==
  ASSUME ApiInv, NEW r \in Api!Requests, Api!Timeout(r)
  PROVE  ApiInv'
<1>1. /\ client[r] = "waiting" /\ Api!Told({r}, "timeout")
      /\ place' = IF r \in Plain /\ place[r] = "sent"
                  THEN [place EXCEPT ![r] = "lost"] ELSE place
      /\ pending' = pending \ {r}
      /\ UNCHANGED <<session, aSaid, wire, aShown>>
  BY DEF Api!Timeout, Api!Waits
<1>2. /\ client' \in [Api!Requests -> {"new", "waiting", "told", "gone"}]
      /\ reply' \in [Api!Requests -> Bodies]
      /\ client'[r] = "told" /\ reply'[r].of = r /\ reply'[r].kind = "timeout"
      /\ \A x \in Api!Requests : x # r => client'[x] = client[x] /\ reply'[x] = reply[x]
  BY <1>1, ToldEach DEF ApiInv
<1>3. ApiType' BY <1>1, <1>2 DEF ApiInv, ApiType, Late
<1>4. \A x \in Api!Requests : x # r => place'[x] = place[x]
  BY <1>1 DEF ApiInv, ApiType
<1>5. place'[r] = place[r] \/ (place[r] = "sent" /\ place'[r] = "lost")
  BY <1>1 DEF ApiInv, ApiType
<1>6. Seated' BY <1>1, <1>4, <1>5, SeatsKept DEF ApiInv
<1>7. \A x \in Api!Requests : Dealt(x)'
  <2> SUFFICES ASSUME NEW x \in Api!Requests PROVE Dealt(x)'
    OBVIOUS
  <2>1. CASE x = r BY <1>1, <1>2, <2>1 DEF Dealt
  <2>2. CASE x # r BY <1>1, <1>2, <1>4, <2>2, DealtKept DEF ApiInv
  <2> QED BY <2>1, <2>2
<1>8. \A x \in Stream : Streamed(x)'
  <2> SUFFICES ASSUME NEW x \in Stream PROVE Streamed(x)'
    OBVIOUS
  <2>1. Past(x) => Past(x)' BY <1>1 DEF Past
  <2>2. x \in Api!Requests BY DEF Api!Requests
  <2>3. /\ client'[x] = "waiting" => client[x] = "waiting"
        /\ reply'[x].kind = "stop" => reply[x].kind = "stop"
        /\ place'[x] \in Early => place[x] \in Early
        /\ place[x] \in Late => place'[x] \in Late
    BY <1>2, <1>4, <1>5, <2>2 DEF Early, Late
  <2> QED BY <1>1, <2>1, <2>3, StreamKept DEF ApiInv
<1> QED BY <1>3, <1>6, <1>7, <1>8 DEF ApiInv

\* The requests of who are not answered: those of them that are plain are told so.
LEMMA LostEach ==
  ASSUME ApiInv, NEW who, NEW kind \in {"refused", "removed", "dropped"}, Api!Lost(who, kind),
         \A r \in Api!Requests : r \in who => place[r] \in {"sent", "queued", "turn"},
         UNCHANGED <<pending, aSaid, wire, aShown>>,
         \A r \in Stream : Past(r) => Past(r)',
         session' \in [Api!Users -> Sessions], Seated'
  PROVE  ApiInv'
<1>1. /\ place' = [r \in Api!Requests |-> IF r \in who THEN "lost" ELSE place[r]]
      /\ Api!Told(who \cap Plain, kind)
  BY DEF Api!Lost
<1>2. /\ client' \in [Api!Requests -> {"new", "waiting", "told", "gone"}]
      /\ reply' \in [Api!Requests -> Bodies]
      /\ \A r \in Api!Requests :
           IF r \in who \cap Plain /\ client[r] = "waiting"
           THEN client'[r] = "told" /\ reply'[r].of = r /\ reply'[r].kind = kind
           ELSE client'[r] = client[r] /\ reply'[r] = reply[r]
  BY <1>1, ToldEach DEF ApiInv
<1>3. ApiType' BY <1>1, <1>2 DEF ApiInv, ApiType, Late
<1>4. \A r \in Api!Requests : Dealt(r)'
  <2> SUFFICES ASSUME NEW r \in Api!Requests PROVE Dealt(r)'
    OBVIOUS
  <2>1. CASE r \notin who
    <3>1. place'[r] = place[r] /\ client'[r] = client[r] /\ reply'[r] = reply[r]
      BY <1>1, <1>2, <2>1
    <3> QED BY <3>1, DealtKept DEF ApiInv
  <2>2. CASE r \in who
    <3>1. place'[r] = "lost" /\ Dealt(r) /\ client[r] # "new" BY <1>1, <2>2 DEF ApiInv, Dealt
    <3>2. client[r] \in {"waiting", "told", "gone"} BY <3>1 DEF ApiInv, ApiType
    <3>3. r \in pending => r \notin Plain
      BY ChatAssumption DEF ApiInv, ApiType, Api!ApiAssumption
    <3>4. CASE r \in Plain BY <1>2, <2>2, <3>1, <3>2, <3>3, <3>4 DEF Dealt
    <3>5. CASE r \notin Plain BY <1>2, <2>2, <3>1, <3>2, <3>5 DEF Dealt
    <3> QED BY <3>4, <3>5
  <2> QED BY <2>1, <2>2
<1>5. \A r \in Stream : Streamed(r)'
  <2> SUFFICES ASSUME NEW r \in Stream PROVE Streamed(r)'
    OBVIOUS
  <2>1. r \in Api!Requests /\ r \notin Plain
    BY ChatAssumption DEF Api!Requests, Api!ApiAssumption
  <2>2. /\ client'[r] = client[r] /\ reply'[r] = reply[r]
        /\ place'[r] = place[r] \/ place'[r] = "lost"
    BY <1>1, <1>2, <2>1
  <2> QED BY <2>2, StreamKept DEF ApiInv, Early, Late
<1> QED BY <1>3, <1>4, <1>5 DEF ApiInv

LEMMA RefuseKeeps ==
  ASSUME ApiInv, NEW r \in Api!Requests, Api!Refuse(r)
  PROVE  ApiInv'
<1>1. /\ place[r] = "sent" /\ Api!Lost({r}, "refused")
      /\ UNCHANGED <<pending, session, aSaid, wire, aShown>>
  BY DEF Api!Refuse
<1>2. \A x \in Api!Requests : place[x] \in {"queued", "turn"} => place'[x] = place[x]
  BY <1>1 DEF Api!Lost
<1>3. Seated' BY <1>1, <1>2, SeatsKept DEF ApiInv
<1>4. \A x \in Stream : Past(x) => Past(x)' BY <1>1 DEF Past
<1>5. session' \in [Api!Users -> Sessions] BY <1>1 DEF ApiInv, ApiType
<1> QED BY <1>1, <1>3, <1>4, <1>5, LostEach

\* The session of a user is replaced by one without a turn, and nothing in its channel.
LEMMA SessionEnds ==
  ASSUME ApiInv, NEW u \in Api!Users, NEW s \in Sessions,
         s.queue = <<>>, s.turn.state = "idle", session' = [session EXCEPT ![u] = s],
         \A r \in Api!Requests :
           place[r] \in {"queued", "turn"} /\ Api!Key(r) # u => place'[r] = place[r]
  PROVE  /\ session' \in [Api!Users -> Sessions] /\ Seated'
         /\ \A r \in Stream : Past(r) => Past(r)'
<1>1. session \in [Api!Users -> Sessions] BY DEF ApiInv, ApiType
<1>2. /\ session' \in [Api!Users -> Sessions] /\ session'[u] = s
      /\ \A v \in Api!Users : v # u => session'[v] = session[v]
  BY <1>1
<1>3. Seated'
  <2> SUFFICES ASSUME NEW v \in Api!Users PROVE Queued(v)' /\ HasTurn(v)'
    BY DEF Seated
  <2>1. CASE v = u BY <1>2, <2>1 DEF Queued, HasTurn
  <2>2. CASE v # u
    <3>1. Queued(v) /\ HasTurn(v) /\ session[v].queue \in Seq(Api!Requests)
      BY Seat DEF ApiInv, Seated
    <3>2. \A i \in 1..Len(session[v].queue) :
            session[v].queue[i] \in Api!Requests /\ place'[session[v].queue[i]] = "queued"
      BY <2>2, <3>1 DEF Queued
    <3>3. session[v].turn.state # "idle" => place'[session[v].turn.of] = "turn"
      BY <2>2, <3>1 DEF HasTurn
    <3> QED BY <1>2, <2>2, <3>1, <3>2, <3>3 DEF Queued, HasTurn
  <2> QED BY <2>1, <2>2
<1>4. \A r \in Stream : Past(r) => Past(r)'
  <2> SUFFICES ASSUME NEW r \in Stream, Past(r) PROVE Past(r)'
    OBVIOUS
  <2>1. Api!Key(r) \in Api!Users BY Keys DEF Api!Requests
  <2>2. CASE Api!Key(r) = u BY <1>2, <2>2 DEF Past, InCall
  <2>3. CASE Api!Key(r) # u BY <1>2, <2>1, <2>3 DEF Past
  <2> QED BY <2>2, <2>3
<1> QED BY <1>2, <1>3, <1>4

LEMMA Sessionless ==
  /\ Api!NoSession \in Sessions /\ [Api!NoSession EXCEPT !.state = "dead"] \in Sessions
  /\ \A s \in {Api!NoSession, [Api!NoSession EXCEPT !.state = "dead"]} :
       s.queue = <<>> /\ s.turn.state = "idle"
<1>1. Api!NoTurn \in Turns /\ Api!NoTurn.state = "idle" BY DEF Api!NoTurn, Turns
<1>2. /\ Api!NoSession = [state |-> "absent", queue |-> <<>>, turn |-> Api!NoTurn]
      /\ [Api!NoSession EXCEPT !.state = "dead"] = [state |-> "dead", queue |-> <<>>, turn |-> Api!NoTurn]
  BY DEF Api!NoSession
<1>3. <<>> \in Seq(Api!Requests) OBVIOUS
<1>4. Api!NoSession \in Sessions BY <1>1, <1>2, <1>3 DEF Sessions
<1>5. [Api!NoSession EXCEPT !.state = "dead"] \in Sessions BY <1>1, <1>2, <1>3 DEF Sessions
<1>6. Api!NoSession.queue = <<>> /\ Api!NoSession.turn.state = "idle" BY <1>1, <1>2
<1>7. /\ [Api!NoSession EXCEPT !.state = "dead"].queue = <<>>
      /\ [Api!NoSession EXCEPT !.state = "dead"].turn.state = "idle"
  BY <1>1, <1>2
<1> QED BY <1>4, <1>5, <1>6, <1>7

LEMMA RouteDeadKeeps ==
  ASSUME ApiInv, NEW r \in Api!Requests, Api!RouteDead(r)
  PROVE  ApiInv'
<1>1. /\ place[r] = "sent" /\ Api!Lost({r}, "removed")
      /\ session' = [session EXCEPT ![Api!Key(r)] = Api!NoSession]
      /\ UNCHANGED <<pending, aSaid, wire, aShown>>
  BY DEF Api!RouteDead
<1>2. \A x \in Api!Requests : place[x] \in {"queued", "turn"} => place'[x] = place[x]
  BY <1>1 DEF Api!Lost
<1>3. /\ session' \in [Api!Users -> Sessions] /\ Seated'
      /\ \A x \in Stream : Past(x) => Past(x)'
  BY <1>1, <1>2, Keys, Sessionless, SessionEnds
<1> QED BY <1>1, <1>3, LostEach

LEMMA PanicKeeps ==
  ASSUME ApiInv, NEW u \in Api!Users, Api!Panic(u)
  PROVE  ApiInv'
<1> DEFINE who == {session[u].turn.of}
                  \cup {session[u].queue[i] : i \in 1..Len(session[u].queue)}
<1>1. /\ session[u].turn.state # "idle" /\ Api!Lost(who, "dropped")
      /\ session' = [session EXCEPT ![u] = [Api!NoSession EXCEPT !.state = "dead"]]
      /\ UNCHANGED <<pending, aSaid, wire, aShown>>
  BY DEF Api!Panic, Api!InCall, Api!Turn
<1>2. Queued(u) /\ HasTurn(u) BY DEF ApiInv, Seated
<1>3. \A r \in who : Api!Key(r) = u /\ place[r] \in {"queued", "turn"}
  BY <1>1, <1>2 DEF Queued, HasTurn
<1> HIDE DEF who
<1>4. \A x \in Api!Requests : Api!Key(x) # u => place'[x] = place[x]
  BY <1>1, <1>3 DEF Api!Lost
<1>5. /\ session' \in [Api!Users -> Sessions] /\ Seated'
      /\ \A x \in Stream : Past(x) => Past(x)'
  BY <1>1, <1>4, Sessionless, SessionEnds
<1> QED BY <1>1, <1>3, <1>5, LostEach

LEMMA RouteKeeps ==
  ASSUME ApiInv, NEW r \in Api!Requests, Api!Route(r)
  PROVE  ApiInv'
<1> DEFINE u == Api!Key(r)
           q == session[u].queue
<1>1. /\ place[r] = "sent" /\ place' = [place EXCEPT ![r] = "queued"]
      /\ session' = [session EXCEPT ![u].state = "live", ![u].queue = Append(q, r)]
      /\ UNCHANGED <<client, reply, pending, aSaid, wire, aShown>>
  BY DEF Api!Route
<1>2. /\ u \in Api!Users /\ session \in [Api!Users -> Sessions] /\ q \in Seq(Api!Requests)
      /\ Append(q, r) \in Seq(Api!Requests)
  BY Keys, Seat DEF ApiInv, ApiType
<1>3. /\ session' \in [Api!Users -> Sessions]
      /\ session'[u].queue = Append(q, r) /\ session'[u].turn = session[u].turn
      /\ \A v \in Api!Users : v # u => session'[v] = session[v]
  BY <1>1, <1>2 DEF Sessions
<1>4. place'[r] = "queued" /\ \A x \in Api!Requests : x # r => place'[x] = place[x]
  BY <1>1 DEF ApiInv, ApiType
<1>5. ApiType' BY <1>1, <1>3 DEF ApiInv, ApiType, Early
<1>6. Seated'
  <2> SUFFICES ASSUME NEW v \in Api!Users PROVE Queued(v)' /\ HasTurn(v)'
    BY DEF Seated
  <2>1. Queued(v) /\ HasTurn(v) /\ session[v].queue \in Seq(Api!Requests)
    BY Seat DEF ApiInv, Seated
  <2>2. \A i \in 1..Len(session[v].queue) :
          session[v].queue[i] \in Api!Requests /\ session[v].queue[i] # r
    BY <1>1, <2>1 DEF Queued
  <2>3. HasTurn(v)'
    <3>1. session'[v].turn = session[v].turn BY <1>3
    <3>2. session[v].turn.state # "idle" => session[v].turn.of # r BY <1>1, <2>1 DEF HasTurn
    <3> QED BY <1>4, <2>1, <3>1, <3>2 DEF HasTurn
  <2>4. CASE v # u BY <1>3, <1>4, <2>1, <2>2, <2>3, <2>4 DEF Queued
  <2>5. CASE v = u
    <3> HIDE DEF q, u
    <3>1. /\ Len(Append(q, r)) = Len(q) + 1 /\ Append(q, r)[Len(q) + 1] = r /\ Len(q) \in Nat
          /\ \A i \in 1..Len(q) : Append(q, r)[i] = q[i]
      BY <1>2
    <3>2. \A i \in 1..Len(q) : q[i] \in Api!Requests /\ q[i] # r /\ Api!Key(q[i]) = u
                               /\ place[q[i]] = "queued"
      BY <2>1, <2>2, <2>5 DEF q, Queued
    <3>3. \A i \in 1..(Len(q) + 1) : i \in 1..Len(q) \/ i = Len(q) + 1 BY <3>1
    <3>4. \A i \in 1..Len(session'[v].queue) :
            Api!Key(session'[v].queue[i]) = v /\ place'[session'[v].queue[i]] = "queued"
      BY <1>3, <1>4, <2>5, <3>1, <3>2, <3>3 DEF u
    <3>5. \A i, j \in 1..Len(q) : q[i] = q[j] => i = j BY <2>1, <2>5 DEF q, Queued
    <3>6. \A i, j \in 1..Len(session'[v].queue) :
            session'[v].queue[i] = session'[v].queue[j] => i = j
      BY <1>3, <2>5, <3>1, <3>2, <3>3, <3>5
    <3> QED BY <2>3, <3>4, <3>6 DEF Queued
  <2> QED BY <2>3, <2>4, <2>5
<1>7. \A x \in Api!Requests : Dealt(x)'
  <2> SUFFICES ASSUME NEW x \in Api!Requests PROVE Dealt(x)'
    OBVIOUS
  <2>1. CASE x = r
    <3>1. Dealt(r) BY DEF ApiInv
    <3> QED BY <1>1, <1>4, <2>1, <3>1 DEF Dealt
  <2>2. CASE x # r BY <1>1, <1>4, <2>2, DealtKept DEF ApiInv
  <2> QED BY <2>1, <2>2
<1>8. \A x \in Stream : Streamed(x)'
  <2> SUFFICES ASSUME NEW x \in Stream PROVE Streamed(x)'
    OBVIOUS
  <2>1. x \in Api!Requests /\ Api!Key(x) \in Api!Users BY Keys DEF Api!Requests
  <2>2. session'[Api!Key(x)].turn = session[Api!Key(x)].turn BY <1>3, <2>1
  <2>3. Past(x) => Past(x)' BY <2>2 DEF Past
  <2>4. /\ place'[x] \in Early => place[x] \in Early
        /\ place[x] \in Late => place'[x] \in Late
    BY <1>1, <1>4, <2>1 DEF Early, Late
  <2> QED BY <1>1, <2>3, <2>4, StreamKept DEF ApiInv
<1> QED BY <1>5, <1>6, <1>7, <1>8 DEF ApiInv

LEMMA TakeKeeps ==
  ASSUME ApiInv, NEW u \in Api!Users, Api!Take(u)
  PROVE  ApiInv'
<1> DEFINE q == session[u].queue
           r == Head(q)
           t == [of |-> r, call |-> 1, state |-> "silent"]
<1>1. /\ session[u].turn.state = "idle" /\ q # <<>>
      /\ session' = [session EXCEPT ![u].queue = Tail(q), ![u].turn = t]
      /\ place' = [place EXCEPT ![r] = "turn"]
      /\ UNCHANGED <<client, reply, pending, aSaid, wire, aShown>>
  BY DEF Api!Take, Api!Turn
<1>2. session \in [Api!Users -> Sessions] /\ q \in Seq(Api!Requests) /\ Queued(u)
  BY Seat DEF ApiInv, ApiType, Seated
<1>3. /\ r \in Api!Requests /\ r = q[1] /\ Len(q) \in Nat /\ 1 \in 1..Len(q)
      /\ Tail(q) \in Seq(Api!Requests) /\ Len(Tail(q)) = Len(q) - 1
      /\ \A i \in 1..(Len(q) - 1) : Tail(q)[i] = q[i + 1]
  BY <1>1, <1>2
<1>4. place[r] = "queued" /\ Api!Key(r) = u BY <1>2, <1>3 DEF Queued
<1>5. t \in Turns BY <1>3 DEF Turns
<1> HIDE DEF q, t
<1>6. /\ session' \in [Api!Users -> Sessions]
      /\ session'[u].queue = Tail(q) /\ session'[u].turn = t
      /\ \A v \in Api!Users : v # u => session'[v] = session[v]
  BY <1>1, <1>2, <1>3, <1>5 DEF Sessions
<1>7. t.of = r /\ t.call = 1 /\ t.state = "silent" BY DEF t
<1> HIDE DEF r
<1>8. place'[r] = "turn" /\ \A x \in Api!Requests : x # r => place'[x] = place[x]
  BY <1>1, <1>3 DEF ApiInv, ApiType
<1>9. ApiType' BY <1>1, <1>3, <1>6 DEF ApiInv, ApiType, Late
<1>10. Seated'
  <2> SUFFICES ASSUME NEW v \in Api!Users PROVE Queued(v)' /\ HasTurn(v)'
    BY DEF Seated
  <2>1. Queued(v) /\ HasTurn(v) /\ session[v].queue \in Seq(Api!Requests)
    BY Seat DEF ApiInv, Seated
  <2>2. CASE v # u
    <3>1. \A i \in 1..Len(session[v].queue) :
            session[v].queue[i] \in Api!Requests /\ session[v].queue[i] # r
      BY <1>4, <2>1, <2>2 DEF Queued
    <3>2. session[v].turn.state # "idle" => session[v].turn.of # r BY <1>4, <2>1 DEF HasTurn
    <3> QED BY <1>6, <1>8, <2>1, <2>2, <3>1, <3>2 DEF Queued, HasTurn
  <2>3. CASE v = u
    <3>1. HasTurn(u)' BY <1>3, <1>4, <1>6, <1>7, <1>8 DEF HasTurn
    <3>2. /\ \A i \in 1..Len(q) : Api!Key(q[i]) = u /\ place[q[i]] = "queued" /\ q[i] \in Api!Requests
          /\ \A i, j \in 1..Len(q) : q[i] = q[j] => i = j
      BY <1>2 DEF Queued, q
    <3>3. \A i \in 1..(Len(q) - 1) : i + 1 \in 1..Len(q) /\ i + 1 # 1 BY <1>3
    <3>4. \A i \in 1..(Len(q) - 1) :
            Api!Key(q[i + 1]) = u /\ place'[q[i + 1]] = "queued"
      BY <1>3, <1>8, <3>2, <3>3
    <3>5. \A i, j \in 1..(Len(q) - 1) : q[i + 1] = q[j + 1] => i = j
      <4> SUFFICES ASSUME NEW i \in 1..(Len(q) - 1), NEW j \in 1..(Len(q) - 1), q[i + 1] = q[j + 1]
                   PROVE  i = j
        OBVIOUS
      <4>1. i + 1 = j + 1 BY <3>2, <3>3
      <4> QED BY <4>1
    <3>6. /\ Len(session'[u].queue) = Len(q) - 1
          /\ \A i \in 1..(Len(q) - 1) : session'[u].queue[i] = q[i + 1]
      BY <1>3, <1>6
    <3>7. \A i \in 1..Len(session'[u].queue) :
            Api!Key(session'[u].queue[i]) = u /\ place'[session'[u].queue[i]] = "queued"
      BY <3>4, <3>6
    <3>8. \A i, j \in 1..Len(session'[u].queue) :
            session'[u].queue[i] = session'[u].queue[j] => i = j
      BY <3>5, <3>6
    <3>9. Queued(u)' BY <3>7, <3>8 DEF Queued
    <3> QED BY <2>3, <3>1, <3>9
  <2> QED BY <2>2, <2>3
<1>11. \A x \in Api!Requests : Dealt(x)'
  <2> SUFFICES ASSUME NEW x \in Api!Requests PROVE Dealt(x)'
    OBVIOUS
  <2>1. CASE x = r
    <3>1. Dealt(r) BY <1>3 DEF ApiInv
    <3> QED BY <1>1, <1>4, <1>8, <2>1, <3>1 DEF Dealt
  <2>2. CASE x # r BY <1>1, <1>8, <2>2, DealtKept DEF ApiInv
  <2> QED BY <2>1, <2>2
<1>12. \A x \in Stream : Streamed(x)'
  <2> SUFFICES ASSUME NEW x \in Stream PROVE Streamed(x)'
    OBVIOUS
  <2>1. x \in Api!Requests /\ Api!Key(x) \in Api!Users BY Keys DEF Api!Requests
  <2>2. CASE x # r
    <3>1. Past(x) => Past(x)' BY <1>6, <1>7, <2>1, <2>2 DEF Past
    <3> QED BY <1>1, <1>8, <2>1, <2>2, <3>1, StreamKept DEF ApiInv
  <2>3. CASE x = r
    <3>1. /\ aSaid[x] = <<>> /\ wire[x] = <<>> /\ aShown[x] = <<>> /\ reply[x].kind # "stop"
      BY <1>4, <2>3, StreamEmpty DEF ApiInv, Early
    <3>2. Flows(x, 0)' BY <1>1, <3>1 DEF Flows
    <3> QED BY <1>1, <1>8, <2>3, <3>1, <3>2 DEF Streamed, Early
  <2> QED BY <2>2, <2>3
<1> QED BY <1>9, <1>10, <1>11, <1>12 DEF ApiInv

\* The turn of a user goes on, of the same request.
LEMMA TurnMoves ==
  ASSUME ApiInv, NEW u \in Api!Users, session[u].turn.state # "idle",
         session' \in [Api!Users -> Sessions], session'[u].queue = session[u].queue,
         session'[u].turn.of = session[u].turn.of, session'[u].turn.call # 0,
         \A v \in Api!Users : v # u => session'[v] = session[v], place' = place
  PROVE  /\ Seated'
         /\ \A x \in Stream : x # session[u].turn.of /\ Past(x) => Past(x)'
<1>1. Seated'
  <2> SUFFICES ASSUME NEW v \in Api!Users PROVE Queued(v)' /\ HasTurn(v)'
    BY DEF Seated
  <2>1. Queued(v) /\ HasTurn(v) BY DEF ApiInv, Seated
  <2>2. CASE v = u BY <2>1, <2>2 DEF Queued, HasTurn
  <2>3. CASE v # u BY <2>1, <2>3 DEF Queued, HasTurn
  <2> QED BY <2>2, <2>3
<1>2. ASSUME NEW x \in Stream, x # session[u].turn.of, Past(x) PROVE Past(x)'
  <2>1. Api!Key(x) \in Api!Users BY Keys DEF Api!Requests
  <2> QED BY <1>2, <2>1 DEF Past
<1> QED BY <1>1, <1>2

LEMMA TurnOf ==
  ASSUME ApiInv, NEW u \in Api!Users, session[u].turn.state # "idle"
  PROVE  /\ session[u].turn.of \in Api!Requests /\ Api!Key(session[u].turn.of) = u
         /\ place[session[u].turn.of] = "turn"
         /\ session[u].turn.call \in Nat /\ session[u].turn.call # 0
BY Seat DEF ApiInv, Seated, HasTurn

LEMMA EmitEach ==
  ASSUME ApiInv, NEW r \in Api!Requests, NEW d \in Nat, Api!Emit(r, d)
  PROVE  /\ wire' \in [Stream -> Seq(Nat)]
         /\ \A x \in Stream : IF x = r /\ client[r] = "waiting"
                              THEN wire'[x] = Append(wire[x], d) ELSE wire'[x] = wire[x]
<1>1. wire \in [Stream -> Seq(Nat)] BY DEF ApiInv, ApiType
<1>2. CASE r \in Stream /\ client[r] = "waiting"
  <2>1. wire' = [wire EXCEPT ![r] = Append(wire[r], d)]
    BY <1>2 DEF Api!Emit, Api!Listens, Api!Waits
  <2>2. Append(wire[r], d) \in Seq(Nat) BY <1>1, <1>2
  <2> QED BY <1>1, <1>2, <2>1, <2>2
<1>3. CASE ~(r \in Stream /\ client[r] = "waiting")
  <2>1. wire' = wire BY <1>3 DEF Api!Emit, Api!Listens, Api!Waits
  <2> QED BY <1>1, <1>3, <2>1
<1> QED BY <1>2, <1>3

LEMMA Appended ==
  ASSUME NEW s \in Seq(Nat), NEW x \in Nat
  PROVE  /\ Append(s, x) \in Seq(Nat) /\ Len(s) \in Nat /\ Len(Append(s, x)) = Len(s) + 1
         /\ \A i \in 1..Len(s) : Append(s, x)[i] = s[i]
         /\ Append(s, x)[Len(s) + 1] = x
OBVIOUS

\* What a call says goes on the wire of a stream that listens: while the wire holds
\* what the first call said, right behind it.
LEMMA StreamSays ==
  ASSUME ApiType, NEW r \in Stream, NEW c \in Nat, c # 0, Streamed(r), place[r] = "turn", place' = place,
         client' = client, reply' = reply, aShown' = aShown,
         aSaid'[r] = Append(aSaid[r], c),
         IF client[r] = "waiting" THEN wire'[r] = Append(wire[r], c) ELSE wire'[r] = wire[r],
         Past(r) => Past(r)' /\ c # 1
  PROVE  Streamed(r)'
<1> DEFINE s == aSaid[r]
           w == wire[r]
           h == Len(aShown[r])
           sn == aSaid'[r]
           wn == wire'[r]
           live == client[r] = "waiting"
<1>1. s \in Seq(Nat) /\ w \in Seq(Nat) /\ h \in Nat /\ Len(s) \in Nat /\ Len(w) \in Nat
  BY DEF ApiType, Api!Requests
<1>2. Len(sn) = Len(s) + 1 /\ sn[Len(s) + 1] = c /\ \A i \in 1..Len(s) : sn[i] = s[i]
  BY <1>1, Appended
<1>3. live => Len(wn) = Len(w) + 1 /\ wn[Len(w) + 1] = c /\ \A i \in 1..Len(w) : wn[i] = w[i]
  <2>1. \A i \in 1..Len(w) : Append(w, c)[i] = w[i] BY <1>1, Appended
  <2>2. Len(Append(w, c)) = Len(w) + 1 /\ Append(w, c)[Len(w) + 1] = c BY <1>1, Appended
  <2>3. live => wn = Append(w, c) OBVIOUS
  <2> HIDE DEF live, w, wn
  <2> QED BY <2>1, <2>2, <2>3
<1>4. h <= Len(s) /\ \A i \in 1..h : aShown[r][i] = s[i] BY DEF Streamed
<1>5. ASSUME NEW n \in Nat, Rest(r, n), Past(r)
      PROVE  (\A i \in (n + 1)..Len(sn) : sn[i] # 1) /\ Past(r)'
  <2> SUFFICES ASSUME NEW i \in (n + 1)..Len(sn) PROVE sn[i] # 1
    BY <1>5
  <2>0. \A j \in (n + 1)..Len(s) : s[j] # 1 BY <1>5 DEF Rest
  <2>1. c # 1 BY <1>5
  <2> HIDE DEF s, sn
  <2>2. CASE i = Len(s) + 1 BY <1>2, <2>1, <2>2
  <2>3. CASE i # Len(s) + 1
    <3>1. Len(s) \in Nat /\ Len(sn) = Len(s) + 1 BY <1>1, <1>2
    <3>2. i \in (n + 1)..Len(s) /\ i \in 1..Len(s) BY <2>3, <3>1
    <3> QED BY <1>2, <2>0, <3>2
  <2> QED BY <2>2, <2>3
<1>6. h <= Len(sn) /\ \A i \in 1..h : aShown'[r][i] = sn[i]
  <2>1. aShown'[r] = aShown[r] OBVIOUS
  <2> HIDE DEF s, sn, h
  <2>2. h <= Len(sn) /\ \A i \in 1..h : i \in 1..Len(s) BY <1>1, <1>2, <1>4
  <2> QED BY <1>2, <1>4, <2>1, <2>2
<1>7. ASSUME live PROVE \E k \in Nat : Flows(r, k)'
  <2>1. PICK k \in Nat : Flows(r, k) BY <1>7 DEF Streamed
  <2>2. /\ k <= Len(w) /\ h + k <= Len(s) /\ \A i \in 1..k : w[i] # 0 /\ s[h + i] = w[i]
        /\ k = Len(w) => Len(s) = h + k
        /\ k # Len(w) => w[k + 1] = 0 /\ Rest(r, h + k) /\ Past(r)
    BY <2>1 DEF Flows
  <2>3. h' = h OBVIOUS
  <2>4. \A m \in Nat :
          /\ m <= Len(wn) /\ h + m <= Len(sn) /\ \A i \in 1..m : wn[i] # 0 /\ sn[h + i] = wn[i]
          /\ m = Len(wn) => Len(sn) = h + m
          /\ m # Len(wn) => /\ wn[m + 1] = 0 /\ Past(r)'
                            /\ \A i \in (h + m + 1)..Len(sn) : sn[i] # 1
          => Flows(r, m)'
    BY <2>3 DEF Flows, Rest
  <2> HIDE DEF s, w, h, sn, wn, live
  <2>5. \A i \in 1..k : i \in 1..Len(w) /\ h + i \in 1..Len(s) BY <1>1, <2>2
  <2>6. \A i \in 1..k : wn[i] # 0 /\ sn[h + i] = wn[i] BY <1>2, <1>3, <1>7, <2>2, <2>5
  <2>7. CASE k = Len(w)
    <3>1. k + 1 = Len(wn) /\ Len(sn) = h + (k + 1) /\ wn[k + 1] = c BY <1>1, <1>2, <1>3, <1>7, <2>2, <2>7
    <3>2. h + (k + 1) = Len(s) + 1 BY <1>1, <2>2, <2>7
    <3>3. sn[h + (k + 1)] = c BY <1>2, <3>2
    <3>4. \A i \in 1..(k + 1) : i \in 1..k \/ i = k + 1 OBVIOUS
    <3>5. \A i \in 1..(k + 1) : wn[i] # 0 /\ sn[h + i] = wn[i] BY <2>6, <3>1, <3>3, <3>4
    <3>6. k + 1 <= Len(wn) /\ h + (k + 1) <= Len(sn) /\ k + 1 \in Nat BY <1>1, <3>1
    <3>7. Flows(r, k + 1)' BY <2>4, <3>1, <3>5, <3>6
    <3> QED BY <3>6, <3>7
  <2>8. CASE k # Len(w)
    <3>1. k + 1 \in 1..Len(w) /\ h + k \in Nat BY <1>1, <2>2, <2>8
    <3>2. k <= Len(wn) /\ k # Len(wn) /\ h + k <= Len(sn) BY <1>1, <1>2, <1>3, <1>7, <2>2, <2>8
    <3>3. wn[k + 1] = 0 BY <1>3, <1>7, <2>2, <2>8, <3>1
    <3>4. (\A i \in (h + k + 1)..Len(sn) : sn[i] # 1) /\ Past(r)' BY <1>5, <2>2, <2>8, <3>1
    <3>5. Flows(r, k)' BY <2>4, <2>6, <3>2, <3>3, <3>4
    <3> QED BY <3>5
  <2> QED BY <2>7, <2>8
<1>8. reply[r].kind = "stop" => (\A i \in (h + 1)..Len(sn) : sn[i] # 1) /\ Past(r)'
  BY <1>1, <1>5 DEF Streamed
<1> QED BY <1>6, <1>7, <1>8 DEF Streamed, Early, Late, Rest

LEMMA SayKeeps ==
  ASSUME ApiInv, NEW u \in Api!Users, Api!Say(u)
  PROVE  ApiInv'
<1> DEFINE t == session[u].turn
           r == t.of
<1>1. /\ t.state = "silent" /\ Api!Emit(r, t.call)
      /\ aSaid' = [aSaid EXCEPT ![r] = Append(aSaid[r], t.call)]
      /\ session' = [session EXCEPT ![u].turn.state = "spoke"]
      /\ UNCHANGED <<place, client, reply, pending, aShown>>
  BY DEF Api!Say, Api!Turn
<1>2. /\ r \in Api!Requests /\ Api!Key(r) = u /\ place[r] = "turn" /\ t.call \in Nat /\ t.call # 0
  BY <1>1, TurnOf
<1>3. session \in [Api!Users -> Sessions] BY DEF ApiInv, ApiType
<1>4. /\ session' \in [Api!Users -> Sessions] /\ session'[u].queue = session[u].queue
      /\ session'[u].turn.of = r /\ session'[u].turn.call = t.call
      /\ session'[u].turn.state = "spoke"
      /\ \A v \in Api!Users : v # u => session'[v] = session[v]
  BY <1>1, <1>3 DEF Sessions, Turns
<1>5. Seated' /\ \A x \in Stream : x # r /\ Past(x) => Past(x)'
  BY <1>1, <1>2, <1>4, TurnMoves
<1>6. /\ wire' \in [Stream -> Seq(Nat)]
      /\ \A x \in Stream : IF x = r /\ client[r] = "waiting"
                           THEN wire'[x] = Append(wire[x], t.call) ELSE wire'[x] = wire[x]
  BY <1>1, <1>2, EmitEach
<1>7. /\ aSaid' \in [Api!Requests -> Seq(Nat)] /\ aSaid'[r] = Append(aSaid[r], t.call)
      /\ \A x \in Api!Requests : x # r => aSaid'[x] = aSaid[x]
  BY <1>1, <1>2 DEF ApiInv, ApiType
<1>8. ApiType' BY <1>1, <1>4, <1>6, <1>7 DEF ApiInv, ApiType
<1>9. \A x \in Api!Requests : Dealt(x)' BY <1>1, DealtKept DEF ApiInv
<1>10. \A x \in Stream : Streamed(x)'
  <2> SUFFICES ASSUME NEW x \in Stream PROVE Streamed(x)'
    OBVIOUS
  <2>1. x \in Api!Requests BY DEF Api!Requests
  <2>2. CASE x # r
    <3>1. wire'[x] = wire[x] /\ aSaid'[x] = aSaid[x] BY <1>6, <1>7, <2>1, <2>2
    <3> QED BY <1>1, <1>5, <2>2, <3>1, StreamKept DEF ApiInv
  <2>3. CASE x = r
    <3>1. Past(x) => Past(x)' /\ t.call # 1 BY <1>1, <1>2, <1>4, <2>3 DEF Past, InCall
    <3>2. Streamed(x) /\ ApiType /\ place[x] = "turn" BY <1>2, <2>3 DEF ApiInv
    <3>3. IF client[x] = "waiting" THEN wire'[x] = Append(wire[x], t.call) ELSE wire'[x] = wire[x]
      BY <1>6, <2>3
    <3>4. aSaid'[x] = Append(aSaid[x], t.call) BY <1>7, <2>3
    <3> HIDE DEF t
    <3> QED BY <1>1, <1>2, <3>1, <3>2, <3>3, <3>4, StreamSays
  <2> QED BY <2>2, <2>3
<1> QED BY <1>5, <1>8, <1>9, <1>10 DEF ApiInv

\* At the end of a call Done is sent, and the turn is past its first call.
LEMMA StreamCalls ==
  ASSUME ApiType, NEW r \in Stream, Streamed(r), place[r] = "turn", place' = place,
         client' = client, reply' = reply, aShown' = aShown, aSaid' = aSaid,
         IF client[r] = "waiting" THEN wire'[r] = Append(wire[r], 0) ELSE wire'[r] = wire[r],
         Past(r)'
  PROVE  Streamed(r)'
<1> DEFINE w == wire[r]
           h == Len(aShown[r])
           wn == wire'[r]
           live == client[r] = "waiting"
           rest(n) == \A i \in (n + 1)..Len(aSaid[r]) : aSaid[r][i] # 1
<1>1. w \in Seq(Nat) /\ h \in Nat /\ Len(w) \in Nat /\ Len(aSaid[r]) \in Nat
  BY DEF ApiType, Api!Requests
<1>2. live => Len(wn) = Len(w) + 1 /\ wn[Len(w) + 1] = 0 /\ \A i \in 1..Len(w) : wn[i] = w[i]
  <2>1. \A i \in 1..Len(w) : Append(w, 0)[i] = w[i] BY <1>1, Appended
  <2>2. Len(Append(w, 0)) = Len(w) + 1 /\ Append(w, 0)[Len(w) + 1] = 0 BY <1>1, Appended
  <2>3. live => wn = Append(w, 0) OBVIOUS
  <2> HIDE DEF live, w, wn
  <2> QED BY <2>1, <2>2, <2>3
<1>3. \A n : Rest(r, n) <=> rest(n) BY DEF Rest
<1>4. \A n : Rest(r, n)' <=> rest(n) BY DEF Rest
<1>5. ASSUME live PROVE \E k \in Nat : Flows(r, k)'
  <2>1. PICK k \in Nat : Flows(r, k) BY <1>5 DEF Streamed
  <2>2. /\ k <= Len(w) /\ h + k <= Len(aSaid[r])
        /\ \A i \in 1..k : w[i] # 0 /\ aSaid[r][h + i] = w[i]
        /\ k = Len(w) => Len(aSaid[r]) = h + k
        /\ k # Len(w) => w[k + 1] = 0 /\ rest(h + k)
    BY <2>1 DEF Flows, Rest
  <2>3. /\ k <= Len(wn) /\ h + k <= Len(aSaid[r])
        /\ \A i \in 1..k : wn[i] # 0 /\ aSaid[r][h + i] = wn[i]
        /\ k # Len(wn) /\ wn[k + 1] = 0 /\ rest(h + k)
        => Flows(r, k)'
    BY DEF Flows, Rest
  <2>4. k = Len(w) => rest(h + k)
    <3> SUFFICES ASSUME k = Len(w), NEW i \in (h + k + 1)..Len(aSaid[r]) PROVE FALSE
      OBVIOUS
    <3>1. Len(aSaid[r]) = h + k /\ h \in Nat BY <1>1, <2>2
    <3> HIDE DEF h
    <3> QED BY <3>1
  <2> HIDE DEF w, h, wn, live, rest
  <2>5. \A i \in 1..k : i \in 1..Len(w) BY <1>1, <2>2
  <2>6. \A i \in 1..k : wn[i] # 0 /\ aSaid[r][h + i] = wn[i] BY <1>2, <1>5, <2>2, <2>5
  <2>7. Len(wn) = Len(w) + 1 BY <1>2, <1>5
  <2>8. k <= Len(wn) /\ k # Len(wn) BY <1>1, <2>2, <2>7
  <2>9. wn[k + 1] = 0
    <3>1. CASE k = Len(w) BY <1>2, <1>5, <3>1
    <3>2. CASE k # Len(w)
      <4>1. k + 1 \in 1..Len(w) BY <1>1, <2>2, <3>2
      <4> QED BY <1>2, <1>5, <2>2, <3>2, <4>1
    <3> QED BY <3>1, <3>2
  <2>10. rest(h + k) BY <2>2, <2>4
  <2> QED BY <2>2, <2>3, <2>6, <2>8, <2>9, <2>10
<1>6. reply[r].kind = "stop" => rest(h) BY <1>3 DEF Streamed
<1>7. Rest(r, Len(aShown[r]))' <=> rest(h) BY DEF Rest
<1>8. reply'[r].kind = "stop" => Rest(r, Len(aShown[r]))' BY <1>6, <1>7
<1> QED BY <1>5, <1>8 DEF Streamed, Early, Late

LEMMA EndCallKeeps ==
  ASSUME ApiInv, NEW u \in Api!Users, Api!EndCall(u)
  PROVE  ApiInv'
<1> DEFINE t == session[u].turn
           r == t.of
<1>1. /\ t.state \in {"silent", "spoke"} /\ Api!Emit(r, 0)
      /\ \/ session' = [session EXCEPT ![u].turn.call = t.call + 1, ![u].turn.state = "silent"]
         \/ session' = [session EXCEPT ![u].turn.state = "answering"]
      /\ UNCHANGED <<place, client, reply, pending, aSaid, aShown>>
  BY DEF Api!EndCall, Api!Turn, Api!InCall, Api!Done
<1>2. /\ r \in Api!Requests /\ Api!Key(r) = u /\ place[r] = "turn" /\ t.call \in Nat /\ t.call # 0
  BY <1>1, TurnOf
<1>3. session \in [Api!Users -> Sessions] BY DEF ApiInv, ApiType
<1>4. /\ session' \in [Api!Users -> Sessions] /\ session'[u].queue = session[u].queue
      /\ session'[u].turn.of = r /\ session'[u].turn.call # 0
      /\ session'[u].turn.state \in InCall => session'[u].turn.call # 1
      /\ \A v \in Api!Users : v # u => session'[v] = session[v]
  <2>1. CASE session' = [session EXCEPT ![u].turn.state = "answering"]
    <3>1. /\ session' \in [Api!Users -> Sessions] /\ session'[u].queue = session[u].queue
          /\ session'[u].turn.of = r /\ session'[u].turn.call = t.call
          /\ session'[u].turn.state = "answering"
          /\ \A v \in Api!Users : v # u => session'[v] = session[v]
      BY <1>3, <2>1 DEF Sessions, Turns
    <3> QED BY <1>2, <3>1 DEF InCall
  <2>2. CASE session' = [session EXCEPT ![u].turn.call = t.call + 1, ![u].turn.state = "silent"]
    <3>1. t.call + 1 \in Nat /\ t.call + 1 # 0 /\ t.call + 1 # 1 BY <1>2
    <3> DEFINE c == t.call + 1
    <3> HIDE DEF c
    <3>2. session' = [session EXCEPT ![u].turn.call = c, ![u].turn.state = "silent"]
      BY <2>2 DEF c
    <3>3. c \in Nat /\ c # 0 /\ c # 1 BY <3>1 DEF c
    <3>4. PICK s : s = [session EXCEPT ![u].turn.call = c] OBVIOUS
    <3>5. /\ s \in [Api!Users -> Sessions] /\ s[u].queue = session[u].queue
          /\ s[u].turn.of = r /\ s[u].turn.call = c
          /\ \A v \in Api!Users : v # u => s[v] = session[v]
      BY <1>3, <3>3, <3>4 DEF Sessions, Turns
    <3>6. session' = [s EXCEPT ![u].turn.state = "silent"] BY <3>2, <3>4
    <3>7. /\ session' \in [Api!Users -> Sessions] /\ session'[u].queue = s[u].queue
          /\ session'[u].turn.of = s[u].turn.of /\ session'[u].turn.call = s[u].turn.call
          /\ \A v \in Api!Users : v # u => session'[v] = s[v]
      <4>1. s \in [Api!Users -> Sessions] /\ s[u] \in Sessions BY <3>5
      <4>2. PICK e : e = [s[u] EXCEPT !.turn.state = "silent"] OBVIOUS
      <4>3. /\ e \in Sessions /\ e.queue = s[u].queue
            /\ e.turn.of = s[u].turn.of /\ e.turn.call = s[u].turn.call
        BY <4>1, <4>2 DEF Sessions, Turns
      <4>4. session' = [s EXCEPT ![u] = e] BY <3>6, <4>2
      <4> QED BY <4>1, <4>3, <4>4
    <3> QED BY <3>3, <3>5, <3>7
  <2> QED BY <1>1, <2>1, <2>2
<1>5. Seated' /\ \A x \in Stream : x # r /\ Past(x) => Past(x)'
  BY <1>1, <1>2, <1>4, TurnMoves
<1>6. /\ wire' \in [Stream -> Seq(Nat)]
      /\ \A x \in Stream : IF x = r /\ client[r] = "waiting"
                           THEN wire'[x] = Append(wire[x], 0) ELSE wire'[x] = wire[x]
  BY <1>1, <1>2, EmitEach
<1>7. ApiType' BY <1>1, <1>4, <1>6 DEF ApiInv, ApiType
<1>8. \A x \in Api!Requests : Dealt(x)' BY <1>1, DealtKept DEF ApiInv
<1>9. \A x \in Stream : Streamed(x)'
  <2> SUFFICES ASSUME NEW x \in Stream PROVE Streamed(x)'
    OBVIOUS
  <2>1. CASE x # r
    <3>1. wire'[x] = wire[x] BY <1>6, <2>1
    <3> QED BY <1>1, <1>5, <2>1, <3>1, StreamKept DEF ApiInv
  <2>2. CASE x = r
    <3>1. Past(x)' BY <1>2, <1>4, <2>2 DEF Past
    <3>2. Streamed(x) /\ ApiType /\ place[x] = "turn" BY <1>2, <2>2 DEF ApiInv
    <3>3. IF client[x] = "waiting" THEN wire'[x] = Append(wire[x], 0) ELSE wire'[x] = wire[x]
      BY <1>6, <2>2
    <3> HIDE DEF t
    <3> QED BY <1>1, <3>1, <3>2, <3>3, StreamCalls
  <2> QED BY <2>1, <2>2
<1> QED BY <1>5, <1>7, <1>8, <1>9 DEF ApiInv

LEMMA FailTurnKeeps ==
  ASSUME ApiInv, NEW u \in Api!Users, Api!FailTurn(u)
  PROVE  ApiInv'
<1> DEFINE t == session[u].turn
<1>1. /\ t.state \in {"silent", "spoke"}
      /\ session' = [session EXCEPT ![u].turn.state = "failed"]
      /\ UNCHANGED <<place, client, reply, pending, aSaid, wire, aShown>>
  BY DEF Api!FailTurn, Api!Turn, Api!InCall
<1>2. t.of \in Api!Requests /\ Api!Key(t.of) = u /\ t.call \in Nat /\ t.call # 0
  BY <1>1, TurnOf
<1>3. session \in [Api!Users -> Sessions] BY DEF ApiInv, ApiType
<1>4. /\ session' \in [Api!Users -> Sessions] /\ session'[u].queue = session[u].queue
      /\ session'[u].turn.of = t.of /\ session'[u].turn.call # 0
      /\ session'[u].turn.state = "failed"
      /\ \A v \in Api!Users : v # u => session'[v] = session[v]
  BY <1>1, <1>2, <1>3 DEF Sessions, Turns
<1>5. Seated' /\ \A x \in Stream : x # t.of /\ Past(x) => Past(x)'
  BY <1>1, <1>4, TurnMoves
<1>6. ApiType' BY <1>1, <1>4 DEF ApiInv, ApiType
<1>7. \A x \in Api!Requests : Dealt(x)' BY <1>1, DealtKept DEF ApiInv
<1>8. \A x \in Stream : Streamed(x)'
  <2> SUFFICES ASSUME NEW x \in Stream PROVE Streamed(x)'
    OBVIOUS
  <2>1. x = t.of => Past(x)' BY <1>2, <1>4 DEF Past, InCall
  <2> QED BY <1>1, <1>5, <2>1, StreamKept DEF ApiInv
<1> QED BY <1>5, <1>6, <1>7, <1>8 DEF ApiInv

\* The answer is given to the handler that waits for it.
LEMMA AnswerKeeps ==
  ASSUME ApiInv, NEW u \in Api!Users, Api!Answer(u)
  PROVE  ApiInv'
<1> DEFINE t == session[u].turn
           r == t.of
           W == {r} \cap (pending \cup Plain)
<1>1. /\ t.state \in {"answering", "failed"}
      /\ client' = [x \in Api!Requests |-> IF x \in W /\ client[x] = "waiting" THEN "told" ELSE client[x]]
      /\ reply' = [x \in Api!Requests |-> IF x \in W /\ client[x] = "waiting"
                                          THEN [kind |-> "answer", of |-> r] ELSE reply[x]]
      /\ pending' = pending \ W
      /\ place' = [place EXCEPT ![r] = IF t.state = "failed" THEN "failed" ELSE "answered"]
      /\ session' = [session EXCEPT ![u].turn = Api!NoTurn]
      /\ UNCHANGED <<aSaid, wire, aShown>>
  BY DEF Api!Answer, Api!Turn, Api!Waiters, Api!Waits
<1>2. r \in Api!Requests /\ Api!Key(r) = u /\ place[r] = "turn"
  BY <1>1, TurnOf
<1>3. session \in [Api!Users -> Sessions] BY DEF ApiInv, ApiType
<1>4. Api!NoTurn \in Turns /\ Api!NoTurn.state = "idle" BY DEF Api!NoTurn, Turns
<1>5. /\ session' \in [Api!Users -> Sessions] /\ session'[u].queue = session[u].queue
      /\ session'[u].turn = Api!NoTurn
      /\ \A v \in Api!Users : v # u => session'[v] = session[v]
  BY <1>1, <1>3, <1>4 DEF Sessions
<1>6. place'[r] \in {"answered", "failed"} /\ \A x \in Api!Requests : x # r => place'[x] = place[x]
  BY <1>1, <1>2 DEF ApiInv, ApiType
<1>7. /\ \A x \in Api!Requests : x # r => client'[x] = client[x] /\ reply'[x] = reply[x]
      /\ IF r \in W /\ client[r] = "waiting"
         THEN client'[r] = "told" /\ reply'[r].of = r /\ reply'[r].kind = "answer"
         ELSE client'[r] = client[r] /\ reply'[r] = reply[r]
  BY <1>1, <1>2
<1>8. ApiType'
  <2>1. [kind |-> "answer", of |-> r] \in Bodies BY <1>2 DEF Bodies
  <2>2. reply' \in [Api!Requests -> Bodies]
    <3>1. \A x \in Api!Requests : reply[x] \in Bodies BY DEF ApiInv, ApiType
    <3> HIDE DEF W, r, t
    <3> QED BY <1>1, <2>1, <3>1
  <2>3. client' \in [Api!Requests -> {"new", "waiting", "told", "gone"}]
    BY <1>1 DEF ApiInv, ApiType
  <2>4. place' \in [Api!Requests -> Early \cup Late]
    BY <1>1 DEF ApiInv, ApiType, Late
  <2>5. pending' \subseteq Chat BY <1>1 DEF ApiInv, ApiType
  <2> QED BY <1>1, <1>5, <2>2, <2>3, <2>4, <2>5 DEF ApiInv, ApiType
<1>9. Seated'
  <2> SUFFICES ASSUME NEW v \in Api!Users PROVE Queued(v)' /\ HasTurn(v)'
    BY DEF Seated
  <2>1. Queued(v) /\ HasTurn(v) /\ session[v].queue \in Seq(Api!Requests)
    BY Seat DEF ApiInv, Seated
  <2>2. session'[v].queue = session[v].queue BY <1>5
  <2>3. \A i \in 1..Len(session[v].queue) :
          session[v].queue[i] \in Api!Requests /\ session[v].queue[i] # r
    BY <1>2, <2>1 DEF Queued
  <2>4. Queued(v)'
    <3> HIDE DEF r
    <3> QED BY <1>6, <2>1, <2>2, <2>3 DEF Queued
  <2>5. HasTurn(v)'
    <3>1. CASE v = u BY <1>4, <1>5, <3>1 DEF HasTurn
    <3>2. CASE v # u
      <4>1. session'[v].turn = session[v].turn BY <1>5, <3>2
      <4>2. session[v].turn.state # "idle" => session[v].turn.of # r BY <1>2, <2>1, <3>2 DEF HasTurn
      <4> QED BY <1>6, <2>1, <4>1, <4>2 DEF HasTurn
    <3> QED BY <3>1, <3>2
  <2> QED BY <2>4, <2>5
<1>10. \A x \in Api!Requests : Dealt(x)'
  <2> SUFFICES ASSUME NEW x \in Api!Requests PROVE Dealt(x)'
    OBVIOUS
  <2>1. CASE x = r
    <3>1. Dealt(x) /\ client[x] \in {"new", "waiting", "told", "gone"} BY DEF ApiInv, ApiType
    <3>2. client[x] \in {"waiting", "told", "gone"} BY <1>2, <2>1, <3>1 DEF Dealt
    <3>3. x \notin pending' BY <1>1, <2>1
    <3>4. x \in Plain => client'[x] \in {"told", "gone"} BY <1>7, <2>1, <3>2
    <3>5. client'[x] # "new" /\ reply'[x].of \in {"none", x} BY <1>7, <2>1, <3>1, <3>2 DEF Dealt
    <3> QED BY <3>3, <3>4, <3>5 DEF Dealt
  <2>2. CASE x # r BY <1>1, <1>6, <1>7, <2>2, DealtKept DEF ApiInv
  <2> QED BY <2>1, <2>2
<1>11. \A x \in Stream : Streamed(x)'
  <2> SUFFICES ASSUME NEW x \in Stream PROVE Streamed(x)'
    OBVIOUS
  <2>1. x \in Api!Requests /\ Api!Key(x) \in Api!Users /\ x \notin pending \cup Plain
    BY Keys, ChatAssumption DEF Api!Requests, ApiInv, ApiType, Api!ApiAssumption
  <2>2. client'[x] = client[x] /\ reply'[x] = reply[x] BY <1>7, <2>1
  <2>3. /\ place'[x] \in Early => place[x] \in Early
        /\ place[x] \in Late => place'[x] \in Late
    BY <1>2, <1>6, <2>1 DEF Early, Late
  <2>4. Past(x) => Past(x)' BY <1>4, <1>5, <2>1 DEF Past, InCall
  <2> QED BY <1>1, <2>2, <2>3, <2>4, StreamKept DEF ApiInv
<1> QED BY <1>8, <1>9, <1>10, <1>11 DEF ApiInv

\* The task of a stream shows what is next on its wire.
LEMMA ShowKeeps ==
  ASSUME ApiInv, NEW r \in Stream, Api!Show(r)
  PROVE  ApiInv'
<1> DEFINE s == aSaid[r]
           w == wire[r]
           h == Len(aShown[r])
           x == Head(w)
<1>1. /\ client[r] = "waiting" /\ w # <<>> /\ x # 0
      /\ aShown' = [aShown EXCEPT ![r] = Append(aShown[r], x)]
      /\ wire' = [wire EXCEPT ![r] = Tail(w)]
      /\ UNCHANGED <<place, client, reply, pending, session, aSaid>>
  BY DEF Api!Show, Api!Listens, Api!Waits, Api!Done
<1>2. /\ s \in Seq(Nat) /\ w \in Seq(Nat) /\ aShown[r] \in Seq(Nat)
      /\ wire \in [Stream -> Seq(Nat)] /\ aShown \in [Stream -> Seq(Nat)]
  BY DEF ApiInv, ApiType, Api!Requests
<1>3. /\ x = w[1] /\ x \in Nat /\ Len(w) \in Nat /\ Len(w) > 0 /\ Tail(w) \in Seq(Nat)
      /\ Len(Tail(w)) = Len(w) - 1 /\ \A i \in 1..(Len(w) - 1) : Tail(w)[i] = w[i + 1]
  BY <1>1, <1>2
<1>4. /\ Append(aShown[r], x) \in Seq(Nat) /\ h \in Nat /\ Len(Append(aShown[r], x)) = h + 1
      /\ \A i \in 1..h : Append(aShown[r], x)[i] = aShown[r][i]
      /\ Append(aShown[r], x)[h + 1] = x
  BY <1>2, <1>3, Appended
<1>5. /\ wire'[r] = Tail(w) /\ aShown'[r] = Append(aShown[r], x)
      /\ wire' \in [Stream -> Seq(Nat)] /\ aShown' \in [Stream -> Seq(Nat)]
      /\ \A y \in Stream : y # r => wire'[y] = wire[y] /\ aShown'[y] = aShown[y]
  BY <1>1, <1>2, <1>3, <1>4
<1>6. ApiType' BY <1>1, <1>5 DEF ApiInv, ApiType
<1>7. Seated' BY <1>1, SeatsKept DEF ApiInv
<1>8. \A y \in Api!Requests : Dealt(y)' BY <1>1, DealtKept DEF ApiInv
<1>9. \A y \in Stream : Past(y) => Past(y)' BY <1>1 DEF Past
<1>10. Streamed(r)'
  <2> DEFINE hn == Len(aShown'[r])
             wn == wire'[r]
             rest(n) == \A i \in (n + 1)..Len(s) : s[i] # 1
  <2>1. Streamed(r) BY DEF ApiInv
  <2>2. PICK k \in Nat : Flows(r, k) BY <1>1, <2>1 DEF Streamed
  <2>3. /\ k <= Len(w) /\ h + k <= Len(s) /\ \A i \in 1..k : w[i] # 0 /\ s[h + i] = w[i]
        /\ k = Len(w) => Len(s) = h + k
        /\ k # Len(w) => w[k + 1] = 0 /\ rest(h + k) /\ Past(r)
    BY <2>2 DEF Flows, Rest
  <2>4. \A m \in Nat :
          /\ m <= Len(wn) /\ hn + m <= Len(s) /\ \A i \in 1..m : wn[i] # 0 /\ s[hn + i] = wn[i]
          /\ m = Len(wn) => Len(s) = hn + m
          /\ m # Len(wn) => wn[m + 1] = 0 /\ rest(hn + m) /\ Past(r)'
          => Flows(r, m)'
    BY <1>1 DEF Flows, Rest
  <2>5. /\ h <= Len(s) /\ \A i \in 1..h : aShown[r][i] = s[i]
        /\ reply[r].kind = "stop" => rest(h) /\ Past(r) /\ place[r] \in Late
        /\ place[r] \notin Early
    BY <1>1, <2>1 DEF Streamed, Rest
  <2>6. /\ hn <= Len(s) /\ \A i \in 1..hn : aShown'[r][i] = s[i]
        /\ client[r] = "waiting" => \E m \in Nat : Flows(r, m)'
        /\ reply[r].kind = "stop" => rest(hn) /\ Past(r)' /\ place[r] \in Late
        => Streamed(r)'
    BY <1>1, <2>5 DEF Streamed, Rest
  <2>7. hn = h + 1 /\ aShown'[r][h + 1] = x /\ \A i \in 1..h : aShown'[r][i] = aShown[r][i]
    BY <1>4, <1>5
  <2>8. Len(wn) = Len(w) - 1 /\ \A i \in 1..(Len(w) - 1) : wn[i] = w[i + 1]
    BY <1>3, <1>5
  <2>9. Len(s) \in Nat BY <1>2
  <2> HIDE DEF s, w, h, hn, wn, x
  <2>10. k # 0
    <3> SUFFICES ASSUME k = 0 PROVE FALSE
      OBVIOUS
    <3>1. k # Len(w) /\ k + 1 = 1 BY <1>3
    <3> QED BY <1>1, <1>3, <2>3, <3>1
  <2>11. k - 1 \in Nat /\ k - 1 + 1 = k /\ 1 \in 1..k BY <2>10
  <2>12. s[h + 1] = x BY <1>3, <2>3, <2>11
  <2>13. hn <= Len(s)
    <3>1. h \in Nat /\ h + k <= Len(s) BY <1>4, <2>3
    <3> QED BY <2>7, <2>9, <2>10, <3>1
  <2>14. \A i \in 1..hn : aShown'[r][i] = s[i]
    <3>1. \A i \in 1..(h + 1) : i \in 1..h \/ i = h + 1 BY <1>4
    <3> QED BY <2>5, <2>7, <2>12, <3>1
  <2>15. Flows(r, k - 1)'
    <3>1. k - 1 <= Len(wn) /\ (k - 1 = Len(wn) <=> k = Len(w))
      <4>1. Len(w) \in Nat /\ k <= Len(w) /\ Len(wn) = Len(w) - 1 BY <1>3, <2>3, <2>8
      <4> QED BY <4>1
    <3>2. hn + (k - 1) = h + k BY <1>4, <2>7, <2>11
    <3>3. \A i \in 1..(k - 1) : i + 1 \in 1..k /\ i \in 1..(Len(w) - 1) /\ hn + i = h + (i + 1)
      <4>1. Len(w) \in Nat /\ k <= Len(w) /\ h \in Nat /\ hn = h + 1 BY <1>3, <1>4, <2>3, <2>7
      <4> QED BY <4>1
    <3>4. \A i \in 1..(k - 1) : wn[i] # 0 /\ s[hn + i] = wn[i]
      BY <2>3, <2>8, <3>3
    <3>5. k # Len(w) => wn[k - 1 + 1] = 0
      <4> SUFFICES ASSUME k # Len(w) PROVE wn[k] = 0
        BY <2>11
      <4>1. Len(w) \in Nat /\ k <= Len(w) BY <1>3, <2>3
      <4>2. k \in 1..(Len(w) - 1) BY <2>10, <4>1
      <4> QED BY <2>3, <2>8, <4>2
    <3> HIDE DEF rest
    <3> QED BY <1>9, <2>3, <2>4, <2>11, <3>1, <3>2, <3>4, <3>5
  <2>16. rest(h) => rest(hn)
    <3>1. \A i \in (hn + 1)..Len(s) : i \in (h + 1)..Len(s) BY <1>4, <2>7, <2>9
    <3> QED BY <3>1
  <2> HIDE DEF rest
  <2> QED BY <1>9, <2>5, <2>6, <2>11, <2>13, <2>14, <2>15, <2>16
<1>11. \A y \in Stream : Streamed(y)'
  <2> SUFFICES ASSUME NEW y \in Stream PROVE Streamed(y)'
    OBVIOUS
  <2>1. CASE y = r BY <1>10, <2>1
  <2>2. CASE y # r BY <1>1, <1>5, <1>9, <2>2, StreamKept DEF ApiInv
  <2> QED BY <2>1, <2>2
<1> QED BY <1>6, <1>7, <1>8, <1>11 DEF ApiInv

\* It ends at the first Done, or when nothing more can come.
LEMMA StopKeeps ==
  ASSUME ApiInv, NEW r \in Stream, Api!Stop(r)
  PROVE  ApiInv'
<1>1. /\ client[r] = "waiting" /\ client' = [client EXCEPT ![r] = "told"]
      /\ IF wire[r] = <<>> THEN place[r] \in {"lost", "answered", "failed"} ELSE Head(wire[r]) = 0
      /\ reply' = [reply EXCEPT ![r] = [kind |-> "stop", of |-> r]]
      /\ UNCHANGED <<place, pending, session, aSaid, wire, aShown>>
  BY DEF Api!Stop, Api!Listens, Api!Waits, Api!Close, Api!Over, Api!Done
<1>2. r \in Api!Requests /\ r \notin Chat /\ r \notin Plain
  BY ChatAssumption DEF Api!Requests, Api!ApiAssumption
<1>3. ApiType'
  <2>1. [kind |-> "stop", of |-> r] \in Bodies BY <1>2 DEF Bodies
  <2> QED BY <1>1, <2>1 DEF ApiInv, ApiType
<1>4. Seated' BY <1>1, SeatsKept DEF ApiInv
<1>5. /\ client'[r] = "told" /\ reply'[r].of = r
      /\ \A x \in Api!Requests : x # r => client'[x] = client[x] /\ reply'[x] = reply[x]
  BY <1>1, <1>2 DEF ApiInv, ApiType
<1>6. \A x \in Api!Requests : Dealt(x)'
  <2> SUFFICES ASSUME NEW x \in Api!Requests PROVE Dealt(x)'
    OBVIOUS
  <2>1. CASE x = r
    <3>1. r \notin pending BY <1>2 DEF ApiInv, ApiType
    <3> QED BY <1>1, <1>2, <1>5, <2>1, <3>1 DEF Dealt
  <2>2. CASE x # r BY <1>1, <1>5, <2>2, DealtKept DEF ApiInv
  <2> QED BY <2>1, <2>2
<1>7. \A x \in Stream : Past(x) => Past(x)' BY <1>1 DEF Past
<1>8. Rest(r, Len(aShown[r])) /\ Past(r) /\ place[r] \in Late
  <2>1. Streamed(r) /\ wire[r] \in Seq(Nat) /\ Len(aShown[r]) \in Nat /\ Len(aSaid[r]) \in Nat
        /\ place[r] \in Early \cup Late
    BY <1>2 DEF ApiInv, ApiType
  <2>2. PICK k \in Nat : Flows(r, k) BY <1>1, <2>1 DEF Streamed
  <2>3. CASE wire[r] = <<>>
    <3>1. k = 0 BY <2>2, <2>3 DEF Flows
    <3>2. Len(aSaid[r]) = Len(aShown[r]) BY <2>1, <2>2, <2>3, <3>1 DEF Flows
    <3>3. Rest(r, Len(aShown[r])) BY <2>1, <3>2 DEF Rest
    <3>4. Past(r)
      <4>1. HasTurn(Api!Key(r)) BY <1>2, Keys DEF ApiInv, Seated
      <4> QED BY <1>1, <2>3, <4>1 DEF HasTurn, Past, InCall
    <3> QED BY <1>1, <2>3, <3>3, <3>4 DEF Late
  <2>4. CASE wire[r] # <<>>
    <3>1. wire[r][1] = 0 /\ Len(wire[r]) # 0 BY <1>1, <2>1, <2>4
    <3>2. k = 0
      <4> SUFFICES ASSUME k # 0 PROVE FALSE
        OBVIOUS
      <4>1. 1 \in 1..k OBVIOUS
      <4> QED BY <2>2, <3>1, <4>1 DEF Flows
    <3>3. Rest(r, Len(aShown[r]) + 0) /\ Past(r) BY <2>2, <3>1, <3>2 DEF Flows
    <3>4. Len(aShown[r]) + 0 = Len(aShown[r]) BY <2>1
    <3>5. place[r] \in Late BY <2>1, <2>4 DEF Streamed
    <3> QED BY <3>3, <3>4, <3>5
  <2> QED BY <2>3, <2>4
<1>9. \A x \in Stream : Streamed(x)'
  <2> SUFFICES ASSUME NEW x \in Stream PROVE Streamed(x)'
    OBVIOUS
  <2>1. CASE x = r
    <3>1. Streamed(r) BY DEF ApiInv
    <3>2. Rest(r, Len(aShown[r]))' BY <1>1, <1>8 DEF Rest
    <3> QED BY <1>1, <1>5, <1>7, <1>8, <2>1, <3>1, <3>2 DEF Streamed
  <2>2. CASE x # r
    <3>1. x \in Api!Requests BY DEF Api!Requests
    <3> QED BY <1>1, <1>5, <1>7, <2>2, <3>1, StreamKept DEF ApiInv
  <2> QED BY <2>1, <2>2
<1> QED BY <1>3, <1>4, <1>6, <1>9 DEF ApiInv

LEMMA ApiGoesOn == ApiInv /\ Api!Next => ApiInv'
<1> SUFFICES ASSUME ApiInv, Api!Next PROVE ApiInv'
  OBVIOUS
<1>1. ASSUME NEW r \in Api!Requests,
             \/ Api!Invalid(r) \/ Api!Ask(r) \/ Api!Timeout(r) \/ Api!Leave(r)
             \/ Api!Refuse(r) \/ Api!Route(r) \/ Api!RouteDead(r)
      PROVE  ApiInv'
  BY <1>1, InvalidKeeps, AskKeeps, TimeoutKeeps, LeaveKeeps, RefuseKeeps, RouteKeeps, RouteDeadKeeps
<1>2. ASSUME NEW u \in Api!Users,
             \/ Api!Take(u) \/ Api!Say(u) \/ Api!EndCall(u) \/ Api!FailTurn(u)
             \/ Api!Answer(u) \/ Api!Panic(u)
      PROVE  ApiInv'
  BY <1>2, TakeKeeps, SayKeeps, EndCallKeeps, FailTurnKeeps, AnswerKeeps, PanicKeeps
<1>3. ASSUME NEW r \in Stream, Api!Show(r) \/ Api!Stop(r) PROVE ApiInv'
  BY <1>3, ShowKeeps, StopKeeps
<1> QED BY <1>1, <1>2, <1>3 DEF Api!Next

LEMMA ApiIsSound == ApiInv => Api!ApiSound
<1> SUFFICES ASSUME ApiInv PROVE Api!ApiSound
  OBVIOUS
<1>1. Api!OwnAnswer BY DEF Api!OwnAnswer, ApiInv, Dealt
<1>2. Api!PendingIsDue
  <2>1. pending \subseteq Api!Requests BY DEF ApiInv, ApiType, Api!Requests
  <2> QED BY <2>1 DEF Api!PendingIsDue, ApiInv, Dealt
<1>3. Api!PlainIsTold
  <2>1. Plain \subseteq Api!Requests BY DEF Api!Requests
  <2> QED BY <2>1 DEF Api!PlainIsTold, Api!Over, ApiInv, Dealt
<1>4. Api!ShowsWhatWasSaid
  <2> SUFFICES ASSUME NEW r \in Stream
               PROVE  /\ aShown[r] = SubSeq(aSaid[r], 1, Len(aShown[r]))
                      /\ reply[r].kind = "stop" =>
                           \A i \in 1..Len(aSaid[r]) : aSaid[r][i] = 1 => i <= Len(aShown[r])
    BY DEF Api!ShowsWhatWasSaid
  <2>1. Streamed(r) /\ aShown[r] \in Seq(Nat) /\ aSaid[r] \in Seq(Nat)
    BY DEF ApiInv, ApiType, Api!Requests
  <2> DEFINE h == Len(aShown[r])
             s == aSaid[r]
  <2>2. h \in Nat /\ Len(s) \in Nat /\ h <= Len(s) /\ \A i \in 1..h : aShown[r][i] = s[i]
    BY <2>1 DEF Streamed
  <2>3. aShown[r] = SubSeq(s, 1, h)
    <3>1. \A i \in 1..h : s[i] \in Nat BY <2>1, <2>2
    <3> HIDE DEF h, s
    <3>2. /\ SubSeq(s, 1, h) \in Seq(Nat) /\ Len(SubSeq(s, 1, h)) = h
          /\ \A i \in 1..h : SubSeq(s, 1, h)[i] = s[i]
      <4>1. h \in 0..Len(s) BY <2>2
      <4> QED BY <3>1, <4>1, Prefixed
    <3>3. Len(aShown[r]) = h BY DEF h
    <3> DEFINE a == aShown[r]
               b == SubSeq(s, 1, h)
    <3>4. a \in Seq(Nat) /\ b \in Seq(Nat) /\ Len(a) = Len(b) /\ \A i \in 1..Len(a) : a[i] = b[i]
      BY <2>1, <2>2, <3>2, <3>3
    <3> HIDE DEF a, b
    <3>5. a = b BY <3>4, SeqEqual
    <3> QED BY <3>5 DEF a, b
  <2>4. ASSUME reply[r].kind = "stop", NEW i \in 1..Len(s), s[i] = 1 PROVE i <= h
    <3>1. \A j \in (h + 1)..Len(s) : s[j] # 1 BY <2>1, <2>4 DEF Streamed, Rest
    <3> HIDE DEF h, s
    <3> QED BY <2>2, <2>4, <3>1
  <2> QED BY <2>3, <2>4
<1> QED BY <1>1, <1>2, <1>3, <1>4 DEF Api!ApiSound

\* Whatever a provider's server says, and wherever attempts and connections fail, the
\* answer of a request holds all that was said; and of the requests of the HTTP API, any
\* number of them, each is answered with its own turn's answer, none that is over leaves
\* its client waiting, and a stream shows what its turn said, in its order, up to the end
\* of the first call at least (providers, api_server).
THEOREM AnswerHolds == TalkSpec => []AnswerIsWhatWasSaid
<1> DEFINE Inv == ProviderInv /\ ApiInv
<1>1. TalkInit => Inv BY ProviderStarts, ApiStarts
<1>2. Inv /\ [TalkNext]_all => Inv'
  <2> SUFFICES ASSUME Inv, [TalkNext]_all PROVE Inv'
    OBVIOUS
  <2>1. ProviderInv'
    <3>1. Provider!Next \/ UNCHANGED chatVars BY DEF TalkNext, all
    <3> QED BY <3>1, RequestGoesOn, RequestKept
  <2>2. ApiInv'
    <3>1. Api!Next \/ UNCHANGED apiVars BY DEF TalkNext, all
    <3> QED BY <3>1, ApiGoesOn, ApiKept
  <2> QED BY <2>1, <2>2
<1>3. Inv => AnswerIsWhatWasSaid BY ApiIsSound DEF AnswerIsWhatWasSaid, ProviderInv
<1> QED BY <1>1, <1>2, <1>3, PTL DEF TalkSpec

----------------------------------------------------------------------------
(* What the operators of a transcript return (Transcript).  The recursive  *)
(* functions under FlattenSeq need induction: over a set of numbers it     *)
(* follows from the well-foundedness of inclusion between finite sets.     *)

LEMMA Least == \A T : T \subseteq Nat /\ T # {} => \E x \in T : \A y \in T : x <= y
<1> SUFFICES ASSUME NEW T, T \subseteq Nat, T # {} PROVE \E x \in T : \A y \in T : x <= y
  OBVIOUS
<1> DEFINE U == {0..k : k \in T}
<1>1. U \subseteq FiniteSubsetsOf(Nat) /\ U # {}
  <2>1. \A k \in T : IsFiniteSet(0..k) /\ 0..k \subseteq Nat BY FS_Interval
  <2> QED BY <2>1 DEF FiniteSubsetsOf
<1>2. \E u \in U : \A v \in U : <<v, u>> \notin StrictSubsetOrdering(Nat)
  BY <1>1, FS_StrictSubsetOrderingWellFounded, WFMin
<1>3. PICK x \in T : \A y \in T : <<0..y, 0..x>> \notin StrictSubsetOrdering(Nat) BY <1>2
<1>4. ASSUME NEW y \in T PROVE x <= y
  <2>1. 0..y \subseteq Nat /\ 0..x \subseteq Nat OBVIOUS
  <2>2. ~(0..y \subseteq 0..x /\ 0..y # 0..x) BY <1>3, <2>1 DEF StrictSubsetOrdering
  <2>3. ASSUME y < x PROVE FALSE
    <3>1. 0..y \subseteq 0..x BY <2>3
    <3>2. x \in 0..x /\ x \notin 0..y BY <2>3
    <3> QED BY <2>2, <3>1, <3>2
  <2> QED BY <2>3
<1> QED BY <1>4

LEMMA Induction ==
  \A S : 0 \in S /\ (\A n \in Nat : n \in S => n + 1 \in S) => Nat \subseteq S
<1> SUFFICES ASSUME NEW S, 0 \in S, \A n \in Nat : n \in S => n + 1 \in S PROVE Nat \subseteq S
  OBVIOUS
<1> DEFINE T == Nat \ S
<1>1. CASE T # {}
  <2>1. PICK x \in T : \A y \in T : x <= y BY <1>1, Least
  <2>2. x - 1 \in Nat /\ x - 1 \in S BY <2>1
  <2> QED BY <2>2
<1> QED BY <1>1

LEMMA Largest ==
  ASSUME NEW n \in Nat, NEW T, T \subseteq 0..n, T # {}
  PROVE  Max(T) \in T /\ \A y \in T : y <= Max(T)
<1> DEFINE U == {n - x : x \in T}
<1>1. U \subseteq Nat /\ U # {} OBVIOUS
<1>2. PICK u \in U : \A v \in U : u <= v BY <1>1, Least
<1>3. PICK x \in T : u = n - x BY <1>2
<1>4. \A y \in T : x >= y
  <2> SUFFICES ASSUME NEW y \in T PROVE x >= y
    OBVIOUS
  <2>1. n - x <= n - y BY <1>2, <1>3
  <2> QED BY <2>1
<1>5. \E z \in T : \A y \in T : z >= y BY <1>4
<1> QED BY <1>5 DEF Max

LEMMA Listed ==
  ASSUME NEW S, IsFiniteSet(S)
  PROVE  SetToSeq(S) \in [1..Cardinality(S) -> S] /\ Cardinality(S) \in Nat
<1>1. Cardinality(S) \in Nat /\ ExistsBijection(1..Cardinality(S), S) BY FS_CardinalityType
<1>2. \E f \in [1..Cardinality(S) -> S] : IsInjective(f)
  BY <1>1 DEF ExistsBijection, Bijection, Injection
<1>3. SetToSeq(S) \in [1..Cardinality(S) -> S] BY <1>2 DEF SetToSeq
<1> QED BY <1>1, <1>3

\* What the flattening of s is after its first i sequences.
Flat(s, n, f) == f = [i \in 1..n |-> IF i = 1 THEN s[i] ELSE f[i - 1] \o s[i]]

LEMMA FlatSteps ==
  ASSUME NEW S, NEW s \in Seq(Seq(S)), Len(s) # 0
  PROVE  \E c : /\ FlattenSeq(s) = c[Len(s)]
               /\ \A i \in 1..Len(s) : /\ c[i] \in Seq(S)
                                       /\ c[i] = IF i = 1 THEN s[i] ELSE c[i - 1] \o s[i]
<1> DEFINE n == Len(s)
           step(f, i) == IF i = 1 THEN s[i] ELSE f[i - 1] \o s[i]
           G(m) == \E f \in [1..m -> Seq(S)] : \A i \in 1..m : f[i] = step(f, i)
           I == {m \in Nat : m <= n => G(m)}
<1>1. n \in Nat /\ \A i \in 1..n : s[i] \in Seq(S) OBVIOUS
<1>2. 0 \in I
  <2>1. [i \in 1..0 |-> s[i]] \in [1..0 -> Seq(S)] OBVIOUS
  <2>2. \A i \in 1..0 : [j \in 1..0 |-> s[j]][i] = step([j \in 1..0 |-> s[j]], i) OBVIOUS
  <2> QED BY <2>1, <2>2
<1>3. ASSUME NEW m \in Nat, m + 1 <= n, G(m) PROVE G(m + 1)
  <2>1. PICK f \in [1..m -> Seq(S)] : \A i \in 1..m : f[i] = step(f, i) BY <1>3
  <2> DEFINE x == IF m = 0 THEN s[m + 1] ELSE f[m] \o s[m + 1]
             g == [i \in 1..(m + 1) |-> IF i = m + 1 THEN x ELSE f[i]]
  <2>2. x \in Seq(S)
    <3>1. s[m + 1] \in Seq(S) BY <1>1, <1>3
    <3>2. m # 0 => f[m] \in Seq(S) OBVIOUS
    <3> QED BY <3>1, <3>2
  <2>3. \A i \in 1..(m + 1) : i # m + 1 => i \in 1..m OBVIOUS
  <2>4. g \in [1..(m + 1) -> Seq(S)] BY <2>2, <2>3
  <2>5. ASSUME NEW i \in 1..(m + 1) PROVE g[i] = step(g, i)
    <3>1. CASE i = m + 1
      <4>1. CASE m = 0 BY <3>1, <4>1
      <4>2. CASE m # 0
        <5>1. m \in 1..(m + 1) /\ m # m + 1 /\ i # 1 /\ i - 1 = m BY <3>1, <4>2
        <5>2. g[m] = f[m] /\ g[i] = x BY <3>1, <5>1
        <5> QED BY <3>1, <4>2, <5>1, <5>2
      <4> QED BY <4>1, <4>2
    <3>2. CASE i # m + 1
      <4>1. i \in 1..m BY <3>2
      <4>2. g[i] = f[i] /\ f[i] = step(f, i) BY <2>1, <3>2, <4>1
      <4>3. CASE i = 1 BY <4>2, <4>3
      <4>4. CASE i # 1
        <5>1. i - 1 \in 1..(m + 1) /\ i - 1 # m + 1 BY <4>1, <4>4
        <5>2. g[i - 1] = f[i - 1] BY <5>1
        <5> QED BY <4>2, <4>4, <5>2
      <4> QED BY <4>3, <4>4
    <3> QED BY <3>1, <3>2
  <2> HIDE DEF g, step
  <2> QED BY <2>4, <2>5
<1>4. G(n)
  <2> HIDE DEF I, G
  <2>2. \A m \in Nat : m \in I => m + 1 \in I
    <3> HIDE DEF n
    <3> QED BY <1>1, <1>3 DEF I
  <2>1. n \in I BY <1>1, <1>2, <2>2, Induction
  <2> QED BY <1>1, <2>1 DEF I
<1>5. \E f : Flat(s, n, f)
  <2>1. PICK f \in [1..n -> Seq(S)] : \A i \in 1..n : f[i] = step(f, i) BY <1>4
  <2>2. f = [i \in 1..n |-> step(f, i)]
    <3> HIDE DEF step, n
    <3> QED BY <2>1
  <2> QED BY <2>2 DEF Flat
<1> DEFINE c == CHOOSE f : Flat(s, n, f)
<1>6. Flat(s, n, c) BY <1>5
<1>7. \A i \in 1..n : c[i] = IF i = 1 THEN s[i] ELSE c[i - 1] \o s[i]
  <2> HIDE DEF c, n
  <2> QED BY <1>6 DEF Flat
<1> DEFINE J == {m \in Nat : m \in 1..n => c[m] \in Seq(S)}
<1>8. Nat \subseteq J
  <2> HIDE DEF c, n
  <2>1. 0 \in J OBVIOUS
  <2>2. ASSUME NEW m \in Nat, m \in J PROVE m + 1 \in J
    <3> SUFFICES ASSUME m + 1 \in 1..n PROVE c[m + 1] \in Seq(S)
      OBVIOUS
    <3>1. s[m + 1] \in Seq(S) BY <1>1
    <3>2. CASE m = 0
      <4>1. c[1] = s[1] BY <1>7, <3>2
      <4> QED BY <3>1, <3>2, <4>1
    <3>3. CASE m # 0
      <4>1. m \in 1..n /\ m + 1 # 1 /\ m + 1 - 1 = m BY <1>1, <3>3
      <4>2. c[m] \in Seq(S) BY <2>2, <4>1
      <4>3. c[m + 1] = c[m] \o s[m + 1]
        <5>1. PICK k \in 1..n : k = m + 1 /\ k # 1 /\ k - 1 = m BY <4>1
        <5>2. c[k] = c[k - 1] \o s[k] BY <1>7, <5>1
        <5> QED BY <5>1, <5>2
      <4> QED BY <3>1, <4>2, <4>3
    <3> QED BY <3>2, <3>3
  <2> HIDE DEF J
  <2> QED BY <2>1, <2>2, Induction
<1>9. FlattenSeq(s) = c[n] BY DEF FlattenSeq, Flat
<1>10. \A i \in 1..n : c[i] \in Seq(S)
  <2> HIDE DEF c, n
  <2> QED BY <1>8
<1> HIDE DEF c
<1> QED BY <1>7, <1>9, <1>10

LEMMA Flattened ==
  ASSUME NEW S, NEW s \in Seq(Seq(S))
  PROVE  FlattenSeq(s) \in Seq(S)
<1>1. CASE Len(s) = 0
  <2>1. s = <<>> BY <1>1
  <2> QED BY <1>1, <2>1 DEF FlattenSeq
<1>2. CASE Len(s) # 0
  <2>1. Len(s) \in 1..Len(s) BY <1>2
  <2> QED BY <1>2, <2>1, FlatSteps
<1> QED BY <1>1, <1>2

----------------------------------------------------------------------------
(* The conversation at the prompt (ReplConversation).                      *)

\* A sequence of messages; the calls in them are calls that can be made.
Talk(S) == \A m \in S : m.calls \subseteq Repl!CallIds
IsTalk(h) == \E S : Talk(S) /\ h \in Seq(S)

LEMMA SameFlat == \A s : Repl!FlattenSeq(s) = FlattenSeq(s)
BY DEF FlattenSeq, Repl!FlattenSeq

LEMMA SameSize == \A S : Repl!Cardinality(S) = Cardinality(S)
BY DEF Cardinality, Repl!Cardinality

LEMMA SameListed == \A S : Repl!SetToSeq(S) = SetToSeq(S)
<1> SUFFICES ASSUME NEW S PROVE Repl!SetToSeq(S) = SetToSeq(S)
  OBVIOUS
<1>1. Repl!Cardinality(S) = Cardinality(S) BY SameSize
<1> QED BY <1>1 DEF SetToSeq, Repl!SetToSeq, IsInjective, Repl!IsInjective

LEMMA SameLargest == \A S : Repl!Max(S) = Max(S)
BY DEF Max, Repl!Max

LEMMA TalkOne ==
  ASSUME NEW m, m.calls \subseteq Repl!CallIds
  PROVE  IsTalk(<<m>>)
<1>1. <<m>> \in Seq({m}) OBVIOUS
<1> QED BY <1>1 DEF IsTalk, Talk

LEMMA TalkNone == IsTalk(<<>>)
<1>1. <<>> \in Seq({}) OBVIOUS
<1> QED BY <1>1 DEF IsTalk, Talk

LEMMA Together ==
  ASSUME NEW h, NEW g, IsTalk(h), IsTalk(g)
  PROVE  \E S : Talk(S) /\ h \in Seq(S) /\ g \in Seq(S)
<1>1. PICK S : Talk(S) /\ h \in Seq(S) BY DEF IsTalk
<1>2. PICK T : Talk(T) /\ g \in Seq(T) BY DEF IsTalk
<1>3. Talk(S \cup T) BY <1>1, <1>2 DEF Talk
<1>4. h \in Seq(S \cup T)
  <2>1. Len(h) \in Nat /\ h \in [1..Len(h) -> S] BY <1>1
  <2>2. h \in [1..Len(h) -> S \cup T] BY <2>1
  <2> QED BY <2>1, <2>2
<1>5. g \in Seq(S \cup T)
  <2>1. Len(g) \in Nat /\ g \in [1..Len(g) -> T] BY <1>2
  <2>2. g \in [1..Len(g) -> S \cup T] BY <2>1
  <2> QED BY <2>1, <2>2
<1> QED BY <1>3, <1>4, <1>5

LEMMA TalkJoined ==
  ASSUME NEW h, NEW g, IsTalk(h), IsTalk(g)
  PROVE  IsTalk(h \o g)
<1>1. PICK S : Talk(S) /\ h \in Seq(S) /\ g \in Seq(S) BY Together
<1>2. h \o g \in Seq(S) BY <1>1
<1> QED BY <1>1, <1>2 DEF IsTalk

LEMMA TalkAdded ==
  ASSUME NEW h, NEW m, IsTalk(h), m.calls \subseteq Repl!CallIds
  PROVE  IsTalk(Append(h, m)) /\ Append(h, m) = h \o <<m>>
<1>1. PICK S : Talk(S) /\ h \in Seq(S) /\ <<m>> \in Seq(S) BY TalkOne, Together
<1>2. <<m>>[1] \in S BY <1>1
<1>3. Append(h, m) \in Seq(S) BY <1>1, <1>2
<1>4. Append(h, m) = h \o <<m>> BY <1>1, <1>2
<1> QED BY <1>1, <1>3, <1>4 DEF IsTalk

LEMMA TalkCut ==
  ASSUME NEW h, IsTalk(h), NEW m \in Nat, NEW n \in Nat, m # 0, n <= Len(h)
  PROVE  /\ IsTalk(SubSeq(h, m, n))
         /\ Len(SubSeq(h, m, n)) = IF m <= n THEN n - m + 1 ELSE 0
         /\ \A i \in 1..(n - m + 1) : SubSeq(h, m, n)[i] = h[m + i - 1]
<1>1. PICK S : Talk(S) /\ h \in Seq(S) BY DEF IsTalk
<1>2. \A i \in m..n : h[i] \in S
  <2> SUFFICES ASSUME NEW i \in m..n PROVE h[i] \in S
    OBVIOUS
  <2>1. Len(h) \in Nat BY <1>1
  <2>2. i \in 1..Len(h) BY <2>1
  <2> QED BY <1>1, <2>2
<1>3. /\ SubSeq(h, m, n) \in Seq(S)
      /\ Len(SubSeq(h, m, n)) = IF m <= n THEN n - m + 1 ELSE 0
      /\ \A i \in 1..(n - m + 1) : SubSeq(h, m, n)[i] = h[m + i - 1]
  BY <1>2, SubSeqProperties
<1> QED BY <1>1, <1>3 DEF IsTalk

LEMMA TalkIs ==
  ASSUME NEW h, IsTalk(h)
  PROVE  /\ Len(h) \in Nat /\ DOMAIN h = 1..Len(h)
         /\ \A i \in 1..Len(h) : h[i].calls \subseteq Repl!CallIds
<1>1. PICK S : Talk(S) /\ h \in Seq(S) BY DEF IsTalk
<1>2. Len(h) \in Nat /\ DOMAIN h = 1..Len(h) BY <1>1
<1>3. \A i \in 1..Len(h) : h[i] \in S BY <1>1
<1> QED BY <1>1, <1>2, <1>3 DEF Talk

\* What a compressed history is made of.
LEMMA TalkSanitized ==
  ASSUME NEW h, IsTalk(h)
  PROVE  IsTalk(Repl!SanitizeToolPairs(h))
<1>1. PICK S : Talk(S) /\ h \in Seq(S) BY DEF IsTalk
<1>2. DOMAIN h = 1..Len(h) /\ Len(h) \in Nat /\ \A i \in DOMAIN h : h[i] \in S BY <1>1
<1> DEFINE D == {Repl!ToolResult(Repl!Synthetic, c) : c \in Repl!CallIds}
           T == S \cup D
<1>3. Talk(T)
  <2>1. \A m \in D : m.calls = {} BY DEF Repl!ToolResult
  <2> QED BY <1>1, <2>1 DEF Talk
<1>4. ASSUME NEW i \in DOMAIN h PROVE Repl!Sanitized(h, h[i]) \in Seq(T)
  <2> DEFINE C == h[i].calls \ Repl!Answered(h)
             u == Repl!Unanswered(h, h[i])
  <2>1. h[i] \in S /\ C \subseteq Repl!CallIds BY <1>1, <1>2 DEF Talk
  <2>2. u = SetToSeq(C) BY SameListed DEF Repl!Unanswered
  <2>3. IsFiniteSet(C)
    <3>1. IsFiniteSet(1..ReplCalls) BY ReplAssumption, FS_Interval DEF Repl!LoopAssumption
    <3> QED BY <2>1, <3>1, FS_Subset DEF Repl!CallIds
  <2>4. u \in [1..Cardinality(C) -> C] /\ Cardinality(C) \in Nat BY <2>2, <2>3, Listed
  <2> HIDE DEF u, C
  <2>5. \A c \in DOMAIN u : Repl!ToolResult(Repl!Synthetic, u[c]) \in D BY <2>1, <2>4
  <2> DEFINE r == [c \in DOMAIN u |-> Repl!ToolResult(Repl!Synthetic, u[c])]
  <2>6. r \in Seq(T)
    <3> HIDE DEF D
    <3>1. r \in [1..Cardinality(C) -> T] BY <2>4, <2>5
    <3> QED BY <2>4, <3>1
  <2>7. <<h[i]>> \in Seq(T) BY <2>1
  <2>8. <<h[i]>> \o r \in Seq(T)
    <3> HIDE DEF r, T
    <3> QED BY <2>6, <2>7
  <2>9. <<>> \in Seq(T) OBVIOUS
  <2>10. Repl!Sanitized(h, h[i]) \in {<<>>, <<h[i]>> \o r} BY DEF Repl!Sanitized, u
  <2> QED BY <2>8, <2>9, <2>10
<1> HIDE DEF T
<1> DEFINE s == [i \in DOMAIN h |-> Repl!Sanitized(h, h[i])]
<1>5. s \in Seq(Seq(T))
  <2>1. s \in [1..Len(h) -> Seq(T)] BY <1>2, <1>4
  <2> QED BY <1>2, <2>1
<1>6. FlattenSeq(s) \in Seq(T)
  <2> HIDE DEF s
  <2> QED BY <1>5, Flattened
<1>7. Repl!SanitizeToolPairs(h) = FlattenSeq(s) BY SameFlat DEF Repl!SanitizeToolPairs
<1> QED BY <1>3, <1>6, <1>7 DEF IsTalk

LEMMA TalkCompressed ==
  ASSUME NEW h, IsTalk(h), NEW g \in Repl!Compressions(h, ReplProtected)
  PROVE  IsTalk(g)
<1>1. CASE g = h BY <1>1
<1>2. CASE g # h
  <2>1. PICK raw \in DOMAIN h : LET t == Repl!TailStart(h, raw) IN
          /\ t > ReplProtected + 1
          /\ g = Repl!SanitizeToolPairs(Repl!Summarized(h, ReplProtected, t))
    BY <1>2 DEF Repl!Compressions, Repl!Tails
  <2> DEFINE t == Repl!TailStart(h, raw)
             n == Len(h)
  <2>2. n \in Nat /\ raw \in 1..n BY TalkIs
  <2>3. t \in 1..n
    <3> DEFINE q == IF raw <= n - Repl!MinTail + 1 THEN raw
                    ELSE IF n >= Repl!MinTail THEN n - Repl!MinTail + 1 ELSE 1
               parents == {j \in 1..(q - 1) : h[j].role = "assistant" /\ h[q].for \in h[j].calls}
    <3>1. q \in 1..n BY <2>2 DEF Repl!MinTail
    <3>2. t \in {q, Repl!Max(parents)} /\ (t # q => t = Repl!Max(parents) /\ parents # {})
      BY DEF Repl!TailStart
    <3>3. parents \subseteq 1..(q - 1) OBVIOUS
    <3> HIDE DEF q, parents, t
    <3>4. parents \subseteq 0..n /\ \A x \in parents : x \in 1..n BY <2>2, <3>1, <3>3
    <3>5. parents # {} => Max(parents) \in parents BY <2>2, <3>4, Largest
    <3> QED BY <3>1, <3>2, <3>4, <3>5, SameLargest
  <2> HIDE DEF t
  <2>4. ReplProtected \in Nat /\ ReplProtected <= n /\ t \in Nat /\ t # 0
    BY <2>1, <2>2, <2>3, ReplAssumption DEF Repl!LoopAssumption, t
  <2>5. IsTalk(SubSeq(h, 1, ReplProtected)) /\ IsTalk(SubSeq(h, t, n))
    <3> HIDE DEF n
    <3>1. n = Len(h) /\ n <= n BY <2>2 DEF n
    <3> QED BY <2>2, <2>4, <3>1, TalkCut
  <2>6. IsTalk(<<Repl!User(Repl!Synthetic)>>) BY TalkOne DEF Repl!User
  <2>7. IsTalk(Repl!Summarized(h, ReplProtected, t))
    BY <2>5, <2>6, TalkJoined DEF Repl!Summarized
  <2> QED BY <2>1, <2>7, TalkSanitized DEF t
<1> QED BY <1>1, <1>2

LEMMA TalkSame ==
  ASSUME NEW a, NEW b, IsTalk(a), IsTalk(b), Len(a) = Len(b),
         \A i \in 1..Len(a) : a[i] = b[i]
  PROVE  a = b
<1>1. PICK S : Talk(S) /\ a \in Seq(S) /\ b \in Seq(S) BY Together
<1> QED BY <1>1

LEMMA JoinedIs ==
  ASSUME NEW a, NEW b, IsTalk(a), IsTalk(b)
  PROVE  /\ Len(a) \in Nat /\ Len(b) \in Nat /\ Len(a \o b) = Len(a) + Len(b)
         /\ \A i \in 1..Len(a) : (a \o b)[i] = a[i]
         /\ \A i \in 1..Len(b) : (a \o b)[Len(a) + i] = b[i]
<1>1. PICK S : Talk(S) /\ a \in Seq(S) /\ b \in Seq(S) BY Together
<1>2. Len(a) \in Nat /\ Len(b) \in Nat /\ Len(a \o b) = Len(a) + Len(b) BY <1>1
<1>3. \A i \in 1..(Len(a) + Len(b)) : (a \o b)[i] = IF i <= Len(a) THEN a[i] ELSE b[i - Len(a)]
  BY <1>1
<1>4. ASSUME NEW i \in 1..Len(a) PROVE (a \o b)[i] = a[i]
  <2>1. i \in 1..(Len(a) + Len(b)) /\ i <= Len(a) BY <1>2
  <2> QED BY <1>3, <2>1
<1>5. ASSUME NEW i \in 1..Len(b) PROVE (a \o b)[Len(a) + i] = b[i]
  <2>1. PICK j \in 1..(Len(a) + Len(b)) : j = Len(a) + i /\ ~(j <= Len(a)) /\ j - Len(a) = i BY <1>2
  <2> QED BY <1>3, <2>1
<1> QED BY <1>2, <1>4, <1>5

\* The end of a sequence.
LEMMA EndIs ==
  ASSUME NEW h, IsTalk(h), NEW a \in Nat, a <= Len(h)
  PROVE  /\ IsTalk(SubSeq(h, a + 1, Len(h))) /\ Len(SubSeq(h, a + 1, Len(h))) = Len(h) - a
         /\ \A i \in 1..(Len(h) - a) : SubSeq(h, a + 1, Len(h))[i] = h[a + i]
<1>1. Len(h) \in Nat BY TalkIs
<1>2. PICK n \in Nat : n = Len(h) BY <1>1
<1>3. PICK m \in Nat : m = a + 1 OBVIOUS
<1>4. /\ IsTalk(SubSeq(h, m, n))
      /\ Len(SubSeq(h, m, n)) = IF m <= n THEN n - m + 1 ELSE 0
      /\ \A i \in 1..(n - m + 1) : SubSeq(h, m, n)[i] = h[m + i - 1]
  BY <1>2, <1>3, TalkCut
<1>5. n - m + 1 = n - a /\ (m <= n \/ n - a = 0) /\ \A i \in 1..(n - a) : m + i - 1 = a + i
  BY <1>2, <1>3
<1> QED BY <1>2, <1>3, <1>4, <1>5

\* What is said is added at the end.
LEMMA EndGrows ==
  ASSUME NEW h, NEW g, IsTalk(h), IsTalk(g), NEW a \in Nat, a <= Len(h)
  PROVE  SubSeq(h \o g, a + 1, Len(h \o g)) = SubSeq(h, a + 1, Len(h)) \o g
<1> DEFINE hg == h \o g
           x == SubSeq(hg, a + 1, Len(hg))
           e == SubSeq(h, a + 1, Len(h))
<1>1. /\ IsTalk(hg) /\ Len(h) \in Nat /\ Len(g) \in Nat /\ Len(hg) = Len(h) + Len(g)
      /\ \A i \in 1..Len(h) : hg[i] = h[i]
      /\ \A i \in 1..Len(g) : hg[Len(h) + i] = g[i]
  BY TalkJoined, JoinedIs
<1>2. IsTalk(e) /\ Len(e) = Len(h) - a /\ \A i \in 1..(Len(h) - a) : e[i] = h[a + i]
  BY EndIs
<1>3. /\ IsTalk(e \o g) /\ Len(e \o g) = Len(e) + Len(g)
      /\ \A i \in 1..Len(e) : (e \o g)[i] = e[i]
      /\ \A i \in 1..Len(g) : (e \o g)[Len(e) + i] = g[i]
  <2>1. IsTalk(e) BY <1>2
  <2> HIDE DEF e
  <2>2. IsTalk(e \o g) BY <2>1, TalkJoined
  <2>3. /\ Len(e \o g) = Len(e) + Len(g)
        /\ \A i \in 1..Len(e) : (e \o g)[i] = e[i]
        /\ \A i \in 1..Len(g) : (e \o g)[Len(e) + i] = g[i]
    BY <2>1, JoinedIs
  <2> QED BY <2>2, <2>3
<1> HIDE DEF hg, e
<1>4. IsTalk(x) /\ Len(x) = Len(hg) - a /\ \A i \in 1..(Len(hg) - a) : x[i] = hg[a + i]
  <2>1. a <= Len(hg) BY <1>1
  <2> QED BY <1>1, <2>1, EndIs
<1> DEFINE eg == e \o g
<1> HIDE DEF x, eg
<1>5. Len(x) = Len(eg) BY <1>1, <1>2, <1>3, <1>4 DEF eg
<1>6. ASSUME NEW i \in 1..Len(x) PROVE x[i] = eg[i]
  <2>1. i \in 1..(Len(hg) - a) /\ i \in Nat BY <1>4, <1>6
  <2>2. x[i] = hg[a + i] BY <1>4, <2>1
  <2>3. CASE i <= Len(e)
    <3>1. i \in 1..Len(e) /\ i \in 1..(Len(h) - a) /\ a + i \in 1..Len(h) BY <1>1, <1>2, <2>1, <2>3
    <3> QED BY <1>1, <1>2, <1>3, <2>2, <3>1 DEF eg
  <2>4. CASE ~(i <= Len(e))
    <3>0. i \in Nat /\ Len(e) \in Int /\ ~(i <= Len(e)) BY <1>1, <1>2, <2>1, <2>4
    <3>1. PICK j \in Nat : j = i - Len(e) BY <3>0
    <3>2. j \in 1..Len(g) /\ a + i = Len(h) + j /\ i = Len(e) + j
      BY <1>1, <1>2, <2>1, <2>4, <3>1
    <3>3. hg[Len(h) + j] = g[j] /\ (e \o g)[Len(e) + j] = g[j] BY <1>1, <1>3, <3>2
    <3> QED BY <2>2, <3>2, <3>3 DEF eg
  <2> QED BY <2>3, <2>4
<1>7. IsTalk(eg) BY <1>3 DEF eg
<1>8. x = eg BY <1>4, <1>5, <1>6, <1>7, TalkSame
<1> QED BY <1>8 DEF x, eg, e, hg

\* One more of what is left is stored.
LEMMA EndMoves ==
  ASSUME NEW d, NEW h, IsTalk(d), IsTalk(h), NEW a \in Nat, a < Len(h)
  PROVE  Append(d, h[a + 1]) \o SubSeq(h, (a + 1) + 1, Len(h)) = d \o SubSeq(h, a + 1, Len(h))
<1> DEFINE m == h[a + 1]
           e == SubSeq(h, a + 1, Len(h))
           f == SubSeq(h, (a + 1) + 1, Len(h))
<1>1. Len(h) \in Nat /\ m.calls \subseteq Repl!CallIds
  <2>1. Len(h) \in Nat /\ \A i \in 1..Len(h) : h[i].calls \subseteq Repl!CallIds BY TalkIs
  <2>2. a + 1 \in 1..Len(h) BY <2>1
  <2> QED BY <2>1, <2>2
<1>2. IsTalk(<<m>>) BY <1>1, TalkOne
<1>3. IsTalk(e) /\ Len(e) = Len(h) - a /\ \A i \in 1..(Len(h) - a) : e[i] = h[a + i]
  <2>1. a <= Len(h) BY <1>1
  <2> QED BY <2>1, EndIs
<1>4. IsTalk(f) /\ Len(f) = Len(h) - (a + 1) /\ \A i \in 1..(Len(h) - (a + 1)) : f[i] = h[(a + 1) + i]
  <2>1. a + 1 <= Len(h) /\ a + 1 \in Nat BY <1>1
  <2> QED BY <2>1, EndIs
<1>5. <<m>> \o f = e
  <2> DEFINE o == <<m>>
             of == o \o f
  <2>0. Len(o) = 1 /\ o[1] = m OBVIOUS
  <2> HIDE DEF e, f, o
  <2>1. /\ IsTalk(of) /\ Len(of) = Len(o) + Len(f) /\ Len(f) \in Nat
        /\ \A i \in 1..Len(o) : of[i] = o[i]
        /\ \A i \in 1..Len(f) : of[Len(o) + i] = f[i]
    BY <1>2, <1>4, TalkJoined, JoinedIs DEF o
  <2> HIDE DEF of
  <2>2. Len(of) = Len(e) BY <1>1, <1>3, <1>4, <2>0, <2>1
  <2>3. ASSUME NEW i \in 1..Len(of) PROVE of[i] = e[i]
    <3>1. i \in 1..(Len(h) - a) /\ e[i] = h[a + i] BY <1>3, <2>2, <2>3
    <3>2. CASE i = 1 BY <2>0, <2>1, <3>1, <3>2 DEF m
    <3>3. CASE i # 1
      <4>1. PICK j \in Nat : j = i - 1 BY <3>1, <3>3
      <4>2. j \in 1..Len(f) /\ i = 1 + j /\ (a + 1) + j = a + i BY <1>1, <1>4, <3>1, <3>3, <4>1
      <4>3. of[1 + j] = f[j] /\ f[j] = h[(a + 1) + j] BY <1>4, <2>0, <2>1, <4>2
      <4> QED BY <3>1, <4>2, <4>3
    <3> QED BY <3>2, <3>3
  <2>4. of = e BY <1>3, <2>1, <2>2, <2>3, TalkSame
  <2> QED BY <2>4 DEF of, o
<1>6. Append(d, m) = d \o <<m>> BY <1>1, TalkAdded
<1>7. (d \o <<m>>) \o f = d \o (<<m>> \o f)
  <2> HIDE DEF f, m
  <2>1. PICK S : Talk(S) /\ d \in Seq(S) /\ f \in Seq(S) BY <1>4, Together
  <2>2. PICK T : Talk(T) /\ <<m>> \in Seq(T) BY <1>2 DEF IsTalk
  <2>3. m \in T BY <2>2
  <2>4. d \in Seq(S \cup T) /\ f \in Seq(S \cup T) /\ <<m>> \in Seq(S \cup T)
    BY <2>1, <2>3
  <2> QED BY <2>4
<1> QED BY <1>5, <1>6, <1>7

\* What was stored last is taken away.
LEMMA FrontIs ==
  ASSUME NEW d, NEW s, IsTalk(d), IsTalk(s)
  PROVE  SubSeq(d \o s, 1, Len(d \o s) - Len(s)) = d
<1>1. PICK S : Talk(S) /\ d \in Seq(S) /\ s \in Seq(S) BY Together
<1>2. /\ IsTalk(d \o s) /\ Len(d) \in Nat /\ Len(s) \in Nat /\ Len(d \o s) = Len(d) + Len(s)
      /\ \A i \in 1..Len(d) : (d \o s)[i] = d[i]
  BY TalkJoined, JoinedIs
<1> DEFINE ds == d \o s
<1> HIDE DEF ds
<1>3. PICK n \in Nat : n = Len(d) /\ n = Len(ds) - Len(s) /\ n <= Len(ds) BY <1>2 DEF ds
<1>4. /\ IsTalk(SubSeq(ds, 1, n))
      /\ Len(SubSeq(ds, 1, n)) = IF 1 <= n THEN n - 1 + 1 ELSE 0
      /\ \A i \in 1..(n - 1 + 1) : SubSeq(ds, 1, n)[i] = ds[1 + i - 1]
  <2>1. IsTalk(ds) /\ n <= Len(ds) /\ 1 # 0 /\ 1 \in Nat BY <1>2, <1>3 DEF ds
  <2> QED BY <2>1, TalkCut
<1>5. n - 1 + 1 = n /\ (1 <= n \/ n = 0) /\ \A i \in 1..n : 1 + i - 1 = i BY <1>3
<1>6. Len(SubSeq(ds, 1, n)) = n /\ \A i \in 1..n : SubSeq(ds, 1, n)[i] = ds[i]
  BY <1>4, <1>5
<1>7. SubSeq(ds, 1, n) = d BY <1>2, <1>3, <1>4, <1>6, TalkSame DEF ds
<1> QED BY <1>3, <1>7 DEF ds

Batches == [todo : SUBSET Repl!CallIds, done : SUBSET Repl!CallIds, lost : Nat,
            parallel : BOOLEAN, next : {"loop", "call"}]

\* The prompt's agent has no observer: nothing is written before its turn is over.
ReplType ==
  /\ IsTalk(rHistory) /\ IsTalk(rDurable) /\ IsTalk(rSaid) /\ IsTalk(answered)
  /\ rAsked \in Nat /\ start \in Nat /\ row \in Nat
  /\ rTools \in Batches /\ rPc # "checkpoint"
  /\ mode \in {"prompt", "turn", "store", "gone"}
  /\ torn \in BOOLEAN /\ rCompressed \in BOOLEAN

\* What of the history is behind pre_len is what this turn has said.  While it is being
\* stored, the rows and what is left of it are the turns that were answered.
Ahead == start < Len(rHistory) /\ rSaid = SubSeq(rHistory, start + 1, Len(rHistory))
Writing ==
  /\ start <= row /\ row <= Len(rHistory)
  /\ rDurable \o SubSeq(rHistory, row + 1, Len(rHistory)) = answered
Kept == ~torn /\ ~rCompressed =>
  /\ mode # "store" => rDurable = answered
  /\ mode \in {"turn", "store"} => Ahead
  /\ mode = "store" => Writing
ReplInv == ReplType /\ Kept

LEMMA PromptStarts == TalkInit => ReplInv
<1> SUFFICES ASSUME TalkInit PROVE ReplInv
  OBVIOUS
<1> USE DEF TalkInit, Repl!ReplInit, Repl!LoopInit
<1>1. IsTalk(rHistory) /\ IsTalk(rDurable) /\ IsTalk(rSaid) /\ IsTalk(answered)
  BY TalkNone
<1>2. rTools \in Batches BY DEF Repl!NoTools, Batches
<1> QED BY <1>1, <1>2 DEF ReplInv, ReplType, Kept

LEMMA PromptRests ==
  ASSUME ReplInv,
         UNCHANGED <<rHistory, rDurable, rSaid, rCompressed, rAsked, mode, start, row, answered, torn>>,
         rPc' # "checkpoint", rTools' \in Batches
  PROVE  ReplInv'
<1>1. ReplType' BY DEF ReplInv, ReplType
<1>2. Kept' BY DEF ReplInv, Kept, Ahead, Writing
<1> QED BY <1>1, <1>2 DEF ReplInv

LEMMA BatchScheduled ==
  ASSUME NEW C, C \subseteq Repl!CallIds, NEW next \in {"loop", "call"},
         NEW b \in Repl!Schedules(Repl!Batch(C, next))
  PROVE  b \in Batches
<1>1. Repl!Batch(C, next) \in Batches BY DEF Repl!Batch, Batches
<1>2. [Repl!Batch(C, next) EXCEPT !.parallel = TRUE] \in Batches BY <1>1 DEF Batches
<1> QED BY <1>1, <1>2 DEF Repl!Schedules

\* Calls that wait for a result are calls of the transcript.
LEMMA PendingMade ==
  ASSUME NEW h, IsTalk(h)
  PROVE  Repl!Pending(h) \subseteq Repl!CallIds
<1> DEFINE I == {i \in 1..Len(h) : h[i].calls # {}}
           a == IF I # {} THEN Repl!Max(I) ELSE 0
<1>1. Len(h) \in Nat /\ \A i \in 1..Len(h) : h[i].calls \subseteq Repl!CallIds BY TalkIs
<1>2. I \subseteq 0..Len(h) /\ I \subseteq 1..Len(h) BY <1>1
<1>3. I # {} => Max(I) \in I
  <2> HIDE DEF I
  <2> QED BY <1>1, <1>2, Largest
<1>4. a # 0 => a \in 1..Len(h)
  <2> HIDE DEF I
  <2> QED BY <1>2, <1>3, SameLargest
<1>5. Repl!SelectLastInSeq(h, LAMBDA m : m.calls # {}) = a BY DEF Repl!SelectLastInSeq
<1>6. Repl!Pending(h) = {} \/ (a # 0 /\ Repl!Pending(h) \subseteq h[a].calls)
  <2> HIDE DEF a
  <2> QED BY <1>5 DEF Repl!Pending
<1> HIDE DEF a
<1> QED BY <1>1, <1>4, <1>6

LEMMA LastUserIs ==
  ASSUME IsTalk(rHistory), Repl!LastUser # 0
  PROVE  Repl!LastUser \in 1..Len(rHistory)
<1> DEFINE I == {i \in 1..Len(rHistory) : rHistory[i].role = "user"}
<1>1. Len(rHistory) \in Nat BY TalkIs
<1>2. I \subseteq 0..Len(rHistory) /\ I \subseteq 1..Len(rHistory) BY <1>1
<1>3. Repl!LastUser = IF I # {} THEN Repl!Max(I) ELSE 0
  BY DEF Repl!LastUser, Repl!SelectLastInSeq
<1> HIDE DEF I
<1>4. I # {} => Max(I) \in I BY <1>1, <1>2, Largest
<1> QED BY <1>2, <1>3, <1>4, SameLargest

\* What is said in a turn joins the history and nothing else.
LEMMA PromptSays ==
  ASSUME ReplInv, mode = "turn", NEW msgs, NEW next, Repl!Say(msgs, next), IsTalk(msgs),
         next # "checkpoint", rTools' \in Batches, rAsked' \in Nat,
         UNCHANGED <<rDurable, rCompressed, mode, start, row, answered, torn>>
  PROVE  ReplInv'
<1>1. rHistory' = rHistory \o msgs /\ rSaid' = rSaid \o msgs /\ rPc' = next
  BY DEF Repl!Say
<1>2. IsTalk(rHistory) /\ IsTalk(rSaid) /\ start \in Nat BY DEF ReplInv, ReplType
<1>3. IsTalk(rHistory \o msgs) /\ IsTalk(rSaid \o msgs) BY <1>2, TalkJoined
<1>4. ReplType' BY <1>1, <1>3 DEF ReplInv, ReplType
<1>5. ASSUME Ahead PROVE Ahead'
  <2>1. Len(rHistory) \in Nat /\ Len(msgs) \in Nat /\ Len(rHistory \o msgs) = Len(rHistory) + Len(msgs)
    BY <1>2, JoinedIs
  <2>2. start <= Len(rHistory) /\ start < Len(rHistory) + Len(msgs) BY <1>2, <1>5, <2>1 DEF Ahead
  <2>3. SubSeq(rHistory \o msgs, start + 1, Len(rHistory \o msgs))
          = SubSeq(rHistory, start + 1, Len(rHistory)) \o msgs
    BY <1>2, <2>2, EndGrows
  <2> QED BY <1>1, <1>5, <2>1, <2>2, <2>3 DEF Ahead
<1>6. Kept' BY <1>5 DEF ReplInv, Kept
<1> QED BY <1>4, <1>6 DEF ReplInv

LEMMA ResultsTalk == rTools \in Batches => IsTalk(Repl!ResultMessages)
<1> SUFFICES ASSUME rTools \in Batches PROVE IsTalk(Repl!ResultMessages)
  OBVIOUS
<1>1. Repl!Cardinality(rTools.done) \in Nat
  <2>1. IsFiniteSet(1..ReplCalls) BY ReplAssumption, FS_Interval DEF Repl!LoopAssumption
  <2>2. rTools.done \subseteq 1..ReplCalls BY DEF Batches, Repl!CallIds
  <2>3. IsFiniteSet(rTools.done) BY <2>1, <2>2, FS_Subset
  <2> QED BY <2>3, FS_CardinalityType, SameSize
<1> DEFINE n == Repl!Cardinality(rTools.done)
           x == [i \in 1..n |-> Repl!ToolResult(rTurn, Repl!InOrder(rTools.done)[i])]
           y == [i \in 1..rTools.lost |-> Repl!ToolResult(rTurn, Repl!NoCall)]
<1>2. Repl!ResultMessages = x \o y BY DEF Repl!ResultMessages
<1>3. \A t, c : Repl!ToolResult(t, c).calls = {} BY DEF Repl!ToolResult
<1>4. IsTalk(x)
  <2> DEFINE S == {Repl!ToolResult(rTurn, Repl!InOrder(rTools.done)[i]) : i \in 1..n}
  <2>1. Talk(S) BY <1>3 DEF Talk
  <2>2. x \in Seq(S)
    <3>1. x \in [1..n -> S] OBVIOUS
    <3> HIDE DEF x, S
    <3> QED BY <1>1, <3>1
  <2> QED BY <2>1, <2>2 DEF IsTalk
<1>5. IsTalk(y)
  <2> DEFINE S == {Repl!ToolResult(rTurn, Repl!NoCall)}
  <2>1. Talk(S) BY <1>3 DEF Talk
  <2>2. y \in Seq(S)
    <3>1. y \in [1..rTools.lost -> S] /\ rTools.lost \in Nat BY DEF Batches
    <3> HIDE DEF y, S
    <3> QED BY <3>1
  <2> QED BY <2>1, <2>2 DEF IsTalk
<1> HIDE DEF x, y
<1> QED BY <1>2, <1>4, <1>5, TalkJoined

LEMMA PromptReturns ==
  ASSUME ReplInv, mode = "turn", NEW n \in 0..ReplBatch, Repl!ProviderReturns(n), UNCHANGED Repl!replVars
  PROVE  ReplInv'
<1> DEFINE C == (rAsked + 1)..(rAsked + n)
           next == IF C = {} THEN "completed" ELSE "tools"
<1>1. /\ rAsked + n <= ReplCalls /\ rAsked' = rAsked + n
      /\ Repl!Say(<<Repl!Assistant(rTurn, C)>>, next)
      /\ IF C = {} THEN rTools' = rTools ELSE rTools' \in Repl!Schedules(Repl!Batch(C, "loop"))
      /\ UNCHANGED <<rDurable, rCompressed, mode, start, row, answered, torn>>
  BY DEF Repl!ProviderReturns, Repl!replVars
<1>2. rAsked \in Nat /\ ReplBatch \in Nat /\ ReplCalls \in Nat /\ rTools \in Batches
  BY ReplAssumption DEF ReplInv, ReplType, Repl!LoopAssumption
<1>3. C \subseteq Repl!CallIds /\ rAsked' \in Nat BY <1>1, <1>2 DEF Repl!CallIds
<1>4. IsTalk(<<Repl!Assistant(rTurn, C)>>) BY <1>3, TalkOne DEF Repl!Assistant
<1>5. rTools' \in Batches
  <2> HIDE DEF C
  <2> QED BY <1>1, <1>2, <1>3, BatchScheduled
<1>6. next # "checkpoint" OBVIOUS
<1> HIDE DEF C, next
<1> QED BY <1>1, <1>3, <1>4, <1>5, <1>6, PromptSays

LEMMA PromptIterates ==
  ASSUME ReplInv, mode = "turn", Repl!Iterate, UNCHANGED Repl!replVars
  PROVE  ReplInv'
<1>1. /\ UNCHANGED <<rHistory, rDurable, rSaid, rCompressed, rAsked, mode, start, row, answered, torn>>
      /\ rPc' \in {"completed", "tools", "call"}
      /\ rTools' = rTools \/ rTools' \in Repl!Schedules(Repl!Batch(Repl!Pending(rHistory), "call"))
  BY DEF Repl!Iterate, Repl!replVars
<1>2. rTools \in Batches /\ IsTalk(rHistory) BY DEF ReplInv, ReplType
<1>3. Repl!Pending(rHistory) \subseteq Repl!CallIds BY <1>2, PendingMade
<1>4. rTools' \in Batches BY <1>1, <1>2, <1>3, BatchScheduled
<1> QED BY <1>1, <1>4, PromptRests

LEMMA PromptRuns ==
  ASSUME ReplInv, mode = "turn", NEW c \in Repl!CallIds, Repl!RunTool(c) \/ Repl!ToolPanics(c),
         UNCHANGED Repl!replVars
  PROVE  ReplInv'
<1>1. /\ UNCHANGED <<rHistory, rDurable, rSaid, rCompressed, rAsked, mode, start, row, answered, torn>>
      /\ rPc' = rPc
      /\ \/ rTools' = [rTools EXCEPT !.todo = @ \ {c}, !.done = @ \cup {c}]
         \/ rTools' = [rTools EXCEPT !.todo = @ \ {c}, !.lost = @ + 1]
  BY DEF Repl!RunTool, Repl!ToolPanics, Repl!replVars
<1>2. rTools \in Batches /\ rPc # "checkpoint" BY DEF ReplInv, ReplType
<1>3. PICK b \in [todo : SUBSET Repl!CallIds, done : SUBSET Repl!CallIds, lost : Nat,
                  parallel : BOOLEAN, next : {"loop", "call"}] : b = rTools
  BY <1>2 DEF Batches
<1>4. /\ [b EXCEPT !.todo = @ \ {c}, !.done = @ \cup {c}] \in Batches
      /\ [b EXCEPT !.todo = @ \ {c}, !.lost = @ + 1] \in Batches
  <2>1. [b EXCEPT !.todo = @ \ {c}] \in Batches BY <1>3 DEF Batches
  <2>2. PICK e \in Batches : e = [b EXCEPT !.todo = @ \ {c}] BY <2>1
  <2>3. /\ [b EXCEPT !.todo = @ \ {c}, !.done = @ \cup {c}] = [e EXCEPT !.done = b.done \cup {c}]
        /\ [b EXCEPT !.todo = @ \ {c}, !.lost = @ + 1] = [e EXCEPT !.lost = b.lost + 1]
    BY <1>3, <2>2
  <2>4. [e EXCEPT !.done = b.done \cup {c}] \in Batches BY <1>3, <2>2 DEF Batches
  <2>5. [e EXCEPT !.lost = b.lost + 1] \in Batches
    <3>1. PICK n \in Nat : n = b.lost + 1 BY <1>3
    <3>2. [e EXCEPT !.lost = n] \in Batches BY <2>2, <3>1 DEF Batches
    <3> QED BY <3>1, <3>2
  <2> QED BY <2>3, <2>4, <2>5
<1>5. rTools' \in Batches BY <1>1, <1>3, <1>4
<1> QED BY <1>1, <1>2, <1>5, PromptRests

LEMMA PromptGathers ==
  ASSUME ReplInv, mode = "turn", Repl!ToolsDone, UNCHANGED Repl!replVars
  PROVE  ReplInv'
<1>1. /\ UNCHANGED <<rDurable, rCompressed, rAsked, mode, start, row, answered, torn>>
      /\ Repl!Say(Repl!ResultMessages, "maintain")
      /\ rTools' = [Repl!NoTools EXCEPT !.next = rTools.next]
  BY DEF Repl!ToolsDone, Repl!replVars
<1>2. rTools \in Batches /\ rAsked \in Nat BY DEF ReplInv, ReplType
<1>3. rTools' \in Batches BY <1>1, <1>2 DEF Batches, Repl!NoTools
<1>4. IsTalk(Repl!ResultMessages) BY <1>2, ResultsTalk
<1>5. "maintain" # "checkpoint" /\ rAsked' \in Nat BY <1>1, <1>2
<1> QED BY <1>1, <1>3, <1>4, <1>5, PromptSays

\* A history that is shortened is known to be.
LEMMA PromptMaintains ==
  ASSUME ReplInv, mode = "turn", Repl!Maintain, UNCHANGED Repl!replVars
  PROVE  ReplInv'
<1>1. /\ UNCHANGED <<rDurable, rSaid, rAsked, rTools, mode, start, row, answered, torn>>
      /\ rPc' = rTools.next /\ rCompressed' = (rCompressed \/ rHistory' # rHistory)
      /\ rHistory' \in UNION {Repl!Capped(h) : h \in Repl!Relieved(rHistory)}
  BY DEF Repl!Maintain, Repl!replVars
<1>2. IsTalk(rHistory) /\ rTools \in Batches /\ rCompressed \in BOOLEAN BY DEF ReplInv, ReplType
<1>3. rPc' # "checkpoint" BY <1>1, <1>2 DEF Batches
<1>4. PICK h \in Repl!Relieved(rHistory) : rHistory' \in Repl!Capped(h) BY <1>1
<1>5. IsTalk(h) BY <1>2, <1>4, TalkCompressed DEF Repl!Relieved
<1>6. IsTalk(rHistory') BY <1>4, <1>5, TalkCompressed DEF Repl!Capped
<1>7. CASE rHistory' = rHistory
  <2>1. rCompressed' = rCompressed /\ rTools' \in Batches BY <1>1, <1>2, <1>7
  <2> QED BY <1>1, <1>3, <1>7, <2>1, PromptRests
<1>8. CASE rHistory' # rHistory
  <2>1. rCompressed' = TRUE BY <1>1, <1>8
  <2>2. ReplType' BY <1>1, <1>3, <1>6, <2>1 DEF ReplInv, ReplType
  <2>3. Kept' BY <2>1 DEF Kept
  <2> QED BY <2>2, <2>3 DEF ReplInv
<1> QED BY <1>7, <1>8

LEMMA PromptTurns == ASSUME ReplInv, Repl!Turn PROVE ReplInv'
<1>0. mode = "turn" /\ Repl!LoopStep /\ UNCHANGED Repl!replVars BY DEF Repl!Turn
<1>1. rPc # "checkpoint" /\ rTools \in Batches BY DEF ReplInv, ReplType
<1>2. ~(Repl!SaveMessage \/ Repl!CheckpointDone \/ Repl!SaveFails)
  BY <1>1 DEF Repl!SaveMessage, Repl!CheckpointDone, Repl!SaveFails
<1>3. CASE Repl!Exhausted \/ Repl!ProviderFails
  <2>1. /\ UNCHANGED <<rHistory, rDurable, rSaid, rCompressed, rAsked, mode, start, row, answered, torn>>
        /\ rTools' = rTools /\ rPc' \in {"exhausted", "failed"}
    BY <1>0, <1>3 DEF Repl!Exhausted, Repl!ProviderFails, Repl!replVars
  <2> QED BY <1>1, <2>1, PromptRests
<1>4. CASE Repl!Iterate BY <1>0, <1>4, PromptIterates
<1>5. CASE \E n \in 0..ReplBatch : Repl!ProviderReturns(n) BY <1>0, <1>5, PromptReturns
<1>6. CASE \E c \in Repl!CallIds : Repl!RunTool(c) \/ Repl!ToolPanics(c) BY <1>0, <1>6, PromptRuns
<1>7. CASE Repl!ToolsDone BY <1>0, <1>7, PromptGathers
<1>8. CASE Repl!Maintain BY <1>0, <1>8, PromptMaintains
<1> QED BY <1>0, <1>2, <1>3, <1>4, <1>5, <1>6, <1>7, <1>8 DEF Repl!LoopStep

\* What was said in the turn is behind the rows and is what there is to store.
LEMMA PromptTurnEnds == ASSUME ReplInv, Repl!TurnEnds PROVE ReplInv'
<1> USE DEF Repl!TurnEnds
<1>1. /\ IsTalk(rHistory) /\ IsTalk(answered) /\ IsTalk(rSaid)
      /\ start \in Nat /\ rTools \in Batches /\ mode = "turn"
  BY DEF ReplInv, ReplType
<1>2. Len(rHistory) \in Nat BY <1>1, TalkIs
<1>3. row' \in Nat BY <1>1, <1>2 DEF Repl!FirstRow
<1>4. IsTalk(answered \o rSaid) BY <1>1, TalkJoined
<1>5. ReplType' BY <1>1, <1>3, <1>4 DEF ReplInv, ReplType
<1>6. CASE mode' = "prompt"
  <2>1. answered' = answered /\ rDurable' = rDurable BY <1>6 DEF Repl!Kept
  <2> QED BY <1>1, <1>5, <1>6, <2>1 DEF ReplInv, Kept
<1>7. CASE mode' = "store"
  <2>1. answered' = answered \o rSaid /\ UNCHANGED <<rHistory, rDurable, rSaid, start, torn, rCompressed>>
    BY <1>7 DEF Repl!Kept
  <2>2. ASSUME ~torn, ~rCompressed PROVE Ahead' /\ Writing' /\ rDurable = answered
    <3>1. Ahead /\ rDurable = answered BY <1>1, <2>2 DEF ReplInv, Kept
    <3>2. row' = start BY <3>1 DEF Ahead, Repl!FirstRow
    <3>3. start <= start /\ start <= Len(rHistory) BY <1>1, <1>2, <3>1 DEF Ahead
    <3>4. Ahead' BY <2>1, <3>1 DEF Ahead
    <3>5. Writing' BY <2>1, <3>1, <3>2, <3>3 DEF Writing, Ahead
    <3> QED BY <3>1, <3>4, <3>5
  <2> QED BY <1>5, <1>7, <2>1, <2>2 DEF ReplInv, Kept
<1> QED BY <1>6, <1>7

LEMMA PromptStoresRow == ASSUME ReplInv, Repl!StoreRow PROVE ReplInv'
<1> USE DEF Repl!StoreRow
<1>1. /\ IsTalk(rHistory) /\ IsTalk(rDurable) /\ row \in Nat /\ start \in Nat /\ mode = "store"
      /\ row < Len(rHistory) /\ row' = row + 1
  BY DEF ReplInv, ReplType
<1>2. Len(rHistory) \in Nat /\ \A i \in 1..Len(rHistory) : rHistory[i].calls \subseteq Repl!CallIds
  BY <1>1, TalkIs
<1>3. rHistory[row + 1].calls \subseteq Repl!CallIds
  <2>1. row + 1 \in 1..Len(rHistory) BY <1>1, <1>2
  <2> QED BY <1>2, <2>1
<1>4. CASE torn' = TRUE /\ rDurable' = rDurable
  <2>1. ReplType' BY <1>1, <1>4 DEF ReplInv, ReplType
  <2> QED BY <1>4, <2>1 DEF ReplInv, Kept
<1>5. CASE torn' = torn /\ rDurable' = Append(rDurable, rHistory[row'])
  <2>1. rDurable' = Append(rDurable, rHistory[row + 1]) BY <1>1, <1>5
  <2>2. IsTalk(Append(rDurable, rHistory[row + 1])) BY <1>1, <1>3, TalkAdded
  <2>3. ReplType' BY <1>1, <1>5, <2>1, <2>2 DEF ReplInv, ReplType
  <2>4. ASSUME ~torn, ~rCompressed PROVE Ahead' /\ Writing'
    <3>1. Ahead /\ Writing BY <1>1, <2>4 DEF ReplInv, Kept
    <3>2. Ahead' BY <3>1 DEF Ahead
    <3>3. Append(rDurable, rHistory[row + 1]) \o SubSeq(rHistory, (row + 1) + 1, Len(rHistory)) = answered
      BY <1>1, <3>1, EndMoves DEF Writing
    <3>4. start <= row BY <3>1 DEF Writing
    <3>5. start <= row + 1 /\ row + 1 <= Len(rHistory) BY <1>1, <1>2, <3>4
    <3>6. Writing' BY <1>1, <2>1, <3>3, <3>5 DEF Writing
    <3> QED BY <3>2, <3>6
  <2> QED BY <1>1, <1>5, <2>3, <2>4 DEF ReplInv, Kept
<1> QED BY <1>4, <1>5

LEMMA NothingLeft ==
  ASSUME NEW d, NEW h, IsTalk(d), IsTalk(h)
  PROVE  SubSeq(h, Len(h) + 1, Len(h)) = <<>> /\ d \o <<>> = d /\ <<>> \o d = d
<1>1. PICK n \in Nat : n = Len(h) BY TalkIs
<1>2. IsTalk(SubSeq(h, n + 1, Len(h))) /\ Len(SubSeq(h, n + 1, Len(h))) = Len(h) - n
  <2>1. n <= Len(h) BY <1>1
  <2> QED BY <2>1, EndIs
<1>3. Len(SubSeq(h, n + 1, Len(h))) = 0 BY <1>1, <1>2
<1>4. SubSeq(h, n + 1, Len(h)) = <<>>
  <2> DEFINE x == SubSeq(h, n + 1, Len(h))
  <2>1. IsTalk(x) /\ Len(x) = 0 BY <1>2, <1>3
  <2> HIDE DEF x
  <2>2. IsTalk(<<>>) /\ Len(<<>>) = 0 BY TalkNone
  <2>3. x = <<>> BY <2>1, <2>2, TalkSame
  <2> QED BY <2>3 DEF x
<1>5. d \o <<>> = d /\ <<>> \o d = d
  <2>1. PICK S : d \in Seq(S) BY DEF IsTalk
  <2> QED BY <2>1
<1> QED BY <1>1, <1>4, <1>5

LEMMA PromptIsStored == ASSUME ReplInv, Repl!Stored PROVE ReplInv'
<1>1. /\ mode = "store" /\ row = Len(rHistory) /\ mode' = "prompt"
      /\ UNCHANGED <<rHistory, rDurable, rSaid, rCompressed, rAsked, rTools, rPc, start, row, answered, torn>>
  BY DEF Repl!Stored, Repl!loopVars
<1>2. ReplType' BY <1>1 DEF ReplInv, ReplType
<1>3. ASSUME ~torn, ~rCompressed PROVE rDurable = answered
  <2>1. Writing BY <1>1, <1>3 DEF ReplInv, Kept
  <2>2. IsTalk(rDurable) /\ IsTalk(rHistory) BY DEF ReplInv, ReplType
  <2> QED BY <1>1, <2>1, <2>2, NothingLeft DEF Writing
<1> QED BY <1>1, <1>2, <1>3 DEF ReplInv, Kept

\* A turn begins with its prompt, whatever came before it.
LEMMA PromptSends == ASSUME ReplInv, Repl!Prompting, NEW h, IsTalk(h), Repl!Send(h) PROVE ReplInv'
<1> DEFINE u == Repl!User(rTurn')
           g == <<u>>
<1>1. /\ rHistory' = Append(h, u) /\ rSaid' = g /\ start' = Len(h) /\ mode' = "turn" /\ rPc' = "loop"
      /\ UNCHANGED <<rDurable, rTools, rAsked, rCompressed, row, answered, torn>>
  BY DEF Repl!Send
<1>2. mode = "prompt" BY DEF Repl!Prompting
<1>3. u.calls \subseteq Repl!CallIds BY DEF Repl!User
<1> HIDE DEF u
<1>4. IsTalk(g) /\ Len(g) = 1 BY <1>3, TalkOne
<1>5. IsTalk(Append(h, u)) /\ Append(h, u) = h \o g BY <1>3, TalkAdded
<1>6. Len(h) \in Nat BY TalkIs
<1>7. ReplType' BY <1>1, <1>4, <1>5, <1>6 DEF ReplInv, ReplType
<1> HIDE DEF g
<1>8. Ahead'
  <2>1. Len(h \o g) = Len(h) + Len(g) BY <1>4, JoinedIs
  <2>2. Len(h) < Len(h \o g) /\ Len(h) <= Len(h) BY <1>4, <1>6, <2>1
  <2>3. SubSeq(h \o g, Len(h) + 1, Len(h \o g)) = SubSeq(h, Len(h) + 1, Len(h)) \o g
    BY <1>4, <1>6, <2>2, EndGrows
  <2>4. SubSeq(h \o g, Len(h) + 1, Len(h \o g)) = g BY <1>4, <2>3, NothingLeft
  <2> QED BY <1>1, <1>5, <2>2, <2>4 DEF Ahead
<1> QED BY <1>1, <1>2, <1>7, <1>8 DEF ReplInv, Kept

LEMMA BeforeIsTalk == ASSUME ReplInv, Repl!LastUser # 0 PROVE IsTalk(Repl!BeforeLastTurn)
<1>1. IsTalk(rHistory) BY DEF ReplInv, ReplType
<1>2. Repl!LastUser \in 1..Len(rHistory) /\ Len(rHistory) \in Nat BY <1>1, LastUserIs, TalkIs
<1>3. PICK n \in Nat : n = Repl!LastUser - 1 /\ n <= Len(rHistory) BY <1>2
<1>4. 1 \in Nat /\ 1 # 0 OBVIOUS
<1>5. IsTalk(SubSeq(rHistory, 1, n)) BY <1>1, <1>3, <1>4, TalkCut
<1> QED BY <1>3, <1>5 DEF Repl!BeforeLastTurn

LEMMA PromptRewrites == ASSUME ReplInv, mode = "prompt", NEW h, IsTalk(h), Repl!Rewrite(h) PROVE ReplInv'
<1> USE DEF Repl!Rewrite
<1>1. ReplType' BY DEF ReplInv, ReplType
<1>2. Kept' BY DEF ReplInv, Kept
<1> QED BY <1>1, <1>2 DEF ReplInv

LEMMA PromptCommands ==
  ASSUME ReplInv, Repl!SendMessage \/ Repl!Undo \/ Repl!Retry \/ Repl!New \/ Repl!Compress
  PROVE  ReplInv'
<1> USE DEF Repl!Command
<1>0. IsTalk(rHistory) BY DEF ReplInv, ReplType
<1>1. CASE Repl!SendMessage BY <1>0, <1>1, PromptSends DEF Repl!SendMessage
<1>2. CASE Repl!Retry BY <1>2, BeforeIsTalk, PromptSends DEF Repl!Retry
<1>3. ASSUME Repl!Undo \/ Repl!New \/ Repl!Compress PROVE mode = "prompt"
  BY <1>3 DEF Repl!Undo, Repl!New, Repl!Compress, Repl!Prompting
<1>4. CASE Repl!Undo BY <1>3, <1>4, BeforeIsTalk, PromptRewrites DEF Repl!Undo
<1>5. CASE Repl!New BY <1>3, <1>5, TalkNone, PromptRewrites DEF Repl!New
<1>6. CASE Repl!Compress
  <2>1. PICK h \in Repl!Compressions(rHistory, ReplProtected) : Repl!Rewrite(h) BY <1>6 DEF Repl!Compress
  <2>2. IsTalk(h) BY <1>0, <2>1, TalkCompressed
  <2> QED BY <1>3, <1>6, <2>1, <2>2, PromptRewrites
<1> QED BY <1>1, <1>2, <1>4, <1>5, <1>6

\* A turn none of whose rows is stored is as good as never sent.
LEMMA PromptLeaves == ASSUME ReplInv, Repl!Leave PROVE ReplInv'
<1> DEFINE l == Len(answered) - Len(rSaid)
           fewer == mode = "store" /\ row = Repl!FirstRow /\ row < Len(rHistory)
<1>1. /\ mode # "gone" /\ mode' = "gone" /\ rPc' = "idle" /\ rTools' = Repl!NoTools
      /\ torn' = (torn \/ (mode = "store" /\ row < Len(rHistory) /\ row > Repl!FirstRow))
      /\ answered' = IF fewer THEN SubSeq(answered, 1, l) ELSE answered
      /\ UNCHANGED <<rHistory, rDurable, rSaid, rCompressed, rAsked, start, row>>
  BY DEF Repl!Leave
<1>2. /\ IsTalk(rHistory) /\ IsTalk(rDurable) /\ IsTalk(rSaid) /\ IsTalk(answered)
      /\ start \in Nat /\ row \in Nat /\ torn \in BOOLEAN
      /\ mode \in {"prompt", "turn", "store", "gone"}
  BY DEF ReplInv, ReplType
<1>3. Len(rHistory) \in Nat /\ Len(answered) \in Nat /\ Len(rSaid) \in Nat BY <1>2, TalkIs
<1>4. rTools' \in Batches BY <1>1 DEF Repl!NoTools, Batches
<1>5. torn' \in BOOLEAN BY <1>1, <1>2
<1>6. IsTalk(SubSeq(answered, 1, l))
  <2>1. CASE l \in Nat
    <3>1. l <= Len(answered) /\ 1 \in Nat /\ 1 # 0 BY <1>3
    <3> HIDE DEF l
    <3> QED BY <1>2, <2>1, <3>1, TalkCut
  <2>2. CASE l \notin Nat
    <3>1. l \in Int /\ l < 1 BY <1>3, <2>2
    <3>2. PICK S : Talk(S) /\ answered \in Seq(S) BY <1>2 DEF IsTalk
    <3> HIDE DEF l
    <3>3. SubSeq(answered, 1, l) \in Seq(S) BY <3>1, <3>2
    <3> QED BY <3>2, <3>3 DEF IsTalk
  <2> QED BY <2>1, <2>2
<1> HIDE DEF l
<1>7. ReplType' BY <1>1, <1>2, <1>4, <1>5, <1>6 DEF ReplInv, ReplType
<1>8. ASSUME ~torn', ~rCompressed PROVE rDurable = answered'
  <2>1. ~torn BY <1>1, <1>8
  <2>2. CASE mode # "store"
    BY <1>1, <1>8, <2>1, <2>2 DEF ReplInv, Kept
  <2>3. CASE mode = "store"
    <3>1. Ahead /\ Writing BY <1>8, <2>1, <2>3 DEF ReplInv, Kept
    <3>2. Repl!FirstRow = start /\ start <= row /\ row <= Len(rHistory)
      BY <3>1 DEF Ahead, Writing, Repl!FirstRow
    <3>3. CASE row < Len(rHistory)
      <4>0. ~(row > start) BY <1>1, <1>8, <2>3, <3>2, <3>3
      <4>1. row = start
        <5>1. row \in Nat /\ start \in Nat /\ start <= row /\ ~(row > start) BY <1>2, <3>2, <4>0
        <5> QED BY <5>1
      <4>2. answered' = SubSeq(answered, 1, l) BY <1>1, <2>3, <3>2, <3>3, <4>1
      <4>3. rDurable \o rSaid = answered BY <3>1, <4>1 DEF Ahead, Writing
      <4>4. SubSeq(rDurable \o rSaid, 1, Len(rDurable \o rSaid) - Len(rSaid)) = rDurable BY <1>2, FrontIs
      <4> QED BY <4>2, <4>3, <4>4 DEF l
    <3>4. CASE ~(row < Len(rHistory))
      <4>1. row = Len(rHistory) /\ ~fewer BY <1>2, <1>3, <3>2, <3>4
      <4>2. answered' = answered BY <1>1, <4>1
      <4> QED BY <1>2, <3>1, <4>1, <4>2, NothingLeft DEF Writing
    <3> QED BY <3>3, <3>4
  <2> QED BY <2>2, <2>3
<1> QED BY <1>1, <1>7, <1>8 DEF ReplInv, Kept

LEMMA PromptResumes == ASSUME ReplInv, Repl!Resume PROVE ReplInv'
<1> USE DEF Repl!Resume
<1>1. ReplType' BY DEF ReplInv, ReplType
<1>2. Kept' BY DEF ReplInv, Kept
<1> QED BY <1>1, <1>2 DEF ReplInv

LEMMA PromptSteps == ASSUME ReplInv, [TalkNext]_all PROVE ReplInv'
<1>1. CASE UNCHANGED replVars
  BY <1>1 DEF replVars, ReplInv, ReplType, Kept, Ahead, Writing
<1>2. CASE Repl!ReplNext
  BY <1>2, PromptTurns, PromptTurnEnds, PromptStoresRow, PromptIsStored, PromptCommands, PromptLeaves,
     PromptResumes DEF Repl!ReplNext
<1> QED BY <1>1, <1>2 DEF TalkNext, all

\* ReplConversation's TurnsAreStored.  The rows of a session at the prompt are the turns
\* that ended with an answer, each of them whole and once: run_message stores what is
\* behind pre_len, and while nothing was compressed and no write failed, that is what
\* this turn has said; the commands and failed turns in between never touch the rows,
\* and a conversation is resumed over exactly these.
THEOREM TurnsHold == TalkSpec => []TurnsAreStored
<1>1. TalkInit => ReplInv BY PromptStarts
<1>2. ReplInv /\ [TalkNext]_all => ReplInv' BY PromptSteps
<1>3. ReplInv => TurnsAreStored BY DEF ReplInv, Kept, TurnsAreStored, Repl!TurnsAreStored
<1> QED BY <1>1, <1>2, <1>3, PTL DEF TalkSpec

\* Where each of the flattened sequences lies: o of s[i] is at starts[i] + o.
LEMMA Laid ==
  ASSUME NEW S, NEW s \in Seq(Seq(S))
  PROVE  \E starts \in [1..Len(s) -> Nat] :
           /\ \A i \in 1..Len(s) : \A o \in 1..Len(s[i]) :
                /\ starts[i] + o \in 1..Len(FlattenSeq(s))
                /\ FlattenSeq(s)[starts[i] + o] = s[i][o]
           /\ \A k \in 1..Len(FlattenSeq(s)) :
                \E i \in 1..Len(s) : \E o \in 1..Len(s[i]) : k = starts[i] + o
           /\ \A i, j \in 1..Len(s) : i < j => starts[i] + Len(s[i]) <= starts[j]
<1> DEFINE n == Len(s)
<1>1. n \in Nat /\ \A i \in 1..n : s[i] \in Seq(S) /\ Len(s[i]) \in Nat OBVIOUS
<1>2. CASE n = 0
  <2>1. s = <<>> BY <1>2
  <2>2. Len(FlattenSeq(s)) = 0 BY <2>1 DEF FlattenSeq
  <2> DEFINE z == [i \in 1..Len(s) |-> 0]
  <2>3. z \in [1..Len(s) -> Nat] OBVIOUS
  <2>4. 1..Len(s) = {} /\ 1..Len(FlattenSeq(s)) = {} BY <1>2, <2>2
  <2> HIDE DEF z
  <2> QED BY <2>3, <2>4
<1>3. CASE n # 0
  <2>1. PICK c : /\ FlattenSeq(s) = c[n]
                 /\ \A i \in 1..n : /\ c[i] \in Seq(S)
                                    /\ c[i] = IF i = 1 THEN s[i] ELSE c[i - 1] \o s[i]
    <3>1. Len(s) # 0 BY <1>3
    <3>2. \E c : /\ FlattenSeq(s) = c[Len(s)]
                 /\ \A i \in 1..Len(s) : /\ c[i] \in Seq(S)
                                          /\ c[i] = IF i = 1 THEN s[i] ELSE c[i - 1] \o s[i]
      <4> HIDE DEF n
      <4> QED BY <3>1, FlatSteps
    <3> QED BY <3>2
  <2> DEFINE starts == [i \in 1..n |-> IF i = 1 THEN 0 ELSE Len(c[i - 1])]
  <2> HIDE DEF n
  <2>2. \A i \in 1..n : Len(c[i]) \in Nat BY <2>1
  <2>3. starts \in [1..n -> Nat]
    <3>1. \A i \in 1..n : i # 1 => i - 1 \in 1..n BY <1>1
    <3> QED BY <2>2, <3>1
  <2>4. ASSUME NEW i \in 1..n
        PROVE  /\ Len(c[i]) = starts[i] + Len(s[i])
               /\ \A o \in 1..Len(s[i]) : c[i][starts[i] + o] = s[i][o]
               /\ i # 1 => /\ i - 1 \in 1..n /\ Len(c[i - 1]) \in Nat /\ starts[i] = Len(c[i - 1])
                           /\ \A k \in 1..Len(c[i - 1]) : c[i][k] = c[i - 1][k]
    <3>1. CASE i = 1
      <4>1. c[i] = s[i] /\ starts[i] = 0 BY <2>1, <3>1
      <4>2. Len(s[i]) \in Nat BY <1>1
      <4> QED BY <3>1, <4>1, <4>2
    <3>2. CASE i # 1
      <4>1. PICK m \in 1..n : m = i - 1 BY <1>1, <3>2
      <4>2. c[i] = c[m] \o s[i] /\ starts[i] = Len(c[m]) BY <2>1, <3>2, <4>1
      <4>3. c[m] \in Seq(S) /\ s[i] \in Seq(S) /\ Len(c[m]) \in Nat /\ Len(s[i]) \in Nat
        BY <1>1, <2>1, <2>2
      <4>4. PICK x \in Seq(S) : x = c[m] BY <4>3
      <4>5. PICK y \in Seq(S) : y = s[i] BY <4>3
      <4>6. /\ Len(x \o y) = Len(x) + Len(y)
            /\ \A k \in 1..Len(x) : (x \o y)[k] = x[k]
            /\ \A o \in 1..Len(y) : (x \o y)[Len(x) + o] = y[o]
        OBVIOUS
      <4> QED BY <4>1, <4>2, <4>3, <4>4, <4>5, <4>6
    <3> QED BY <3>1, <3>2
  <2> HIDE DEF starts
  <2> DEFINE Good(m) ==
        /\ \A i \in 1..m : \A o \in 1..Len(s[i]) :
             starts[i] + o \in 1..Len(c[m]) /\ c[m][starts[i] + o] = s[i][o]
        /\ \A k \in 1..Len(c[m]) : \E i \in 1..m : \E o \in 1..Len(s[i]) : k = starts[i] + o
        /\ \A i \in 1..m : starts[i] + Len(s[i]) <= Len(c[m])
  <2>5. ASSUME NEW m \in 1..n, m = 1 PROVE Good(m)
    <3>1. Len(s[m]) \in Nat BY <1>1
    <3>2. starts[m] = 0 BY <2>5 DEF starts
    <3>3. Len(c[m]) = 0 + Len(s[m]) BY <2>4, <3>2
    <3>4. Len(c[m]) = Len(s[m]) BY <3>1, <3>3
    <3>5. \A o \in 1..Len(s[m]) : c[m][0 + o] = s[m][o] /\ 0 + o = o BY <2>4, <3>2
    <3>6. \A i \in 1..m : i = m BY <2>5
    <3>7. m \in 1..m BY <2>5
    <3>8. \A o \in 1..Len(s[m]) : starts[m] + o = o BY <3>2
    <3>9. starts[m] + Len(s[m]) <= Len(c[m]) BY <3>1, <3>2, <3>4
    <3>10. \A k \in 1..Len(c[m]) : k \in 1..Len(s[m]) /\ k = starts[m] + k BY <3>4, <3>8
    <3>11. \A o \in 1..Len(s[m]) : starts[m] + o \in 1..Len(c[m]) /\ c[m][starts[m] + o] = s[m][o]
      BY <3>4, <3>5, <3>8
    <3> QED BY <3>6, <3>7, <3>9, <3>10, <3>11
  <2>6. ASSUME NEW m \in 1..n, NEW p \in 1..n, p = m - 1, Good(p) PROVE Good(m)
    <3>1. /\ Len(s[m]) \in Nat /\ Len(c[p]) \in Nat /\ starts[m] = Len(c[p])
          /\ Len(c[m]) = Len(c[p]) + Len(s[m])
          /\ \A o \in 1..Len(s[m]) : c[m][starts[m] + o] = s[m][o]
          /\ \A k \in 1..Len(c[p]) : c[m][k] = c[p][k]
      <4>1. m # 1 /\ m - 1 = p BY <1>1, <2>6
      <4> QED BY <1>1, <2>2, <2>4, <4>1
    <3>2. \A i \in 1..m : i = m \/ i \in 1..p BY <2>6
    <3>3. PICK a \in Nat : a = Len(c[p]) BY <3>1
    <3>4. PICK b \in Nat : b = Len(s[m]) BY <3>1
    <3>5. starts[m] = a /\ Len(c[m]) = a + b BY <3>1, <3>3, <3>4
    <3>6. \A i \in 1..p : starts[i] \in Nat /\ Len(s[i]) \in Nat /\ i \in 1..n BY <1>1, <2>3, <2>6
    <3>7. ASSUME NEW i \in 1..m, NEW o \in 1..Len(s[i])
          PROVE  starts[i] + o \in 1..Len(c[m]) /\ c[m][starts[i] + o] = s[i][o]
      <4>1. CASE i = m
        <5>1. o \in 1..b BY <3>4, <4>1
        <5>2. a + o \in 1..(a + b) BY <5>1
        <5> QED BY <3>1, <3>5, <4>1, <5>2
      <4>2. CASE i \in 1..p
        <5>1. starts[i] + o \in 1..Len(c[p]) /\ c[p][starts[i] + o] = s[i][o] BY <2>6, <4>2
        <5>2. starts[i] + o \in 1..a BY <3>3, <5>1
        <5>3. starts[i] + o \in 1..(a + b) BY <5>2
        <5> QED BY <3>1, <3>5, <5>1, <5>3
      <4> QED BY <3>2, <4>1, <4>2
    <3>8. ASSUME NEW k \in 1..Len(c[m])
          PROVE  \E i \in 1..m : \E o \in 1..Len(s[i]) : k = starts[i] + o
      <4>0. k \in 1..(a + b) BY <3>5
      <4>1. CASE k \in 1..a
        <5>0. k \in 1..Len(c[p]) BY <3>3, <4>1
        <5>1. PICK i \in 1..p : \E o \in 1..Len(s[i]) : k = starts[i] + o BY <2>6, <5>0
        <5>2. i \in 1..m BY <2>6
        <5> QED BY <5>1, <5>2
      <4>2. CASE k \notin 1..a
        <5>1. k - a \in 1..b /\ k = a + (k - a) BY <4>0, <4>2
        <5>2. k - a \in 1..Len(s[m]) /\ k = starts[m] + (k - a) BY <3>4, <3>5, <5>1
        <5>3. m \in 1..m OBVIOUS
        <5> QED BY <5>2, <5>3
      <4> QED BY <4>1, <4>2
    <3>9. ASSUME NEW i \in 1..m PROVE starts[i] + Len(s[i]) <= Len(c[m])
      <4>1. CASE i = m BY <3>4, <3>5, <4>1
      <4>2. CASE i \in 1..p
        <5>1. starts[i] + Len(s[i]) <= a BY <2>6, <3>3, <4>2
        <5>2. starts[i] + Len(s[i]) \in Nat BY <3>6, <4>2
        <5>3. starts[i] + Len(s[i]) <= a + b BY <5>1, <5>2
        <5> QED BY <3>5, <5>3
      <4> QED BY <3>2, <4>1, <4>2
    <3> QED BY <3>7, <3>8, <3>9
  <2> DEFINE J == {m \in Nat : m \in 1..n => Good(m)}
  <2>7. Nat \subseteq J
    <3> HIDE DEF Good
    <3>1. 0 \in J OBVIOUS
    <3>2. ASSUME NEW m \in Nat, m \in J PROVE m + 1 \in J
      <4> SUFFICES ASSUME m + 1 \in 1..n PROVE Good(m + 1)
        OBVIOUS
      <4>1. PICK k \in 1..n : k = m + 1 OBVIOUS
      <4>2. CASE m = 0
        <5>1. k = 1 BY <4>1, <4>2
        <5> QED BY <2>5, <4>1, <5>1
      <4>3. CASE m # 0
        <5>1. m \in 1..n /\ m = k - 1 BY <1>1, <4>1, <4>3
        <5>2. Good(m) BY <3>2, <5>1
        <5> QED BY <2>6, <4>1, <5>1, <5>2
      <4> QED BY <4>2, <4>3
    <3> HIDE DEF J
    <3> QED BY <3>1, <3>2, Induction
  <2>8. \A m \in 1..n : Good(m)
    <3> HIDE DEF Good
    <3> QED BY <1>1, <2>7
  <2>9. Good(n)
    <3> HIDE DEF Good
    <3> QED BY <1>1, <1>3, <2>8
  <2>10. ASSUME NEW i \in 1..n, NEW j \in 1..n, i < j PROVE starts[i] + Len(s[i]) <= starts[j]
    <3>1. PICK p \in 1..n : p = j - 1 /\ i \in 1..p BY <1>1, <2>10
    <3>2. starts[i] + Len(s[i]) <= Len(c[p])
      <4>1. Good(p)
        <5> HIDE DEF Good
        <5> QED BY <2>8
      <4> QED BY <3>1, <4>1
    <3>3. j # 1 /\ j - 1 = p BY <1>1, <3>1
    <3>4. starts[j] = Len(c[p]) BY <2>4, <3>3
    <3> QED BY <3>2, <3>4
  <2>11. /\ \A i \in 1..n : \A o \in 1..Len(s[i]) :
              starts[i] + o \in 1..Len(FlattenSeq(s)) /\ FlattenSeq(s)[starts[i] + o] = s[i][o]
         /\ \A k \in 1..Len(FlattenSeq(s)) : \E i \in 1..n : \E o \in 1..Len(s[i]) : k = starts[i] + o
    BY <2>1, <2>9
  <2> HIDE DEF Good, J
  <2> QED BY <2>3, <2>10, <2>11 DEF n
<1> QED BY <1>2, <1>3

LEMMA ListedAll ==
  ASSUME NEW S, IsFiniteSet(S)
  PROVE  /\ \A x \in S : \E i \in DOMAIN SetToSeq(S) : SetToSeq(S)[i] = x
         /\ \A i, j \in DOMAIN SetToSeq(S) : SetToSeq(S)[i] = SetToSeq(S)[j] => i = j
<1> DEFINE n == Cardinality(S)
<1>1. n \in Nat /\ ExistsBijection(1..n, S) BY FS_CardinalityType
<1>2. \E f \in [1..n -> S] : IsInjective(f)
  <2>1. PICK f \in [1..n -> S] : \A i, j \in 1..n : f[i] = f[j] => i = j
    BY <1>1 DEF ExistsBijection, Bijection, Injection, IsInjective
  <2> QED BY <2>1 DEF IsInjective
<1>3. SetToSeq(S) \in [1..n -> S] /\ IsInjective(SetToSeq(S)) BY <1>2 DEF SetToSeq
<1>4. SetToSeq(S) \in Injection(1..n, S) BY <1>3 DEF Injection, IsInjective
<1>5. Cardinality(1..n) = n BY <1>1, FS_Interval
<1>6. SetToSeq(S) \in Surjection(1..n, S) BY <1>4, <1>5, FS_Injection
<1>7. \A i, j \in DOMAIN SetToSeq(S) : SetToSeq(S)[i] = SetToSeq(S)[j] => i = j
  BY <1>3 DEF IsInjective
<1> QED BY <1>3, <1>6, <1>7 DEF Surjection

\* A finite set of numbers can be listed in order.
LEMMA Sorted ==
  ASSUME NEW S \in SUBSET Nat, IsFiniteSet(S)
  PROVE  /\ InOrder(S) \in [1..Cardinality(S) -> S]
         /\ \A i, j \in DOMAIN InOrder(S) : i < j => InOrder(S)[i] < InOrder(S)[j]
<1> DEFINE Up(s) == \A i, j \in DOMAIN s : i < j => s[i] < s[j]
           Good(n) == \A T \in SUBSET Nat : IsFiniteSet(T) /\ Cardinality(T) = n
                        => \E s \in [1..n -> T] : Up(s)
           J == {n \in Nat : Good(n)}
<1>1. 0 \in J
  <2> SUFFICES ASSUME NEW T PROVE \E s \in [1..0 -> T] : Up(s)
    OBVIOUS
  <2>1. [i \in 1..0 |-> 0] \in [1..0 -> T] /\ Up([i \in 1..0 |-> 0]) OBVIOUS
  <2> QED BY <2>1
<1>2. ASSUME NEW n \in Nat, Good(n) PROVE Good(n + 1)
  <2> SUFFICES ASSUME NEW T \in SUBSET Nat, IsFiniteSet(T), Cardinality(T) = n + 1
               PROVE  \E s \in [1..(n + 1) -> T] : Up(s)
    OBVIOUS
  <2>1. T # {} BY FS_EmptySet
  <2>2. PICK x \in T : \A y \in T : y <= x
    <3>1. \E b \in Nat : \A y \in T : y <= b
      <4>1. PICK f \in [1..(n + 1) -> T] : \A y \in T : \E i \in 1..(n + 1) : f[i] = y
        <5>1. ExistsBijection(1..(n + 1), T) BY FS_CardinalityType
        <5> QED BY <5>1 DEF ExistsBijection, Bijection, Surjection
      <4> DEFINE K == {k \in Nat : k <= n + 1 => \E b \in Nat : \A i \in 1..k : f[i] <= b}
      <4>2. 0 \in K OBVIOUS
      <4>3. ASSUME NEW k \in Nat, k \in K PROVE k + 1 \in K
        <5> SUFFICES ASSUME k + 1 <= n + 1 PROVE \E b \in Nat : \A i \in 1..(k + 1) : f[i] <= b
          OBVIOUS
        <5>1. PICK b \in Nat : \A i \in 1..k : f[i] <= b BY <4>3
        <5>2. PICK l \in 1..(n + 1) : l = k + 1 OBVIOUS
        <5>3. PICK z \in Nat : z = f[l] OBVIOUS
        <5>4. ASSUME NEW i \in 1..(k + 1) PROVE f[i] <= b + z
          <6>1. CASE i = k + 1 BY <5>2, <5>3, <6>1
          <6>2. CASE i # k + 1
            <7>1. i \in 1..k /\ i \in 1..(n + 1) BY <6>2
            <7>2. PICK y \in Nat : y = f[i] BY <7>1
            <7>3. y <= b BY <5>1, <7>1, <7>2
            <7>4. y <= b + z BY <7>3
            <7> QED BY <7>2, <7>4
          <6> QED BY <6>1, <6>2
        <5>5. b + z \in Nat OBVIOUS
        <5> QED BY <5>4, <5>5
      <4>4. n + 1 \in K
        <5> HIDE DEF K
        <5> QED BY <4>2, <4>3, Induction
      <4>5. PICK b \in Nat : \A i \in 1..(n + 1) : f[i] <= b BY <4>4
      <4> QED BY <4>1, <4>5
    <3>2. PICK b \in Nat : \A y \in T : y <= b BY <3>1
    <3>3. T \subseteq 0..b BY <3>2
    <3> QED BY <2>1, <3>3, Largest
  <2>3. IsFiniteSet(T \ {x}) /\ Cardinality(T \ {x}) = n
    <3>1. IsFiniteSet(T \ {x}) /\ Cardinality(T \ {x}) = Cardinality(T) - 1 BY <2>2, FS_RemoveElement
    <3> QED BY <3>1
  <2>4. PICK s \in [1..n -> T \ {x}] : Up(s) BY <1>2, <2>3
  <2> DEFINE r == [i \in 1..(n + 1) |-> IF i = n + 1 THEN x ELSE s[i]]
  <2>5. r \in [1..(n + 1) -> T] OBVIOUS
  <2>6. ASSUME NEW i \in 1..(n + 1), NEW j \in 1..(n + 1), i < j PROVE r[i] < r[j]
    <3>1. i \in 1..n /\ r[i] = s[i] /\ s[i] \in T \ {x} BY <2>6
    <3>2. CASE j = n + 1
      <4>1. r[j] = x /\ s[i] <= x /\ s[i] # x /\ s[i] \in Nat /\ x \in Nat BY <2>2, <3>1, <3>2
      <4> QED BY <3>1, <4>1
    <3>3. CASE j # n + 1
      <4>1. j \in 1..n /\ r[j] = s[j] BY <3>3
      <4> QED BY <2>4, <2>6, <3>1, <4>1
    <3> QED BY <3>2, <3>3
  <2>7. Up(r) BY <2>6
  <2> HIDE DEF r, Up
  <2> QED BY <2>5, <2>7
<1>3. Nat \subseteq J
  <2> HIDE DEF Good
  <2>1. \A n \in Nat : n \in J => n + 1 \in J BY <1>2
  <2> HIDE DEF J
  <2> QED BY <1>1, <2>1, Induction
<1>4. Cardinality(S) \in Nat BY FS_CardinalityType
<1>5. \E s \in [1..Cardinality(S) -> S] : Up(s)
  <2> HIDE DEF Up
  <2> QED BY <1>3, <1>4
<1>6. InOrder(S) \in [1..Cardinality(S) -> S] /\ Up(InOrder(S)) BY <1>5 DEF InOrder
<1> QED BY <1>6

\* Each of them once.
LEMMA SortedAll ==
  ASSUME NEW S \in SUBSET Nat, IsFiniteSet(S)
  PROVE  /\ \A x \in S : \E i \in 1..Cardinality(S) : InOrder(S)[i] = x
         /\ \A i, j \in 1..Cardinality(S) : InOrder(S)[i] = InOrder(S)[j] => i = j
<1> DEFINE n == Cardinality(S)
           s == InOrder(S)
<1>1. n \in Nat BY FS_CardinalityType
<1>2. s \in [1..n -> S] /\ \A i, j \in 1..n : i < j => s[i] < s[j] BY Sorted
<1>3. Cardinality(1..n) = n /\ IsFiniteSet(1..n) BY <1>1, FS_Interval
<1> HIDE DEF n, s
<1>4. ASSUME NEW i \in 1..n, NEW j \in 1..n, s[i] = s[j] PROVE i = j
  <2>1. s[i] \in Nat /\ s[j] \in Nat BY <1>2
  <2>2. ~(i < j) /\ ~(j < i) BY <1>2, <1>4, <2>1
  <2> QED BY <1>1, <2>2
<1>5. s \in Injection(1..n, S) BY <1>2, <1>4 DEF Injection, IsInjective
<1>6. Cardinality(S) = n BY DEF n
<1>7. s \in Surjection(1..n, S) BY <1>3, <1>5, <1>6, FS_Injection
<1> QED BY <1>4, <1>7 DEF Surjection, n, s

----------------------------------------------------------------------------
(* The managed runs of one session (ManagedConversation).                  *)

\* Messages in which only calls 1 to n occur.
Msgs(n) == {m \in Message : /\ m.calls \subseteq 1..n /\ m.for \in 0..n
                            /\ m.role # "assistant" => m.calls = {}}

\* A call is made by one message, and answered only behind it.
Fine(h) ==
  /\ \A i, j \in DOMAIN h : i # j => h[i].calls \cap h[j].calls = {}
  /\ \A i, k \in DOMAIN h : h[k].role = "tool" /\ h[k].for \in h[i].calls => i < k

\* Behind h[a], which makes call c, are results only, and none of them is c's.
Waits(h, a, c) ==
  c \in h[a].calls /\ \A k \in DOMAIN h : k > a => h[k].role = "tool" /\ h[k].for # c

LEMMA MessagesAre ==
  ASSUME NEW n \in Nat, NEW h \in Seq(Msgs(n))
  PROVE  /\ Len(h) \in Nat /\ DOMAIN h = 1..Len(h)
         /\ \A i \in 1..Len(h) : /\ h[i] \in Message /\ h[i] \in Msgs(n)
                                 /\ h[i].calls \subseteq 1..n /\ h[i].for \in 0..n
                                 /\ h[i].role # "assistant" => h[i].calls = {}
                                 /\ h[i].role = "tool" => h[i].calls = {}
<1>1. Len(h) \in Nat /\ DOMAIN h = 1..Len(h) /\ \A i \in 1..Len(h) : h[i] \in Msgs(n) OBVIOUS
<1> QED BY <1>1 DEF Msgs

\* The calls of Pending(h) are those that wait.
LEMMA PendingIs ==
  ASSUME NEW n \in Nat, NEW h \in Seq(Msgs(n)), NEW c
  PROVE  c \in Pending(h) <=> \E a \in DOMAIN h : Waits(h, a, c)
<1> DEFINE l == Len(h)
           I == {i \in 1..l : h[i].calls # {}}
           a == IF I # {} THEN Max(I) ELSE 0
           K == {i \in (a + 1)..l : h[i].role # "tool"}
           b == IF K # {} THEN Min(K) ELSE 0
           end == IF b = 0 THEN l ELSE b - 1
<1>1. l \in Nat /\ DOMAIN h = 1..l /\ \A i \in 1..l : h[i].role = "tool" => h[i].calls = {}
  BY MessagesAre
<1>2. /\ I = {} => a = 0
      /\ I # {} => a \in I /\ \A i \in I : i <= a
  <2> HIDE DEF I, l
  <2>1. I \subseteq 0..l /\ (I # {} => Max(I) \in I /\ \A y \in I : y <= Max(I))
    <3>1. I \subseteq 0..l BY <1>1 DEF I
    <3> QED BY <1>1, <3>1, Largest
  <2> QED BY <2>1
<1>3. SelectLastInSeq(h, LAMBDA m : m.calls # {}) = a BY DEF SelectLastInSeq
<1>4. I \subseteq 1..l OBVIOUS
<1> HIDE DEF a
<1>5. a \in Nat /\ a <= l BY <1>1, <1>2, <1>4
<1>6. /\ K = {} => b = 0
      /\ K # {} => b \in K
  <2>1. K \subseteq Nat BY <1>5
  <2> HIDE DEF K
  <2>2. ASSUME K # {} PROVE Min(K) \in K BY <2>1, <2>2, Least DEF Min
  <2> QED BY <2>2
<1>7. Results(h, a) = (a + 1)..end
  <2>1. SelectInSubSeq(h, a + 1, l, LAMBDA m : m.role # "tool") = b BY DEF SelectInSubSeq
  <2> HIDE DEF b
  <2> QED BY <2>1 DEF Results
<1>8. Results(h, a) = (a + 1)..l <=> K = {}
  <2>1. CASE K = {} BY <1>6, <1>7, <2>1
  <2>2. CASE K # {}
    <3>1. b \in (a + 1)..l BY <1>6, <2>2
    <3> HIDE DEF b, K
    <3>2. b # 0 /\ end = b - 1 BY <1>5, <3>1
    <3>3. l \in (a + 1)..l /\ l \notin (a + 1)..end BY <1>1, <1>5, <3>1, <3>2
    <3> HIDE DEF end
    <3> QED BY <1>7, <2>2, <3>3
  <2> QED BY <2>1, <2>2
<1>9. Pending(h) = IF a = 0 \/ K # {} THEN {} ELSE h[a].calls \ {h[j].for : j \in (a + 1)..l}
  <2> HIDE DEF K, b
  <2> QED BY <1>3, <1>8 DEF Pending
<1>10. ASSUME c \in Pending(h) PROVE \E x \in DOMAIN h : Waits(h, x, c)
  <2>1. a # 0 /\ K = {} /\ c \in h[a].calls /\ \A j \in (a + 1)..l : h[j].for # c
    <3> HIDE DEF K
    <3> QED BY <1>9, <1>10
  <2>2. a \in 1..l BY <1>1, <1>5, <2>1
  <2>3. \A k \in 1..l : k > a => k \in (a + 1)..l BY <1>1, <1>5
  <2>4. \A k \in (a + 1)..l : h[k].role = "tool" BY <2>1
  <2>5. Waits(h, a, c) BY <1>1, <2>1, <2>3, <2>4 DEF Waits
  <2> QED BY <1>1, <2>2, <2>5
<1>11. ASSUME NEW x \in DOMAIN h, Waits(h, x, c) PROVE c \in Pending(h)
  <2>1. x \in 1..l /\ c \in h[x].calls /\ \A k \in 1..l : k > x => h[k].role = "tool" /\ h[k].for # c
    BY <1>1, <1>11 DEF Waits
  <2>2. x \in I BY <2>1
  <2>3. \A i \in I : i <= x
    <3> SUFFICES ASSUME NEW i \in 1..l, h[i].calls # {}, i > x PROVE FALSE
      BY <1>1, <2>1
    <3> QED BY <1>1, <2>1
  <2>4. a = x
    <3>1. a \in I /\ x <= a BY <1>2, <2>2
    <3>2. a <= x BY <2>3, <3>1
    <3> HIDE DEF I
    <3> QED BY <1>1, <1>5, <2>1, <3>1, <3>2
  <2>5. a # 0 /\ \A k \in (a + 1)..l : k \in 1..l /\ k > x BY <1>1, <2>1, <2>4
  <2>6. K = {} BY <2>1, <2>5
  <2>7. \A j \in (a + 1)..l : h[j].for # c BY <2>1, <2>5
  <2>8. c \in h[a].calls \ {h[j].for : j \in (a + 1)..l} BY <2>1, <2>4, <2>7
  <2> HIDE DEF K
  <2> QED BY <1>9, <2>5, <2>6, <2>8
<1> QED BY <1>10, <1>11

LEMMA WaitingMade ==
  ASSUME NEW n \in Nat, NEW h \in Seq(Msgs(n))
  PROVE  Pending(h) \subseteq Calls(h) /\ Calls(h) \subseteq 1..n
<1>1. DOMAIN h = 1..Len(h) /\ \A i \in 1..Len(h) : h[i].calls \subseteq 1..n BY MessagesAre
<1>2. Calls(h) \subseteq 1..n BY <1>1 DEF Calls
<1>3. ASSUME NEW c \in Pending(h) PROVE c \in Calls(h)
  <2>1. PICK a \in DOMAIN h : Waits(h, a, c) BY PendingIs
  <2> QED BY <2>1 DEF Waits, Calls
<1> QED BY <1>2, <1>3

LEMMA WaitingUnanswered ==
  ASSUME NEW n \in Nat, NEW h \in Seq(Msgs(n)), Fine(h)
  PROVE  Pending(h) \cap Answered(h) = {}
<1> SUFFICES ASSUME NEW c \in Pending(h), c \in Answered(h) PROVE FALSE
  OBVIOUS
<1>1. PICK a \in DOMAIN h : Waits(h, a, c) BY PendingIs
<1>2. PICK k \in DOMAIN h : h[k].role = "tool" /\ h[k].for = c BY DEF Answered
<1>3. c \in h[a].calls BY <1>1 DEF Waits
<1>4. a < k BY <1>2, <1>3 DEF Fine
<1>5. a \in Nat /\ k \in Nat BY MessagesAre
<1>6. k > a BY <1>4, <1>5
<1> QED BY <1>1, <1>2, <1>6 DEF Waits

LEMMA AnsweredAre ==
  ASSUME NEW n \in Nat, NEW h \in Seq(Msgs(n))
  PROVE  Answered(h) \subseteq 0..n
BY MessagesAre DEF Answered

\* A message is added.
LEMMA AddedIs ==
  ASSUME NEW n \in Nat, NEW h \in Seq(Msgs(n)), NEW m \in Msgs(n)
  PROVE  /\ Append(h, m) \in Seq(Msgs(n)) /\ Len(Append(h, m)) = Len(h) + 1
         /\ DOMAIN Append(h, m) = 1..(Len(h) + 1) /\ Append(h, m)[Len(h) + 1] = m
         /\ \A i \in 1..Len(h) : Append(h, m)[i] = h[i]
         /\ \A i \in 1..(Len(h) + 1) : i \in 1..Len(h) \/ i = Len(h) + 1
<1> HIDE DEF Msgs
<1>1. Len(h) \in Nat BY MessagesAre
<1>2. /\ Append(h, m) \in Seq(Msgs(n)) /\ Len(Append(h, m)) = Len(h) + 1
      /\ Append(h, m)[Len(h) + 1] = m
      /\ \A i \in 1..Len(h) : Append(h, m)[i] = h[i]
  OBVIOUS
<1>3. DOMAIN Append(h, m) = 1..(Len(h) + 1) BY <1>2, MessagesAre
<1> QED BY <1>1, <1>2, <1>3

LEMMA AnsweredAdded ==
  ASSUME NEW n \in Nat, NEW h \in Seq(Msgs(n)), NEW m \in Msgs(n)
  PROVE  Answered(Append(h, m)) = Answered(h) \cup (IF m.role = "tool" THEN {m.for} ELSE {})
<1>1. DOMAIN h = 1..Len(h) /\ Len(h) \in Nat BY MessagesAre
<1> DEFINE g == Append(h, m)
<1>2. /\ DOMAIN g = 1..(Len(h) + 1) /\ g[Len(h) + 1] = m /\ \A i \in 1..Len(h) : g[i] = h[i]
      /\ \A i \in 1..(Len(h) + 1) : i \in 1..Len(h) \/ i = Len(h) + 1
      /\ Len(h) + 1 \in 1..(Len(h) + 1) /\ 1..Len(h) \subseteq 1..(Len(h) + 1)
  BY <1>1, AddedIs
<1> HIDE DEF g
<1>3. ASSUME NEW c \in Answered(g) PROVE c \in Answered(h) \/ (m.role = "tool" /\ c = m.for)
  <2>1. PICK k \in DOMAIN g : g[k].role = "tool" /\ c = g[k].for BY DEF Answered
  <2>2. CASE k = Len(h) + 1 BY <1>2, <2>1, <2>2
  <2>3. CASE k \in 1..Len(h)
    <3>1. h[k].role = "tool" /\ c = h[k].for /\ k \in DOMAIN h BY <1>1, <1>2, <2>1, <2>3
    <3> QED BY <3>1 DEF Answered
  <2> QED BY <1>2, <2>1, <2>2, <2>3
<1>4. ASSUME NEW c \in Answered(h) PROVE c \in Answered(g)
  <2>1. PICK k \in 1..Len(h) : h[k].role = "tool" /\ c = h[k].for BY <1>1 DEF Answered
  <2>2. k \in DOMAIN g /\ g[k].role = "tool" /\ c = g[k].for BY <1>2, <2>1
  <2> QED BY <2>2 DEF Answered
<1>5. ASSUME m.role = "tool" PROVE m.for \in Answered(g)
  <2>1. Len(h) + 1 \in DOMAIN g /\ g[Len(h) + 1].role = "tool" /\ m.for = g[Len(h) + 1].for
    BY <1>2, <1>5
  <2> QED BY <2>1 DEF Answered
<1> QED BY <1>3, <1>4, <1>5 DEF g

\* Something else than a result ends the waiting of all calls before it.
LEMMA WaitingAdded ==
  ASSUME NEW n \in Nat, NEW h \in Seq(Msgs(n)), NEW m \in Msgs(n), m.role # "tool"
  PROVE  Pending(Append(h, m)) \subseteq m.calls
<1> SUFFICES ASSUME NEW c \in Pending(Append(h, m)) PROVE c \in m.calls
  OBVIOUS
<1> DEFINE g == Append(h, m)
<1>1. Len(h) \in Nat BY MessagesAre
<1>2. /\ g \in Seq(Msgs(n)) /\ DOMAIN g = 1..(Len(h) + 1) /\ g[Len(h) + 1] = m
      /\ \A i \in 1..(Len(h) + 1) : i \in 1..Len(h) \/ i = Len(h) + 1
  BY AddedIs
<1>3. c \in Pending(g) OBVIOUS
<1> HIDE DEF g
<1>4. PICK a \in DOMAIN g : Waits(g, a, c) BY <1>2, <1>3, PendingIs
<1>5. a = Len(h) + 1
  <2>1. Len(h) + 1 \in DOMAIN g BY <1>1, <1>2
  <2>2. ~(Len(h) + 1 > a) BY <1>2, <1>4, <2>1 DEF Waits
  <2>3. a \in 1..(Len(h) + 1) BY <1>2
  <2> QED BY <1>1, <2>2, <2>3
<1> QED BY <1>2, <1>4, <1>5 DEF Waits

LEMMA FineAdded ==
  ASSUME NEW n \in Nat, NEW h \in Seq(Msgs(n)), Fine(h), NEW m \in Msgs(n),
         m.role # "tool", m.calls \cap Calls(h) = {}, m.calls \cap Answered(h) = {}
  PROVE  Fine(Append(h, m))
<1> DEFINE g == Append(h, m)
           l == Len(h)
<1>1. l \in Nat /\ DOMAIN h = 1..l BY MessagesAre
<1>2. /\ g \in Seq(Msgs(n)) /\ DOMAIN g = 1..(l + 1) /\ g[l + 1] = m
      /\ \A i \in 1..l : g[i] = h[i]
      /\ \A i \in 1..(l + 1) : i \in 1..l \/ i = l + 1
  BY AddedIs
<1> HIDE DEF g, l
<1>3. \A i \in 1..l : h[i].calls \cap m.calls = {} BY <1>1 DEF Calls
<1>4. \A i \in 1..l : h[i].role = "tool" => h[i].for \notin m.calls BY <1>1 DEF Answered
<1>5. ASSUME NEW i \in 1..(l + 1), NEW j \in 1..(l + 1), i # j
      PROVE  g[i].calls \cap g[j].calls = {}
  <2>1. CASE i \in 1..l /\ j \in 1..l BY <1>1, <1>2, <1>5, <2>1 DEF Fine
  <2>2. CASE i \in 1..l /\ j = l + 1 BY <1>2, <1>3, <2>2
  <2>3. CASE i = l + 1 /\ j \in 1..l BY <1>2, <1>3, <2>3
  <2> QED BY <1>2, <1>5, <2>1, <2>2, <2>3
<1>6. ASSUME NEW i \in 1..(l + 1), NEW k \in 1..(l + 1), g[k].role = "tool", g[k].for \in g[i].calls
      PROVE  i < k
  <2>1. k \in 1..l BY <1>2, <1>6
  <2>2. CASE i \in 1..l
    <3>1. h[k].role = "tool" /\ h[k].for \in h[i].calls BY <1>2, <1>6, <2>1, <2>2
    <3> QED BY <1>1, <2>1, <2>2, <3>1 DEF Fine
  <2>3. CASE i = l + 1
    <3>1. h[k].role = "tool" /\ h[k].for \in m.calls BY <1>2, <1>6, <2>1, <2>3
    <3> QED BY <1>4, <2>1, <3>1
  <2> QED BY <1>2, <2>2, <2>3
<1> QED BY <1>2, <1>5, <1>6 DEF Fine, g

\* The first p messages.
LEMMA FrontOf ==
  ASSUME NEW n \in Nat, NEW h \in Seq(Msgs(n)), NEW p \in 0..Len(h)
  PROVE  /\ SubSeq(h, 1, p) \in Seq(Msgs(n)) /\ Len(SubSeq(h, 1, p)) = p
         /\ \A i \in 1..p : SubSeq(h, 1, p)[i] = h[i]
<1> HIDE DEF Msgs
<1>1. Len(h) \in Nat /\ \A i \in 1..Len(h) : h[i] \in Msgs(n) BY MessagesAre
<1>2. p \in Nat /\ \A i \in 1..p : i \in 1..Len(h) BY <1>1
<1>3. \A i \in 1..p : h[i] \in Msgs(n) BY <1>1, <1>2
<1>4. /\ SubSeq(h, 1, p) \in Seq(Msgs(n))
      /\ Len(SubSeq(h, 1, p)) = IF 1 <= p THEN p - 1 + 1 ELSE 0
      /\ \A i \in 1..(p - 1 + 1) : SubSeq(h, 1, p)[i] = h[1 + i - 1]
  BY <1>2, <1>3, SubSeqProperties
<1>5. p - 1 + 1 = p /\ (1 <= p \/ p = 0) /\ \A i \in 1..p : 1 + i - 1 = i BY <1>2
<1> QED BY <1>4, <1>5

LEMMA FineFront ==
  ASSUME NEW n \in Nat, NEW h \in Seq(Msgs(n)), NEW d \in Seq(Msgs(n)), IsPrefix(d, h), Fine(h)
  PROVE  Fine(d)
<1>1. /\ DOMAIN h = 1..Len(h) /\ DOMAIN d = 1..Len(d) /\ Len(h) \in Nat /\ Len(d) \in Nat
  BY MessagesAre
<1>2. Len(d) <= Len(h) /\ SubSeq(d, 1, Len(d)) = SubSeq(h, 1, Len(d)) BY DEF IsPrefix
<1>3. Len(d) \in 0..Len(h) /\ Len(d) \in 0..Len(d) BY <1>1, <1>2
<1>4. ASSUME NEW i \in 1..Len(d) PROVE d[i] = h[i] /\ i \in DOMAIN h
  <2>1. d[i] = SubSeq(d, 1, Len(d))[i] BY <1>3, FrontOf
  <2>2. h[i] = SubSeq(h, 1, Len(d))[i] BY <1>3, FrontOf
  <2> QED BY <1>1, <1>2, <2>1, <2>2
<1> QED BY <1>1, <1>4 DEF Fine

\* Another message is copied from the history to the rows.
LEMMA FrontGrows ==
  ASSUME NEW n \in Nat, NEW h \in Seq(Msgs(n)), NEW p \in Nat, p < Len(h)
  PROVE  /\ p + 1 \in 1..Len(h) /\ h[p + 1] \in Msgs(n)
         /\ Append(SubSeq(h, 1, p), h[p + 1]) = SubSeq(h, 1, p + 1)
<1> HIDE DEF Msgs
<1>1. Len(h) \in Nat BY MessagesAre
<1>2. p \in 0..Len(h) /\ p + 1 \in 0..Len(h) /\ p + 1 \in 1..Len(h) BY <1>1
<1>3. h[p + 1] \in Msgs(n) BY <1>2, MessagesAre
<1> DEFINE a == SubSeq(h, 1, p)
           b == SubSeq(h, 1, p + 1)
<1>4. a \in Seq(Msgs(n)) /\ Len(a) = p /\ \A i \in 1..p : a[i] = h[i] BY <1>2, FrontOf
<1>5. b \in Seq(Msgs(n)) /\ Len(b) = p + 1 /\ \A i \in 1..(p + 1) : b[i] = h[i] BY <1>2, FrontOf
<1> HIDE DEF a, b
<1>6. /\ Append(a, h[p + 1]) \in Seq(Msgs(n)) /\ Len(Append(a, h[p + 1])) = p + 1
      /\ Append(a, h[p + 1])[p + 1] = h[p + 1] /\ \A i \in 1..p : Append(a, h[p + 1])[i] = a[i]
      /\ \A i \in 1..(p + 1) : i \in 1..p \/ i = p + 1
  BY <1>3, <1>4, AddedIs
<1>7. \A i \in 1..(p + 1) : Append(a, h[p + 1])[i] = b[i] BY <1>4, <1>5, <1>6
<1>8. Append(a, h[p + 1]) = b BY <1>5, <1>6, <1>7, SeqEqual
<1> QED BY <1>2, <1>3, <1>8 DEF a, b

\* Two transcripts joined.
LEMMA JoinOf ==
  ASSUME NEW n \in Nat, NEW h \in Seq(Msgs(n)), NEW t \in Seq(Msgs(n))
  PROVE  /\ h \o t \in Seq(Msgs(n)) /\ DOMAIN (h \o t) = 1..(Len(h) + Len(t))
         /\ Len(h \o t) = Len(h) + Len(t) /\ Len(h) \in Nat /\ Len(t) \in Nat
         /\ \A i \in 1..Len(h) : (h \o t)[i] = h[i]
         /\ \A i \in 1..Len(t) : (h \o t)[Len(h) + i] = t[i]
         /\ \A i \in 1..(Len(h) + Len(t)) : i \in 1..Len(h) \/ \E j \in 1..Len(t) : i = Len(h) + j
<1> HIDE DEF Msgs
<1>1. Len(h) \in Nat /\ Len(t) \in Nat BY MessagesAre
<1>2. /\ h \o t \in Seq(Msgs(n)) /\ Len(h \o t) = Len(h) + Len(t)
      /\ \A i \in 1..Len(h) : (h \o t)[i] = h[i]
      /\ \A i \in 1..Len(t) : (h \o t)[Len(h) + i] = t[i]
  OBVIOUS
<1>3. DOMAIN (h \o t) = 1..(Len(h) + Len(t)) BY <1>2, MessagesAre
<1>4. ASSUME NEW i \in 1..(Len(h) + Len(t)), i \notin 1..Len(h)
      PROVE  \E j \in 1..Len(t) : i = Len(h) + j
  <2>1. PICK a \in Nat : a = Len(h) BY <1>1
  <2>2. PICK b \in Nat : b = Len(t) BY <1>1
  <2>3. i - a \in 1..b /\ i = a + (i - a) BY <1>4, <2>1, <2>2
  <2> QED BY <2>1, <2>2, <2>3
<1> QED BY <1>1, <1>2, <1>3, <1>4

\* The messages that were there stay where they are.
LEMMA FrontStays ==
  ASSUME NEW n \in Nat, NEW h \in Seq(Msgs(n)), NEW t \in Seq(Msgs(n)), NEW p \in 0..Len(h)
  PROVE  SubSeq(h \o t, 1, p) = SubSeq(h, 1, p)
<1>1. /\ h \o t \in Seq(Msgs(n)) /\ Len(h \o t) = Len(h) + Len(t) /\ Len(h) \in Nat /\ Len(t) \in Nat
      /\ \A i \in 1..Len(h) : (h \o t)[i] = h[i]
  BY JoinOf
<1>2. p \in 0..Len(h \o t) /\ \A i \in 1..p : i \in 1..Len(h) BY <1>1
<1> DEFINE a == SubSeq(h, 1, p)
           b == SubSeq(h \o t, 1, p)
<1>3. a \in Seq(Msgs(n)) /\ Len(a) = p /\ \A i \in 1..p : a[i] = h[i] BY FrontOf
<1>4. b \in Seq(Msgs(n)) /\ Len(b) = p /\ \A i \in 1..p : b[i] = (h \o t)[i] BY <1>1, <1>2, FrontOf
<1>5. \A i \in 1..p : a[i] = b[i] BY <1>1, <1>2, <1>3, <1>4
<1> HIDE DEF a, b, Msgs
<1>6. a = b BY <1>3, <1>4, <1>5, SeqEqual
<1> QED BY <1>6 DEF a, b

\* Results are added: fewer calls wait.
LEMMA WaitingAnswered ==
  ASSUME NEW n \in Nat, NEW h \in Seq(Msgs(n)), NEW t \in Seq(Msgs(n)),
         \A i \in 1..Len(t) : t[i].role = "tool"
  PROVE  /\ Pending(h \o t) \subseteq Pending(h)
         /\ Fine(h) => Fine(h \o t)
<1> DEFINE g == h \o t
           l == Len(h)
<1>1. /\ g \in Seq(Msgs(n)) /\ DOMAIN g = 1..(l + Len(t)) /\ l \in Nat /\ Len(t) \in Nat
      /\ \A i \in 1..l : g[i] = h[i]
      /\ \A i \in 1..Len(t) : g[l + i] = t[i]
      /\ \A i \in 1..(l + Len(t)) : i \in 1..l \/ \E j \in 1..Len(t) : i = l + j
  BY JoinOf
<1>2. DOMAIN h = 1..l /\ \A i \in 1..Len(t) : t[i].calls = {} BY MessagesAre
<1>3. 1..l \subseteq DOMAIN g BY <1>1
<1> HIDE DEF g, l
<1>4. \A i \in DOMAIN g : i \in 1..l \/ (g[i].role = "tool" /\ g[i].calls = {} /\ \A j \in 1..l : j < i)
  <2> SUFFICES ASSUME NEW i \in DOMAIN g, i \notin 1..l
               PROVE  g[i].role = "tool" /\ g[i].calls = {} /\ \A j \in 1..l : j < i
    OBVIOUS
  <2>1. PICK j \in 1..Len(t) : i = l + j BY <1>1
  <2>2. g[i] = t[j] BY <1>1, <2>1
  <2>3. \A k \in 1..l : k < i BY <1>1, <2>1
  <2> QED BY <1>2, <2>2, <2>3
<1>5. ASSUME NEW c \in Pending(g) PROVE c \in Pending(h)
  <2>1. PICK a \in DOMAIN g : Waits(g, a, c) BY <1>1, PendingIs
  <2>2. a \in 1..l BY <1>4, <2>1 DEF Waits
  <2>3. Waits(h, a, c) BY <1>1, <1>2, <1>3, <2>1, <2>2 DEF Waits
  <2> QED BY <1>2, <2>2, <2>3, PendingIs
<1>6. ASSUME Fine(h) PROVE Fine(g)
  <2>1. ASSUME NEW i \in DOMAIN g, NEW j \in DOMAIN g, i # j PROVE g[i].calls \cap g[j].calls = {}
    <3>1. CASE i \in 1..l /\ j \in 1..l BY <1>1, <1>2, <1>6, <2>1, <3>1 DEF Fine
    <3> QED BY <1>4, <3>1
  <2>2. ASSUME NEW i \in DOMAIN g, NEW k \in DOMAIN g, g[k].role = "tool", g[k].for \in g[i].calls
        PROVE  i < k
    <3>1. i \in 1..l BY <1>4, <2>2
    <3>2. CASE k \in 1..l BY <1>1, <1>2, <1>6, <2>2, <3>1, <3>2 DEF Fine
    <3> QED BY <1>4, <3>1, <3>2
  <2> QED BY <2>1, <2>2 DEF Fine
<1> QED BY <1>5, <1>6 DEF g

\* One message in place of those between the first p and the last.  Where message i
\* of the result was before.
From(p, t, i) == IF i <= p THEN i ELSE t + (i - p - 1) - 1

LEMMA SummaryIs ==
  ASSUME NEW n \in Nat, NEW h \in Seq(Msgs(n)), NEW p \in Nat, NEW t \in Nat,
         p + 1 < t, t <= Len(h)
  PROVE  /\ Summarized(h, p, t) \in Seq(Msgs(n))
         /\ DOMAIN Summarized(h, p, t) = 1..(p + 1 + (Len(h) - t + 1))
         /\ Summarized(h, p, t)[p + 1] = User(Synthetic)
         /\ \A i \in DOMAIN Summarized(h, p, t) : i # p + 1 =>
              From(p, t, i) \in 1..Len(h) /\ Summarized(h, p, t)[i] = h[From(p, t, i)]
<1> DEFINE l == Len(h)
           x == SubSeq(h, 1, p)
           u == <<User(Synthetic)>>
           y == SubSeq(h, t, l)
           s == (x \o u) \o y
<1>1. l \in Nat /\ DOMAIN h = 1..l /\ \A i \in 1..l : h[i] \in Msgs(n) BY MessagesAre
<1>2. p \in 0..l /\ t \in 1..l /\ l - t + 1 \in Nat BY <1>1
<1>3. x \in Seq(Msgs(n)) /\ Len(x) = p /\ \A i \in 1..p : x[i] = h[i] BY <1>2, FrontOf
<1>4. User(Synthetic) \in Msgs(n) /\ User(Synthetic).calls = {} /\ User(Synthetic).role = "user"
  BY DEF User, Synthetic, Msgs, Message, NoCall
<1>5. u \in Seq(Msgs(n)) /\ Len(u) = 1 /\ u[1] = User(Synthetic)
  <2> HIDE DEF Msgs
  <2> QED BY <1>4
<1>6. y \in Seq(Msgs(n)) /\ Len(y) = l - t + 1 /\ \A i \in 1..(l - t + 1) : y[i] = h[t + i - 1]
  <2> HIDE DEF l, Msgs
  <2>1. \A i \in t..l : h[i] \in Msgs(n) BY <1>1, <1>2
  <2>2. /\ SubSeq(h, t, l) \in Seq(Msgs(n))
        /\ Len(SubSeq(h, t, l)) = IF t <= l THEN l - t + 1 ELSE 0
        /\ \A i \in 1..(l - t + 1) : SubSeq(h, t, l)[i] = h[t + i - 1]
    BY <1>1, <1>2, <2>1, SubSeqProperties
  <2> QED BY <1>2, <2>2
<1>7. Summarized(h, p, t) = s BY DEF Summarized
<1> HIDE DEF x, u, y
<1>8. /\ x \o u \in Seq(Msgs(n)) /\ Len(x \o u) = p + 1
      /\ \A i \in 1..p : (x \o u)[i] = h[i]
      /\ (x \o u)[p + 1] = User(Synthetic)
  <2>1. /\ x \o u \in Seq(Msgs(n)) /\ Len(x \o u) = Len(x) + Len(u)
        /\ \A i \in 1..Len(x) : (x \o u)[i] = x[i]
        /\ \A i \in 1..Len(u) : (x \o u)[Len(x) + i] = u[i]
    BY <1>3, <1>5, JoinOf
  <2>2. 1 \in 1..Len(u) BY <1>5
  <2> QED BY <1>3, <1>5, <2>1, <2>2
<1> DEFINE z == x \o u
           at(i) == From(p, t, i)
<1> HIDE DEF l
<1>9. /\ s \in Seq(Msgs(n)) /\ DOMAIN s = 1..(p + 1 + (l - t + 1))
      /\ \A i \in DOMAIN s : \/ i = p + 1 /\ s[i] = User(Synthetic)
                             \/ i # p + 1 /\ at(i) \in 1..l /\ s[i] = h[at(i)]
  <2>1. z \in Seq(Msgs(n)) /\ Len(z) = p + 1 BY <1>8
  <2> HIDE DEF z
  <2>2. /\ z \o y \in Seq(Msgs(n)) /\ DOMAIN (z \o y) = 1..(Len(z) + Len(y))
        /\ \A i \in 1..Len(z) : (z \o y)[i] = z[i]
        /\ \A i \in 1..Len(y) : (z \o y)[Len(z) + i] = y[i]
        /\ \A i \in 1..(Len(z) + Len(y)) : i \in 1..Len(z) \/ \E j \in 1..Len(y) : i = Len(z) + j
    <3>1. y \in Seq(Msgs(n)) /\ z \in Seq(Msgs(n)) BY <1>6, <2>1
    <3> QED BY <3>1, JoinOf
  <2>3. s = z \o y BY DEF z
  <2>4. PICK b \in Nat : b = l - t + 1 BY <1>2
  <2>5. /\ DOMAIN s = 1..(p + 1 + b) /\ s \in Seq(Msgs(n))
        /\ \A i \in 1..(p + 1) : s[i] = z[i]
        /\ \A j \in 1..b : s[p + 1 + j] = h[t + j - 1]
        /\ \A i \in 1..(p + 1 + b) : i \in 1..(p + 1) \/ \E j \in 1..b : i = p + 1 + j
    <3>1. Len(y) = b /\ \A j \in 1..b : y[j] = h[t + j - 1] BY <1>6, <2>4
    <3>2. /\ s \in Seq(Msgs(n)) /\ DOMAIN s = 1..(p + 1 + b)
          /\ \A i \in 1..(p + 1) : s[i] = z[i]
          /\ \A j \in 1..b : s[p + 1 + j] = y[j]
          /\ \A i \in 1..(p + 1 + b) : i \in 1..(p + 1) \/ \E j \in 1..b : i = p + 1 + j
      <4> HIDE DEF s
      <4>1. Len(z) = p + 1 /\ Len(y) = b BY <2>1, <3>1
      <4> QED BY <2>2, <2>3, <4>1
    <3> HIDE DEF s
    <3> QED BY <3>1, <3>2
  <2> HIDE DEF s
  <2>6. ASSUME NEW i \in DOMAIN s
        PROVE  \/ i = p + 1 /\ s[i] = User(Synthetic)
               \/ i # p + 1 /\ at(i) \in 1..l /\ s[i] = h[at(i)]
    <3>1. CASE i = p + 1
      <4>1. s[p + 1] = z[p + 1] BY <2>5
      <4>2. z[p + 1] = User(Synthetic) BY <1>8 DEF z
      <4> QED BY <3>1, <4>1, <4>2
    <3>2. CASE i \in 1..p
      <4>1. s[i] = z[i] BY <2>5, <3>2
      <4>2. z[i] = h[i] BY <1>8, <3>2 DEF z
      <4>3. at(i) = i /\ i \in 1..l /\ i # p + 1
        <5>1. i <= p /\ i \in Nat /\ i # p + 1 /\ i >= 1 BY <3>2
        <5>2. i <= l BY <1>1, <1>2, <5>1
        <5> QED BY <1>1, <5>1, <5>2 DEF From
      <4> QED BY <4>1, <4>2, <4>3
    <3>3. CASE \E j \in 1..b : i = p + 1 + j
      <4>1. PICK j \in 1..b : i = p + 1 + j BY <3>3
      <4>2. at(i) = t + j - 1 /\ t + j - 1 \in 1..l /\ i # p + 1 BY <1>1, <1>2, <2>4, <4>1 DEF From
      <4>3. s[i] = h[t + j - 1] BY <2>5, <4>1
      <4> QED BY <4>2, <4>3
    <3>4. i \in 1..p \/ i = p + 1 \/ \E j \in 1..b : i = p + 1 + j
      <4>1. i \in 1..(p + 1) \/ \E j \in 1..b : i = p + 1 + j BY <2>5
      <4>2. i \in 1..(p + 1) => i \in 1..p \/ i = p + 1 OBVIOUS
      <4> QED BY <4>1, <4>2
    <3> QED BY <3>1, <3>2, <3>3, <3>4
  <2> QED BY <2>4, <2>5, <2>6
<1>10. s[p + 1] = User(Synthetic)
  <2>1. p + 1 \in DOMAIN s BY <1>2, <1>9
  <2> QED BY <1>9, <2>1
<1> HIDE DEF s
<1> QED BY <1>7, <1>9, <1>10 DEF l

LEMMA UserIs == User(Synthetic).calls = {} /\ User(Synthetic).role = "user"
BY DEF User

LEMMA SummaryFine ==
  ASSUME NEW n \in Nat, NEW h \in Seq(Msgs(n)), NEW p \in Nat, NEW t \in Nat,
         p + 1 < t, t <= Len(h), Fine(h)
  PROVE  Fine(Summarized(h, p, t))
<1> DEFINE l == Len(h)
           s == Summarized(h, p, t)
           at(i) == From(p, t, i)
<1>1. l \in Nat /\ DOMAIN h = 1..l BY MessagesAre
<1>4. User(Synthetic).calls = {} /\ User(Synthetic).role = "user" BY UserIs
<1>9. /\ DOMAIN s = 1..(p + 1 + (l - t + 1))
      /\ \A i \in DOMAIN s : \/ i = p + 1 /\ s[i] = User(Synthetic)
                             \/ i # p + 1 /\ at(i) \in 1..l /\ s[i] = h[at(i)]
  <2>1. /\ DOMAIN s = 1..(p + 1 + (l - t + 1)) /\ s[p + 1] = User(Synthetic)
        /\ \A i \in DOMAIN s : i # p + 1 => at(i) \in 1..l /\ s[i] = h[at(i)]
    BY SummaryIs
  <2> HIDE DEF s, at, l
  <2> QED BY <2>1
<1> HIDE DEF l
<1>10. Fine(s)
  <2> HIDE DEF s, at
  <2>1. ASSUME NEW i \in DOMAIN s, NEW j \in DOMAIN s, i # p + 1, j # p + 1
        PROVE  (i < j <=> at(i) < at(j)) /\ (i # j => at(i) # at(j))
    <3>1. i \in Int /\ j \in Int
      <4>1. DOMAIN s \subseteq Int BY <1>9
      <4> QED BY <4>1
    <3>2. CASE i <= p BY <2>1, <3>1, <3>2 DEF at, From
    <3>3. CASE i > p
      <4>1. i > p + 1 BY <2>1, <3>1, <3>3
      <4> QED BY <2>1, <3>1, <4>1 DEF at, From
    <3> QED BY <3>1, <3>2, <3>3
  <2>2. ASSUME NEW i \in DOMAIN s, NEW j \in DOMAIN s, i # j PROVE s[i].calls \cap s[j].calls = {}
    <3>1. CASE i = p + 1 \/ j = p + 1 BY <1>4, <1>9, <3>1
    <3>2. CASE i # p + 1 /\ j # p + 1
      <4>1. /\ at(i) # at(j) /\ at(i) \in DOMAIN h /\ at(j) \in DOMAIN h
            /\ s[i] = h[at(i)] /\ s[j] = h[at(j)]
        BY <1>1, <1>9, <2>1, <2>2, <3>2
      <4> QED BY <4>1 DEF Fine
    <3> QED BY <3>1, <3>2
  <2>3. ASSUME NEW i \in DOMAIN s, NEW k \in DOMAIN s, s[k].role = "tool", s[k].for \in s[i].calls
        PROVE  i < k
    <3>1. i # p + 1 /\ k # p + 1 BY <1>4, <1>9, <2>3
    <3>2. /\ at(i) \in DOMAIN h /\ at(k) \in DOMAIN h
          /\ s[i] = h[at(i)] /\ s[k] = h[at(k)]
      BY <1>1, <1>9, <3>1
    <3>3. at(i) < at(k) BY <2>3, <3>2 DEF Fine
    <3> QED BY <2>1, <3>1, <3>3
  <2> QED BY <2>2, <2>3 DEF Fine
<1> QED BY <1>10 DEF s

\* What becomes of message m: itself, with results for its calls that have none.
Cleaned(h, m, b) ==
  /\ Len(b) \in Nat
  /\ m.role # "tool" \/ m.for \in Calls(h) => Len(b) >= 1 /\ b[1] = m
  /\ \A o \in 1..Len(b) :
       \/ o = 1 /\ b[o] = m
       \/ o > 1 /\ b[o].role = "tool" /\ b[o].calls = {} /\ b[o].for \in m.calls \ Answered(h)
  /\ \A c \in m.calls \ Answered(h) : \E o \in 1..Len(b) : b[o].role = "tool" /\ b[o].for = c
  /\ \A o, q \in 1..Len(b) : o > 1 /\ q > 1 /\ b[o].for = b[q].for => o = q

LEMMA SanitizedIs ==
  ASSUME NEW n \in Nat, NEW h \in Seq(Msgs(n)), NEW m \in Msgs(n)
  PROVE  Sanitized(h, m) \in Seq(Msgs(n)) /\ Cleaned(h, m, Sanitized(h, m))
<1> DEFINE C == m.calls \ Answered(h)
           u == Unanswered(h, m)
           r == [c \in DOMAIN u |-> ToolResult(Synthetic, u[c])]
           b == Sanitized(h, m)
<1>1. m.calls \subseteq 1..n /\ (m.role = "tool" => m.calls = {}) BY DEF Msgs
<1>2. IsFiniteSet(C)
  <2>1. IsFiniteSet(1..n) BY FS_Interval
  <2> QED BY <1>1, <2>1, FS_Subset
<1>3. /\ u \in [1..Cardinality(C) -> C] /\ Cardinality(C) \in Nat
      /\ \A c \in C : \E i \in DOMAIN u : u[i] = c
      /\ \A i, j \in DOMAIN u : u[i] = u[j] => i = j
  <2>1. u = SetToSeq(C) BY DEF Unanswered
  <2> HIDE DEF u, C
  <2> QED BY <1>2, <2>1, Listed, ListedAll
<1> DEFINE k == Cardinality(C)
<1> HIDE DEF u, k
<1>4. \A c \in C : /\ ToolResult(Synthetic, c) \in Msgs(n)
                   /\ ToolResult(Synthetic, c).role = "tool" /\ ToolResult(Synthetic, c).calls = {}
                   /\ ToolResult(Synthetic, c).for = c
  <2> SUFFICES ASSUME NEW c \in 1..n
               PROVE  /\ ToolResult(Synthetic, c) \in Msgs(n)
                      /\ ToolResult(Synthetic, c).role = "tool" /\ ToolResult(Synthetic, c).calls = {}
                      /\ ToolResult(Synthetic, c).for = c
    BY <1>1
  <2> QED BY DEF ToolResult, Synthetic, Msgs, Message
<1>5. /\ r \in Seq(Msgs(n)) /\ Len(r) = k /\ k \in Nat
      /\ \A i \in 1..k : r[i] = ToolResult(Synthetic, u[i]) /\ u[i] \in C
  <2> HIDE DEF Msgs, C
  <2>1. DOMAIN u = 1..k /\ k \in Nat BY <1>3 DEF k
  <2>2. \A i \in 1..k : u[i] \in C BY <1>3 DEF k
  <2>3. r \in [1..k -> Msgs(n)] /\ \A i \in 1..k : r[i] = ToolResult(Synthetic, u[i])
    BY <1>4, <2>1, <2>2
  <2> HIDE DEF r
  <2> QED BY <2>1, <2>2, <2>3
<1> HIDE DEF r
<1>6. /\ <<m>> \in Seq(Msgs(n)) /\ Len(<<m>>) = 1 /\ <<m>>[1] = m
  <2> HIDE DEF Msgs
  <2> QED OBVIOUS
<1>7. /\ <<m>> \o r \in Seq(Msgs(n)) /\ Len(<<m>> \o r) = 1 + k /\ (<<m>> \o r)[1] = m
      /\ \A i \in 1..k : (<<m>> \o r)[1 + i] = ToolResult(Synthetic, u[i])
      /\ \A o \in 1..(1 + k) : o = 1 \/ \E i \in 1..k : o = 1 + i
  <2> DEFINE x == <<m>>
  <2>1. x \in Seq(Msgs(n)) /\ Len(x) = 1 /\ x[1] = m BY <1>6
  <2> HIDE DEF x
  <2>2. /\ x \o r \in Seq(Msgs(n)) /\ Len(x \o r) = Len(x) + Len(r)
        /\ \A i \in 1..Len(x) : (x \o r)[i] = x[i]
        /\ \A i \in 1..Len(r) : (x \o r)[Len(x) + i] = r[i]
    <3>1. r \in Seq(Msgs(n)) BY <1>5
    <3> QED BY <2>1, <3>1, JoinOf
  <2>3. 1 \in 1..Len(x) BY <2>1
  <2>4. \A o \in 1..(1 + k) : o = 1 \/ \E i \in 1..k : o = 1 + i
    <3> SUFFICES ASSUME NEW o \in 1..(1 + k), o # 1 PROVE \E i \in 1..k : o = 1 + i
      OBVIOUS
    <3>1. o - 1 \in 1..k /\ o = 1 + (o - 1) BY <1>5
    <3> QED BY <3>1
  <2>5. x \o r \in Seq(Msgs(n)) /\ Len(x \o r) = 1 + k /\ (x \o r)[1] = m
    <3> HIDE DEF Msgs
    <3> QED BY <1>5, <2>1, <2>2, <2>3
  <2>6. \A i \in 1..k : (x \o r)[1 + i] = ToolResult(Synthetic, u[i]) BY <1>5, <2>1, <2>2
  <2> QED BY <2>4, <2>5, <2>6 DEF x
<1>8. CASE m.role = "tool" /\ m.for \notin Calls(h)
  <2>1. b = <<>> BY <1>8 DEF Sanitized
  <2>2. C = {} BY <1>1, <1>8
  <2>3. <<>> \in Seq(Msgs(n)) /\ Len(<<>>) = 0 OBVIOUS
  <2> HIDE DEF b
  <2> QED BY <1>8, <2>1, <2>2, <2>3 DEF b, Cleaned
<1>9. CASE ~(m.role = "tool" /\ m.for \notin Calls(h))
  <2>1. b = <<m>> \o r BY <1>9 DEF Sanitized, r, u
  <2> HIDE DEF b
  <2>2. b \in Seq(Msgs(n)) /\ Len(b) = 1 + k /\ b[1] = m /\ Len(b) \in Nat /\ Len(b) >= 1
    BY <1>5, <1>7, <2>1
  <2>3. ASSUME NEW o \in 1..Len(b), o # 1
        PROVE  o > 1 /\ b[o].role = "tool" /\ b[o].calls = {} /\ b[o].for \in C
    <3>1. PICK i \in 1..k : o = 1 + i BY <1>7, <2>2, <2>3
    <3>2. b[o] = ToolResult(Synthetic, u[i]) /\ u[i] \in C BY <1>5, <1>7, <2>1, <3>1
    <3>3. o > 1 BY <1>5, <3>1
    <3> HIDE DEF C
    <3> QED BY <1>4, <3>2, <3>3
  <2>4. ASSUME NEW c \in C PROVE \E o \in 1..Len(b) : b[o].role = "tool" /\ b[o].for = c
    <3> HIDE DEF C
    <3>1. PICK i \in 1..k : u[i] = c BY <1>3 DEF k
    <3>2. 1 + i \in 1..Len(b) BY <1>5, <2>2
    <3>3. b[1 + i] = ToolResult(Synthetic, c) BY <1>7, <2>1, <3>1
    <3> QED BY <1>4, <3>2, <3>3
  <2>5. ASSUME NEW o \in 1..Len(b), NEW q \in 1..Len(b), o > 1, q > 1, b[o].for = b[q].for PROVE o = q
    <3> HIDE DEF C
    <3>1. PICK i \in 1..k : o = 1 + i BY <1>7, <2>2, <2>5
    <3>2. PICK j \in 1..k : q = 1 + j BY <1>7, <2>2, <2>5
    <3>3. /\ b[o] = ToolResult(Synthetic, u[i]) /\ u[i] \in C
          /\ b[q] = ToolResult(Synthetic, u[j]) /\ u[j] \in C
      BY <1>5, <1>7, <2>1, <3>1, <3>2
    <3>4. b[o].for = u[i] /\ b[q].for = u[j] BY <1>4, <3>3
    <3>5. i \in DOMAIN u /\ j \in DOMAIN u BY <1>3 DEF k
    <3>6. i = j BY <1>3, <2>5, <3>4, <3>5
    <3> QED BY <3>1, <3>2, <3>6
  <2> QED BY <2>2, <2>3, <2>4, <2>5 DEF b, Cleaned
<1> QED BY <1>8, <1>9

\* Message k of the cleaned transcript is message i of h as the o-th of those it is
\* laid out as: itself first, then the results made up for its calls.
Came(h, g, starts, k, i, o) ==
  /\ k = starts[i] + o
  /\ \/ o = 1 /\ g[k] = h[i]
     \/ o > 1 /\ g[k].role = "tool" /\ g[k].calls = {} /\ g[k].for \in h[i].calls \ Answered(h)

LaidOut(h, g, starts, size) ==
  /\ starts \in [1..Len(h) -> Nat] /\ size \in [1..Len(h) -> Nat]
  /\ \A k \in DOMAIN g : \E i \in 1..Len(h) : \E o \in 1..size[i] : Came(h, g, starts, k, i, o)
  /\ \A i \in 1..Len(h) : \A o \in 1..size[i] :
       starts[i] + o \in DOMAIN g /\ Came(h, g, starts, starts[i] + o, i, o)
  /\ \A i \in 1..Len(h) :
       /\ h[i].role # "tool" \/ h[i].for \in Calls(h) => size[i] >= 1 /\ g[starts[i] + 1] = h[i]
       /\ \A c \in h[i].calls \ Answered(h) :
            \E o \in 1..size[i] : g[starts[i] + o].role = "tool" /\ g[starts[i] + o].for = c
       /\ \A o, q \in 1..size[i] :
            o > 1 /\ q > 1 /\ g[starts[i] + o].for = g[starts[i] + q].for => o = q
  /\ \A i, j \in 1..Len(h) : i < j => starts[i] + size[i] <= starts[j]

LEMMA SanitizeIs ==
  ASSUME NEW n \in Nat, NEW h \in Seq(Msgs(n))
  PROVE  /\ SanitizeToolPairs(h) \in Seq(Msgs(n))
         /\ \E starts, size : LaidOut(h, SanitizeToolPairs(h), starts, size)
<1> DEFINE l == Len(h)
           s == [i \in DOMAIN h |-> Sanitized(h, h[i])]
           g == FlattenSeq(s)
<1>1. l \in Nat /\ DOMAIN h = 1..l /\ \A i \in 1..l : h[i] \in Msgs(n) BY MessagesAre
<1>2. s \in Seq(Seq(Msgs(n))) /\ Len(s) = l /\ \A i \in 1..l : s[i] = Sanitized(h, h[i])
  <2>1. \A i \in 1..l : Sanitized(h, h[i]) \in Seq(Msgs(n)) BY <1>1, SanitizedIs
  <2> HIDE DEF l
  <2>2. s \in [1..l -> Seq(Msgs(n))] /\ \A i \in 1..l : s[i] = Sanitized(h, h[i]) BY <1>1, <2>1
  <2> HIDE DEF s
  <2> QED BY <1>1, <2>2
<1>3. SanitizeToolPairs(h) = g BY DEF SanitizeToolPairs
<1> HIDE DEF s
<1>4. g \in Seq(Msgs(n)) /\ DOMAIN g = 1..Len(g)
  <2>1. g \in Seq(Msgs(n)) BY <1>2, Flattened
  <2> HIDE DEF g
  <2> QED BY <2>1, MessagesAre
<1>5. PICK starts \in [1..Len(s) -> Nat] :
           /\ \A i \in 1..Len(s) : \A o \in 1..Len(s[i]) :
                starts[i] + o \in 1..Len(g) /\ g[starts[i] + o] = s[i][o]
           /\ \A k \in 1..Len(g) : \E i \in 1..Len(s) : \E o \in 1..Len(s[i]) : k = starts[i] + o
           /\ \A i, j \in 1..Len(s) : i < j => starts[i] + Len(s[i]) <= starts[j]
  BY <1>2, Laid
<1> DEFINE size == [i \in 1..l |-> Len(s[i])]
<1>6. \A i \in 1..l : size[i] = Len(s[i]) OBVIOUS
<1>7. ASSUME NEW i \in 1..l PROVE Cleaned(h, h[i], s[i])
  <2>1. s[i] = Sanitized(h, h[i]) /\ h[i] \in Msgs(n) BY <1>1, <1>2
  <2> QED BY <2>1, SanitizedIs
<1> HIDE DEF g, l
<1>8. size \in [1..l -> Nat]
  <2>1. \A i \in 1..l : Len(s[i]) \in Nat BY <1>7 DEF Cleaned
  <2> QED BY <2>1
<1> HIDE DEF size
<1>9. ASSUME NEW i \in 1..l, NEW o \in 1..size[i]
      PROVE  /\ starts[i] + o \in DOMAIN g /\ g[starts[i] + o] = s[i][o]
             /\ Came(h, g, starts, starts[i] + o, i, o)
  <2>1. o \in 1..Len(s[i]) /\ i \in 1..Len(s) BY <1>2, <1>6
  <2>2. starts[i] + o \in DOMAIN g /\ g[starts[i] + o] = s[i][o] BY <1>4, <1>5, <2>1
  <2>3. \/ o = 1 /\ s[i][o] = h[i]
        \/ o > 1 /\ s[i][o].role = "tool" /\ s[i][o].calls = {} /\ s[i][o].for \in h[i].calls \ Answered(h)
    BY <1>7, <2>1 DEF Cleaned
  <2> QED BY <2>2, <2>3 DEF Came
<1>10. ASSUME NEW k \in DOMAIN g
       PROVE  \E i \in 1..l : \E o \in 1..size[i] : Came(h, g, starts, k, i, o)
  <2>1. PICK i \in 1..l : \E o \in 1..Len(s[i]) : k = starts[i] + o BY <1>2, <1>4, <1>5
  <2>2. PICK o \in 1..Len(s[i]) : k = starts[i] + o BY <2>1
  <2>3. o \in 1..size[i] BY <1>6
  <2> QED BY <1>9, <2>2, <2>3
<1>11. ASSUME NEW i \in 1..l
       PROVE  /\ h[i].role # "tool" \/ h[i].for \in Calls(h) => size[i] >= 1 /\ g[starts[i] + 1] = h[i]
              /\ \A c \in h[i].calls \ Answered(h) :
                   \E o \in 1..size[i] : g[starts[i] + o].role = "tool" /\ g[starts[i] + o].for = c
              /\ \A o, q \in 1..size[i] :
                   o > 1 /\ q > 1 /\ g[starts[i] + o].for = g[starts[i] + q].for => o = q
  <2>1. size[i] = Len(s[i]) /\ size[i] \in Nat BY <1>6, <1>8
  <2>2. \A o \in 1..size[i] : g[starts[i] + o] = s[i][o] BY <1>9
  <2>3. Cleaned(h, h[i], s[i]) BY <1>7
  <2>4. ASSUME h[i].role # "tool" \/ h[i].for \in Calls(h) PROVE size[i] >= 1 /\ g[starts[i] + 1] = h[i]
    <3>1. Len(s[i]) >= 1 /\ s[i][1] = h[i] BY <2>3, <2>4 DEF Cleaned
    <3>2. 1 \in 1..size[i] BY <2>1, <3>1
    <3> QED BY <2>1, <2>2, <3>1, <3>2
  <2>5. ASSUME NEW c \in h[i].calls \ Answered(h)
        PROVE  \E o \in 1..size[i] : g[starts[i] + o].role = "tool" /\ g[starts[i] + o].for = c
    <3>1. PICK o \in 1..size[i] : s[i][o].role = "tool" /\ s[i][o].for = c BY <2>1, <2>3 DEF Cleaned
    <3> QED BY <2>2, <3>1
  <2>6. \A o, q \in 1..size[i] : o > 1 /\ q > 1 /\ s[i][o].for = s[i][q].for => o = q
    BY <2>1, <2>3 DEF Cleaned
  <2> QED BY <2>2, <2>4, <2>5, <2>6
<1>12. ASSUME NEW i \in 1..l, NEW j \in 1..l, i < j PROVE starts[i] + size[i] <= starts[j]
  <2>1. size[i] = Len(s[i]) /\ i \in 1..Len(s) /\ j \in 1..Len(s) BY <1>2, <1>6
  <2> QED BY <1>5, <1>12, <2>1
<1>13. starts \in [1..l -> Nat] BY <1>2
<1>14. LaidOut(h, g, starts, size) BY <1>8, <1>9, <1>10, <1>11, <1>12, <1>13 DEF LaidOut, l
<1> QED BY <1>3, <1>4, <1>14

\* The places of a transcript that is laid out.
LEMMA LaidAt ==
  ASSUME NEW n \in Nat, NEW h \in Seq(Msgs(n)), NEW g \in Seq(Msgs(n)), NEW starts, NEW size,
         LaidOut(h, g, starts, size)
  PROVE  /\ DOMAIN h = 1..Len(h) /\ DOMAIN g \subseteq Nat
         /\ \A i \in DOMAIN h : starts[i] \in Nat /\ size[i] \in Nat
         /\ \A k \in DOMAIN g : \A c \in g[k].calls :
              \E i \in DOMAIN h : k = starts[i] + 1 /\ g[k] = h[i] /\ c \in h[i].calls /\ 1 \in 1..size[i]
         /\ \A i, j \in DOMAIN h : \A o \in 1..size[i], q \in 1..size[j] : i < j => starts[i] + o < starts[j] + q
<1>1. /\ DOMAIN h = 1..Len(h) /\ DOMAIN g \subseteq Nat
      /\ \A i \in DOMAIN h : starts[i] \in Nat /\ size[i] \in Nat
  BY MessagesAre DEF LaidOut
<1>2. ASSUME NEW k \in DOMAIN g, NEW c \in g[k].calls
      PROVE  \E i \in DOMAIN h : k = starts[i] + 1 /\ g[k] = h[i] /\ c \in h[i].calls /\ 1 \in 1..size[i]
  <2>0. PICK i \in DOMAIN h : \E o \in 1..size[i] : Came(h, g, starts, k, i, o) BY <1>1 DEF LaidOut
  <2>1. PICK o \in 1..size[i] : Came(h, g, starts, k, i, o) BY <2>0
  <2>2. o = 1 /\ g[k] = h[i] /\ k = starts[i] + o BY <1>2, <2>1 DEF Came
  <2> QED BY <1>2, <2>1, <2>2
<1>3. ASSUME NEW i \in DOMAIN h, NEW j \in DOMAIN h, NEW o \in 1..size[i], NEW q \in 1..size[j], i < j
      PROVE  starts[i] + o < starts[j] + q
  <2>1. starts[i] + size[i] <= starts[j] BY <1>1, <1>3 DEF LaidOut
  <2>2. starts[i] \in Nat /\ size[i] \in Nat /\ starts[j] \in Nat /\ size[j] \in Nat BY <1>1
  <2> QED BY <2>1, <2>2
<1> QED BY <1>1, <1>2, <1>3

\* After the sanitizing every call has its result, and nothing else changes its order.
LEMMA SanitizeFine ==
  ASSUME NEW n \in Nat, NEW h \in Seq(Msgs(n)), NEW g \in Seq(Msgs(n)), NEW starts, NEW size,
         LaidOut(h, g, starts, size), Fine(h)
  PROVE  Fine(g) /\ \A c : \A k \in DOMAIN g : ~Waits(g, k, c)
<1>1. /\ DOMAIN h = 1..Len(h) /\ DOMAIN g \subseteq Nat
      /\ \A i \in DOMAIN h : starts[i] \in Nat /\ size[i] \in Nat
      /\ \A k \in DOMAIN g : \A c \in g[k].calls :
           \E i \in DOMAIN h : k = starts[i] + 1 /\ g[k] = h[i] /\ c \in h[i].calls /\ 1 \in 1..size[i]
      /\ \A i, j \in DOMAIN h : \A o \in 1..size[i], q \in 1..size[j] : i < j => starts[i] + o < starts[j] + q
  BY LaidAt
<1>2. \A i, j \in DOMAIN h : \A c : c \in h[i].calls /\ c \in h[j].calls => i = j BY DEF Fine
<1>3. ASSUME NEW k \in DOMAIN g, NEW m \in DOMAIN g, NEW c, c \in g[k].calls, c \in g[m].calls PROVE k = m
  <2>1. PICK i \in DOMAIN h : k = starts[i] + 1 /\ c \in h[i].calls BY <1>1, <1>3
  <2>2. PICK j \in DOMAIN h : m = starts[j] + 1 /\ c \in h[j].calls BY <1>1, <1>3
  <2>3. i = j BY <1>2, <2>1, <2>2
  <2> QED BY <2>1, <2>2, <2>3
<1>4. ASSUME NEW k \in DOMAIN g, NEW m \in DOMAIN g, g[m].role = "tool", g[m].for \in g[k].calls
      PROVE  k < m
  <2>1. PICK i \in DOMAIN h : k = starts[i] + 1 /\ g[m].for \in h[i].calls /\ 1 \in 1..size[i] BY <1>1, <1>4
  <2>0. PICK j \in DOMAIN h : \E o \in 1..size[j] : Came(h, g, starts, m, j, o) BY <1>1 DEF LaidOut
  <2>2. PICK o \in 1..size[j] : Came(h, g, starts, m, j, o) BY <2>0
  <2>3. CASE o = 1
    <3>1. g[m] = h[j] /\ m = starts[j] + o BY <2>2, <2>3 DEF Came
    <3>2. i < j BY <1>4, <2>1, <3>1 DEF Fine
    <3> QED BY <1>1, <2>1, <3>1, <3>2
  <2>4. CASE o # 1
    <3>1. g[m].for \in h[j].calls /\ m = starts[j] + o /\ o > 1 BY <2>2, <2>4 DEF Came
    <3>2. i = j BY <1>2, <2>1, <3>1
    <3>3. starts[i] \in Nat BY <1>1
    <3> QED BY <2>1, <3>1, <3>2, <3>3
  <2> QED BY <2>3, <2>4
<1>5. Fine(g) BY <1>3, <1>4 DEF Fine
<1>6. ASSUME NEW c, NEW k \in DOMAIN g, Waits(g, k, c) PROVE FALSE
  <2>1. c \in g[k].calls BY <1>6 DEF Waits
  <2>2. PICK i \in DOMAIN h : k = starts[i] + 1 /\ c \in h[i].calls BY <1>1, <2>1
  <2>3. ASSUME NEW m \in DOMAIN g, g[m].role = "tool", g[m].for = c PROVE FALSE
    <3>1. k < m BY <1>4, <2>1, <2>3
    <3>2. m > k BY <1>1, <3>1
    <3> QED BY <1>6, <2>3, <3>2 DEF Waits
  <2>4. CASE c \in Answered(h)
    <3>1. PICK j \in DOMAIN h : h[j].role = "tool" /\ h[j].for = c BY <2>4 DEF Answered
    <3>2. c \in Calls(h) BY <2>2 DEF Calls
    <3>3. size[j] >= 1 /\ g[starts[j] + 1] = h[j] BY <1>1, <3>1, <3>2 DEF LaidOut
    <3>4. 1 \in 1..size[j] BY <1>1, <3>3
    <3>5. starts[j] + 1 \in DOMAIN g BY <1>1, <3>4 DEF LaidOut
    <3> QED BY <2>3, <3>1, <3>3, <3>5
  <2>5. CASE c \notin Answered(h)
    <3>0. c \in h[i].calls \ Answered(h) BY <2>2, <2>5
    <3>3. \A e \in h[i].calls \ Answered(h) :
            \E o \in 1..size[i] : g[starts[i] + o].role = "tool" /\ g[starts[i] + o].for = e
      BY <1>1 DEF LaidOut
    <3>1. PICK o \in 1..size[i] : g[starts[i] + o].role = "tool" /\ g[starts[i] + o].for = c
      BY <3>0, <3>3
    <3>2. starts[i] + o \in DOMAIN g BY <1>1 DEF LaidOut
    <3> QED BY <2>3, <3>1, <3>2
  <2> QED BY <2>4, <2>5
<1> QED BY <1>5, <1>6

LEMMA SanitizedFine ==
  ASSUME NEW n \in Nat, NEW h \in Seq(Msgs(n)), Fine(h)
  PROVE  Fine(SanitizeToolPairs(h)) /\ Pending(SanitizeToolPairs(h)) = {}
<1> DEFINE g == SanitizeToolPairs(h)
<1>1. g \in Seq(Msgs(n)) /\ \E starts, size : LaidOut(h, g, starts, size) BY SanitizeIs
<1> HIDE DEF g
<1>2. PICK starts, size : LaidOut(h, g, starts, size) BY <1>1
<1>3. Fine(g) /\ \A c : \A k \in DOMAIN g : ~Waits(g, k, c) BY <1>1, <1>2, SanitizeFine
<1>4. Pending(g) = {} BY <1>1, <1>3, PendingIs
<1> QED BY <1>3, <1>4 DEF g

\* A compression leaves the history as it is, or no call that waits.
LEMMA Compressed ==
  ASSUME NEW n \in Nat, NEW h \in Seq(Msgs(n)), NEW p \in Nat, NEW g \in Compressions(h, p)
  PROVE  /\ g \in Seq(Msgs(n))
         /\ g = h \/ (Fine(h) => Fine(g) /\ Pending(g) = {})
<1>1. CASE g = h BY <1>1
<1>2. CASE g # h
  <2>1. PICK raw \in DOMAIN h : LET t == TailStart(h, raw) IN
          /\ t > p + 1
          /\ g = SanitizeToolPairs(Summarized(h, p, t))
    BY <1>2 DEF Compressions, Tails
  <2> DEFINE t == TailStart(h, raw)
             l == Len(h)
  <2>2. l \in Nat /\ raw \in 1..l BY MessagesAre
  <2>3. t \in 1..l
    <3> DEFINE q == IF raw <= l - MinTail + 1 THEN raw
                    ELSE IF l >= MinTail THEN l - MinTail + 1 ELSE 1
               parents == {j \in 1..(q - 1) : h[j].role = "assistant" /\ h[q].for \in h[j].calls}
    <3>1. q \in 1..l BY <2>2 DEF MinTail
    <3>2. t \in {q, Max(parents)} /\ (t # q => t = Max(parents) /\ parents # {})
      BY DEF TailStart
    <3>3. parents \subseteq 1..(q - 1) OBVIOUS
    <3> HIDE DEF q, parents, t
    <3>4. parents \subseteq 0..l /\ \A x \in parents : x \in 1..l BY <2>2, <3>1, <3>3
    <3>5. parents # {} => Max(parents) \in parents BY <2>2, <3>4, Largest
    <3> QED BY <3>1, <3>2, <3>4, <3>5
  <2> DEFINE s == Summarized(h, p, t)
  <2>4. g = SanitizeToolPairs(s) /\ t > p + 1 BY <2>1
  <2> HIDE DEF t
  <2>5. t \in Nat /\ p + 1 < t /\ t <= Len(h) BY <2>2, <2>3, <2>4
  <2>6. s \in Seq(Msgs(n)) /\ (Fine(h) => Fine(s)) BY <2>5, SummaryIs, SummaryFine
  <2> HIDE DEF s
  <2>7. SanitizeToolPairs(s) \in Seq(Msgs(n)) BY <2>6, SanitizeIs
  <2>8. Fine(h) => Fine(SanitizeToolPairs(s)) /\ Pending(SanitizeToolPairs(s)) = {} BY <2>6, SanitizedFine
  <2> QED BY <2>4, <2>7, <2>8
<1> QED BY <1>1, <1>2

LEMMA MoreCalls ==
  ASSUME NEW n \in Nat, NEW m \in Nat, n <= m, NEW h \in Seq(Msgs(n))
  PROVE  h \in Seq(Msgs(m))
<1>1. Len(h) \in Nat /\ DOMAIN h = 1..Len(h) /\ h \in [1..Len(h) -> Msgs(n)] OBVIOUS
<1>2. Msgs(n) \subseteq Msgs(m)
  <2>1. 1..n \subseteq 1..m /\ 0..n \subseteq 0..m OBVIOUS
  <2> QED BY <2>1 DEF Msgs
<1>3. h \in [1..Len(h) -> Msgs(m)] BY <1>1, <1>2
<1> QED BY <1>1, <1>3

LEMMA AllInFront ==
  ASSUME NEW n \in Nat, NEW h \in Seq(Msgs(n))
  PROVE  SubSeq(h, 1, Len(h)) = h
<1>1. Len(h) \in 0..Len(h) BY MessagesAre
<1> DEFINE a == SubSeq(h, 1, Len(h))
<1>2. a \in Seq(Msgs(n)) /\ Len(a) = Len(h) /\ \A i \in 1..Len(h) : a[i] = h[i] BY <1>1, FrontOf
<1> HIDE DEF a
<1>3. a = h BY <1>2, SeqEqual
<1> QED BY <1>3 DEF a

LEMMA OneAdded ==
  ASSUME NEW n \in Nat, NEW h \in Seq(Msgs(n)), NEW m \in Msgs(n)
  PROVE  h \o <<m>> = Append(h, m) /\ <<m>> \in Seq(Msgs(n))
<1> HIDE DEF Msgs
<1>1. <<m>> \in Seq(Msgs(n)) /\ <<m>>[1] = m /\ Len(<<m>>) = 1 OBVIOUS
<1> QED BY <1>1

LEMMA FineNone == Fine(<<>>)
BY DEF Fine

\* No call waits for its result that has one, in the history or among the rows.
Open(h, todo) == /\ Pending(h) \cap (Answered(h) \cup Answered(durable)) = {}
                 /\ todo \cap (Answered(h) \cup Answered(durable)) = {}

BatchesOf(n) == [todo : SUBSET (1..n), done : SUBSET (1..n), lost : Nat,
                 parallel : BOOLEAN, next : {"loop", "call"}]

ManType ==
  /\ asked \in 0..MaxCalls /\ turn \in Nat /\ persisted \in Nat /\ faults \in Nat
  /\ ran \in [CallIds -> Nat]
  /\ tools \in BatchesOf(asked) /\ after # "checkpoint" /\ compressed \in BOOLEAN
  /\ history \in Seq(Msgs(asked)) /\ durable \in Seq(Msgs(asked)) /\ said \in Seq(Msgs(asked))

\* What was said is in the history until that is shortened, and stored until a write fails.
Told ==
  /\ status = "running" /\ ~compressed => history = said
  /\ status = "running" /\ ~compressed /\ faults = 0 =>
       /\ persisted <= Len(history) /\ durable = SubSeq(history, 1, persisted)
       /\ pc # "checkpoint" => durable = history
  /\ status \in {"completed", "failed"} /\ ~compressed /\ faults = 0 => durable = said

\* The batch is of calls that are in the history and have no result.
Batched ==
  /\ status # "running" => pc = "idle"
  /\ tools.todo # {} => pc = "tools" \/ (pc = "checkpoint" /\ after = "tools")
  /\ status = "running" => tools.todo \subseteq Calls(history)

Ordered == whole => /\ Fine(said)
                    /\ status = "running" => Fine(history) /\ Open(history, tools.todo)

ManInv == ManType /\ Told /\ Batched /\ Ordered

LEMMA ManStarts == TalkInit => ManInv
<1> SUFFICES ASSUME TalkInit PROVE ManInv
  OBVIOUS
<1>1. /\ history = <<>> /\ durable = <<>> /\ said = <<>>
      /\ persisted = 0 /\ turn = 0 /\ asked = 0 /\ faults = 0 /\ pc = "idle" /\ after = "loop"
      /\ compressed = FALSE /\ tools = NoTools /\ ran = [c \in CallIds |-> 0] /\ status = "none"
  BY DEF TalkInit, Init, LoopInit
<1>2. MaxCalls \in Nat BY LoopAssumption DEF LoopAssumption
<1>3. <<>> \in Seq(Msgs(0)) OBVIOUS
<1>4. NoTools \in BatchesOf(0) BY DEF NoTools, BatchesOf
<1>5. ManType
  <2>1. compressed \in BOOLEAN BY <1>1
  <2>2. ran \in [CallIds -> Nat] BY <1>1
  <2>3. asked \in 0..MaxCalls BY <1>1, <1>2
  <2> QED BY <1>1, <1>3, <1>4, <2>1, <2>2, <2>3 DEF ManType
<1>6. Told BY <1>1 DEF Told
<1>7. Batched BY <1>1 DEF Batched, NoTools
<1>8. Ordered BY <1>1, FineNone DEF Ordered
<1> QED BY <1>5, <1>6, <1>7, <1>8 DEF ManInv

----------------------------------------------------------------------------
(* Its runs begin and end.                                                 *)

\* A run begins over a transcript in which no call waits that has a result.
LEMMA RunBegins ==
  ASSUME ManInv, NEW h \in Seq(Msgs(asked)), history' = h, said' = h, tools' = NoTools,
         compressed' = FALSE, status' = "running", persisted' = Len(durable), turn' \in Nat,
         pc' # "checkpoint" => h = durable, after' # "checkpoint",
         Len(durable) <= Len(h), SubSeq(h, 1, Len(durable)) = durable,
         whole' => Fine(h) /\ Pending(h) \cap (Answered(h) \cup Answered(durable)) = {},
         UNCHANGED <<durable, asked, ran, faults>>
  PROVE  ManInv'
<1>1. asked \in Nat /\ Len(durable) \in Nat
  <2>1. asked \in Nat /\ durable \in Seq(Msgs(asked)) BY DEF ManInv, ManType
  <2> QED BY <2>1, MessagesAre
<1>2. ManType'
  <2>1. NoTools \in BatchesOf(asked) BY DEF NoTools, BatchesOf
  <2> QED BY <1>1, <2>1 DEF ManInv, ManType
<1>3. Told' BY DEF Told
<1>4. Batched' BY DEF Batched, NoTools
<1>5. Ordered' BY DEF Ordered, Open, NoTools
<1> QED BY <1>2, <1>3, <1>4, <1>5 DEF ManInv

LEMMA RunPrompted ==
  ASSUME ManInv, Observed, NEW t \in Nat, Load, Prompted(t), turn' = t,
         whole' => IsPrefix(durable, said), whole' => whole,
         UNCHANGED <<durable, asked, ran, faults>>
  PROVE  ManInv'
<1> DEFINE m == User(t)
           h == Append(durable, m)
<1>1. /\ history' = h /\ said' = h /\ pc' = "checkpoint" /\ after' = "loop"
      /\ persisted' = Len(durable) /\ tools' = NoTools /\ compressed' = FALSE /\ status' = "running"
  BY DEF Load, Prompted
<1>2. asked \in Nat /\ durable \in Seq(Msgs(asked)) /\ said \in Seq(Msgs(asked)) BY DEF ManInv, ManType
<1>3. m \in Msgs(asked) /\ m.calls = {} /\ m.role # "tool" BY <1>2 DEF User, Msgs, Message, NoCall
<1> HIDE DEF m
<1>4. h \in Seq(Msgs(asked)) /\ Len(h) = Len(durable) + 1 BY <1>2, <1>3, AddedIs
<1>5. Len(durable) \in Nat BY <1>2, MessagesAre
<1>6. SubSeq(h, 1, Len(durable)) = durable
  <2>1. <<m>> \in Seq(Msgs(asked)) /\ h = durable \o <<m>> BY <1>2, <1>3, OneAdded
  <2>2. Len(durable) \in 0..Len(durable) BY <1>5
  <2> HIDE DEF h
  <2>3. SubSeq(durable \o <<m>>, 1, Len(durable)) = SubSeq(durable, 1, Len(durable))
    BY <1>2, <2>1, <2>2, FrontStays
  <2> QED BY <1>2, <2>1, <2>3, AllInFront
<1>7. ASSUME whole' PROVE Fine(h) /\ Pending(h) = {}
  <2>1. Fine(said) BY <1>7 DEF ManInv, Ordered
  <2>2. Fine(durable) BY <1>2, <1>7, <2>1, FineFront
  <2>3. m.calls \cap Calls(durable) = {} /\ m.calls \cap Answered(durable) = {} BY <1>3
  <2>4. Fine(h) BY <1>2, <1>3, <2>2, <2>3, FineAdded
  <2>5. Pending(h) \subseteq m.calls BY <1>2, <1>3, WaitingAdded
  <2> QED BY <1>3, <2>4, <2>5
<1> HIDE DEF h
<1>8. Len(durable) <= Len(h) BY <1>4, <1>5
<1>9. whole' => Fine(h) /\ Pending(h) \cap (Answered(h) \cup Answered(durable)) = {} BY <1>7
<1> QED BY <1>1, <1>4, <1>6, <1>8, <1>9, RunBegins

LEMMA RunContinued ==
  ASSUME ManInv, Load, Continued, whole' => IsPrefix(durable, said), whole' => whole,
         UNCHANGED <<durable, turn, asked, ran, faults>>
  PROVE  ManInv'
<1>1. /\ history' = durable /\ said' = durable /\ pc' = "loop" /\ after' = after
      /\ persisted' = Len(durable) /\ tools' = NoTools /\ compressed' = FALSE /\ status' = "running"
  BY DEF Load, Continued
<1>2. /\ asked \in Nat /\ durable \in Seq(Msgs(asked)) /\ said \in Seq(Msgs(asked)) /\ turn' \in Nat
      /\ after # "checkpoint"
  BY DEF ManInv, ManType
<1>3. SubSeq(durable, 1, Len(durable)) = durable /\ Len(durable) <= Len(durable)
  BY <1>2, AllInFront, MessagesAre
<1>4. whole' => Fine(durable) /\ Pending(durable) \cap (Answered(durable) \cup Answered(durable)) = {}
  <2> SUFFICES ASSUME whole' PROVE Fine(durable) /\ Pending(durable) \cap Answered(durable) = {}
    OBVIOUS
  <2>1. Fine(said) BY DEF ManInv, Ordered
  <2>2. Fine(durable) BY <1>2, <2>1, FineFront
  <2> QED BY <1>2, <2>2, WaitingUnanswered
<1> QED BY <1>1, <1>2, <1>3, <1>4, RunBegins

LEMMA RunStarts == ASSUME ManInv, Observed, StartRun PROVE ManInv'
<1>1. /\ Load /\ Prompted(turn + 1) /\ turn' = turn + 1
      /\ whole' = (whole /\ IsPrefix(durable, said) /\ Paired(durable))
      /\ UNCHANGED <<durable, asked, ran, faults>>
  BY DEF StartRun
<1>2. turn + 1 \in Nat BY DEF ManInv, ManType
<1>3. (whole' => IsPrefix(durable, said)) /\ (whole' => whole) BY <1>1
<1> QED BY <1>1, <1>2, <1>3, RunPrompted

LEMMA RunReplays == ASSUME ManInv, Observed, Replay PROVE ManInv'
<1>1. /\ Load /\ (Prompted(turn) \/ Continued)
      /\ whole' = (whole /\ IsPrefix(durable, said))
      /\ UNCHANGED <<durable, turn, asked, ran, faults>>
  BY DEF Replay
<1>2. turn \in Nat /\ turn' = turn BY <1>1 DEF ManInv, ManType
<1>3. (whole' => IsPrefix(durable, said)) /\ (whole' => whole) BY <1>1
<1> QED BY <1>1, <1>2, <1>3, RunPrompted, RunContinued

LEMMA RunFinishes == ASSUME ManInv, FinishRun PROVE ManInv'
<1>1. /\ status = "running" /\ pc \in {"completed", "exhausted", "failed"}
      /\ status' \in {"failed", "completed"} /\ pc' = "idle"
      /\ UNCHANGED <<history, durable, persisted, after, turn, tools, asked, ran, said,
                     compressed, faults, whole>>
  BY DEF FinishRun, Ended
<1>2. ManType' BY <1>1 DEF ManInv, ManType
<1>3. Told' BY <1>1 DEF ManInv, Told
<1>4. Batched' BY <1>1 DEF ManInv, Batched
<1>5. Ordered' BY <1>1 DEF ManInv, Ordered
<1> QED BY <1>2, <1>3, <1>4, <1>5 DEF ManInv

LEMMA RunCut == ASSUME ManInv, CutRun PROVE ManInv'
<1>1. /\ status' \in {"interrupted", "cancelled"} /\ pc' = "idle"
      /\ history' = <<>> /\ tools' = NoTools
      /\ UNCHANGED <<durable, persisted, after, turn, asked, ran, said, compressed, faults, whole>>
  BY DEF CutRun, CutShort
<1>2. ManType'
  <2>1. NoTools \in BatchesOf(asked) BY DEF NoTools, BatchesOf
  <2>2. <<>> \in Seq(Msgs(asked)) OBVIOUS
  <2> QED BY <1>1, <2>1, <2>2 DEF ManInv, ManType
<1>3. Told' BY <1>1 DEF Told
<1>4. Batched' BY <1>1 DEF Batched, NoTools
<1>5. Ordered' BY <1>1 DEF ManInv, Ordered
<1> QED BY <1>2, <1>3, <1>4, <1>5 DEF ManInv

----------------------------------------------------------------------------
(* The steps of its loop.                                                  *)

LEMMA LoopIsRunning == ASSUME ManInv, pc # "idle" PROVE status = "running"
BY DEF ManInv, Batched

\* A step that writes nothing; the batch may come to be of the calls that wait.
LEMMA LoopRests ==
  ASSUME ManInv, status = "running", pc # "checkpoint" \/ ~Unsaved, pc' # "checkpoint",
         tools' \in BatchesOf(asked), ran' \in [CallIds -> Nat],
         tools'.todo \subseteq tools.todo \/ tools'.todo \subseteq Pending(history),
         tools'.todo # {} => pc' = "tools",
         UNCHANGED <<history, durable, persisted, after, turn, asked, said, compressed, faults, status, whole>>
  PROVE  ManInv'
<1>1. /\ history \in Seq(Msgs(asked)) /\ durable \in Seq(Msgs(asked)) /\ asked \in Nat /\ persisted \in Nat
  BY DEF ManInv, ManType
<1>2. ManType' BY DEF ManInv, ManType
<1>3. ASSUME ~compressed, faults = 0
      PROVE  /\ persisted <= Len(history) /\ durable = SubSeq(history, 1, persisted)
             /\ durable = history
  <2>1. /\ persisted <= Len(history) /\ durable = SubSeq(history, 1, persisted)
        /\ pc # "checkpoint" => durable = history
    BY <1>3 DEF ManInv, Told
  <2>2. ASSUME ~Unsaved PROVE durable = history
    <3>1. Len(history) \in Nat /\ ~(persisted < Len(history)) BY <1>1, <2>2, MessagesAre DEF Unsaved
    <3>2. persisted = Len(history) BY <1>1, <2>1, <3>1
    <3> QED BY <1>1, <2>1, <3>2, AllInFront
  <2> QED BY <2>1, <2>2
<1>4. Told' BY <1>3 DEF ManInv, Told
<1>5. Batched'
  <2>1. tools'.todo \subseteq Calls(history)
    <3>1. tools.todo \subseteq Calls(history) BY DEF ManInv, Batched
    <3>2. Pending(history) \subseteq Calls(history) BY <1>1, WaitingMade
    <3> QED BY <3>1, <3>2
  <2> QED BY <2>1 DEF Batched
<1>6. Ordered' BY DEF ManInv, Ordered, Open
<1> QED BY <1>2, <1>4, <1>5, <1>6 DEF ManInv

LEMMA LoopSaves == ASSUME ManInv, SaveMessage \/ SaveFails, UNCHANGED <<status, whole>> PROVE ManInv'
<1> DEFINE m == history[persisted + 1]
<1>1. /\ pc = "checkpoint"
      /\ \/ /\ Unsaved /\ durable' = Append(durable, m)
         \/ durable' = durable
      /\ \/ /\ persisted' = persisted + 1 /\ pc' = pc /\ faults' = faults
            /\ durable' = Append(durable, m) /\ Unsaved
         \/ persisted' = persisted /\ pc' = after /\ faults' = faults + 1
      /\ UNCHANGED <<history, after, turn, tools, asked, ran, said, compressed, status, whole>>
  BY DEF SaveMessage, SaveFails
<1>2. /\ history \in Seq(Msgs(asked)) /\ durable \in Seq(Msgs(asked)) /\ asked \in Nat
      /\ persisted \in Nat /\ faults \in Nat
  BY DEF ManInv, ManType
<1>3. status = "running" BY <1>1, LoopIsRunning
<1>4. ASSUME Unsaved
      PROVE  /\ persisted + 1 \in 1..Len(history) /\ m \in Msgs(asked)
             /\ Append(SubSeq(history, 1, persisted), m) = SubSeq(history, 1, persisted + 1)
  <2>1. persisted < Len(history) BY <1>4 DEF Unsaved
  <2> QED BY <1>2, <2>1, FrontGrows
<1>5. ASSUME Unsaved
      PROVE  /\ Append(durable, m) \in Seq(Msgs(asked))
             /\ Answered(Append(durable, m)) \subseteq Answered(durable) \cup Answered(history)
  <2>0. DOMAIN history = 1..Len(history) BY <1>2, MessagesAre
  <2>1. m \in Msgs(asked) /\ persisted + 1 \in DOMAIN history BY <1>4, <1>5, <2>0
  <2>2. m.role = "tool" => m.for \in Answered(history) BY <2>1 DEF Answered
  <2> HIDE DEF m
  <2>3. Answered(Append(durable, m)) = Answered(durable) \cup (IF m.role = "tool" THEN {m.for} ELSE {})
    BY <1>2, <2>1, AnsweredAdded
  <2>4. Append(durable, m) \in Seq(Msgs(asked)) BY <1>2, <2>1, AddedIs
  <2> QED BY <2>2, <2>3, <2>4
<1> HIDE DEF m
<1>6. /\ durable' \in Seq(Msgs(asked))
      /\ Answered(durable)' \subseteq Answered(durable) \cup Answered(history)
  <2>1. CASE durable' = durable BY <1>2, <2>1 DEF Answered
  <2>2. CASE Unsaved /\ durable' = Append(durable, m) BY <1>5, <2>2 DEF Answered
  <2> QED BY <1>1, <2>1, <2>2
<1>7. persisted' \in Nat /\ faults' \in Nat BY <1>1, <1>2
<1>8. ManType' BY <1>1, <1>6, <1>7 DEF ManInv, ManType
<1>9. Told'
  <2>1. ASSUME ~compressed, faults' = 0
        PROVE  /\ persisted' <= Len(history) /\ durable' = SubSeq(history, 1, persisted')
               /\ pc' = "checkpoint"
    <3>1. /\ faults' = faults /\ persisted' = persisted + 1 /\ pc' = "checkpoint"
          /\ durable' = Append(durable, m) /\ Unsaved
      <4>1. ~(faults' = faults + 1) BY <1>2, <2>1
      <4> QED BY <1>1, <4>1
    <3>2. durable = SubSeq(history, 1, persisted) BY <1>3, <2>1, <3>1 DEF ManInv, Told
    <3>3. persisted + 1 \in 1..Len(history) BY <1>4, <3>1
    <3>4. persisted + 1 <= Len(history)
      <4>1. Len(history) \in Nat BY <1>2, MessagesAre
      <4> QED BY <1>2, <3>3, <4>1
    <3> QED BY <1>4, <3>1, <3>2, <3>4
  <2>2. ~compressed => history = said BY <1>3 DEF ManInv, Told
  <2> QED BY <1>1, <1>3, <2>1, <2>2 DEF Told
<1>10. Batched' BY <1>1, <1>3 DEF ManInv, Batched
<1>11. Ordered' BY <1>1, <1>3, <1>6 DEF ManInv, Ordered, Open
<1> QED BY <1>8, <1>9, <1>10, <1>11 DEF ManInv

LEMMA LoopCheckpointed == ASSUME ManInv, CheckpointDone, UNCHANGED <<status, whole>> PROVE ManInv'
<1>1. /\ pc = "checkpoint" /\ ~Unsaved /\ pc' = after
      /\ UNCHANGED <<history, durable, persisted, after, turn, tools, asked, ran, said, compressed, faults, status, whole>>
  BY DEF CheckpointDone
<1>0. pc' # "checkpoint" BY <1>1 DEF ManInv, ManType
<1>2. status = "running" BY <1>1, LoopIsRunning
<1>3. tools' \in BatchesOf(asked) /\ ran' \in [CallIds -> Nat] BY <1>1 DEF ManInv, ManType
<1>4. tools'.todo \subseteq tools.todo BY <1>1
<1>5. tools'.todo # {} => pc' = "tools" BY <1>1 DEF ManInv, Batched
<1> QED BY <1>0, <1>1, <1>2, <1>3, <1>4, <1>5, LoopRests

LEMMA LoopEnds == ASSUME ManInv, Exhausted \/ ProviderFails, UNCHANGED <<status, whole>> PROVE ManInv'
<1>1. /\ pc \in {"loop", "call"} /\ pc' \in {"exhausted", "failed"}
      /\ UNCHANGED <<history, durable, persisted, after, turn, tools, asked, ran, said, compressed, faults, status, whole>>
  BY DEF Exhausted, ProviderFails
<1>2. status = "running" BY <1>1, LoopIsRunning
<1>3. tools' \in BatchesOf(asked) /\ ran' \in [CallIds -> Nat] BY <1>1 DEF ManInv, ManType
<1>4. tools'.todo \subseteq tools.todo BY <1>1
<1>5. tools'.todo # {} => pc' = "tools" BY <1>1 DEF ManInv, Batched
<1>6. pc # "checkpoint" /\ pc' # "checkpoint" BY <1>1
<1> QED BY <1>1, <1>2, <1>3, <1>4, <1>5, <1>6, LoopRests

LEMMA Scheduled ==
  ASSUME NEW n \in Nat, NEW C \in SUBSET (1..n), NEW next \in {"loop", "call"},
         NEW b \in Schedules(Batch(C, next))
  PROVE  b \in BatchesOf(n) /\ b.todo = C
<1>1. Batch(C, next) \in BatchesOf(n) /\ Batch(C, next).todo = C BY DEF Batch, BatchesOf
<1>2. /\ [Batch(C, next) EXCEPT !.parallel = TRUE] \in BatchesOf(n)
      /\ [Batch(C, next) EXCEPT !.parallel = TRUE].todo = C
  BY <1>1 DEF BatchesOf
<1> QED BY <1>1, <1>2 DEF Schedules

LEMMA LoopIterates == ASSUME ManInv, Iterate, UNCHANGED <<status, whole>> PROVE ManInv'
<1>1. /\ pc = "loop"
      /\ \/ pc' \in {"completed", "call"} /\ tools' = tools
         \/ pc' = "tools" /\ tools' \in Schedules(Batch(Pending(history), "call"))
      /\ UNCHANGED <<history, durable, persisted, after, turn, asked, ran, said, compressed, faults, status, whole>>
  BY DEF Iterate
<1>2. status = "running" BY <1>1, LoopIsRunning
<1>3. /\ history \in Seq(Msgs(asked)) /\ asked \in Nat /\ tools \in BatchesOf(asked)
      /\ ran' \in [CallIds -> Nat] /\ tools.todo = {}
  BY <1>1 DEF ManInv, ManType, Batched
<1>4. Pending(history) \in SUBSET (1..asked)
  <2>1. Pending(history) \subseteq Calls(history) /\ Calls(history) \subseteq 1..asked BY <1>3, WaitingMade
  <2> QED BY <2>1
<1>5. /\ tools' \in BatchesOf(asked)
      /\ tools'.todo \subseteq tools.todo \/ tools'.todo \subseteq Pending(history)
      /\ tools'.todo # {} => pc' = "tools"
  <2>1. CASE tools' = tools BY <1>3, <2>1
  <2>2. CASE pc' = "tools" /\ tools' \in Schedules(Batch(Pending(history), "call"))
    <3>1. tools' \in BatchesOf(asked) /\ tools'.todo = Pending(history) BY <1>3, <1>4, <2>2, Scheduled
    <3> QED BY <2>2, <3>1
  <2> QED BY <1>1, <2>1, <2>2
<1>6. pc # "checkpoint" /\ pc' # "checkpoint" BY <1>1
<1> QED BY <1>1, <1>2, <1>3, <1>5, <1>6, LoopRests

LEMMA LoopRuns ==
  ASSUME ManInv, NEW c \in CallIds, RunTool(c) \/ ToolPanics(c), UNCHANGED <<status, whole>>
  PROVE  ManInv'
<1>1. /\ pc = "tools" /\ pc' = pc /\ c \in tools.todo
      /\ \/ tools' = [tools EXCEPT !.todo = @ \ {c}, !.done = @ \cup {c}]
         \/ tools' = [tools EXCEPT !.todo = @ \ {c}, !.lost = @ + 1]
      /\ ran' = [ran EXCEPT ![c] = @ + 1]
      /\ UNCHANGED <<history, durable, persisted, after, turn, asked, said, compressed, faults, status, whole>>
  BY DEF RunTool, ToolPanics, Runnable
<1>2. status = "running" BY <1>1, LoopIsRunning
<1>3. PICK b \in BatchesOf(asked) : b = tools BY DEF ManInv, ManType
<1>4. ran' \in [CallIds -> Nat] BY <1>1 DEF ManInv, ManType
<1>5. /\ tools' \in BatchesOf(asked) /\ tools'.todo \subseteq tools.todo
  <2>1. PICK e \in BatchesOf(asked) : e = [b EXCEPT !.todo = @ \ {c}] BY <1>3 DEF BatchesOf
  <2>2. e.todo \subseteq b.todo BY <1>3, <2>1 DEF BatchesOf
  <2>3. \/ tools' = [e EXCEPT !.done = b.done \cup {c}]
        \/ tools' = [e EXCEPT !.lost = b.lost + 1]
    BY <1>1, <1>3, <2>1
  <2>4. c \in 1..asked BY <1>1, <1>3 DEF BatchesOf
  <2>5. CASE tools' = [e EXCEPT !.done = b.done \cup {c}]
    <3>1. [e EXCEPT !.done = b.done \cup {c}] \in BatchesOf(asked) BY <1>3, <2>1, <2>4 DEF BatchesOf
    <3>2. [e EXCEPT !.done = b.done \cup {c}].todo = e.todo BY <2>1 DEF BatchesOf
    <3> QED BY <1>3, <2>2, <2>5, <3>1, <3>2
  <2>6. CASE tools' = [e EXCEPT !.lost = b.lost + 1]
    <3>1. PICK n \in Nat : n = b.lost + 1 BY <1>3 DEF BatchesOf
    <3>2. [e EXCEPT !.lost = n] \in BatchesOf(asked) /\ [e EXCEPT !.lost = n].todo = e.todo
      BY <2>1, <3>1 DEF BatchesOf
    <3> QED BY <1>3, <2>2, <2>6, <3>1, <3>2
  <2> QED BY <2>3, <2>5, <2>6
<1>6. pc # "checkpoint" /\ pc' # "checkpoint" /\ (tools'.todo # {} => pc' = "tools") BY <1>1
<1> QED BY <1>1, <1>2, <1>4, <1>5, <1>6, LoopRests

\* What is said joins the history, and is checkpointed.
LEMMA LoopSays ==
  ASSUME ManInv, Observed, status = "running", pc # "checkpoint", asked' \in 0..MaxCalls, asked <= asked',
         NEW msgs \in Seq(Msgs(asked')), NEW next, next # "checkpoint", Say(msgs, next),
         tools' \in BatchesOf(asked'), tools'.todo # {} => next = "tools",
         tools'.todo \subseteq Calls(history'),
         ASSUME NEW h \in Seq(Msgs(asked)), Fine(h) PROVE Fine(h \o msgs),
         whole => Open(history, tools.todo)',
         UNCHANGED <<durable, persisted, turn, ran, compressed, faults, status, whole>>
  PROVE  ManInv'
<1>1. history' = history \o msgs /\ said' = said \o msgs /\ pc' = "checkpoint" /\ after' = next
  BY DEF Say
<1>2. /\ asked \in Nat /\ asked' \in Nat /\ persisted \in Nat
      /\ history \in Seq(Msgs(asked)) /\ said \in Seq(Msgs(asked)) /\ durable \in Seq(Msgs(asked))
  <2>1. MaxCalls \in Nat BY LoopAssumption DEF LoopAssumption
  <2> QED BY <2>1 DEF ManInv, ManType
<1>3. /\ history \in Seq(Msgs(asked')) /\ said \in Seq(Msgs(asked')) /\ durable \in Seq(Msgs(asked'))
  BY <1>2, MoreCalls
<1>4. /\ history' \in Seq(Msgs(asked')) /\ said' \in Seq(Msgs(asked'))
      /\ Len(history') = Len(history) + Len(msgs) /\ Len(history) \in Nat /\ Len(msgs) \in Nat
  BY <1>1, <1>2, <1>3, JoinOf
<1>5. ManType' BY <1>1, <1>3, <1>4 DEF ManInv, ManType
<1>6. Told'
  <2>1. ASSUME ~compressed, faults = 0
        PROVE  persisted <= Len(history') /\ durable = SubSeq(history', 1, persisted)
    <3>1. persisted <= Len(history) /\ durable = SubSeq(history, 1, persisted)
      BY <2>1 DEF ManInv, Told
    <3>2. persisted \in 0..Len(history) BY <1>2, <1>4, <3>1
    <3>3. SubSeq(history \o msgs, 1, persisted) = SubSeq(history, 1, persisted)
      BY <1>2, <1>3, <3>2, FrontStays
    <3>4. persisted <= Len(history') BY <1>2, <1>4, <3>1
    <3> QED BY <1>1, <3>1, <3>3, <3>4
  <2>2. ~compressed => history' = said' BY <1>1 DEF ManInv, Told
  <2> QED BY <1>1, <2>1, <2>2 DEF Told
<1>7. Batched' BY <1>1 DEF Batched
<1>8. Ordered'
  <2>1. ASSUME whole PROVE Fine(history') /\ Fine(said')
    <3>1. Fine(history) /\ Fine(said) BY <2>1 DEF ManInv, Ordered
    <3> QED BY <1>1, <1>2, <3>1
  <2> QED BY <2>1 DEF Ordered
<1> QED BY <1>5, <1>6, <1>7, <1>8 DEF ManInv

LEMMA LoopReturns ==
  ASSUME ManInv, Observed, NEW n \in 0..MaxBatch, ProviderReturns(n), UNCHANGED <<status, whole>>
  PROVE  ManInv'
<1> DEFINE C == (asked + 1)..(asked + n)
           m == Assistant(turn, C)
           next == IF C = {} THEN "completed" ELSE "tools"
<1>1. /\ pc = "call" /\ asked + n <= MaxCalls /\ asked' = asked + n
      /\ Say(<<m>>, next)
      /\ IF C = {} THEN tools' = tools ELSE tools' \in Schedules(Batch(C, "loop"))
      /\ UNCHANGED <<durable, persisted, turn, ran, compressed, faults, status, whole>>
  BY DEF ProviderReturns
<1>2. status = "running" BY <1>1, LoopIsRunning
<1>3. /\ asked \in Nat /\ n \in Nat /\ MaxCalls \in Nat /\ turn \in Nat
      /\ tools \in BatchesOf(asked) /\ tools.todo = {}
      /\ history \in Seq(Msgs(asked)) /\ said \in Seq(Msgs(asked)) /\ durable \in Seq(Msgs(asked))
  <2>1. MaxCalls \in Nat /\ MaxBatch \in Nat BY LoopAssumption DEF LoopAssumption
  <2>2. asked \in Nat /\ n \in Nat BY <2>1 DEF ManInv, ManType
  <2> QED BY <1>1, <2>1, <2>2 DEF ManInv, ManType, Batched
<1>4. /\ asked' \in Nat /\ asked' \in 0..MaxCalls /\ asked <= asked'
      /\ C \subseteq 1..asked' /\ C \cap 0..asked = {} /\ 1..asked \subseteq 1..asked'
  BY <1>1, <1>3
<1>5. m \in Msgs(asked') /\ m.calls = C /\ m.role = "assistant"
  <2>1. C \subseteq Nat BY <1>4
  <2> HIDE DEF C
  <2> QED BY <1>3, <1>4, <2>1 DEF Assistant, Msgs, Message, NoCall
<1> HIDE DEF m, C
<1>6. ASSUME NEW h \in Seq(Msgs(asked)) PROVE h \in Seq(Msgs(asked')) /\ h \o <<m>> = Append(h, m)
  <2>1. h \in Seq(Msgs(asked')) BY <1>3, <1>4, MoreCalls
  <2> QED BY <1>4, <1>5, <2>1, OneAdded
<1>7. <<m>> \in Seq(Msgs(asked')) BY <1>3, <1>4, <1>5, <1>6, OneAdded
<1>8. ASSUME NEW h \in Seq(Msgs(asked)), Fine(h) PROVE Fine(h \o <<m>>)
  <2>1. Calls(h) \subseteq 1..asked /\ Answered(h) \subseteq 0..asked
    BY <1>3, WaitingMade, AnsweredAre
  <2>2. 1..asked \subseteq 0..asked BY <1>3
  <2>3. m.calls \cap Calls(h) = {} /\ m.calls \cap Answered(h) = {} BY <1>4, <1>5, <2>1, <2>2
  <2> QED BY <1>4, <1>5, <1>6, <1>8, <2>3, FineAdded
<1>9. history' = Append(history, m) BY <1>1, <1>3, <1>6 DEF Say
<1>10. /\ tools' \in BatchesOf(asked') /\ tools'.todo \subseteq C
       /\ tools'.todo # {} => next = "tools"
  <2>1. CASE C = {}
    <3>1. tools' = tools BY <1>1, <2>1
    <3>2. tools \in BatchesOf(asked') BY <1>3, <1>4 DEF BatchesOf
    <3> QED BY <1>3, <3>1, <3>2
  <2>2. CASE C # {}
    <3>1. tools' \in Schedules(Batch(C, "loop")) BY <1>1, <2>2
    <3>2. tools' \in BatchesOf(asked') /\ tools'.todo = C BY <1>4, <3>1, Scheduled
    <3> QED BY <2>2, <3>2
  <2> QED BY <2>1, <2>2
<1>11. tools'.todo \subseteq Calls(history')
  <2>1. /\ DOMAIN Append(history, m) = 1..(Len(history) + 1) /\ Len(history) \in Nat
        /\ Append(history, m)[Len(history) + 1] = m
    BY <1>3, <1>4, <1>5, <1>6, AddedIs, MessagesAre
  <2>2. Len(history) + 1 \in DOMAIN history' /\ history'[Len(history) + 1] = m BY <1>9, <2>1
  <2>3. C \subseteq Calls(history') BY <1>5, <2>2 DEF Calls
  <2> QED BY <1>10, <2>3
<1>12. Open(history, tools.todo)'
  <2>1. Pending(history') \subseteq C
    <3>1. Pending(Append(history, m)) \subseteq m.calls BY <1>3, <1>4, <1>5, <1>6, WaitingAdded
    <3> QED BY <1>5, <1>9, <3>1
  <2>2. Answered(history') \subseteq 0..asked
    <3>1. Answered(history) \subseteq 0..asked BY <1>3, AnsweredAre
    <3>2. Answered(Append(history, m)) = Answered(history) \cup (IF m.role = "tool" THEN {m.for} ELSE {})
      BY <1>3, <1>4, <1>5, <1>6, AnsweredAdded
    <3>3. m.role # "tool" BY <1>5
    <3> QED BY <1>9, <3>1, <3>2, <3>3
  <2>3. Answered(durable') \subseteq 0..asked
    <3>1. Answered(durable) \subseteq 0..asked BY <1>3, AnsweredAre
    <3> QED BY <1>1, <3>1
  <2> QED BY <1>4, <1>10, <2>1, <2>2, <2>3 DEF Open
<1>13. next # "checkpoint" /\ pc # "checkpoint" BY <1>1
<1> HIDE DEF next
<1> QED BY <1>1, <1>2, <1>4, <1>7, <1>8, <1>10, <1>11, <1>12, <1>13, LoopSays

LEMMA ResultsAre ==
  ASSUME NEW n \in Nat, tools \in BatchesOf(n), turn \in Nat
  PROVE  /\ ResultMessages \in Seq(Msgs(n))
         /\ \A i \in 1..Len(ResultMessages) :
              ResultMessages[i].role = "tool" /\ ResultMessages[i].for \in tools.done \cup {NoCall}
         /\ \A i, j \in 1..Len(ResultMessages) :
              ResultMessages[i].for = ResultMessages[j].for /\ ResultMessages[i].for # NoCall => i = j
         /\ \A c \in tools.done : \E i \in 1..Len(ResultMessages) : ResultMessages[i].for = c
         /\ tools.lost > 0 => \E i \in 1..Len(ResultMessages) : ResultMessages[i].for = NoCall
         /\ tools.lost = 0 => \A i \in 1..Len(ResultMessages) : ResultMessages[i].for # NoCall
<1> DEFINE k == Cardinality(tools.done)
           x == [i \in 1..k |-> ToolResult(turn, InOrder(tools.done)[i])]
           y == [i \in 1..tools.lost |-> ToolResult(turn, NoCall)]
<1>1. tools.done \subseteq 1..n /\ tools.lost \in Nat BY DEF BatchesOf
<1>2. IsFiniteSet(tools.done)
  <2>1. IsFiniteSet(1..n) BY FS_Interval
  <2> QED BY <1>1, <2>1, FS_Subset
<1>3. k \in Nat BY <1>2, FS_CardinalityType
<1>4. InOrder(tools.done) \in [1..k -> tools.done]
  <2>1. tools.done \in SUBSET Nat BY <1>1
  <2> QED BY <1>2, <2>1, Sorted
<1>0. /\ \A c \in tools.done : \E i \in 1..k : InOrder(tools.done)[i] = c
      /\ \A i, j \in 1..k : InOrder(tools.done)[i] = InOrder(tools.done)[j] => i = j
  <2>1. tools.done \in SUBSET Nat BY <1>1
  <2> QED BY <1>2, <2>1, SortedAll
<1>5. \A c \in 0..n : /\ ToolResult(turn, c) \in Msgs(n) /\ ToolResult(turn, c).role = "tool"
                      /\ ToolResult(turn, c).for = c
  BY DEF ToolResult, Msgs, Message
<1> HIDE DEF k
<1>6. /\ x \in Seq(Msgs(n)) /\ Len(x) = k
      /\ \A i \in 1..k : x[i].role = "tool" /\ x[i].for = InOrder(tools.done)[i]
  <2> HIDE DEF Msgs
  <2>1. \A i \in 1..k : InOrder(tools.done)[i] \in 0..n
    <3>1. tools.done \subseteq 0..n BY <1>1
    <3> QED BY <1>4, <3>1
  <2>2. /\ x \in [1..k -> Msgs(n)]
        /\ \A i \in 1..k : x[i].role = "tool" /\ x[i].for = InOrder(tools.done)[i]
    BY <1>5, <2>1
  <2> HIDE DEF x
  <2> QED BY <1>3, <2>2
<1>7. /\ y \in Seq(Msgs(n)) /\ Len(y) = tools.lost
      /\ \A i \in 1..tools.lost : y[i].role = "tool" /\ y[i].for = NoCall
  <2> HIDE DEF Msgs
  <2>1. NoCall \in 0..n BY DEF NoCall
  <2>2. /\ y \in [1..tools.lost -> Msgs(n)]
        /\ \A i \in 1..tools.lost : y[i].role = "tool" /\ y[i].for = NoCall
    BY <1>5, <2>1
  <2> HIDE DEF y
  <2> QED BY <1>1, <2>2
<1>8. ResultMessages = x \o y BY DEF ResultMessages, k
<1> HIDE DEF x, y
<1>9. /\ x \o y \in Seq(Msgs(n)) /\ Len(x \o y) = Len(x) + Len(y)
      /\ \A i \in 1..Len(x) : (x \o y)[i] = x[i]
      /\ \A i \in 1..Len(y) : (x \o y)[Len(x) + i] = y[i]
      /\ \A i \in 1..(Len(x) + Len(y)) : i \in 1..Len(x) \/ \E j \in 1..Len(y) : i = Len(x) + j
  <2>1. x \in Seq(Msgs(n)) /\ y \in Seq(Msgs(n)) BY <1>6, <1>7
  <2> QED BY <2>1, JoinOf
<1> DEFINE r == x \o y
<1>10. /\ Len(r) = k + tools.lost /\ r \in Seq(Msgs(n))
       /\ \A i \in 1..k : r[i].role = "tool" /\ r[i].for = InOrder(tools.done)[i]
       /\ \A i \in 1..tools.lost : r[k + i].role = "tool" /\ r[k + i].for = NoCall
       /\ \A i \in 1..Len(r) : i \in 1..k \/ \E j \in 1..tools.lost : i = k + j
  BY <1>6, <1>7, <1>9
<1> HIDE DEF r
<1>11. /\ \A i \in 1..k : i \in 1..Len(r) /\ InOrder(tools.done)[i] \in tools.done
       /\ \A i \in 1..tools.lost : k + i \in 1..Len(r)
  <2>1. \A i \in 1..k : InOrder(tools.done)[i] \in tools.done BY <1>4
  <2>2. PICK b \in Nat : b = tools.lost BY <1>1
  <2>3. Len(r) = k + b BY <1>10, <2>2
  <2>4. \A i \in 1..k : i \in 1..Len(r) BY <1>3, <2>3
  <2>5. \A i \in 1..b : k + i \in 1..Len(r) BY <1>3, <2>3
  <2> QED BY <2>1, <2>2, <2>4, <2>5
<1>12. NoCall \notin tools.done BY <1>1 DEF NoCall
<1>13. ASSUME NEW i \in 1..Len(r)
       PROVE  /\ r[i].role = "tool" /\ r[i].for \in tools.done \cup {NoCall}
              /\ i \in 1..k \/ (r[i].for = NoCall /\ tools.lost # 0)
  <2>1. CASE i \in 1..k BY <1>10, <1>11, <2>1
  <2>2. CASE \E j \in 1..tools.lost : i = k + j
    <3>1. PICK j \in 1..tools.lost : i = k + j BY <2>2
    <3>2. r[i].role = "tool" /\ r[i].for = NoCall BY <1>10, <3>1
    <3>3. tools.lost # 0 BY <3>1
    <3> QED BY <3>2, <3>3
  <2> QED BY <1>10, <2>1, <2>2
<1>14. ASSUME NEW i \in 1..Len(r), NEW j \in 1..Len(r), r[i].for = r[j].for, r[i].for # NoCall PROVE i = j
  <2>1. i \in 1..k /\ j \in 1..k BY <1>13, <1>14
  <2> QED BY <1>0, <1>10, <1>14, <2>1
<1>15. ASSUME NEW c \in tools.done PROVE \E i \in 1..Len(r) : r[i].for = c
  <2>1. PICK i \in 1..k : InOrder(tools.done)[i] = c BY <1>0
  <2> QED BY <1>10, <1>11, <2>1
<1>16. ASSUME tools.lost > 0 PROVE \E i \in 1..Len(r) : r[i].for = NoCall
  <2>1. 1 \in 1..tools.lost BY <1>1, <1>16
  <2> QED BY <1>10, <1>11, <2>1
<1>17. ASSUME tools.lost = 0, NEW i \in 1..Len(r) PROVE r[i].for # NoCall
  <2>1. i \in 1..k BY <1>13, <1>17
  <2> QED BY <1>10, <1>11, <1>12, <2>1
<1>18. ResultMessages = r BY <1>8 DEF r
<1> QED BY <1>10, <1>13, <1>14, <1>15, <1>16, <1>17, <1>18

LEMMA LoopGathers == ASSUME ManInv, Observed, ToolsDone, UNCHANGED <<status, whole>> PROVE ManInv'
<1>1. /\ pc = "tools" /\ tools.todo = {} /\ asked' = asked
      /\ Say(ResultMessages, "maintain")
      /\ tools' = [NoTools EXCEPT !.next = tools.next]
      /\ UNCHANGED <<durable, persisted, turn, ran, compressed, faults, status, whole>>
  BY DEF ToolsDone
<1>2. status = "running" BY <1>1, LoopIsRunning
<1>3. /\ asked \in Nat /\ asked \in 0..MaxCalls /\ turn \in Nat /\ tools \in BatchesOf(asked)
      /\ history \in Seq(Msgs(asked))
  <2>1. MaxCalls \in Nat BY LoopAssumption DEF LoopAssumption
  <2> QED BY <2>1 DEF ManInv, ManType
<1> DEFINE r == ResultMessages
<1>4. r \in Seq(Msgs(asked)) /\ \A i \in 1..Len(r) : r[i].role = "tool" BY <1>3, ResultsAre
<1>5. tools' \in BatchesOf(asked) /\ tools'.todo = {} BY <1>1, <1>3 DEF BatchesOf, NoTools
<1> HIDE DEF r
<1>6. ASSUME NEW h \in Seq(Msgs(asked)), Fine(h) PROVE Fine(h \o r)
  BY <1>3, <1>4, <1>6, WaitingAnswered
<1>7. history' = history \o r BY <1>1 DEF Say, r
<1>8. history' \in Seq(Msgs(asked)) BY <1>3, <1>4, <1>7, JoinOf
<1>9. ASSUME whole PROVE Open(history, tools.todo)'
  <2>1. Fine(history) /\ Pending(history) \cap Answered(durable) = {}
    BY <1>2, <1>9 DEF ManInv, Ordered, Open
  <2>2. Fine(history') BY <1>3, <1>6, <1>7, <2>1
  <2>3. Pending(history') \cap Answered(history') = {} BY <1>3, <1>8, <2>2, WaitingUnanswered
  <2>4. Pending(history') \subseteq Pending(history) BY <1>3, <1>4, <1>7, WaitingAnswered
  <2>5. Answered(durable') = Answered(durable) BY <1>1
  <2> QED BY <1>5, <2>1, <2>3, <2>4, <2>5 DEF Open
<1>10. Say(r, "maintain") BY <1>1 DEF r
<1>11. asked <= asked' /\ asked' \in 0..MaxCalls BY <1>1, <1>3
<1> QED BY <1>1, <1>2, <1>4, <1>5, <1>6, <1>9, <1>10, <1>11, LoopSays

LEMMA LoopMaintains == ASSUME ManInv, Maintain, UNCHANGED <<status, whole>> PROVE ManInv'
<1>1. /\ pc = "maintain" /\ pc' = tools.next
      /\ history' \in UNION {Capped(h) : h \in Relieved(history)}
      /\ compressed' = (compressed \/ history' # history)
      /\ UNCHANGED <<durable, persisted, after, turn, tools, asked, ran, said, faults, status, whole>>
  BY DEF Maintain
<1>2. status = "running" BY <1>1, LoopIsRunning
<1>3. /\ asked \in Nat /\ Protected \in Nat /\ history \in Seq(Msgs(asked))
      /\ tools \in BatchesOf(asked) /\ ran' \in [CallIds -> Nat] /\ tools.todo = {}
  <2>1. MaxCalls \in Nat /\ Protected \in Nat BY LoopAssumption DEF LoopAssumption
  <2> QED BY <1>1, <2>1 DEF ManInv, ManType, Batched
<1>4. pc' # "checkpoint" /\ pc # "checkpoint" BY <1>1, <1>3 DEF BatchesOf
<1>5. CASE history' = history
  <2>1. compressed' = compressed \/ compressed' = TRUE
    <3>1. compressed \in BOOLEAN BY DEF ManInv, ManType
    <3> QED BY <1>1, <1>5, <3>1
  <2>2. CASE compressed' = compressed
    <3>1. tools'.todo = {} /\ tools' \in BatchesOf(asked) BY <1>1, <1>3
    <3> QED BY <1>1, <1>2, <1>3, <1>4, <1>5, <2>2, <3>1, LoopRests
  <2>3. CASE compressed' = TRUE
    <3>1. ManType' BY <1>1, <1>5 DEF ManInv, ManType
    <3>2. Told' BY <1>1, <1>2, <2>3 DEF Told
    <3>3. Batched' BY <1>1, <1>2, <1>3 DEF Batched
    <3>4. Ordered' BY <1>1, <1>2, <1>5 DEF ManInv, Ordered, Open
    <3> QED BY <3>1, <3>2, <3>3, <3>4 DEF ManInv
  <2> QED BY <2>1, <2>2, <2>3
<1>6. CASE history' # history
  <2>1. PICK h \in Relieved(history) : history' \in Capped(h) BY <1>1
  <2>2. h \in Seq(Msgs(asked)) /\ (h = history \/ (Fine(history) => Fine(h) /\ Pending(h) = {}))
    BY <1>3, <2>1, Compressed DEF Relieved
  <2>3. history' \in Seq(Msgs(asked)) /\ (history' = h \/ (Fine(h) => Fine(history') /\ Pending(history') = {}))
    BY <1>3, <2>1, <2>2, Compressed DEF Capped
  <2>4. Fine(history) => Fine(history') /\ Pending(history') = {} BY <1>6, <2>2, <2>3
  <2>5. compressed' = TRUE BY <1>1, <1>6
  <2>6. ManType' BY <1>1, <2>3 DEF ManInv, ManType
  <2>7. Told' BY <1>1, <1>2, <2>5 DEF Told
  <2>8. Batched' BY <1>1, <1>2, <1>3 DEF Batched
  <2>9. Ordered' BY <1>1, <1>2, <1>3, <2>4 DEF ManInv, Ordered, Open
  <2> QED BY <2>6, <2>7, <2>8, <2>9 DEF ManInv
<1> QED BY <1>5, <1>6

LEMMA ManSteps == ASSUME ManInv, Observed, [TalkNext]_all PROVE ManInv'
<1>1. CASE UNCHANGED vars
  BY <1>1 DEF vars, loopVars, ManInv, ManType, Told, Batched, Ordered, Open, Unsaved
<1>2. CASE Loop
  <2>1. LoopStep /\ UNCHANGED <<status, whole>> BY <1>2 DEF Loop
  <2> QED BY <2>1, LoopSaves, LoopCheckpointed, LoopEnds, LoopIterates, LoopReturns, LoopRuns,
             LoopGathers, LoopMaintains DEF LoopStep
<1>3. CASE StartRun \/ Replay \/ FinishRun \/ CutRun
  BY <1>3, RunStarts, RunReplays, RunFinishes, RunCut
<1> QED BY <1>1, <1>2, <1>3 DEF TalkNext, all, Next

\* ManagedConversation's RunsWhatIsStored.  A managed agent executes a call only when
\* the message that asks for it is among the rows, while nothing was compressed and no
\* write failed, and never one whose result is among them: the checkpoint is over before
\* the batch begins, a result lies behind its call whatever is compressed away, made up
\* or continued, so a call that is pending at a boundary has no result anywhere.
THEOREM RunsAreStored == Observed => (TalkSpec => RunsWhatIsStored)
<1> SUFFICES ASSUME Observed PROVE TalkSpec => RunsWhatIsStored
  OBVIOUS
<1> DEFINE A == \A c \in CallIds : ran'[c] # ran[c] =>
                  /\ ~compressed /\ faults = 0 => c \in Calls(durable)
                  /\ whole => c \notin Answered(durable)
<1>1. TalkInit => ManInv BY ManStarts
<1>2. ManInv /\ [TalkNext]_all => ManInv' BY ManSteps
<1>3. ManInv /\ [TalkNext]_all => [A]_vars
  <2> SUFFICES ASSUME ManInv, [TalkNext]_all, vars' # vars, NEW c \in CallIds, ran'[c] # ran[c]
               PROVE  /\ ~compressed /\ faults = 0 => c \in Calls(durable)
                      /\ whole => c \notin Answered(durable)
    OBVIOUS
  <2>1. RunTool(c) \/ ToolPanics(c)
    <3>1. Next BY DEF TalkNext, all
    <3>2. ~(StartRun \/ Replay \/ FinishRun \/ CutRun) BY DEF StartRun, Replay, FinishRun, CutRun
    <3>3. LoopStep BY <3>1, <3>2 DEF Next, Loop
    <3>4. PICK d \in CallIds : RunTool(d) \/ ToolPanics(d)
      BY <3>3 DEF LoopStep, SaveMessage, CheckpointDone, SaveFails, Exhausted, Iterate, ProviderFails,
                  ProviderReturns, ToolsDone, Maintain
    <3>5. ran' = [ran EXCEPT ![d] = @ + 1] BY <3>4 DEF RunTool, ToolPanics
    <3>6. ran \in [CallIds -> Nat] BY DEF ManInv, ManType
    <3>7. d = c BY <3>5, <3>6
    <3> QED BY <3>4, <3>7
  <2>2. pc = "tools" /\ c \in tools.todo BY <2>1 DEF RunTool, ToolPanics, Runnable
  <2>3. status = "running" BY <2>2, LoopIsRunning
  <2>4. ASSUME ~compressed, faults = 0 PROVE c \in Calls(durable)
    <3>1. durable = history BY <2>2, <2>3, <2>4 DEF ManInv, Told
    <3> QED BY <2>2, <2>3, <3>1 DEF ManInv, Batched
  <2>5. ASSUME whole PROVE c \notin Answered(durable) BY <2>2, <2>3, <2>5 DEF ManInv, Ordered, Open
  <2> QED BY <2>4, <2>5
<1> HIDE DEF A
<1>4. RunsWhatIsStored <=> [][A]_vars BY DEF RunsWhatIsStored, A
<1> QED BY <1>1, <1>2, <1>3, <1>4, PTL DEF TalkSpec

\* ManagedConversation's AllStored, the half of TurnsStoredOnce that says nothing is
\* missing.  A managed run that ended by itself, with no write failed and nothing
\* compressed, has stored all it said: what it says is checkpointed before the loop
\* goes on, and a run that continues another's turn begins from the rows.
THEOREM RunsAreWhole == Observed => (TalkSpec => []AllStored)
<1> SUFFICES ASSUME Observed PROVE TalkSpec => []AllStored
  OBVIOUS
<1>1. TalkInit => ManInv BY ManStarts
<1>2. ManInv /\ [TalkNext]_all => ManInv' BY ManSteps
<1>3. ManInv => AllStored BY DEF ManInv, Told, AllStored
<1> QED BY <1>1, <1>2, <1>3, PTL DEF TalkSpec

----------------------------------------------------------------------------
(* Calls and results side by side.                                         *)

\* Behind message i of h there are only results, up to message k.
Behind(h, i, k) == i < k /\ \A j \in DOMAIN h : i < j /\ j <= k => h[j].role = "tool"

\* A tool that message i asked for panicked.
Lost(h, i) == \E k \in DOMAIN h : Behind(h, i, k) /\ h[k].for = NoCall

\* The message with a result's call lies right before the results.
Owned(h) == \A k \in DOMAIN h : h[k].role = "tool" /\ h[k].for # NoCall =>
              \E i \in DOMAIN h : h[k].for \in h[i].calls /\ Behind(h, i, k)

\* A call has one result.
Once(h) == \A j, k \in DOMAIN h :
             /\ h[j].role = "tool" /\ h[k].role = "tool"
             /\ h[j].for = h[k].for /\ h[j].for # NoCall
             => j = k

\* Of the calls only those in B have neither a result nor a tool that panicked.
Left(h, B) == \A i \in DOMAIN h : \A c \in h[i].calls : c \in Answered(h) \/ Lost(h, i) \/ c \in B

Neat(h) == Fine(h) /\ Owned(h) /\ Once(h) /\ Left(h, Pending(h))

\* The results of message i, by their places.
LEMMA ResultsAt ==
  ASSUME NEW n \in Nat, NEW h \in Seq(Msgs(n)), NEW i \in DOMAIN h, NEW j
  PROVE  j \in Results(h, i) <=> j \in DOMAIN h /\ Behind(h, i, j)
<1> DEFINE l == Len(h)
           K == {k \in (i + 1)..l : h[k].role # "tool"}
           b == IF K # {} THEN Min(K) ELSE 0
           end == IF b = 0 THEN l ELSE b - 1
<1>1. l \in Nat /\ DOMAIN h = 1..l /\ i \in 1..l BY MessagesAre
<1>2. /\ K = {} => b = 0
      /\ K # {} => b \in K /\ \A k \in K : b <= k
  <2>1. K \subseteq Nat BY <1>1
  <2> HIDE DEF K
  <2>2. ASSUME K # {} PROVE Min(K) \in K /\ \A k \in K : Min(K) <= k
    <3>1. \E x \in K : \A y \in K : x <= y BY <2>1, <2>2, Least
    <3> QED BY <3>1 DEF Min
  <2> QED BY <2>2
<1>3. Results(h, i) = (i + 1)..end
  <2>1. SelectInSubSeq(h, i + 1, l, LAMBDA m : m.role # "tool") = b BY DEF SelectInSubSeq
  <2> HIDE DEF b
  <2> QED BY <2>1 DEF Results
<1> HIDE DEF b
<1>4. CASE K = {}
  <2>1. end = l BY <1>2, <1>4
  <2>2. \A k \in (i + 1)..l : h[k].role = "tool" BY <1>4
  <2>3. \A k \in 1..l : i < k => k \in (i + 1)..l BY <1>1
  <2>4. ASSUME NEW k \in 1..l, i < k PROVE Behind(h, i, k) BY <1>1, <2>2, <2>3, <2>4 DEF Behind
  <2>5. \A k \in (i + 1)..l : k \in 1..l /\ i < k BY <1>1
  <2> HIDE DEF l, K
  <2>6. ASSUME j \in 1..l, Behind(h, i, j) PROVE j \in (i + 1)..l BY <1>1, <2>6 DEF Behind
  <2> QED BY <1>1, <1>3, <2>1, <2>4, <2>5, <2>6
<1>5. CASE K # {}
  <2>1. b \in (i + 1)..l /\ h[b].role # "tool" /\ \A k \in K : b <= k BY <1>2, <1>5
  <2>2. end = b - 1 BY <1>1, <2>1
  <2>3. ASSUME NEW k \in (i + 1)..(b - 1) PROVE k \in 1..l /\ i < k /\ h[k].role = "tool"
    <3>1. k \in (i + 1)..l /\ ~(b <= k) /\ k \in 1..l /\ i < k BY <1>1, <2>1
    <3> QED BY <2>1, <3>1
  <2> HIDE DEF K, l, end
  <2>4. ASSUME j \in (i + 1)..(b - 1) PROVE j \in 1..l /\ Behind(h, i, j)
    <3>1. \A k \in 1..l : i < k /\ k <= j => k \in (i + 1)..(b - 1) BY <1>1, <2>1, <2>4
    <3> QED BY <1>1, <2>3, <2>4, <3>1 DEF Behind
  <2>5. ASSUME j \in 1..l, Behind(h, i, j) PROVE j \in (i + 1)..(b - 1)
    <3>1. i < j /\ (b \in DOMAIN h /\ i < b /\ b <= j => h[b].role = "tool") BY <2>5 DEF Behind
    <3>2. b \in 1..l /\ i < b BY <1>1, <2>1
    <3>3. ~(b <= j) BY <1>1, <2>1, <3>1, <3>2
    <3> QED BY <1>1, <2>1, <2>5, <3>1, <3>2, <3>3
  <2> QED BY <1>1, <1>3, <2>2, <2>4, <2>5
<1> QED BY <1>4, <1>5

\* A transcript and one that begins with it.
Extends(g, h) == Len(h) <= Len(g) /\ \A i \in 1..Len(h) : g[i] = h[i]

LEMMA Extended ==
  ASSUME NEW n \in Nat, NEW h \in Seq(Msgs(n)), NEW g \in Seq(Msgs(n)), Extends(g, h)
  PROVE  /\ DOMAIN h = 1..Len(h) /\ DOMAIN g = 1..Len(g) /\ Len(h) \in Nat /\ Len(g) \in Nat
         /\ DOMAIN h \subseteq DOMAIN g /\ \A i \in DOMAIN h : g[i] = h[i]
         /\ \A k \in DOMAIN h : \A i \in DOMAIN g : Behind(g, i, k) <=> Behind(h, i, k)
         /\ \A k \in DOMAIN h : \A i \in DOMAIN g : i < k => i \in DOMAIN h
         /\ \A i \in DOMAIN h : Lost(h, i) => Lost(g, i)
         /\ Answered(h) \subseteq Answered(g) /\ Calls(h) \subseteq Calls(g)
<1> DEFINE l == Len(h)
<1>1. /\ DOMAIN h = 1..Len(h) /\ DOMAIN g = 1..Len(g) /\ Len(h) \in Nat /\ Len(g) \in Nat
  BY MessagesAre
<1>2. DOMAIN h \subseteq DOMAIN g /\ \A i \in DOMAIN h : g[i] = h[i] BY <1>1 DEF Extends
<1>3. ASSUME NEW k \in DOMAIN h, NEW i \in DOMAIN g PROVE i < k => i \in DOMAIN h BY <1>1
<1>4. ASSUME NEW k \in DOMAIN h, NEW i \in DOMAIN g PROVE Behind(g, i, k) <=> Behind(h, i, k)
  <2>1. \A j \in DOMAIN g : j <= k => j \in DOMAIN h BY <1>1
  <2> QED BY <1>2, <2>1 DEF Behind
<1>5. ASSUME NEW i \in DOMAIN h, Lost(h, i) PROVE Lost(g, i)
  <2>1. PICK k \in DOMAIN h : Behind(h, i, k) /\ h[k].for = NoCall BY <1>5 DEF Lost
  <2>2. k \in DOMAIN g /\ Behind(g, i, k) /\ g[k].for = NoCall BY <1>2, <1>4, <2>1
  <2> QED BY <2>2 DEF Lost
<1>6. Answered(h) \subseteq Answered(g) BY <1>2 DEF Answered
<1>7. Calls(h) \subseteq Calls(g) BY <1>2 DEF Calls
<1> QED BY <1>1, <1>2, <1>3, <1>4, <1>5, <1>6, <1>7

\* What was written up to some message of a neat transcript is neat.
LEMMA NeatFront ==
  ASSUME NEW n \in Nat, NEW h \in Seq(Msgs(n)), NEW d \in Seq(Msgs(n)), IsPrefix(d, h), Neat(h)
  PROVE  Neat(d)
<1>1. /\ DOMAIN h = 1..Len(h) /\ DOMAIN d = 1..Len(d) /\ Len(h) \in Nat /\ Len(d) \in Nat
  BY MessagesAre
<1>2. Len(d) <= Len(h) /\ SubSeq(d, 1, Len(d)) = SubSeq(h, 1, Len(d)) BY DEF IsPrefix
<1>3. Len(d) \in 0..Len(h) /\ Len(d) \in 0..Len(d) BY <1>1, <1>2
<1>4. ASSUME NEW i \in 1..Len(d) PROVE d[i] = h[i]
  <2>1. d[i] = SubSeq(d, 1, Len(d))[i] BY <1>3, FrontOf
  <2>2. h[i] = SubSeq(h, 1, Len(d))[i] BY <1>3, FrontOf
  <2> QED BY <1>2, <2>1, <2>2
<1>5. Extends(h, d) BY <1>2, <1>4 DEF Extends
<1>6. /\ DOMAIN d \subseteq DOMAIN h /\ \A i \in DOMAIN d : h[i] = d[i]
      /\ \A k \in DOMAIN d : \A i \in DOMAIN h : Behind(h, i, k) <=> Behind(d, i, k)
      /\ \A k \in DOMAIN d : \A i \in DOMAIN h : i < k => i \in DOMAIN d
  BY <1>5, Extended
<1>7. Fine(d) BY FineFront DEF Neat
<1>8. Owned(d)
  <2> SUFFICES ASSUME NEW k \in DOMAIN d, d[k].role = "tool", d[k].for # NoCall
               PROVE  \E i \in DOMAIN d : d[k].for \in d[i].calls /\ Behind(d, i, k)
    BY DEF Owned
  <2>1. k \in DOMAIN h /\ h[k] = d[k] BY <1>6
  <2>2. PICK i \in DOMAIN h : h[k].for \in h[i].calls /\ Behind(h, i, k) BY <2>1 DEF Neat, Owned
  <2>3. i < k BY <2>2 DEF Behind
  <2>4. i \in DOMAIN d /\ d[i] = h[i] /\ Behind(d, i, k) BY <1>6, <2>2, <2>3
  <2> QED BY <2>1, <2>2, <2>4
<1>9. Once(d) BY <1>6 DEF Neat, Once
<1>10. Left(d, Pending(d))
  <2> SUFFICES ASSUME NEW i \in DOMAIN d, NEW c \in d[i].calls, c \notin Answered(d), ~Lost(d, i)
               PROVE  c \in Pending(d)
    BY DEF Left
  <2>1. i \in DOMAIN h /\ c \in h[i].calls /\ c # NoCall
    <3>1. d[i].calls \subseteq 1..n BY <1>1, MessagesAre
    <3> QED BY <1>6, <3>1 DEF NoCall
  <2>2. \A k \in DOMAIN d : d[k].role = "tool" => d[k].for # c BY DEF Answered
  \* All that is left is to see that behind i there are only results.
  <2>3. ASSUME NEW k \in DOMAIN h, k \notin DOMAIN d, Behind(h, i, k) PROVE c \in Pending(d)
    <3>1. \A j \in DOMAIN d : j <= k BY <1>1, <2>3
    <3>2. \A j \in DOMAIN d : j > i => d[j].role = "tool"
      <4> SUFFICES ASSUME NEW j \in DOMAIN d, j > i PROVE d[j].role = "tool"
        OBVIOUS
      <4>1. j \in DOMAIN h /\ i < j /\ j <= k BY <1>1, <1>6, <3>1
      <4> QED BY <1>6, <2>3, <4>1 DEF Behind
    <3>3. Waits(d, i, c) BY <2>2, <3>2 DEF Waits
    <3> QED BY <3>3, PendingIs
  <2>4. c \in Answered(h) \/ Lost(h, i) \/ c \in Pending(h) BY <2>1 DEF Neat, Left
  <2>5. CASE c \in Answered(h)
    <3>1. PICK k \in DOMAIN h : h[k].role = "tool" /\ h[k].for = c BY <2>5 DEF Answered
    <3>2. k \notin DOMAIN d BY <1>6, <2>2, <3>1
    <3>3. PICK a \in DOMAIN h : c \in h[a].calls /\ Behind(h, a, k) BY <2>1, <3>1 DEF Neat, Owned
    <3>4. a = i BY <2>1, <3>3 DEF Neat, Fine
    <3> QED BY <2>3, <3>2, <3>3, <3>4
  <2>6. CASE Lost(h, i)
    <3>1. PICK k \in DOMAIN h : Behind(h, i, k) /\ h[k].for = NoCall BY <2>6 DEF Lost
    <3>2. k \notin DOMAIN d
      <4> SUFFICES ASSUME k \in DOMAIN d PROVE Lost(d, i)
        OBVIOUS
      <4>1. Behind(d, i, k) /\ d[k].for = NoCall BY <1>6, <2>1, <3>1
      <4> QED BY <4>1 DEF Lost
    <3> QED BY <2>3, <3>1, <3>2
  <2>7. CASE c \in Pending(h)
    <3>1. PICK a \in DOMAIN h : Waits(h, a, c) BY <2>7, PendingIs
    <3>2. a = i BY <2>1, <3>1 DEF Neat, Fine, Waits
    <3>3. \A j \in DOMAIN d : j > i => d[j].role = "tool" BY <1>6, <3>1, <3>2 DEF Waits
    <3>4. Waits(d, i, c) BY <2>2, <3>3 DEF Waits
    <3> QED BY <3>4, PendingIs
  <2> QED BY <2>4, <2>5, <2>6, <2>7
<1> QED BY <1>7, <1>8, <1>9, <1>10 DEF Neat

\* The calls of a neat transcript: each has its result, a tool of its message panicked,
\* or it waits.
LEMMA NeatAdded ==
  ASSUME NEW n \in Nat, NEW h \in Seq(Msgs(n)), Neat(h), Left(h, {}), NEW m \in Msgs(n),
         m.role # "tool", m.calls \cap Calls(h) = {}, m.calls \cap Answered(h) = {}
  PROVE  /\ Neat(Append(h, m)) /\ Left(Append(h, m), m.calls)
         /\ m.calls \subseteq Pending(Append(h, m))
<1> DEFINE g == Append(h, m)
           l == Len(h)
<1>1. /\ g \in Seq(Msgs(n)) /\ Len(g) = l + 1 /\ DOMAIN g = 1..(l + 1) /\ g[l + 1] = m
      /\ \A i \in 1..l : g[i] = h[i]
      /\ \A i \in 1..(l + 1) : i \in 1..l \/ i = l + 1
  BY AddedIs
<1>2. l \in Nat /\ DOMAIN h = 1..l BY MessagesAre
<1>3. Extends(g, h) BY <1>1, <1>2 DEF Extends
<1> HIDE DEF g, l
<1>4. /\ DOMAIN h \subseteq DOMAIN g /\ \A i \in DOMAIN h : g[i] = h[i]
      /\ \A k \in DOMAIN h : \A i \in DOMAIN g : Behind(g, i, k) <=> Behind(h, i, k)
      /\ \A i \in DOMAIN h : Lost(h, i) => Lost(g, i)
      /\ Answered(h) \subseteq Answered(g)
  BY <1>1, <1>3, Extended
<1>5. \A k \in DOMAIN g : g[k].role = "tool" => k \in DOMAIN h BY <1>1, <1>2
<1>6. Fine(g) BY FineAdded DEF g, Neat
<1>7. Owned(g)
  <2> SUFFICES ASSUME NEW k \in DOMAIN g, g[k].role = "tool", g[k].for # NoCall
               PROVE  \E i \in DOMAIN g : g[k].for \in g[i].calls /\ Behind(g, i, k)
    BY DEF Owned
  <2>1. k \in DOMAIN h /\ h[k] = g[k] BY <1>4, <1>5
  <2>2. PICK i \in DOMAIN h : h[k].for \in h[i].calls /\ Behind(h, i, k) BY <2>1 DEF Neat, Owned
  <2>3. i \in DOMAIN g /\ g[i] = h[i] /\ Behind(g, i, k) BY <1>4, <2>1, <2>2
  <2> QED BY <2>1, <2>2, <2>3
<1>8. Once(g) BY <1>4, <1>5 DEF Neat, Once
<1>9. Left(g, m.calls)
  <2> SUFFICES ASSUME NEW i \in DOMAIN g, NEW c \in g[i].calls, c \notin m.calls
               PROVE  c \in Answered(g) \/ Lost(g, i)
    BY DEF Left
  <2>1. i \in DOMAIN h /\ c \in h[i].calls BY <1>1, <1>2
  <2>2. c \in Answered(h) \/ Lost(h, i) BY <2>1 DEF Left
  <2> QED BY <1>4, <2>1, <2>2
<1>10. ASSUME NEW c \in m.calls PROVE c \in Pending(g)
  <2>1. \A k \in DOMAIN g : ~(k > l + 1) BY <1>1, <1>2
  <2>2. l + 1 \in DOMAIN g BY <1>1, <1>2
  <2>3. Waits(g, l + 1, c) BY <1>1, <2>1 DEF Waits
  <2> QED BY <1>1, <2>2, <2>3, PendingIs
<1>11. Left(g, Pending(g)) BY <1>9, <1>10 DEF Left
<1> QED BY <1>6, <1>7, <1>8, <1>9, <1>10, <1>11 DEF Neat, g

\* The results of calls that wait are added, and of tools that panicked.
LEMMA NeatAnswered ==
  ASSUME NEW n \in Nat, NEW h \in Seq(Msgs(n)), NEW t \in Seq(Msgs(n)), Neat(h),
         \A i \in 1..Len(t) : t[i].role = "tool" /\ t[i].for \in Pending(h) \cup {NoCall},
         \A i, j \in 1..Len(t) : t[i].for = t[j].for /\ t[i].for # NoCall => i = j
  PROVE  /\ Neat(h \o t)
         /\ \A B : Left(h, B) /\ (\A c \in B : \E i \in 1..Len(t) : t[i].for = c) => Left(h \o t, {})
         /\ (\E i \in 1..Len(t) : t[i].for = NoCall) => Left(h \o t, {})
         /\ Answered(h \o t) = Answered(h) \cup {t[i].for : i \in 1..Len(t)}
<1> DEFINE g == h \o t
           l == Len(h)
<1>1. /\ g \in Seq(Msgs(n)) /\ DOMAIN g = 1..(l + Len(t)) /\ l \in Nat /\ Len(t) \in Nat
      /\ Len(g) = l + Len(t)
      /\ \A i \in 1..l : g[i] = h[i]
      /\ \A i \in 1..Len(t) : g[l + i] = t[i]
      /\ \A i \in 1..(l + Len(t)) : i \in 1..l \/ \E j \in 1..Len(t) : i = l + j
  BY JoinOf
<1>2. DOMAIN h = 1..l /\ \A i \in 1..Len(t) : t[i].calls = {} BY MessagesAre
<1>3. Extends(g, h) BY <1>1 DEF Extends
<1> HIDE DEF g, l
<1>4. /\ DOMAIN h \subseteq DOMAIN g /\ \A i \in DOMAIN h : g[i] = h[i]
      /\ \A k \in DOMAIN h : \A i \in DOMAIN g : Behind(g, i, k) <=> Behind(h, i, k)
      /\ \A i \in DOMAIN h : Lost(h, i) => Lost(g, i)
      /\ Answered(h) \subseteq Answered(g)
  BY <1>1, <1>3, Extended
<1>5. ASSUME NEW k \in DOMAIN g, k \notin DOMAIN h
      PROVE  /\ \E j \in 1..Len(t) : k = l + j /\ g[k] = t[j]
             /\ g[k].role = "tool" /\ g[k].calls = {} /\ \A i \in DOMAIN h : i < k
             /\ g[k].for \in Pending(h) \cup {NoCall}
  <2>1. PICK j \in 1..Len(t) : k = l + j BY <1>1, <1>2, <1>5
  <2>2. g[k] = t[j] BY <1>1, <2>1
  <2>3. \A i \in 1..l : i < k BY <1>1, <2>1
  <2> QED BY <1>2, <2>1, <2>2, <2>3
<1>6. ASSUME NEW i \in 1..Len(t) PROVE l + i \in DOMAIN g /\ l + i \notin DOMAIN h /\ g[l + i] = t[i]
  BY <1>1, <1>2
\* What waits is behind the message that made it.
<1>7. ASSUME NEW a \in DOMAIN h, NEW c, Waits(h, a, c), NEW k \in DOMAIN g, k \notin DOMAIN h
      PROVE  Behind(g, a, k)
  <2>1. a < k BY <1>5, <1>7
  <2>2. ASSUME NEW j \in DOMAIN g, a < j PROVE g[j].role = "tool"
    <3>1. CASE j \in DOMAIN h
      <4>1. j > a BY <1>2, <2>2, <3>1
      <4> QED BY <1>4, <1>7, <3>1, <4>1 DEF Waits
    <3> QED BY <1>5, <3>1
  <2> QED BY <2>1, <2>2 DEF Behind
<1>8. Pending(h) \cap Answered(h) = {} BY WaitingUnanswered DEF Neat
<1>9. Fine(g) BY WaitingAnswered DEF Neat, g
<1>10. Owned(g)
  <2> SUFFICES ASSUME NEW k \in DOMAIN g, g[k].role = "tool", g[k].for # NoCall
               PROVE  \E i \in DOMAIN g : g[k].for \in g[i].calls /\ Behind(g, i, k)
    BY DEF Owned
  <2>1. CASE k \in DOMAIN h
    <3>1. h[k] = g[k] BY <1>4, <2>1
    <3>2. PICK i \in DOMAIN h : h[k].for \in h[i].calls /\ Behind(h, i, k)
      BY <2>1, <3>1 DEF Neat, Owned
    <3>3. i \in DOMAIN g /\ g[i] = h[i] /\ Behind(g, i, k) BY <1>4, <2>1, <3>2
    <3> QED BY <3>1, <3>2, <3>3
  <2>2. CASE k \notin DOMAIN h
    <3>1. g[k].for \in Pending(h) BY <1>5, <2>2
    <3>2. PICK a \in DOMAIN h : Waits(h, a, g[k].for) BY <3>1, PendingIs
    <3>3. a \in DOMAIN g /\ g[a] = h[a] /\ Behind(g, a, k) BY <1>4, <1>7, <2>2, <3>2
    <3>4. g[k].for \in h[a].calls BY <3>2 DEF Waits
    <3> QED BY <3>3, <3>4
  <2> QED BY <2>1, <2>2
<1>11. Once(g)
  <2> SUFFICES ASSUME NEW j \in DOMAIN g, NEW k \in DOMAIN g, g[j].role = "tool", g[k].role = "tool",
                      g[j].for = g[k].for, g[j].for # NoCall
               PROVE  j = k
    BY DEF Once
  <2>1. CASE j \in DOMAIN h /\ k \in DOMAIN h BY <1>4, <2>1 DEF Neat, Once
  <2>2. ASSUME NEW x \in DOMAIN h, NEW y \in DOMAIN g, y \notin DOMAIN h, g[x].role = "tool",
               g[x].for = g[y].for, g[y].for # NoCall
        PROVE  FALSE
    <3>1. g[y].for \in Pending(h) BY <1>5, <2>2
    <3>2. h[x].role = "tool" /\ h[x].for = g[y].for BY <1>4, <2>2
    <3>3. g[y].for \in Answered(h) BY <3>2 DEF Answered
    <3> QED BY <1>8, <3>1, <3>3
  <2>3. CASE j \notin DOMAIN h /\ k \notin DOMAIN h
    <3>1. PICK x \in 1..Len(t) : j = l + x /\ g[j] = t[x] BY <1>5, <2>3
    <3>2. PICK y \in 1..Len(t) : k = l + y /\ g[k] = t[y] BY <1>5, <2>3
    <3>3. x = y BY <3>1, <3>2
    <3> QED BY <3>1, <3>2, <3>3
  <2> QED BY <2>1, <2>2, <2>3
<1>12. Answered(g) = Answered(h) \cup {t[i].for : i \in 1..Len(t)}
  <2>1. ASSUME NEW c \in Answered(g) PROVE c \in Answered(h) \/ \E i \in 1..Len(t) : c = t[i].for
    <3>1. PICK k \in DOMAIN g : g[k].role = "tool" /\ g[k].for = c BY DEF Answered
    <3>2. CASE k \in DOMAIN h
      <4>1. h[k].role = "tool" /\ h[k].for = c BY <1>4, <3>1, <3>2
      <4> QED BY <3>2, <4>1 DEF Answered
    <3>3. CASE k \notin DOMAIN h BY <1>5, <3>1, <3>3
    <3> QED BY <3>2, <3>3
  <2>2. ASSUME NEW i \in 1..Len(t) PROVE t[i].for \in Answered(g)
    <3>1. l + i \in DOMAIN g /\ g[l + i].role = "tool" /\ g[l + i].for = t[i].for BY <1>6
    <3> QED BY <3>1 DEF Answered
  <2> QED BY <1>4, <2>1, <2>2
<1>13. ASSUME NEW i \in DOMAIN g, NEW c \in g[i].calls PROVE i \in DOMAIN h /\ c \in h[i].calls
  BY <1>4, <1>5
<1>14. ASSUME NEW B, Left(h, B), \A c \in B : \E i \in 1..Len(t) : t[i].for = c PROVE Left(g, {})
  <2> SUFFICES ASSUME NEW i \in DOMAIN g, NEW c \in g[i].calls PROVE c \in Answered(g) \/ Lost(g, i)
    BY DEF Left
  <2>1. c \in Answered(h) \/ Lost(h, i) \/ c \in B BY <1>13, <1>14 DEF Left
  <2>2. c \in B => c \in Answered(g) BY <1>12, <1>14
  <2> QED BY <1>4, <1>13, <2>1, <2>2
<1>15. ASSUME NEW j \in 1..Len(t), t[j].for = NoCall PROVE Left(g, {})
  <2> SUFFICES ASSUME NEW i \in DOMAIN g, NEW c \in g[i].calls PROVE c \in Answered(g) \/ Lost(g, i)
    BY DEF Left
  <2>1. c \in Answered(h) \/ Lost(h, i) \/ c \in Pending(h) BY <1>13 DEF Neat, Left
  <2>2. ASSUME c \in Pending(h) PROVE Lost(g, i)
    <3>1. PICK a \in DOMAIN h : Waits(h, a, c) BY <2>2, PendingIs
    <3>2. a = i BY <1>13, <3>1 DEF Neat, Fine, Waits
    <3>3. Behind(g, i, l + j) /\ g[l + j].for = NoCall /\ l + j \in DOMAIN g
      BY <1>6, <1>7, <1>15, <3>1, <3>2
    <3> QED BY <3>3 DEF Lost
  <2> QED BY <1>4, <1>13, <2>1, <2>2
<1>16. Left(g, Pending(g))
  <2> SUFFICES ASSUME NEW i \in DOMAIN g, NEW c \in g[i].calls, c \notin Answered(g), ~Lost(g, i)
               PROVE  c \in Pending(g)
    BY DEF Left
  <2>1. c \in Pending(h) BY <1>4, <1>13 DEF Neat, Left
  <2>2. PICK a \in DOMAIN h : Waits(h, a, c) BY <2>1, PendingIs
  <2>3. a \in DOMAIN g /\ c \in g[a].calls BY <1>4, <2>2 DEF Waits
  <2>4. ASSUME NEW k \in DOMAIN g, k > a PROVE g[k].role = "tool" /\ g[k].for # c
    <3>1. g[k].role = "tool" BY <1>4, <1>5, <2>2, <2>4 DEF Waits
    <3>2. g[k].for # c BY <3>1 DEF Answered
    <3> QED BY <3>1, <3>2
  <2>5. Waits(g, a, c) BY <2>3, <2>4 DEF Waits
  <2> QED BY <1>1, <2>3, <2>5, PendingIs
<1>17. Neat(g) BY <1>9, <1>10, <1>11, <1>16 DEF Neat
<1> QED BY <1>12, <1>14, <1>15, <1>17 DEF g

\* Nothing of a transcript is open, and no tool panicked.
Tidy(h) == Neat(h) /\ Left(h, {}) /\ NoCall \notin Answered(h)

LEMMA TidyOwned ==
  ASSUME NEW n \in Nat, NEW h \in Seq(Msgs(n)), Neat(h), NoCall \notin Answered(h),
         NEW k \in DOMAIN h, h[k].role = "tool"
  PROVE  \E i \in DOMAIN h : h[k].for \in h[i].calls /\ Behind(h, i, k)
<1>1. h[k].for # NoCall BY DEF Answered
<1> QED BY <1>1 DEF Neat, Owned

\* A provider accepts such a transcript.
LEMMA TidyPaired ==
  ASSUME NEW n \in Nat, NEW h \in Seq(Msgs(n)), Tidy(h)
  PROVE  Paired(h) /\ Pending(h) = {}
<1>1. DOMAIN h = 1..Len(h) /\ Len(h) \in Nat /\ \A i \in 1..Len(h) : h[i].calls \subseteq 1..n
  BY MessagesAre
<1>2. ASSUME NEW k \in DOMAIN h, h[k].role = "tool"
      PROVE  \E i \in DOMAIN h : h[k].for \in h[i].calls /\ Behind(h, i, k)
  BY <1>2, TidyOwned DEF Tidy
<1>3. ASSUME NEW i \in DOMAIN h, Lost(h, i) PROVE FALSE
  <2>1. PICK k \in DOMAIN h : Behind(h, i, k) /\ h[k].for = NoCall BY <1>3 DEF Lost
  <2>2. h[k].role = "tool" BY <1>1, <2>1 DEF Behind
  <2> QED BY <2>1, <2>2 DEF Tidy, Answered
<1>4. ASSUME NEW i \in DOMAIN h, NEW c \in h[i].calls
      PROVE  \E k \in DOMAIN h : h[k].role = "tool" /\ h[k].for = c
  <2>1. c \in Answered(h) BY <1>3 DEF Tidy, Left
  <2> QED BY <2>1 DEF Answered
<1>5. ASSUME h # <<>> PROVE h[1].role # "tool"
  <2> SUFFICES ASSUME h[1].role = "tool" PROVE FALSE
    OBVIOUS
  <2>0. Len(h) # 0 BY <1>5
  <2>1. 1 \in DOMAIN h BY <1>1, <2>0
  <2>2. PICK i \in DOMAIN h : Behind(h, i, 1) BY <1>2, <2>1
  <2> QED BY <1>1, <2>2 DEF Behind
<1>6. ASSUME NEW i \in DOMAIN h, h[i].role # "tool"
      PROVE  /\ h[i].calls = {h[j].for : j \in Results(h, i)}
             /\ Cardinality(h[i].calls) = Cardinality(Results(h, i))
  <2> DEFINE R == Results(h, i)
             f == [j \in R |-> h[j].for]
  <2>1. \A j : j \in R <=> j \in DOMAIN h /\ Behind(h, i, j) BY ResultsAt
  <2> HIDE DEF R
  <2>2. ASSUME NEW j \in R PROVE j \in DOMAIN h /\ h[j].role = "tool" /\ h[j].for \in h[i].calls
    <3>1. j \in DOMAIN h /\ Behind(h, i, j) BY <2>1
    <3>2. i < j /\ h[j].role = "tool" BY <1>1, <3>1 DEF Behind
    <3>3. PICK x \in DOMAIN h : h[j].for \in h[x].calls /\ Behind(h, x, j) BY <1>2, <3>1, <3>2
    <3>4. x = i
      <4>1. h[x].role # "tool"
        <5>1. h[x].calls # {} BY <3>3
        <5> QED BY <1>1, <5>1, MessagesAre
      <4>2. ~(i < x) BY <1>1, <3>1, <3>3, <4>1 DEF Behind
      <4>0. i <= j BY <1>1, <3>1, <3>2
      <4>3. ~(x < i) BY <1>6, <3>3, <4>0 DEF Behind
      <4> QED BY <1>1, <4>2, <4>3
    <3> QED BY <3>1, <3>2, <3>3, <3>4
  <2>3. ASSUME NEW c \in h[i].calls PROVE \E j \in R : h[j].for = c
    <3>1. PICK j \in DOMAIN h : h[j].role = "tool" /\ h[j].for = c BY <1>4
    <3>2. PICK x \in DOMAIN h : h[j].for \in h[x].calls /\ Behind(h, x, j) BY <1>2, <3>1
    <3>3. x = i BY <3>1, <3>2 DEF Tidy, Neat, Fine
    <3> QED BY <2>1, <3>1, <3>2, <3>3
  <2>4. h[i].calls = {h[j].for : j \in R} BY <2>2, <2>3
  <2>5. ASSUME NEW j \in R, NEW k \in R, h[j].for = h[k].for PROVE j = k
    <3>1. h[j].for # NoCall BY <2>2 DEF Tidy, Answered
    <3> QED BY <2>2, <2>5, <3>1 DEF Tidy, Neat, Once
  <2>6. IsFiniteSet(R)
    <3>1. R \subseteq 1..Len(h) BY <1>1, <2>1
    <3>2. IsFiniteSet(1..Len(h)) BY <1>1, FS_Interval
    <3> QED BY <3>1, <3>2, FS_Subset
  <2>7. f \in Bijection(R, h[i].calls)
    <3>1. f \in [R -> h[i].calls] BY <2>2
    <3>2. f \in Injection(R, h[i].calls) BY <2>5, <3>1 DEF Injection, IsInjective
    <3>3. f \in Surjection(R, h[i].calls) BY <2>3, <3>1 DEF Surjection
    <3> QED BY <3>2, <3>3 DEF Bijection
  <2>8. ExistsBijection(R, h[i].calls) BY <2>7 DEF ExistsBijection
  <2>9. Cardinality(h[i].calls) = Cardinality(R) BY <2>6, <2>8, FS_Bijection
  <2> QED BY <2>4, <2>9 DEF R
<1>7. Pending(h) = {}
  <2> SUFFICES ASSUME NEW c \in Pending(h) PROVE FALSE
    OBVIOUS
  <2>1. PICK a \in DOMAIN h : Waits(h, a, c) BY PendingIs
  <2>2. c \in Answered(h)
    <3>1. c \in h[a].calls BY <2>1 DEF Waits
    <3> QED BY <1>4, <3>1 DEF Answered
  <2> QED BY <2>2, WaitingUnanswered DEF Tidy, Neat
<1> QED BY <1>5, <1>6, <1>7 DEF Paired

\* In a transcript that a provider accepts nothing is open.
LEMMA PairedLeft ==
  ASSUME NEW n \in Nat, NEW h \in Seq(Msgs(n)), Paired(h)
  PROVE  Left(h, {})
<1> SUFFICES ASSUME NEW i \in DOMAIN h, NEW c \in h[i].calls PROVE c \in Answered(h)
  BY DEF Left
<1>1. DOMAIN h = 1..Len(h) BY MessagesAre
<1>2. h[i].role # "tool"
  <2>1. h[i].calls # {} OBVIOUS
  <2> QED BY <1>1, <2>1, MessagesAre
<1>3. PICK j \in Results(h, i) : h[j].for = c BY <1>2 DEF Paired
<1>4. j \in DOMAIN h /\ Behind(h, i, j) BY <1>3, ResultsAt
<1>5. h[j].role = "tool"
  <2>1. i \in Nat /\ j \in Nat BY <1>1, <1>4
  <2> QED BY <1>4, <2>1 DEF Behind
<1> QED BY <1>3, <1>4, <1>5 DEF Answered

LEMMA NeatNone == Neat(<<>>) /\ Left(<<>>, {})
<1>1. DOMAIN <<>> = {} OBVIOUS
<1> QED BY <1>1, FineNone DEF Neat, Owned, Once, Left

----------------------------------------------------------------------------
(* What a compression does to a tidy transcript.                           *)

\* The tail of a compression begins with a result only if its call is gone already.
LEMMA TailIs ==
  ASSUME NEW n \in Nat, NEW h \in Seq(Msgs(n)), NEW raw \in DOMAIN h
  PROVE  /\ TailStart(h, raw) \in 1..Len(h)
         /\ h[TailStart(h, raw)].role = "tool" =>
              \A j \in DOMAIN h : j < TailStart(h, raw) => h[TailStart(h, raw)].for \notin h[j].calls
<1> DEFINE l == Len(h)
           t == TailStart(h, raw)
           q == IF raw <= l - MinTail + 1 THEN raw
                ELSE IF l >= MinTail THEN l - MinTail + 1 ELSE 1
           parents == {j \in 1..(q - 1) : h[j].role = "assistant" /\ h[q].for \in h[j].calls}
<1>1. /\ l \in Nat /\ DOMAIN h = 1..l /\ raw \in 1..l
      /\ \A j \in DOMAIN h : h[j].role # "assistant" => h[j].calls = {}
  BY MessagesAre
<1>2. q \in 1..l BY <1>1 DEF MinTail
<1>3. t = IF h[q].role = "tool" /\ parents # {} THEN Max(parents) ELSE q BY DEF TailStart
<1>4. parents \subseteq 1..(q - 1) /\ \A j \in parents : h[j].role = "assistant" OBVIOUS
<1>5. \A j \in 1..(q - 1) : j \notin parents => h[j].role # "assistant" \/ h[q].for \notin h[j].calls
  OBVIOUS
<1> HIDE DEF q, parents, t, l
<1>6. parents \subseteq 0..l /\ \A x \in parents : x \in 1..l BY <1>1, <1>2, <1>4
<1>7. parents # {} => Max(parents) \in parents BY <1>1, <1>6, Largest
<1>8. CASE h[q].role = "tool" /\ parents # {}
  <2>1. t \in parents BY <1>3, <1>7, <1>8
  <2>2. t \in 1..l /\ h[t].role = "assistant" BY <1>4, <1>6, <2>1
  <2> QED BY <2>2 DEF t, l
<1>9. CASE ~(h[q].role = "tool" /\ parents # {})
  <2>1. t = q BY <1>3, <1>9
  <2>2. ASSUME h[t].role = "tool", NEW j \in DOMAIN h, j < t PROVE h[t].for \notin h[j].calls
    <3>1. j \in 1..(q - 1) /\ j \notin parents BY <1>1, <1>2, <1>9, <2>1, <2>2
    <3>2. h[j].role # "assistant" \/ h[q].for \notin h[j].calls BY <1>5, <3>1
    <3> QED BY <1>1, <2>1, <3>2
  <2>3. t \in 1..l BY <1>2, <2>1
  <2> QED BY <2>2, <2>3 DEF t, l
<1> QED BY <1>8, <1>9

\* What a compression makes of a history that it shortens.
LEMMA Shortened ==
  ASSUME NEW n \in Nat, NEW h \in Seq(Msgs(n)), NEW p \in Nat, NEW g \in Compressions(h, p), g # h
  PROVE  \E t \in 1..Len(h) :
           /\ p + 1 < t /\ g = SanitizeToolPairs(Summarized(h, p, t))
           /\ h[t].role = "tool" => \A j \in DOMAIN h : j < t => h[t].for \notin h[j].calls
<1>1. PICK raw \in DOMAIN h : LET t == TailStart(h, raw) IN
        /\ t > p + 1
        /\ g = SanitizeToolPairs(Summarized(h, p, t))
  BY DEF Compressions, Tails
<1> DEFINE t == TailStart(h, raw)
<1>2. t > p + 1 /\ g = SanitizeToolPairs(Summarized(h, p, t)) BY <1>1
<1>3. /\ t \in 1..Len(h)
      /\ h[t].role = "tool" => \A j \in DOMAIN h : j < t => h[t].for \notin h[j].calls
  BY TailIs
<1> HIDE DEF t
<1>4. p + 1 < t
  <2>1. t \in Nat BY <1>3
  <2> QED BY <1>2, <2>1
<1> QED BY <1>2, <1>3, <1>4

\* What is left of a tidy transcript, but for the calls whose results went.
Unbroken(h) == Fine(h) /\ Owned(h) /\ Once(h) /\ NoCall \notin Answered(h)

LEMMA SummaryUnbroken ==
  ASSUME NEW n \in Nat, NEW h \in Seq(Msgs(n)), NEW p \in Nat, NEW t \in 1..Len(h), p + 1 < t,
         h[t].role = "tool" => \A j \in DOMAIN h : j < t => h[t].for \notin h[j].calls,
         Tidy(h)
  PROVE  /\ Summarized(h, p, t) \in Seq(Msgs(n)) /\ Unbroken(Summarized(h, p, t))
         /\ Summarized(h, p, t) # <<>> /\ Last(Summarized(h, p, t)) = Last(h)
<1> DEFINE l == Len(h)
           s == Summarized(h, p, t)
           at(i) == From(p, t, i)
<1>1. /\ l \in Nat /\ DOMAIN h = 1..l /\ t \in 1..l /\ t \in Nat /\ t <= l
      /\ Fine(h) /\ Owned(h) /\ Once(h) /\ Neat(h) /\ NoCall \notin Answered(h)
  BY MessagesAre DEF Tidy, Neat
<1>2. User(Synthetic).calls = {} /\ User(Synthetic).role = "user" BY UserIs
<1>3. /\ s \in Seq(Msgs(n)) /\ DOMAIN s = 1..(p + 1 + (l - t + 1)) /\ s[p + 1] = User(Synthetic)
      /\ \A i \in DOMAIN s : i # p + 1 => at(i) \in 1..l /\ s[i] = h[at(i)]
  <2>1. t \in Nat /\ t <= Len(h) BY <1>1
  <2> QED BY <2>1, SummaryIs
<1>4. Fine(s)
  <2>1. t \in Nat /\ t <= Len(h) /\ Fine(h) BY <1>1
  <2> QED BY <2>1, SummaryFine
<1>5. h[t].role # "tool"
  <2> SUFFICES ASSUME h[t].role = "tool" PROVE FALSE
    OBVIOUS
  <2>1. PICK i \in DOMAIN h : h[t].for \in h[i].calls /\ Behind(h, i, t) BY <1>1, TidyOwned
  <2>2. i < t BY <2>1 DEF Behind
  <2> QED BY <2>1, <2>2
<1> HIDE DEF l, s
<1>6. DOMAIN s \subseteq Nat /\ p + 1 \in DOMAIN s BY <1>1, <1>3
<1>7. ASSUME NEW i \in DOMAIN s, i # p + 1
      PROVE  /\ at(i) \in DOMAIN h /\ s[i] = h[at(i)] /\ i \in Nat /\ i >= 1
             /\ i <= p => at(i) = i /\ i < t
             /\ i > p + 1 => at(i) = t + (i - p - 1) - 1 /\ at(i) >= t
  <2>1. i \in Nat /\ i >= 1
    <3>1. i \in 1..(p + 1 + (l - t + 1)) BY <1>3
    <3> QED BY <3>1
  <2>2. i <= p => at(i) = i /\ i < t BY <1>1, <1>7, <2>1 DEF From
  <2>3. i > p + 1 => at(i) = t + (i - p - 1) - 1 /\ at(i) >= t BY <1>1, <1>7, <2>1 DEF From
  <2>4. at(i) \in DOMAIN h /\ s[i] = h[at(i)] BY <1>1, <1>3, <1>7
  <2> QED BY <2>1, <2>2, <2>3, <2>4
<1>8. ASSUME NEW k \in DOMAIN s, s[k].role = "tool", NEW i \in DOMAIN h, Behind(h, i, at(k))
      PROVE  /\ k # p + 1
             /\ \E a \in DOMAIN s : s[a] = h[i] /\ Behind(s, a, k)
  <2>1. k # p + 1 BY <1>2, <1>3, <1>8
  <2>2. i < at(k) /\ \A j \in DOMAIN h : i < j /\ j <= at(k) => h[j].role = "tool" BY <1>8 DEF Behind
  <2>3. i \in 1..l /\ i \in Nat /\ at(k) \in DOMAIN h BY <1>1, <1>7, <2>1
  <2>4. CASE k <= p
    <3>1. at(k) = k /\ k \in Nat BY <1>7, <2>1, <2>4
    <3>2. i < k /\ i # p + 1 /\ i <= p BY <2>2, <2>3, <2>4, <3>1
    <3>3. i \in DOMAIN s
      <4>1. k <= p + 1 + (l - t + 1) BY <1>3
      <4> QED BY <1>1, <1>3, <2>3, <3>1, <3>2, <4>1
    <3>4. s[i] = h[i] BY <1>7, <3>2, <3>3
    <3>5. ASSUME NEW j \in DOMAIN s, i < j, j <= k PROVE s[j].role = "tool"
      <4>1. j \in Nat BY <1>6
      <4>2. j <= p /\ j # p + 1 BY <2>4, <3>1, <3>5, <4>1
      <4>3. at(j) = j /\ j \in DOMAIN h /\ s[j] = h[j] BY <1>7, <4>2
      <4> QED BY <2>2, <3>1, <3>5, <4>3
    <3> QED BY <2>1, <3>2, <3>3, <3>4, <3>5 DEF Behind
  <2>5. CASE k > p
    <3>1. k \in Nat /\ k > p + 1 BY <1>6, <2>1, <2>5
    <3>2. at(k) = t + (k - p - 1) - 1 /\ at(k) >= t BY <1>7, <2>1, <3>1
    <3>3. i >= t
      <4>1. ~(i < t) BY <1>1, <1>5, <2>2, <3>2
      <4> QED BY <1>1, <2>3, <4>1
    <3> DEFINE a == i - t + p + 2
    <3>4. a \in Nat /\ a >= p + 2 /\ a < k BY <1>1, <2>2, <2>3, <3>1, <3>2, <3>3
    <3>5. at(a) = i
      <4>1. t + (a - p - 1) - 1 = i BY <1>1, <2>3
      <4>2. ~(a <= p) BY <3>4
      <4> HIDE DEF a
      <4>3. at(a) = t + (a - p - 1) - 1 BY <4>2 DEF From
      <4> QED BY <4>1, <4>3
    <3> HIDE DEF a
    <3>6. a \in DOMAIN s
      <4>1. k <= p + 1 + (l - t + 1) BY <1>3
      <4> QED BY <1>1, <1>3, <3>1, <3>4, <4>1
    <3>7. a # p + 1 BY <3>4
    <3>8. s[a] = h[i] BY <1>7, <3>5, <3>6, <3>7
    <3>9. ASSUME NEW j \in DOMAIN s, a < j, j <= k PROVE s[j].role = "tool"
      <4>1. j \in Nat BY <1>6
      <4>2. j > p + 1 /\ j # p + 1 BY <3>4, <3>9, <4>1
      <4>3. at(j) = t + (j - p - 1) - 1 /\ at(j) \in DOMAIN h /\ s[j] = h[at(j)] BY <1>7, <4>2
      <4>4. at(a) = t + (a - p - 1) - 1 BY <1>7, <3>4, <3>6, <3>7
      <4>5. i < at(j) /\ at(j) <= at(k) BY <1>1, <3>1, <3>2, <3>4, <3>5, <3>9, <4>1, <4>3, <4>4
      <4> QED BY <2>2, <4>3, <4>5
    <3> QED BY <2>1, <3>4, <3>6, <3>8, <3>9 DEF Behind
  <2>6. k \in Nat BY <1>6
  <2> QED BY <2>4, <2>5, <2>6
<1>9. ASSUME NEW k \in DOMAIN s, s[k].role = "tool"
      PROVE  k # p + 1 /\ at(k) \in DOMAIN h /\ s[k] = h[at(k)]
  <2>1. k # p + 1 BY <1>2, <1>3, <1>9
  <2> QED BY <1>7, <2>1
<1>10. Owned(s)
  <2> SUFFICES ASSUME NEW k \in DOMAIN s, s[k].role = "tool", s[k].for # NoCall
               PROVE  \E i \in DOMAIN s : s[k].for \in s[i].calls /\ Behind(s, i, k)
    BY DEF Owned
  <2>1. at(k) \in DOMAIN h /\ s[k] = h[at(k)] BY <1>9
  <2>2. PICK i \in DOMAIN h : h[at(k)].for \in h[i].calls /\ Behind(h, i, at(k)) BY <1>1, <2>1 DEF Owned
  <2>3. PICK a \in DOMAIN s : s[a] = h[i] /\ Behind(s, a, k) BY <1>8, <2>2
  <2> QED BY <2>1, <2>2, <2>3
<1>11. Once(s)
  <2> SUFFICES ASSUME NEW j \in DOMAIN s, NEW k \in DOMAIN s, s[j].role = "tool", s[k].role = "tool",
                      s[j].for = s[k].for, s[j].for # NoCall
               PROVE  j = k
    BY DEF Once
  <2>1. /\ j # p + 1 /\ at(j) \in DOMAIN h /\ s[j] = h[at(j)]
        /\ k # p + 1 /\ at(k) \in DOMAIN h /\ s[k] = h[at(k)]
    BY <1>9
  <2>2. at(j) = at(k) BY <1>1, <2>1 DEF Once
  <2>3. j \in Nat /\ k \in Nat BY <1>6
  <2>4. /\ j <= p => at(j) = j /\ j < t
        /\ j > p + 1 => at(j) = t + (j - p - 1) - 1 /\ at(j) >= t
        /\ k <= p => at(k) = k /\ k < t
        /\ k > p + 1 => at(k) = t + (k - p - 1) - 1 /\ at(k) >= t
    BY <1>7, <2>1
  <2> HIDE DEF at
  <2> QED BY <1>1, <2>1, <2>2, <2>3, <2>4
<1>12. NoCall \notin Answered(s)
  <2> SUFFICES ASSUME NEW k \in DOMAIN s, s[k].role = "tool", s[k].for = NoCall PROVE FALSE
    BY DEF Answered
  <2>1. at(k) \in DOMAIN h /\ s[k] = h[at(k)] BY <1>9
  <2> QED BY <1>1, <2>1 DEF Answered
<1>13. s # <<>> /\ Last(s) = Last(h)
  <2>1. Len(s) = p + 1 + (l - t + 1) /\ Len(s) \in Nat
    <3>1. Len(s) \in Nat /\ DOMAIN s = 1..Len(s) BY <1>3, MessagesAre
    <3>2. p + 1 + (l - t + 1) \in Nat BY <1>1
    <3> QED BY <1>3, <3>1, <3>2
  <2> DEFINE k == Len(s)
  <2>2. k \in DOMAIN s /\ k # p + 1 /\ k > p + 1 BY <1>1, <1>3, <2>1
  <2>3. at(k) = t + (k - p - 1) - 1 /\ s[k] = h[at(k)] BY <1>7, <2>2
  <2>4. at(k) = l BY <1>1, <2>1, <2>3
  <2>5. s[Len(s)] = h[l] BY <2>3, <2>4
  <2>6. s # <<>> BY <1>6
  <2> QED BY <2>5, <2>6 DEF Last, l
<1> QED BY <1>3, <1>4, <1>10, <1>11, <1>12, <1>13 DEF Unbroken, s

\* A kept message comes with the calls that it made, and a result is made up for each of
\* them whose own is gone: nothing remains open.
LEMMA SanitizedTidy ==
  ASSUME NEW n \in Nat, NEW h \in Seq(Msgs(n)), NEW g \in Seq(Msgs(n)), NEW starts, NEW size,
         LaidOut(h, g, starts, size), Unbroken(h)
  PROVE  /\ Tidy(g)
         /\ h # <<>> /\ Last(h).role = "tool" => g # <<>> /\ Last(g).role = "tool"
<1>1. /\ DOMAIN h = 1..Len(h) /\ Len(h) \in Nat /\ DOMAIN g \subseteq Nat
      /\ \A i \in DOMAIN h : starts[i] \in Nat /\ size[i] \in Nat
      /\ \A k \in DOMAIN g : \A c \in g[k].calls :
           \E i \in DOMAIN h : k = starts[i] + 1 /\ g[k] = h[i] /\ c \in h[i].calls /\ 1 \in 1..size[i]
      /\ \A i, j \in DOMAIN h : \A o \in 1..size[i], q \in 1..size[j] : i < j => starts[i] + o < starts[j] + q
      /\ Fine(h) /\ Owned(h) /\ Once(h) /\ NoCall \notin Answered(h)
  BY LaidAt, MessagesAre DEF Unbroken
<1>2. \A i, j \in DOMAIN h : \A c : c \in h[i].calls /\ c \in h[j].calls => i = j BY <1>1 DEF Fine
<1>3. \A i \in DOMAIN h : NoCall \notin h[i].calls /\ (h[i].calls # {} => h[i].role # "tool")
  <2>1. \A m \in Msgs(n) : NoCall \notin m.calls BY DEF Msgs, NoCall
  <2>2. \A i \in DOMAIN h : h[i] \in Msgs(n) BY <1>1
  <2>3. \A i \in DOMAIN h : h[i].role # "assistant" => h[i].calls = {} BY MessagesAre
  <2> QED BY <2>1, <2>2, <2>3
<1>4. ASSUME NEW i \in DOMAIN h, h[i].role # "tool" \/ h[i].for \in Calls(h)
      PROVE  1 \in 1..size[i] /\ starts[i] + 1 \in DOMAIN g /\ g[starts[i] + 1] = h[i]
  <2>1. size[i] >= 1 /\ g[starts[i] + 1] = h[i] BY <1>1, <1>4 DEF LaidOut
  <2>2. 1 \in 1..size[i] BY <1>1, <2>1
  <2>3. starts[i] + 1 \in DOMAIN g BY <1>1, <2>2 DEF LaidOut
  <2> QED BY <2>1, <2>2, <2>3
<1>5. ASSUME NEW k \in DOMAIN g
      PROVE  \E i \in DOMAIN h : \E o \in 1..size[i] : Came(h, g, starts, k, i, o)
  BY <1>1 DEF LaidOut
<1>6. Fine(g) BY <1>1, SanitizeFine
\* The results of g.
<1>7. ASSUME NEW k \in DOMAIN g, g[k].role = "tool"
      PROVE  g[k].for # NoCall /\ \E i \in DOMAIN g : g[k].for \in g[i].calls /\ Behind(g, i, k)
  <2>0. PICK j \in DOMAIN h : \E o \in 1..size[j] : Came(h, g, starts, k, j, o) BY <1>5
  <2>1. PICK o \in 1..size[j] : Came(h, g, starts, k, j, o) BY <2>0
  <2>2. k = starts[j] + o BY <2>1 DEF Came
  <2>3. PICK i \in DOMAIN h : /\ g[k].for \in h[i].calls /\ ((i = j /\ o > 1) \/ i < j)
                              /\ \A d \in DOMAIN h : i < d /\ d <= j => h[d].role = "tool"
    <3>1. CASE o = 1
      <4>1. g[k] = h[j] BY <2>1, <3>1 DEF Came
      <4>2. h[j].for # NoCall BY <1>1, <1>7, <4>1 DEF Answered
      <4>3. PICK i \in DOMAIN h : h[j].for \in h[i].calls /\ Behind(h, i, j) BY <1>1, <1>7, <4>1, <4>2 DEF Owned
      <4> QED BY <4>1, <4>3 DEF Behind
    <3>2. CASE o # 1
      <4>1. o > 1 /\ g[k].for \in h[j].calls BY <2>1, <3>2 DEF Came
      <4>2. \A d \in DOMAIN h : ~(j < d /\ d <= j) BY <1>1
      <4> QED BY <4>1, <4>2
    <3> QED BY <3>1, <3>2
  <2>4. h[i].role # "tool" BY <1>3, <2>3
  <2> DEFINE a == starts[i] + 1
  <2>5. a \in DOMAIN g /\ g[a] = h[i] /\ 1 \in 1..size[i] BY <1>4, <2>4
  <2>6. starts[i] \in Nat /\ starts[j] \in Nat /\ o \in Nat /\ k \in Nat BY <1>1
  <2>7. a < k
    <3>1. CASE i = j /\ o > 1 BY <2>2, <2>6, <3>1
    <3>2. CASE i < j BY <1>1, <2>2, <2>5, <3>2
    <3> QED BY <2>3, <3>1, <3>2
  <2>8. ASSUME NEW x \in DOMAIN g, a < x, x <= k PROVE g[x].role = "tool"
    <3>0. PICK d \in DOMAIN h : \E q \in 1..size[d] : Came(h, g, starts, x, d, q) BY <1>5
    <3>1. PICK q \in 1..size[d] : Came(h, g, starts, x, d, q) BY <3>0
    <3>2. x = starts[d] + q /\ starts[d] \in Nat /\ q \in Nat /\ x \in Nat BY <1>1, <3>1 DEF Came
    <3>3. CASE q # 1 BY <3>1, <3>3 DEF Came
    <3>4. CASE q = 1
      <4>1. g[x] = h[d] BY <3>1, <3>4 DEF Came
      <4>2. ~(d < i)
        <5> SUFFICES ASSUME d < i PROVE FALSE
          OBVIOUS
        <5>1. x < a BY <1>1, <2>5, <3>2
        <5> QED BY <2>6, <2>8, <3>2, <5>1
      <4>3. d # i BY <2>6, <2>8, <3>2, <3>4
      <4>4. ~(j < d)
        <5> SUFFICES ASSUME j < d PROVE FALSE
          OBVIOUS
        <5>1. k < x BY <1>1, <2>2, <3>2
        <5> QED BY <2>6, <2>8, <3>2, <5>1
      <4>5. i < d /\ d <= j
        <5>1. d \in Nat /\ i \in Nat /\ j \in Nat BY <1>1
        <5> QED BY <4>2, <4>3, <4>4, <5>1
      <4> QED BY <2>3, <4>1, <4>5
    <3> QED BY <3>3, <3>4
  <2>9. g[k].for # NoCall BY <1>3, <2>3
  <2>10. g[k].for \in g[a].calls /\ Behind(g, a, k) BY <2>3, <2>5, <2>7, <2>8 DEF Behind
  <2> QED BY <2>5, <2>9, <2>10
<1>8. Owned(g) /\ NoCall \notin Answered(g) BY <1>7 DEF Owned, Answered
<1>9. Once(g)
  <2> SUFFICES ASSUME NEW k \in DOMAIN g, NEW m \in DOMAIN g, g[k].role = "tool", g[m].role = "tool",
                      g[k].for = g[m].for, g[k].for # NoCall
               PROVE  k = m
    BY DEF Once
  <2>0. PICK i \in DOMAIN h : \E o \in 1..size[i] : Came(h, g, starts, k, i, o) BY <1>5
  <2>1. PICK o \in 1..size[i] : Came(h, g, starts, k, i, o) BY <2>0
  <2>2. PICK j \in DOMAIN h : \E q \in 1..size[j] : Came(h, g, starts, m, j, q) BY <1>5
  <2>3. PICK q \in 1..size[j] : Came(h, g, starts, m, j, q) BY <2>2
  <2>4. k = starts[i] + o /\ m = starts[j] + q BY <2>1, <2>3 DEF Came
  <2>5. CASE o = 1 /\ q = 1
    <3>1. g[k] = h[i] /\ g[m] = h[j] BY <2>1, <2>3, <2>5 DEF Came
    <3>2. i = j BY <1>1, <3>1 DEF Once
    <3> QED BY <2>4, <2>5, <3>2
  <2>6. CASE o # 1 /\ q = 1
    <3>1. g[k].for \notin Answered(h) /\ g[m] = h[j] BY <2>1, <2>3, <2>6 DEF Came
    <3>2. h[j].for \in Answered(h) BY <3>1 DEF Answered
    <3> QED BY <3>1, <3>2
  <2>7. CASE o = 1 /\ q # 1
    <3>1. g[m].for \notin Answered(h) /\ g[k] = h[i] BY <2>1, <2>3, <2>7 DEF Came
    <3>2. h[i].for \in Answered(h) BY <3>1 DEF Answered
    <3> QED BY <3>1, <3>2
  <2>8. CASE o # 1 /\ q # 1
    <3>1. o > 1 /\ q > 1 /\ g[k].for \in h[i].calls /\ g[m].for \in h[j].calls BY <2>1, <2>3, <2>8 DEF Came
    <3>2. i = j BY <1>2, <3>1
    <3>3. g[starts[i] + o].for = g[starts[i] + q].for BY <2>4, <3>2
    <3>4. q \in 1..size[i] BY <3>2
    <3>5. o = q BY <1>1, <3>1, <3>3, <3>4 DEF LaidOut
    <3> QED BY <2>4, <3>2, <3>5
  <2> QED BY <2>5, <2>6, <2>7, <2>8
<1>10. ASSUME NEW k \in DOMAIN g, NEW c \in g[k].calls PROVE c \in Answered(g)
  <2>1. PICK i \in DOMAIN h : c \in h[i].calls BY <1>1
  <2>2. CASE c \in Answered(h)
    <3>1. PICK j \in DOMAIN h : h[j].role = "tool" /\ h[j].for = c BY <2>2 DEF Answered
    <3>2. c \in Calls(h) BY <2>1 DEF Calls
    <3>3. starts[j] + 1 \in DOMAIN g /\ g[starts[j] + 1] = h[j] BY <1>4, <3>1, <3>2
    <3> QED BY <3>1, <3>3 DEF Answered
  <2>3. CASE c \notin Answered(h)
    <3>1. c \in h[i].calls \ Answered(h) BY <2>1, <2>3
    <3>2. \A e \in h[i].calls \ Answered(h) :
            \E o \in 1..size[i] : g[starts[i] + o].role = "tool" /\ g[starts[i] + o].for = e
      BY <1>1 DEF LaidOut
    <3>3. PICK o \in 1..size[i] : g[starts[i] + o].role = "tool" /\ g[starts[i] + o].for = c BY <3>1, <3>2
    <3>4. starts[i] + o \in DOMAIN g BY <1>1 DEF LaidOut
    <3> QED BY <3>3, <3>4 DEF Answered
  <2> QED BY <2>2, <2>3
<1>11. Left(g, {}) /\ Left(g, Pending(g)) BY <1>10 DEF Left
<1>12. Tidy(g) BY <1>6, <1>8, <1>9, <1>11 DEF Tidy, Neat
<1>13. ASSUME h # <<>>, Last(h).role = "tool" PROVE g # <<>> /\ Last(g).role = "tool"
  <2> DEFINE l == Len(h)
  <2>1. l \in DOMAIN h /\ h[l].role = "tool"
    <3>1. Last(h) = h[l] BY DEF Last
    <3>2. l # 0 BY <1>13
    <3> QED BY <1>1, <1>13, <3>1, <3>2
  <2>2. h[l].for \in Calls(h)
    <3>1. h[l].for # NoCall BY <1>1, <2>1 DEF Answered
    <3>2. PICK i \in DOMAIN h : h[l].for \in h[i].calls BY <1>1, <2>1, <3>1 DEF Owned
    <3> QED BY <3>2 DEF Calls
  <2>3. 1 \in 1..size[l] /\ starts[l] + 1 \in DOMAIN g BY <1>4, <2>1, <2>2
  <2> DEFINE k == Len(g)
  <2>4. DOMAIN g = 1..k /\ k \in Nat BY MessagesAre
  <2>5. k \in DOMAIN g /\ starts[l] + 1 <= k BY <2>3, <2>4
  <2>6. PICK i \in DOMAIN h : \E o \in 1..size[i] : Came(h, g, starts, k, i, o) BY <1>5, <2>5
  <2>7. PICK o \in 1..size[i] : Came(h, g, starts, k, i, o) BY <2>6
  <2>8. i = l
    <3> SUFFICES ASSUME i # l PROVE FALSE
      OBVIOUS
    <3>1. i < l BY <1>1
    <3>2. k = starts[i] + o BY <2>7 DEF Came
    <3>3. k < starts[l] + 1 BY <1>1, <2>1, <2>3, <3>1, <3>2
    <3>4. starts[l] \in Nat BY <1>1, <2>1
    <3> QED BY <2>4, <2>5, <3>3, <3>4
  <2>9. g[k].role = "tool" BY <2>1, <2>7, <2>8 DEF Came
  <2>10. g # <<>> BY <2>5
  <2> QED BY <2>9, <2>10 DEF Last
<1> QED BY <1>12, <1>13

\* A history that may be sent stays one, and ends as it did, when it is compressed.
LEMMA CompressedTidy ==
  ASSUME NEW n \in Nat, NEW h \in Seq(Msgs(n)), NEW p \in Nat, NEW g \in Compressions(h, p),
         Tidy(h)
  PROVE  /\ g \in Seq(Msgs(n)) /\ Tidy(g)
         /\ h # <<>> /\ Last(h).role = "tool" => g # <<>> /\ Last(g).role = "tool"
<1>1. CASE g = h BY <1>1
<1>2. CASE g # h
  <2>1. PICK t \in 1..Len(h) :
           /\ p + 1 < t /\ g = SanitizeToolPairs(Summarized(h, p, t))
           /\ h[t].role = "tool" => \A j \in DOMAIN h : j < t => h[t].for \notin h[j].calls
    BY <1>2, Shortened
  <2> DEFINE s == Summarized(h, p, t)
  <2>2. s \in Seq(Msgs(n)) /\ Unbroken(s) /\ s # <<>> /\ Last(s) = Last(h) BY <2>1, SummaryUnbroken
  <2>3. g = SanitizeToolPairs(s) BY <2>1
  <2> HIDE DEF s
  <2>4. g \in Seq(Msgs(n)) BY <2>2, <2>3, SanitizeIs
  <2>5. PICK starts, size : LaidOut(s, g, starts, size) BY <2>2, <2>3, SanitizeIs
  <2>6. /\ Tidy(g)
        /\ s # <<>> /\ Last(s).role = "tool" => g # <<>> /\ Last(g).role = "tool"
    BY <2>2, <2>4, <2>5, SanitizedTidy
  <2> QED BY <2>2, <2>4, <2>6
<1> QED BY <1>1, <1>2

----------------------------------------------------------------------------
(* What a managed run may send.                                            *)

LEMMA LeftMore == ASSUME NEW h, NEW B, NEW D, Left(h, B), B \subseteq D PROVE Left(h, D)
BY DEF Left

\* The calls just made wait.
LEMMA WaitingMore ==
  ASSUME NEW n \in Nat, NEW h \in Seq(Msgs(n)), NEW m \in Msgs(n)
  PROVE  m.calls \subseteq Pending(Append(h, m))
<1> SUFFICES ASSUME NEW c \in m.calls PROVE c \in Pending(Append(h, m))
  OBVIOUS
<1> DEFINE g == Append(h, m)
           l == Len(h) + 1
<1>1. g \in Seq(Msgs(n)) /\ DOMAIN g = 1..l /\ g[l] = m BY AddedIs
<1>2. l \in 1..l /\ \A k \in 1..l : ~(k > l)
  <2>1. Len(h) \in Nat BY MessagesAre
  <2> QED BY <2>1
<1> HIDE DEF g, l
<1>3. Waits(g, l, c) BY <1>1, <1>2 DEF Waits
<1>4. c \in Pending(g) BY <1>1, <1>2, <1>3, PendingIs
<1> QED BY <1>4 DEF g

\* A call waits on while the others have their results.
LEMMA WaitingStays ==
  ASSUME NEW n \in Nat, NEW h \in Seq(Msgs(n)), NEW t \in Seq(Msgs(n)), NEW c \in Pending(h),
         \A i \in 1..Len(t) : t[i].role = "tool" /\ t[i].for # c
  PROVE  c \in Pending(h \o t)
<1> DEFINE g == h \o t
           l == Len(h)
<1>1. /\ g \in Seq(Msgs(n)) /\ DOMAIN g = 1..(l + Len(t)) /\ l \in Nat /\ Len(t) \in Nat
      /\ \A i \in 1..l : g[i] = h[i]
      /\ \A i \in 1..Len(t) : g[l + i] = t[i]
      /\ \A i \in 1..(l + Len(t)) : i \in 1..l \/ \E j \in 1..Len(t) : i = l + j
  BY JoinOf
<1>2. DOMAIN h = 1..l BY MessagesAre
<1>3. PICK a \in DOMAIN h : Waits(h, a, c) BY PendingIs
<1>4. a \in DOMAIN g /\ g[a] = h[a] BY <1>1, <1>2
<1> HIDE DEF g, l
<1>5. ASSUME NEW k \in DOMAIN g, k > a PROVE g[k].role = "tool" /\ g[k].for # c
  <2>1. CASE k \in 1..l BY <1>1, <1>2, <1>3, <1>5, <2>1 DEF Waits
  <2>2. CASE \E j \in 1..Len(t) : k = l + j
    <3>1. PICK j \in 1..Len(t) : k = l + j BY <2>2
    <3>2. g[k] = t[j] BY <1>1, <3>1
    <3> QED BY <3>2
  <2> QED BY <1>1, <2>1, <2>2
<1>6. Waits(g, a, c) BY <1>3, <1>4, <1>5 DEF Waits
<1>7. c \in Pending(g) BY <1>1, <1>4, <1>6, PendingIs
<1> QED BY <1>7 DEF g

\* Where the loop is, or goes on after its checkpoint.
Where == IF pc = "checkpoint" THEN after ELSE pc

InBatch == tools.todo \cup tools.done

\* No call is made before the ones before it were executed, all those of its batch.
Paid ==
  status = "running" =>
    /\ Pending(history) \subseteq Pending(said)
    /\ Where = "tools" => /\ InBatch \subseteq Pending(history)
                          /\ tools.lost = 0 => InBatch # {} /\ Left(said, InBatch)
    /\ Where \in {"call", "maintain"} => Left(said, {})
    /\ Where = "loop" => Left(said, {}) \/ history = said

\* What was kept of the history is fit to be sent, or will be with the results of its batch.
Tidied ==
  status = "running" /\ NoCall \notin Answered(said) =>
    /\ Neat(history) /\ NoCall \notin Answered(history)
    /\ Where = "tools" /\ tools.lost = 0 => Left(history, InBatch)
    /\ Where \in {"call", "maintain"} => Left(history, {})
    /\ Where \in {"loop", "call", "maintain"} => history # <<>>
    /\ Where = "maintain" => Last(history).role = "tool"
    /\ Where = "call" \/ (Where = "loop" /\ fresh) => Last(history).role # "assistant"

PairInv == whole => Neat(said) /\ Paid /\ Tidied

LEMMA PairStarts == TalkInit => PairInv
<1> SUFFICES ASSUME TalkInit PROVE PairInv
  OBVIOUS
<1>1. said = <<>> /\ status = "none" BY DEF TalkInit, Init, LoopInit
<1> QED BY <1>1, NeatNone DEF PairInv, Paid, Tidied

\* A run begins over rows in which no call is open, or with the open ones as they were said.
LEMMA PairBegins ==
  ASSUME ManInv, NEW h \in Seq(Msgs(asked)), history' = h, said' = h, tools' = NoTools,
         Where' = "loop", h # <<>>, whole' => Neat(h), fresh' => Last(h).role # "assistant"
  PROVE  PairInv'
<1> SUFFICES ASSUME whole' PROVE Neat(said') /\ Paid' /\ Tidied'
  BY DEF PairInv
<1>1. Paid' BY DEF Paid
<1>2. Tidied' BY DEF Tidied
<1> QED BY <1>1, <1>2

LEMMA PairPrompted ==
  ASSUME ManInv, Load, NEW t \in Nat, Prompted(t), UNCHANGED asked,
         whole' => Neat(durable) /\ Left(durable, {})
  PROVE  PairInv'
<1> DEFINE m == User(t)
           h == Append(durable, m)
<1>1. history' = h /\ said' = h /\ Where' = "loop" /\ tools' = NoTools BY DEF Load, Prompted, Where
<1>2. asked \in Nat /\ durable \in Seq(Msgs(asked)) BY DEF ManInv, ManType
<1>3. m \in Msgs(asked) /\ m.calls = {} /\ m.role = "user" BY <1>2 DEF User, Msgs, Message, NoCall
<1> HIDE DEF m
<1>4. /\ h \in Seq(Msgs(asked)) /\ Len(h) = Len(durable) + 1 /\ h[Len(durable) + 1] = m
      /\ DOMAIN h = 1..(Len(durable) + 1) /\ Len(durable) \in Nat
  BY <1>2, <1>3, AddedIs, MessagesAre
<1>5. whole' => Neat(h)
  <2> SUFFICES ASSUME whole' PROVE Neat(h)
    OBVIOUS
  <2>1. m.calls \cap Calls(durable) = {} /\ m.calls \cap Answered(durable) = {} /\ m.role # "tool" BY <1>3
  <2> QED BY <1>2, <1>3, <2>1, NeatAdded
<1> HIDE DEF h
<1>6. h # <<>> /\ Last(h).role # "assistant"
  <2>1. Len(durable) + 1 \in DOMAIN h BY <1>4
  <2> QED BY <1>3, <1>4, <2>1 DEF Last
<1> QED BY <1>1, <1>4, <1>5, <1>6, PairBegins

LEMMA PairRuns == ASSUME ManInv, PairInv, StartRun \/ Replay PROVE PairInv'
<1>1. asked \in Nat /\ durable \in Seq(Msgs(asked)) /\ said \in Seq(Msgs(asked)) /\ turn \in Nat
  BY DEF ManInv, ManType
<1>2. ASSUME whole, IsPrefix(durable, said) PROVE Neat(durable)
  BY <1>1, <1>2, NeatFront DEF PairInv
<1>3. CASE StartRun
  <2>1. /\ Load /\ Prompted(turn + 1) /\ UNCHANGED asked /\ turn + 1 \in Nat
        /\ whole' = (whole /\ IsPrefix(durable, said) /\ Paired(durable))
    BY <1>1, <1>3 DEF StartRun
  <2>2. whole' => Neat(durable) /\ Left(durable, {}) BY <1>1, <1>2, <2>1, PairedLeft
  <2> QED BY <2>1, <2>2, PairPrompted
<1>4. CASE Replay
  <2>1. /\ Load /\ UNCHANGED asked
        /\ whole' = (whole /\ IsPrefix(durable, said))
        /\ IF durable = <<>> THEN Prompted(turn) ELSE Continued
    BY <1>4 DEF Replay
  <2>2. CASE durable = <<>>
    <3>1. Neat(durable) /\ Left(durable, {}) BY <2>2, NeatNone
    <3>2. Prompted(turn) BY <2>1, <2>2
    <3> QED BY <1>1, <2>1, <3>1, <3>2, PairPrompted
  <2>3. CASE durable # <<>>
    <3>1. Continued BY <2>1, <2>3
    <3>2. /\ history' = durable /\ said' = durable /\ tools' = NoTools /\ fresh' = FALSE /\ Where' = "loop"
      BY <2>1, <3>1 DEF Load, Continued, Where
    <3>3. whole' => Neat(durable) BY <1>2, <2>1
    <3> QED BY <1>1, <2>3, <3>2, <3>3, PairBegins
  <2> QED BY <2>2, <2>3
<1> QED BY <1>3, <1>4

LEMMA PairRunEnds == ASSUME ManInv, PairInv, FinishRun \/ CutRun PROVE PairInv'
<1>1. said' = said /\ whole' = whole /\ status' # "running"
  BY DEF FinishRun, CutRun, CutShort
<1> QED BY <1>1 DEF PairInv, Paid, Tidied

\* A step of the loop that says nothing and executes nothing.
LEMMA PairRests ==
  ASSUME ManInv, PairInv,
         SaveMessage \/ CheckpointDone \/ SaveFails \/ Exhausted \/ ProviderFails,
         UNCHANGED <<status, whole>>
  PROVE  PairInv'
<1>1. /\ UNCHANGED <<history, said, tools, status, whole, fresh>>
      /\ Where' = Where \/ Where' \in {"exhausted", "failed"}
  BY DEF SaveMessage, CheckpointDone, SaveFails, Exhausted, ProviderFails, Where, ManInv, ManType
<1>2. CASE Where' = Where BY <1>1, <1>2 DEF PairInv, Paid, Tidied, InBatch
<1>3. CASE Where' \in {"exhausted", "failed"} BY <1>1, <1>3 DEF PairInv, Paid, Tidied
<1> QED BY <1>1, <1>2, <1>3

LEMMA PairIterates == ASSUME ManInv, PairInv, Iterate, UNCHANGED <<status, whole>> PROVE PairInv'
<1> SUFFICES ASSUME whole PROVE Neat(said)' /\ Paid' /\ Tidied'
  BY DEF PairInv
<1>1. /\ Where = "loop" /\ UNCHANGED <<history, said, fresh, asked, status, whole>>
      /\ \/ Where' = "completed"
         \/ /\ Where' = "tools" /\ ~AnswerThere /\ Pending(history) # {}
            /\ tools' \in Schedules(Batch(Pending(history), "call"))
         \/ Where' = "call" /\ ~AnswerThere /\ Pending(history) = {} /\ tools' = tools
  BY DEF Iterate, Where
<1>2. history \in Seq(Msgs(asked)) /\ said \in Seq(Msgs(asked)) /\ asked \in Nat BY DEF ManInv, ManType
<1>3. status = "running"
  <2>1. pc = "loop" BY DEF Iterate
  <2> QED BY <2>1, LoopIsRunning
<1>4. Neat(said) /\ Paid /\ Tidied BY DEF PairInv
<1>5. Pending(history) \subseteq Pending(said) /\ (Left(said, {}) \/ history = said) BY <1>1, <1>3, <1>4 DEF Paid
<1>6. Left(said, Pending(history))
  <2>1. CASE Left(said, {}) BY <2>1, LeftMore
  <2>2. CASE history = said BY <1>4, <2>2 DEF Neat
  <2> QED BY <1>5, <2>1, <2>2
<1>7. ASSUME NoCall \notin Answered(said)
      PROVE  /\ Neat(history) /\ NoCall \notin Answered(history) /\ Left(history, Pending(history))
             /\ history # <<>> /\ (fresh => Last(history).role # "assistant")
  BY <1>1, <1>3, <1>4, <1>7 DEF Tidied, Neat
<1>8. CASE Where' = "completed"
  <2>1. Paid' BY <1>1, <1>5, <1>8 DEF Paid
  <2>2. Tidied' BY <1>1, <1>7, <1>8 DEF Tidied
  <2> QED BY <1>1, <1>4, <2>1, <2>2
<1>9. CASE /\ Where' = "tools" /\ Pending(history) # {}
           /\ tools' \in Schedules(Batch(Pending(history), "call"))
  <2>1. InBatch' = Pending(history)
    <3>1. tools'.todo = Pending(history) /\ tools'.done = {}
      <4>1. Batch(Pending(history), "call").todo = Pending(history) /\ Batch(Pending(history), "call").done = {}
        BY DEF Batch
      <4>2. /\ [Batch(Pending(history), "call") EXCEPT !.parallel = TRUE].todo = Pending(history)
            /\ [Batch(Pending(history), "call") EXCEPT !.parallel = TRUE].done = {}
        BY DEF Batch
      <4> QED BY <1>9, <4>1, <4>2 DEF Schedules
    <3> QED BY <3>1 DEF InBatch
  <2>2. Paid' BY <1>1, <1>5, <1>6, <1>9, <2>1 DEF Paid
  <2>3. Tidied' BY <1>1, <1>7, <1>9, <2>1 DEF Tidied
  <2> QED BY <1>1, <1>4, <2>2, <2>3
<1>10. CASE Where' = "call" /\ ~AnswerThere /\ Pending(history) = {}
  <2>1. Left(said, {}) BY <1>6, <1>10
  <2>2. Paid' BY <1>1, <1>5, <1>10, <2>1 DEF Paid
  <2>3. ASSUME NoCall \notin Answered(said) PROVE Last(history).role # "assistant"
    <3>1. CASE fresh BY <1>7, <2>3, <3>1
    <3>2. CASE ~fresh
      <4>1. SafeAction(history) # "complete_turn" BY <1>10, <3>2 DEF AnswerThere
      <4> QED BY <1>7, <1>10, <2>3, <4>1 DEF SafeAction
    <3> QED BY <3>1, <3>2
  <2>4. NoCall \notin Answered(said) => Left(history, {}) BY <1>7, <1>10
  <2>5. Tidied' BY <1>1, <1>7, <1>10, <2>3, <2>4 DEF Tidied
  <2> QED BY <1>1, <1>4, <2>2, <2>5
<1> QED BY <1>1, <1>8, <1>9, <1>10

LEMMA PairTools ==
  ASSUME ManInv, PairInv, NEW c \in CallIds, RunTool(c) \/ ToolPanics(c), UNCHANGED <<status, whole>>
  PROVE  PairInv'
<1> SUFFICES ASSUME whole PROVE Neat(said)' /\ Paid' /\ Tidied'
  BY DEF PairInv
<1>1. /\ Where = "tools" /\ Where' = "tools" /\ c \in tools.todo
      /\ \/ tools' = [tools EXCEPT !.todo = @ \ {c}, !.done = @ \cup {c}]
         \/ tools' = [tools EXCEPT !.todo = @ \ {c}, !.lost = @ + 1]
      /\ UNCHANGED <<history, said, fresh, status, whole>>
  BY DEF RunTool, ToolPanics, Runnable, Where
<1>2. Neat(said) /\ Paid /\ Tidied BY DEF PairInv
<1>3. PICK b \in BatchesOf(asked) : b = tools BY DEF ManInv, ManType
<1>4. tools'.lost = 0 => tools.lost = 0 /\ InBatch' = InBatch
  <2>1. CASE tools' = [tools EXCEPT !.todo = @ \ {c}, !.done = @ \cup {c}]
    <3>1. /\ tools'.lost = b.lost /\ tools'.todo = b.todo \ {c} /\ tools'.done = b.done \cup {c}
      BY <1>3, <2>1 DEF BatchesOf
    <3>2. (b.todo \ {c}) \cup (b.done \cup {c}) = b.todo \cup b.done BY <1>1, <1>3
    <3> QED BY <1>3, <3>1, <3>2 DEF InBatch
  <2>2. CASE tools' = [tools EXCEPT !.todo = @ \ {c}, !.lost = @ + 1]
    <3>1. PICK n \in Nat : n = b.lost BY <1>3 DEF BatchesOf
    <3>2. tools'.lost = n + 1 BY <1>3, <2>2, <3>1 DEF BatchesOf
    <3> QED BY <3>1, <3>2
  <2> QED BY <1>1, <2>1, <2>2
<1>5. InBatch' \subseteq InBatch
  <2>1. CASE tools' = [tools EXCEPT !.todo = @ \ {c}, !.done = @ \cup {c}]
    <3>1. /\ tools'.todo = b.todo \ {c} /\ tools'.done = b.done \cup {c}
      BY <1>3, <2>1 DEF BatchesOf
    <3> QED BY <1>1, <1>3, <3>1 DEF InBatch
  <2>2. CASE tools' = [tools EXCEPT !.todo = @ \ {c}, !.lost = @ + 1]
    <3>1. /\ tools'.todo = b.todo \ {c} /\ tools'.done = b.done BY <1>3, <2>2 DEF BatchesOf
    <3> QED BY <1>1, <1>3, <3>1 DEF InBatch
  <2> QED BY <1>1, <2>1, <2>2
<1>6. Paid' BY <1>1, <1>2, <1>4, <1>5 DEF Paid
<1>7. Tidied' BY <1>1, <1>2, <1>4 DEF Tidied
<1> QED BY <1>1, <1>2, <1>6, <1>7

\* The provider is called when nothing is open, so that its calls are all that is.
LEMMA PairReturns ==
  ASSUME ManInv, PairInv, Observed, NEW n \in 0..MaxBatch, ProviderReturns(n), UNCHANGED <<status, whole>>
  PROVE  PairInv'
<1> SUFFICES ASSUME whole PROVE Neat(said)' /\ Paid' /\ Tidied'
  BY DEF PairInv
<1> DEFINE C == (asked + 1)..(asked + n)
           m == Assistant(turn, C)
           next == IF C = {} THEN "completed" ELSE "tools"
<1>1. /\ pc = "call" /\ asked' = asked + n /\ Where = "call" /\ Where' = next
      /\ history' = history \o <<m>> /\ said' = said \o <<m>>
      /\ C # {} => tools' \in Schedules(Batch(C, "loop"))
      /\ UNCHANGED <<status, whole, fresh>>
  BY DEF ProviderReturns, Say, Where
<1>2. status = "running" BY <1>1, LoopIsRunning
<1>3. Neat(said) /\ Paid /\ Tidied BY DEF PairInv
<1>4. /\ asked \in Nat /\ n \in Nat /\ turn \in Nat
      /\ history \in Seq(Msgs(asked)) /\ said \in Seq(Msgs(asked))
  <2>1. MaxCalls \in Nat /\ MaxBatch \in Nat BY LoopAssumption DEF LoopAssumption
  <2>2. asked \in Nat /\ n \in Nat BY <2>1 DEF ManInv, ManType
  <2> QED BY <2>2 DEF ManInv, ManType
<1>5. /\ asked' \in Nat /\ asked <= asked' /\ C \subseteq 1..asked' /\ C \cap 0..asked = {}
      /\ 1..asked \subseteq 0..asked /\ C \subseteq Nat
  BY <1>1, <1>4
<1>6. m \in Msgs(asked') /\ m.calls = C /\ m.role = "assistant"
  <2> HIDE DEF C
  <2>1. PICK k \in Nat : k = asked' BY <1>5
  <2>2. C \subseteq 1..k /\ C \subseteq Nat /\ turn \in Nat /\ 0 \in 0..k BY <1>4, <1>5, <2>1
  <2>3. m = [role |-> "assistant", turn |-> turn, calls |-> C, for |-> 0] BY DEF Assistant, NoCall
  <2> HIDE DEF m
  <2>4. m \in Msgs(k) BY <2>2, <2>3 DEF Msgs, Message
  <2> QED BY <2>1, <2>3, <2>4
<1> HIDE DEF m, C
<1>7. history \in Seq(Msgs(asked')) /\ said \in Seq(Msgs(asked')) BY <1>4, <1>5, MoreCalls
<1>8. history' = Append(history, m) /\ said' = Append(said, m) BY <1>1, <1>5, <1>6, <1>7, OneAdded
<1>9. ASSUME NEW h \in Seq(Msgs(asked)), NEW g, g = Append(h, m), Neat(h), Left(h, {})
      PROVE  Neat(g) /\ Left(g, C)
  <2>1. Calls(h) \subseteq 1..asked /\ Answered(h) \subseteq 0..asked BY <1>4, WaitingMade, AnsweredAre
  <2>2. m.calls \cap Calls(h) = {} /\ m.calls \cap Answered(h) = {} BY <1>5, <1>6, <2>1
  <2>3. h \in Seq(Msgs(asked')) BY <1>4, <1>5, MoreCalls
  <2>4. m.role # "tool" BY <1>6
  <2>5. Neat(Append(h, m)) /\ Left(Append(h, m), m.calls) BY <1>5, <1>6, <1>9, <2>2, <2>3, <2>4, NeatAdded
  <2> QED BY <1>6, <1>9, <2>5
<1>10. Left(said, {}) BY <1>1, <1>2, <1>3 DEF Paid
<1>11. Neat(said') /\ Left(said', C) BY <1>3, <1>4, <1>8, <1>9, <1>10
<1>12. /\ Pending(history') \subseteq C /\ C \subseteq Pending(history') /\ C \subseteq Pending(said')
  <2>1. m.role # "tool" BY <1>6
  <2>2. Pending(Append(history, m)) \subseteq m.calls BY <1>5, <1>6, <1>7, <2>1, WaitingAdded
  <2>3. m.calls \subseteq Pending(Append(history, m)) /\ m.calls \subseteq Pending(Append(said, m))
    BY <1>5, <1>6, <1>7, WaitingMore
  <2> QED BY <1>6, <1>8, <2>2, <2>3
<1>13. ASSUME NoCall \notin Answered(said')
       PROVE  /\ Neat(history') /\ NoCall \notin Answered(history') /\ Left(history', C)
  <2>1. /\ Answered(Append(said, m)) = Answered(said) \cup (IF m.role = "tool" THEN {m.for} ELSE {})
        /\ Answered(Append(history, m)) = Answered(history) \cup (IF m.role = "tool" THEN {m.for} ELSE {})
    BY <1>5, <1>6, <1>7, AnsweredAdded
  <2>2. m.role # "tool" BY <1>6
  <2>3. NoCall \notin Answered(said) BY <1>8, <1>13, <2>1, <2>2
  <2>4. Neat(history) /\ NoCall \notin Answered(history) /\ Left(history, {})
    BY <1>1, <1>2, <1>3, <2>3 DEF Tidied
  <2>5. Neat(history') /\ Left(history', C) BY <1>4, <1>8, <1>9, <2>4
  <2> QED BY <1>8, <2>1, <2>2, <2>4, <2>5
<1>14. Where' = "tools" => InBatch' = C /\ C # {}
  <2> SUFFICES ASSUME Where' = "tools" PROVE InBatch' = C /\ C # {}
    OBVIOUS
  <2>1. C # {} BY <1>1
  <2>2. tools' \in Schedules(Batch(C, "loop")) BY <1>1, <2>1
  <2>3. tools'.todo = C /\ tools'.done = {}
    <3>1. Batch(C, "loop").todo = C /\ Batch(C, "loop").done = {} BY DEF Batch
    <3>2. /\ [Batch(C, "loop") EXCEPT !.parallel = TRUE].todo = C
          /\ [Batch(C, "loop") EXCEPT !.parallel = TRUE].done = {}
      BY DEF Batch
    <3> QED BY <2>2, <3>1, <3>2 DEF Schedules
  <2> QED BY <2>1, <2>3 DEF InBatch
<1>15. Where' \in {"tools", "completed"} BY <1>1
<1>16. Paid' BY <1>11, <1>12, <1>14, <1>15 DEF Paid
<1>17. Tidied' BY <1>13, <1>14, <1>15 DEF Tidied
<1> QED BY <1>11, <1>16, <1>17

\* The results are those of the calls that waited, unless a tool panicked.
LEMMA PairGathers ==
  ASSUME ManInv, PairInv, Observed, ToolsDone, UNCHANGED <<status, whole>>
  PROVE  PairInv'
<1> SUFFICES ASSUME whole PROVE Neat(said)' /\ Paid' /\ Tidied'
  BY DEF PairInv
<1> DEFINE r == ResultMessages
           l == Len(r)
<1>1. /\ pc = "tools" /\ tools.todo = {} /\ asked' = asked /\ Where = "tools" /\ Where' = "maintain"
      /\ history' = history \o r /\ said' = said \o r
      /\ UNCHANGED <<status, whole, fresh>>
  BY DEF ToolsDone, Say, Where
<1>2. status = "running" BY <1>1, LoopIsRunning
<1>3. Neat(said) /\ Paid /\ Tidied BY DEF PairInv
<1>4. /\ asked \in Nat /\ turn \in Nat /\ tools \in BatchesOf(asked)
      /\ history \in Seq(Msgs(asked)) /\ said \in Seq(Msgs(asked))
  <2>1. MaxCalls \in Nat BY LoopAssumption DEF LoopAssumption
  <2> QED BY <2>1 DEF ManInv, ManType
<1>5. /\ r \in Seq(Msgs(asked))
      /\ \A i \in 1..l : r[i].role = "tool" /\ r[i].for \in tools.done \cup {NoCall}
      /\ \A i, j \in 1..l : r[i].for = r[j].for /\ r[i].for # NoCall => i = j
      /\ \A c \in tools.done : \E i \in 1..l : r[i].for = c
      /\ tools.lost > 0 => \E i \in 1..l : r[i].for = NoCall
      /\ tools.lost = 0 => \A i \in 1..l : r[i].for # NoCall
  BY <1>4, ResultsAre
<1> HIDE DEF r, l
<1>6. /\ InBatch = tools.done /\ InBatch \subseteq Pending(history) /\ Pending(history) \subseteq Pending(said)
      /\ tools.lost = 0 => InBatch # {} /\ Left(said, InBatch)
  <2>1. InBatch = tools.done BY <1>1 DEF InBatch
  <2> QED BY <1>1, <1>2, <1>3, <2>1 DEF Paid
<1>7. ASSUME NEW h \in Seq(Msgs(asked)), NEW g, g = h \o r, Neat(h), InBatch \subseteq Pending(h),
             tools.lost = 0 => Left(h, InBatch)
      PROVE  Neat(g) /\ Left(g, {}) /\ Answered(g) = Answered(h) \cup {r[i].for : i \in 1..l}
  <2>1. \A i \in 1..Len(r) : r[i].role = "tool" /\ r[i].for \in Pending(h) \cup {NoCall}
    BY <1>5, <1>6, <1>7 DEF l
  <2>2. \A i, j \in 1..Len(r) : r[i].for = r[j].for /\ r[i].for # NoCall => i = j BY <1>5 DEF l
  <2>3. /\ Neat(h \o r)
        /\ \A B : Left(h, B) /\ (\A c \in B : \E i \in 1..Len(r) : r[i].for = c) => Left(h \o r, {})
        /\ (\E i \in 1..Len(r) : r[i].for = NoCall) => Left(h \o r, {})
        /\ Answered(h \o r) = Answered(h) \cup {r[i].for : i \in 1..Len(r)}
    <3>1. asked \in Nat /\ r \in Seq(Msgs(asked)) /\ Neat(h) BY <1>4, <1>5, <1>7
    <3> QED BY <2>1, <2>2, <3>1, NeatAnswered
  <2>4. Left(g, {})
    <3>1. CASE tools.lost = 0
      <4>1. Left(h, InBatch) /\ \A c \in InBatch : \E i \in 1..Len(r) : r[i].for = c
        BY <1>5, <1>6, <1>7, <3>1 DEF l
      <4> QED BY <1>7, <2>3, <4>1
    <3>2. CASE tools.lost # 0
      <4>1. tools.lost \in Nat BY <1>4 DEF BatchesOf
      <4>2. tools.lost > 0 BY <3>2, <4>1
      <4>3. \E i \in 1..Len(r) : r[i].for = NoCall BY <1>5, <4>2 DEF l
      <4> QED BY <1>7, <2>3, <4>3
    <3> QED BY <3>1, <3>2
  <2> QED BY <1>7, <2>3, <2>4 DEF l
<1>8. /\ Neat(said') /\ Left(said', {}) /\ Answered(said') = Answered(said) \cup {r[i].for : i \in 1..l}
  <2>1. InBatch \subseteq Pending(said) BY <1>6
  <2> QED BY <1>1, <1>3, <1>4, <1>6, <1>7, <2>1
<1>9. Pending(history') \subseteq Pending(said')
  <2> SUFFICES ASSUME NEW c \in Pending(history') PROVE c \in Pending(said')
    OBVIOUS
  <2>1. \A i \in 1..Len(r) : r[i].role = "tool" BY <1>5 DEF l
  <2>2. Pending(history \o r) \subseteq Pending(history) BY <1>4, <1>5, <2>1, WaitingAnswered
  <2>3. c \in Pending(said) BY <1>1, <1>6, <2>2
  <2>4. Fine(history')
    <3>1. Fine(history) BY <1>2 DEF ManInv, Ordered
    <3> QED BY <1>1, <1>4, <1>5, <2>1, <3>1, WaitingAnswered
  <2>5. history' \in Seq(Msgs(asked)) BY <1>1, <1>4, <1>5, JoinOf
  <2>6. c \notin Answered(history') BY <1>4, <2>4, <2>5, WaitingUnanswered
  <2>7. ASSUME NEW i \in 1..Len(r), r[i].for = c PROVE FALSE
    <3>1. /\ DOMAIN (history \o r) = 1..(Len(history) + Len(r)) /\ Len(history) \in Nat /\ Len(r) \in Nat
          /\ (history \o r)[Len(history) + i] = r[i]
      BY <1>4, <1>5, JoinOf
    <3>2. Len(history) + i \in 1..(Len(history) + Len(r)) BY <3>1
    <3>3. c \in Answered(history \o r) BY <2>1, <2>7, <3>1, <3>2 DEF Answered
    <3> QED BY <1>1, <2>6, <3>3
  <2>8. \A i \in 1..Len(r) : r[i].role = "tool" /\ r[i].for # c BY <2>1, <2>7
  <2>9. c \in Pending(said \o r) BY <1>4, <1>5, <2>3, <2>8, WaitingStays
  <2> QED BY <1>1, <2>9
<1>10. Paid' BY <1>1, <1>8, <1>9 DEF Paid
<1>11. ASSUME NoCall \notin Answered(said')
       PROVE  /\ Neat(history') /\ NoCall \notin Answered(history') /\ Left(history', {})
              /\ history' # <<>> /\ Last(history').role = "tool"
  <2>1. NoCall \notin Answered(said) /\ \A i \in 1..l : r[i].for # NoCall BY <1>8, <1>11
  <2>2. tools.lost = 0
    <3>1. tools.lost \in Nat /\ ~(tools.lost > 0) BY <1>4, <1>5, <2>1 DEF BatchesOf
    <3> QED BY <3>1
  <2>3. Neat(history) /\ NoCall \notin Answered(history) /\ Left(history, InBatch)
    BY <1>1, <1>2, <1>3, <2>1, <2>2 DEF Tidied
  <2>4. /\ Neat(history') /\ Left(history', {})
        /\ Answered(history') = Answered(history) \cup {r[i].for : i \in 1..l}
    BY <1>1, <1>4, <1>6, <1>7, <2>3
  <2>5. NoCall \notin Answered(history') BY <2>1, <2>3, <2>4
  <2>6. PICK i \in 1..l : TRUE BY <1>5, <1>6, <2>2
  <2>7. history' # <<>> /\ Last(history').role = "tool"
    <3>1. /\ DOMAIN history' = 1..(Len(history) + l) /\ Len(history) \in Nat /\ l \in Nat
          /\ Len(history') = Len(history) + l
          /\ \A j \in 1..l : history'[Len(history) + j] = r[j]
      BY <1>1, <1>4, <1>5, JoinOf DEF l
    <3>2. l \in 1..l /\ Len(history) + l \in 1..(Len(history) + l) BY <2>6, <3>1
    <3>3. history'[Len(history')].role = "tool" BY <1>5, <3>1, <3>2
    <3>4. history' # <<>> BY <3>1, <3>2
    <3> QED BY <3>3, <3>4 DEF Last
  <2> QED BY <2>4, <2>5, <2>7
<1>12. Tidied' BY <1>1, <1>11 DEF Tidied
<1> QED BY <1>8, <1>10, <1>12

\* A compression comes when nothing is open.
LEMMA PairMaintains ==
  ASSUME ManInv, PairInv, Maintain, UNCHANGED <<status, whole>>
  PROVE  PairInv'
<1> SUFFICES ASSUME whole PROVE Neat(said)' /\ Paid' /\ Tidied'
  BY DEF PairInv
<1>1. /\ pc = "maintain" /\ pc' = tools.next
      /\ history' \in UNION {Capped(h) : h \in Relieved(history)}
      /\ UNCHANGED <<said, asked, fresh, tools, status, whole>>
  BY DEF Maintain
<1>2. status = "running" BY <1>1, LoopIsRunning
<1>3. Neat(said) /\ Paid /\ Tidied BY DEF PairInv
<1>4. /\ asked \in Nat /\ Protected \in Nat /\ history \in Seq(Msgs(asked)) /\ tools \in BatchesOf(asked)
  <2>1. MaxCalls \in Nat /\ Protected \in Nat BY LoopAssumption DEF LoopAssumption
  <2> QED BY <2>1 DEF ManInv, ManType
<1>5. Where = "maintain" /\ Where' \in {"loop", "call"}
  <2>1. tools.next \in {"loop", "call"} BY <1>4 DEF BatchesOf
  <2> QED BY <1>1, <2>1 DEF Where
<1>6. Left(said, {}) /\ Pending(history) \subseteq Pending(said) BY <1>2, <1>3, <1>5 DEF Paid
<1>7. PICK h \in Relieved(history) : history' \in Capped(h) BY <1>1
<1>8. h = history \/ h \in Compressions(history, Protected) BY <1>7 DEF Relieved
<1>9. history' = h \/ history' \in Compressions(h, Protected) BY <1>7 DEF Capped
<1>10. Pending(history') \subseteq Pending(history)
  <2>1. Fine(history) BY <1>2 DEF ManInv, Ordered
  <2>2. h \in Seq(Msgs(asked)) /\ Fine(h) /\ (Pending(h) = Pending(history) \/ Pending(h) = {})
    BY <1>4, <1>8, <2>1, Compressed
  <2>3. Pending(history') = Pending(h) \/ Pending(history') = {} BY <1>4, <1>9, <2>2, Compressed
  <2> QED BY <2>2, <2>3
<1>11. Paid' BY <1>1, <1>5, <1>6, <1>10 DEF Paid
<1>12. ASSUME NoCall \notin Answered(said)
       PROVE  Tidy(history') /\ history' # <<>> /\ Last(history').role = "tool"
  <2>1. Tidy(history) /\ history # <<>> /\ Last(history).role = "tool"
    BY <1>2, <1>3, <1>5, <1>12 DEF Tidied, Tidy
  <2>2. h \in Seq(Msgs(asked)) /\ Tidy(h) /\ h # <<>> /\ Last(h).role = "tool"
    BY <1>4, <1>8, <2>1, CompressedTidy
  <2> QED BY <1>4, <1>9, <2>2, CompressedTidy
<1>13. Tidied' BY <1>1, <1>5, <1>12 DEF Tidied, Tidy
<1> QED BY <1>1, <1>3, <1>11, <1>13

LEMMA PairSteps == ASSUME ManInv, PairInv, Observed, [TalkNext]_all PROVE PairInv'
<1>1. CASE UNCHANGED vars
  BY <1>1 DEF vars, loopVars, PairInv, Paid, Tidied, Where, InBatch
<1>2. CASE Loop
  <2>1. LoopStep /\ UNCHANGED <<status, whole>> BY <1>2 DEF Loop
  <2> QED BY <2>1, PairRests, PairIterates, PairReturns, PairTools, PairGathers, PairMaintains DEF LoopStep
<1>3. CASE StartRun \/ Replay \/ FinishRun \/ CutRun BY <1>3, PairRuns, PairRunEnds
<1> QED BY <1>1, <1>2, <1>3 DEF TalkNext, all, Next

LEMMA PairSends == ASSUME ManInv, PairInv PROVE RequestsPaired
<1> SUFFICES ASSUME pc = "call", Sound PROVE Paired(history) /\ SafeAction(history) = "call_provider"
  BY DEF RequestsPaired
<1>1. whole /\ NoCall \notin Answered(said) /\ Where = "call" BY DEF Sound, Where
<1>2. status = "running" BY LoopIsRunning
<1>3. /\ Tidy(history) /\ history # <<>> /\ Last(history).role # "assistant"
  BY <1>1, <1>2 DEF PairInv, Tidied, Tidy
<1>4. history \in Seq(Msgs(asked)) /\ asked \in Nat
  <2>1. MaxCalls \in Nat BY LoopAssumption DEF LoopAssumption
  <2> QED BY <2>1 DEF ManInv, ManType
<1>5. Paired(history) /\ Pending(history) = {} BY <1>3, <1>4, TidyPaired
<1> QED BY <1>3, <1>5 DEF SafeAction

\* ManagedConversation's RequestsPaired, the half of RequestsSound that is about a managed
\* run's pairs of calls and results.  Whatever the run before left, and whatever was
\* compressed away, in the request every call is followed by its results and every result
\* has its call, and the boundary it is sent from is one the provider may be called at: the
\* loop executes what is pending before it calls again, results come before the next
\* checkpoint, and a compression begins its tail at a call and makes up a result
\* for a call whose own is gone.
THEOREM RequestsHold == Observed => (TalkSpec => []RequestsPaired)
<1> SUFFICES ASSUME Observed PROVE TalkSpec => []RequestsPaired
  OBVIOUS
<1>1. TalkInit => ManInv /\ PairInv BY ManStarts, PairStarts
<1>2. ManInv /\ PairInv /\ [TalkNext]_all => (ManInv /\ PairInv)' BY ManSteps, PairSteps
<1>3. ManInv /\ PairInv => RequestsPaired BY PairSends
<1> QED BY <1>1, <1>2, <1>3, PTL DEF TalkSpec
=============================================================================
