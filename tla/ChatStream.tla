----------------------------- MODULE ChatStream -----------------------------
(***************************************************************************)
(* The chat's event stream.  Every request runs the pipeline again and     *)
(* builds the whole list of events; the cursor a reconnecting client sends *)
(* decides where in that new list the delivery starts, so nothing is kept  *)
(* between two connections but what the client remembers.                  *)
(*                                                                         *)
(* An answer is [tokens, odd, leak]: how many tokens its text has, the     *)
(* tokens that read as a leak only once they are joined to a chunk, and    *)
(* whether the text as a whole reads as one.  The answer to a message      *)
(* stays the same until a provider or a configuration changes.             *)
(***************************************************************************)
EXTENDS Integers, Sequences, SequencesExt, FiniteSets, FiniteSetsExt

CONSTANTS
    Messages,       \* message ids
    Answers,        \* what the pipeline may answer
    Configs,        \* configurations of the gate
    Callers,        \* who may send a message, as the headers name them
    MaxUnits,       \* MAX_CHUNK_TOKEN_UNITS
    MaxDrops,       \* bound on lost connections
    MaxChanges,     \* bound on changes of an answer or of the gate
    MaxMixups       \* bound on connections with another message's cursor

VARIABLES
    config,         \* the gate's configuration, read for every request
    caller,         \* who the client says it is
    answer,         \* what the pipeline answers to each message now
    changed,        \* messages whose answer changed
    conn,           \* the open connection: its message and the events still to send
    received,       \* events the client has of each message, errors left out
    wanted,         \* messages the client has asked about
    last,           \* the id of the last event of each message, errors included
    drops, changes, mixups

streamVars == <<config, caller, answer, changed, conn, received, wanted, last, drops, changes, mixups>>

NoId == [msg |-> "none", seq |-> 0]
NoConnection == [msg |-> "none", rest |-> <<>>]
ErrorSeq == 999999

(***************************************************************************)
(* The gate, asked before the body is read.                                *)
(***************************************************************************)
access_configured(c) ==
    c.enabled /\ c.signoff /\ c.tenant /\ c.users > 0 /\ c.users <= 5 /\ c.token

validate_internal_beta_access(c, who) ==
    access_configured(c) /\ who.tenant /\ who.user /\ who.token

Open == validate_internal_beta_access(config, caller)

(***************************************************************************)
(* The events of an answer.                                                *)
(***************************************************************************)
event_id(m, seq) == [msg |-> m, seq |-> seq]

(* The last chunk may be short, and a text with no token has no chunk. *)
split_content_chunks(tokens) ==
    [k \in 1..((tokens + MaxUnits - 1) \div MaxUnits) |->
        [i \in 1..(Min({k * MaxUnits, tokens}) - (k - 1) * MaxUnits) |-> (k - 1) * MaxUnits + i]]

Filtered == <<0>>

safe_chunk(a, chunk) == IF ToSet(chunk) \cap a.odd # {} THEN Filtered ELSE chunk

content_chunks(a) == IF a.leak THEN <<Filtered>> ELSE split_content_chunks(a.tokens)

Event(m, seq, kind, chunk, count) ==
    [id |-> event_id(m, seq), kind |-> kind, chunk |-> chunk, count |-> count]

build_stream_events(m, a) ==
    LET chunks == content_chunks(a)
    IN  <<Event(m, 0, "message_start", <<>>, 0)>>
            \o [k \in DOMAIN chunks |-> Event(m, k, "content_delta", safe_chunk(a, chunks[k]), 0)]
            \o <<Event(m, Len(chunks) + 1, "done", <<>>, Len(chunks))>>

(* Where the events after a cursor begin: 0 for a cursor that is not found *)
(* among them.                                                             *)
resume_indexBySeq(events, cursor) ==
    IF cursor = NoId THEN 1
    ELSE LET at == {i \in DOMAIN events : events[i].id.seq = cursor.seq}
         IN  IF at = {} THEN 0 ELSE Min(at) + 1

resume_index(events, cursor) ==
    IF cursor = NoId THEN 1
    ELSE LET at == {i \in DOMAIN events : events[i].id = cursor}
         IN  IF at = {} THEN 0 ELSE Min(at) + 1

(* A cursor just before the end is taken for the end. *)
iter_sse_payloadShort(events, cursor) ==
    LET start == resume_index(events, cursor)
    IN  IF start = 0 THEN <<Event(events[1].id.msg, ErrorSeq, "error", <<>>, 0)>>
        ELSE IF start >= Len(events) THEN <<>>
        ELSE SubSeq(events, start, Len(events))

iter_sse_payload(events, cursor) ==
    LET start == resume_index(events, cursor)
    IN  IF start = 0 THEN <<Event(events[1].id.msg, ErrorSeq, "error", <<>>, 0)>>
        ELSE SubSeq(events, start, Len(events))

(***************************************************************************)
(* Requests.  A client that starts over forgets what it has.               *)
(***************************************************************************)
StreamInit ==
    /\ config \in Configs /\ caller \in Callers
    /\ answer \in [Messages -> Answers] /\ changed = {}
    /\ conn = NoConnection
    /\ received = [m \in Messages |-> <<>>] /\ last = [m \in Messages |-> NoId]
    /\ wanted = {}
    /\ drops = 0 /\ changes = 0 /\ mixups = 0

stream_internal_beta_message(m, cursor) ==
    /\ conn = NoConnection
    /\ IF Open
       THEN conn' = [msg |-> m,
                     rest |-> iter_sse_payload(build_stream_events(m, answer[m]), cursor)]
       ELSE UNCHANGED conn
    /\ UNCHANGED <<config, caller, answer, changed, drops, changes>>

IsDone(m) == received[m] # <<>> /\ received[m][Len(received[m])].kind = "done"

Start(m) ==
    /\ stream_internal_beta_message(m, NoId)
    /\ received' = [received EXCEPT ![m] = <<>>] /\ last' = [last EXCEPT ![m] = NoId]
    /\ wanted' = wanted \cup {m}
    /\ UNCHANGED mixups

Resume(m) ==
    /\ stream_internal_beta_message(m, last[m])
    /\ UNCHANGED <<received, last, wanted, mixups>>

(* A client that lost its connection goes on where it was, and starts over *)
(* when it has nothing yet or its cursor was refused.                      *)
Reconnect(m) ==
    /\ m \in wanted /\ ~IsDone(m)
    /\ IF last[m] = NoId \/ last[m].seq = ErrorSeq THEN Start(m) ELSE Resume(m)

(* A client may send what it remembers of another message. *)
MixUp(m, other) ==
    /\ mixups < MaxMixups
    /\ m # other /\ last[other] # NoId
    /\ stream_internal_beta_message(m, last[other])
    /\ mixups' = mixups + 1
    /\ UNCHANGED <<received, last, wanted>>

(***************************************************************************)
(* Delivery.                                                               *)
(***************************************************************************)
Deliver ==
    /\ conn.rest # <<>>
    /\ LET e == Head(conn.rest)
       IN  /\ last' = [last EXCEPT ![conn.msg] = e.id]
           /\ received' = IF e.kind = "error" THEN received
                          ELSE [received EXCEPT ![conn.msg] = Append(@, e)]
    /\ conn' = [conn EXCEPT !.rest = Tail(@)]
    /\ UNCHANGED <<config, caller, answer, changed, wanted, drops, changes, mixups>>

EndConnection ==
    /\ conn # NoConnection /\ conn.rest = <<>>
    /\ conn' = NoConnection
    /\ UNCHANGED <<config, caller, answer, changed, received, wanted, last, drops, changes, mixups>>

DropConnection ==
    /\ drops < MaxDrops
    /\ conn.rest # <<>>
    /\ conn' = NoConnection /\ drops' = drops + 1
    /\ UNCHANGED <<config, caller, answer, changed, received, wanted, last, changes, mixups>>

(***************************************************************************)
(* What changes around the stream.                                         *)
(***************************************************************************)
ChangeAnswer(m) ==
    /\ changes < MaxChanges /\ changes' = changes + 1
    /\ \E a \in Answers \ {answer[m]} : answer' = [answer EXCEPT ![m] = a]
    /\ changed' = changed \cup {m}
    /\ UNCHANGED <<config, caller, conn, received, wanted, last, drops, mixups>>

ChangeGate ==
    /\ changes < MaxChanges /\ changes' = changes + 1
    /\ config' \in Configs \ {config}
    /\ UNCHANGED <<caller, answer, changed, conn, received, wanted, last, drops, mixups>>

StreamNext ==
    \/ \E m \in Messages : (m \notin wanted /\ Start(m)) \/ Reconnect(m) \/ ChangeAnswer(m)
    \/ \E m, other \in Messages : MixUp(m, other)
    \/ Deliver \/ EndConnection \/ DropConnection \/ ChangeGate

(* The server sends what it has built, and the client comes back. *)
StreamFairness ==
    /\ WF_streamVars(Deliver) /\ WF_streamVars(EndConnection)
    /\ \A m \in Messages : SF_streamVars(Reconnect(m))

(***************************************************************************)
(* Properties.                                                             *)
(***************************************************************************)
(* Whatever connections were lost, mixed up or answered anew, the events   *)
(* the client has of a message are a message_start and what follows it,    *)
(* with no number missing and none twice, all of that message.             *)
StreamHasNoGapOrRepeat ==
    \A m \in Messages : \A i \in DOMAIN received[m] :
        received[m][i].id = event_id(m, i - 1)

(* When the answer stayed the same, done says how many chunks arrived, and *)
(* the chunks put together are the text, except where a chunk or the whole *)
(* text was filtered.                                                      *)
DoneMeansComplete ==
    \A m \in Messages \ changed : IsDone(m) =>
        LET got == SelectSeq(received[m], LAMBDA e : e.kind = "content_delta")
            text == FlattenSeq([i \in DOMAIN got |-> got[i].chunk])
        IN  /\ received[m][Len(received[m])].count = Len(got)
            /\ answer[m].leak => text = Filtered
            /\ ~answer[m].leak /\ answer[m].odd = {} => text = [i \in 1..answer[m].tokens |-> i]

(* A client that asks about a message ends up with the whole answer as     *)
(* long as the answer does not change, unless the gate is shut.            *)
StreamEnds ==
    \A m \in Messages : m \in wanted ~> (IsDone(m) \/ m \in changed \/ ~Open)
=============================================================================
