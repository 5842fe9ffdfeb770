------------------------------ MODULE ApiServer -------------------------------
(***************************************************************************)
(* Pushing events to the web sockets of the API v2. One publisher per      *)
(* topic reads a bounded broadcast channel and hands every message to the  *)
(* sender stored with each subscription of that topic; a subscription is   *)
(* made by a POST, its socket connects later, several times if it likes,   *)
(* and requests come in over the same socket. Events are numbered by topic *)
(* in the order their producers send them.                                 *)
(***************************************************************************)
EXTENDS Naturals, Sequences, SequencesExt

CONSTANTS
    Topics,             \* those with a publisher; "data" has fields to filter
    ChannelCapacity,    \* of the broadcast channels
    Skipped,            \* [topic -> events that are no message: Ok(None)]
    Unconvertible,      \* [topic -> events that cannot be converted: Err]
    Ids,                \* subscription ids, each given out once
    Sockets,            \* bound: connections, numbered from 1
    FieldSets,          \* the data_fields subscriptions ask for
    Payloads,           \* the requests a socket may send
    MaxEvents,          \* bound: events of a topic
    MaxRequests         \* bound: requests over a socket

NoSocket == 0
Answers  == {"version", "status", "data-transaction-submitted", "error"}

(* The topics of answers are not those of the publishers.                  *)
ApiAssumption == Topics \cap Answers = {} /\ NoSocket \notin Sockets

VARIABLES
    channels,       \* [topic -> [sent, unread, lagged, closed]]
    publishers,     \* [topic -> "running" | "stopped"]
    ws_clients,     \* [id -> [topics, data_fields, sender]], of ids subscribed
    sockets,        \* [socket -> [id, at, requests]]
    pushed          \* [socket -> frames put into its unbounded queue]

api_vars == <<channels, publishers, ws_clients, sockets, pushed>>

Init ==
    /\ channels = [t \in Topics |-> [sent |-> 0, unread |-> <<>>, lagged |-> FALSE, closed |-> FALSE]]
    /\ publishers = [t \in Topics |-> "running"]
    /\ ws_clients = <<>>
    /\ sockets = [c \in Sockets |-> [id |-> 0, at |-> "unused", requests |-> 0]]
    /\ pushed = [c \in Sockets |-> <<>>]

-----------------------------------------------------------------------------
(* A broadcast channel drops what a slow receiver has not read; the next   *)
(* recv of that receiver is an error.                                      *)
EventSent(t) ==
    LET ch == channels[t] IN
    /\ ch.sent < MaxEvents /\ ~ch.closed
    /\ channels' = [channels EXCEPT ![t] =
          IF publishers[t] = "stopped" THEN [ch EXCEPT !.sent = @ + 1]
          ELSE IF Len(ch.unread) < ChannelCapacity
          THEN [ch EXCEPT !.sent = @ + 1, !.unread = Append(@, ch.sent + 1)]
          ELSE [ch EXCEPT !.sent = @ + 1, !.unread = Append(Tail(@), ch.sent + 1), !.lagged = TRUE]]
    /\ UNCHANGED <<publishers, ws_clients, sockets, pushed>>

(* The last producer is gone: what is queued can still be read.            *)
ProducersGone(t) ==
    /\ ~channels[t].closed
    /\ channels' = [channels EXCEPT ![t].closed = TRUE]
    /\ UNCHANGED <<publishers, ws_clients, sockets, pushed>>

(* filter_fields: an empty set of fields keeps the data and drops the      *)
(* extrinsics.                                                             *)
FilterFields(fields) ==
    (IF "extrinsic" \in fields THEN {"extrinsic"} ELSE {}) \cup
    (IF "data" \in fields \/ "extrinsic" \notin fields THEN {"data"} ELSE {})

Filtered(t, fields) == IF t = "data" THEN FilterFields(fields) ELSE {}

Message(t, n, id) ==
    [topic |-> t, number |-> n, fields |-> Filtered(t, ws_clients[id].data_fields)]

(* Subscriptions of the topic whose sender is set; the send to a socket    *)
(* that is closed fails and is only counted.                               *)
Receivers(t) ==
    {id \in DOMAIN ws_clients : t \in ws_clients[id].topics /\ ws_clients[id].sender # NoSocket}

Publish(t, n) ==
    pushed' = [c \in Sockets |->
        IF sockets[c].at = "open" /\ \E id \in Receivers(t) : ws_clients[id].sender = c
        THEN Append(pushed[c], Message(t, n, sockets[c].id)) ELSE pushed[c]]

(* Mutant: a receiver that fell behind goes on with what is left.          *)
GoesOn(t) == FALSE

(* recv is an error once events were dropped.                              *)
Behind(t) == channels[t].lagged
IsMessage(t, n) == n \notin Skipped[t] \cup Unconvertible[t]

Received(t) == channels' = [channels EXCEPT ![t].unread = Tail(@)]

PublisherPublishes(t) ==
    /\ publishers[t] = "running" /\ ~Behind(t) /\ channels[t].unread # <<>>
    /\ IsMessage(t, Head(channels[t].unread))
    /\ Publish(t, Head(channels[t].unread))
    /\ Received(t)
    /\ UNCHANGED <<publishers, ws_clients, sockets>>

(* Mutant: the publisher ends with an event it cannot publish.             *)
PublisherGivesUp(t) ==
    /\ publishers[t] = "running" /\ ~Behind(t) /\ channels[t].unread # <<>>
    /\ ~IsMessage(t, Head(channels[t].unread))
    /\ publishers' = [publishers EXCEPT ![t] = "stopped"]
    /\ Received(t)
    /\ UNCHANGED <<ws_clients, sockets, pushed>>

PublisherSkips(t) ==
    /\ publishers[t] = "running" /\ ~Behind(t) /\ channels[t].unread # <<>>
    /\ ~IsMessage(t, Head(channels[t].unread))
    /\ Received(t)
    /\ UNCHANGED <<publishers, ws_clients, sockets, pushed>>

(* Any error of recv, a lag as much as a closed channel, ends it for good. *)
PublisherStops(t) ==
    /\ publishers[t] = "running"
    /\ Behind(t) \/ (channels[t].unread = <<>> /\ channels[t].closed)
    /\ publishers' = [publishers EXCEPT ![t] = "stopped"]
    /\ UNCHANGED <<channels, ws_clients, sockets, pushed>>

-----------------------------------------------------------------------------
(* POST /v2/subscriptions: a fresh id; nothing ever removes it.            *)
Subscribe(id, topics, fields) ==
    /\ id \notin DOMAIN ws_clients
    /\ ws_clients' = [i \in DOMAIN ws_clients \cup {id} |->
          IF i = id THEN [topics |-> topics, data_fields |-> fields, sender |-> NoSocket]
          ELSE ws_clients[i]]
    /\ UNCHANGED <<channels, publishers, sockets, pushed>>

(* GET /v2/ws/{id}: an unknown id is not found, otherwise it upgrades.     *)
Connect(c, id) ==
    /\ sockets[c].at = "unused" /\ id \in DOMAIN ws_clients
    /\ sockets' = [sockets EXCEPT ![c] = [@ EXCEPT !.id = id, !.at = "upgrading"]]
    /\ UNCHANGED <<channels, publishers, ws_clients, pushed>>

(* The upgraded socket takes over the messages of its subscription.        *)
SetSender(c) ==
    /\ sockets[c].at = "upgrading"
    /\ ws_clients' = [ws_clients EXCEPT ![sockets[c].id].sender = c]
    /\ sockets' = [sockets EXCEPT ![c].at = "open"]
    /\ UNCHANGED <<channels, publishers, pushed>>

(* A text message is answered before the next one is read: with what was   *)
(* asked, or with an error; anything else is passed over.                  *)
Answer(payload) ==
    [topic |-> IF payload \in {"version", "status"} THEN payload
               ELSE IF payload = "submit" THEN "data-transaction-submitted" ELSE "error",
     number |-> 0, fields |-> {}]

HandleRequest(c, payload) ==
    /\ sockets[c].at = "open" /\ sockets[c].requests < MaxRequests
    /\ sockets' = [sockets EXCEPT ![c].requests = @ + 1]
    /\ pushed' = IF payload = "binary" THEN pushed
                 ELSE [pushed EXCEPT ![c] = Append(@, Answer(payload))]
    /\ UNCHANGED <<channels, publishers, ws_clients>>

(* The socket goes; its sender stays with the subscription.                *)
Disconnect(c) ==
    /\ sockets[c].at = "open"
    /\ sockets' = [sockets EXCEPT ![c].at = "closed"]
    /\ UNCHANGED <<channels, publishers, ws_clients, pushed>>

Publisher(t) == PublisherPublishes(t) \/ PublisherSkips(t) \/ PublisherStops(t)

Next ==
    \/ \E t \in Topics : EventSent(t) \/ ProducersGone(t)
    \/ \E t \in Topics : Publisher(t)
    \/ \E id \in Ids, topics \in SUBSET Topics, fields \in FieldSets : Subscribe(id, topics, fields)
    \/ \E c \in Sockets, id \in Ids : Connect(c, id)
    \/ \E c \in Sockets : SetSender(c) \/ Disconnect(c)
    \/ \E c \in Sockets, payload \in Payloads : HandleRequest(c, payload)

Fairness == \A t \in Topics : WF_api_vars(Publisher(t))

Spec == Init /\ [][Next]_api_vars /\ Fairness

-----------------------------------------------------------------------------
(* What a socket gets of a topic is a run of messages without a gap, a     *)
(* repetition or a swap: a publisher that fell behind stops rather than    *)
(* leave messages out (publish, mod.rs 41-68), and a socket that another   *)
(* one replaced gets nothing more (set_sender, types.rs 716-723).          *)
Got(c, t)    == {k \in DOMAIN pushed[c] : pushed[c][k].topic = t}
Gets(c, t, n) == \E k \in Got(c, t) : pushed[c][k].number = n
NoGapsOnASocket ==
    \A c \in Sockets, t \in Topics : \A i, j \in Got(c, t) :
        LET last == pushed[c][i].number
            next == pushed[c][j].number
        IN i < j => last < next /\ \A n \in last + 1 .. next - 1 : IsMessage(t, n) => Gets(c, t, n)

(* A message in the channel of a topic reaches the socket that serves a    *)
(* subscription of the topic, whatever cannot be published before it,      *)
(* unless the socket goes or is replaced, or the publisher falls behind.   *)
Serves(c, t) ==
    sockets[c].at = "open" /\ \E id \in Receivers(t) : ws_clients[id].sender = c
SubscribersAreServed ==
    \A c \in Sockets, t \in Topics, n \in 1 .. MaxEvents :
        (Serves(c, t) /\ IsMessage(t, n) /\ n \in Range(channels[t].unread))
            ~> (~Serves(c, t) \/ Gets(c, t, n) \/ channels[t].lagged)
=============================================================================
