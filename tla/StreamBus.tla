------------------------------ MODULE StreamBus ------------------------------
(***************************************************************************)
(* One workspace of one event bus (infra/stream/bus.go, subscribe.go) with *)
(* the SSE handlers that read it (transport/httpapi/handlers/stream.go,    *)
(* response/sse.go) and clients that reconnect with the id of the last     *)
(* frame they got. A durable frame is its seq, an ephemeral one is 0.      *)
(* Publish and Subscribe run under the workspace's mutex, so each is one   *)
(* step; a handler takes from its channel without it.                      *)
(***************************************************************************)
EXTENDS Naturals, Sequences

CONSTANTS
    Clients,
    BufSize,       \* replay ring
    Capacity,      \* a subscriber's channel: BufSize + subscriberHeadroom
    MaxSeq,        \* bound on the durable frames of one run of the program
    MaxEphemeral,  \* bound on ephemeral frames
    MaxRestarts    \* bound on restarts

ASSUME BufAssumption == BufSize \in Nat \ {0} /\ Capacity \in Nat /\ BufSize <= Capacity
ASSUME BoundAssumption == MaxSeq \in Nat /\ MaxEphemeral \in Nat /\ MaxRestarts \in Nat

VARIABLES
    seq,        \* workspaceState.seq
    buffer,     \* workspaceState.buffer: seqs
    subs,       \* workspaceState.subs: clients whose subscription is listed
    ch,         \* subscription.ch
    done,       \* clients whose subscription.done is closed
    conn,       \* client -> "off", "on", "leaving" (cancel has yet to unlist it)
    cursor,     \* Last-Event-ID, 0 when the client has none
    pos,        \* last durable frame received or, if later, the seq attached at
    stale,      \* clients whose cursor is of an earlier run of the program
    ephemerals, restarts

vars == <<seq, buffer, subs, ch, done, conn, cursor, pos, stale, ephemerals, restarts>>

Ephemeral == 0

Init ==
    /\ seq = 0 /\ buffer = << >> /\ subs = {} /\ done = {} /\ stale = {}
    /\ ch = [c \in Clients |-> << >>]
    /\ conn = [c \in Clients |-> "off"]
    /\ cursor = [c \in Clients |-> 0]
    /\ pos = [c \in Clients |-> 0]
    /\ ephemerals = 0 /\ restarts = 0

Full(c) == Len(ch[c]) >= Capacity

\* The ring keeps the last BufSize frames.
Ring(frames) ==
    IF Len(frames) > BufSize THEN SubSeq(frames, Len(frames) - BufSize + 1, Len(frames))
                             ELSE frames

\* Publish of a durable frame. A full subscriber is cut; of one that was cut or
\* is leaving, select may choose the channel or done.
PublishDurable ==
    /\ seq < MaxSeq
    /\ seq' = seq + 1
    /\ buffer' = Ring(Append(buffer, seq + 1))
    /\ \E taking \in SUBSET {c \in subs : ~Full(c)} :
         /\ {c \in subs : ~Full(c)} \ done \subseteq taking
         /\ ch' = [c \in Clients |-> IF c \in taking THEN Append(ch[c], seq + 1) ELSE ch[c]]
    /\ done' = done \cup {c \in subs : Full(c)}
    /\ UNCHANGED <<subs, conn, cursor, pos, stale, ephemerals, restarts>>

\* Publish of an ephemeral frame: dropped on a full subscriber.
PublishEphemeral ==
    /\ ephemerals < MaxEphemeral
    /\ ephemerals' = ephemerals + 1
    /\ ch' = [c \in Clients |-> IF c \in subs /\ ~Full(c) THEN Append(ch[c], Ephemeral) ELSE ch[c]]
    /\ UNCHANGED <<seq, buffer, subs, done, conn, cursor, pos, stale, restarts>>

Behind(c) == 0 < cursor[c] /\ cursor[c] < seq
Evicted(c) == Behind(c) /\ buffer[1] > cursor[c] + 1

\* The buffered frames after the cursor; the ring is in the order of seq.
IsNext(c, i) == buffer[i] > cursor[c] /\ \A j \in 1..(i - 1) : buffer[j] <= cursor[c]
ReplayFrom(c) ==
    IF Behind(c) THEN SubSeq(buffer, CHOOSE i \in DOMAIN buffer : IsNext(c, i), Len(buffer))
                 ELSE << >>

Attach(c) ==
    /\ subs' = subs \cup {c}
    /\ ch' = [ch EXCEPT ![c] = ReplayFrom(c)]
    /\ conn' = [conn EXCEPT ![c] = "on"]
    /\ pos' = [pos EXCEPT ![c] = IF Behind(c) THEN cursor[c] ELSE seq]
    /\ UNCHANGED <<seq, buffer, done, cursor, stale, ephemerals, restarts>>

\* Mutant: the oldest buffered frame is compared with the cursor itself, one off.
SubscribeOneOff(c) ==
    /\ conn[c] = "off"
    /\ ~(Behind(c) /\ buffer[1] > cursor[c] + 2)
    /\ Attach(c)

\* Subscribe: replay what follows the cursor, then live frames.
Subscribe(c) ==
    /\ conn[c] = "off"
    /\ ~Evicted(c)
    /\ Attach(c)

\* ErrSeqTooOld: the client fetches everything again and has no cursor.
SubscribeTooOld(c) ==
    /\ conn[c] = "off"
    /\ Evicted(c)
    /\ cursor' = [cursor EXCEPT ![c] = 0]
    /\ UNCHANGED <<seq, buffer, subs, ch, done, conn, pos, stale, ephemerals, restarts>>

\* StreamSSE: take a frame and write it; ephemeral frames carry no id.
Take(c) ==
    /\ conn[c] = "on" /\ ch[c] # << >>
    /\ LET frame == Head(ch[c]) IN
         IF frame = Ephemeral
         THEN UNCHANGED <<cursor, pos, stale>>
         ELSE /\ cursor' = [cursor EXCEPT ![c] = frame]
              /\ pos' = [pos EXCEPT ![c] = frame]
              /\ stale' = stale \ {c}
    /\ ch' = [ch EXCEPT ![c] = Tail(@)]
    /\ UNCHANGED <<seq, buffer, subs, done, conn, ephemerals, restarts>>

\* The client goes away: cancel closes done, then unlists the subscription.
Leave(c) ==
    /\ conn[c] = "on"
    /\ conn' = [conn EXCEPT ![c] = "leaving"]
    /\ done' = done \cup {c}
    /\ UNCHANGED <<seq, buffer, subs, ch, cursor, pos, stale, ephemerals, restarts>>

\* Mutant: cancel does nothing more once done is closed.
UnlistUncut(c) ==
    /\ conn[c] = "leaving" /\ c \notin done
    /\ conn' = [conn EXCEPT ![c] = "off"]
    /\ subs' = subs \ {c} /\ done' = done \ {c}
    /\ ch' = [ch EXCEPT ![c] = << >>]
    /\ UNCHANGED <<seq, buffer, cursor, pos, stale, ephemerals, restarts>>

Unlist(c) ==
    /\ conn[c] = "leaving"
    /\ conn' = [conn EXCEPT ![c] = "off"]
    /\ subs' = subs \ {c} /\ done' = done \ {c}
    /\ ch' = [ch EXCEPT ![c] = << >>]
    /\ UNCHANGED <<seq, buffer, cursor, pos, stale, ephemerals, restarts>>

\* The program restarts with empty buses; the clients keep their cursors.
Restart ==
    /\ restarts < MaxRestarts
    /\ restarts' = restarts + 1
    /\ seq' = 0 /\ buffer' = << >> /\ subs' = {} /\ done' = {}
    /\ ch' = [c \in Clients |-> << >>]
    /\ conn' = [c \in Clients |-> "off"]
    /\ stale' = Clients
    /\ UNCHANGED <<cursor, pos, ephemerals>>

Next ==
    \/ PublishDurable \/ PublishEphemeral \/ Restart
    \/ \E c \in Clients :
         Subscribe(c) \/ SubscribeTooOld(c) \/ Take(c) \/ Leave(c) \/ Unlist(c)

Spec == Init /\ [][Next]_vars

(***************************************************************************)
(* A handler that has a frame writes it, and cancel runs to its end.       *)
(* Whether clients stay, leave or come back is up to them.                 *)
(***************************************************************************)
FairSpec == Spec /\ \A c \in Clients : WF_vars(Take(c)) /\ WF_vars(Unlist(c))

-----------------------------------------------------------------------------
TypeOK ==
    /\ seq \in Nat
    /\ buffer \in Seq(Nat)
    /\ subs \in SUBSET Clients
    /\ ch \in [Clients -> Seq(Nat)]
    /\ done \in SUBSET Clients
    /\ conn \in [Clients -> {"off", "on", "leaving"}]
    /\ cursor \in [Clients -> Nat]
    /\ pos \in [Clients -> Nat]
    /\ stale \in SUBSET Clients
    /\ ephemerals \in Nat /\ restarts \in Nat

\* What a subscriber sees of the bus.
live == [c \in Clients |-> IF conn[c] # "on" THEN "off"
                           ELSE IF c \in done THEN "cut" ELSE "on"]

Log == INSTANCE StreamLog WITH last <- seq, pos <- pos, live <- live, stale <- stale

\* Until it is cut, a subscriber gets every durable frame after its cursor
\* once and in order, through replay, live fan-out, reconnects and eviction
\* (bus.go Publish, subscribe.go Subscribe).
RefinesLog == Log!Spec

\* Neither the ring nor a channel outgrows its size, the replay of a whole ring
\* included: Subscribe never fails on "replay overflow" (subscribe.go).
BuffersBounded ==
    /\ Len(buffer) <= BufSize
    /\ \A c \in Clients : Len(ch[c]) <= Capacity

\* No stale listing: whoever is not connected, or leaving, gets nothing more
\* (subscribe.go cancel), and whoever is connected is listed.
ListedIsConnected == \A c \in Clients : c \in subs <=> conn[c] # "off"

\* An attached subscriber that is not cut catches up, replay included, and one
\* that leaves is unlisted (sse.go StreamSSE, subscribe.go cancel).
CatchesUp ==
    \A c \in Clients :
        /\ (live[c] = "on") ~> (pos[c] = seq \/ live[c] # "on")
        /\ (conn[c] = "leaving") ~> (c \notin subs)
=============================================================================
