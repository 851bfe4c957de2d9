------------------------------ MODULE StreamLog ------------------------------
(***************************************************************************)
(* What an event stream promises its subscribers (domain/stream/bridge.go: *)
(* "assign seq, buffer durable frames for replay, fan out to subscribers"):*)
(* a log of durable frames, of which an attached subscriber receives every *)
(* frame after the one it attached at, in order and once. A subscriber     *)
(* that is cut for being full may miss frames, and never gets one twice.   *)
(* Frames are numbered anew by each run of the program, so a subscriber    *)
(* back with a number of an earlier run may resume anywhere.               *)
(***************************************************************************)
EXTENDS Naturals

CONSTANT Clients

VARIABLES
    last,   \* durable frames published
    pos,    \* client -> the last frame it has
    live,   \* client -> "off", "on", or "cut"
    stale   \* clients with no frame of this run of the program

vars == <<last, pos, live, stale>>

Init ==
    /\ last = 0
    /\ pos = [c \in Clients |-> 0]
    /\ live = [c \in Clients |-> "off"]
    /\ stale = {}

\* A subscriber that cannot take one more frame is cut.
Publish(full) ==
    /\ last' = last + 1
    /\ live' = [c \in Clients |-> IF c \in full /\ live[c] = "on" THEN "cut" ELSE live[c]]
    /\ UNCHANGED <<pos, stale>>

Receive(c) ==
    /\ live[c] = "on" /\ pos[c] < last
    /\ pos' = [pos EXCEPT ![c] = @ + 1]
    /\ stale' = stale \ {c}
    /\ UNCHANGED <<last, live>>

ReceiveLate(c) ==
    /\ live[c] = "cut"
    /\ \E n \in (pos[c] + 1)..last : pos' = [pos EXCEPT ![c] = n]
    /\ stale' = stale \ {c}
    /\ UNCHANGED <<last, live>>

\* Resume after the last frame received, or start with the next one.
Attach(c) ==
    /\ live[c] = "off"
    /\ live' = [live EXCEPT ![c] = "on"]
    /\ \/ UNCHANGED pos
       \/ pos' = [pos EXCEPT ![c] = last]
       \/ c \in stale /\ \E n \in 0..last : pos' = [pos EXCEPT ![c] = n]
    /\ UNCHANGED <<last, stale>>

Detach(c) ==
    /\ live[c] # "off"
    /\ live' = [live EXCEPT ![c] = "off"]
    /\ UNCHANGED <<last, pos, stale>>

\* The log is in memory.
Restart ==
    /\ last' = 0
    /\ live' = [c \in Clients |-> "off"]
    /\ stale' = Clients
    /\ UNCHANGED pos

Next ==
    \/ \E full \in SUBSET Clients : Publish(full)
    \/ \E c \in Clients : Receive(c) \/ ReceiveLate(c) \/ Attach(c) \/ Detach(c)
    \/ Restart

Spec == Init /\ [][Next]_vars
=============================================================================
