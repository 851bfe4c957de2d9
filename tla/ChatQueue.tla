------------------------------ MODULE ChatQueue ------------------------------
(***************************************************************************)
(* The turns of one conversation (app/chat/chat.go, runner.go). Send       *)
(* opens an assistant row and offers it to the conversation's queue, whose *)
(* one goroutine generates a turn at a time and tears the queue down when  *)
(* idle; Cancel, Delete and Shutdown come from other goroutines. A turn    *)
(* may stop at the human-in-the-loop broker (app/humanloop) before it runs *)
(* a dangerous tool.                                                       *)
(*                                                                         *)
(* A queue outlives its entry in the map: its goroutine, and a Send that   *)
(* looked it up earlier, still hold it. queueCapacity is 1.                *)
(***************************************************************************)
EXTENDS Naturals, FiniteSets

CONSTANTS
    Turns,      \* assistant messages
    NoTurn,
    Callers,    \* Cancel and Delete requests served at a time
    MaxQueues,  \* bound on the queues made between two boots: the last one does not expire
    MaxCalls,   \* bound on Cancel and Delete requests
    MaxCrashes  \* bound on crashes and boots

ASSUME NoTurnAssumption == NoTurn \notin Turns
ASSUME BoundAssumption == MaxQueues \in Nat \ {0} /\ MaxCalls \in Nat /\ MaxCrashes \in Nat

Queues == 1..MaxQueues
NoQueue == 0
Rows == {"none", "streaming", "completed", "error", "cancelled"}
Answers == {"none", "approve", "approve_always", "deny"}

VARIABLES
    row,        \* Message.Status
    deleted,    \* the conversation is soft-deleted
    current,    \* Service.queues: the conversation's entry
    made,       \* queues made since the boot
    queue,      \* convQueue: ch, running, dead, cancel (the turn it cancels)
    runner,     \* runQueue of each queue: its step, and the task in hand
    cancelled,  \* turns in hand whose context is done
    pending,    \* Broker.pending, by the turn that asks
    answer,     \* waiter.ch, and what was last answered
    allowed,    \* Broker.allowed: the tool is whitelisted here
    skilled,    \* queues whose AgentState has an active skill that pre-approves the tool
    send,       \* each Send: its step, and the queue it looked up
    call,       \* each Cancel or Delete: its step, its queue, the task in hand
    stop,       \* Shutdown: "up", "closed", "cancelled"
    ran, vouched, \* the turn in hand ran its dangerous tool; a human allowed it for good
    calls, crashes

store == <<row, deleted>>
queues == <<current, made, queue>>
broker == <<pending, answer, allowed, skilled>>
ghosts == <<ran, vouched>>
bounds == <<calls, crashes>>
vars == <<store, queues, runner, cancelled, broker, send, call, stop, ghosts, bounds>>

NewQueue == [ch |-> NoTurn, running |-> FALSE, dead |-> FALSE, cancel |-> NoTurn]
Unmade == [at |-> "unmade", turn |-> NoTurn]
Idle == [at |-> "idle", turn |-> NoTurn]
Exited == [at |-> "exited", turn |-> NoTurn]
IdleCall == [at |-> "idle", op |-> "cancel", q |-> NoQueue, turn |-> NoTurn]

Init ==
    /\ current = NoQueue /\ made = 0
    /\ queue = [q \in Queues |-> NewQueue]
    /\ runner = [q \in Queues |-> Unmade]
    /\ cancelled = {}
    /\ pending = {} /\ allowed = FALSE /\ skilled = {}
    /\ call = [p \in Callers |-> IdleCall]
    /\ stop = "up"
    /\ row = [m \in Turns |-> "none"]
    /\ deleted = FALSE
    /\ answer = [m \in Turns |-> "none"]
    /\ send = [m \in Turns |-> [at |-> "new", q |-> NoQueue]]
    /\ ran = {} /\ vouched = FALSE
    /\ calls = 0 /\ crashes = 0

-----------------------------------------------------------------------------
(***************************************************************************)
(* Send.                                                                   *)
(***************************************************************************)
\* The conversation exists; the user row and the assistant row are written.
Open(m) ==
    /\ send[m].at = "new" /\ ~deleted /\ stop = "up"
    /\ row' = [row EXCEPT ![m] = "streaming"]
    /\ send' = [send EXCEPT ![m].at = "open"]
    /\ UNCHANGED <<deleted, queues, runner, cancelled, broker, call, stop, ghosts, bounds>>

\* getOrCreateQueue: a new queue starts its goroutine.
GetQueue(m) ==
    /\ send[m].at = "open"
    /\ IF current # NoQueue
       THEN UNCHANGED <<queues, runner>>
       ELSE /\ made < MaxQueues
            /\ made' = made + 1 /\ current' = made + 1
            /\ runner' = [runner EXCEPT ![made + 1] = Idle]
            /\ UNCHANGED queue
    /\ send' = [send EXCEPT ![m] = [at |-> "offer", q |-> current']]
    /\ UNCHANGED <<store, cancelled, broker, call, stop, ghosts, bounds>>

Asked(m) == queue[send[m].q]
Left(at) == [at |-> at, q |-> NoQueue]

\* enqueue, under q.mu.
Offer(m) ==
    /\ send[m].at = "offer"
    /\ IF Asked(m).dead
       THEN send' = [send EXCEPT ![m] = Left("open")] /\ UNCHANGED queue
       ELSE IF Asked(m).running \/ Asked(m).ch # NoTurn
       THEN send' = [send EXCEPT ![m] = Left("refused")] /\ UNCHANGED queue
       ELSE /\ send' = [send EXCEPT ![m] = Left("done")]
            /\ queue' = [queue EXCEPT ![send[m].q].ch = m]
    /\ UNCHANGED <<store, current, made, runner, cancelled, broker, call, stop, ghosts, bounds>>

\* STREAM_IN_PROGRESS: the assistant row is rolled to error.
Refuse(m) ==
    /\ send[m].at = "refused"
    /\ row' = [row EXCEPT ![m] = "error"]
    /\ send' = [send EXCEPT ![m].at = "done"]
    /\ UNCHANGED <<deleted, queues, runner, cancelled, broker, call, stop, ghosts, bounds>>

Sender(m) == GetQueue(m) \/ Offer(m) \/ Refuse(m)

-----------------------------------------------------------------------------
(***************************************************************************)
(* runQueue and processTask.                                               *)
(***************************************************************************)
Move(q, at) == runner' = [runner EXCEPT ![q].at = at]
Hold(q) == runner[q].turn
SetRunning(q, v) == queue' = [queue EXCEPT ![q].running = v]

Dequeue(q) ==
    /\ runner[q].at = "idle" /\ queue[q].ch # NoTurn
    /\ runner' = [runner EXCEPT ![q] = [at |-> "got", turn |-> queue[q].ch]]
    /\ queue' = [queue EXCEPT ![q].ch = NoTurn]
    /\ UNCHANGED <<store, current, made, cancelled, broker, send, call, stop, ghosts, bounds>>

\* Mutant: only the idle timer ends the goroutine.
ExitNever(q) ==
    /\ runner[q].at = "idle" /\ stop # "up" /\ queue[q].dead
    /\ runner' = [runner EXCEPT ![q] = Exited]
    /\ UNCHANGED <<store, queues, cancelled, broker, send, call, stop, ghosts, bounds>>

ExitOnStop(q) ==
    /\ runner[q].at = "idle" /\ stop # "up"
    /\ runner' = [runner EXCEPT ![q] = Exited]
    /\ UNCHANGED <<store, queues, cancelled, broker, send, call, stop, ghosts, bounds>>

Expire(q) ==
    /\ runner[q].at = "idle" /\ made < MaxQueues
    /\ Move(q, "expired")
    /\ UNCHANGED <<store, queues, cancelled, broker, send, call, stop, ghosts, bounds>>

\* The last look at the channel, and the teardown, under q.mu.
TearDown(q) ==
    /\ runner[q].at = "expired"
    /\ IF queue[q].ch # NoTurn
       THEN /\ runner' = [runner EXCEPT ![q] = [at |-> "got", turn |-> queue[q].ch]]
            /\ queue' = [queue EXCEPT ![q].ch = NoTurn]
            /\ UNCHANGED current
       ELSE /\ runner' = [runner EXCEPT ![q] = Exited]
            /\ queue' = [queue EXCEPT ![q].dead = TRUE]
            /\ current' = NoQueue
    /\ UNCHANGED <<store, made, cancelled, broker, send, call, stop, ghosts, bounds>>

Take(q) ==
    /\ runner[q].at = "got"
    /\ SetRunning(q, TRUE)
    /\ Move(q, "begin")
    /\ UNCHANGED <<store, current, made, cancelled, broker, send, call, stop, ghosts, bounds>>

\* The turn's context is made, its cancel registered.
Register(q) ==
    /\ runner[q].at = "begin"
    /\ queue' = [queue EXCEPT ![q].cancel = Hold(q)]
    /\ Move(q, "load")
    /\ UNCHANGED <<store, current, made, cancelled, broker, send, call, stop, ghosts, bounds>>

Load(q) ==
    /\ runner[q].at = "load" /\ ~deleted
    /\ Move(q, "generate")
    /\ UNCHANGED <<store, queues, cancelled, broker, send, call, stop, ghosts, bounds>>

\* failTurn: the conversation or its model does not load.
FailTurn(q) ==
    /\ runner[q].at = "load"
    /\ row' = [row EXCEPT ![Hold(q)] = "error"]
    /\ Move(q, "ended")
    /\ UNCHANGED <<deleted, queues, cancelled, broker, send, call, stop, ghosts, bounds>>

\* activate_skill: the skill becomes the active one of the conversation's
\* AgentState, and its allowed-tools name the dangerous tool or not.
ActivateSkill(q) ==
    /\ runner[q].at = "generate"
    /\ skilled' \in {skilled \cup {q}, skilled \ {q}}
    /\ UNCHANGED <<store, queues, runner, cancelled, pending, answer, allowed, send, call, stop,
                   ghosts, bounds>>

\* dispatchWithGate: a dangerous call registers with the broker, or is
\* whitelisted or pre-approved and runs. A turn makes at most one.
Ask(q) ==
    /\ runner[q].at = "generate"
    /\ IF allowed \/ q \in skilled
       THEN ran' = ran \cup {Hold(q)} /\ Move(q, "resume") /\ UNCHANGED pending
       ELSE pending' = pending \cup {Hold(q)} /\ Move(q, "asking") /\ UNCHANGED ran
    /\ UNCHANGED <<store, queues, cancelled, answer, allowed, skilled, send, call, stop, vouched, bounds>>

\* Request returns the answer.
Answered(q) ==
    /\ runner[q].at = "asking" /\ answer[Hold(q)] # "none"
    /\ pending' = pending \ {Hold(q)}
    /\ allowed' = (allowed \/ answer[Hold(q)] = "approve_always")
    /\ ran' = IF answer[Hold(q)] = "deny" THEN ran ELSE ran \cup {Hold(q)}
    /\ Move(q, "resume")
    /\ UNCHANGED <<store, queues, cancelled, answer, skilled, send, call, stop, vouched, bounds>>

\* Mutant: the gate takes an aborted request for an approval.
AbortedRuns(q) ==
    /\ runner[q].at = "asking" /\ Hold(q) \in cancelled
    /\ pending' = pending \ {Hold(q)}
    /\ ran' = ran \cup {Hold(q)}
    /\ Move(q, "resume")
    /\ UNCHANGED <<store, queues, cancelled, answer, allowed, skilled, send, call, stop, vouched, bounds>>

\* Mutant: a request waits for its answer and nothing else.
AbortedWaits(q) ==
    /\ Hold(q) \in cancelled
    /\ Answered(q)

\* Request returns the context's error; the tool does not run.
Aborted(q) ==
    /\ runner[q].at = "asking" /\ Hold(q) \in cancelled
    /\ pending' = pending \ {Hold(q)}
    /\ Move(q, "resume")
    /\ UNCHANGED <<store, queues, cancelled, answer, allowed, skilled, send, call, stop, ghosts, bounds>>

\* loop.Run ends with WriteFinalize.
Finalize(q, s) ==
    /\ runner[q].at \in {"generate", "resume"}
    /\ s \in {"completed", "error"} \cup (IF Hold(q) \in cancelled THEN {"cancelled"} ELSE {})
    /\ row' = [row EXCEPT ![Hold(q)] = s]
    /\ Move(q, "final")
    /\ UNCHANGED <<deleted, queues, cancelled, broker, send, call, stop, ghosts, bounds>>

\* The gate is released before auto-title and compaction.
Release(q) ==
    /\ runner[q].at = "final"
    /\ SetRunning(q, FALSE)
    /\ Move(q, "tail")
    /\ UNCHANGED <<store, current, made, cancelled, broker, send, call, stop, ghosts, bounds>>

EndTail(q) ==
    /\ runner[q].at = "tail"
    /\ Move(q, "ended")
    /\ UNCHANGED <<store, queues, cancelled, broker, send, call, stop, ghosts, bounds>>

\* A panic is recovered and the row rolled to error, whatever it was.
Panic(q) ==
    /\ runner[q].at \in {"load", "generate", "resume", "tail"}
    /\ row' = [row EXCEPT ![Hold(q)] = "error"]
    /\ Move(q, "ended")
    /\ UNCHANGED <<deleted, queues, cancelled, broker, send, call, stop, ghosts, bounds>>

\* The turn's context, its waiter and the stale q.cancel mean nothing any more.
Rest(q) ==
    /\ runner[q].at = "ended"
    /\ queue' = [queue EXCEPT ![q].running = FALSE, ![q].cancel = NoTurn]
    /\ runner' = [runner EXCEPT ![q] = Idle]
    /\ cancelled' = cancelled \ {Hold(q)}
    /\ answer' = [answer EXCEPT ![Hold(q)] = "none"]
    /\ ran' = ran \ {Hold(q)}
    /\ UNCHANGED <<store, current, made, pending, allowed, skilled, send, call, stop, vouched, bounds>>

Runner(q) ==
    \/ Dequeue(q) \/ ExitOnStop(q) \/ TearDown(q) \/ Take(q) \/ Register(q) \/ Load(q)
    \/ FailTurn(q) \/ Answered(q) \/ Aborted(q) \/ Release(q) \/ EndTail(q) \/ Rest(q)
    \/ \E s \in Rows : Finalize(q, s)

\* ChatTurnSec: the turn's total wall clock.
Deadline(q) ==
    /\ runner[q].at \in {"load", "generate", "asking", "resume"} /\ Hold(q) \notin cancelled
    /\ cancelled' = cancelled \cup {Hold(q)}
    /\ UNCHANGED <<store, queues, runner, broker, send, call, stop, ghosts, bounds>>

\* Resolve: the answer goes to the waiter's buffer unless it holds one.
Resolve(m, a) ==
    /\ m \in pending /\ answer[m] = "none" /\ a # "none"
    /\ answer' = [answer EXCEPT ![m] = a]
    /\ vouched' = (vouched \/ a = "approve_always")
    /\ UNCHANGED <<store, queues, runner, cancelled, pending, allowed, skilled, send, call, stop, ran, bounds>>

-----------------------------------------------------------------------------
(***************************************************************************)
(* Cancel, conversation Delete, Shutdown and boot.                         *)
(***************************************************************************)
Continue(p, c) == call' = [call EXCEPT ![p] = c]

Begin(p, op) ==
    /\ call[p].at = "idle" /\ stop = "up" /\ ~deleted /\ calls < MaxCalls
    /\ calls' = calls + 1
    /\ Continue(p, [at |-> IF current = NoQueue THEN "drained" ELSE "cancel", op |-> op,
                    q |-> current, turn |-> NoTurn])
    /\ UNCHANGED <<store, queues, runner, cancelled, broker, send, stop, ghosts, crashes>>

\* q.cancel may be that of an earlier turn: cancelling it again does nothing.
CancelRunning(p) ==
    /\ call[p].at = "cancel"
    /\ cancelled' = cancelled \cup ({queue[call[p].q].cancel} \ {NoTurn})
    /\ Continue(p, [call[p] EXCEPT !.at = "drain"])
    /\ UNCHANGED <<store, queues, runner, broker, send, stop, ghosts, bounds>>

\* Mutant: the buffered turn is finalized where it is.
DrainInPlace(p) ==
    /\ call[p].at = "drain" /\ queue[call[p].q].ch # NoTurn
    /\ Continue(p, [call[p] EXCEPT !.at = "finalize", !.turn = queue[call[p].q].ch])
    /\ UNCHANGED <<store, queues, runner, cancelled, broker, send, stop, ghosts, bounds>>

\* Received without q.mu.
DrainOne(p) ==
    /\ call[p].at = "drain" /\ queue[call[p].q].ch # NoTurn
    /\ Continue(p, [call[p] EXCEPT !.at = "finalize", !.turn = queue[call[p].q].ch])
    /\ queue' = [queue EXCEPT ![call[p].q].ch = NoTurn]
    /\ UNCHANGED <<store, current, made, runner, cancelled, broker, send, stop, ghosts, bounds>>

FinalizeCancelled(p) ==
    /\ call[p].at = "finalize"
    /\ row' = [row EXCEPT ![call[p].turn] = "cancelled"]
    /\ Continue(p, [call[p] EXCEPT !.at = "drain", !.turn = NoTurn])
    /\ UNCHANGED <<deleted, queues, runner, cancelled, broker, send, stop, ghosts, bounds>>

Drained(p) ==
    /\ call[p].at = "drain" /\ queue[call[p].q].ch = NoTurn
    /\ Continue(p, [call[p] EXCEPT !.at = "drained"])
    /\ UNCHANGED <<store, queues, runner, cancelled, broker, send, stop, ghosts, bounds>>

\* Mutant: Cancel also drops the queue from the map.
ReturnForgets(p) ==
    /\ call[p].at = "drained"
    /\ current' = NoQueue
    /\ Continue(p, IdleCall)
    /\ UNCHANGED <<store, made, queue, runner, cancelled, broker, send, stop, ghosts, bounds>>

\* Cancel returns; Delete goes on to ForgetConversation, then SoftDelete.
Return(p) ==
    /\ call[p].at = "drained"
    /\ IF call[p].op = "cancel"
       THEN Continue(p, IdleCall) /\ UNCHANGED allowed
       ELSE Continue(p, [call[p] EXCEPT !.at = "delete"]) /\ allowed' = FALSE
    /\ UNCHANGED <<store, queues, runner, cancelled, pending, answer, skilled, send, stop, ghosts, bounds>>

SoftDelete(p) ==
    /\ call[p].at = "delete"
    /\ deleted' = TRUE
    /\ Continue(p, IdleCall)
    /\ UNCHANGED <<row, queues, runner, cancelled, broker, send, stop, ghosts, bounds>>

Caller(p) ==
    \/ CancelRunning(p) \/ DrainOne(p) \/ FinalizeCancelled(p) \/ Drained(p) \/ Return(p)
    \/ SoftDelete(p)

\* The HTTP server has drained: no request is in progress.
CloseStop ==
    /\ stop = "up"
    /\ \A m \in Turns : send[m].at \in {"new", "done"}
    /\ \A p \in Callers : call[p].at = "idle"
    /\ stop' = "closed"
    /\ UNCHANGED <<store, queues, runner, cancelled, broker, send, call, ghosts, bounds>>

\* queues.Range; wg.Wait follows.
CancelAll ==
    /\ stop = "closed"
    /\ stop' = "cancelled"
    /\ cancelled' = IF current = NoQueue THEN cancelled
                     ELSE cancelled \cup ({queue[current].cancel} \ {NoTurn})
    /\ UNCHANGED <<store, queues, runner, broker, send, call, ghosts, bounds>>

\* A fresh process; a Send in progress is lost.
Restart ==
    /\ crashes < MaxCrashes /\ crashes' = crashes + 1
    /\ current' = NoQueue /\ made' = 0
    /\ queue' = [q \in Queues |-> NewQueue]
    /\ runner' = [q \in Queues |-> Unmade]
    /\ cancelled' = {}
    /\ pending' = {} /\ allowed' = FALSE /\ skilled' = {}
    /\ answer' = [m \in Turns |-> "none"]
    /\ ran' = {} /\ vouched' = FALSE
    /\ send' = [m \in Turns |-> IF send[m].at = "new" THEN send[m] ELSE Left("done")]
    /\ call' = [p \in Callers |-> IdleCall]
    /\ stop' = "up"
    /\ UNCHANGED <<deleted, calls>>

\* A crash, or the exit after Shutdown, then a boot: SweepOrphans cancels the
\* turns that were left streaming.
CrashAndBoot ==
    /\ Restart
    /\ row' = [m \in Turns |-> IF row[m] = "streaming" THEN "cancelled" ELSE row[m]]

Next ==
    \/ \E m \in Turns : Open(m) \/ Sender(m)
    \/ \E q \in Queues : Runner(q) \/ Expire(q) \/ ActivateSkill(q) \/ Ask(q) \/ Panic(q) \/ Deadline(q)
    \/ \E m \in Turns, a \in Answers : Resolve(m, a)
    \/ \E p \in Callers, op \in {"cancel", "delete"} : Begin(p, op)
    \/ \E p \in Callers : Caller(p)
    \/ CloseStop \/ CancelAll \/ CrashAndBoot

Spec == Init /\ [][Next]_vars

(***************************************************************************)
(* Goroutines go on, and the wall clock of a turn runs out. Humans do not  *)
(* have to answer.                                                         *)
(***************************************************************************)
FairSpec ==
    /\ Spec
    /\ \A m \in Turns : WF_vars(Sender(m))
    /\ \A q \in Queues : WF_vars(Runner(q)) /\ WF_vars(Deadline(q))
    /\ \A p \in Callers : WF_vars(Caller(p))

-----------------------------------------------------------------------------
TypeOK ==
    /\ row \in [Turns -> Rows]
    /\ deleted \in BOOLEAN
    /\ current \in 0..MaxQueues
    /\ made \in 0..MaxQueues
    /\ queue \in [Queues -> [ch : Turns \cup {NoTurn}, running : BOOLEAN, dead : BOOLEAN,
                             cancel : Turns \cup {NoTurn}]]
    /\ runner \in [Queues -> [at : {"unmade", "idle", "expired", "got", "begin", "load", "generate",
                                    "asking", "resume", "final", "tail", "ended", "exited"},
                              turn : Turns \cup {NoTurn}]]
    /\ cancelled \in SUBSET Turns
    /\ pending \in SUBSET Turns
    /\ answer \in [Turns -> Answers]
    /\ allowed \in BOOLEAN /\ skilled \in SUBSET Queues
    /\ send \in [Turns -> [at : {"new", "open", "offer", "refused", "done"}, q : 0..MaxQueues]]
    /\ call \in [Callers -> [at : {"idle", "cancel", "drain", "finalize", "drained", "delete"},
                             op : {"cancel", "delete"}, q : 0..MaxQueues,
                             turn : Turns \cup {NoTurn}]]
    /\ stop \in {"up", "closed", "cancelled"}
    /\ ran \in SUBSET Turns /\ vouched \in BOOLEAN
    /\ calls \in Nat /\ crashes \in Nat

Busy(q) == runner[q].at \in {"begin", "load", "generate", "asking", "resume", "final", "tail", "ended"}

\* One goroutine generates or compacts at a time, queues torn down and made
\* again included (runner.go runQueue "one assistant turn at a time").
OneTurnAtATime == \A q, r \in Queues : Busy(q) /\ Busy(r) => q = r

\* A streaming row always has someone who will end it, until Shutdown
\* (chat.go enqueue "a task can never land in a channel nobody will ever read").
NothingStranded ==
    stop = "up" => \A m \in Turns : row[m] = "streaming" =>
        \/ send[m].at \in {"open", "offer", "refused"}
        \/ \E q \in Queues : queue[q].ch = m /\ runner[q].at \notin {"unmade", "exited"}
        \/ \E q \in Queues : runner[q].turn = m
        \/ \E p \in Callers : call[p].turn = m

\* A turn that was refused, cancelled in the queue or ended is never generated:
\* a task is run or dropped, not both (chat.go Cancel).
RunsOpenTurns ==
    \A q \in Queues : runner[q].at \in {"got", "begin", "load", "generate", "asking", "resume"} =>
        row[Hold(q)] = "streaming"

\* A tool the model itself reports as dangerous ran in a turn only on a human's
\* approval, in this turn or for the whole conversation, or because a skill active
\* in this very queue pre-approves it: never after a denial or an aborted prompt
\* (tools.go dispatchWithGate "interrupt-before-side-effect").
GatedToolsAskFirst ==
    \A m \in ran :
        \/ vouched \/ answer[m] \in {"approve", "approve_always"}
        \/ \E q \in skilled : runner[q].turn = m

\* A prompt on show belongs to a turn that is waiting for it (humanloop.go Request).
PromptsAreLive ==
    \A m \in pending : \E q \in Queues : runner[q] = [at |-> "asking", turn |-> m]

\* Every turn ends: no bubble spins for ever, though nobody answers
\* (runner.go processTask "a TOTAL wall clock on the turn").
TurnsEnd == \A m \in Turns : row[m] = "streaming" ~> (row[m] # "streaming" \/ stop # "up")

\* Shutdown's Wait returns.
ShutdownReturns == stop = "closed" ~> \A q \in Queues : runner[q].at \in {"unmade", "exited"}
=============================================================================
