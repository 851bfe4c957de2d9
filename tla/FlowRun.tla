------------------------------ MODULE FlowRun ------------------------------
(***************************************************************************)
(* The durable run engine of app/scheduler over infra/store/flowrun: runs  *)
(* of one workflow, driven by Advance from a worker pool and from manual   *)
(* callers, next to the firing drain, the approval timer, kill, replay,    *)
(* shutdown, crash and boot recovery.                                      *)
(*                                                                         *)
(* A process is a goroutine. A step is what runs between two points where  *)
(* others can interleave: one SQL statement or transaction (the store has  *)
(* a single connection), one critical section of advMu or inflightMu, or   *)
(* the start and the end of a node's activity. pc names the next step.     *)
(***************************************************************************)
EXTENDS Walk

CONSTANTS
    Runs,        \* flowrun ids
    Workers,     \* pool goroutines (pool.go advanceWorkers)
    Callers,     \* request goroutines: HTTP handlers and chat tools
    Drain,       \* drainLoop goroutine
    Timer,       \* timeoutLoop goroutine
    Boot,        \* boot goroutine
    NoProc,      \* absent cancel func in the inflight map
    NoRun,       \* no run in hand
    G,           \* the workflow's frozen graph
    OnTimeout,   \* approval node -> "never" | "reject" | "approve" | "fail"
    Budget       \* bound on each of Faults

Procs == Workers \cup Callers \cup {Drain, Timer, Boot}
Faults == {"crash", "stop", "kill", "replay", "disconnect"}

ASSUME ProcsAssumption ==
    /\ Workers \cap Callers = {}
    /\ {Drain, Timer, Boot} \cap (Workers \cup Callers) = {}
    /\ Drain # Timer /\ Timer # Boot /\ Boot # Drain
    /\ NoProc \notin Procs
ASSUME RunsAssumption == NoRun \notin Runs
ASSUME GraphAssumption ==
    /\ G.nodes \in Seq(NodeIds(G))
    /\ G.kind \in [NodeIds(G) -> Kinds]
    /\ G.edges \in Seq({G.edges[e] : e \in EdgeIds(G)})
    /\ \A e \in EdgeIds(G) : {G.edges[e].from, G.edges[e].to} \subseteq NodeIds(G)
ASSUME BudgetAssumption == Budget \in [Faults -> Nat]

Back == BackEdges(G)
NoRows == [k \in Keys(G) |-> NoRow]

VARIABLES
    \* durable: the flowruns and flowrun_nodes tables
    status,      \* run -> "none" or FlowRun.Status
    frn,         \* run -> key -> row
    \* pool.go, kill.go: the in-memory maps of the scheduler
    inProgress,  \* advInProgress
    pending,     \* advPending
    queued,      \* advQueued
    queue,       \* advQueue
    inflight,    \* run -> the process whose child context is registered
    \* goroutine-local
    pc, at,      \* next step, run in hand
    mem,         \* Advance: the carried rows slice
    todo,        \* Advance: what is left of the batch of ready nodes
    advanced,    \* Advance: processes whose batch completed a node
    staleRows,   \* Advance: processes that met a record-once conflict
    list,        \* runs left to enqueue (Drain, Boot) or to kill (callers)
    due,         \* parked nodes left to settle (Timer)
    \* contexts
    baseDead,    \* callers whose request context is cancelled
    childDead,   \* drivers whose trackInflight context is cancelled
    \* the whole process
    phase,       \* "down", "boot", "up", and the steps of Shutdown
    used         \* faults so far, bounded by Budget

durable == <<status, frn>>
pool == <<inProgress, pending, queued, queue>>
walkVars == <<mem, todo, advanced, staleRows>>
sweeps == <<list, due>>
ctxs == <<inflight, baseDead, childDead>>
system == <<phase, used>>
vars == <<durable, pool, walkVars, sweeps, ctxs, system, pc, at>>

-----------------------------------------------------------------------------
Running == {r \in Runs : status[r] = "running"}
ParkedKeys(r) == {k \in Keys(G) : frn[r][k].status = "parked"}
\* Mutant: the conditional update misses its condition on the row's status.
AnyRowAt(r, n) == {k \in Keys(G) : k[1] = n /\ HasRow(frn[r], k)}

ParkedAt(r, n) == {k \in ParkedKeys(r) : k[1] = n}
FailedKeys(r) == {k \in Keys(G) : frn[r][k].status = "failed"}

DrivePCs == {"getrun", "load", "walk", "node", "exec", "batch",
             "final", "complete", "fail", "end"}
KillPCs == {"kill", "killpark", "killcancel"}
ReplayPCs == {"replayclear", "replayread", "replaymark"}
PCs == DrivePCs \cup KillPCs \cup ReplayPCs \cup
       {"idle", "feed", "drive", "enqueue", "send", "tfail"}

Alive(p) == p \notin baseDead \cup childDead
Goto(p, l) == pc' = [pc EXCEPT ![p] = l]
Home(p) == IF p \in {Drain, Boot} THEN "feed" ELSE "idle"
Spend(f) == used[f] < Budget[f] /\ used' = [used EXCEPT ![f] = @ + 1]

\* MarkRunTerminal: UPDATE ... WHERE status = 'running', first writer wins.
MarkRunTerminal(r, s) ==
    status' = IF status[r] = "running" THEN [status EXCEPT ![r] = s] ELSE status

\* One UPDATE or DELETE statement over the rows S of run r.
UpdateRows(r, S, row) ==
    frn' = [frn EXCEPT ![r] = [k \in Keys(G) |-> IF k \in S THEN row ELSE frn[r][k]]]

Init ==
    /\ status = [r \in Runs |-> "none"]
    /\ frn = [r \in Runs |-> NoRows]
    /\ inProgress = {} /\ pending = {} /\ queued = {} /\ queue = << >>
    /\ inflight = [r \in Runs |-> NoProc]
    /\ pc = [p \in Procs |-> "idle"]
    /\ at = [p \in Procs |-> NoRun]
    /\ mem = [p \in Procs |-> NoRows]
    /\ todo = [p \in Procs |-> {}]
    /\ advanced = {} /\ staleRows = {}
    /\ list = [p \in Procs |-> {}]
    /\ due = {}
    /\ baseDead = {} /\ childDead = {}
    /\ phase = "down"
    /\ used = [f \in Faults |-> 0]

-----------------------------------------------------------------------------
(***************************************************************************)
(* pool.go drive: single flight. A second driver leaves a redrive mark.    *)
(***************************************************************************)
\* Mutant: the guard is not consulted.
DriveUnguarded(p) ==
    /\ pc[p] = "drive"
    /\ queued' = queued \ {at[p]}
    /\ inProgress' = inProgress \cup {at[p]}
    /\ Goto(p, "getrun")
    /\ UNCHANGED <<durable, pending, queue, walkVars, sweeps, ctxs, system, at>>

Drive(p) ==
    LET r == at[p]
    IN  /\ pc[p] = "drive"
        /\ queued' = queued \ {r}
        /\ IF r \in inProgress
           THEN /\ pending' = pending \cup {r}
                /\ at' = [at EXCEPT ![p] = NoRun]
                /\ Goto(p, Home(p))
                /\ UNCHANGED inProgress
           ELSE /\ inProgress' = inProgress \cup {r}
                /\ Goto(p, "getrun")
                /\ UNCHANGED <<pending, at>>
        /\ UNCHANGED <<durable, queue, walkVars, sweeps, ctxs, system>>

\* Advance's entry check, before any cancel func is registered.
GetRun(p) ==
    /\ pc[p] = "getrun"
    /\ Goto(p, IF p \notin baseDead /\ status[at[p]] = "running" THEN "load" ELSE "end")
    /\ UNCHANGED <<durable, pool, walkVars, sweeps, ctxs, system, at>>

\* trackInflight, then the one read of the run's rows.
Load(p) ==
    /\ pc[p] = "load"
    /\ inflight' = [inflight EXCEPT ![at[p]] = p]
    /\ childDead' = childDead \ {p}
    /\ IF p \in baseDead
       THEN Goto(p, "end") /\ UNCHANGED mem
       ELSE Goto(p, "walk") /\ mem' = [mem EXCEPT ![p] = frn[at[p]]]
    /\ UNCHANGED <<durable, pool, todo, advanced, staleRows, sweeps, baseDead, system, at>>

\* Mutant: every reached node without a row is dispatched, ready or not.
WalkTurnEager(p) ==
    LET reached == {k \in Reached(G, Back, mem[p]) : ~HasRow(mem[p], k)}
    IN  /\ pc[p] = "walk"
        /\ todo' = [todo EXCEPT ![p] = IF Alive(p) THEN reached ELSE {}]
        /\ Goto(p, IF ~Alive(p) THEN "end" ELSE IF reached = {} THEN "final" ELSE "node")
        /\ advanced' = advanced \ {p}
        /\ staleRows' = staleRows \ {p}
        /\ UNCHANGED <<durable, pool, mem, sweeps, ctxs, system, at>>

\* One turn: the context check, then computeReady over the carried rows.
WalkTurn(p) ==
    LET ready == Ready(G, Back, mem[p])
        runaway == Overflow(G, Back, mem[p])
    IN  /\ pc[p] = "walk"
        /\ todo' = [todo EXCEPT ![p] = IF Alive(p) /\ ~runaway THEN ready ELSE {}]
        /\ \/ ~Alive(p) /\ Goto(p, "end")
           \/ Alive(p) /\ runaway /\ Goto(p, "fail")
           \/ Alive(p) /\ ~runaway /\ Goto(p, IF ready = {} THEN "final" ELSE "node")
        /\ advanced' = advanced \ {p}
        /\ staleRows' = staleRows \ {p}
        /\ UNCHANGED <<durable, pool, mem, sweeps, ctxs, system, at>>

\* runNode dispatches the next node of the batch; a cancelled context dispatches
\* nothing: the call fails and so does the failed row's INSERT.
BeginNode(p) ==
    /\ pc[p] = "node"
    /\ Goto(p, IF Alive(p) THEN "exec" ELSE "end")
    /\ UNCHANGED <<durable, pool, walkVars, sweeps, ctxs, system, at>>

\* Mutant: the row goes to the table and not to the carried rows.
FinishNodeForgets(p) ==
    LET r == at[p]
        k == First(G, todo[p])
    IN  /\ pc[p] = "exec"
        /\ Alive(p)
        /\ \E row \in DispatchRows(G, k[1]) :
              /\ frn' = IF HasRow(frn[r], k) THEN frn ELSE [frn EXCEPT ![r][k] = row]
              /\ advanced' = IF row.status = "completed" THEN advanced \cup {p} ELSE advanced
        /\ todo' = [todo EXCEPT ![p] = @ \ {k}]
        /\ Goto(p, IF todo[p] = {k} THEN "batch" ELSE "node")
        /\ UNCHANGED <<status, pool, mem, staleRows, sweeps, ctxs, system, at>>

\* The activity returned and writeNode INSERTs its row, record-once: an existing
\* row wins and the carried rows are marked stale.
FinishNode(p) ==
    LET r == at[p]
        k == First(G, todo[p])
    IN  /\ pc[p] = "exec"
        /\ Alive(p)
        /\ \E row \in DispatchRows(G, k[1]) :
              /\ IF HasRow(frn[r], k)
                 THEN /\ staleRows' = staleRows \cup {p}
                      /\ UNCHANGED <<frn, mem>>
                 ELSE /\ frn' = [frn EXCEPT ![r][k] = row]
                      /\ mem' = [mem EXCEPT ![p][k] = row]
                      /\ UNCHANGED staleRows
              /\ advanced' = IF row.status = "completed" THEN advanced \cup {p} ELSE advanced
        /\ todo' = [todo EXCEPT ![p] = @ \ {k}]
        /\ Goto(p, IF todo[p] = {k} THEN "batch" ELSE "node")
        /\ UNCHANGED <<status, pool, sweeps, ctxs, system, at>>

\* failNode, first statement: the failed row; the run is marked next.
FailNode(p) ==
    LET r == at[p]
        k == First(G, todo[p])
    IN  /\ pc[p] = "exec"
        /\ Alive(p)
        /\ frn' = IF HasRow(frn[r], k) THEN frn
                  ELSE [frn EXCEPT ![r][k] = Row("failed", NoPort)]
        /\ Goto(p, "fail")
        /\ UNCHANGED <<status, pool, walkVars, sweeps, ctxs, system, at>>

\* The activity was interrupted: every statement on the dead context errors.
AbortNode(p) ==
    /\ pc[p] = "exec"
    /\ ~Alive(p)
    /\ Goto(p, "end")
    /\ UNCHANGED <<durable, pool, walkVars, sweeps, ctxs, system, at>>

\* End of a batch: re-read after a conflict; yield if every node parked.
EndBatch(p) ==
    LET reread == p \in staleRows
    IN  /\ pc[p] = "batch"
        /\ mem' = IF reread /\ Alive(p) THEN [mem EXCEPT ![p] = frn[at[p]]] ELSE mem
        /\ Goto(p, IF reread /\ ~Alive(p) THEN "end"
                   ELSE IF p \in advanced THEN "walk" ELSE "final")
        /\ UNCHANGED <<durable, pool, todo, advanced, staleRows, sweeps, ctxs, system, at>>

\* Mutant: finalize does not look for parked nodes.
FinalizeBlindly(p) ==
    /\ pc[p] = "final"
    /\ Goto(p, IF Alive(p) THEN "complete" ELSE "end")
    /\ UNCHANGED <<durable, pool, walkVars, sweeps, ctxs, system, at>>

\* finalize re-reads the table: still running if a node is parked.
Finalize(p) ==
    /\ pc[p] = "final"
    /\ Goto(p, IF Alive(p) /\ ParkedKeys(at[p]) = {} THEN "complete" ELSE "end")
    /\ UNCHANGED <<durable, pool, walkVars, sweeps, ctxs, system, at>>

\* markRunTerminal by the driver: completed from finalize, failed otherwise.
Settle(p) ==
    /\ pc[p] \in {"complete", "fail"}
    /\ IF Alive(p)
       THEN MarkRunTerminal(at[p], IF pc[p] = "complete" THEN "completed" ELSE "failed")
       ELSE UNCHANGED status
    /\ Goto(p, "end")
    /\ UNCHANGED <<frn, pool, walkVars, sweeps, ctxs, system, at>>

\* Mutant: the redrive mark is dropped.
EndAdvanceOnce(p) ==
    LET r == at[p]
    IN  /\ pc[p] = "end"
        /\ inflight' = [inflight EXCEPT ![r] = NoProc]
        /\ childDead' = childDead \ {p}
        /\ pending' = pending \ {r}
        /\ inProgress' = inProgress \ {r}
        /\ Goto(p, Home(p))
        /\ at' = [at EXCEPT ![p] = NoRun]
        /\ mem' = [mem EXCEPT ![p] = NoRows]
        /\ todo' = [todo EXCEPT ![p] = {}]
        /\ advanced' = advanced \ {p}
        /\ staleRows' = staleRows \ {p}
        /\ UNCHANGED <<durable, queued, queue, sweeps, baseDead, system>>

\* Advance's deferred release, then drive's exit check under advMu.
EndAdvance(p) ==
    LET r == at[p]
        again == r \in pending /\ p \notin baseDead
    IN  /\ pc[p] = "end"
        /\ inflight' = [inflight EXCEPT ![r] = NoProc]
        /\ childDead' = childDead \ {p}
        /\ pending' = pending \ {r}
        /\ inProgress' = IF again THEN inProgress ELSE inProgress \ {r}
        /\ Goto(p, IF again THEN "getrun" ELSE Home(p))
        /\ at' = IF again THEN at ELSE [at EXCEPT ![p] = NoRun]
        /\ mem' = [mem EXCEPT ![p] = NoRows]
        /\ todo' = [todo EXCEPT ![p] = {}]
        /\ advanced' = advanced \ {p}
        /\ staleRows' = staleRows \ {p}
        /\ UNCHANGED <<durable, queued, queue, sweeps, baseDead, system>>

Advance(p) ==
    \/ GetRun(p) \/ Load(p) \/ WalkTurn(p) \/ BeginNode(p)
    \/ FinishNode(p) \/ FailNode(p) \/ AbortNode(p)
    \/ EndBatch(p) \/ Finalize(p) \/ Settle(p) \/ EndAdvance(p)

-----------------------------------------------------------------------------
(***************************************************************************)
(* The pool's queue.                                                       *)
(***************************************************************************)
\* enqueueAdvance by p for run r, under advMu. With the pool stopped the caller
\* drives inline; a run in progress gets a redrive mark; a queued one nothing.
EnqueueAdvance(p, r) ==
    /\ IF phase = "closed"
       THEN /\ Goto(p, "drive")
            /\ at' = [at EXCEPT ![p] = r]
            /\ UNCHANGED <<pending, queued>>
       ELSE IF r \in inProgress \cup queued
       THEN /\ pending' = IF r \in inProgress THEN pending \cup {r} ELSE pending
            /\ Goto(p, Home(p))
            /\ at' = [at EXCEPT ![p] = NoRun]
            /\ UNCHANGED queued
       ELSE /\ queued' = queued \cup {r}
            /\ Goto(p, "send")
            /\ at' = [at EXCEPT ![p] = r]
            /\ UNCHANGED pending
    /\ UNCHANGED <<inProgress, queue>>

\* sendJob: a send on the closed queue panics and is dropped.
Send(p) ==
    LET r == at[p]
    IN  /\ pc[p] = "send"
        /\ IF phase = "closed"
           THEN queued' = queued \ {r} /\ UNCHANGED queue
           ELSE queue' = Append(queue, r) /\ UNCHANGED queued
        /\ Goto(p, Home(p))
        /\ at' = [at EXCEPT ![p] = NoRun]
        /\ UNCHANGED <<durable, inProgress, pending, walkVars, sweeps, ctxs, system>>

\* A worker takes a job; a closed queue still delivers what it holds.
TakeJob(w) ==
    /\ w \in Workers
    /\ pc[w] = "idle"
    /\ queue # << >>
    /\ at' = [at EXCEPT ![w] = Head(queue)]
    /\ queue' = Tail(queue)
    /\ Goto(w, "drive")
    /\ UNCHANGED <<durable, inProgress, pending, queued, walkVars, sweeps, ctxs, system>>

\* Recover and DrainFirings phase 2: enqueue the next listed run.
Feed(p) ==
    /\ pc[p] = "feed"
    /\ \E r \in list[p] :
          /\ EnqueueAdvance(p, r)
          /\ list' = [list EXCEPT ![p] = @ \ {r}]
    /\ UNCHANGED <<durable, walkVars, due, ctxs, system>>

-----------------------------------------------------------------------------
(***************************************************************************)
(* Manual paths, on a request goroutine and its context.                   *)
(***************************************************************************)
Idle(p) == phase = "up" /\ pc[p] = "idle"

\* A request begins on a context of its own.
Accept(p) ==
    /\ p \in Callers /\ Idle(p)
    /\ baseDead' = baseDead \ {p}

\* SeedRunOnTx: the run header and its completed trigger row in one transaction.
SeedRun(r, entry) ==
    /\ status[r] = "none"
    /\ G.kind[entry] = "trigger"
    /\ status' = [status EXCEPT ![r] = "running"]
    /\ frn' = [frn EXCEPT ![r][<<entry, 0>>] = Row("completed", NoPort)]

StartRun(p, r, entry) ==
    /\ Accept(p)
    /\ SeedRun(r, entry)
    /\ at' = [at EXCEPT ![p] = r]
    /\ Goto(p, "drive")
    /\ UNCHANGED <<pool, walkVars, sweeps, inflight, childDead, system>>

\* ResolveParkedNode matches on run, node and 'parked': the iteration is not
\* part of the condition, nor is the run's status.
DecideApproval(p, r, n, decision) ==
    /\ Accept(p)
    /\ ParkedAt(r, n) # {}
    /\ UpdateRows(r, ParkedAt(r, n), Row("completed", decision))
    /\ at' = [at EXCEPT ![p] = r]
    /\ Goto(p, "drive")
    /\ UNCHANGED <<status, pool, walkVars, sweeps, inflight, childDead, system>>

\* Replay: GetRun's check, DeleteFailedNodes, ReopenForReplay's own read, and
\* its UPDATE, which carries no condition on the status.
Replay(p, r) ==
    /\ Accept(p)
    /\ status[r] = "failed"
    /\ Spend("replay")
    /\ at' = [at EXCEPT ![p] = r]
    /\ Goto(p, "replayclear")
    /\ UNCHANGED <<durable, pool, walkVars, sweeps, inflight, childDead, phase>>

ReplayClear(p) ==
    /\ pc[p] = "replayclear"
    /\ IF Alive(p)
       THEN /\ UpdateRows(at[p], FailedKeys(at[p]), NoRow)
            /\ Goto(p, "replayread")
            /\ UNCHANGED at
       ELSE /\ Goto(p, "idle")
            /\ at' = [at EXCEPT ![p] = NoRun]
            /\ UNCHANGED frn
    /\ UNCHANGED <<status, pool, walkVars, sweeps, ctxs, system>>

ReplayRead(p) ==
    /\ pc[p] = "replayread"
    /\ IF Alive(p) /\ status[at[p]] = "failed"
       THEN Goto(p, "replaymark") /\ UNCHANGED at
       ELSE Goto(p, "idle") /\ at' = [at EXCEPT ![p] = NoRun]
    /\ UNCHANGED <<durable, pool, walkVars, sweeps, ctxs, system>>

ReplayMark(p) ==
    /\ pc[p] = "replaymark"
    /\ IF Alive(p)
       THEN /\ status' = [status EXCEPT ![at[p]] = "running"]
            /\ Goto(p, "drive")
            /\ UNCHANGED at
       ELSE /\ Goto(p, "idle")
            /\ at' = [at EXCEPT ![p] = NoRun]
            /\ UNCHANGED status
    /\ UNCHANGED <<frn, pool, walkVars, sweeps, ctxs, system>>

-----------------------------------------------------------------------------
(***************************************************************************)
(* KillWorkflow (and cancelRunningForReplace, the same three statements):  *)
(* list the running runs, then for each: mark cancelled, resolve parked    *)
(* rows, cancel the registered context.                                    *)
(***************************************************************************)
KillWorkflow(p) ==
    /\ Accept(p)
    /\ Running # {}
    /\ Spend("kill")
    /\ list' = [list EXCEPT ![p] = Running]
    /\ Goto(p, "kill")
    /\ UNCHANGED <<durable, pool, walkVars, due, inflight, childDead, phase, at>>

KillMark(p) ==
    /\ pc[p] = "kill"
    /\ \E r \in list[p] :
          /\ list' = [list EXCEPT ![p] = @ \ {r}]
          /\ at' = [at EXCEPT ![p] = r]
          /\ IF Alive(p) THEN MarkRunTerminal(r, "cancelled") ELSE UNCHANGED status
    /\ Goto(p, "killpark")
    /\ UNCHANGED <<frn, pool, walkVars, due, ctxs, system>>

KillParked(p) ==
    /\ pc[p] = "killpark"
    /\ IF Alive(p)
       THEN UpdateRows(at[p], ParkedKeys(at[p]), Row("failed", NoPort))
       ELSE UNCHANGED frn
    /\ Goto(p, "killcancel")
    /\ UNCHANGED <<status, pool, walkVars, sweeps, ctxs, system, at>>

KillCancel(p) ==
    /\ pc[p] = "killcancel"
    /\ childDead' = childDead \cup ({inflight[at[p]]} \ {NoProc})
    /\ Goto(p, IF list[p] = {} THEN "idle" ELSE "kill")
    /\ at' = [at EXCEPT ![p] = NoRun]
    /\ UNCHANGED <<durable, pool, walkVars, sweeps, inflight, baseDead, system>>

\* The client goes away: the request context is cancelled.
Disconnect(p) ==
    /\ p \in Callers
    /\ pc[p] # "idle"
    /\ p \notin baseDead
    /\ Spend("disconnect")
    /\ baseDead' = baseDead \cup {p}
    /\ UNCHANGED <<durable, pool, walkVars, sweeps, inflight, childDead, phase, pc, at>>

-----------------------------------------------------------------------------
(***************************************************************************)
(* Background paths, on detached contexts.                                 *)
(***************************************************************************)
\* DrainFirings phase 1: a claim transaction seeds a running run.
ClaimFiring(r, entry) ==
    /\ Idle(Drain)
    /\ SeedRun(r, entry)
    /\ list' = [list EXCEPT ![Drain] = @ \cup {r}]
    /\ UNCHANGED <<pool, walkVars, due, ctxs, system, pc, at>>

BeginFeed ==
    /\ pc[Drain] = "idle"
    /\ list[Drain] # {}
    /\ Goto(Drain, "feed")
    /\ UNCHANGED <<durable, pool, walkVars, sweeps, ctxs, system, at>>

EndFeed ==
    /\ pc[Drain] = "feed"
    /\ list[Drain] = {}
    /\ Goto(Drain, "idle")
    /\ UNCHANGED <<durable, pool, walkVars, sweeps, ctxs, system, at>>

\* CheckTimeouts: the listed parked nodes that are past their deadline.
TimedNodes == {x \in Runs \X NodeIds(G) : ParkedAt(x[1], x[2]) # {} /\ OnTimeout[x[2]] # "never"}

CheckTimeouts(late) ==
    /\ Idle(Timer)
    /\ due = {}
    /\ late # {}
    /\ due' = late
    /\ UNCHANGED <<durable, pool, walkVars, list, ctxs, system, pc, at>>

\* The row a timeout leaves, by the approval's declared behaviour.
TimeoutRow(n) ==
    CASE OnTimeout[n] = "fail"    -> Row("failed", NoPort)
      [] OnTimeout[n] = "approve" -> Row("completed", "yes")
      [] OTHER                    -> Row("completed", "no")

\* Mutant: an approval that times out into a rejection is left to the human.
SettleTimeoutSkips ==
    /\ pc[Timer] = "idle"
    /\ \E x \in due :
          /\ due' = due \ {x}
          /\ IF ParkedAt(x[1], x[2]) = {} \/ OnTimeout[x[2]] = "reject"
             THEN UNCHANGED <<frn, pc, at>>
             ELSE /\ UpdateRows(x[1], ParkedAt(x[1], x[2]), TimeoutRow(x[2]))
                  /\ Goto(Timer, "tfail")
                  /\ at' = [at EXCEPT ![Timer] = x[1]]
    /\ UNCHANGED <<status, pool, walkVars, list, ctxs, system>>

\* settleTimeout, first statement: the same conditional update as a decision.
SettleTimeout ==
    /\ pc[Timer] = "idle"
    /\ \E x \in due :
          LET r == x[1]
              n == x[2]
          IN  /\ due' = due \ {x}
              /\ IF ParkedAt(r, n) = {}
                 THEN UNCHANGED <<frn, pc, at>>
                 ELSE /\ UpdateRows(r, ParkedAt(r, n), TimeoutRow(n))
                      /\ Goto(Timer, IF OnTimeout[n] = "fail" THEN "tfail" ELSE "enqueue")
                      /\ at' = [at EXCEPT ![Timer] = r]
    /\ UNCHANGED <<status, pool, walkVars, list, ctxs, system>>

TimeoutFail ==
    /\ pc[Timer] = "tfail"
    /\ MarkRunTerminal(at[Timer], "failed")
    /\ Goto(Timer, "idle")
    /\ at' = [at EXCEPT ![Timer] = NoRun]
    /\ UNCHANGED <<frn, pool, walkVars, sweeps, ctxs, system>>

TimeoutEnqueue ==
    /\ pc[Timer] = "enqueue"
    /\ EnqueueAdvance(Timer, at[Timer])
    /\ UNCHANGED <<durable, walkVars, sweeps, ctxs, system>>

-----------------------------------------------------------------------------
(***************************************************************************)
(* Boot, Shutdown and crash (bootstrap/build.go).                          *)
(***************************************************************************)
\* Mutant: boot starts the pool and recovers nothing.
StartBootEmpty ==
    /\ phase = "down" /\ pc[Boot] = "idle"
    /\ phase' = "boot"
    /\ Goto(Boot, "feed")
    /\ UNCHANGED <<durable, pool, walkVars, sweeps, ctxs, used, at>>

\* StartPool, then Recover lists the running runs; the server listens and the
\* tickers start only when every listed run is enqueued.
StartBoot ==
    /\ phase = "down" /\ pc[Boot] = "idle"
    /\ phase' = "boot"
    /\ list' = [list EXCEPT ![Boot] = Running]
    /\ Goto(Boot, "feed")
    /\ UNCHANGED <<durable, pool, walkVars, due, ctxs, used, at>>

EndBoot ==
    /\ phase = "boot"
    /\ pc[Boot] = "feed"
    /\ list[Boot] = {}
    /\ phase' = "up"
    /\ Goto(Boot, "idle")
    /\ UNCHANGED <<durable, pool, walkVars, sweeps, ctxs, used, at>>

\* Serve: cancel the base context of every request, stop the tickers' ticks.
BeginShutdown ==
    /\ phase = "up"
    /\ Spend("stop")
    /\ phase' = "grace"
    /\ baseDead' = baseDead \cup {p \in Callers : pc[p] # "idle"}
    /\ UNCHANGED <<durable, pool, walkVars, sweeps, inflight, childDead, pc, at>>

\* WaitPoolDrained returned (idle, or its grace expired); Shutdown cancels every
\* registered context and empties the map.
CancelAll ==
    /\ phase = "grace"
    /\ phase' = "cancelled"
    /\ childDead' = childDead \cup ({inflight[r] : r \in Runs} \ {NoProc})
    /\ inflight' = [r \in Runs |-> NoProc]
    /\ UNCHANGED <<durable, pool, walkVars, sweeps, baseDead, used, pc, at>>

StopPool ==
    /\ phase = "cancelled"
    /\ phase' = "closed"
    /\ UNCHANGED <<durable, pool, walkVars, sweeps, ctxs, used, pc, at>>

ResetMemory ==
    /\ phase' = "down"
    /\ inProgress' = {} /\ pending' = {} /\ queued' = {} /\ queue' = << >>
    /\ inflight' = [r \in Runs |-> NoProc]
    /\ pc' = [p \in Procs |-> "idle"]
    /\ at' = [p \in Procs |-> NoRun]
    /\ mem' = [p \in Procs |-> NoRows]
    /\ todo' = [p \in Procs |-> {}]
    /\ advanced' = {} /\ staleRows' = {}
    /\ list' = [p \in Procs |-> {}]
    /\ due' = {}
    /\ baseDead' = {} /\ childDead' = {}
    /\ UNCHANGED durable

\* StopPool's Wait returned: workers idle, queue drained. The process exits.
Exit ==
    /\ phase = "closed"
    /\ queue = << >>
    /\ \A w \in Workers : pc[w] = "idle"
    /\ ResetMemory
    /\ UNCHANGED used

Crash ==
    /\ phase # "down"
    /\ Spend("crash")
    /\ ResetMemory

-----------------------------------------------------------------------------
\* What a goroutine does once it has begun.
Continue(p) ==
    \/ Drive(p) \/ Advance(p) \/ Send(p) \/ TakeJob(p) \/ Feed(p)
    \/ ReplayClear(p) \/ ReplayRead(p) \/ ReplayMark(p)
    \/ KillMark(p) \/ KillParked(p) \/ KillCancel(p)

Ticks == BeginFeed \/ EndFeed \/ SettleTimeout \/ TimeoutFail \/ TimeoutEnqueue
Lifecycle == StartBoot \/ EndBoot \/ CancelAll \/ StopPool \/ Exit

Request(p) ==
    \/ \E r \in Runs, n \in NodeIds(G) :
          \/ StartRun(p, r, n)
          \/ \E d \in Approvals : DecideApproval(p, r, n, d)
    \/ \E r \in Runs : Replay(p, r)
    \/ KillWorkflow(p)
    \/ Disconnect(p)

Next ==
    \/ \E p \in Procs : Continue(p)
    \/ \E p \in Callers : Request(p)
    \/ \E r \in Runs, n \in NodeIds(G) : ClaimFiring(r, n)
    \/ \E late \in SUBSET TimedNodes : CheckTimeouts(late)
    \/ Ticks
    \/ Lifecycle
    \/ BeginShutdown
    \/ Crash

Spec == Init /\ [][Next]_vars

(***************************************************************************)
(* Every goroutine that has begun goes on, activities return, the tickers  *)
(* tick, and a stopped or crashed process is started again. Nothing is     *)
(* fair about requests, firings, kills, crashes and shutdowns.             *)
(***************************************************************************)
Sweep == CheckTimeouts(TimedNodes)

Fairness ==
    /\ \A p \in Procs : WF_vars(Continue(p))
    /\ WF_vars(BeginFeed \/ EndFeed)
    /\ WF_vars(SettleTimeout \/ TimeoutFail \/ TimeoutEnqueue)
    /\ WF_vars(Sweep)
    /\ WF_vars(Lifecycle)

FairSpec == Spec /\ Fairness

-----------------------------------------------------------------------------
TypeOK ==
    /\ status \in [Runs -> {"none", "running", "completed", "failed", "cancelled"}]
    /\ frn \in [Runs -> [Keys(G) -> Rows(G)]]
    /\ inProgress \in SUBSET Runs
    /\ pending \in SUBSET Runs
    /\ queued \in SUBSET Runs
    /\ queue \in Seq(Runs)
    /\ inflight \in [Runs -> Procs \cup {NoProc}]
    /\ pc \in [Procs -> PCs]
    /\ at \in [Procs -> Runs \cup {NoRun}]
    /\ mem \in [Procs -> [Keys(G) -> Rows(G)]]
    /\ todo \in [Procs -> SUBSET Keys(G)]
    /\ advanced \in SUBSET Procs
    /\ staleRows \in SUBSET Procs
    /\ list \in [Procs -> SUBSET Runs]
    /\ due \in SUBSET (Runs \X NodeIds(G))
    /\ baseDead \in SUBSET Procs
    /\ childDead \in SUBSET Procs
    /\ phase \in {"down", "boot", "up", "grace", "cancelled", "closed"}
    /\ used \in [Faults -> Nat]

-----------------------------------------------------------------------------
(***************************************************************************)
(* Safety.                                                                 *)
(***************************************************************************)
Driving(p) == pc[p] \in DrivePCs

\* At most one goroutine advances a run, whoever called drive (pool.go drive;
\* kill.go trackInflight relies on it for "at most one cancel per run").
SingleFlight ==
    \A p, q \in Procs : Driving(p) /\ Driving(q) /\ at[p] = at[q] => p = q

\* An activity never runs for a (node, iteration) that already has a row: not
\* on a redrive, not after a crash, not when callers and the pool race. This
\* is what makes the engine safe to call again (advance.go Advance).
NoRerun ==
    \A p \in Procs : pc[p] = "exec" => ~HasRow(frn[at[p]], First(G, todo[p]))

\* The rows a driver carries in memory never run ahead of the table: what it
\* believes completed is completed on disk, with the same outcome.
CarriedRowsDurable ==
    \A p \in Procs : Driving(p) =>
        \A k \in Keys(G) : Completed(mem[p], k) => frn[at[p]][k] = mem[p][k]

\* While the server is up, a running run that awaits no approval is in somebody's
\* hands: driven, queued, or about to be driven or failed. No wakeup is lost.
InHand(r) ==
    \/ r \in inProgress \cup queued
    \/ \E p \in Procs : at[p] = r /\ pc[p] \in {"drive", "enqueue", "send", "tfail"}
    \/ r \in list[Drain]
RunningHasOwner ==
    phase = "up" => \A r \in Running : ParkedKeys(r) = {} => InHand(r)

\* A completed run has nothing parked in the approval inbox (advance.go finalize).
CompletedHasNoParked ==
    \A r \in Runs : status[r] = "completed" => ParkedKeys(r) = {}

\* A run is completed only when the walk over its durable rows finds no further
\* work (advance.go finalize: "settles a run that has no ready nodes left").
CompletedIsExhausted ==
    \A r \in Runs : status[r] = "completed" => Ready(G, Back, frn[r]) = {}

-----------------------------------------------------------------------------
(***************************************************************************)
(* Action properties.                                                      *)
(***************************************************************************)
\* Record-once: a completed row is never changed nor removed (flowrun.go
\* InsertNodeResult, ResolveParkedNode, CancelParkedNodes, DeleteFailedNodes).
RecordOnce ==
    [][\A r \in Runs, k \in Keys(G) :
          Completed(frn[r], k) => frn'[r][k] = frn[r][k]]_vars

-----------------------------------------------------------------------------
(***************************************************************************)
(* Liveness.                                                               *)
(***************************************************************************)
Waits(r) == status[r] = "running" /\ ParkedKeys(r) = {}

\* A running run that waits for no human gets terminal or parked, across
\* crashes, restarts and shutdowns (run.go Recover).
RunsSettle == \A r \in Runs : Waits(r) ~> ~Waits(r)

\* A parked approval with a deadline is decided sooner or later (run.go
\* CheckTimeouts), whatever the pool is busy with.
TimedApprovalsSettle ==
    \A r \in Runs : \A n \in DOMAIN OnTimeout :
        OnTimeout[n] # "never" /\ ParkedAt(r, n) # {} ~> ParkedAt(r, n) = {}

-----------------------------------------------------------------------------
(***************************************************************************)
(* Refinement: the two tables, seen alone, behave as RunLedger promises.   *)
(***************************************************************************)
Ledger == INSTANCE RunLedger WITH status <- status, frn <- frn

\* Every step of every goroutine is one ledger step on the tables or none: in
\* particular a result computed over carried rows is recorded for a node that
\* is ready in the table of that moment (advance.go Advance, "converges").
RefinesLedger == Ledger!LSpec
=============================================================================
